---------------------------- MODULE BranchProofs ----------------------------
(***************************************************************************)
(* Theorems about the session tree: every event is on the branch of the    *)
(* message that caused it.                                                 *)
(***************************************************************************)
EXTENDS EntryProofs, WellFoundedInduction

-----------------------------------------------------------------------------
(* Induction over numbers, and the paths of a tree.                        *)

LEMMA LeastNumber ==
  ASSUME NEW S, S \subseteq Nat, S # {}
  PROVE  \E n \in S : \A m \in S : n <= m
  <1> DEFINE R == {ss \in Nat \X Nat : ss[1] < ss[2]}
  <1>1. IsWellFoundedOn(OpToRel(<, Nat), Nat) /\ OpToRel(<, Nat) = R
    BY NatLessThanWellFounded DEF OpToRel
  <1>2. IsWellFoundedOn(R, Nat)
    BY <1>1
  <1> HIDE DEF R
  <1>3. PICK n \in S : \A m \in S : ~(<<m, n>> \in R)
    BY <1>2, WFMin
  <1>4. \A m \in S : ~(m < n)
    BY <1>3 DEF R
  <1> QED
    BY <1>4

LEMMA UpToNumber ==
  ASSUME NEW L \in Nat, NEW S, \A n \in 0..L : (\A m \in 0..(n - 1) : m \in S) => n \in S
  PROVE  0..L \subseteq S
  <1> SUFFICES ASSUME ~(0..L \subseteq S) PROVE FALSE
    OBVIOUS
  <1>1. PICK n \in (0..L) \ S : \A m \in (0..L) \ S : n <= m
    <2>1. (0..L) \ S \subseteq Nat /\ (0..L) \ S # {}
      OBVIOUS
    <2> QED
      BY <2>1, LeastNumber
  <1> QED
    BY <1>1

(* The largest number of a bounded set.                                    *)
LEMMA MaxOf ==
  ASSUME NEW L \in Nat, NEW S, S \subseteq 0..L, S # {}
  PROVE  Max(S) \in S /\ \A n \in S : n <= Max(S)
  <1> DEFINE Above == {n \in 0..L : \A m \in S : m <= n}
  <1>0. Above \subseteq Nat /\ L \in Above
    OBVIOUS
  <1>1. PICK b \in Above : \A c \in Above : b <= c
    <2> HIDE DEF Above
    <2> QED
      BY <1>0, LeastNumber
  <1>2. b \in 0..L /\ \A m \in S : m \in 0..L /\ m <= b
    BY <1>1
  <1>3. b \in S
    <2>1. CASE b = 0
      <3>1. PICK m : m \in S
        OBVIOUS
      <3> QED
        BY <3>1, <2>1, <1>2
    <2>2. CASE b # 0 /\ b \notin S
      <3>1. b - 1 \in 0..L /\ \A m \in S : m <= b - 1
        BY <2>2, <1>2
      <3>2. b - 1 \in Above
        BY <3>1
      <3> QED
        BY <3>2, <1>1, <1>2
    <2> QED
      BY <2>1, <2>2
  <1> QED
    BY <1>2, <1>3 DEF Max

(* A function that each value of which is computed from earlier values.    *)
PathUpTo(tree, f, m) ==
  f = [n \in 0..m |-> IF n = 0 THEN <<>> ELSE Append(f[tree[n].parent], tree[n])]

LEMMA PathExists ==
  ASSUME NEW tree, Len(tree) \in Nat, \A i \in 1..Len(tree) : tree[i].parent \in 0..(i - 1)
  PROVE  \A m \in 0..Len(tree) : \E f : PathUpTo(tree, f, m)
  <1> DEFINE S == {m \in 0..Len(tree) : \E f : PathUpTo(tree, f, m)}
  <1>1. ASSUME NEW m \in 0..Len(tree), \A k \in 0..(m - 1) : k \in S
        PROVE  \E f : PathUpTo(tree, f, m)
    <2>1. CASE m = 0
      <3>1. PathUpTo(tree, [n \in 0..0 |-> <<>>], 0)
        BY DEF PathUpTo
      <3> QED
        BY <3>1, <2>1
    <2>2. CASE m # 0
      <3>1. PICK g : PathUpTo(tree, g, m - 1)
        BY <2>2, <1>1
      <3> DEFINE f == [n \in 0..m |-> IF n = m THEN Append(g[tree[m].parent], tree[m]) ELSE g[n]]
      <3>2. \A n \in 0..(m - 1) :
              g[n] = IF n = 0 THEN <<>> ELSE Append(g[tree[n].parent], tree[n])
        BY <3>1 DEF PathUpTo
      <3>3. \A n \in 1..m : tree[n].parent \in 0..m /\ tree[n].parent # m /\ tree[n].parent < n
        OBVIOUS
      <3>4. ASSUME NEW n \in 0..m
            PROVE  f[n] = IF n = 0 THEN <<>> ELSE Append(f[tree[n].parent], tree[n])
        BY <2>2, <3>2, <3>3
      <3>5. PathUpTo(tree, f, m)
        BY <3>4 DEF PathUpTo
      <3> QED
        BY <3>5
    <2> QED
      BY <2>1, <2>2
  <1>2. \A m \in 0..Len(tree) : (\A k \in 0..(m - 1) : k \in S) => m \in S
    BY <1>1
  <1>3. 0..Len(tree) \subseteq S
    <2> HIDE DEF S
    <2> QED
      BY <1>2, UpToNumber
  <1> QED
    BY <1>3

LEMMA PathSteps ==
  ASSUME NEW tree, Len(tree) \in Nat, \A i \in 1..Len(tree) : tree[i].parent \in 0..(i - 1)
  PROVE  /\ Path(tree, 0) = <<>>
         /\ \A n \in 1..Len(tree) : Path(tree, n) = Append(Path(tree, tree[n].parent), tree[n])
  <1> DEFINE path == CHOOSE f : PathUpTo(tree, f, Len(tree))
  <1>1. PathUpTo(tree, path, Len(tree))
    BY PathExists
  <1>2. \A n : Path(tree, n) = path[n]
    BY DEF Path, PathUpTo
  <1> HIDE DEF path
  <1>3. \A n \in 0..Len(tree) :
          path[n] = IF n = 0 THEN <<>> ELSE Append(path[tree[n].parent], tree[n])
    BY <1>1 DEF PathUpTo
  <1>4. Path(tree, 0) = <<>>
    BY <1>2, <1>3
  <1>5. ASSUME NEW n \in 1..Len(tree)
        PROVE  Path(tree, n) = Append(Path(tree, tree[n].parent), tree[n])
    <2>1. n \in 0..Len(tree) /\ n # 0
      OBVIOUS
    <2>2. path[n] = Append(path[tree[n].parent], tree[n])
      BY <2>1, <1>3, Zenon
    <2> QED
      BY <2>2, <1>2
  <1> QED
    BY <1>4, <1>5

LEMMA UserIdsAppend ==
  ASSUME NEW branch, IsTree(branch), NEW node
  PROVE  /\ UserIds(Append(branch, node)) =
              UserIds(branch) \union (IF IsUser(node) THEN {node.id} ELSE {})
         /\ UserIds(<<>>) = {}
  <1>1. /\ IsTree(Append(branch, node)) /\ Len(Append(branch, node)) = Len(branch) + 1
        /\ \A i \in 1..Len(branch) : Append(branch, node)[i] = branch[i]
        /\ Append(branch, node)[Len(branch) + 1] = node
    BY TreeIsSeq
  <1>2. DOMAIN branch = 1..Len(branch) /\ DOMAIN Append(branch, node) = 1..(Len(branch) + 1)
        /\ Len(branch) \in Nat
    BY <1>1 DEF IsTree
  <1>3. UserIds(Append(branch, node)) =
          UserIds(branch) \union (IF IsUser(node) THEN {node.id} ELSE {})
    BY <1>1, <1>2 DEF UserIds
  <1>4. UserIds(<<>>) = {}
    BY DEF UserIds
  <1> QED
    BY <1>3, <1>4

-----------------------------------------------------------------------------
(* Messages on a branch.                                                   *)

UsersAt(tree, n) == UserIds(Path(tree, n))

(* What an event on a branch may name: a message of it, or its key.        *)
Named(tree, n) == UsersAt(tree, n) \union {Key(id) : id \in UsersAt(tree, n)}

Kinds == {"user", "selection", "event"}

TreeOK(tree) ==
  \A i \in 1..Len(tree) :
    /\ tree[i].id = i /\ tree[i].parent \in 0..(i - 1) /\ tree[i].kind \in Kinds
    /\ tree[i].kind = "event" => tree[i].source \in Named(tree, i)

LedgerFields == {"items", "recency", "active", "incumbent"}
Workless(ledger) == DOMAIN ledger = LedgerFields /\ DOMAIN ledger.items = {}

(* A branch without a message has no work: what an action grounds late,    *)
(* after the user has left every message, does not apply.                  *)
StoreGood(st) ==
  /\ StoreOK(st)
  /\ TreeOK(st.tree)
  /\ UsersAt(st.tree, st.leaf) = {} => Workless(st.ledger)

Here == UsersAt(store.tree, store.leaf)

(* Nothing of the entry would be written to a branch.                      *)
Bare(state) == {state.pending, state.item, state.prior, state.completion} = {None}

(* The run's message, the source of the entry's events, and the entry      *)
(* itself (unless it has nothing to write) belong to the branch.           *)
PlaceInv ==
  /\ StoreGood(store)
  /\ run.pc # "idle" => run.entry \in Here
  /\ source # None => source \in Named(store.tree, store.leaf)
  /\ phase # None =>
       /\ \E i \in 1..Len(store.tree) : phase.key = Key(i)
       /\ Bare(phase) \/ \E id \in Here : phase.key = Key(id)
       /\ phase.pending # None =>
            phase.pending.source \in Nat /\ phase.key = Key(phase.pending.source)

-----------------------------------------------------------------------------
(* The messages on the way to a node.                                      *)

Parented(tree) == IsTree(tree) /\ \A i \in 1..Len(tree) : tree[i].parent \in 0..(i - 1)

LEMMA PathIsTree ==
  ASSUME NEW tree, Parented(tree)
  PROVE  \A n \in 0..Len(tree) : IsTree(Path(tree, n))
  <1> DEFINE S == {n \in 0..Len(tree) : IsTree(Path(tree, n))}
  <1>1. Len(tree) \in Nat
    BY DEF Parented, IsTree
  <1>2. ASSUME NEW n \in 0..Len(tree), \A m \in 0..(n - 1) : m \in S
        PROVE  IsTree(Path(tree, n))
    <2>1. CASE n = 0
      <3>1. Path(tree, n) = <<>>
        BY <2>1, <1>1, PathSteps DEF Parented
      <3>2. IsTree(<<>>)
        BY DEF IsTree
      <3> QED
        BY <3>1, <3>2
    <2>2. CASE n # 0
      <3>1. IsTree(Path(tree, tree[n].parent))
        BY <1>1, <1>2, <2>2 DEF Parented
      <3>2. Path(tree, n) = Append(Path(tree, tree[n].parent), tree[n])
        BY <1>1, <2>2, PathSteps DEF Parented
      <3> QED
        BY <3>1, <3>2, TreeIsSeq
    <2> QED
      BY <2>1, <2>2
  <1>3. \A n \in 0..Len(tree) : (\A m \in 0..(n - 1) : m \in S) => n \in S
    BY <1>2
  <1>4. 0..Len(tree) \subseteq S
    <2> HIDE DEF S
    <2> QED
      BY <1>1, <1>3, UpToNumber
  <1> QED
    BY <1>4

LEMMA UsersSteps ==
  ASSUME NEW tree, Parented(tree)
  PROVE  /\ UsersAt(tree, 0) = {}
         /\ \A n \in 1..Len(tree) :
              UsersAt(tree, n) = UsersAt(tree, tree[n].parent)
                                   \union (IF IsUser(tree[n]) THEN {tree[n].id} ELSE {})
  <1>1. Len(tree) \in Nat
    BY DEF Parented, IsTree
  <1>2. UsersAt(tree, 0) = {}
    <2>1. IsTree(<<>>)
      BY DEF IsTree
    <2> QED
      BY <1>1, <2>1, PathSteps, UserIdsAppend DEF UsersAt, Parented
  <1>3. ASSUME NEW n \in 1..Len(tree)
        PROVE  UsersAt(tree, n) = UsersAt(tree, tree[n].parent)
                                   \union (IF IsUser(tree[n]) THEN {tree[n].id} ELSE {})
    <2>1. IsTree(Path(tree, tree[n].parent))
      BY <1>1, PathIsTree DEF Parented
    <2>2. Path(tree, n) = Append(Path(tree, tree[n].parent), tree[n])
      BY <1>1, PathSteps DEF Parented
    <2> QED
      BY <2>1, <2>2, UserIdsAppend DEF UsersAt
  <1> QED
    BY <1>2, <1>3

LEMMA UsersSame ==
  ASSUME NEW tree, Parented(tree), NEW next, Parented(next), Len(tree) <= Len(next),
         \A i \in 1..Len(tree) : next[i].kind = tree[i].kind /\ next[i].id = tree[i].id
                                   /\ next[i].parent = tree[i].parent
  PROVE  \A n \in 0..Len(tree) : UsersAt(next, n) = UsersAt(tree, n)
  <1> DEFINE S == {n \in 0..Len(tree) : UsersAt(next, n) = UsersAt(tree, n)}
  <1>1. Len(tree) \in Nat /\ Len(next) \in Nat
    BY DEF Parented, IsTree
  <1>2. ASSUME NEW n \in 0..Len(tree), \A m \in 0..(n - 1) : m \in S
        PROVE  UsersAt(next, n) = UsersAt(tree, n)
    <2>1. CASE n = 0
      BY <2>1, UsersSteps
    <2>2. CASE n # 0
      <3>1. n \in 1..Len(tree) /\ n \in 1..Len(next)
        BY <1>1, <2>2
      <3>2. UsersAt(next, tree[n].parent) = UsersAt(tree, tree[n].parent)
        BY <1>1, <1>2, <2>2, <3>1 DEF Parented
      <3>3. IsUser(tree[n]) <=> IsUser(next[n])
        BY <3>1 DEF IsUser
      <3>4. next[n].parent = tree[n].parent /\ next[n].id = tree[n].id
        BY <3>1
      <3>5. UsersAt(tree, n) = UsersAt(tree, tree[n].parent)
                                 \union (IF IsUser(tree[n]) THEN {tree[n].id} ELSE {})
        BY <3>1, UsersSteps
      <3>6. UsersAt(next, n) = UsersAt(next, next[n].parent)
                                 \union (IF IsUser(next[n]) THEN {next[n].id} ELSE {})
        BY <3>1, UsersSteps
      <3> QED
        BY <3>2, <3>3, <3>4, <3>5, <3>6
    <2> QED
      BY <2>1, <2>2
  <1>3. \A n \in 0..Len(tree) : (\A m \in 0..(n - 1) : m \in S) => n \in S
    BY <1>2
  <1>4. 0..Len(tree) \subseteq S
    <2> HIDE DEF S
    <2> QED
      BY <1>1, <1>3, UpToNumber
  <1> QED
    BY <1>4

(* What is on the way to a node has no messages but those of the node.     *)
LEMMA PathNodes ==
  ASSUME NEW tree, Parented(tree)
  PROVE  \A n \in 0..Len(tree) : \A i \in 1..Len(Path(tree, n)) :
           \E j \in 1..Len(tree) :
             Path(tree, n)[i] = tree[j] /\ UsersAt(tree, j) \subseteq UsersAt(tree, n)
  <1> DEFINE Ok(n) == \A i \in 1..Len(Path(tree, n)) : \E j \in 1..Len(tree) :
                        Path(tree, n)[i] = tree[j] /\ UsersAt(tree, j) \subseteq UsersAt(tree, n)
             S == {n \in 0..Len(tree) : Ok(n)}
  <1>1. Len(tree) \in Nat
    BY DEF Parented, IsTree
  <1>2. ASSUME NEW n \in 0..Len(tree), \A m \in 0..(n - 1) : m \in S
        PROVE  Ok(n)
    <2>1. CASE n = 0
      <3>1. Len(Path(tree, n)) = 0
        BY <1>1, <2>1, PathSteps DEF Parented
      <3> QED
        BY <3>1
    <2>2. CASE n # 0
      <3> DEFINE up == tree[n].parent
      <3>1. n \in 1..Len(tree) /\ up \in 0..Len(tree) /\ up \in 0..(n - 1)
        BY <1>1, <2>2 DEF Parented
      <3>2. Ok(up) /\ IsTree(Path(tree, up))
        BY <3>1, <1>2, PathIsTree
      <3>3. Path(tree, n) = Append(Path(tree, up), tree[n])
        BY <1>1, <3>1, PathSteps DEF Parented
      <3>4. UsersAt(tree, up) \subseteq UsersAt(tree, n)
        BY <3>1, UsersSteps
      <3>5. /\ Len(Path(tree, n)) = Len(Path(tree, up)) + 1 /\ Len(Path(tree, up)) \in Nat
            /\ \A i \in 1..Len(Path(tree, up)) : Path(tree, n)[i] = Path(tree, up)[i]
            /\ Path(tree, n)[Len(Path(tree, up)) + 1] = tree[n]
        BY <3>2, <3>3, TreeIsSeq DEF IsTree
      <3> HIDE DEF up
      <3> SUFFICES ASSUME NEW i \in 1..Len(Path(tree, n))
                   PROVE  \E j \in 1..Len(tree) : Path(tree, n)[i] = tree[j]
                            /\ UsersAt(tree, j) \subseteq UsersAt(tree, n)
        OBVIOUS
      <3>6. CASE i = Len(Path(tree, up)) + 1
        BY <3>6, <3>5, <3>1
      <3>7. CASE i # Len(Path(tree, up)) + 1
        <4>1. i \in 1..Len(Path(tree, up))
          BY <3>7, <3>5
        <4>2. PICK j \in 1..Len(tree) :
                Path(tree, up)[i] = tree[j] /\ UsersAt(tree, j) \subseteq UsersAt(tree, up)
          BY <4>1, <3>2
        <4> QED
          BY <4>1, <4>2, <3>4, <3>5
      <3> QED
        BY <3>6, <3>7
    <2> QED
      BY <2>1, <2>2
  <1>3. \A n \in 0..Len(tree) : (\A m \in 0..(n - 1) : m \in S) => n \in S
    BY <1>2
  <1>4. 0..Len(tree) \subseteq S
    <2> HIDE DEF S
    <2> QED
      BY <1>1, <1>3, UpToNumber
  <1> QED
    BY <1>4

-----------------------------------------------------------------------------
(* What the folds compute, one step at a time.                             *)

FoldUpTo(ledger, events, f, m) ==
  f = [n \in 0..m |->
         IF n = 0 THEN [ok |-> TRUE, ledger |-> ledger]
         ELSE LET before == f[n - 1]
              IN IF before.ok /\ Applies(before.ledger, events[n])
                   THEN [ok |-> TRUE, ledger |-> ApplyEvent(before.ledger, events[n])]
                   ELSE [ok |-> FALSE, ledger |-> ledger]]

FoldedFrom(ledger, events, before, n) ==
  IF before.ok /\ Applies(before.ledger, events[n])
    THEN [ok |-> TRUE, ledger |-> ApplyEvent(before.ledger, events[n])]
    ELSE [ok |-> FALSE, ledger |-> ledger]

LEMMA FoldExists ==
  ASSUME NEW ledger, NEW events, NEW L \in Nat
  PROVE  \A m \in 0..L : \E f : FoldUpTo(ledger, events, f, m)
  <1> DEFINE S == {m \in 0..L : \E f : FoldUpTo(ledger, events, f, m)}
  <1>1. ASSUME NEW m \in 0..L, \A k \in 0..(m - 1) : k \in S
        PROVE  \E f : FoldUpTo(ledger, events, f, m)
    <2>1. CASE m = 0
      <3>1. FoldUpTo(ledger, events, [n \in 0..0 |-> [ok |-> TRUE, ledger |-> ledger]], 0)
        BY DEF FoldUpTo
      <3> QED
        BY <3>1, <2>1
    <2>2. CASE m # 0
      <3>1. PICK g : FoldUpTo(ledger, events, g, m - 1)
        BY <2>2, <1>1
      <3> DEFINE f == [n \in 0..m |-> IF n = m THEN FoldedFrom(ledger, events, g[m - 1], m) ELSE g[n]]
                 First == [ok |-> TRUE, ledger |-> ledger]
      <3>2. \A n \in 0..(m - 1) : g[n] = IF n = 0 THEN First ELSE FoldedFrom(ledger, events, g[n - 1], n)
        BY <3>1 DEF FoldUpTo, FoldedFrom
      <3> HIDE DEF First
      <3>3. ASSUME NEW n \in 0..m
            PROVE  f[n] = IF n = 0 THEN First ELSE FoldedFrom(ledger, events, f[n - 1], n)
        BY <2>2, <3>2
      <3>4. f = [n \in 0..m |-> IF n = 0 THEN First ELSE FoldedFrom(ledger, events, f[n - 1], n)]
        BY <3>3
      <3>5. FoldUpTo(ledger, events, f, m)
        BY <3>4 DEF FoldUpTo, FoldedFrom, First
      <3> QED
        BY <3>5
    <2> QED
      BY <2>1, <2>2
  <1>2. \A m \in 0..L : (\A k \in 0..(m - 1) : k \in S) => m \in S
    BY <1>1
  <1>3. 0..L \subseteq S
    <2> HIDE DEF S
    <2> QED
      BY <1>2, UpToNumber
  <1> QED
    BY <1>3

(* The results after each event of a commit.                               *)
FoldTrace(ledger, events, after) ==
  /\ FoldCommit(ledger, events) = after[Len(events)]
  /\ after[0] = [ok |-> TRUE, ledger |-> ledger]
  /\ \A n \in 1..Len(events) : after[n] = FoldedFrom(ledger, events, after[n - 1], n)

LEMMA FoldSteps ==
  ASSUME NEW ledger, NEW events, Len(events) \in Nat
  PROVE  \E after : FoldTrace(ledger, events, after)
  <1> DEFINE after == CHOOSE f : FoldUpTo(ledger, events, f, Len(events))
  <1>1. FoldUpTo(ledger, events, after, Len(events))
    <2>1. Len(events) \in 0..Len(events)
      OBVIOUS
    <2>2. \E f : FoldUpTo(ledger, events, f, Len(events))
      BY <2>1, FoldExists, Zenon
    <2> QED
      BY <2>2, Zenon
  <1>2. FoldCommit(ledger, events) = after[Len(events)]
    BY DEF FoldCommit, FoldUpTo
  <1> HIDE DEF after
  <1>3. \A n \in 0..Len(events) :
          after[n] = IF n = 0 THEN [ok |-> TRUE, ledger |-> ledger]
                              ELSE FoldedFrom(ledger, events, after[n - 1], n)
    BY <1>1 DEF FoldUpTo, FoldedFrom
  <1>4. after[0] = [ok |-> TRUE, ledger |-> ledger]
    <2>1. 0 \in 0..Len(events)
      OBVIOUS
    <2> QED
      BY <2>1, <1>3, Zenon
  <1>5. \A n \in 1..Len(events) : after[n] = FoldedFrom(ledger, events, after[n - 1], n)
    BY <1>3
  <1>6. FoldTrace(ledger, events, after)
    BY <1>2, <1>4, <1>5 DEF FoldTrace
  <1> QED
    BY <1>6

LEMMA FoldOfOne ==
  ASSUME NEW ledger, NEW event
  PROVE  FoldCommit(ledger, <<event>>).ok <=> Applies(ledger, event)
  <1> SUFFICES ASSUME NEW events, Len(events) = 1, events[1] = event
               PROVE  FoldCommit(ledger, events).ok <=> Applies(ledger, event)
    OBVIOUS
  <1>0. Len(events) \in Nat
    OBVIOUS
  <1>1. PICK after : FoldTrace(ledger, events, after)
    BY <1>0, FoldSteps
  <1>2. /\ FoldCommit(ledger, events) = after[1]
        /\ after[0] = [ok |-> TRUE, ledger |-> ledger]
        /\ after[1] = FoldedFrom(ledger, events, after[0], 1)
    BY <1>1 DEF FoldTrace
  <1>3. FoldCommit(ledger, events).ok <=> Applies(ledger, event)
    BY <1>2 DEF FoldedFrom
  <1> QED
    BY <1>3

ScanUpTo(branch, unrouted, f, m) ==
  f = [n \in 0..m |-> IF n = 0 THEN EmptyLedger ELSE Scan(f[n - 1], branch[n], unrouted)]

LEMMA ScanExists ==
  ASSUME NEW branch, NEW unrouted, NEW L \in Nat
  PROVE  \A m \in 0..L : \E f : ScanUpTo(branch, unrouted, f, m)
  <1> DEFINE S == {m \in 0..L : \E f : ScanUpTo(branch, unrouted, f, m)}
  <1>1. ASSUME NEW m \in 0..L, \A k \in 0..(m - 1) : k \in S
        PROVE  \E f : ScanUpTo(branch, unrouted, f, m)
    <2>1. CASE m = 0
      <3>1. ScanUpTo(branch, unrouted, [n \in 0..0 |-> EmptyLedger], 0)
        BY DEF ScanUpTo
      <3> QED
        BY <3>1, <2>1
    <2>2. CASE m # 0
      <3>1. PICK g : ScanUpTo(branch, unrouted, g, m - 1)
        BY <2>2, <1>1
      <3> DEFINE f == [n \in 0..m |-> IF n = m THEN Scan(g[m - 1], branch[m], unrouted) ELSE g[n]]
      <3>2. \A n \in 0..(m - 1) : g[n] = IF n = 0 THEN EmptyLedger ELSE Scan(g[n - 1], branch[n], unrouted)
        BY <3>1 DEF ScanUpTo
      <3>3. ASSUME NEW n \in 0..m
            PROVE  f[n] = IF n = 0 THEN EmptyLedger ELSE Scan(f[n - 1], branch[n], unrouted)
        BY <2>2, <3>2
      <3>4. ScanUpTo(branch, unrouted, f, m)
        BY <3>3 DEF ScanUpTo
      <3> QED
        BY <3>4
    <2> QED
      BY <2>1, <2>2
  <1>2. \A m \in 0..L : (\A k \in 0..(m - 1) : k \in S) => m \in S
    BY <1>1
  <1>3. 0..L \subseteq S
    <2> HIDE DEF S
    <2> QED
      BY <1>2, UpToNumber
  <1> QED
    BY <1>3

(* The ledger after each entry of a branch.                                *)
ScanTrace(branch, after) ==
  LET unrouted == RequestRouting(branch).unrouted
  IN  /\ RebuildLedger(branch) = after[Len(branch)]
      /\ after[0] = EmptyLedger
      /\ \A n \in 1..Len(branch) : after[n] = Scan(after[n - 1], branch[n], unrouted)

LEMMA RebuildSteps ==
  ASSUME NEW branch, Len(branch) \in Nat
  PROVE  \E after : ScanTrace(branch, after)
  <1> DEFINE unrouted == RequestRouting(branch).unrouted
             after == CHOOSE f : ScanUpTo(branch, unrouted, f, Len(branch))
  <1>1. ScanUpTo(branch, unrouted, after, Len(branch))
    <2>1. Len(branch) \in 0..Len(branch)
      OBVIOUS
    <2>2. \E f : ScanUpTo(branch, unrouted, f, Len(branch))
      BY <2>1, ScanExists, Zenon
    <2> QED
      BY <2>2, Zenon
  <1>2. RebuildLedger(branch) = after[Len(branch)]
    BY DEF RebuildLedger, ScanUpTo
  <1> HIDE DEF after, unrouted
  <1>3. \A n \in 0..Len(branch) :
          after[n] = IF n = 0 THEN EmptyLedger ELSE Scan(after[n - 1], branch[n], unrouted)
    BY <1>1 DEF ScanUpTo
  <1>4. after[0] = EmptyLedger
    BY <1>3
  <1>5. \A n \in 1..Len(branch) : after[n] = Scan(after[n - 1], branch[n], unrouted)
    BY <1>3
  <1>6. ScanTrace(branch, after)
    BY <1>2, <1>4, <1>5 DEF ScanTrace, unrouted
  <1> QED
    BY <1>6

(* A branch without events has no work.                                    *)
LEMMA RebuildWithoutEvents ==
  ASSUME NEW branch, Len(branch) \in Nat,
         \A i \in 1..Len(branch) : branch[i].kind \in {"user", "selection"}
  PROVE  Workless(RebuildLedger(branch))
  <1> DEFINE unrouted == RequestRouting(branch).unrouted
  <1>0. PICK after : ScanTrace(branch, after)
    BY RebuildSteps
  <1>1. /\ RebuildLedger(branch) = after[Len(branch)]
        /\ after[0] = EmptyLedger
        /\ \A n \in 1..Len(branch) : after[n] = Scan(after[n - 1], branch[n], unrouted)
    BY <1>0 DEF ScanTrace
  <1> HIDE DEF unrouted
  <1> DEFINE S == {n \in 0..Len(branch) : DOMAIN after[n] = LedgerFields /\ after[n].items = <<>>}
  <1>2. ASSUME NEW n \in 0..Len(branch), \A m \in 0..(n - 1) : m \in S
        PROVE  DOMAIN after[n] = LedgerFields /\ after[n].items = <<>>
    <2>1. CASE n = 0
      BY <2>1, <1>1 DEF EmptyLedger, LedgerFields
    <2>2. CASE n # 0
      <3>1. DOMAIN after[n - 1] = LedgerFields /\ after[n - 1].items = <<>>
        BY <2>2, <1>2
      <3>2. /\ after[n] = Scan(after[n - 1], branch[n], unrouted)
            /\ branch[n].kind \in {"user", "selection"}
        BY <2>2, <1>1
      <3>3. CASE branch[n].kind = "selection"
        BY <3>1, <3>2, <3>3 DEF Scan, LedgerFields
      <3>4. CASE branch[n].kind = "user"
        BY <3>1, <3>2, <3>4 DEF Scan, LedgerFields
      <3> QED
        BY <3>2, <3>3, <3>4
    <2> QED
      BY <2>1, <2>2
  <1>3. \A n \in 0..Len(branch) : (\A m \in 0..(n - 1) : m \in S) => n \in S
    BY <1>2
  <1>4. 0..Len(branch) \subseteq S
    <2> HIDE DEF S
    <2> QED
      BY <1>3, UpToNumber
  <1>5. DOMAIN after[Len(branch)] = LedgerFields /\ after[Len(branch)].items = <<>>
    BY <1>4
  <1> QED
    BY <1>1, <1>5 DEF Workless

-----------------------------------------------------------------------------
(* What a step adds to the tree stays on the branch.                       *)

Extends(st, next) ==
  /\ Grows(st, next) /\ StoreGood(next)
  /\ UsersAt(st.tree, st.leaf) \subseteq UsersAt(next.tree, next.leaf)

LEMMA GoodIsParented == \A st : StoreGood(st) => Parented(st.tree)
  BY DEF StoreGood, StoreOK, TreeOK, Parented

LEMMA NodesStay ==
  ASSUME NEW st, StoreGood(st), NEW next, Grows(st, next), Parented(next.tree)
  PROVE  /\ \A n \in 0..Len(st.tree) : UsersAt(next.tree, n) = UsersAt(st.tree, n)
         /\ \A i \in 1..Len(st.tree) :
              /\ next.tree[i].id = i /\ next.tree[i].parent \in 0..(i - 1)
              /\ next.tree[i].kind \in Kinds
              /\ next.tree[i].kind = "event" => next.tree[i].source \in Named(next.tree, i)
  <1>1. \A i \in 1..Len(st.tree) :
          /\ next.tree[i].kind = st.tree[i].kind /\ next.tree[i].id = st.tree[i].id
          /\ next.tree[i].parent = st.tree[i].parent /\ next.tree[i].source = st.tree[i].source
    BY DEF Grows, NodeFields
  <1>2. Parented(st.tree) /\ Len(st.tree) <= Len(next.tree) /\ Len(st.tree) \in Nat
    BY GoodIsParented DEF Grows, Parented, IsTree
  <1>3. \A n \in 0..Len(st.tree) : UsersAt(next.tree, n) = UsersAt(st.tree, n)
    BY <1>1, <1>2, UsersSame
  <1>4. \A i \in 1..Len(st.tree) : Named(next.tree, i) = Named(st.tree, i)
    BY <1>2, <1>3 DEF Named
  <1>5. TreeOK(st.tree)
    BY DEF StoreGood
  <1>6. \A i \in 1..Len(st.tree) :
          /\ next.tree[i].id = i /\ next.tree[i].parent \in 0..(i - 1)
          /\ next.tree[i].kind \in Kinds
          /\ next.tree[i].kind = "event" => next.tree[i].source \in Named(next.tree, i)
    BY <1>1, <1>4, <1>5 DEF TreeOK
  <1> QED
    BY <1>3, <1>6

LEMMA ExtendsIsPreorder ==
  /\ \A st : StoreGood(st) => Extends(st, st)
  /\ \A a, b, c : StoreGood(a) /\ Extends(a, b) /\ Extends(b, c) => Extends(a, c)
  BY GrowsIsPreorder DEF Extends, StoreGood

LEMMA AddExtends ==
  ASSUME NEW st, StoreGood(st), NEW entry, DOMAIN entry = NodeFields, entry.kind \in Kinds,
         entry.kind = "event" => entry.source \in Named(st.tree, st.leaf)
  PROVE  LET next == AddEntry(st, entry)
         IN  /\ Extends(st, next)
             /\ next.ledger = st.ledger /\ next.leaf = Len(st.tree) + 1
             /\ entry.kind = "user" => next.leaf \in UsersAt(next.tree, next.leaf)
  <1> DEFINE next == AddEntry(st, entry)
             new == Len(st.tree) + 1
  <1>1. /\ Grows(st, next) /\ next.leaf = new /\ Len(next.tree) = new
        /\ next.ledger = st.ledger
        /\ next.tree[next.leaf] = [entry EXCEPT !.id = Len(st.tree) + 1, !.parent = st.leaf]
    BY AddEntryGrows DEF StoreGood
  <1>2. /\ next.tree[new].id = new /\ next.tree[new].parent = st.leaf
        /\ next.tree[new].kind = entry.kind /\ next.tree[new].source = entry.source
    BY <1>1 DEF NodeFields
  <1> HIDE DEF next
  <1>3. Len(st.tree) \in Nat /\ st.leaf \in 0..Len(st.tree) /\ IsTree(next.tree) /\ StoreOK(next)
    BY <1>1 DEF Grows, StoreGood, StoreOK, IsTree
  <1>4. Parented(next.tree)
    <2>1. ASSUME NEW i \in 1..Len(st.tree) PROVE next.tree[i].parent = st.tree[i].parent
      BY <1>1 DEF Grows, NodeFields
    <2>2. \A i \in 1..Len(st.tree) : st.tree[i].parent \in 0..(i - 1)
      BY GoodIsParented DEF Parented
    <2>3. ASSUME NEW i \in 1..new PROVE next.tree[i].parent \in 0..(i - 1)
      <3>1. CASE i = new
        BY <3>1, <1>2, <1>3
      <3>2. CASE i \in 1..Len(st.tree)
        BY <3>2, <2>1, <2>2
      <3> QED
        BY <3>1, <3>2, <1>3
    <2> QED
      BY <1>1, <1>3, <2>3 DEF Parented
  <1>5. /\ \A n \in 0..Len(st.tree) : UsersAt(next.tree, n) = UsersAt(st.tree, n)
        /\ \A i \in 1..Len(st.tree) :
             /\ next.tree[i].id = i /\ next.tree[i].parent \in 0..(i - 1)
             /\ next.tree[i].kind \in Kinds
             /\ next.tree[i].kind = "event" => next.tree[i].source \in Named(next.tree, i)
    BY <1>1, <1>4, NodesStay
  <1>6. UsersAt(next.tree, new) = UsersAt(st.tree, st.leaf)
                                   \union (IF entry.kind = "user" THEN {new} ELSE {})
    <2>1. UsersAt(next.tree, new) = UsersAt(next.tree, st.leaf)
                                   \union (IF IsUser(next.tree[new]) THEN {new} ELSE {})
      <3>1. new \in 1..Len(next.tree)
        BY <1>1, <1>3
      <3>2. UsersAt(next.tree, new) = UsersAt(next.tree, next.tree[new].parent)
                     \union (IF IsUser(next.tree[new]) THEN {next.tree[new].id} ELSE {})
        BY <3>1, <1>4, UsersSteps
      <3> QED
        BY <3>2, <1>2
    <2>2. IsUser(next.tree[new]) <=> entry.kind = "user"
      BY <1>2 DEF IsUser
    <2> QED
      BY <2>1, <2>2, <1>3, <1>5
  <1>7. next.tree[new].kind = "event" => next.tree[new].source \in Named(next.tree, new)
    BY <1>2, <1>6 DEF Named
  <1>8. TreeOK(next.tree)
    <2>1. ASSUME NEW i \in 1..new
          PROVE  /\ next.tree[i].id = i /\ next.tree[i].parent \in 0..(i - 1)
                 /\ next.tree[i].kind \in Kinds
                 /\ next.tree[i].kind = "event" => next.tree[i].source \in Named(next.tree, i)
      <3>1. CASE i = new
        BY <3>1, <1>2, <1>3, <1>7
      <3>2. CASE i \in 1..Len(st.tree)
        BY <3>2, <1>5
      <3> QED
        BY <3>1, <3>2, <1>3
    <2> QED
      BY <1>1, <2>1 DEF TreeOK
  <1>9. StoreGood(next)
    BY <1>1, <1>3, <1>6, <1>8 DEF StoreGood
  <1>10. Extends(st, next) /\ (entry.kind = "user" => next.leaf \in UsersAt(next.tree, next.leaf))
    BY <1>1, <1>6, <1>9 DEF Extends
  <1> QED
    BY <1>1, <1>10 DEF next

LEMMA NamedIsUsed ==
  ASSUME NEW tree, NEW n, NEW from, from \in Named(tree, n)
  PROVE  UsersAt(tree, n) # {}
  BY DEF Named

LEMMA AppendExtends ==
  ASSUME NEW st, StoreGood(st), NEW from, NEW events, from \in Named(st.tree, st.leaf)
  PROVE  /\ Extends(st, AppendCommit(st, from, events))
         /\ \A persisted : Extends(st, Put(st, from, events, persisted))
  <1> DEFINE entry == [Entry("event") EXCEPT !.source = from, !.events = events]
             added == AddEntry(st, entry)
             next == [added EXCEPT !.ledger = FoldCommit(st.ledger, events).ledger]
  <1>1. DOMAIN entry = NodeFields /\ entry.kind = "event" /\ entry.source = from
    BY EntryIsNode DEF Entry
  <1>2. Extends(st, added)
    BY <1>1, AddExtends DEF Kinds
  <1>3. AppendCommit(st, from, events) = next
    BY DEF AppendCommit
  <1> HIDE DEF added, entry, next
  <1>4. Grows(st, next) /\ StoreOK(next)
    <2>1. StoreOK(st)
      BY DEF StoreGood
    <2> QED
      BY <1>3, <2>1, AppendGrows DEF Grows
  <1>5. next.tree = added.tree /\ next.leaf = added.leaf
    BY <1>2 DEF Extends, Grows, StoreOK, next
  <1>6. UsersAt(next.tree, next.leaf) # {}
    BY <1>2, <1>5, NamedIsUsed DEF Extends
  <1>7. Extends(st, next)
    BY <1>2, <1>4, <1>5, <1>6 DEF Extends, StoreGood
  <1> QED
    BY <1>3, <1>7, ExtendsIsPreorder DEF Put

(* Late groundings do not apply where there is no message.                 *)
LEMMA GroundingExtends ==
  ASSUME NEW st, StoreGood(st), NEW from, NEW id, NEW path, NEW version, NEW by, NEW persisted,
         from \in Named(st.tree, st.leaf) \/ UsersAt(st.tree, st.leaf) = {}
  PROVE  Extends(st, Put(st, from, <<GroundingUpsert(id, path, version, by)>>, persisted))
  <1> DEFINE event == GroundingUpsert(id, path, version, by)
  <1>1. CASE from \in Named(st.tree, st.leaf)
    BY <1>1, AppendExtends
  <1>2. CASE UsersAt(st.tree, st.leaf) = {}
    <2>1. DOMAIN st.ledger.items = {}
      BY <1>2 DEF StoreGood, Workless
    <2>2. ~Applies(st.ledger, event)
      BY <2>1 DEF Applies, GroundingUpsert
    <2>3. ~CanAppend(st, <<event>>)
      BY <2>2, FoldOfOne DEF CanAppend
    <2> QED
      BY <2>3, ExtendsIsPreorder DEF Put
  <1> QED
    BY <1>1, <1>2

LEMMA SelectionExtends ==
  ASSUME NEW st, StoreGood(st)
  PROVE  /\ \A on : Extends(st, AddSelection(st, on))
         /\ Extends(st, ClearIncumbent(st))
         /\ \A leaf \in 0..Len(st.tree) :
              /\ StoreGood(Restored(st, leaf)) /\ Grows(st, Restored(st, leaf))
              /\ Restored(st, leaf).tree = st.tree /\ Restored(st, leaf).leaf = leaf
  <1>1. ASSUME NEW on PROVE Extends(st, AddSelection(st, on))
    <2> DEFINE entry == [Entry("selection") EXCEPT !.auto = on]
    <2>1. DOMAIN entry = NodeFields /\ entry.kind = "selection"
      BY EntryIsNode DEF Entry
    <2> HIDE DEF entry
    <2>2. Extends(st, AddEntry(st, entry))
      BY <2>1, AddExtends DEF Kinds
    <2> QED
      BY <2>2 DEF entry, AddSelection
  <1>2. Extends(st, ClearIncumbent(st))
    <2> DEFINE next == ClearIncumbent(st)
    <2>0. StoreOK(st)
      BY DEF StoreGood
    <2>1. Grows(st, next) /\ StoreOK(next)
      BY <2>0, SelectionGrows DEF Grows
    <2>2. next.tree = st.tree /\ next.leaf = st.leaf
      BY DEF ClearIncumbent, StoreGood, StoreOK
    <2>3. Workless(st.ledger) => Workless(next.ledger)
      <3>1. next.ledger = [st.ledger EXCEPT !.incumbent = None]
        BY DEF ClearIncumbent, StoreGood, StoreOK
      <3> HIDE DEF next
      <3> QED
        BY <3>1 DEF Workless, LedgerFields
    <2> HIDE DEF next
    <2>4. StoreGood(next)
      BY <2>1, <2>2, <2>3 DEF StoreGood
    <2>5. Extends(st, next)
      BY <2>1, <2>2, <2>4 DEF Extends
    <2> QED
      BY <2>5 DEF next
  <1>3. ASSUME NEW leaf \in 0..Len(st.tree)
        PROVE  /\ StoreGood(Restored(st, leaf)) /\ Grows(st, Restored(st, leaf))
               /\ Restored(st, leaf).tree = st.tree /\ Restored(st, leaf).leaf = leaf
    <2> DEFINE next == Restored(st, leaf)
               branch == Path(st.tree, leaf)
    <2>0. StoreOK(st)
      BY DEF StoreGood
    <2>1. Grows(st, next) /\ StoreOK(next)
      BY <2>0, SelectionGrows DEF Grows
    <2>2. next.tree = st.tree /\ next.leaf = leaf /\ next.ledger = RebuildLedger(branch)
      BY DEF Restored, StoreGood, StoreOK
    <2> HIDE DEF next
    <2>3. ASSUME UsersAt(st.tree, leaf) = {} PROVE Workless(next.ledger)
      <3>1. Parented(st.tree) /\ TreeOK(st.tree)
        BY GoodIsParented DEF StoreGood
      <3>2. Len(branch) \in Nat
        BY <3>1, PathIsTree DEF IsTree
      <3>3. ASSUME NEW i \in 1..Len(branch) PROVE branch[i].kind \in {"user", "selection"}
        <4>1. PICK j \in 1..Len(st.tree) :
                branch[i] = st.tree[j] /\ UsersAt(st.tree, j) \subseteq UsersAt(st.tree, leaf)
          BY <3>1, PathNodes
        <4>2. st.tree[j].kind # "event"
          BY <3>1, <4>1, <2>3, NamedIsUsed DEF TreeOK
        <4> QED
          BY <3>1, <4>1, <4>2 DEF TreeOK, Kinds
      <3> HIDE DEF branch
      <3> QED
        BY <2>2, <3>2, <3>3, RebuildWithoutEvents
    <2>4. StoreGood(next)
      BY <2>1, <2>2, <2>3 DEF StoreGood
    <2> QED
      BY <2>1, <2>2, <2>4 DEF next
  <1> QED
    BY <1>1, <1>2, <1>3

-----------------------------------------------------------------------------
(* The entry's place on the branch.                                        *)

LEMMA UsersAreNumbers ==
  ASSUME NEW st, StoreGood(st), NEW n \in 0..Len(st.tree)
  PROVE  UsersAt(st.tree, n) \subseteq 1..Len(st.tree)
  <1>1. Parented(st.tree) /\ TreeOK(st.tree)
    BY GoodIsParented DEF StoreGood
  <1>2. IsTree(Path(st.tree, n))
    BY <1>1, PathIsTree
  <1> SUFFICES ASSUME NEW id \in UsersAt(st.tree, n) PROVE id \in 1..Len(st.tree)
    OBVIOUS
  <1>3. PICK i \in 1..Len(Path(st.tree, n)) : id = Path(st.tree, n)[i].id
    <2>1. DOMAIN Path(st.tree, n) = 1..Len(Path(st.tree, n))
      BY <1>2 DEF IsTree
    <2> QED
      BY <2>1 DEF UsersAt, UserIds
  <1>4. PICK j \in 1..Len(st.tree) : Path(st.tree, n)[i] = st.tree[j]
    BY <1>1, PathNodes
  <1> QED
    BY <1>1, <1>3, <1>4 DEF TreeOK

LEMMA LatestUser ==
  ASSUME NEW branch, IsTree(branch), NEW key
  PROVE  LET entry == LatestGenuineUserEntry(branch, key)
         IN  /\ key \in UserIds(branch) => entry = key
             /\ UserIds(branch) # {} => entry \in UserIds(branch)
             /\ UserIds(branch) = {} => entry = None
  <1> DEFINE users == {i \in DOMAIN branch : IsUser(branch[i])}
  <1>1. Len(branch) \in Nat /\ DOMAIN branch = 1..Len(branch)
    BY DEF IsTree
  <1>2. UserIds(branch) = {branch[i].id : i \in users}
    BY DEF UserIds
  <1>3. LatestGenuineUserEntry(branch, key) =
          IF users = {} THEN None ELSE IF key \in UserIds(branch) THEN key ELSE branch[Max(users)].id
    BY DEF LatestGenuineUserEntry
  <1>4. users \subseteq 0..Len(branch)
    BY <1>1
  <1> HIDE DEF users
  <1>5. users # {} => branch[Max(users)].id \in UserIds(branch)
    BY <1>1, <1>2, <1>4, MaxOf
  <1> QED
    BY <1>2, <1>3, <1>5

LEMMA BranchOK ==
  ASSUME StoreGood(store)
  PROVE  /\ IsTree(Branch) /\ UserIds(Branch) = Here
         /\ Here \subseteq 1..Len(store.tree) /\ Here \subseteq Nat /\ None \notin Here
         /\ Here \subseteq Named(store.tree, store.leaf)
         /\ \A id \in Here : Key(id) \in Named(store.tree, store.leaf)
  <1>1. store.leaf \in 0..Len(store.tree) /\ Parented(store.tree)
    BY GoodIsParented DEF StoreGood, StoreOK
  <1>2. IsTree(Branch) /\ UserIds(Branch) = Here
    BY <1>1, PathIsTree DEF Branch, Here, UsersAt
  <1>3. Here \subseteq 1..Len(store.tree)
    BY <1>1, UsersAreNumbers DEF Here
  <1>4. Here \subseteq Nat /\ None \notin Here
    <2>1. Len(store.tree) \in Nat
      BY DEF StoreGood, StoreOK, IsTree
    <2>2. 1..Len(store.tree) \subseteq Nat /\ None \notin Nat
      BY <2>1, EntryAssumption
    <2> QED
      BY <1>3, <2>2
  <1>5. /\ Here \subseteq Named(store.tree, store.leaf)
        /\ \A id \in Here : Key(id) \in Named(store.tree, store.leaf)
    BY DEF Named, Here
  <1> QED
    BY <1>2, <1>3, <1>4, <1>5

LEMMA CurrentSourceNamed ==
  ASSUME PlaceInv
  PROVE  CurrentSourceEntry \in Named(store.tree, store.leaf) \/ Here = {}
  <1>1. CASE source # None
    BY <1>1 DEF PlaceInv, CurrentSourceEntry
  <1>2. CASE source = None /\ Here # {}
    <2>1. LatestGenuineUserEntry(Branch, None) \in Here
      BY <1>2, BranchOK, LatestUser DEF PlaceInv
    <2>2. CurrentSourceEntry = LatestGenuineUserEntry(Branch, None)
      BY <1>2, <2>1, BranchOK DEF PlaceInv, CurrentSourceEntry
    <2> QED
      BY <2>1, <2>2, BranchOK DEF PlaceInv
  <1> QED
    BY <1>1, <1>2

LEMMA SourceOrKeyNamed ==
  ASSUME PlaceInv, NEW id \in Here
  PROVE  SourceOrKey(Key(id)) \in Named(store.tree, store.leaf)
  BY BranchOK DEF PlaceInv, SourceOrKey

(* The keys of what is in flight are those of the run's message.           *)
LEMMA AtEntry ==
  ASSUME EntryInv, PlaceInv
  PROVE  /\ run.pc = "walk" => run.scored.key = Key(run.entry) /\ run.entry \in Here
         /\ run.pc \in {"walk", "tools", "settle"} /\ phase # None =>
              phase.key = Key(run.entry) /\ run.entry \in Here
  BY DEF EntryInv, CollectInv, InEntry, PlaceInv

LEMMA NotBare ==
  ASSUME PlaceInv, phase # None, ~Bare(phase)
  PROVE  /\ SourceOrKey(phase.key) \in Named(store.tree, store.leaf)
         /\ phase.pending # None =>
              phase.pending.source \in Here /\ phase.pending.source \in Named(store.tree, store.leaf)
  <1>1. PICK id \in Here : phase.key = Key(id)
    BY DEF PlaceInv
  <1>2. id \in Nat
    BY <1>1, BranchOK DEF PlaceInv
  <1>3. SourceOrKey(phase.key) \in Named(store.tree, store.leaf)
    BY <1>1, SourceOrKeyNamed
  <1>4. phase.pending # None => phase.pending.source = id
    BY <1>1, <1>2 DEF PlaceInv, Key
  <1>5. id \in Named(store.tree, store.leaf)
    BY BranchOK DEF PlaceInv
  <1> QED
    BY <1>3, <1>4, <1>5

LEMMA TargetNotBare ==
  ASSUME NEW ledger, NEW state, ReopenTarget(ledger, state) # None
  PROVE  ~Bare(state)
  <1>1. state.completion # None \/ state.prior # None
    BY DEF ReopenTarget
  <1> QED
    BY <1>1 DEF Bare

(* Whatever a step does but going back in the tree, the branch goes on.    *)
LEMMA ServeExtends ==
  ASSUME EntryInv, PlaceInv, NEW m, NEW clears, NEW lost, Serve(m, clears, lost)
  PROVE  Extends(store, store')
  <1> DEFINE settled == SettleBoundary(phase, run.scored, clears)
             noted == NoteIncumbent(store, settled, m, run.scored, "incumbent" \notin lost)
  <1>1. StoreGood(store)
    BY DEF PlaceInv
  <1>2. SourceOrKey(run.scored.key) \in Named(store.tree, store.leaf)
    BY AtEntry, SourceOrKeyNamed DEF Serve
  <1>3. Extends(store, noted)
    <2>1. \A events, persisted :
            Extends(store, Put(store, SourceOrKey(run.scored.key), events, persisted))
      BY <1>1, <1>2, AppendExtends
    <2> QED
      BY <2>1, <1>1, ExtendsIsPreorder DEF NoteIncumbent
  <1>4. store' = RecordServedWork(noted, settled, m, "served" \notin lost)
    BY DEF Serve
  <1> HIDE DEF noted, settled
  <1>5. StoreGood(noted) /\ Named(store.tree, store.leaf) \subseteq Named(noted.tree, noted.leaf)
    BY <1>3 DEF Extends, Named
  <1>6. Extends(noted, store')
    <2>1. CASE store' = noted
      BY <2>1, <1>5, ExtendsIsPreorder
    <2>2. CASE store' # noted
      <3>1. /\ source # None
            /\ \E events, persisted : store' = Put(noted, source, events, persisted)
        BY <1>4, <2>2, Zenon DEF RecordServedWork
      <3>2. source \in Named(noted.tree, noted.leaf)
        BY <3>1, <1>5 DEF PlaceInv
      <3> QED
        BY <3>1, <3>2, <1>5, AppendExtends
    <2> QED
      BY <2>1, <2>2
  <1> QED
    BY <1>1, <1>3, <1>6, ExtendsIsPreorder

LEMMA FinishExtends ==
  ASSUME EntryInv, PlaceInv, Finish
  PROVE  Extends(store, store')
  <1>0. StoreGood(store) /\ Extends(store, store)
    BY ExtendsIsPreorder DEF PlaceInv
  <1>1. ASSUME NEW persisted, FinishRead(persisted) \/ FinishEdit(persisted)
        PROVE  Extends(store, store')
    <2>1. \/ store' = store
          \/ \E id, path, version, by :
               store' = Put(store, CurrentSourceEntry,
                            <<GroundingUpsert(id, path, version, by)>>, persisted)
      BY <1>1, Zenon DEF FinishRead, FinishEdit
    <2>2. CurrentSourceEntry \in Named(store.tree, store.leaf) \/ UsersAt(store.tree, store.leaf) = {}
      BY CurrentSourceNamed DEF Here
    <2>3. ASSUME NEW id, NEW path, NEW version, NEW by
          PROVE  Extends(store, Put(store, CurrentSourceEntry,
                                <<GroundingUpsert(id, path, version, by)>>, persisted))
      BY <1>0, <2>2, GroundingExtends
    <2> QED
      BY <1>0, <2>1, <2>3
  <1>2. ASSUME NEW persisted, SubmitHandOff(persisted) PROVE Extends(store, store')
    <2> DEFINE selected == phase.pending # None
               item == IF selected THEN run.fly.plan.item ELSE phase.item
               planned == IF selected THEN run.fly.plan.events \o Upserts(item, run.fly.read) ELSE <<>>
               held == \/ item \in DOMAIN store.ledger.items
                       \/ \E i \in DOMAIN planned : planned[i].op = "work-create"
               events == planned \o (IF item # None /\ held
                                       THEN <<Boundary(item, "investigation-handoff")>> ELSE <<>>)
               from == IF selected THEN phase.pending.source ELSE SourceOrKey(phase.key)
    <2>1. \/ store' = store
          \/ phase # None /\ events # <<>> /\ store' = AppendCommit(store, from, events)
      BY <1>2, ZenonT(60) DEF SubmitHandOff
    <2>2. ~selected /\ item = None => events = <<>>
      OBVIOUS
    <2>3. phase # None /\ events # <<>> => ~Bare(phase)
      BY <2>2 DEF Bare
    <2> HIDE DEF events
    <2>4. CASE phase # None /\ events # <<>> /\ store' = AppendCommit(store, from, events)
      <3>1. from \in Named(store.tree, store.leaf)
        BY <2>3, <2>4, NotBare
      <3> HIDE DEF from
      <3> QED
        BY <1>0, <2>4, <3>1, AppendExtends
    <2> QED
      BY <1>0, <2>1, <2>4
  <1>3. ASSUME NEW persisted, SubmitReopen(persisted) PROVE Extends(store, store')
    <2> DEFINE target == IF phase = None THEN None ELSE ReopenTarget(store.ledger, phase)
               from == SourceOrKey(phase.key)
               owner == IF store.ledger.incumbent # None THEN store.ledger.incumbent.model
                                                         ELSE session.served
               events == ReopenEvents(target, [deliverable |-> run.fly.deliverable])
                           \o Upserts(target, run.fly.read)
               more == << [op |-> "incumbent", incumbent |->
                             [model |-> owner, dimension |-> run.fly.deliverable, item |-> target]] >>
               reopened == AppendCommit(store, from, events)
    <2>1. \/ store' = store
          \/ phase # None /\ target # None /\ store' = Put(reopened, from, more, TRUE)
      <3>1. \/ store' = store
            \/ target # None /\ store' = Put(reopened, from, more, TRUE)
        BY <1>3, ZenonT(60) DEF SubmitReopen
      <3>2. target # None => phase # None
        OBVIOUS
      <3> QED
        BY <3>1, <3>2
    <2>2. phase # None /\ target # None => ~Bare(phase)
      BY TargetNotBare
    <2>3. phase # None /\ target # None => from \in Named(store.tree, store.leaf)
      BY <2>2, NotBare
    <2> HIDE DEF target, from, owner, events, more, reopened
    <2>4. CASE phase # None /\ target # None /\ store' = Put(reopened, from, more, TRUE)
      <3>1. Extends(store, reopened)
        BY <1>0, <2>3, <2>4, AppendExtends DEF reopened
      <3>2. StoreGood(reopened) /\ from \in Named(reopened.tree, reopened.leaf)
        BY <3>1, <2>3, <2>4 DEF Extends, Named
      <3>3. Extends(reopened, store')
        BY <2>4, <3>2, AppendExtends
      <3> QED
        BY <1>0, <3>1, <3>3, ExtendsIsPreorder
    <2> QED
      BY <1>0, <2>1, <2>4
  <1> QED
    BY <1>1, <1>2, <1>3 DEF Finish

LEMMA ToolCallExtends ==
  ASSUME EntryInv, PlaceInv, ToolCall
  PROVE  Extends(store, store')
  <1>0. StoreGood(store) /\ Extends(store, store)
    BY ExtendsIsPreorder DEF PlaceInv
  <1>1. CASE store' = store
    BY <1>0, <1>1
  <1>2. ASSUME NEW outcome, CompleteWork(outcome) PROVE Extends(store, store')
    <2>1. phase.key = Key(run.entry) /\ run.entry \in Here
      BY <1>2, AtEntry DEF CompleteWork, InCall
    <2>2. SourceOrKey(phase.key) \in Named(store.tree, store.leaf)
      BY <2>1, SourceOrKeyNamed
    <2>3. \E events : store' = AppendCommit(store, SourceOrKey(phase.key), events)
      BY <1>2 DEF CompleteWork
    <2> QED
      BY <1>0, <2>2, <2>3, AppendExtends
  <1>3. ASSUME NEW i, NEW p, UpdateWork(i, p) PROVE Extends(store, store')
    <2>1. run.entry \in Here
      BY <1>3, AtEntry DEF UpdateWork, InCall
    <2>2. CurrentSourceEntry \in Named(store.tree, store.leaf)
      BY <2>1, CurrentSourceNamed
    <2>3. \E events : store' = AppendCommit(store, CurrentSourceEntry, events)
      BY <1>3 DEF UpdateWork
    <2> QED
      BY <1>0, <2>2, <2>3, AppendExtends
  <1> QED
    BY <1>1, <1>2, <1>3
       DEF ToolCall, StartRead, Edit, RefuseEdit, DeclareAnswer, AskUser, StartHandOff, StartReopen

LEMMA UserSendsExtends ==
  ASSUME EntryInv, PlaceInv, NEW refs, NEW recorded, UserSends(refs, recorded)
  PROVE  /\ Extends(store, store')
         /\ store'.leaf \in Here'
         /\ run'.pc # "idle" => run'.entry = store'.leaf
  <1> DEFINE noted == IF RequestRouting(Branch).routedAtEnd # auto /\ recorded
                        THEN AddSelection(store, auto) ELSE store
             entry == [Entry("user") EXCEPT !.refs = refs]
  <1>0. StoreGood(store)
    BY DEF PlaceInv
  <1>1. Extends(store, noted)
    BY <1>0, SelectionExtends, ExtendsIsPreorder
  <1>2. store' = AddEntry(noted, entry)
    BY DEF UserSends
  <1>3. run.pc = "idle" /\ run' = IF auto THEN [run EXCEPT !.pc = "route", !.entry = store'.leaf,
                                                           !.calls = 0] ELSE run
    BY DEF UserSends
  <1> HIDE DEF noted
  <1>4. /\ Extends(noted, store') /\ store'.leaf \in UsersAt(store'.tree, store'.leaf)
    <2>1. DOMAIN entry = NodeFields /\ entry.kind = "user"
      BY EntryIsNode DEF Entry
    <2> HIDE DEF entry
    <2>2. StoreGood(noted)
      BY <1>1 DEF Extends
    <2> QED
      BY <1>2, <2>1, <2>2, AddExtends DEF Kinds
  <1>5. Extends(store, store')
    BY <1>0, <1>1, <1>4, ExtendsIsPreorder
  <1>6. run'.pc # "idle" => run'.entry = store'.leaf
    BY <1>3 DEF EntryInv, ShapeInv
  <1> QED
    BY <1>4, <1>5, <1>6 DEF Here

LEMMA SelectModelExtends ==
  ASSUME PlaceInv, SelectModel
  PROVE  Extends(store, store')
  <1> DEFINE switched == AddSelection(store, ~auto)
  <1>0. StoreGood(store)
    BY DEF PlaceInv
  <1>1. Extends(store, switched)
    BY <1>0, SelectionExtends
  <1>2. store' = ClearIncumbent(switched) \/ store' = Restored(switched, switched.leaf)
    BY DEF SelectModel
  <1> HIDE DEF switched
  <1>3. StoreGood(switched) /\ switched.leaf \in 0..Len(switched.tree)
    BY <1>1 DEF Extends, StoreGood, StoreOK
  <1>4. Extends(switched, ClearIncumbent(switched))
    BY <1>3, SelectionExtends
  <1>5. Extends(switched, Restored(switched, switched.leaf))
    BY <1>3, SelectionExtends DEF Extends
  <1>6. Extends(switched, store')
    BY <1>2, <1>4, <1>5
  <1> QED
    BY <1>0, <1>1, <1>6, ExtendsIsPreorder

LEMMA RestartExtends ==
  ASSUME PlaceInv, NEW isAuto, NEW damaged, Restart(isAuto, damaged)
  PROVE  Extends(store, store')
  <1> DEFINE tree == [i \in DOMAIN store.tree |->
                        IF i = damaged THEN [store.tree[i] EXCEPT !.damaged = TRUE] ELSE store.tree[i]]
             st == [store EXCEPT !.tree = tree]
  <1>0. StoreGood(store) /\ StoreOK(store)
    BY DEF PlaceInv, StoreGood
  <1>1. store' = Restored(st, store.leaf)
    BY DEF Restart
  <1>2. /\ st.leaf = store.leaf /\ st.ledger = store.ledger /\ st.tree = tree
        /\ DOMAIN st = {"tree", "leaf", "ledger"}
    BY <1>0 DEF StoreOK
  <1>3. DOMAIN store.tree = 1..Len(store.tree) /\ Len(store.tree) \in Nat
    BY <1>0 DEF StoreOK, IsTree
  <1>4. Len(tree) = Len(store.tree) /\ IsTree(tree)
    BY <1>3 DEF IsTree
  <1>5. \A i \in 1..Len(store.tree) :
          /\ DOMAIN tree[i] = NodeFields
          /\ \A f \in NodeFields \ {"damaged"} : tree[i][f] = store.tree[i][f]
    BY <1>0, <1>3 DEF StoreOK, NodeFields
  <1> HIDE DEF st, tree
  <1>6. Grows(store, st) /\ StoreOK(st)
    BY <1>0, <1>2, <1>4, <1>5 DEF Grows, StoreOK
  <1>7. Parented(st.tree)
    <2>1. \A i \in 1..Len(store.tree) : st.tree[i].parent = store.tree[i].parent
      BY <1>2, <1>5 DEF NodeFields
    <2> QED
      BY <2>1, <1>0, <1>2, <1>4, GoodIsParented DEF Parented
  <1>8. /\ UsersAt(st.tree, st.leaf) = UsersAt(store.tree, store.leaf)
        /\ TreeOK(st.tree)
    BY <1>0, <1>2, <1>4, <1>6, <1>7, NodesStay DEF TreeOK, StoreOK
  <1>9. StoreGood(st)
    BY <1>0, <1>2, <1>6, <1>8 DEF StoreGood
  <1>10. Extends(store, st)
    BY <1>6, <1>8, <1>9 DEF Extends
  <1>11. Extends(st, store')
    <2>1. st.leaf \in 0..Len(st.tree)
      BY <1>6 DEF StoreOK
    <2> QED
      BY <1>1, <1>2, <1>9, <2>1, SelectionExtends DEF Extends
  <1> QED
    BY <1>0, <1>10, <1>11, ExtendsIsPreorder

(* What of the entry is written to a branch, and when.                     *)
Placed == {"key", "pending", "item", "prior", "completion"}

LEMMA PlaceStep ==
  ASSUME PlaceInv, Extends(store, store'),
         run'.pc # "idle" => run'.entry \in Here',
         source' \in {source, None} \/ source' \in Named(store'.tree, store'.leaf),
         \/ phase' = None
         \/ /\ phase # None /\ phase'.key = phase.key
            /\ phase'.pending \in {phase.pending, None}
            /\ Bare(phase) => Bare(phase') \/ \E id \in Here : phase.key = Key(id)
  PROVE  PlaceInv'
  <1>1. /\ StoreGood(store') /\ Here \subseteq Here'
        /\ Named(store.tree, store.leaf) \subseteq Named(store'.tree, store'.leaf)
    BY DEF Extends, Here, Named
  <1>2. source' # None => source' \in Named(store'.tree, store'.leaf)
    BY <1>1 DEF PlaceInv
  <1>3. ASSUME phase' # None
        PROVE  /\ \E i \in 1..Len(store'.tree) : phase'.key = Key(i)
               /\ Bare(phase') \/ \E id \in Here' : phase'.key = Key(id)
               /\ phase'.pending # None =>
                    phase'.pending.source \in Nat /\ phase'.key = Key(phase'.pending.source)
    <2>1. \A i \in 1..Len(store.tree) : i \in 1..Len(store'.tree)
      <3>1. Len(store.tree) \in Nat /\ Len(store'.tree) \in Nat /\ Len(store.tree) <= Len(store'.tree)
        BY DEF Extends, Grows, StoreOK, IsTree, PlaceInv, StoreGood
      <3> QED
        BY <3>1
    <2>2. \E i \in 1..Len(store'.tree) : phase'.key = Key(i)
      BY <2>1, <1>3 DEF PlaceInv
    <2>3. Bare(phase') \/ \E id \in Here' : phase'.key = Key(id)
      BY <1>1, <1>3 DEF PlaceInv
    <2>4. phase'.pending # None =>
            phase'.pending.source \in Nat /\ phase'.key = Key(phase'.pending.source)
      BY <1>3 DEF PlaceInv
    <2> QED
      BY <2>2, <2>3, <2>4
  <1> QED
    BY <1>1, <1>2, <1>3 DEF PlaceInv

LEMMA PlacedStays ==
  ASSUME PlaceInv, phase # None, \A f \in Placed : phase'[f] = phase[f]
  PROVE  /\ phase # None /\ phase'.key = phase.key
         /\ phase'.pending \in {phase.pending, None}
         /\ Bare(phase) => Bare(phase') \/ \E id \in Here : phase.key = Key(id)
  BY DEF Placed, Bare

LEMMA RunPlaced ==
  ASSUME PlaceInv, Extends(store, store'), RunFollows
  PROVE  run'.pc # "idle" => run'.entry \in Here'
  <1>1. Here \subseteq Here'
    BY DEF Extends, Here
  <1>2. run'.pc # "idle" => run'.entry = run.entry /\ run.pc # "idle"
    BY DEF RunFollows
  <1> QED
    BY <1>1, <1>2 DEF PlaceInv

LEMMA ToolCallPlaced ==
  ASSUME EntryInv, PlaceInv, ToolCall
  PROVE  PlaceInv'
  <1>1. Extends(store, store')
    BY ToolCallExtends
  <1>2. ShapeInv /\ RunFollows
    BY ToolCallFollows DEF EntryInv, Follow
  <1>3. run'.pc # "idle" => run'.entry \in Here'
    BY <1>1, <1>2, RunPlaced
  <1>4. source' = source
    BY Zenon DEF ToolCall, StartRead, Edit, RefuseEdit, DeclareAnswer, AskUser, StartHandOff,
                 StartReopen, CompleteWork, UpdateWork
  <1>5. phase # None /\ PhaseOK(phase) /\ run.pc = "tools"
    <2>1. phase # None /\ run.pc = "tools"
      BY Zenon DEF ToolCall, StartRead, Edit, RefuseEdit, DeclareAnswer, AskUser, StartHandOff,
                   StartReopen, CompleteWork, UpdateWork, InCall
    <2> QED
      BY <2>1, <1>2 DEF ShapeInv
  <1>6. \E id \in Here : phase.key = Key(id)
    BY <1>5, AtEntry
  <1>7. phase'.key = phase.key /\ phase'.pending \in {phase.pending, None}
    <2>1. \/ phase' = phase
          \/ phase' = CountDenial(phase)
          \/ phase' = [phase EXCEPT !.mutated = TRUE]
          \/ phase' = [phase EXCEPT !.answered = TRUE, !.pending = None, !.provisional = <<>>]
          \/ phase' = [phase EXCEPT !.status = "clarification-only", !.needsUser = TRUE]
          \/ \E done : phase' = [phase EXCEPT !.completion = done]
      BY Zenon DEF ToolCall, StartRead, Edit, RefuseEdit, DeclareAnswer, AskUser, StartHandOff,
                   StartReopen, CompleteWork, UpdateWork
    <2> QED
      BY <2>1, <1>5 DEF CountDenial, PhaseOK, PhaseFields
  <1> QED
    BY <1>1, <1>3, <1>4, <1>5, <1>6, <1>7, PlaceStep

LEMMA FinishPlaced ==
  ASSUME EntryInv, PlaceInv, Finish
  PROVE  PlaceInv'
  <1>1. Extends(store, store')
    BY FinishExtends
  <1>2. ShapeInv /\ RunFollows
    BY FinishFollows DEF EntryInv, Follow
  <1>3. run'.pc # "idle" => run'.entry \in Here'
    BY <1>1, <1>2, RunPlaced
  <1>3a. Named(store.tree, store.leaf) \subseteq Named(store'.tree, store'.leaf)
    BY <1>1 DEF Extends, Named
  <1> DEFINE Kept == \/ phase' = None
                     \/ /\ phase # None /\ phase'.key = phase.key
                        /\ phase'.pending \in {phase.pending, None}
                        /\ Bare(phase) => Bare(phase') \/ \E id \in Here : phase.key = Key(id)
  <1>4. ASSUME phase' = phase PROVE Kept
    BY <1>4, PlacedStays
  <1>5. ASSUME NEW persisted, FinishRead(persisted) \/ FinishEdit(persisted)
        PROVE  source' = source /\ Kept
    <2>1. source' = source
      BY <1>5 DEF FinishRead, FinishEdit
    <2>2. phase' = phase \/ (phase # None /\ \E read : phase' = [phase EXCEPT !.provisional = read])
      BY <1>5, Zenon DEF FinishRead, FinishEdit
    <2>3. ASSUME phase # None, NEW read, phase' = [phase EXCEPT !.provisional = read] PROVE Kept
      <3>1. \A f \in Placed : phase'[f] = phase[f]
        BY <2>3, <1>2 DEF Placed, ShapeInv, PhaseOK, PhaseFields
      <3> QED
        BY <2>3, <3>1, PlacedStays
    <2> QED
      BY <1>4, <2>1, <2>2, <2>3
  <1>6. ASSUME NEW persisted, SubmitHandOff(persisted)
        PROVE  (source' = source \/ source' \in Named(store.tree, store.leaf)) /\ Kept
    <2> DEFINE selected == phase.pending # None
               item == IF selected THEN run.fly.plan.item ELSE phase.item
               entered == IF selected
                            THEN [phase EXCEPT !.pending = None, !.provisional = <<>>, !.item = item]
                            ELSE phase
               accepted == [AcceptContextHandoff(entered, run.fly.deliverable)
                              EXCEPT !.prior = None, !.completion = None]
    <2>1. \/ phase' = phase /\ source' = source
          \/ phase # None /\ phase' = CountDenial(phase) /\ source' = source
          \/ /\ phase # None /\ phase' = accepted
             /\ source' = IF selected THEN phase.pending.source ELSE source
      BY <1>6, Zenon DEF SubmitHandOff
    <2>2. ASSUME phase # None, phase' = CountDenial(phase) PROVE Kept
      <3>1. \A f \in Placed : phase'[f] = phase[f]
        BY <2>2, <1>2 DEF Placed, ShapeInv, PhaseOK, PhaseFields, CountDenial
      <3> QED
        BY <2>2, <3>1, PlacedStays
    <2>3. ASSUME phase # None, selected
          PROVE  phase.pending.source \in Named(store.tree, store.leaf)
                 /\ \E id \in Here : phase.key = Key(id)
      <3>1. ~Bare(phase)
        BY <2>3 DEF Bare
      <3> QED
        BY <2>3, <3>1, NotBare DEF PlaceInv
    <2>4. ASSUME phase # None, phase' = accepted PROVE Kept
      <3>1. DOMAIN phase = PhaseFields
        BY <2>4, <1>2 DEF ShapeInv, PhaseOK
      <3>2. /\ entered.key = phase.key /\ entered.pending = None
            /\ entered.item = item /\ DOMAIN entered = PhaseFields
        BY <3>1 DEF PhaseFields
      <3> HIDE DEF entered
      <3>3. /\ phase'.key = phase.key /\ phase'.pending = None
            /\ phase'.item = item /\ phase'.prior = None /\ phase'.completion = None
        BY <2>4, <3>2 DEF AcceptContextHandoff, PhaseFields
      <3>4. Bare(phase) => Bare(phase')
        BY <3>3 DEF Bare
      <3> QED
        BY <2>4, <3>3, <3>4
    <2> HIDE DEF accepted, Kept
    <2> QED
      BY <2>1, <2>2, <2>3, <2>4, <1>4 DEF Kept
  <1>7. ASSUME NEW persisted, SubmitReopen(persisted) PROVE source' = source /\ Kept
    <2> DEFINE target == IF phase = None THEN None ELSE ReopenTarget(store.ledger, phase)
               accepted == AcceptContextHandoff(phase, run.fly.deliverable)
    <2>1. source' = source
      BY <1>7, Zenon DEF SubmitReopen
    <2>2. \/ phase' = phase
          \/ target # None /\ phase' = [accepted EXCEPT !.prior = None, !.completion = None,
                                          !.pending = None, !.provisional = <<>>, !.item = target]
      BY <1>7, Zenon DEF SubmitReopen
    <2>3. ASSUME target # None, phase' = [accepted EXCEPT !.prior = None, !.completion = None,
                                          !.pending = None, !.provisional = <<>>, !.item = target]
          PROVE  Kept
      <3>1. phase # None /\ ~Bare(phase)
        BY <2>3, TargetNotBare
      <3>2. DOMAIN phase = PhaseFields
        BY <3>1, <1>2 DEF ShapeInv, PhaseOK
      <3> HIDE DEF target
      <3>3. phase'.key = phase.key /\ phase'.pending = None
        BY <2>3, <3>2 DEF AcceptContextHandoff, PhaseFields
      <3> QED
        BY <3>1, <3>3
    <2> QED
      BY <1>4, <2>1, <2>2, <2>3
  <1>8. (source' = source \/ source' \in Named(store'.tree, store'.leaf)) /\ Kept
    BY <1>3a, <1>5, <1>6, <1>7 DEF Finish
  <1>9. source' \in {source, None} \/ source' \in Named(store'.tree, store'.leaf)
    BY <1>8
  <1>10. Kept
    BY <1>8
  <1> QED
    BY <1>1, <1>3, <1>9, <1>10, PlaceStep

LEMMA RouteKeeps ==
  ASSUME NEW state, PhaseOK(state), NEW key
  PROVE  /\ DOMAIN EnterAcquisition(state) = PhaseFields
         /\ \A f \in Placed : EnterAcquisition(state)[f] = state[f]
         /\ \A f \in Placed : CountAcquisitionRequest(EnterAcquisition(state), key)[f] = state[f]
  <1> DEFINE begun == IF state.status = None
                        THEN [state EXCEPT !.status = "acquiring", !.requests = 0] ELSE state
             entered == EnterAcquisition(state)
  <1>1. DOMAIN begun = PhaseFields /\ \A f \in Placed : begun[f] = state[f]
    BY DEF PhaseOK, PhaseFields, Placed
  <1>2. entered \in {state, begun, [begun EXCEPT !.status = "clarification-only"]}
    BY DEF EnterAcquisition
  <1> HIDE DEF begun, entered
  <1>3. DOMAIN entered = PhaseFields /\ \A f \in Placed : entered[f] = state[f]
    BY <1>1, <1>2 DEF PhaseOK, PhaseFields, Placed
  <1>4. CountAcquisitionRequest(entered, key) \in {entered, [entered EXCEPT !.requests = @ + 1]}
    BY DEF CountAcquisitionRequest
  <1>5. \A f \in Placed : CountAcquisitionRequest(entered, key)[f] = state[f]
    BY <1>3, <1>4 DEF PhaseFields, Placed
  <1> QED
    BY <1>3, <1>5 DEF entered

LEMMA RoutePlaced ==
  ASSUME EntryInv, PlaceInv, Route
  PROVE  PlaceInv'
  <1> DEFINE key == Key(run.entry)
             pending == ResolveEntryContext(key, BaseDimension(key), store.tree[run.entry].refs)
  <1>1. /\ run.pc = "route" /\ store' = store
        /\ source' = IF Known THEN source ELSE pending.source
    BY DEF Route, Known
  <1>2. run.entry \in Here /\ run.entry \in Nat /\ StoreGood(store)
    BY <1>1, BranchOK DEF PlaceInv
  <1>3. pending.source = run.entry
    <2>1. -key = run.entry
      BY <1>2 DEF Key
    <2>2. LatestGenuineUserEntry(Branch, -key) = run.entry
      BY <1>2, <2>1, BranchOK, LatestUser
    <2>3. run.entry # None
      BY <1>2, BranchOK
    <2> QED
      BY <2>2, <2>3 DEF ResolveEntryContext
  <1>4. Extends(store, store') /\ Here' = Here
    BY <1>1, <1>2, ExtendsIsPreorder DEF Here
  <1>5. run'.pc # "idle" => run'.entry \in Here'
    <2>1. run'.pc = "idle" \/ run'.entry = run.entry
      BY RouteEffect DEF IdleRun, EntryInv, ShapeInv
    <2> QED
      BY <2>1, <1>2, <1>4
  <1>6. source' \in {source, None} \/ source' \in Named(store'.tree, store'.leaf)
    BY <1>1, <1>2, <1>3, BranchOK
  <1>7. phase' = Entered \/ phase' = CountAcquisitionRequest(Entered, key)
    BY RouteEffect
  <1>8. Known => InEntry
    BY <1>1 DEF InEntry
  <1>9. ASSUME Advanced = None PROVE phase' = None
    BY <1>7, <1>9 DEF Entered, EnterAcquisition, CountAcquisitionRequest
  <1>10. ASSUME Advanced # None
         PROVE  PhaseOK(Advanced) /\ phase' # None => \A f \in Placed : phase'[f] = Advanced[f]
    BY <1>7, RouteKeeps DEF Entered
  <1>11. ASSUME Advanced # None PROVE PhaseOK(Advanced)
    <2>1. Known \in BOOLEAN
      BY DEF Known
    <2> QED
      BY <1>11, <2>1, AdvanceEffect DEF EntryInv, Advanced
  <1>12. CASE Advanced # None /\ Known
    <2>1. phase # None /\ Advanced = [phase EXCEPT !.deniedNow = FALSE] /\ DOMAIN phase = PhaseFields
      BY <1>12 DEF Advanced, AdvanceWorkPhase, EntryInv, ShapeInv, PhaseOK
    <2>2. \A f \in Placed : Advanced[f] = phase[f]
      BY <2>1 DEF Placed, PhaseFields
    <2>3. phase' # None => \A f \in Placed : phase'[f] = phase[f]
      BY <2>2, <1>10, <1>11, <1>12
    <2>4. \/ phase' = None
          \/ /\ phase # None /\ phase'.key = phase.key
             /\ phase'.pending \in {phase.pending, None}
             /\ Bare(phase) => Bare(phase') \/ \E id \in Here : phase.key = Key(id)
      BY <2>1, <2>3, PlacedStays
    <2> QED
      BY <2>4, <1>4, <1>5, <1>6, PlaceStep
  <1>13. CASE Advanced # None /\ ~Known
    <2>1. Advanced.key = key /\ Advanced.pending = pending
      BY <1>13 DEF Advanced, AdvanceWorkPhase, FreshPhase
    <2>2. phase' # None => phase'.key = key /\ phase'.pending = pending
      BY <2>1, <1>10, <1>11, <1>13 DEF Placed
    <2>3. run.entry \in 1..Len(store.tree)
      BY <1>2, BranchOK
    <2> HIDE DEF pending
    <2>4. source' # None => source' \in Named(store'.tree, store'.leaf)
      BY <1>1, <1>6 DEF PlaceInv
    <2> QED
      BY <2>2, <2>3, <2>4, <1>1, <1>2, <1>3, <1>4, <1>5 DEF PlaceInv
  <1>14. CASE Advanced = None
    BY <1>9, <1>14, <1>4, <1>5, <1>6, PlaceStep
  <1> QED
    BY <1>12, <1>13, <1>14

LEMMA NavigatePlaced ==
  ASSUME EntryInv, PlaceInv, NEW leaf \in 0..Len(store.tree), Navigate(leaf)
  PROVE  PlaceInv'
  <1>0. StoreGood(store) /\ Len(store.tree) \in Nat
    BY DEF PlaceInv, StoreGood, StoreOK, IsTree
  <1>1. store' = Restored(store, leaf) /\ source' = None /\ run' = run /\ run.pc = "idle"
    BY DEF Navigate
  <1>2. StoreGood(store') /\ store'.tree = store.tree /\ store'.leaf = leaf
    BY <1>0, <1>1, SelectionExtends
  <1>3. Here' = UserIds(Path(store.tree, leaf))
    BY <1>2 DEF Here, UsersAt
  <1>4. ASSUME phase' # None
        PROVE  /\ \E i \in 1..Len(store'.tree) : phase'.key = Key(i)
               /\ Bare(phase') \/ \E id \in Here' : phase'.key = Key(id)
               /\ phase'.pending # None =>
                    phase'.pending.source \in Nat /\ phase'.key = Key(phase'.pending.source)
    <2>1. phase # None
      BY <1>4 DEF Navigate
    <2>2. PICK i \in 1..Len(store.tree) : phase.key = Key(i)
      BY <2>1 DEF PlaceInv
    <2>3. CASE KeyOnBranch(Path(store.tree, leaf), phase.key)
      <3>1. phase' = phase
        BY <2>1, <2>3 DEF Navigate
      <3>2. -phase.key \in Here'
        BY <2>3, <1>3 DEF KeyOnBranch, BranchHoldsEntry
      <3>3. -phase.key = i /\ i \in Nat
        BY <2>2, <1>0 DEF Key
      <3> QED
        BY <2>1, <2>2, <3>1, <3>2, <3>3, <1>2 DEF PlaceInv
    <2>4. CASE ~KeyOnBranch(Path(store.tree, leaf), phase.key)
      <3>1. \E deliverable : phase' = FreshPhase(phase.key, deliverable)
        BY <2>1, <2>4 DEF Navigate, CarryAcrossBranch
      <3>2. phase'.key = phase.key /\ Bare(phase') /\ phase'.pending = None
        BY <3>1 DEF FreshPhase, Bare
      <3> QED
        BY <3>2, <2>2, <1>2
    <2> QED
      BY <2>3, <2>4
  <1> QED
    BY <1>1, <1>2, <1>4 DEF PlaceInv

LEMMA OtherStepsPlaced ==
  ASSUME EntryInv, PlaceInv,
         \/ Walk \/ NextRequest \/ FinalAnswer \/ Remind \/ Settled \/ SelectModel \/ UserAborts
         \/ (\E p : ExternalEdit(p)) \/ UNCHANGED vars
         \/ (\E refs, recorded : UserSends(refs, recorded))
         \/ (\E isAuto, damaged : Restart(isAuto, damaged))
  PROVE  PlaceInv'
  <1> DEFINE Kept == \/ phase' = None
                     \/ /\ phase # None /\ phase'.key = phase.key
                        /\ phase'.pending \in {phase.pending, None}
                        /\ Bare(phase) => Bare(phase') \/ \E id \in Here : phase.key = Key(id)
  <1>0. StoreGood(store) /\ Extends(store, store) /\ ShapeInv
    BY ExtendsIsPreorder DEF PlaceInv, EntryInv
  <1>1. ASSUME phase' = phase PROVE Kept
    BY <1>1, PlacedStays
  <1>2. ASSUME phase # None, \A f \in Placed : phase'[f] = phase[f] PROVE Kept
    BY <1>2, PlacedStays
  <1>3. ASSUME Extends(store, store'), run'.pc # "idle" => run'.entry \in Here',
               source' \in {source, None}, Kept
        PROVE  PlaceInv'
    BY <1>3, PlaceStep
  <1>4. ASSUME Extends(store, store'), run'.pc = "idle" \/ (run.pc # "idle" /\ run'.entry = run.entry)
        PROVE  run'.pc # "idle" => run'.entry \in Here'
    BY <1>4 DEF PlaceInv, Extends, Here
  <1>5. phase # None => DOMAIN phase = PhaseFields
    BY <1>0 DEF ShapeInv, PhaseOK
  <1> HIDE DEF Kept
  <1>6. ASSUME NEW m, NEW clears, NEW lost, Serve(m, clears, lost) PROVE PlaceInv'
    <2>1. Extends(store, store')
      BY <1>6, ServeExtends
    <2>2. run.pc # "idle" /\ run'.entry = run.entry /\ source' = source /\ phase # None
      BY <1>6, <1>0 DEF Serve, ShapeInv
    <2>3. \A f \in Placed : phase'[f] = phase[f]
      BY <1>5, <1>6, <2>2 DEF Serve, SettleBoundary, Placed, PhaseFields
    <2> QED
      BY <2>1, <2>2, <2>3, <1>2, <1>3, <1>4
  <1>7. CASE AttemptFails
    <2>1. store' = store /\ source' = source
      BY <1>7 DEF AttemptFails
    <2>2. run'.pc = "idle" \/ (run.pc # "idle" /\ run'.entry = run.entry)
      BY <1>7, <1>0 DEF AttemptFails, ShapeInv, IdleRun
    <2>3. phase' = phase \/ phase' = CountAcquisitionRequest(phase, run.scored.key)
      BY <1>7 DEF AttemptFails
    <2>4. phase' = phase \/ (phase # None /\ phase' = [phase EXCEPT !.requests = @ + 1])
      BY <2>3 DEF CountAcquisitionRequest
    <2>5. phase' = phase \/ (phase # None /\ \A f \in Placed : phase'[f] = phase[f])
      BY <2>4, <1>5 DEF Placed, PhaseFields
    <2> QED
      BY <2>1, <2>2, <2>5, <1>0, <1>1, <1>2, <1>3, <1>4
  <1>8. CASE NextRequest \/ FinalAnswer \/ UserAborts \/ (\E p : ExternalEdit(p)) \/ UNCHANGED vars
    <2>1. store' = store /\ source' = source /\ phase' = phase
      BY <1>8 DEF NextRequest, FinalAnswer, UserAborts, ExternalEdit, vars
    <2>2. RunFollows
      BY <1>0, <1>8, OtherStepsFollow DEF Follow
    <2>3. run'.pc # "idle" => run'.entry \in Here'
      BY <1>0, <2>1, <2>2, RunPlaced
    <2> QED
      BY <2>1, <2>3, <1>0, <1>1, <1>3
  <1>9. CASE SelectModel
    <2>1. Extends(store, store') /\ source' \in {source, None} /\ phase' = phase /\ run' = run
      BY <1>9, SelectModelExtends DEF SelectModel
    <2> QED
      BY <2>1, <1>1, <1>3, <1>4
  <1>10. CASE Remind \/ Settled
    <2>1. store' = store /\ source' = source
      BY <1>10 DEF Remind, Settled
    <2>2. run'.pc = "idle" \/ (run.pc # "idle" /\ run'.entry = run.entry)
      BY <1>10, <1>0 DEF Remind, Settled, ShapeInv, IdleRun
    <2>3. phase' = phase \/ (phase # None /\ \/ phase' = [phase EXCEPT !.contextReminded = TRUE]
                                             \/ phase' = [phase EXCEPT !.completionReminded = TRUE]
                                             \/ phase' = [phase EXCEPT !.outcomeLogged = TRUE])
      BY <1>10 DEF Remind, Settled
    <2>4. phase' = phase \/ (phase # None /\ \A f \in Placed : phase'[f] = phase[f])
      BY <2>3, <1>5 DEF Placed, PhaseFields
    <2> QED
      BY <2>1, <2>2, <2>4, <1>0, <1>1, <1>2, <1>3, <1>4
  <1>11. ASSUME NEW refs, NEW recorded, UserSends(refs, recorded) PROVE PlaceInv'
    <2>1. /\ Extends(store, store') /\ store'.leaf \in Here'
          /\ run'.pc # "idle" => run'.entry = store'.leaf
      BY <1>11, UserSendsExtends
    <2>2. source' = source /\ phase' = phase
      BY <1>11 DEF UserSends
    <2> QED
      BY <2>1, <2>2, <1>1, <1>3
  <1>12. ASSUME NEW isAuto, NEW damaged, Restart(isAuto, damaged) PROVE PlaceInv'
    <2>1. Extends(store, store')
      BY <1>12, RestartExtends
    <2>2. source' = None /\ phase' = None /\ run'.pc = "idle"
      BY <1>12 DEF Restart, IdleRun
    <2> QED
      BY <2>1, <2>2, <1>3 DEF Kept
  <1> QED
    BY <1>6, <1>7, <1>8, <1>9, <1>10, <1>11, <1>12 DEF Walk

LEMMA PlaceInit == Init => PlaceInv
  <1> SUFFICES ASSUME Init PROVE PlaceInv
    OBVIOUS
  <1> DEFINE first == [tree |-> <<>>, leaf |-> 0, ledger |-> EmptyLedger]
  <1>1. store = AddSelection(first, TRUE)
    BY DEF Init
  <1>2. StoreOK(first) /\ Workless(first.ledger)
    BY DEF StoreOK, IsTree, Workless, EmptyLedger, LedgerFields
  <1>3. StoreGood(first)
    BY <1>2 DEF StoreGood, TreeOK
  <1> HIDE DEF first
  <1>4. StoreGood(store)
    BY <1>1, <1>3, SelectionExtends DEF Extends
  <1> QED
    BY <1>4 DEF Init, PlaceInv, IdleRun

LEMMA PlaceNext == EntryInv /\ PlaceInv /\ [Next]_vars => PlaceInv'
  <1> SUFFICES ASSUME EntryInv, PlaceInv, [Next]_vars PROVE PlaceInv'
    OBVIOUS
  <1>1. CASE Route
    BY <1>1, RoutePlaced
  <1>2. CASE ToolCall
    BY <1>2, ToolCallPlaced
  <1>3. CASE Finish
    BY <1>3, FinishPlaced
  <1>4. ASSUME NEW leaf \in 0..Len(store.tree), Navigate(leaf) PROVE PlaceInv'
    BY <1>4, NavigatePlaced
  <1> QED
    BY <1>1, <1>2, <1>3, <1>4, OtherStepsPlaced DEF Next, World

(* Whatever is written to the session tree is below the message it answers, *)
(* so that going back in the tree drops it with its cause.                 *)
THEOREM EventsFollowTheirSource == Spec => []EventSourceOnBranch
  <1>1. PlaceInv => EventSourceOnBranch
    <2> SUFFICES ASSUME PlaceInv, NEW i \in DOMAIN store.tree, store.tree[i].kind = "event"
                 PROVE  LET users == UserIds(Path(store.tree, i))
                        IN  store.tree[i].source \in users \union {Key(id) : id \in users}
      BY DEF EventSourceOnBranch
    <2>1. i \in 1..Len(store.tree)
      BY DEF PlaceInv, StoreGood, StoreOK, IsTree
    <2> QED
      BY <2>1 DEF PlaceInv, StoreGood, TreeOK, Named, UsersAt
  <1>2. Init => EntryInv /\ SettleInv /\ PlaceInv
    BY InitEntry, PlaceInit
  <1>3. EntryInv /\ SettleInv /\ PlaceInv /\ [Next]_vars => (EntryInv /\ SettleInv /\ PlaceInv)'
    BY EntryStep, PlaceNext
  <1> QED
    BY <1>1, <1>2, <1>3, PTL DEF Spec

=============================================================================
