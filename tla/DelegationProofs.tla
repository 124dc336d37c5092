-------------------------- MODULE DelegationProofs --------------------------
(***************************************************************************)
(* Theorems about the fallback walk: every invariant and every action      *)
(* property the runs of Delegation check, for every chain, registry and    *)
(* buffer size.                                                            *)
(***************************************************************************)
EXTENDS Delegation, FiniteSetTheorems, SequenceTheorems, TLAPS

Attempting == phase \in {"auth", "stream", "backoff"}

-----------------------------------------------------------------------------
(* Types.                                                                  *)

(* What a step that blames the current candidate does to the health state. *)
LEMMA PenaliseType ==
  ASSUME TypeOK, Cur \in Key, NEW blacklist \in BOOLEAN,
         NEW strike \in BOOLEAN, NEW kill \in BOOLEAN,
         Penalise(blacklist, strike, kill)
  PROVE  /\ dead' \subseteq Provider /\ strikes' \in [Provider -> Nat]
         /\ blModels' \subseteq Key /\ blProviders' \subseteq Provider
         /\ staleWrites' \subseteq {"blacklist", "incumbent"}
  <1>1. Cur.provider \in Provider
    BY DEF Provider
  <1>2. StrikesFor(strike) \in Nat
    BY DEF StrikesFor
  <1> QED
    BY <1>1, <1>2 DEF TypeOK, Penalise, NoteWrite

LEMMA ConsequenceType ==
  ASSUME TypeOK, Cur \in Key, NEW kind, Consequence(kind)
  PROVE  /\ dead' \subseteq Provider /\ strikes' \in [Provider -> Nat]
         /\ blModels' \subseteq Key /\ blProviders' \subseteq Provider
         /\ staleWrites' \subseteq {"blacklist", "incumbent"}
  <1>1. \E b, s, k \in BOOLEAN : Penalise(b, s, k)
    BY DEF Consequence
  <1> QED
    BY <1>1, PenaliseType

LEMMA CurIsKey == TypeOK /\ idx <= Len(chain) => Cur \in Key
  BY DEF TypeOK, Cur

(* A hop permutes the live tail.                                           *)
LEMMA HopKeepsType ==
  ASSUME TypeOK, NEW S, NEW c \in PlanTrajectoryHop(S)
  PROVE  c \in Seq(Key) /\ Len(c) = Len(chain)
  <1> DEFINE tail == idx+1..Len(chain)
  <1>1. PICK p \in Bijection(tail, tail) :
          c = [n \in DOMAIN chain |-> IF n <= idx THEN chain[n]
                                                 ELSE chain[p[n]]]
    BY DEF PlanTrajectoryHop, HopOrders
  <1>2. DOMAIN chain = 1..Len(chain) /\ Len(chain) \in Nat /\ idx \in Nat
    BY DEF TypeOK
  <1>3. p \in [tail -> tail]
    BY DEF Bijection, Injection
  <1>4. c \in [1..Len(chain) -> Key]
    BY <1>1, <1>2, <1>3 DEF TypeOK
  <1>5. c \in Seq(Key)
    BY <1>4, <1>2, SeqDef
  <1> QED
    BY <1>4, <1>5, <1>2, LenProperties

(* A walk that waits for a retry has one left: TypeOK alone is not         *)
(* inductive, since leaving the backoff counts the retry.                  *)
TypeInv ==
  /\ TypeOK
  /\ phase = "backoff" => Retries(try.last)

Frame == UNCHANGED <<lastAttempted, aborted, session, lastServed, answers>>

LEMMA FreshType ==
  /\ FreshTry \in [count : 0..MaxTransientRetries,
                   last : {"none", "transient", "generic"},
                   handoff : BOOLEAN, sent : 0..SentCap]
  /\ FreshAttempt \in [buffered : 0..BufferCap, thinking : BOOLEAN,
                       severe : BOOLEAN, committed : BOOLEAN,
                       answered : BOOLEAN]
  BY FlagsAssumption
     DEF FreshTry, FreshAttempt, MaxTransientRetries, SentCap

LEMMA FailAttemptType ==
  ASSUME TypeInv, phase = "stream", Frame, UNCHANGED thinkingOut,
         NEW kind, FailAttempt(kind)
  PROVE  TypeInv'
  <1>0. Cur \in Key
    BY CurIsKey DEF TypeInv, TypeOK
  <1>1. CASE EndTurn("finalized") /\ UNCHANGED <<hopVars, try, att, health,
                                                history, staleWrites>>
    BY <1>1 DEF TypeInv, TypeOK, Frame, EndTurn, hopVars, health, history
  <1>2. CASE /\ Retries(kind) /\ phase' = "backoff"
             /\ try' = [try EXCEPT !.last = kind]
             /\ UNCHANGED <<chain, idx, result, hopVars, att, health, history,
                            staleWrites>>
    <2>1. kind \in {"transient", "generic"}
      BY <1>2 DEF Retries
    <2>2. /\ try' \in [count : 0..MaxTransientRetries,
                       last : {"none", "transient", "generic"},
                       handoff : BOOLEAN, sent : 0..SentCap]
          /\ try'.count = try.count /\ try'.last = kind
      BY <1>2, <2>1 DEF TypeInv, TypeOK
    <2>3. Retries(try.last)'
      BY <1>2, <2>2 DEF Retries
    <2> QED
      BY <1>2, <2>2, <2>3 DEF TypeInv, TypeOK, Frame, hopVars, health, history
  <1>3. CASE /\ phase' = "auth"
             /\ try' = [try EXCEPT !.handoff = TRUE] /\ att' = FreshAttempt
             /\ UNCHANGED <<chain, idx, result, hopVars, health, history,
                            staleWrites>>
    <2>1. try' \in [count : 0..MaxTransientRetries,
                    last : {"none", "transient", "generic"},
                    handoff : BOOLEAN, sent : 0..SentCap]
      BY <1>3 DEF TypeInv, TypeOK
    <2> QED
      BY <1>3, <2>1, FreshType
         DEF TypeInv, TypeOK, Frame, hopVars, health, history
  <1>4. CASE /\ Consequence(kind) /\ Advance
             /\ UNCHANGED <<chain, hopVars, try, att, history>>
    BY <1>0, <1>4, ConsequenceType
       DEF TypeInv, TypeOK, Frame, hopVars, history, Advance
  <1> QED
    BY <1>1, <1>2, <1>3, <1>4 DEF FailAttempt

LEMMA LeaveForStrongerType ==
  ASSUME TypeInv, phase = "stream", Frame, UNCHANGED thinkingOut,
         LeaveForStronger
  PROVE  TypeInv'
  <1>0. Cur \in Key
    BY CurIsKey DEF TypeInv, TypeOK
  <1>1. chain' \in Seq(Key) /\ hop' \in Key \union {None}
    BY <1>0, HopKeepsType DEF TypeInv, TypeOK, LeaveForStronger
  <1> QED
    BY <1>0, <1>1, ConsequenceType
       DEF TypeInv, TypeOK, Frame, LeaveForStronger, Advance

LEMMA ForwardType ==
  ASSUME TypeInv, phase = "stream", Frame,
         NEW isThinking \in BOOLEAN, NEW severe \in BOOLEAN,
         Forward(isThinking, severe)
  PROVE  TypeInv'
  <1> DEFINE seen == [att EXCEPT !.severe = @ \/ severe]
             held == [seen EXCEPT !.buffered = @ + 1,
                                  !.thinking = @ \/ isThinking]
             released == [seen EXCEPT !.committed = TRUE, !.buffered = 0]
             Still == UNCHANGED <<walk, hopVars, try, health, history,
                                  staleWrites>>
             AttType == [buffered : 0..BufferCap, thinking : BOOLEAN,
                         severe : BOOLEAN, committed : BOOLEAN,
                         answered : BOOLEAN]
  <1>0. att \in AttType /\ BufferCap \in Nat
    BY FlagsAssumption DEF TypeInv, TypeOK
  <1>1. /\ seen \in AttType /\ seen.buffered = att.buffered
    <2>1. (att.severe \/ severe) \in BOOLEAN
      OBVIOUS
    <2>2. \A x \in BOOLEAN : [att EXCEPT !.severe = x] \in AttType
      BY <1>0
    <2>3. \A x : [att EXCEPT !.severe = x].buffered = att.buffered
      BY <1>0
    <2> HIDE DEF AttType
    <2> QED
      BY <2>1, <2>2, <2>3
  <1>2. att.buffered < BufferCap => held \in AttType
    <2> HIDE DEF seen
    <2> SUFFICES ASSUME att.buffered < BufferCap PROVE held \in AttType
      OBVIOUS
    <2>1. seen.buffered + 1 \in 0..BufferCap
      BY <1>0, <1>1
    <2>2. (seen.thinking \/ isThinking) \in BOOLEAN
      OBVIOUS
    <2>3. \A n \in 0..BufferCap : \A y \in BOOLEAN :
            [seen EXCEPT !.buffered = n, !.thinking = y] \in AttType
      BY <1>1
    <2> HIDE DEF AttType
    <2> QED
      BY <2>1, <2>2, <2>3
  <1>3. released \in AttType
    <2> HIDE DEF seen
    <2>1. \A n \in 0..BufferCap :
            [seen EXCEPT !.committed = TRUE, !.buffered = n] \in AttType
      BY <1>1
    <2>2. 0 \in 0..BufferCap
      BY <1>0
    <2> HIDE DEF AttType
    <2> QED
      BY <2>1, <2>2
  <1>4. ASSUME Still, att' \in AttType, thinkingOut' \in BOOLEAN
        PROVE  TypeInv'
    BY <1>4 DEF TypeInv, TypeOK, Frame, walk, hopVars, health, history
  <1>5. thinkingOut \in BOOLEAN
    BY DEF TypeInv, TypeOK
  <1>6. \/ Still /\ att' = seen /\ UNCHANGED thinkingOut
        \/ /\ Still /\ att.buffered < BufferCap /\ att' = held
           /\ UNCHANGED thinkingOut
        \/ /\ UNCHANGED <<walk, hopVars, try, health, history, staleWrites>>
           /\ att' = released /\ thinkingOut' = TRUE
        \/ FailAttempt("overflow") /\ UNCHANGED thinkingOut
    BY DEF Forward
  <1>7. CASE FailAttempt("overflow") /\ UNCHANGED thinkingOut
    BY <1>7, FailAttemptType
  <1> HIDE DEF AttType, seen, held, released
  <1> QED
    BY <1>1, <1>2, <1>3, <1>4, <1>5, <1>6, <1>7

LEMMA BeginType ==
  ASSUME TypeInv, NEW k \in Key, idx <= Len(chain'), chain' \in Seq(Key),
         substituted' \in BOOLEAN, Begin(k)
  PROVE  TypeInv'
  <1>1. HopServedBy(k) \in Key \union {None}
    BY DEF TypeInv, TypeOK, HopServedBy
  <1> QED
    BY <1>1, FreshType DEF TypeInv, TypeOK, Begin, health

LEMMA DropMissingType ==
  ASSUME TypeInv, NEW k \in Key, chain' \in Seq(Key),
         substituted' \in BOOLEAN, DropMissing(k)
  PROVE  TypeInv'
  BY DEF TypeInv, TypeOK, DropMissing, NoteWrite, Advance, hopVars

LEMMA ChooseType == TypeInv /\ Choose => TypeInv'
  <1> SUFFICES ASSUME TypeInv, Choose PROVE TypeInv'
    OBVIOUS
  <1> USE DEF TypeInv, TypeOK, walk, hopVars, health, history
  <1>1. CASE SkipCandidate
    BY <1>1 DEF SkipCandidate, Advance
  <1>2. CASE MissingCandidate
    BY <1>2, CurIsKey, DropMissingType DEF MissingCandidate, AtCandidate
  <1>3. CASE AskSwitch
    BY <1>3 DEF AskSwitch, AtCandidate
  <1>4. CASE BeginCandidate
    BY <1>4, CurIsKey, BeginType DEF BeginCandidate, AtCandidate
  <1>5. CASE Exhaust
    BY <1>5 DEF Exhaust, EndTurn
  <1> QED
    BY <1>1, <1>2, <1>3, <1>4, <1>5 DEF Choose

(* The user's pick takes the current position of a chain it ends.          *)
LEMMA PickEndsChain ==
  ASSUME TypeInv, phase = "confirm", NEW k \in Key
  PROVE  LET c == Append(SubSeq(chain, 1, idx - 1), k) IN
         /\ c \in Seq(Key) /\ Len(c) = idx /\ c[idx] = k
         /\ \A n \in 1..idx-1 : c[n] = chain[n]
  <1>1. chain \in Seq(Key) /\ idx \in Nat \ {0} /\ idx <= Len(chain)
    BY DEF TypeInv, TypeOK
  <1>2. \A n \in 1..idx-1 : chain[n] \in Key
    BY <1>1
  <1>3. /\ SubSeq(chain, 1, idx - 1) \in Seq(Key)
        /\ Len(SubSeq(chain, 1, idx - 1)) = idx - 1
        /\ \A n \in 1..idx-1 : SubSeq(chain, 1, idx - 1)[n] = chain[n]
    BY <1>1, <1>2
  <1> QED
    BY <1>1, <1>3, AppendProperties

LEMMA AnswerSwitchType == TypeInv /\ AnswerSwitch => TypeInv'
  <1> SUFFICES ASSUME TypeInv, AnswerSwitch PROVE TypeInv'
    OBVIOUS
  <1>1. CASE CancelSwitch
    BY <1>1 DEF CancelSwitch, EndTurn, TypeInv, TypeOK, hopVars, health,
                history
  <1>2. CASE ProceedSwitch
    BY <1>2, CurIsKey, BeginType DEF ProceedSwitch, TypeInv, TypeOK
  <1>3. ASSUME NEW k \in Key, SubstituteSwitch(k)
        PROVE  TypeInv'
    <2>1. chain' \in Seq(Key) /\ Len(chain') = idx /\ substituted' \in BOOLEAN
      BY <1>3, PickEndsChain DEF SubstituteSwitch
    <2>2. CASE Begin(k)
      BY <2>1, <2>2, BeginType DEF TypeInv, TypeOK
    <2>3. CASE DropMissing(k)
      BY <2>1, <2>3, DropMissingType
    <2>4. CASE /\ Advance
               /\ UNCHANGED <<hopVars, try, att, health, lastAttempted,
                              aborted, session, lastServed, routed, tried,
                              abandoned, answers, thinkingOut, staleWrites>>
      BY <2>1, <2>4 DEF Advance, TypeInv, TypeOK, hopVars, health
    <2> QED
      BY <1>3, <2>2, <2>3, <2>4 DEF SubstituteSwitch
  <1> QED
    BY <1>1, <1>2, <1>3 DEF AnswerSwitch

LEMMA StreamEventType == TypeInv /\ StreamEvent => TypeInv'
  <1> SUFFICES ASSUME TypeInv, StreamEvent PROVE TypeInv'
    OBVIOUS
  <1> USE DEF Streaming, StreamFrame, Frame
  <1>1. CASE LifecycleEvent
    BY <1>1, ForwardType DEF LifecycleEvent
  <1>2. ASSUME NEW loop \in BOOLEAN, ThinkingEvent(loop)
        PROVE  TypeInv'
    <2>1. (loop /\ ~att.answered /\ ~att.committed) \in BOOLEAN
      OBVIOUS
    <2> QED
      BY <1>2, <2>1, ForwardType, LeaveForStrongerType DEF ThinkingEvent
  <1>3. CASE AnswerEvent
    <2>1. Cur \in Key
      BY <1>3, CurIsKey DEF AnswerEvent, TypeInv, TypeOK
    <2>2. att' \in [buffered : 0..BufferCap, thinking : BOOLEAN,
                    severe : BOOLEAN, committed : BOOLEAN, answered : BOOLEAN]
      <3>1. att' = [att EXCEPT !.answered = TRUE, !.buffered = 0]
        BY <1>3 DEF AnswerEvent
      <3>2. 0 \in 0..BufferCap
        BY FlagsAssumption
      <3> QED
        BY <3>1, <3>2 DEF TypeInv, TypeOK
    <2>3. (thinkingOut \/ att.thinking) \in BOOLEAN
      OBVIOUS
    <2> QED
      BY <1>3, <2>1, <2>2, <2>3
         DEF AnswerEvent, TypeInv, TypeOK, walk, hopVars, health, history
  <1>4. ASSUME NEW kind, ErrorEvent(kind)
        PROVE  TypeInv'
    BY <1>4, FailAttemptType DEF ErrorEvent
  <1>5. CASE StreamThrows
    BY <1>5, FailAttemptType DEF StreamThrows
  <1> QED
    BY <1>1, <1>2, <1>3, <1>4, <1>5 DEF StreamEvent

LEMMA AttemptType == TypeInv /\ Attempt => TypeInv'
  <1> SUFFICES ASSUME TypeInv, Attempt PROVE TypeInv'
    OBVIOUS
  <1> DEFINE TryType == [count : 0..MaxTransientRetries,
                         last : {"none", "transient", "generic"},
                         handoff : BOOLEAN, sent : 0..SentCap]
  <1>1. CASE AuthReady
    <2>1. try' = [try EXCEPT !.sent = IF try.sent < SentCap
                                      THEN try.sent + 1 ELSE try.sent]
      BY <1>1 DEF AuthReady
    <2>2. try \in TryType
      BY DEF TypeInv, TypeOK
    <2>3. (IF try.sent < SentCap THEN try.sent + 1 ELSE try.sent)
             \in 0..SentCap
      BY <2>2 DEF SentCap, MaxTransientRetries
    <2>4. try' \in TryType
      BY <2>1, <2>2, <2>3
    <2> QED
      BY <1>1, <2>4
         DEF AuthReady, MayDispatch, TypeInv, TypeOK, hopVars, health, history
  <1>2. CASE AuthFails
    <2>1. Cur \in Key
      BY <1>2, CurIsKey DEF AuthFails, TypeInv, TypeOK
    <2> QED
      BY <1>2, <2>1, ConsequenceType
         DEF AuthFails, Advance, TypeInv, TypeOK, hopVars, history
  <1>3. CASE SeeAbort
    BY <1>3 DEF SeeAbort, EndTurn, TypeInv, TypeOK, hopVars, health, history
  <1>4. CASE BackoffOver
    <2>1. try.count + 1 \in 0..MaxTransientRetries
      BY <1>4 DEF BackoffOver, Retries, TypeInv, TypeOK,
                  MaxTransientRetries, MaxGenericRetries
    <2>2. try' \in TryType
      BY <1>4, <2>1 DEF BackoffOver, NextTry, TypeInv, TypeOK
    <2> QED
      BY <1>4, <2>2, FreshType
         DEF BackoffOver, TypeInv, TypeOK, hopVars, health, history
  <1>5. CASE StreamEvent
    BY <1>5, StreamEventType
  <1>6. CASE StreamEnds
    <2> USE DEF Frame, StreamFrame, Streaming
    <2>1. CASE /\ EndTurn("served") /\ NoteWrite(TRUE, "incumbent")
               /\ UNCHANGED <<hopVars, try, att, health, history>>
      BY <1>6, <2>1 DEF StreamEnds, EndTurn, NoteWrite, TypeInv, TypeOK,
                        hopVars, health, history
    <2>2. CASE LeaveForStronger
      BY <1>6, <2>2, LeaveForStrongerType DEF StreamEnds
    <2>3. ASSUME NEW kind, FailAttempt(kind)
          PROVE  TypeInv'
      BY <1>6, <2>3, FailAttemptType DEF StreamEnds
    <2> QED
      BY <1>6, <2>1, <2>2, <2>3 DEF StreamEnds
  <1> QED
    BY <1>1, <1>2, <1>3, <1>4, <1>5, <1>6 DEF Attempt

LEMMA EnvironmentType == TypeInv /\ Environment => TypeInv'
  <1> SUFFICES ASSUME TypeInv, Environment PROVE TypeInv'
    OBVIOUS
  <1>1. Retries(try.last) => Retries(try.last)'
    BY DEF Environment, UserAborts, IntentMoves, SessionReplaced, Retries
  <1> QED
    BY <1>1 DEF Environment, UserAborts, IntentMoves, SessionReplaced, TypeInv,
                TypeOK, walk, hopVars, health, history

LEMMA TypeInvariant == Spec => []TypeInv
  <1>1. Init => TypeInv
    <2> SUFFICES ASSUME Init PROVE TypeInv
      OBVIOUS
    <2>1. routed \in Seq(Key)
      BY ChainsAssumption DEF Init
    <2>2. answers \in Seq(Key) /\ strikes \in [Provider -> Nat]
      BY DEF Init
    <2>3. try \in [count : 0..MaxTransientRetries,
                   last : {"none", "transient", "generic"},
                   handoff : BOOLEAN, sent : 0..SentCap]
          /\ att \in [buffered : 0..BufferCap, thinking : BOOLEAN,
                      severe : BOOLEAN, committed : BOOLEAN,
                      answered : BOOLEAN]
      BY FreshType DEF Init
    <2>4. /\ chain \in Seq(Key)
          /\ idx \in Nat \ {0} /\ phase = "choose" /\ result = "none"
          /\ {excluded, hop, servingHop, lastAttempted, lastServed} = {None}
          /\ dead = {} /\ blModels = {} /\ blProviders = {}
          /\ tried = {} /\ abandoned = {} /\ staleWrites = {}
          /\ session = "current"
      BY <2>1 DEF Init
    <2>5. {aborted, substituted, thinkingOut} \subseteq BOOLEAN
      BY DEF Init
    <2>6. TypeOK
      BY ONLY <2>1, <2>2, <2>3, <2>4, <2>5 DEF TypeOK
    <2> QED
      BY <2>6 DEF Init, TypeInv
  <1>2. TypeInv /\ [Next]_vars => TypeInv'
    <2>1. TypeInv /\ UNCHANGED vars => TypeInv'
      BY DEF vars, walk, hopVars, health, history, TypeInv, TypeOK, Retries
    <2> QED
      BY <2>1, ChooseType, AnswerSwitchType, AttemptType, EnvironmentType
         DEF Next
  <1> QED
    BY <1>1, <1>2, PTL DEF Spec

(* The walk's position, buffers, counters, health and history keep their   *)
(* types; the position of an attempt is within the chain it iterates over, *)
(* also after a hop has reordered or a pick has cut that chain.            *)
THEOREM WalkTypeCorrect == Spec => []TypeOK
  BY TypeInvariant, PTL DEF TypeInv

-----------------------------------------------------------------------------
(* What the consumer gets.                                                 *)

(* A walk that has ended takes no further step.                            *)
LEMMA DoneIsFinal == Next => phase # "done"
  BY DEF Next, Choose, SkipCandidate, MissingCandidate, AskSwitch,
         BeginCandidate, Exhaust, AtCandidate, AnswerSwitch, CancelSwitch,
         ProceedSwitch, SubstituteSwitch, Attempt, AuthReady, MayDispatch,
         AuthFails, SeeAbort, AbortSeen, BackoffOver, StreamEvent, Streaming,
         LifecycleEvent, ThinkingEvent, AnswerEvent, ErrorEvent, StreamThrows,
         StreamEnds, Environment, UserAborts, IntentMoves, SessionReplaced,
         Awaiting

(* While an answered attempt streams, no step but its end leaves it: that  *)
(* is the replay lock.                                                     *)
LEMMA AnsweredStays ==
  ASSUME TypeInv, phase = "stream", att.answered, Next
  PROVE  /\ phase' = "done" \/ (phase' = "stream" /\ att'.answered)
         /\ UNCHANGED answers
  <1>1. CASE SeeAbort
    BY <1>1 DEF SeeAbort, EndTurn
  <1>2. CASE LifecycleEvent
    BY <1>2 DEF LifecycleEvent, Forward, Released, TypeInv, TypeOK, walk
  <1>3. ASSUME NEW loop \in BOOLEAN, ThinkingEvent(loop)
        PROVE  /\ phase' = "stream" /\ att'.answered
               /\ UNCHANGED answers
    BY <1>3 DEF ThinkingEvent, Forward, Released, TypeInv, TypeOK, walk
  <1>4. CASE StreamThrows
    BY <1>4 DEF StreamThrows, FailAttempt, ReplayLocked, EndTurn
  <1>5. CASE StreamEnds
    BY <1>5 DEF StreamEnds, EndTurn
  <1>6. CASE Environment
    BY <1>6 DEF Environment, UserAborts, IntentMoves, SessionReplaced, walk
  <1> QED
    BY <1>1, <1>2, <1>3, <1>4, <1>5, <1>6
       DEF Next, Choose, SkipCandidate, MissingCandidate, AskSwitch,
           BeginCandidate, Exhaust, AtCandidate, AnswerSwitch, CancelSwitch,
           ProceedSwitch, SubstituteSwitch, Attempt, AuthReady, MayDispatch,
           AuthFails, BackoffOver, StreamEvent, AnswerEvent, ErrorEvent

(* The consumer's answer changes with an answer event only, the session's  *)
(* record of it also when the session or its intent moves on.              *)
LEMMA OnlyAnswersAnswer ==
  ASSUME Next
  PROVE  \/ UNCHANGED <<answers, lastServed, session>>
         \/ AnswerEvent
         \/ UNCHANGED answers /\ (IntentMoves \/ SessionReplaced)
  BY DEF Next, Choose, SkipCandidate, MissingCandidate, AskSwitch,
         BeginCandidate, Exhaust, AnswerSwitch, CancelSwitch,
         ProceedSwitch, SubstituteSwitch, Begin, DropMissing, Attempt,
         AuthReady, AuthFails, SeeAbort, BackoffOver, StreamEvent, StreamFrame,
         LifecycleEvent, ThinkingEvent, ErrorEvent, StreamThrows, StreamEnds,
         Environment, UserAborts, IntentMoves, SessionReplaced

LEMMA AnswerStep ==
  ASSUME TypeInv, SingleAnswer, ServedIsAnswerer, AnswerEvent
  PROVE  SingleAnswer' /\ ServedIsAnswerer'
  <1>1. answers = <<>> /\ Cur \in Key
    BY CurIsKey DEF AnswerEvent, Streaming, SingleAnswer, TypeInv, TypeOK
  <1>2. answers' = <<Cur>>
    BY <1>1 DEF AnswerEvent
  <1>3. Len(answers') = 1 /\ answers' # <<>> /\ Last(answers') = Cur
    BY <1>1, <1>2 DEF Last
  <1>4. phase' = "stream" /\ att'.answered
    BY DEF AnswerEvent, Streaming, walk, TypeInv, TypeOK
  <1>5. /\ session' = session
        /\ lastServed' = IF session = "current" THEN Cur ELSE None
    BY <1>1 DEF AnswerEvent, StillCurrent, StreamFrame, ServedIsAnswerer
  <1> QED
    BY <1>3, <1>4, <1>5 DEF SingleAnswer, ServedIsAnswerer

LEMMA AnswerInvariant == Spec => [](SingleAnswer /\ ServedIsAnswerer)
  <1>1. Init => SingleAnswer /\ ServedIsAnswerer
    BY DEF Init, SingleAnswer, ServedIsAnswerer
  <1>2. ASSUME TypeInv, SingleAnswer, ServedIsAnswerer, [Next]_vars
        PROVE  SingleAnswer' /\ ServedIsAnswerer'
    <2>1. CASE UNCHANGED vars
      BY <1>2, <2>1 DEF vars, walk, SingleAnswer, ServedIsAnswerer
    <2>2. CASE AnswerEvent
      BY <1>2, <2>2, AnswerStep
    <2>3. CASE Next /\ UNCHANGED <<answers, lastServed, session>>
      BY <1>2, <2>3, AnsweredStays, DoneIsFinal
         DEF SingleAnswer, ServedIsAnswerer
    <2>4. CASE /\ Next /\ UNCHANGED answers
               /\ IntentMoves \/ SessionReplaced
      <3>1. SingleAnswer'
        BY <1>2, <2>4, AnsweredStays, DoneIsFinal DEF SingleAnswer
      <3>2. session' # "current" /\ lastServed' = None
        BY <2>4 DEF IntentMoves, SessionReplaced
      <3> QED
        BY <3>1, <3>2 DEF ServedIsAnswerer
    <2> QED
      BY <1>2, <2>1, <2>2, <2>3, <2>4, OnlyAnswersAnswer
  <1> QED
    BY <1>1, <1>2, TypeInvariant, PTL DEF Spec

(* The consumer gets the text or tool calls of at most one attempt, and no *)
(* attempt starts once one answered: the replay lock of                    *)
(* decideAfterFailure() holds through every retry, hand-off and hop.       *)
THEOREM AnswersOnce == Spec => []SingleAnswer
  BY AnswerInvariant, PTL

(* What the session records as served is the answer the consumer has while *)
(* the walk owns the router, and nothing afterwards.                       *)
THEOREM ServedAnswered == Spec => []ServedIsAnswerer
  BY AnswerInvariant, PTL

-----------------------------------------------------------------------------
(* How many requests one candidate costs.                                  *)

(* How a step moves the retry loop of the current candidate.               *)
LEMMA TrySteps ==
  ASSUME Next
  PROVE  \/ try' = try /\ (phase' = "auth" => phase = "auth")
         \/ try' = FreshTry
         \/ AuthReady
         \/ BackoffOver
         \/ phase' # "auth" /\ \E kind : try' = [try EXCEPT !.last = kind]
         \/ /\ ~try.handoff /\ phase = "stream" /\ phase' = "auth"
            /\ try' = [try EXCEPT !.handoff = TRUE]
  <1> DEFINE Failing == /\ phase = "stream"
                        /\ \E kind : /\ kind = "declined" => ~try.handoff
                                     /\ FailAttempt(kind)
             Moves == \/ try' = try /\ (phase' = "auth" => phase = "auth")
                      \/ try' = FreshTry
                      \/ AuthReady
                      \/ BackoffOver
                      \/ /\ phase' # "auth"
                         /\ \E kind : try' = [try EXCEPT !.last = kind]
                      \/ /\ ~try.handoff /\ phase = "stream" /\ phase' = "auth"
                         /\ try' = [try EXCEPT !.handoff = TRUE]
  <1>1. CASE Failing
    BY <1>1 DEF FailAttempt, EndTurn, Advance
  <1>2. CASE \E x, y : Streaming /\ Forward(x, y)
    BY <1>1, <1>2 DEF Forward, Streaming, walk
  <1>3. CASE LeaveForStronger
    BY <1>3 DEF LeaveForStronger, Advance
  <1>4. CASE Choose \/ AnswerSwitch
    BY <1>4 DEF Choose, SkipCandidate, MissingCandidate, AskSwitch,
                BeginCandidate, Exhaust, AnswerSwitch, CancelSwitch,
                ProceedSwitch, SubstituteSwitch, Begin, DropMissing, Advance,
                EndTurn
  <1>5. CASE Attempt
    <2>1. CASE StreamEvent
      <3>1. "overflow" # "declined" /\ "caught" # "declined"
            /\ \A kind \in ErrorKinds \union {"output-limit"} :
                  kind # "declined"
        BY FlagsAssumption
      <3> QED
        BY <1>1, <1>2, <1>3, <2>1, <3>1
           DEF StreamEvent, LifecycleEvent, ThinkingEvent, AnswerEvent,
               ErrorEvent, StreamThrows, Streaming, walk
    <2>2. CASE StreamEnds
      BY <1>1, <1>3, <2>2 DEF StreamEnds, Streaming, EndTurn
    <2>3. CASE SeeAbort \/ AuthFails
      BY <2>3 DEF SeeAbort, AuthFails, EndTurn, Advance
    <2> QED
      BY <1>5, <2>1, <2>2, <2>3 DEF Attempt
  <1>6. CASE Environment
    BY <1>6 DEF Environment, UserAborts, IntentMoves, SessionReplaced, walk
  <1> QED
    BY <1>4, <1>5, <1>6 DEF Next

(* Every request beyond the first was granted by a counted retry or by the *)
(* hand-off; one that is not sent yet leaves its grant unspent.            *)
RequestInv ==
  LET granted == try.count + IF try.handoff THEN 1 ELSE 0
  IN  /\ try.sent <= granted + 1
      /\ phase = "auth" => try.sent <= granted

LEMMA RequestStep ==
  ASSUME TypeInv, RequestInv, [Next]_vars
  PROVE  RequestInv'
  <1>0. /\ try.count \in Int /\ try.sent \in Int
        /\ try \in [count : 0..MaxTransientRetries,
                    last : {"none", "transient", "generic"},
                    handoff : BOOLEAN, sent : 0..SentCap]
    BY DEF TypeInv, TypeOK
  <1>1. CASE UNCHANGED vars
    BY <1>1 DEF vars, walk, RequestInv
  <1>2. CASE try' = try /\ (phase' = "auth" => phase = "auth")
    BY <1>2 DEF RequestInv
  <1>3. CASE try' = FreshTry
    BY <1>3 DEF RequestInv, FreshTry
  <1>4. CASE AuthReady
    BY <1>0, <1>4 DEF AuthReady, MayDispatch, RequestInv
  <1>5. CASE BackoffOver
    BY <1>0, <1>5 DEF BackoffOver, NextTry, RequestInv
  <1>6. CASE phase' # "auth" /\ \E kind : try' = [try EXCEPT !.last = kind]
    BY <1>0, <1>6 DEF RequestInv
  <1>7. CASE /\ ~try.handoff /\ phase = "stream" /\ phase' = "auth"
             /\ try' = [try EXCEPT !.handoff = TRUE]
    BY <1>0, <1>7 DEF RequestInv
  <1> QED
    BY <1>1, <1>2, <1>3, <1>4, <1>5, <1>6, <1>7, TrySteps

(* One candidate is sent at most four requests, however its failures mix:  *)
(* two transient retries and the tool-loop hand-off come on top of the     *)
(* first, and the three kinds of grant never add up to more.               *)
THEOREM RequestsAreBounded == Spec => []RequestsBounded
  <1>1. Init => RequestInv
    BY DEF Init, RequestInv, FreshTry
  <1>2. TypeInv /\ RequestInv => RequestsBounded
    BY DEF TypeInv, TypeOK, RequestInv, RequestsBounded, MaxTransientRetries
  <1> QED
    BY <1>1, <1>2, RequestStep, TypeInvariant, PTL DEF Spec

-----------------------------------------------------------------------------
(* The ways a step can move the walk: it stays at its candidate, skips or  *)
(* drops it, starts it, replaces it with the user's pick, gives it up with *)
(* a consequence, or leaves it for a stronger one.                         *)

Stays ==
  /\ UNCHANGED <<chain, idx, hopVars, dead, strikes, history>>
  /\ blModels' \subseteq blModels /\ blProviders' \subseteq blProviders
  /\ Attempting' => Attempting
  /\ phase' = "choose" => phase = "choose"
  /\ phase' = "confirm" => phase = "confirm" \/ AskSwitch
  /\ result' = "exhausted" => result = "exhausted" \/ Exhaust
  /\ result' = "served" =>
       result = "served" \/ (phase = "stream" /\ phase' = "done")

GivesUp ==
  /\ Attempting /\ \E kind : Consequence(kind)
  /\ Advance
  /\ UNCHANGED <<chain, hopVars, history>>

Leaves == phase = "stream" /\ LeaveForStronger

LEMMA WalkSteps ==
  ASSUME TypeInv, Next
  PROVE  \/ Stays
         \/ SkipCandidate
         \/ MissingCandidate
         \/ BeginCandidate \/ ProceedSwitch
         \/ \E k \in Key : SubstituteSwitch(k)
         \/ GivesUp
         \/ Leaves
  <1> USE DEF Attempting, hopVars, health, history, walk
  <1>1. CASE Choose
    BY <1>1 DEF Choose, AskSwitch, Exhaust, EndTurn, AtCandidate, Stays
  <1>2. CASE AnswerSwitch
    BY <1>2 DEF AnswerSwitch, CancelSwitch, EndTurn, Stays
  <1>3. ASSUME NEW kind, phase = "stream", FailAttempt(kind)
        PROVE  Stays \/ GivesUp
    BY <1>3 DEF FailAttempt, EndTurn, Stays, GivesUp
  <1>4. ASSUME NEW x, NEW y, phase = "stream", Forward(x, y)
        PROVE  Stays \/ GivesUp
    BY <1>3, <1>4 DEF Forward, Stays
  <1>5. CASE StreamEvent
    BY <1>3, <1>4, <1>5
       DEF StreamEvent, Streaming, LifecycleEvent, ThinkingEvent, AnswerEvent,
           ErrorEvent, StreamThrows, Leaves, Stays
  <1>6. CASE StreamEnds
    BY <1>3, <1>6 DEF StreamEnds, Streaming, EndTurn, Leaves, Stays
  <1>7. CASE AuthReady \/ BackoffOver
    BY <1>7 DEF AuthReady, MayDispatch, BackoffOver, Stays
  <1>8. CASE SeeAbort
    BY <1>8 DEF SeeAbort, EndTurn, Stays
  <1>9. CASE AuthFails
    BY <1>9 DEF AuthFails, GivesUp
  <1>10. CASE UserAborts \/ IntentMoves
    BY <1>10 DEF UserAborts, IntentMoves, Stays
  <1>11. CASE SessionReplaced
    BY <1>11 DEF SessionReplaced, Stays
  <1> QED
    BY <1>1, <1>2, <1>5, <1>6, <1>7, <1>8, <1>9, <1>10, <1>11
       DEF Next, Attempt, Environment

-----------------------------------------------------------------------------
(* Hops.                                                                   *)

(* A pending hop and the exclusion name abandoned candidates; while a      *)
(* candidate is attempted, the hop it serves is for a proven upgrade.      *)
HopInv ==
  /\ hop # None => hop \in abandoned
  /\ excluded # None => excluded \in abandoned
  /\ Attempting /\ servingHop # None =>
       servingHop \in abandoned /\ IsStrictlyStronger(Cur, servingHop)

LEMMA BeginHop ==
  ASSUME HopInv, NEW k, Begin(k), Cur' = k
  PROVE  HopInv'
  <1>1. servingHop' # None => /\ servingHop' \in abandoned
                              /\ IsStrictlyStronger(k, servingHop')
    BY DEF Begin, HopServedBy, HopInv
  <1>2. abandoned' = abandoned /\ hop' = None /\ excluded' = excluded
    BY DEF Begin
  <1> QED
    BY <1>1, <1>2
       DEF HopInv, IsStrictlyStronger, IsValidEscalationCandidate

(* At most the chain before the walk's position and the pick remain.       *)
LEMMA PickIsCur ==
  ASSUME TypeInv, NEW k \in Key, SubstituteSwitch(k)
  PROVE  /\ chain' \in Seq(Key) /\ Len(chain') = idx /\ chain'[idx] = k
         /\ \A n \in 1..idx-1 : chain'[n] = chain[n]
         /\ substituted' /\ phase = "confirm" /\ k \notin blModels
         /\ k.provider \notin blProviders
         /\ \/ /\ k = Cur \/ k.provider \notin dead
               /\ Begin(k) /\ idx' = idx /\ Cur' = k
            \/ /\ k # Cur /\ DropMissing(k) /\ idx' = idx + 1
            \/ /\ Advance
               /\ UNCHANGED <<hopVars, health, routed, tried, abandoned>>
  <1>1. /\ chain' \in Seq(Key) /\ Len(chain') = idx /\ chain'[idx] = k
        /\ \A n \in 1..idx-1 : chain'[n] = chain[n]
    BY PickEndsChain DEF SubstituteSwitch
  <1>2. \/ Begin(k) /\ idx' = idx /\ (k = Cur \/ k.provider \notin dead)
        \/ k # Cur /\ DropMissing(k) /\ idx' = idx + 1
        \/ /\ Advance
           /\ UNCHANGED <<hopVars, health, routed, tried, abandoned>>
    BY DEF SubstituteSwitch, Begin, DropMissing, Advance
  <1>3. idx' = idx => Cur' = k
    BY <1>1 DEF Cur
  <1> QED
    BY <1>1, <1>2, <1>3 DEF SubstituteSwitch

LEMMA HopStep ==
  ASSUME TypeInv, HopInv, [Next]_vars
  PROVE  HopInv'
  <1> USE DEF Attempting, hopVars
  <1>1. CASE UNCHANGED vars \/ Stays
    BY <1>1 DEF vars, walk, history, HopInv, Stays, Cur, IsStrictlyStronger,
                IsValidEscalationCandidate
  <1>2. CASE SkipCandidate \/ MissingCandidate \/ GivesUp
    BY <1>2 DEF SkipCandidate, MissingCandidate, DropMissing, GivesUp,
                Advance, history, HopInv
  <1>3. CASE BeginCandidate \/ ProceedSwitch
    <2>1. Begin(Cur) /\ Cur' = Cur
      BY <1>3 DEF BeginCandidate, ProceedSwitch, Begin, Cur
    <2> QED
      BY <2>1, BeginHop
  <1>4. ASSUME NEW k \in Key, SubstituteSwitch(k)
        PROVE  HopInv'
    <2>1. CASE Begin(k) /\ Cur' = k
      BY <2>1, BeginHop
    <2>2. CASE /\ phase' = "choose"
               /\ UNCHANGED <<hopVars, abandoned>>
      BY <2>2 DEF HopInv
    <2> QED
      BY <1>4, <2>1, <2>2, PickIsCur DEF DropMissing, Advance
  <1>5. CASE Leaves
    BY <1>5 DEF Leaves, LeaveForStronger, Advance, HopInv
  <1> QED
    BY <1>1, <1>2, <1>3, <1>4, <1>5, WalkSteps

LEMMA HopInvariant == Spec => []HopInv
  <1>1. Init => HopInv
    BY DEF Init, HopInv, Attempting
  <1> QED
    BY <1>1, HopStep, TypeInvariant, PTL DEF Spec

(* A hop's provenance goes only to a candidate proven stronger than a      *)
(* source that was abandoned before it, also when the user replaced the    *)
(* target or entries between them were skipped.                            *)
THEOREM HopsGoUp == Spec => []HopIsStronger
  <1>1. HopInv => HopIsStronger
    BY DEF HopInv, HopIsStronger, Attempting, Awaiting
  <1> QED
    BY <1>1, HopInvariant, PTL

-----------------------------------------------------------------------------
(* Provider health and exclusions.                                         *)

(* What a consequence does to the health of the current candidate.         *)
LEMMA ConsequenceEffect ==
  ASSUME TypeInv, Cur \in Key, NEW kind, Consequence(kind)
  PROVE  /\ dead \subseteq dead' /\ dead' \subseteq dead \union {Cur.provider}
         /\ \A p \in Provider : /\ strikes'[p] >= strikes[p]
                                /\ p # Cur.provider => strikes'[p] = strikes[p]
                                /\ strikes'[p] <= strikes[p] + 1
         /\ strikes'[Cur.provider] >= MaxStrikes => Cur.provider \in dead'
         /\ blModels' \subseteq blModels \union {Cur}
         /\ blProviders' \subseteq blProviders \union dead'
  <1>1. PICK b, s, k \in BOOLEAN : Penalise(b, s, k)
    BY DEF Consequence
  <1>2. Cur.provider \in Provider /\ strikes \in [Provider -> Nat]
    BY DEF Provider, TypeInv, TypeOK
  <1>3. StrikesFor(s) \in {0, 1}
    BY DEF StrikesFor
  <1>4. strikes' = [strikes EXCEPT ![Cur.provider] =
                      strikes[Cur.provider] + StrikesFor(s)]
    BY <1>1 DEF Penalise
  <1>5. /\ \A p \in Provider : /\ strikes'[p] >= strikes[p]
                               /\ p # Cur.provider => strikes'[p] = strikes[p]
                               /\ strikes'[p] <= strikes[p] + 1
        /\ strikes'[Cur.provider] = strikes[Cur.provider] + StrikesFor(s)
    BY <1>2, <1>3, <1>4
  <1>6. /\ dead \subseteq dead' /\ dead' \subseteq dead \union {Cur.provider}
        /\ strikes[Cur.provider] + StrikesFor(s) >= MaxStrikes =>
             Cur.provider \in dead'
        /\ k => Cur.provider \in dead'
        /\ blModels' \subseteq blModels \union {Cur}
        /\ blProviders' = IF k THEN blProviders \union {Cur.provider}
                               ELSE blProviders
    BY <1>1 DEF Penalise
  <1> QED
    BY <1>5, <1>6

(* A hop keeps what was walked and permutes the rest.                      *)
LEMMA HopPermutes ==
  ASSUME TypeInv, NEW S, NEW c \in PlanTrajectoryHop(S)
  PROVE  /\ Len(c) = Len(chain) /\ c \in Seq(Key)
         /\ \A n \in 1..Len(chain) : n <= idx => c[n] = chain[n]
         /\ \A n \in idx+1..Len(chain) :
              /\ \E m \in idx+1..Len(chain) : c[m] = chain[n]
              /\ \E m \in idx+1..Len(chain) : c[n] = chain[m]
         /\ IsInjective(chain) => IsInjective(c)
  <1> DEFINE tail == idx+1..Len(chain)
  <1>1. PICK p \in Bijection(tail, tail) :
          c = [n \in DOMAIN chain |-> IF n <= idx THEN chain[n]
                                                 ELSE chain[p[n]]]
    BY DEF PlanTrajectoryHop, HopOrders
  <1>2. /\ DOMAIN chain = 1..Len(chain) /\ Len(chain) \in Nat
        /\ idx \in Nat \ {0}
    BY DEF TypeInv, TypeOK
  <1>3. /\ p \in [tail -> tail]
        /\ \A n \in tail : \E m \in tail : p[m] = n
        /\ \A m, n \in tail : p[m] = p[n] => m = n
    BY DEF Bijection, Injection, Surjection, IsInjective
  <1>4. \A n \in 1..Len(chain) :
          c[n] = IF n <= idx THEN chain[n] ELSE chain[p[n]]
    BY <1>1, <1>2
  <1>5. Len(c) = Len(chain) /\ c \in Seq(Key)
    BY HopKeepsType DEF TypeInv
  <1>6. tail \subseteq 1..Len(chain) /\ \A n \in tail : ~(n <= idx)
    BY <1>2
  <1>7. \A n \in tail : /\ \E m \in tail : c[m] = chain[n]
                        /\ \E m \in tail : c[n] = chain[m]
    BY <1>3, <1>4, <1>6
  <1>8. ASSUME IsInjective(chain) PROVE IsInjective(c)
    <2>1. \A m, n \in 1..Len(chain) : chain[m] = chain[n] => m = n
      BY <1>2, <1>8 DEF IsInjective
    <2>2. \A n \in 1..Len(chain) : ~(n <= idx) => n \in tail
      BY <1>2
    <2>3. \A m, n \in 1..Len(chain) : c[m] = c[n] => m = n
      <3> SUFFICES ASSUME NEW m \in 1..Len(chain), NEW n \in 1..Len(chain),
                          c[m] = c[n]
                   PROVE  m = n
        OBVIOUS
      <3>1. CASE m <= idx /\ n <= idx
        BY <3>1, <1>4, <2>1
      <3>2. CASE ~(m <= idx) /\ ~(n <= idx)
        <4>1. m \in tail /\ n \in tail /\ c[m] = chain[p[m]]
              /\ c[n] = chain[p[n]]
          BY <3>2, <1>4, <2>2
        <4>2. p[m] = p[n]
          BY <4>1, <1>3, <1>6, <2>1
        <4> QED
          BY <4>1, <4>2, <1>3
      <3>3. CASE m <= idx /\ ~(n <= idx)
        <4>1. n \in tail /\ p[n] \in tail /\ p[n] \in 1..Len(chain)
          BY <3>3, <2>2, <1>3, <1>6
        <4> QED
          BY <3>3, <4>1, <1>4, <1>6, <2>1
      <3>4. CASE ~(m <= idx) /\ n <= idx
        <4>1. m \in tail /\ p[m] \in tail /\ p[m] \in 1..Len(chain)
          BY <3>4, <2>2, <1>3, <1>6
        <4> QED
          BY <3>4, <4>1, <1>4, <1>6, <2>1
      <3> QED
        BY <3>1, <3>2, <3>3, <3>4
    <2>4. DOMAIN c = 1..Len(chain)
      BY <1>1, <1>2
    <2> QED
      BY <2>3, <2>4 DEF IsInjective
  <1> QED
    BY <1>4, <1>5, <1>7, <1>8

LEMMA LeaveEffect ==
  ASSUME TypeInv, Leaves
  PROVE  /\ Len(chain') = Len(chain) /\ chain' \in Seq(Key)
         /\ \A n \in 1..Len(chain) : n <= idx => chain'[n] = chain[n]
         /\ \A n \in idx+1..Len(chain) :
              /\ \E m \in idx+1..Len(chain) : chain'[m] = chain[n]
              /\ \E m \in idx+1..Len(chain) : chain'[n] = chain[m]
         /\ IsInjective(chain) => IsInjective(chain')
         /\ idx' = idx + 1 /\ phase' = "choose" /\ result' = result
         /\ Attempting /\ Consequence("trajectory")
         /\ abandoned' = abandoned \union {Cur}
         /\ UNCHANGED <<routed, substituted, tried>>
  <1>1. CASE chain' = chain
    BY <1>1 DEF Leaves, LeaveForStronger, Advance, Attempting, TypeInv, TypeOK
  <1>2. CASE chain' \in PlanTrajectoryHop(StrongerRemaining)
    BY <1>2, HopPermutes DEF Leaves, LeaveForStronger, Advance, Attempting
  <1> QED
    BY <1>1, <1>2 DEF Leaves, LeaveForStronger

(* Who is out of the walk: the provider being tried never, and every       *)
(* provider at its strike limit; what the session excludes is behind the   *)
(* walk's position, in a chain that lists nobody twice.                    *)
CircuitInv ==
  /\ Attempting \/ phase = "confirm" => Cur.provider \notin dead
  /\ \A p \in Provider : strikes[p] >= MaxStrikes => p \in dead
  /\ blProviders \subseteq dead

BehindInv ==
  /\ IF substituted THEN Len(chain) <= idx ELSE IsInjective(chain)
  /\ \A n \in idx..Len(chain) : chain[n] \notin blModels

LEMMA CircuitStep ==
  ASSUME TypeInv, CircuitInv, [Next]_vars
  PROVE  CircuitInv'
  <1> DEFINE Limit == \A p \in Provider : strikes[p] >= MaxStrikes => p \in dead
  <1>1. CASE UNCHANGED vars
    BY <1>1 DEF vars, walk, health, CircuitInv, Attempting, Cur
  <1>2. CASE Stays
    <2>1. AskSwitch => Cur.provider \notin dead
      BY DEF AskSwitch, Skippable
    <2> QED
      BY <1>2, <2>1 DEF Stays, CircuitInv, Cur
  <1>3. CASE SkipCandidate \/ MissingCandidate
    BY <1>3 DEF SkipCandidate, MissingCandidate, DropMissing, Advance, health,
                CircuitInv, Attempting
  <1>4. CASE BeginCandidate \/ ProceedSwitch
    BY <1>4 DEF BeginCandidate, ProceedSwitch, Begin, Skippable, health,
                CircuitInv, Attempting, Cur
  <1>5. ASSUME NEW k \in Key, SubstituteSwitch(k)
        PROVE  CircuitInv'
    <2>1. UNCHANGED <<dead, strikes, blProviders>>
      BY <1>5, PickIsCur DEF Begin, DropMissing, health
    <2>2. phase' = "choose" \/ (Cur' = k /\ k.provider \notin dead)
      BY <1>5, PickIsCur DEF DropMissing, Advance, CircuitInv
    <2> QED
      BY <2>1, <2>2 DEF CircuitInv, Attempting
  <1>6. CASE GivesUp \/ Leaves
    <2>1. phase' = "choose" /\ Cur \in Key /\ \E kind : Consequence(kind)
      BY <1>6, CurIsKey DEF GivesUp, Leaves, LeaveForStronger, Advance,
                            Attempting, TypeInv, TypeOK
    <2> QED
      BY <2>1, ConsequenceEffect DEF CircuitInv, Attempting
  <1> QED
    BY <1>1, <1>2, <1>3, <1>4, <1>5, <1>6, WalkSteps

LEMMA BehindStep ==
  ASSUME TypeInv, BehindInv, [Next]_vars
  PROVE  BehindInv'
  <1>0. /\ chain \in Seq(Key) /\ Len(chain) \in Nat /\ idx \in Nat \ {0}
        /\ DOMAIN chain = 1..Len(chain)
    BY DEF TypeInv, TypeOK
  <1>1. CASE UNCHANGED vars \/ Stays
    BY <1>1 DEF vars, walk, health, history, Stays, BehindInv
  <1>2. CASE SkipCandidate \/ BeginCandidate \/ ProceedSwitch
    BY <1>0, <1>2 DEF SkipCandidate, BeginCandidate, ProceedSwitch, Begin,
                      Advance, health, history, BehindInv
  <1>3. ASSUME idx <= Len(chain), ~substituted, chain' = chain
        PROVE  \A n \in idx+1..Len(chain) : chain'[n] # Cur
    BY <1>0, <1>3 DEF BehindInv, IsInjective, Cur
  <1>4. CASE MissingCandidate \/ GivesUp
    <2>1. /\ idx <= Len(chain) /\ chain' = chain /\ idx' = idx + 1
          /\ substituted' = substituted /\ Cur \in Key
          /\ blModels' \subseteq blModels \union {Cur}
      BY <1>4, CurIsKey, ConsequenceEffect
         DEF MissingCandidate, AtCandidate, DropMissing, GivesUp, Advance,
             history, Attempting, TypeInv, TypeOK
    <2> QED
      BY <1>0, <1>3, <2>1 DEF BehindInv
  <1>5. ASSUME NEW k \in Key, SubstituteSwitch(k)
        PROVE  BehindInv'
    <2>1. idx' \in {idx, idx + 1} /\ (idx' = idx => blModels' = blModels)
      BY <1>5, PickIsCur DEF Begin, health, Advance
    <2> QED
      BY <1>0, <1>5, <2>1, PickIsCur DEF BehindInv
  <1>6. CASE Leaves
    <2>1. blModels' \subseteq blModels \union {Cur} /\ idx <= Len(chain)
      BY <1>6, LeaveEffect, CurIsKey, ConsequenceEffect
         DEF Attempting, TypeInv, TypeOK
    <2>2. ~substituted => \A n \in idx+1..Len(chain) : chain[n] # Cur
      BY <1>0, <2>1 DEF BehindInv, IsInjective, Cur
    <2>3. ~substituted =>
            \A n \in idx+1..Len(chain) : chain'[n] \notin blModels'
      <3> SUFFICES ASSUME ~substituted, NEW n \in idx+1..Len(chain)
                   PROVE  chain'[n] \notin blModels'
        OBVIOUS
      <3>1. PICK m \in idx+1..Len(chain) : chain'[n] = chain[m]
        BY <1>6, LeaveEffect
      <3> QED
        BY <1>0, <2>1, <2>2, <3>1 DEF BehindInv
    <2> QED
      BY <1>0, <1>6, <2>3, LeaveEffect DEF BehindInv
  <1> QED
    BY <1>1, <1>2, <1>4, <1>5, <1>6, WalkSteps

HealthInv == TypeInv /\ CircuitInv /\ BehindInv

LEMMA HealthInvariant == Spec => []HealthInv
  <1>1. Init => CircuitInv /\ BehindInv
    BY ChainsAssumption
       DEF Init, CircuitInv, BehindInv, Attempting, MaxStrikes
  <1> QED
    BY <1>1, CircuitStep, BehindStep, TypeInvariant, PTL DEF Spec, HealthInv

(* A turn ends as served at the candidate the walk is at.                  *)
ServerInv == result = "served" => phase = "done" /\ ServerNotExcluded

LEMMA ServerStep ==
  ASSUME HealthInv, ServerInv, [Next]_vars
  PROVE  ServerInv'
  <1> USE DEF HealthInv
  <1>1. CASE UNCHANGED vars
    BY <1>1 DEF vars, walk, health, ServerInv, ServerNotExcluded, Cur
  <1>2. CASE Next /\ Stays
    <2>1. result # "served"
      BY <1>2, DoneIsFinal DEF ServerInv
    <2>2. CASE result' = "served"
      <3>1. /\ phase = "stream" /\ phase' = "done" /\ Cur' = Cur
            /\ idx <= Len(chain)
            /\ Cur.provider \notin dead /\ Cur.provider \notin blProviders
        BY <1>2, <2>1, <2>2
           DEF Stays, Cur, CircuitInv, Attempting, TypeInv, TypeOK
      <3>2. Cur \notin blModels
        BY <3>1 DEF BehindInv, TypeInv, TypeOK, Cur
      <3> QED
        BY <1>2, <3>1, <3>2 DEF Stays, ServerInv, ServerNotExcluded
    <2> QED
      BY <2>2 DEF ServerInv
  <1>3. CASE Next /\ ~Stays
    <2>1. result # "served"
      BY <1>3, DoneIsFinal DEF ServerInv
    <2>2. ASSUME NEW k \in Key, SubstituteSwitch(k)
          PROVE  result' = result
      BY <2>2, PickIsCur DEF Begin, DropMissing, Advance
    <2>3. Leaves => result' = result
      BY LeaveEffect DEF HealthInv
    <2>4. (SkipCandidate \/ MissingCandidate \/ BeginCandidate
           \/ ProceedSwitch \/ GivesUp) => result' = result
      BY DEF SkipCandidate, MissingCandidate, DropMissing, Begin,
                  BeginCandidate, ProceedSwitch, GivesUp, Advance
    <2> QED
      BY <1>3, <2>1, <2>2, <2>3, <2>4, WalkSteps DEF ServerInv
  <1> QED
    BY <1>1, <1>2, <1>3

(* The model and the provider that served a turn are left neither dead nor *)
(* blacklisted by it: every failure that excluded a row advanced past it.  *)
THEOREM ServerIsNotExcluded == Spec => []ServerNotExcluded
  <1>1. Init => ServerInv
    BY DEF Init, ServerInv
  <1>2. ServerInv => ServerNotExcluded
    BY DEF ServerInv, ServerNotExcluded
  <1> QED
    BY <1>1, <1>2, ServerStep, HealthInvariant, PTL DEF Spec

(* A step that abandons a candidate is a hop; one that changes the hand-off*)
(* starts a candidate or declines one attempt, and blames nobody.          *)
LEMMA LoopSteps ==
  ASSUME TypeInv, Next, abandoned' # abandoned \/ try'.handoff # try.handoff
  PROVE  UNCHANGED health \/ Leaves
  <1>0. try \in [count : 0..MaxTransientRetries,
                 last : {"none", "transient", "generic"},
                 handoff : BOOLEAN, sent : 0..SentCap]
    BY DEF TypeInv, TypeOK
  <1>1. ASSUME NEW kind, FailAttempt(kind)
        PROVE  UNCHANGED health
    <2>1. UNCHANGED abandoned
      BY <1>1 DEF FailAttempt, history
    <2>2. [try EXCEPT !.last = kind].handoff = try.handoff
      BY <1>0
    <2> QED
      BY <1>1, <2>1, <2>2 DEF FailAttempt
  <1>2. ASSUME NEW x, NEW y, Forward(x, y)
        PROVE  UNCHANGED health
    BY <1>1, <1>2 DEF Forward, health
  <1>3. CASE Choose \/ AnswerSwitch
    BY <1>3 DEF Choose, SkipCandidate, MissingCandidate, AskSwitch,
                BeginCandidate, Exhaust, AnswerSwitch, CancelSwitch,
                ProceedSwitch, SubstituteSwitch, Begin, DropMissing, history
  <1>4. CASE StreamEvent \/ StreamEnds
    BY <1>1, <1>2, <1>4
       DEF StreamEvent, StreamEnds, LifecycleEvent, ThinkingEvent,
           AnswerEvent, ErrorEvent, StreamThrows, Streaming, Leaves, health
  <1>5. CASE AuthReady \/ BackoffOver \/ SeeAbort \/ AuthFails
    <2>1. NextTry.handoff = try.handoff
      BY <1>0 DEF NextTry
    <2>2. \A n : [try EXCEPT !.sent = n].handoff = try.handoff
      BY <1>0
    <2> QED
      BY <1>5, <2>1, <2>2
         DEF AuthReady, BackoffOver, SeeAbort, AuthFails, history
  <1>6. CASE Environment
    BY <1>6 DEF Environment, UserAborts, IntentMoves, SessionReplaced, history
  <1> QED
    BY <1>3, <1>4, <1>5, <1>6 DEF Next, Attempt

(* A reasoning loop and a decline are no defect of a provider: they leave  *)
(* circuit, strikes and exclusions as they were. A strike count that had   *)
(* reached the limit without killing the provider would break it.          *)
THEOREM LoopsBlameNobody == Spec => LoopIsNoDefect
  <1>1. ASSUME HealthInv, Leaves PROVE UNCHANGED health
    <2>1. Cur.provider \in Provider /\ Cur.provider \notin dead
      BY <1>1, CurIsKey
         DEF HealthInv, CircuitInv, Leaves, Attempting, TypeInv, TypeOK,
             Provider
    <2>2. Penalise(FALSE, FALSE, FALSE)
      BY <1>1 DEF Leaves, LeaveForStronger, Consequence
    <2>3. /\ strikes \in [Provider -> Nat]
          /\ ~(strikes[Cur.provider] >= MaxStrikes)
      BY <1>1, <2>1 DEF HealthInv, CircuitInv, TypeInv, TypeOK
    <2>4. strikes[Cur.provider] + StrikesFor(FALSE) = strikes[Cur.provider]
      BY <2>1, <2>3 DEF StrikesFor
    <2>5. [strikes EXCEPT ![Cur.provider] = strikes[Cur.provider]] = strikes
      BY <2>3
    <2> QED
      BY <2>2, <2>3, <2>4, <2>5 DEF Penalise, health
  <1>2. HealthInv /\ [Next]_vars =>
          [abandoned' # abandoned \/ try'.handoff # try.handoff =>
             UNCHANGED health]_vars
    BY <1>1, LoopSteps DEF HealthInv
  <1> QED
    BY <1>2, HealthInvariant, PTL DEF Spec, LoopIsNoDefect

-----------------------------------------------------------------------------
(* What a walk has accounted for.                                          *)

Accounted(k) ==
  \/ k \in tried
  \/ k \notin Registered
  \/ k.provider \in dead
  \/ \E s \in abandoned : ~IsValidEscalationCandidate(k, s)

(* Every routed candidate is accounted for or still ahead in the live      *)
(* chain, which hops reorder under the walk.                               *)
CoverInv ==
  /\ Attempting => Cur \in tried
  /\ result = "exhausted" => idx > Len(chain)
  /\ ~substituted => \A k \in ToSet(routed) :
       Accounted(k) \/ \E n \in idx..Len(chain) : chain[n] = k

(* Accounts are never taken back.                                          *)
LEMMA AccountsGrow ==
  ASSUME TypeInv, [Next]_vars
  PROVE  /\ tried \subseteq tried' /\ dead \subseteq dead'
         /\ abandoned \subseteq abandoned' /\ routed' = routed
         /\ substituted => substituted'
  <1> USE DEF history, health
  <1>1. CASE UNCHANGED vars \/ Stays
    <2>1. UNCHANGED <<routed, substituted, tried, abandoned, dead>>
      BY <1>1 DEF vars, Stays
    <2> QED
      BY <2>1
  <1>2. CASE SkipCandidate \/ MissingCandidate
    <2>1. /\ UNCHANGED <<routed, tried, abandoned, dead>>
          /\ substituted' = substituted
      BY <1>2 DEF SkipCandidate, MissingCandidate, DropMissing
    <2> QED
      BY <2>1
  <1>3. CASE BeginCandidate \/ ProceedSwitch
    BY <1>3 DEF BeginCandidate, ProceedSwitch, Begin
  <1>4. ASSUME NEW k \in Key, SubstituteSwitch(k)
        PROVE  /\ tried \subseteq tried' /\ dead \subseteq dead'
               /\ abandoned \subseteq abandoned' /\ routed' = routed
               /\ substituted => substituted'
    BY <1>4, PickIsCur DEF Begin, DropMissing
  <1>5. CASE GivesUp \/ Leaves
    <2>1. Cur \in Key
      BY <1>5, CurIsKey DEF GivesUp, Leaves, Attempting, TypeInv, TypeOK
    <2> QED
      BY <1>5, <2>1, ConsequenceEffect, LeaveEffect DEF GivesUp
  <1> QED
    BY <1>1, <1>2, <1>3, <1>4, <1>5, WalkSteps

LEMMA AccountedStays ==
  ASSUME TypeInv, [Next]_vars, NEW k, Accounted(k)
  PROVE  Accounted(k)'
  BY AccountsGrow DEF Accounted, IsValidEscalationCandidate

LEMMA CoverStep ==
  ASSUME TypeInv, HopInv, CoverInv, [Next]_vars
  PROVE  CoverInv'
  <1>0. /\ chain \in Seq(Key) /\ Len(chain) \in Nat /\ idx \in Nat \ {0}
        /\ phase \in {"confirm", "auth", "stream", "backoff"} =>
             idx <= Len(chain)
    BY DEF TypeInv, TypeOK
  <1>1. ASSUME NEW c, c = Cur, idx <= Len(chain), Accounted(c)',
               idx' = idx + 1, ~substituted', chain' = chain
        PROVE  \A k \in ToSet(routed)' :
                 Accounted(k)' \/ \E n \in (idx..Len(chain))' : chain'[n] = k
    <2> SUFFICES ASSUME NEW k \in ToSet(routed)', ~Accounted(k)'
                 PROVE  \E n \in (idx..Len(chain))' : chain'[n] = k
      OBVIOUS
    <2>1. PICK n \in idx..Len(chain) : chain[n] = k
      BY <1>1, AccountsGrow, AccountedStays DEF CoverInv
    <2>2. n # idx
      BY <1>1, <2>1 DEF Cur
    <2> QED
      BY <1>0, <1>1, <2>1, <2>2
  <1>2. CASE UNCHANGED vars \/ Stays
    <2>1. /\ UNCHANGED <<chain, idx, tried>> /\ routed' = routed
          /\ Attempting' => Attempting
          /\ result' = "exhausted" => result = "exhausted" \/ Exhaust
          /\ substituted' = substituted
      BY <1>2 DEF vars, walk, history, Stays, Attempting
    <2>2. CoverInv!1' /\ CoverInv!2'
      BY <2>1 DEF CoverInv, Exhaust, Cur
    <2>3. ~substituted' => \A k \in ToSet(routed)' :
            Accounted(k)' \/ \E n \in (idx..Len(chain))' : chain'[n] = k
      BY <2>1, AccountedStays DEF CoverInv
    <2> QED
      BY <2>2, <2>3 DEF CoverInv
  <1>3. CASE SkipCandidate \/ MissingCandidate
    <2>1. /\ idx <= Len(chain) /\ idx' = idx + 1 /\ chain' = chain
          /\ phase' = "choose" /\ result' = result
      BY <1>3 DEF SkipCandidate, MissingCandidate, AtCandidate, DropMissing,
                  Advance
    <2>2. Accounted(Cur)
      BY <1>3 DEF SkipCandidate, Skippable, MissingCandidate, DropMissing,
                  HopInv, Accounted
    <2> QED
      BY <1>0, <1>1, <2>1, <2>2, AccountedStays DEF CoverInv, Attempting
  <1>4. CASE BeginCandidate \/ ProceedSwitch
    <2>1. /\ UNCHANGED <<idx, chain, result, routed, substituted>>
          /\ tried' = tried \union {Cur}
      BY <1>4 DEF BeginCandidate, ProceedSwitch, Begin
    <2> QED
      BY <2>1, AccountedStays DEF CoverInv, Cur
  <1>5. ASSUME NEW k \in Key, SubstituteSwitch(k)
        PROVE  CoverInv'
    <2>1. substituted' /\ result' = result /\ idx <= Len(chain)
      BY <1>0, <1>5, PickIsCur DEF Begin, DropMissing, Advance
    <2>2. phase' = "choose" \/ (Cur' = k /\ k \in tried')
      BY <1>5, PickIsCur DEF Begin, DropMissing, Advance
    <2> QED
      BY <1>0, <2>1, <2>2 DEF CoverInv, Attempting
  <1>6. CASE GivesUp
    <2>1. /\ idx <= Len(chain) /\ idx' = idx + 1 /\ chain' = chain
          /\ phase' = "choose" /\ result' = result /\ Accounted(Cur)
      BY <1>0, <1>6 DEF GivesUp, Advance, Attempting, CoverInv, Accounted
    <2> QED
      BY <1>0, <1>1, <2>1, AccountedStays DEF CoverInv, Attempting
  <1>7. CASE Leaves
    <2>1. idx <= Len(chain) /\ Accounted(Cur)
      BY <1>0, <1>7, LeaveEffect DEF Attempting, CoverInv, Accounted
    <2>2. ASSUME NEW k \in ToSet(routed)', ~Accounted(k)', ~substituted'
          PROVE  \E n \in (idx..Len(chain))' : chain'[n] = k
      <3>1. PICK n \in idx..Len(chain) : chain[n] = k
        BY <1>7, <2>2, AccountsGrow, AccountedStays DEF CoverInv
      <3>2. n \in idx+1..Len(chain)
        BY <1>0, <2>1, <2>2, <3>1, AccountedStays DEF Cur
      <3> QED
        BY <1>7, <3>1, <3>2, LeaveEffect
    <2> QED
      BY <1>0, <1>7, <2>1, <2>2, LeaveEffect DEF CoverInv, Attempting
  <1> QED
    BY <1>2, <1>3, <1>4, <1>5, <1>6, <1>7, WalkSteps

LEMMA CoverInvariant == Spec => []CoverInv
  <1>1. Init => CoverInv
    <2> SUFFICES ASSUME Init PROVE CoverInv
      OBVIOUS
    <2>1. routed \in Seq(Key)
      BY ChainsAssumption DEF Init
    <2>2. \A k \in ToSet(routed) : \E n \in 1..Len(routed) : routed[n] = k
      BY <2>1 DEF ToSet
    <2> QED
      BY <2>2 DEF Init, CoverInv, Attempting
  <1> QED
    BY <1>1, CoverStep, HopInvariant, TypeInvariant, PTL DEF Spec

(* A walk that gives up has accounted for every routed candidate, although *)
(* hops rewrite the array under its own iteration.                         *)
THEOREM ExhaustedIsComplete == Spec => []ExhaustionIsComplete
  <1>1. TypeInv /\ CoverInv => ExhaustionIsComplete
    BY DEF TypeInv, TypeOK, CoverInv, ExhaustionIsComplete, Accounted
  <1> QED
    BY <1>1, CoverInvariant, TypeInvariant, PTL

-----------------------------------------------------------------------------
(* Strikes.                                                                *)

(* Tried candidates that are done with; only those can have struck.        *)
Settled == IF Attempting THEN tried \ {Cur} ELSE tried
SettledAt(p) == {k \in Settled : k.provider = p}
TriedAt(p) == {k \in tried : k.provider = p}

StrikeInv ==
  /\ IsFiniteSet(tried)
  /\ ~substituted =>
       /\ \A k \in tried : \E n \in 1..Len(chain) :
            /\ chain[n] = k
            /\ n < idx \/ (n = idx /\ phase \notin {"choose", "confirm"})
       /\ \A p \in Provider : strikes[p] <= Cardinality(SettledAt(p))

LEMMA SettledBound ==
  ASSUME IsFiniteSet(tried), NEW p, NEW S \in SUBSET tried
  PROVE  LET A == {k \in S : k.provider = p}
         IN  /\ IsFiniteSet(A) /\ Cardinality(A) \in Nat
             /\ Cardinality(A) <= Cardinality(TriedAt(p))
             /\ Cardinality(TriedAt(p)) \in Nat
  <1> DEFINE A == {k \in S : k.provider = p}
  <1>1. TriedAt(p) \in SUBSET tried /\ A \in SUBSET TriedAt(p)
    BY DEF TriedAt
  <1>2. IsFiniteSet(TriedAt(p))
    BY <1>1, FS_Subset
  <1>3. IsFiniteSet(A) /\ Cardinality(A) <= Cardinality(TriedAt(p))
    BY <1>1, <1>2, FS_Subset
  <1> QED
    BY <1>2, <1>3, FS_CardinalityType

(* A settled candidate adds one to what its provider may have struck.      *)
LEMMA SettlingCounts ==
  ASSUME IsFiniteSet(tried), Attempting, Cur \in tried
  PROVE  Cardinality(TriedAt(Cur.provider)) =
           Cardinality(SettledAt(Cur.provider)) + 1
  <1> DEFINE p == Cur.provider
  <1>1. TriedAt(p) \in SUBSET tried /\ Cur \in TriedAt(p)
    BY DEF TriedAt
  <1>2. IsFiniteSet(TriedAt(p)) /\ Cardinality(TriedAt(p)) \in Nat
    BY <1>1, FS_Subset, FS_CardinalityType
  <1>3. SettledAt(p) = TriedAt(p) \ {Cur}
    BY DEF SettledAt, TriedAt, Settled
  <1>4. Cardinality(TriedAt(p) \ {Cur}) = Cardinality(TriedAt(p)) - 1
    BY <1>1, <1>2, FS_RemoveElement
  <1> QED
    BY <1>2, <1>3, <1>4

LEMMA StrikeStep ==
  ASSUME HealthInv, CoverInv, StrikeInv, [Next]_vars
  PROVE  StrikeInv'
  <1> USE DEF HealthInv
  <1>0. /\ chain \in Seq(Key) /\ Len(chain) \in Nat /\ idx \in Nat \ {0}
        /\ phase \in {"confirm", "auth", "stream", "backoff"} =>
             idx <= Len(chain)
        /\ strikes \in [Provider -> Nat]
    BY DEF TypeInv, TypeOK
  <1>1. CASE UNCHANGED vars \/ Stays
    <2>1. /\ UNCHANGED <<chain, idx, tried, strikes, substituted>>
          /\ Attempting' => Attempting
          /\ phase' \in {"choose", "confirm"} => phase \in {"choose", "confirm"}
      BY <1>1 DEF vars, walk, health, history, Stays, Attempting, AskSwitch,
                  AtCandidate
    <2>2. Settled' \in {Settled, tried}
      BY <2>1 DEF Settled, Cur
    <2>3. ~substituted => \A p \in Provider :
            /\ strikes[p] <= Cardinality(SettledAt(p))
            /\ strikes[p] <= Cardinality(TriedAt(p))
      <3> SUFFICES ASSUME ~substituted, NEW p \in Provider
                   PROVE  /\ strikes[p] <= Cardinality(SettledAt(p))
                          /\ strikes[p] <= Cardinality(TriedAt(p))
        OBVIOUS
      <3>1. strikes[p] <= Cardinality(SettledAt(p)) /\ strikes[p] \in Nat
        BY <1>0 DEF StrikeInv
      <3>2. /\ Cardinality(SettledAt(p)) <= Cardinality(TriedAt(p))
            /\ Cardinality(SettledAt(p)) \in Nat
            /\ Cardinality(TriedAt(p)) \in Nat
        <4>1. Settled \in SUBSET tried
          BY DEF Settled
        <4> QED
          BY <4>1, SettledBound DEF SettledAt, StrikeInv
      <3> QED
        BY <3>1, <3>2
    <2>4. \A p \in Provider : SettledAt(p)' \in {SettledAt(p), TriedAt(p)}
      BY <2>2 DEF SettledAt, TriedAt
    <2>5. ~substituted' => \A p \in Provider :
            strikes'[p] <= Cardinality(SettledAt(p))'
      <3> SUFFICES ASSUME ~substituted, NEW p \in Provider
                   PROVE  strikes[p] <= Cardinality(SettledAt(p)')
        BY <2>1
      <3>1. CASE SettledAt(p)' = SettledAt(p)
        BY <2>3, <3>1
      <3>2. CASE SettledAt(p)' = TriedAt(p)
        BY <2>3, <3>2
      <3> QED
        BY <2>4, <3>1, <3>2
    <2> QED
      BY <2>1, <2>5 DEF StrikeInv
  <1>2. CASE SkipCandidate \/ MissingCandidate
    <2>1. /\ UNCHANGED <<chain, tried, strikes, substituted>>
          /\ phase = "choose" /\ phase' = "choose" /\ idx' = idx + 1
      BY <1>2 DEF SkipCandidate, MissingCandidate, AtCandidate, DropMissing,
                  Advance, health, history
    <2>2. Settled' = Settled
      BY <2>1 DEF Settled, Attempting
    <2> QED
      BY <1>0, <2>1, <2>2 DEF StrikeInv, SettledAt
  <1>3. CASE BeginCandidate \/ ProceedSwitch
    <2>1. /\ UNCHANGED <<chain, idx, strikes, substituted>>
          /\ phase \in {"choose", "confirm"} /\ phase' = "auth"
          /\ tried' = tried \union {Cur} /\ idx <= Len(chain) /\ Cur' = Cur
      BY <1>0, <1>3 DEF BeginCandidate, ProceedSwitch, AtCandidate, Begin,
                        health, Cur
    <2>2. IsFiniteSet(tried')
      BY <2>1, FS_AddElement DEF StrikeInv
    <2>3. ~substituted => Cur \notin tried
      BY <1>0, <2>1 DEF StrikeInv, BehindInv, IsInjective, Cur
    <2>4. ~substituted => Settled' = tried /\ Settled = tried
      BY <2>1, <2>3 DEF Settled, Attempting
    <2>5. ~substituted' => \A k \in tried' : \E n \in 1..Len(chain') :
            /\ chain'[n] = k
            /\ n < idx' \/ (n = idx' /\ phase' \notin {"choose", "confirm"})
      BY <1>0, <2>1 DEF StrikeInv, Cur
    <2> QED
      BY <2>1, <2>2, <2>4, <2>5 DEF StrikeInv, SettledAt
  <1>4. ASSUME NEW k \in Key, SubstituteSwitch(k)
        PROVE  StrikeInv'
    <2>1. substituted' /\ tried' \in {tried, tried \union {k}}
      BY <1>4, PickIsCur DEF Begin, DropMissing, history
    <2> QED
      BY <2>1, FS_AddElement DEF StrikeInv
  <1>5. CASE GivesUp \/ Leaves
    <2>1. /\ tried' = tried /\ substituted' = substituted
          /\ Len(chain') = Len(chain) /\ phase' = "choose" /\ idx' = idx + 1
          /\ \A n \in 1..Len(chain) : n <= idx => chain'[n] = chain[n]
          /\ Attempting /\ idx <= Len(chain)
          /\ \E kind : Consequence(kind)
      BY <1>0, <1>5, LeaveEffect DEF GivesUp, Advance, history, Attempting
    <2>2. Cur \in Key /\ Cur \in tried /\ Cur.provider \in Provider
      <3>1. Cur \in Key
        BY <1>0, <2>1 DEF Cur
      <3> QED
        BY <2>1, <3>1 DEF CoverInv, Provider
    <2>3. Settled' = tried
      BY <2>1 DEF Settled, Attempting
    <2>4. ~substituted => \A p \in Provider :
            strikes'[p] <= Cardinality(TriedAt(p))
      <3> SUFFICES ASSUME ~substituted, NEW p \in Provider
                   PROVE  strikes'[p] <= Cardinality(TriedAt(p))
        OBVIOUS
      <3>1. strikes[p] <= Cardinality(SettledAt(p)) /\ strikes[p] \in Nat
        BY <1>0 DEF StrikeInv
      <3>2. /\ Cardinality(SettledAt(p)) <= Cardinality(TriedAt(p))
            /\ Cardinality(SettledAt(p)) \in Nat
            /\ Cardinality(TriedAt(p)) \in Nat
        <4>1. Settled \in SUBSET tried
          BY DEF Settled
        <4> QED
          BY <4>1, SettledBound DEF SettledAt, StrikeInv
      <3>3. strikes' \in [Provider -> Nat]
        <4> PICK kind : Consequence(kind)
          BY <2>1
        <4> QED
          BY <2>2, ConsequenceType DEF TypeInv
      <3>4. CASE p # Cur.provider
        BY <2>1, <2>2, <3>1, <3>2, <3>4, ConsequenceEffect
      <3>5. CASE p = Cur.provider
        <4>1. strikes'[p] <= strikes[p] + 1
          BY <2>1, <2>2, ConsequenceEffect
        <4>2. Cardinality(TriedAt(p)) = Cardinality(SettledAt(p)) + 1
          BY <2>1, <2>2, <3>5, SettlingCounts DEF StrikeInv
        <4> QED
          BY <3>1, <3>2, <3>3, <4>1, <4>2
      <3> QED
        BY <3>4, <3>5
    <2>5. \A p \in Provider : SettledAt(p)' = TriedAt(p)
      BY <2>3 DEF SettledAt, TriedAt
    <2>6. ~substituted => \A k \in tried' : \E n \in 1..Len(chain') :
            chain'[n] = k /\ n < idx'
      BY <1>0, <2>1 DEF StrikeInv
    <2> QED
      BY <2>1, <2>4, <2>5, <2>6 DEF StrikeInv
  <1> QED
    BY <1>1, <1>2, <1>3, <1>4, <1>5, WalkSteps

(* A provider is struck at most once per candidate tried on it: retries of *)
(* one candidate, hops and hand-offs never add up to a dead provider. The  *)
(* argument needs the chain to list no row twice.                          *)
THEOREM OneStrikePerCandidate == Spec => []StrikesPerCandidate
  <1>1. Init => StrikeInv
    <2> SUFFICES ASSUME Init PROVE StrikeInv
      OBVIOUS
    <2>1. IsFiniteSet(tried)
      BY FS_EmptySet DEF Init
    <2>2. \A p \in Provider : SettledAt(p) = {} /\ strikes[p] = 0
      BY DEF Init, SettledAt, Settled
    <2> QED
      BY <2>1, <2>2, FS_EmptySet DEF Init, StrikeInv
  <1>2. TypeInv /\ StrikeInv => StrikesPerCandidate
    <2> SUFFICES ASSUME TypeInv, StrikeInv, ~substituted, NEW p \in Provider
                 PROVE  strikes[p] <=
                          Cardinality({k \in tried : k.provider = p})
      BY DEF StrikesPerCandidate
    <2>1. strikes[p] <= Cardinality(SettledAt(p)) /\ strikes[p] \in Nat
      BY DEF StrikeInv, TypeInv, TypeOK
    <2>2. Settled \in SUBSET tried
      BY DEF Settled
    <2>3. /\ Cardinality(SettledAt(p)) <= Cardinality(TriedAt(p))
          /\ Cardinality(SettledAt(p)) \in Nat
          /\ Cardinality(TriedAt(p)) \in Nat
      BY <2>2, SettledBound DEF SettledAt, StrikeInv
    <2> QED
      BY <2>1, <2>3 DEF TriedAt
  <1> QED
    BY <1>1, <1>2, StrikeStep, CoverInvariant, HealthInvariant, PTL
       DEF Spec, HealthInv

-----------------------------------------------------------------------------
(* Replay and abort.                                                       *)

(* Thinking is out and nobody was abandoned: the attempt that showed it is *)
(* still the one streaming, locked against a replay, or the walk is over.  *)
ReplayInv ==
  thinkingOut /\ abandoned = {} =>
    phase = "done" \/ (phase = "stream" /\ Released)

LEMMA ReplayStep ==
  ASSUME TypeInv, ReplayInv, [Next]_vars
  PROVE  ReplayInv'
  <1> USE DEF ReplayInv, Released
  <1>1. CASE UNCHANGED vars
    BY <1>1 DEF vars, walk, history
  <1>2. CASE Choose \/ AnswerSwitch
    BY <1>2 DEF Choose, SkipCandidate, MissingCandidate, AskSwitch,
                BeginCandidate, Exhaust, AtCandidate, AnswerSwitch,
                CancelSwitch, ProceedSwitch, SubstituteSwitch, Begin,
                DropMissing, Advance, EndTurn, history
  <1>3. ASSUME NEW kind, phase = "stream", FailAttempt(kind),
               UNCHANGED thinkingOut
        PROVE  ReplayInv'
    BY <1>3 DEF FailAttempt, ReplayLocked, EndTurn, history
  <1>4. ASSUME LeaveForStronger
        PROVE  ReplayInv'
    BY <1>4 DEF LeaveForStronger
  <1>5. ASSUME NEW x \in BOOLEAN, NEW y \in BOOLEAN, phase = "stream",
               Forward(x, y)
        PROVE  ReplayInv'
    <2>1. att \in [buffered : 0..BufferCap, thinking : BOOLEAN,
                   severe : BOOLEAN, committed : BOOLEAN, answered : BOOLEAN]
      BY DEF TypeInv, TypeOK
    <2>2. CASE Released /\ att' = [att EXCEPT !.severe = @ \/ y]
               /\ UNCHANGED <<walk, history, thinkingOut>>
      BY <2>1, <2>2, <1>5 DEF walk, history
    <2>3. CASE ~Released /\ UNCHANGED <<walk, history, thinkingOut>>
      BY <2>3, <1>5 DEF walk, history
    <2>4. CASE att'.committed /\ UNCHANGED <<walk, history>>
      BY <2>4, <1>5 DEF walk, history
    <2>5. att' = [[att EXCEPT !.severe = @ \/ y]
                    EXCEPT !.committed = TRUE, !.buffered = 0]
          => att'.committed
      BY <2>1
    <2> QED
      BY <1>3, <1>5, <2>2, <2>3, <2>4, <2>5 DEF Forward
  <1>6. CASE StreamEvent
    <2>1. CASE LifecycleEvent
      BY <1>5, <2>1 DEF LifecycleEvent, Streaming
    <2>2. ASSUME NEW loop \in BOOLEAN, ThinkingEvent(loop)
          PROVE  ReplayInv'
      <3>1. att.answered \in BOOLEAN /\ att.committed \in BOOLEAN
        BY DEF TypeInv, TypeOK
      <3> QED
        BY <1>4, <1>5, <2>2, <3>1 DEF ThinkingEvent, Streaming
    <2>3. CASE AnswerEvent
      <3>1. att'.answered
        BY <2>3 DEF AnswerEvent, TypeInv, TypeOK
      <3> QED
        BY <2>3, <3>1 DEF AnswerEvent, Streaming, walk
    <2>4. CASE \/ \E kind \in ErrorKinds \union {"output-limit"} :
                     ErrorEvent(kind)
               \/ StreamThrows
      BY <1>3, <2>4 DEF ErrorEvent, StreamThrows, Streaming
    <2> QED
      BY <1>6, <2>1, <2>2, <2>3, <2>4 DEF StreamEvent
  <1>7. CASE StreamEnds
    BY <1>3, <1>4, <1>7 DEF StreamEnds, Streaming, EndTurn
  <1>8. CASE AuthReady \/ AuthFails \/ SeeAbort \/ BackoffOver
    BY <1>8 DEF AuthReady, MayDispatch, AuthFails, SeeAbort, BackoffOver,
                EndTurn, history
  <1>9. CASE Environment
    BY <1>9 DEF Environment, UserAborts, IntentMoves, SessionReplaced, walk,
                history
  <1> QED
    BY <1>1, <1>2, <1>6, <1>7, <1>8, <1>9 DEF Next, Attempt

LEMMA OnlyAuthReadyDispatches == Next /\ Dispatches => AuthReady
  BY DEF Next, Dispatches, Choose, SkipCandidate, MissingCandidate, AskSwitch,
         BeginCandidate, Exhaust, AtCandidate, AnswerSwitch, CancelSwitch,
         ProceedSwitch, SubstituteSwitch, Attempt, SeeAbort, AuthFails,
         BackoffOver, StreamEvent, LifecycleEvent, ThinkingEvent, AnswerEvent,
         ErrorEvent, StreamThrows, Streaming, StreamEnds, EndTurn, Advance,
         Environment, UserAborts, IntentMoves, SessionReplaced, walk

(* A request after committed thinking is sent only in a walk that left a   *)
(* candidate for a reasoning loop: no retry, hand-off or fallback sends it.*)
THEOREM ReplaysFollowLoops == Spec => ReplayOnlyAfterLoop
  <1>1. Init => ReplayInv
    BY DEF Init, ReplayInv
  <1>2. ReplayInv /\ [Next]_vars =>
          [Dispatches /\ thinkingOut => abandoned # {}]_vars
    BY DEF ReplayInv, Dispatches
  <1> QED
    BY <1>1, <1>2, ReplayStep, TypeInvariant, PTL
       DEF Spec, ReplayOnlyAfterLoop

(* A request never reaches a provider once the caller's signal is set.     *)
THEOREM AbortStopsDispatch == Spec => NoDispatchAfterAbort
  <1>1. [Next]_vars => [Dispatches => ~aborted]_vars
    BY OnlyAuthReadyDispatches DEF AuthReady, MayDispatch
  <1> QED
    BY <1>1, PTL DEF Spec, NoDispatchAfterAbort

(* After an abort no step strikes, kills or excludes anyone: every failure *)
(* path that would is behind a check of the signal.                        *)
THEOREM AbortsBlameNobody == Spec => AbortBlamesNobody
  <1> DEFINE Blameless ==
               /\ \/ UNCHANGED <<blProviders, strikes, dead>>
                  \/ session # "replaced" /\ session' = "replaced"
               /\ blModels' \subseteq blModels \union (Key \ Registered)
  <1>1. ASSUME TypeInv, Next, aborted PROVE Blameless
    <2>1. CASE Choose
      <3>1. CASE MissingCandidate
        <4>1. Cur \in Key
          BY <1>1, <3>1, CurIsKey DEF MissingCandidate, AtCandidate, TypeInv
        <4> QED
          BY <3>1, <4>1 DEF MissingCandidate, DropMissing
      <3> QED
        BY <2>1, <3>1 DEF Choose, SkipCandidate, AskSwitch, BeginCandidate,
                          Exhaust, Begin, health
    <2>2. CASE AnswerSwitch
      BY <1>1, <2>2 DEF AnswerSwitch, CancelSwitch, ProceedSwitch,
                        SubstituteSwitch, Begin, health
    <2>3. CASE Attempt
      BY <1>1, <2>3
         DEF Attempt, AuthReady, MayDispatch, AuthFails, SeeAbort,
             BackoffOver, StreamEvent, StreamEnds, LifecycleEvent,
             ThinkingEvent, AnswerEvent, ErrorEvent, StreamThrows, Streaming,
             health
    <2>4. CASE Environment
      BY <2>4 DEF Environment, UserAborts, IntentMoves, SessionReplaced,
                  health
    <2> QED
      BY <1>1, <2>1, <2>2, <2>3, <2>4 DEF Next
  <1>2. TypeInv /\ [Next]_vars => [aborted => Blameless]_vars
    BY <1>1
  <1> QED
    BY <1>2, TypeInvariant, PTL DEF Spec, AbortBlamesNobody
=============================================================================
