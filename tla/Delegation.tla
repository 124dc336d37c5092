----------------------------- MODULE Delegation -----------------------------
(***************************************************************************)
(* The fallback walk of extensions/serve/delegation.ts: one routed request *)
(* is tried on the candidates of a ranked chain until one answers.  Each   *)
(* attempt is buffered until it proves itself, retried in place, blamed on *)
(* its model or provider, or left for a stronger one; the caller may abort,*)
(* and the session may be replaced, at every await.                        *)
(*                                                                         *)
(* A candidate is its row: provider, model id, the effort that serves, and *)
(* measured quality on the decision's dimension (0: not measured).  Prices *)
(* only order a hop's targets; any order is possible here.                 *)
(***************************************************************************)
EXTENDS Integers, FiniteSets, Sequences, SequencesExt

CONSTANTS
  Key,         (* candidate rows [provider, id, effort, quality]           *)
  Chains,      (* fallback chains the scorer may hand to the walk          *)
  Registered,  (* rows whose model is in Pi's registry                     *)
  ErrorKinds,  (* kinds of provider error the environment produces         *)
  Semi,        (* semi mode with a UI: a model switch is confirmed         *)
  ToolResult,  (* the request ends on a tool result                        *)
  BufferCap,   (* MAX_BUFFERED_EVENTS                                      *)
  None

ASSUME KeyAssumption ==
  /\ \A k \in Key : k.effort \in Nat /\ k.quality \in Nat
  /\ None \notin Key
(* A chain is the keys of a scored pool, which has one candidate per key.  *)
ASSUME ChainsAssumption ==
  \A c \in Chains : c \in Seq(Key) /\ IsInjective(c)
ASSUME FlagsAssumption ==
  /\ Registered \subseteq Key
  /\ ErrorKinds \subseteq {"usage-limit", "transient", "generic", "other"}
  /\ Semi \in BOOLEAN /\ ToolResult \in BOOLEAN
  /\ BufferCap \in Nat

MaxStrikes          == 3   \* MAX_FAILURES_PER_PROVIDER
MaxTransientRetries == 2
MaxGenericRetries   == 1

(* Bound of the request counter, a history of the current candidate.       *)
SentCap == MaxTransientRetries + 3

Provider == {k.provider : k \in Key}
RegistryId(k) == <<k.provider, k.id>>

VARIABLES
  chain, idx,   \* the live chain and the position the walk is at
  phase,        \* where the walk is suspended, or "choose" between candidates
  result,       \* how the walk ended
  excluded,     \* source of the last reasoning-loop hop
  hop,          \* source of a hop whose one-shot target is not chosen yet
  servingHop,   \* source of the hop the current candidate serves
  try,          \* retry loop of the current candidate
  att,          \* event-derived state of the current attempt
  dead, strikes,
  lastAttempted,
  aborted,      \* the caller's signal
  session,      \* does the walk's session and intent still own the router?
  blModels, blProviders, lastServed,   \* that session's state
  \* History, read by properties only.
  routed,       \* the chain the walk was given
  substituted,  \* the user replaced a candidate
  tried,        \* candidates that entered an attempt
  abandoned,    \* candidates left for a reasoning loop
  answers,      \* candidate of every attempt whose answer reached the consumer
  thinkingOut,  \* thinking was committed to the consumer
  staleWrites   \* what the walk wrote after its session was replaced

walk     == <<chain, idx, phase, result>>
hopVars  == <<excluded, hop, servingHop>>
health   == <<dead, strikes, blModels, blProviders>>
history  == <<routed, substituted, tried, abandoned>>
vars == <<walk, hopVars, try, att, health, lastAttempted, aborted, session,
          lastServed, history, answers, thinkingOut, staleWrites>>

Cur == chain[idx]
Awaiting == phase \in {"confirm", "auth", "stream", "backoff"}

(* Mutants: definitions named ..Mutant are plausible bugs of the operator  *)
(* that follows them; no specification or property uses them.              *)
StillCurrentMutant == session # "replaced"
StillCurrent == session = "current"

FreshTry == [count |-> 0, last |-> "none", handoff |-> FALSE, sent |-> 0]
FreshAttempt == [buffered |-> 0, thinking |-> FALSE, severe |-> FALSE,
                 committed |-> FALSE, answered |-> FALSE]
Released == att.committed \/ att.answered

-----------------------------------------------------------------------------
(* Which candidate is stronger than which (scorer.ts).                     *)

IsValidEscalationCandidate(k, src) ==
  k # src /\ (k.id = src.id => k.effort > src.effort)

IsStrictlyStronger(k, src) ==
  /\ IsValidEscalationCandidate(k, src)
  /\ \/ k.id = src.id
     \/ src.quality > 0 /\ k.quality > src.quality

ReachableRemaining ==
  {k \in ToSet(SubSeq(chain, idx + 1, Len(chain))) : k.provider \notin dead}

StrongerRemaining == {k \in ReachableRemaining : IsStrictlyStronger(k, Cur)}

PlanTrajectoryHopMutant(stronger) ==
  {SubSeq(chain, 1, idx) \o s : s \in SetToSeqs(stronger)}

(* The tail is reordered in place: the stronger candidates first, in any   *)
(* order, and behind them the others in the order they had.                *)
HopOrders(stronger) ==
  LET tail == idx+1..Len(chain) IN
  {p \in Bijection(tail, tail) : \A m, n \in tail :
     m < n /\ chain[p[m]] \notin stronger =>
       chain[p[n]] \notin stronger /\ p[m] < p[n]}

PlanTrajectoryHop(stronger) ==
  {[n \in DOMAIN chain |-> IF n <= idx THEN chain[n] ELSE chain[p[n]]] :
     p \in HopOrders(stronger)}

-----------------------------------------------------------------------------
Init ==
  /\ routed \in Chains /\ chain = routed
  /\ idx = 1 /\ phase = "choose" /\ result = "none"
  /\ excluded = None /\ hop = None /\ servingHop = None
  /\ try = FreshTry /\ att = FreshAttempt
  /\ dead = {} /\ strikes = [p \in Provider |-> 0]
  /\ lastAttempted = None
  /\ aborted \in BOOLEAN
  /\ session = "current"
  /\ blModels = {} /\ blProviders = {} /\ lastServed = None
  /\ substituted = FALSE /\ tried = {} /\ abandoned = {}
  /\ answers = <<>> /\ thinkingOut = FALSE /\ staleWrites = {}

EndTurn(r) ==
  /\ phase' = "done" /\ result' = r
  /\ UNCHANGED <<chain, idx>>

Advance ==
  /\ phase' = "choose" /\ idx' = idx + 1
  /\ UNCHANGED result

(* A write to the session's blacklist is not guarded by StillCurrent.      *)
NoteWrite(writes, what) ==
  staleWrites' = IF writes /\ session = "replaced"
                 THEN staleWrites \union {what} ELSE staleWrites

StrikesForMutant(strike) == IF strike THEN try.sent ELSE 0
StrikesFor(strike) == IF strike THEN 1 ELSE 0

Penalise(blacklist, strike, kill) ==
  LET p == Cur.provider
      n == strikes[p] + StrikesFor(strike)
  IN  /\ strikes' = [strikes EXCEPT ![p] = n]
      /\ dead' = IF kill \/ n >= MaxStrikes THEN dead \union {p} ELSE dead
      /\ blModels' = IF blacklist THEN blModels \union {Cur} ELSE blModels
      /\ blProviders' = IF kill THEN blProviders \union {p} ELSE blProviders
      /\ NoteWrite(blacklist \/ kill, "blacklist")

ConsequenceMutant(kind) ==
  CASE kind = "usage-limit" -> Penalise(TRUE, TRUE, TRUE)
    [] kind = "transient"   -> Penalise(FALSE, TRUE, FALSE)
    [] OTHER                -> Penalise(TRUE, TRUE, FALSE)

(* failureConsequence, applied to the session and to this walk's circuit:  *)
(* only provider-health failures strike, and a usage limit kills at once.  *)
Consequence(kind) ==
  CASE kind \in {"trajectory", "declined", "output-limit"} ->
         Penalise(FALSE, FALSE, FALSE)
    [] kind = "usage-limit" -> Penalise(try.last # "transient", TRUE, TRUE)
    [] kind = "transient"   -> Penalise(FALSE, TRUE, FALSE)
    [] OTHER                -> Penalise(TRUE, TRUE, FALSE)

-----------------------------------------------------------------------------
(* Between candidates: the synchronous head of the walk's loop.            *)

SkippableMutant(k) ==
  excluded # None /\ ~IsValidEscalationCandidate(k, excluded)

Skippable(k) ==
  \/ excluded # None /\ ~IsValidEscalationCandidate(k, excluded)
  \/ k.provider \in dead

NeedsConfirmation(k) ==
  /\ Semi /\ lastAttempted # None
  /\ RegistryId(k) # RegistryId(lastAttempted)

AtCandidate == phase = "choose" /\ idx <= Len(chain)

SkipCandidate ==
  /\ AtCandidate /\ Skippable(Cur)
  /\ Advance
  /\ UNCHANGED <<chain, hopVars, try, att, health, lastAttempted, aborted,
                 session, lastServed, history, answers, thinkingOut,
                 staleWrites>>

(* findModel: a missing model is blacklisted without a strike.             *)
DropMissing(k) ==
  /\ k \notin Registered
  /\ blModels' = blModels \union {k}
  /\ NoteWrite(TRUE, "blacklist")
  /\ Advance
  /\ UNCHANGED <<hopVars, try, att, dead, strikes, blProviders,
                 lastAttempted, aborted, session, lastServed, routed, tried,
                 abandoned, answers, thinkingOut>>

MissingCandidate ==
  /\ AtCandidate /\ ~Skippable(Cur)
  /\ DropMissing(Cur)
  /\ UNCHANGED <<chain, substituted>>

AskSwitch ==
  /\ AtCandidate /\ ~Skippable(Cur) /\ Cur \in Registered
  /\ NeedsConfirmation(Cur)
  /\ phase' = "confirm"
  /\ UNCHANGED <<chain, idx, result, hopVars, try, att, health, lastAttempted,
                 aborted, session, lastServed, history, answers, thinkingOut,
                 staleWrites>>

HopServedByMutant(k) == hop

(* The one-shot hop binds to the candidate really attempted, and only when *)
(* that is still a proven upgrade.                                         *)
HopServedBy(k) ==
  IF hop # None /\ IsStrictlyStronger(k, hop) THEN hop ELSE None

Begin(k) ==
  /\ servingHop' = HopServedBy(k)
  /\ hop' = None
  /\ lastAttempted' = k
  /\ tried' = tried \union {k}
  /\ try' = FreshTry /\ att' = FreshAttempt
  /\ phase' = "auth"
  /\ UNCHANGED <<idx, result, excluded, health, aborted, session, lastServed,
                 routed, abandoned, answers, thinkingOut, staleWrites>>

BeginCandidate ==
  /\ AtCandidate /\ ~Skippable(Cur) /\ Cur \in Registered
  /\ ~NeedsConfirmation(Cur)
  /\ Begin(Cur)
  /\ UNCHANGED <<chain, substituted>>

(* The caller turns an exhausted walk into its own terminal error.         *)
Exhaust ==
  /\ phase = "choose" /\ idx > Len(chain)
  /\ EndTurn("exhausted")
  /\ UNCHANGED <<hopVars, try, att, health, lastAttempted, aborted, session,
                 lastServed, history, answers, thinkingOut, staleWrites>>

Choose == SkipCandidate \/ MissingCandidate \/ AskSwitch \/ BeginCandidate
          \/ Exhaust

-----------------------------------------------------------------------------
(* Semi mode: the walk awaits the user's answer.                           *)

CancelSwitch ==
  /\ phase = "confirm"
  /\ EndTurn("aborted")
  /\ UNCHANGED <<hopVars, try, att, health, lastAttempted, aborted, session,
                 lastServed, history, answers, thinkingOut, staleWrites>>

ProceedSwitch ==
  /\ phase = "confirm" /\ StillCurrent
  /\ Begin(Cur)
  /\ UNCHANGED <<chain, substituted>>

(* The user pins another model that the session does not exclude: the rest *)
(* of the chain is dropped, and the pick is attempted in place.            *)
SubstituteSwitch(k) ==
  /\ phase = "confirm" /\ StillCurrent /\ ~aborted
  /\ k \notin blModels /\ k.provider \notin blProviders
  /\ chain' = Append(SubSeq(chain, 1, idx - 1), k)
  /\ substituted' = TRUE
  /\ \/ /\ k = Cur \/ (k.provider \notin dead /\ k \in Registered)
        /\ Begin(k)
     \/ /\ k # Cur /\ k.provider \notin dead
        /\ DropMissing(k)
     \/ /\ k # Cur /\ k.provider \in dead
        /\ Advance
        /\ UNCHANGED <<hopVars, try, att, health, lastAttempted, aborted,
                       session, lastServed, routed, tried, abandoned, answers,
                       thinkingOut, staleWrites>>

AnswerSwitch ==
  CancelSwitch \/ ProceedSwitch \/ \E k \in Key : SubstituteSwitch(k)
-----------------------------------------------------------------------------
(* One attempt: request auth, then the provider's stream.  Between awaits  *)
(* the code runs to completion, so a stream event and the settlement it    *)
(* leads to are one step.                                                  *)

MayDispatchMutant == phase = "auth"

(* transformHeaders: the request is dispatched unless the caller left.     *)
MayDispatch == phase = "auth" /\ ~aborted

AuthReady ==
  /\ MayDispatch
  /\ phase' = "stream"
  /\ try' = [try EXCEPT !.sent = IF @ < SentCap THEN @ + 1 ELSE @]
  /\ UNCHANGED <<chain, idx, result, hopVars, att, health, lastAttempted,
                 aborted, session, lastServed, history, answers, thinkingOut,
                 staleWrites>>

(* A setup failure spent no tokens; the candidate is excluded and struck.  *)
AuthFails ==
  /\ phase = "auth" /\ ~aborted
  /\ Consequence("setup")
  /\ Advance
  /\ UNCHANGED <<chain, hopVars, try, att, lastAttempted, aborted, session,
                 lastServed, history, answers, thinkingOut>>

AbortSeenMutant == aborted /\ phase \in {"stream", "backoff"}

(* Every await of an attempt or of the retry delay rejects on abort.       *)
AbortSeen == aborted /\ phase \in {"auth", "stream", "backoff"}

SeeAbort ==
  /\ AbortSeen
  /\ EndTurn("aborted")
  /\ UNCHANGED <<hopVars, try, att, health, lastAttempted, aborted, session,
                 lastServed, history, answers, thinkingOut, staleWrites>>

NextTryMutant == [try EXCEPT !.count = @ + 1, !.handoff = FALSE]
NextTryUncountedMutant == try

(* A later retry keeps the handed-off context.                             *)
NextTry == [try EXCEPT !.count = @ + 1]

BackoffOver ==
  /\ phase = "backoff" /\ ~aborted
  /\ phase' = "auth"
  /\ try' = NextTry
  /\ att' = FreshAttempt
  /\ UNCHANGED <<chain, idx, result, hopVars, health, lastAttempted, aborted,
                 session, lastServed, history, answers, thinkingOut,
                 staleWrites>>

StreamingMutant == phase = "stream"
Streaming == phase = "stream" /\ ~aborted

(* planCapabilityHop: reorder the live tail behind the stronger entries,   *)
(* and never go back to the source.  Nobody is blamed.                     *)
LeaveForStronger ==
  /\ excluded' = Cur
  /\ abandoned' = abandoned \union {Cur}
  /\ IF StrongerRemaining = {}
     THEN UNCHANGED <<hop, chain>>
     ELSE /\ hop' = Cur
          /\ chain' \in PlanTrajectoryHop(StrongerRemaining)
  /\ Consequence("trajectory")
  /\ Advance
  /\ UNCHANGED <<servingHop, try, att, routed, substituted, tried>>

ReplayLockedMutant == att.committed
ReplayLockedAnswerMutant == att.answered

(* decideAfterFailure's replay lock.                                       *)
ReplayLocked == att.answered \/ att.committed

RetriesMutant(kind) ==
  \/ kind = "transient" /\ try.count <= MaxTransientRetries
  \/ kind = "generic" /\ try.count <= MaxGenericRetries

Retries(kind) ==
  \/ kind = "transient" /\ try.count < MaxTransientRetries
  \/ kind = "generic" /\ try.count < MaxGenericRetries

(* settleAttempt for a dispatched attempt that failed without a loop.      *)
FailAttempt(kind) ==
  \/ /\ ReplayLocked
     /\ EndTurn("finalized")
     /\ UNCHANGED <<hopVars, try, att, health, history, staleWrites>>
  \/ /\ ~ReplayLocked /\ Retries(kind)
     /\ phase' = "backoff"
     /\ try' = [try EXCEPT !.last = kind]
     /\ UNCHANGED <<chain, idx, result, hopVars, att, health, history,
                    staleWrites>>
  \/ /\ ~ReplayLocked /\ kind = "declined"   \* one handed-off attempt
     /\ phase' = "auth"
     /\ try' = [try EXCEPT !.handoff = TRUE]
     /\ att' = FreshAttempt
     /\ UNCHANGED <<chain, idx, result, hopVars, health, history, staleWrites>>
  \/ /\ ~ReplayLocked /\ ~Retries(kind) /\ kind # "declined"
     /\ Consequence(kind)
     /\ Advance
     /\ UNCHANGED <<chain, hopVars, try, att, history>>

StreamFrame == UNCHANGED <<lastAttempted, aborted, session>>

(* createAttemptBuffer.forward of an event that is not an answer: hold it, *)
(* or commit to live streaming when the full buffer holds thinking, or     *)
(* fail the candidate.                                                     *)
Forward(isThinking, severe) ==
  LET seen == [att EXCEPT !.severe = @ \/ severe] IN
  \/ /\ Released
     /\ att' = seen
     /\ UNCHANGED <<walk, hopVars, try, health, history, thinkingOut,
                    staleWrites>>
  \/ /\ ~Released /\ att.buffered < BufferCap
     /\ att' = [seen EXCEPT !.buffered = @ + 1,
                            !.thinking = @ \/ isThinking]
     /\ UNCHANGED <<walk, hopVars, try, health, history, thinkingOut,
                    staleWrites>>
  \/ /\ ~Released /\ att.buffered >= BufferCap /\ att.thinking
     /\ att' = [seen EXCEPT !.committed = TRUE, !.buffered = 0]
     /\ thinkingOut' = TRUE
     /\ UNCHANGED <<walk, hopVars, try, health, history, staleWrites>>
  \/ /\ ~Released /\ att.buffered >= BufferCap /\ ~att.thinking
     /\ FailAttempt("overflow")
     /\ UNCHANGED thinkingOut

(* Lifecycle events; a `done` that is no output limit is one of them.      *)
LifecycleEvent ==
  /\ Streaming
  /\ Forward(FALSE, FALSE)
  /\ StreamFrame /\ UNCHANGED <<lastServed, answers>>

(* A thinking delta.  `loop`: the detector's verdict is severe.  It counts *)
(* only before an answer or a commit, and it ends the attempt at once when *)
(* a reachable stronger candidate remains.                                 *)
ThinkingEvent(loop) ==
  LET severe == loop /\ ~att.answered /\ ~att.committed IN
  /\ Streaming
  /\ IF severe /\ StrongerRemaining # {}
     THEN LeaveForStronger /\ UNCHANGED thinkingOut
     ELSE Forward(TRUE, severe)
  /\ StreamFrame /\ UNCHANGED <<lastServed, answers>>

(* The first text or tool call: publish the serving state, then release.   *)
AnswerEvent ==
  /\ Streaming /\ ~att.answered
  /\ att' = [att EXCEPT !.answered = TRUE, !.buffered = 0]
  /\ answers' = Append(answers, Cur)
  /\ thinkingOut' = (thinkingOut \/ att.thinking)
  /\ lastServed' = IF StillCurrent THEN Cur ELSE lastServed
  /\ StreamFrame
  /\ UNCHANGED <<walk, hopVars, try, health, history, staleWrites>>

(* In-stream `error` before an answer, `done` at the output limit without  *)
(* one, or an iterator that rejects.  An error after the answer is         *)
(* forwarded like any event and changes nothing here.                      *)
ErrorEvent(kind) ==
  /\ Streaming /\ ~att.answered
  /\ FailAttempt(kind)
  /\ StreamFrame /\ UNCHANGED <<lastServed, answers, thinkingOut>>

StreamThrows ==
  /\ Streaming
  /\ FailAttempt("caught")
  /\ StreamFrame /\ UNCHANGED <<lastServed, answers, thinkingOut>>

(* The iterator ends.  Without an answer: a latched loop is a capability   *)
(* struggle; an empty continuation of a tool loop is a decline.            *)
StreamEnds ==
  /\ Streaming
  /\ \/ /\ att.answered
        /\ EndTurn("served")
        /\ NoteWrite(TRUE, "incumbent")    \* settleServed is not guarded
        /\ UNCHANGED <<hopVars, try, att, health, history>>
     \/ /\ ~att.answered /\ att.severe
        /\ LeaveForStronger
     \/ /\ ~att.answered /\ ~att.severe
        /\ FailAttempt(IF ToolResult /\ ~try.handoff
                       THEN "declined" ELSE "caught")
  /\ StreamFrame /\ UNCHANGED <<lastServed, answers, thinkingOut>>

StreamEvent ==
  \/ LifecycleEvent
  \/ \E loop \in BOOLEAN : ThinkingEvent(loop)
  \/ AnswerEvent
  \/ \E kind \in ErrorKinds \union {"output-limit"} : ErrorEvent(kind)
  \/ StreamThrows

Attempt == AuthReady \/ AuthFails \/ SeeAbort \/ BackoffOver \/ StreamEvent
           \/ StreamEnds

-----------------------------------------------------------------------------
(* The environment acts while the walk awaits.                             *)

UserAborts ==
  /\ Awaiting /\ ~aborted
  /\ aborted' = TRUE
  /\ UNCHANGED <<walk, hopVars, try, att, health, lastAttempted, session,
                 lastServed, history, answers, thinkingOut, staleWrites>>

(* Another request rotates the served state and takes the intent.          *)
IntentMoves ==
  /\ Awaiting /\ session = "current"
  /\ session' = "moved" /\ lastServed' = None
  /\ UNCHANGED <<walk, hopVars, try, att, health, lastAttempted, aborted,
                 history, answers, thinkingOut, staleWrites>>

(* session_start: reset() and clearSessionBlacklist().                     *)
SessionReplaced ==
  /\ Awaiting /\ session # "replaced"
  /\ session' = "replaced" /\ lastServed' = None
  /\ blModels' = {} /\ blProviders' = {}
  /\ UNCHANGED <<walk, hopVars, try, att, dead, strikes, lastAttempted,
                 aborted, history, answers, thinkingOut, staleWrites>>

Environment == UserAborts \/ IntentMoves \/ SessionReplaced

Next == Choose \/ AnswerSwitch \/ Attempt \/ Environment

(* The router's own steps run; an aborted dialog is dismissed.  Nothing    *)
(* makes a provider, a user or a session act.                              *)
RouterFairness ==
  /\ WF_vars(Choose)
  /\ WF_vars(SeeAbort)
  /\ WF_vars(BackoffOver)
  /\ WF_vars(aborted /\ CancelSwitch)

Spec == Init /\ [][Next]_vars /\ RouterFairness

(* Providers that settle auth and end their streams, and a user who        *)
(* answers: what full termination needs besides the router.                *)
ResponsiveSpec ==
  /\ Spec
  /\ WF_vars(AuthReady \/ AuthFails)
  /\ WF_vars(StreamEnds)
  /\ WF_vars(AnswerSwitch)

-----------------------------------------------------------------------------
TypeOK ==
  /\ chain \in Seq(Key) /\ routed \in Seq(Key) /\ answers \in Seq(Key)
  /\ idx \in Nat \ {0}
  /\ phase \in {"choose", "confirm", "auth", "stream", "backoff", "done"}
  /\ result \in {"none", "served", "exhausted", "finalized", "aborted"}
  /\ phase \in {"confirm", "auth", "stream", "backoff"} => idx <= Len(chain)
  /\ {excluded, hop, servingHop, lastAttempted, lastServed}
       \subseteq Key \union {None}
  /\ try \in [count : 0..MaxTransientRetries,
              last : {"none", "transient", "generic"},
              handoff : BOOLEAN, sent : 0..SentCap]
  /\ att \in [buffered : 0..BufferCap, thinking : BOOLEAN, severe : BOOLEAN,
              committed : BOOLEAN, answered : BOOLEAN]
  /\ dead \subseteq Provider /\ strikes \in [Provider -> Nat]
  /\ blModels \subseteq Key /\ blProviders \subseteq Provider
  /\ tried \subseteq Key /\ abandoned \subseteq Key
  /\ {aborted, substituted, thinkingOut} \subseteq BOOLEAN
  /\ session \in {"current", "moved", "replaced"}
  /\ staleWrites \subseteq {"blacklist", "incumbent"}

(* The consumer gets the answer of at most one attempt: retries, hand-offs,*)
(* hops and fallbacks never replay a turn that already produced text or a  *)
(* tool call, and no attempt is even started once one answered.            *)
SingleAnswer ==
  /\ Len(answers) <= 1
  /\ answers # <<>> /\ phase # "done" => phase = "stream" /\ att.answered

(* While the walk's session and intent own the router, the served model    *)
(* they record is exactly the one whose answer the consumer has; afterwards*)
(* the walk never touches that record.                                     *)
ServedIsAnswerer ==
  lastServed = IF session = "current" /\ answers # <<>>
               THEN Last(answers) ELSE None

(* Same-model retries and the tool-loop hand-off together send at most     *)
(* one request more than the two transient retries allow.                  *)
RequestsBounded == try.sent <= MaxTransientRetries + 2

(* Reordering the live chain under its own iteration loses nobody: a walk  *)
(* that gave up has tried every routed candidate that was in the registry, *)
(* whose provider was alive and that was no replay of an abandoned model.  *)
ExhaustionIsComplete ==
  result = "exhausted" /\ ~substituted =>
    \A k \in ToSet(routed) :
      \/ k \in tried
      \/ k \notin Registered
      \/ k.provider \in dead
      \/ \E s \in abandoned : ~IsValidEscalationCandidate(k, s)

(* A provider leaves the walk for a usage limit or for three failed        *)
(* candidates; retries of one candidate never add up to a dead provider.   *)
StrikesPerCandidate ==
  ~substituted => \A p \in Provider :
    strikes[p] <= Cardinality({k \in tried : k.provider = p})

(* A model or provider that served the turn is not left excluded by it.    *)
ServerNotExcluded ==
  result = "served" => /\ Cur \notin blModels
                       /\ Cur.provider \notin dead \union blProviders

(* Only a proven stronger candidate carries a hop's provenance, and only   *)
(* for a source that was abandoned before it was reached.                  *)
HopIsStronger ==
  servingHop # None /\ Awaiting /\ phase # "confirm" =>
    /\ servingHop \in abandoned
    /\ IsStrictlyStronger(Cur, servingHop)

Dispatches == phase = "auth" /\ phase' = "stream"

(* No request reaches a provider after the caller's abort, also when the   *)
(* abort came while auth was pending or between two retries.               *)
NoDispatchAfterAbort == [][Dispatches => ~aborted]_vars

(* "Caller cancellation: end the turn without a blacklist change"; only a  *)
(* row that is missing from the registry is recorded regardless.           *)
AbortBlamesNobody ==
  [][aborted => /\ UNCHANGED <<blProviders, strikes, dead>>
                   \/ (session # "replaced" /\ session' = "replaced")
                /\ blModels' \subseteq blModels \union (Key \ Registered)]_vars

(* Committed thinking locks replay like an answer does, except where the   *)
(* committing attempt ended as a reasoning loop.                           *)
ReplayOnlyAfterLoop ==
  [][Dispatches /\ thinkingOut => abandoned # {}]_vars

(* A reasoning loop, a decline and an output limit are no provider-health  *)
(* failures: a walk step that abandons or hands off leaves the circuit and *)
(* the session's exclusions as they were.                                  *)
LoopIsNoDefect ==
  [][abandoned' # abandoned \/ try'.handoff # try.handoff =>
       UNCHANGED health]_vars

(* The caller's abort ends the turn whatever the provider or dialog does.  *)
AbortEndsTurn == aborted ~> phase = "done"

(* With providers that finish and a user who answers, the walk ends: the   *)
(* array it iterates over is rewritten but never grows without bound.      *)
Terminates == <>(phase = "done")

-----------------------------------------------------------------------------
(* What documents or comments of the repository say and the code does not. *)

(* docs/delegation.md: replay stops after a thinking-buffer commit.        *)
CommitStopsReplay == [][Dispatches => ~thinkingOut]_vars

(* docs/overview.md: a result from a replaced generation cannot update the *)
(* current session.                                                        *)
ReplacedSessionUntouched == staleWrites = {}

(* scorer.ts: an abandoned model is never replayed at an equal or lower    *)
(* effort through another provider.                                        *)
AbandonedNotReplayed ==
  phase = "stream" /\ ~substituted =>
    \A s \in abandoned : IsValidEscalationCandidate(Cur, s)
=============================================================================
