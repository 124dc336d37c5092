--------------------------- MODULE MCSessionTurns ---------------------------
(* An instance of SessionTurns for TLC: one weak model with two efforts, one
   unlabelled model of the same provider, and one strong, dear model. *)
EXTENDS SessionTurns

Row(id, effort, q, task) ==
  [id |-> id, effort |-> effort, bench |-> TRUE, estimated |-> FALSE, q |-> q, task |-> task,
   time |-> task, tps |-> 50]
Index(i, k) == [intelligence |-> i, agenticCoding |-> k, knowledge |-> 20, research |-> 40]
ModelRow(provider, model, name, rows, price) ==
  [provider |-> provider, model |-> model, name |-> name, rows |-> rows, price |-> price,
   window |-> 200, vision |-> FALSE, reasoning |-> FALSE, levels |-> {}, turnsOff |-> FALSE,
   cached |-> TRUE, sharesCache |-> FALSE]

MCRegistry == {
  [ModelRow("p", "weak", 2, {Row("weak", 2, Index(310, 345), 1), Row("weak", 4, Index(400, 430), 3)}, 1)
     EXCEPT !.reasoning = TRUE, !.levels = {2, 4}],
  ModelRow("p", "plain", 1, {Row("plain", -1, Index(330, 350), 4)}, 2),
  ModelRow("q", "strong", 3, {Row("strong", -1, Index(560, 600), 6)}, 4)}
MCFamily == [weak |-> "w", plain |-> "v", strong |-> "s"]

Read == [family |-> "read", action |-> "read x", obs |-> "same", verified |-> TRUE, path |-> "x",
         body |-> {"l1"}, old |-> "", new |-> "", failure |-> "no failure", error |-> FALSE]

Idler == [kind |-> "idler", version |-> "legacy", semi |-> FALSE, userPins |-> <<>>, projectPins |-> <<>>, penalties |-> <<>>,
          levels |-> {}, manual |-> {}, results |-> {}, handoffs |-> {}, spawns |-> {}, env |-> {},
          patterns |-> {}, writable |-> {TRUE}, batch |-> 0, parallel |-> 1, users |-> 1, requests |-> 1, calls |-> 0,
          upsets |-> 0, fails |-> 0]

\* A weak model looks at the same thing again and again.
Struggle == [Idler EXCEPT !.kind = "struggle", !.results = {Read}, !.batch = 4, !.calls = 8,
               !.requests = 3, !.fails = 1]
\* It edits one file back and forth, and the test keeps failing.
Test == [Read EXCEPT !.family = "verifier", !.action = "test", !.obs = "boom", !.path = "",
           !.body = NoBody, !.failure = "boom", !.error = TRUE]
Edit(old, new) == [Read EXCEPT !.family = "mutation", !.action = "edit " \o new, !.obs = "edited",
                     !.body = NoBody, !.old = old, !.new = new]
Fix == [Idler EXCEPT !.kind = "fix", !.results = {Read, Test, Edit("l1", "l2"), Edit("l2", "l1")},
          !.batch = 1, !.calls = 7, !.requests = 7]
\* Nothing stronger is left, and the user is asked.
Gate == [Struggle EXCEPT !.kind = "gate", !.semi = TRUE, !.env = {"black", "level"}, !.upsets = 2,
           !.patterns = {<<"q", "*">>}, !.levels = {4}, !.fails = 0, !.batch = 4, !.calls = 8]
Late == [Struggle EXCEPT !.kind = "late", !.env = {"block"}, !.parallel = 2, !.calls = 4, !.batch = 3, !.requests = 3]

\* The user changes the model during an answer, and changes it back.
Switch == [Struggle EXCEPT !.kind = "switch", !.env = {"select"}, !.upsets = 2, !.batch = 2,
             !.calls = 4, !.requests = 2]

Pin == [Idler EXCEPT !.kind = "pin", !.users = 2, !.requests = 3, !.env = {"pin", "resume", "level"},
          !.manual = {<<"p", "weak", 4>>, <<"q", "strong", -1>>}, !.levels = {4}, !.upsets = 2,
          !.fails = 1]
\* The model of the first entry is excluded, and the user is asked about the next.
Semi == [Idler EXCEPT !.kind = "semi", !.semi = TRUE, !.users = 2, !.requests = 3, !.upsets = 2,
           !.env = {"pin", "session", "black"}, !.patterns = {<<"p", "*">>},
           !.manual = {<<"q", "strong", -1>>, <<"p", "weak", 4>>}]

Rubric(criteria, level) == [c \in criteria |-> level]
NoFacts == [applicable |-> FALSE, files |-> 0, directories |-> 0, lines |-> 0, fixes |-> 0]
Handoff(deliverable, complexity, openEnded, rubric) ==
  [deliverable |-> deliverable, complexity |-> complexity, openEnded |-> openEnded,
   rubric |-> rubric, facts |-> NoFacts]
Phase == [Idler EXCEPT !.kind = "phase", !.users = 2, !.requests = 4, !.calls = 2, !.batch = 1,
            !.handoffs = {Handoff("implement", "routine", FALSE, Rubric(ExecutionCriteria, 2)),
                          Handoff("plan", "hard", TRUE, Rubric(ReasoningCriteria, 0)),
                          Handoff("gather", "trivial", FALSE, Rubric(ExecutionCriteria, 1))},
            !.env = {"level"}, !.levels = {2}, !.upsets = 1, !.fails = 1]
\* The user lowers the level of Pi under another model, after the handoff.
Boundary == [Idler EXCEPT !.kind = "boundary", !.requests = 2, !.calls = 1, !.batch = 1,
               !.handoffs = {Handoff("implement", "routine", FALSE, Rubric(ExecutionCriteria, 3))},
               !.env = {"select", "level"}, !.levels = {2, 4}, !.upsets = 4]
Cheapest == [Phase EXCEPT !.kind = "cheapest", !.version = "cheapest-sufficient"]

Child(role, task, model) == [role |-> role, task |-> task, model |-> model]
Spawner == [Idler EXCEPT !.kind = "spawn", !.requests = 2, !.calls = 2, !.batch = 2, !.fails = 1,
  !.env = {"black"}, !.upsets = 1, !.patterns = {<<"q", "*">>, <<"p", "weak">>},
  !.spawns = {<<Child("reviewer", TRUE, NoKey), Child("worker", TRUE, NoKey)>>,
              <<Child("reviewer", FALSE, NoKey), Child("worker", FALSE, <<"p", "plain", -1>>)>>,
              <<Child("script", FALSE, NoKey)>>,
              <<Child("worker", TRUE, NoKey), Child("advisor", TRUE, NoKey),
                Child("reviewer", TRUE, NoKey)>>}]
Pinned2 == [Spawner EXCEPT !.kind = "pinned-worker", !.userPins = [worker |-> <<"p", "plain", -1>>], !.projectPins = [worker |-> <<"q", "strong", -1>>]]

\* The history is rewritten, and the model changes, between requests.
Notes == [Idler EXCEPT !.kind = "notes", !.users = 3, !.requests = 3, !.upsets = 2,
            !.env = {"select", "compact", "tree"}]
\* A note cannot always be recorded; the session or the prompt head is replaced.
Forget == [Idler EXCEPT !.kind = "forget", !.users = 2, !.requests = 3, !.writable = BOOLEAN,
             !.upsets = 1, !.calls = 1, !.batch = 1, !.env = {"session", "head"},
             !.handoffs = {Handoff("gather", "trivial", FALSE, Rubric(ExecutionCriteria, 1))}]
MCWorkloads == {Struggle, Fix, Gate, Late, Switch, Pin, Semi, Phase, Boundary, Cheapest, Spawner, Pinned2, Notes, Forget}
=============================================================================
