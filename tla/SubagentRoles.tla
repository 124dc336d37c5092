---------------------------- MODULE SubagentRoles ----------------------------
(* The models of subagent roles (src/extensions/agents/subagents.ts,
   subagent-routing-state.ts, and the handlers of index.ts), as operators.

   A request is [role, task, model]: a structured child of one `subagent`
   call, whether it has a task, and the model the caller asked for (NoKey when
   it asked for none or for router/auto).  The routing state is [models,
   chains, pool]: a role's model and its ranked chain, for the roles that the
   router owns, and the candidates they were picked from.  Family maps a model
   to its identity without a version or a vendor. *)
EXTENDS RoutingPolicy

CONSTANT Family

AllRoles == {"researcher", "planner", "worker", "reviewer", "advisor"}
RoleDimension(role) ==
  CASE role = "worker" -> "implement" [] role = "reviewer" -> "review" [] OTHER -> "plan"

NoRoles == [models |-> <<>>, chains |-> <<>>, pool |-> {}]
SameFamily(a, b) == Family[Model(a)] = Family[Model(b)]

\* A spawn has no incumbent cache, and it is scored by the legacy policy.
PickForRole(pool, role, tokens) ==
  PickBest(pool, RoleDimension(role), Weights(RoleDimension(role)),
           [tokens |-> tokens, vision |-> FALSE, version |-> "legacy", requirement |-> NoRequirement,
            minimums |-> "default", incumbent |-> NoKey, warm |-> {}, spawn |-> TRUE,
            penalties |-> <<>>, unknownPriceLast |-> FALSE])

\* pins: the roles the user or the project gave a model; a project's pin wins.
ReadExistingOverrides(user, project) == project @@ user

\* Each owned role's decision; a pinned role is the user's, and not assigned.
ComputeRoleAssignments(pool, pins, tokens) ==
  LET owned == AllRoles \ DOMAIN pins
      worker == IF "worker" \in owned THEN PickForRole(pool, "worker", tokens).chosen
                ELSE pins["worker"]
      independent == {c \in pool : ~SameFamily(Key(c), worker)}
  IN IF pool = {} THEN <<>>
     ELSE [role \in owned |->
            PickForRole(IF role = "reviewer" /\ independent # {} THEN independent ELSE pool,
                        role, tokens)]

\* The routing state of a refresh; nothing is routable leaves it as it was.
RoutingState(assigned, pool) ==
  [models |-> [role \in DOMAIN assigned |-> assigned[role].chosen],
   chains |-> [role \in DOMAIN assigned |-> assigned[role].chain],
   pool |-> pool]
RefreshRoles(roles, pool, pins, tokens) ==
  IF pool = {} THEN roles ELSE RoutingState(ComputeRoleAssignments(pool, pins, tokens), pool)

(* A spawn asks for the model's bare identity, without a thinking level, so
   only a candidate without an effort label is found among the failed ones. *)
ExcludedCandidate(key, black) == Base(key) \in black.keys \/ key[1] \in black.providers

FirstLive(chain, black) ==
  LET live == Among(chain, {key \in Range(chain) : ~ExcludedCandidate(key, black)})
  IN IF live = <<>> THEN NoKey ELSE live[1]

ResolveLiveRoleModels(roles, black) ==
  LET live == {role \in DOMAIN roles.chains : FirstLive(roles.chains[role], black) # NoKey}
  IN [role \in live |-> FirstLive(roles.chains[role], black)]

\* What one owned child gets: [model, chain].  Without a task it keeps the role's
\* own ranking; a reviewer without an independent candidate is picked anyway.
PickChild(request, live, roles, black, tokens, avoided) ==
  LET baseline == roles.chains[request.role]
      unrestricted == {c \in roles.pool : /\ Contains(baseline, Key(c))
                                          /\ ~ExcludedCandidate(Key(c), black)}
      pool == {c \in unrestricted : \A key \in avoided : ~SameFamily(Key(c), key)}
      kept == Among(baseline, {Key(c) : c \in pool})
      decision == PickForRole(IF pool = {} THEN unrestricted ELSE pool, request.role, tokens)
  IN CASE request.task -> [model |-> decision.chosen, chain |-> decision.chain]
       [] kept # <<>> -> [model |-> kept[1], chain |-> kept]
       [] OTHER -> [model |-> live[request.role], chain |-> baseline]

\* The router owns a child of an owned role that asked for no model.
Owned(request, live) == request.role \in DOMAIN live /\ request.model = NoKey

\* A bug: children are picked in the order they were written.
SelectChildrenMutant(requests, roles, black, tokens) ==
  LET live == ResolveLiveRoleModels(roles, black)
      Earlier(i) == {requests[j].model : j \in {k \in 1..i : requests[k].role = "worker"}} \ {NoKey}
  IN [i \in {j \in DOMAIN requests : Owned(requests[j], live)} |->
       PickChild(requests[i], live, roles, black, tokens,
                 IF requests[i].role = "reviewer" THEN Earlier(i) ELSE {})]

\* Workers first, so that a reviewer avoids the families of all of them.
SelectChildren(requests, roles, black, tokens) ==
  LET live == ResolveLiveRoleModels(roles, black)
      owned == {i \in DOMAIN requests : Owned(requests[i], live)}
      Pick(i, workers) == PickChild(requests[i], live, roles, black, tokens, workers)
      workers == {i \in DOMAIN requests : requests[i].role = "worker"}
      asked == {requests[i].model : i \in workers} \ {NoKey}
      workerModels == asked \cup {Pick(i, {}).model : i \in workers \cap owned}
  IN [i \in owned |-> Pick(i, IF requests[i].role = "reviewer" THEN workerModels ELSE {})]

\* The model of a scripted spawn, whose children the router cannot see.
PickSubagentDefaultModel(live) ==
  LET order == Among(<<"worker", "planner", "researcher", "advisor", "reviewer">>, DOMAIN live)
  IN IF order = <<>> THEN NoKey ELSE live[order[1]]

\* What each child runs: the picked model, the one the caller asked for, or for
\* a script (role "script") the default.
Children(requests, picked, default) ==
  [i \in DOMAIN requests |->
    [role |-> requests[i].role, owned |-> i \in DOMAIN picked,
     model |-> CASE i \in DOMAIN picked -> picked[i].model
                 [] requests[i].role = "script" /\ requests[i].model = NoKey -> default
                 [] OTHER -> requests[i].model,
     chain |-> IF i \in DOMAIN picked THEN picked[i].chain ELSE <<>>]]
InjectSubagentRouting(requests, roles, black, tokens) ==
  Children(requests, SelectChildren(requests, roles, black, tokens),
           PickSubagentDefaultModel(ResolveLiveRoleModels(roles, black)))
=============================================================================
