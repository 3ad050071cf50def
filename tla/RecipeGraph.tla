----------------------------- MODULE RecipeGraph -----------------------------
(***************************************************************************)
(* The static checks of a recipe: the routing graph with its bypass edges, *)
(* reachability over it, the facts its conditional edges establish, and    *)
(* the rules that read them.  Steps are numbered in declaration order.     *)
(***************************************************************************)
EXTENDS Integers, Sequences

Done == 0
Escalate == -1
None == -2      \* the field is not set

Tools == {"cmd", "guard", "skill", "implement", "audit", "review", "review_loop", "ci_event",
          "push", "publish", "merge", "wait", "release", "auto"}
Actions == {"route", "confirm", "stop"}
SKILL_TOOLS == {"skill", "implement", "audit", "review"}   \* run_skill, by its command
Whens == {"any", "timeout", "no_auto", "spent", "x1", "x2"}

IsRecipe(r) ==
  /\ Len(r) \in Nat \ {0} /\ DOMAIN r = 1..Len(r)
  /\ \A s \in DOMAIN r : LET t == r[s] IN
       /\ t.is \in Tools \union Actions
       /\ {t.success, t.failure, t.limit, t.exhausted} \subseteq -2..Len(r)
       /\ t.retries \in Nat /\ t.skip \in BOOLEAN
       /\ t.result \in Seq([when : Whens, to : 0..Len(r)])
       /\ t.capture \subseteq {"w", "x"} /\ t.reads \subseteq {"w", "x"}

Names(r) == DOMAIN r
Of(r, tools) == {s \in Names(r) : r[s].is \in tools}
Arms(t, whens) == {t.result[i].to : i \in {j \in DOMAIN t.result : t.result[j].when \in whens}}
Targets(t) == Arms(t, Whens)

----------------------------------------------------------------------------
(* _analysis_graph.py, _analysis_bfs.py                                     *)

_extract_routing_edges(t) ==
  {e \in {<<"success", t.success>>, <<"failure", t.failure>>, <<"context_limit", t.limit>>,
          <<"exhausted", t.exhausted>>} : e[2] # None}
    \union {<<"result_condition", to>> : to \in Targets(t)}

\* Mutant: a failure leads nowhere.
DeclaredSuccess(r) ==
  [s \in Names(r) |-> ({r[s].success} \union Targets(r[s])) \intersect Names(r)]

\* Edges as declared: an action step has no retries, so it is never exhausted.
Declared(r) ==
  [s \in Names(r) |-> {e[2] : e \in {f \in _extract_routing_edges(r[s]) :
                               f[1] = "exhausted" => r[s].is \notin Actions}} \intersect Names(r)]

\* A step that may be skipped is bypassed from the predecessors it had before any
\* bypass was added.
_build_step_graph(r) ==
  LET declared == Declared(r)
      bypass(s) == IF r[s].skip THEN ({r[s].success} \union Targets(r[s])) \intersect Names(r) ELSE {}
  IN [p \in Names(r) |-> declared[p] \union UNION {bypass(s) : s \in declared[p]}]

_build_success_step_graph(r) ==
  [s \in Names(r) |-> ({r[s].success} \union Targets(r[s])) \intersect Names(r)]

\* What is reached from a set of steps when barriers are not expanded: what every set
\* has that holds the steps and is closed under the edges of what is not a barrier.
_bfs_capped(graph, starts, barriers) ==
  LET closed(S) == \A s \in S \ barriers : graph[s] \intersect DOMAIN graph \subseteq S
      over == {S \in SUBSET DOMAIN graph : starts \intersect DOMAIN graph \subseteq S /\ closed(S)}
  IN {t \in DOMAIN graph : \A S \in over : t \in S}

bfs_reachable(graph, start) == _bfs_capped(graph, graph[start], {})

bfs_reachable_without_barrier(r, start, barriers) ==
  _bfs_capped(_build_success_step_graph(r), {start}, barriers)

\* An edge establishes what the first condition that leads there says of x.
_edge_fact(r, from, to) ==
  LET said == {i \in DOMAIN r[from].result : r[from].result[i].to = to
                                             /\ r[from].result[i].when # "any"}
      first == r[from].result[CHOOSE i \in said : \A j \in said : i <= j].when
  IN IF said # {} /\ first \in {"x1", "x2"} THEN {first} ELSE {}

\* Mutant: a fact is known if some path establishes it.
_bfs_with_some_facts(r, graph, start) ==
  LET ahead(s) == _bfs_capped(graph, {s}, {})
      said(p, s) == UNION {_edge_fact(r, p, t) : t \in {u \in graph[p] : s \in ahead(u)}}
  IN [s \in Names(r) |-> UNION {said(p, s) : p \in ahead(start)}]

Without(r, graph, f) == [p \in Names(r) |-> {t \in graph[p] : f \notin _edge_fact(r, p, t)}]

\* Every set of facts that arrives at a step has the fact: no path goes there without
\* an edge that establishes it.
_bfs_with_facts(r, graph, start) ==
  [s \in Names(r) |-> {f \in {"x1", "x2"} : /\ s \in _bfs_capped(graph, {start}, {})
                                           /\ s \notin _bfs_capped(Without(r, graph, f), {start}, {})}]

----------------------------------------------------------------------------
(* The rules: each is what it reports.                                      *)

push_before_audit(r) ==
  Of(r, {"push"}) \intersect _bfs_capped(_build_step_graph(r), {1}, Of(r, {"audit"}))

\* The raw graph has no bypass edges; create_and_publish_branch publishes as well.
merge_base_unpublished(r) ==
  Of(r, {"merge"}) \intersect _bfs_capped(Declared(r), {1}, Of(r, {"push", "publish"}))

review_loop_waypoint_guard(r) ==
  UNION {Of(r, {"ci_event"}) \intersect bfs_reachable_without_barrier(r, s, Of(r, {"review_loop"})) :
         s \in Of(r, {"review"})}

\* Both leave a wait that timed out: its timeout condition and its on_failure.
_collect_timeout_exit_steps(r) ==
  UNION {Arms(r[s], {"timeout"}) \union {r[s].failure} : s \in Of(r, {"wait"})}

release_issue_on_unconfirmed_merge(r) ==
  Of(r, {"release"})
    \intersect _bfs_capped(_build_step_graph(r), _collect_timeout_exit_steps(r) \intersect Names(r), {})

merge_enrollment_auto_consistency(r) ==
  LET arms == (UNION {Arms(r[s], {"no_auto"}) : s \in Names(r)}) \intersect Names(r)
  IN Of(r, {"auto"}) \intersect _bfs_capped(_build_step_graph(r), arms, {})

\* The first step nothing leads to, else the first step.
Entry(r) ==
  LET graph == _build_step_graph(r)
      free == {s \in Names(r) : \A p \in Names(r) : s \notin graph[p]}
  IN IF free = {} THEN 1 ELSE CHOOSE s \in free : \A t \in free : s <= t

\* The facts capture-inversion-detection goes by.
Known(r) == _bfs_with_facts(r, _build_step_graph(r), Entry(r))

\* The search adds to the set it iterates over when a step leads to itself by a
\* condition not known there: it raises, and the recipe is not loaded.
FactSearchRaises(r) ==
  LET graph == _build_step_graph(r)
  IN \E s \in _bfs_capped(graph, {Entry(r)}, {}) :
       s \in graph[s] /\ ~(_edge_fact(r, s, s) \subseteq Known(r)[s])

\* Arguments are read, and so is the variable of a condition.
Reads(t) == t.reads \union (IF Arms(t, {"x1", "x2"}) # {} THEN {"x"} ELSE {})

\* A step with conditions is taken to consume whatever it captures.
detect_dead_outputs(r) ==
  LET graph == _build_step_graph(r)
      dead(s) == {v \in r[s].capture : \A t \in bfs_reachable(graph, s) : v \notin Reads(r[t])}
  IN UNION {{<<s, v>> : v \in dead(s)} : s \in {t \in Names(r) : r[t].result = <<>>}}

\* Followed from on_success of merge_worktree only; a step that captures w again
\* is a barrier.
detect_ref_invalidations(r) ==
  LET graph == _build_step_graph(r)
      w == {s \in Names(r) : "w" \in r[s].capture}
  IN UNION {{s \in _bfs_capped(graph, {r[m].success}, w) \intersect (Names(r) \ {m}) :
               "w" \in r[s].reads} :
            m \in {s \in Of(r, {"merge"}) : w # {} /\ r[s].success \in Names(r)}}

----------------------------------------------------------------------------
(* unbounded-cycle                                                          *)

FailTargets(t) == {t.failure, t.exhausted, t.limit} \ {None}

\* A run_python or wait_for_ci step of the cycle routes a result out of it.
HasResultExit(r, cycle) ==
  \E s \in cycle : r[s].is = "guard" /\ Targets(r[s]) \ cycle # {}

Retrying(r, cycle) ==
  {s \in cycle : r[s].retries > 0 /\ r[s].is \in SKILL_TOOLS /\ r[s].exhausted \notin cycle}

\* A retrying step ends the cycle when what it goes on to, failing aside, neither
\* stays in the cycle nor leads back into it.
HasRetryExit(r, graph, cycle) ==
  LET ways == UNION {graph[s] \ FailTargets(r[s]) : s \in Retrying(r, cycle)}
  IN /\ Retrying(r, cycle) # {}
     /\ ways \intersect cycle = {}
     /\ _bfs_capped(graph, ways, {}) \intersect cycle = {}

\* Mutant: a cycle that a failure may leave is let pass.
BoundedByFailure(r, graph, cycle) == \E s \in cycle : r[s].failure \notin cycle

Bounded(r, graph, cycle) == HasResultExit(r, cycle) \/ HasRetryExit(r, graph, cycle)

Search == [path : Seq(Nat), next : SUBSET Nat, visited : SUBSET Nat, stack : SUBSET Nat,
           seen : SUBSET SUBSET Nat, reported : SUBSET SUBSET Nat]

Enter(graph, st, to) ==
  [st EXCEPT !.path = Append(@, to), !.next = graph[to], !.visited = @ \union {to}, !.stack = @ \union {to}]

\* The depth-first search.  A cycle already reported or bounded ends the visit of
\* the node it was found at, the node's other neighbours unseen.
Dfs(r, graph) ==
  LET dfs[st \in Search] ==
        LET node == st.path[Len(st.path)]
            to == CHOOSE t \in st.next : \A u \in st.next : t <= u
            from == CHOOSE k \in DOMAIN st.path : to \in st.stack => st.path[k] = to
            cycle == {st.path[i] : i \in from..Len(st.path)}
            rest == [st EXCEPT !.next = @ \ {to}]
            inner == dfs[Enter(graph, st, to)]
            leave(over) == [over EXCEPT !.stack = @ \ {node}]
            now == [rest EXCEPT !.seen = @ \union {cycle}]
            reported == [now EXCEPT !.reported = @ \union {cycle}]
        IN CASE st.next = {} -> leave(st)
             [] to \notin st.visited -> dfs[[inner EXCEPT !.path = st.path, !.next = rest.next]]
             [] to \notin st.stack -> dfs[rest]
             [] cycle \in st.seen -> leave(st)
             [] Bounded(r, graph, cycle) -> leave(now)
             [] Retrying(r, cycle) # {} -> leave(reported)
             [] OTHER -> dfs[reported]
  IN dfs

\* The cycles that are reported, from every step not visited yet.
unbounded_cycle(r) ==
  LET graph == _build_step_graph(r)
      from[n \in Nat] ==
        IF n = 0 THEN [path |-> <<>>, next |-> {}, visited |-> {}, stack |-> {}, seen |-> {}, reported |-> {}]
        ELSE LET st == [from[n - 1] EXCEPT !.path = <<>>]
             IN IF n \in st.visited THEN st ELSE Dfs(r, graph)[Enter(graph, st, n)]
  IN from[Len(r)].reported

----------------------------------------------------------------------------

\* validate_recipe_structure: routes lead somewhere, on_result and on_success
\* exclude each other, and a reference follows its capture in declaration order.
validate_recipe_structure(r) ==
  \A s \in Names(r) : LET t == r[s] IN
    /\ {t.success, t.failure, t.limit} \subseteq Names(r) \union {Done, None}
    /\ t.exhausted \in Names(r) \union {Done, Escalate}
    /\ Targets(t) \subseteq Names(r) \union {Done}
    /\ t.result # <<>> => t.success = None
    /\ t.is = "confirm" => t.success # None /\ t.failure # None
    /\ t.reads \subseteq UNION {r[p].capture : p \in {q \in Names(r) : q < s}}
=============================================================================
