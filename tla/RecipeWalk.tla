----------------------------- MODULE RecipeWalk -----------------------------
(***************************************************************************)
(* What an orchestrator does with a recipe the static checks have seen: it *)
(* follows the routes of the steps, by what each call answers, and skips   *)
(* the steps whose ingredient is false.  The properties say what a rule's  *)
(* silence is worth.  Steps, tools and checks are those of RecipeGraph.    *)
(***************************************************************************)
EXTENDS RecipeGraph

CONSTANTS
  Given(_),    \* the recipes walked
  GuardCap     \* the iterations a check_loop_iteration step allows

ASSUME WalkAssumption == GuardCap \in Nat \ {0}

VARIABLES
  recipe,   \* the steps
  found,    \* what each rule reports, once validated
  off,      \* the steps whose skip_when_false ingredient is false
  at,       \* the step, or Done, Unread, Halted
  tries,    \* stale retries the visit has left
  ctx,      \* the context: w a worktree, x a value, who captured each, auto-merge
  log       \* what the walk has done

walkVars == <<recipe, found, off, at, tries, ctx, log>>

Unread == -3
Halted == -4     \* a missing route: the orchestrator stops and reports
Over == {Done, Escalate, Halted}

OneShot == {"implement"}    \* skills that create a worktree

WalkStart ==
  /\ off \in SUBSET {s \in Names(recipe) : recipe[s].skip}
  /\ found = [push |-> {}, publish |-> {}, release |-> {}, auto |-> {}, waypoint |-> {}, dead |-> {},
               stale |-> {}, cycles |-> {}, known |-> [s \in Names(recipe) |-> {}]]
  /\ at = Unread /\ tries = 0
  /\ ctx = [w |-> "unset", x |-> 0, by |-> [v \in {"w", "x"} |-> None], auto |-> "unknown"]
  /\ log = [from |-> None, hops |-> 0, blind |-> FALSE, ran |-> {}, again |-> FALSE, failed |-> {},
            passes |-> 0, timedOut |-> FALSE, noAuto |-> FALSE, reviewed |-> FALSE]

WalkInit == Given(recipe) /\ IsRecipe(recipe) /\ WalkStart

\* What the rules report of a recipe.
Findings(r) ==
  [push |-> push_before_audit(r), publish |-> merge_base_unpublished(r),
   release |-> release_issue_on_unconfirmed_merge(r), auto |-> merge_enrollment_auto_consistency(r),
   waypoint |-> review_loop_waypoint_guard(r), dead |-> detect_dead_outputs(r),
   stale |-> detect_ref_invalidations(r), cycles |-> unbounded_cycle(r), known |-> Known(r)]

\* Loading runs every rule; what they report stops nothing.
load_and_validate ==
  /\ at = Unread /\ validate_recipe_structure(recipe) /\ ~FactSearchRaises(recipe)
  /\ found' = Findings(recipe) /\ at' = 1 /\ tries' = recipe[1].retries
  /\ UNCHANGED <<recipe, off, ctx, log>>

step == recipe[at]
Walking == at > 0
Running == Walking /\ at \notin off

Tries(s) == IF s \notin Names(recipe) THEN 0
            ELSE IF recipe[s].is \in OneShot THEN 1 ELSE recipe[s].retries

\* The walk leaves the step it has run for another; `how` is what the call answered.
Leave(to, how, logged) ==
  /\ at' = IF to = None THEN Halted ELSE to
  /\ tries' = Tries(to)
  /\ log' = [logged EXCEPT !.from = at, !.hops = 0, !.ran = @ \union {at}, !.again = @ \/ (at \in log.ran),
               !.failed = IF how = "failed" THEN @ \union {at} ELSE @ \ {at},
               !.reviewed = how = "ok" /\ step.is # "review_loop" /\ (@ \/ step.is = "review")]
  /\ UNCHANGED <<recipe, found, off>>

\* A step that is off is bypassed; two in a row, or the entry, have no bypass edge.
Skip ==
  /\ Walking /\ at \in off
  /\ \E to \in Targets(step) \union ({step.success} \ {None}) : at' = to /\ tries' = Tries(to)
  /\ log' = [log EXCEPT !.hops = IF @ = 2 THEN 2 ELSE @ + 1, !.blind = @ \/ (log.hops > 0) \/ (log.from = None)]
  /\ UNCHANGED <<recipe, found, off, ctx>>

\* What a call that succeeds leaves in the context.
Captured(value) ==
  [w |-> IF "w" \in step.capture THEN "live" ELSE IF step.is = "merge" /\ ctx.w = "live" THEN "gone" ELSE ctx.w,
   x |-> IF "x" \in step.capture THEN value ELSE ctx.x,
   by |-> [v \in {"w", "x"} |-> IF v \in step.capture THEN at ELSE ctx.by[v]],
   auto |-> ctx.auto]

Succeed ==
  /\ Running /\ step.is \in Tools /\ step.result = <<>>
  /\ \E value \in 1..2 : ctx' = Captured(value)
  /\ Leave(step.success, "ok", log)

\* The first condition that the answer meets; none may.  A guard that has allowed
\* its iterations is spent.
First(answer, c) ==
  LET holds(when) == \/ when \in {"any", answer}
                     \/ when = "x1" /\ c.x = 1
                     \/ when = "x2" /\ c.x = 2
                     \/ when = "no_auto" /\ c.auto = "no"
                     \/ when = "spent" /\ log.passes >= GuardCap
      met == {i \in DOMAIN step.result : holds(step.result[i].when)}
  IN IF met = {} THEN None ELSE step.result[CHOOSE i \in met : \A j \in met : i <= j].to

\* A condition that asks for auto-merge is told whether the repository has it.
Asked(c, auto) == [c EXCEPT !.auto = IF Arms(step, {"no_auto"}) = {} THEN @ ELSE auto]

Answered(answer, c) ==
  /\ ctx' = c
  /\ Leave(First(answer, c), "ok",
       [log EXCEPT !.timedOut = @ \/ (answer = "timeout"),
          !.noAuto = @ \/ (c.auto = "no" /\ First(answer, c) \in Arms(step, {"no_auto"})),
          !.passes = IF step.is = "guard" /\ @ < GuardCap THEN @ + 1 ELSE @])

Judged ==
  /\ Running /\ step.result # <<>> /\ step.is \in Tools \union {"route"}
  /\ \E value \in 1..2, answer \in {"ok"} \union (IF step.is = "wait" THEN {"timeout"} ELSE {}),
        auto \in {"yes", "no"} :
       /\ ctx.auto # "unknown" => auto = ctx.auto
       /\ step.is = "route" /\ step.failure # None => First(answer, Asked(Captured(value), auto)) # None
       /\ Answered(answer, Asked(Captured(value), auto))

\* No condition of a route step is met: nothing has been called, and it goes on by its on_failure.
RouteFails ==
  /\ Running /\ step.is = "route" /\ step.failure # None
  /\ \E auto \in {"yes", "no"} :
       /\ ctx.auto # "unknown" => auto = ctx.auto
       /\ First("ok", Asked(ctx, auto)) = None /\ ctx' = Asked(ctx, auto)
  /\ Leave(step.failure, "failed", log)

\* success: false, an error that no result describes.
Fail ==
  /\ Running /\ step.is \in Tools
  /\ Leave(step.failure, "failed", [log EXCEPT !.timedOut = @ \/ (step.is = "wait")])
  /\ UNCHANGED ctx

\* The context is exhausted, or partial progress was confirmed.
ContextLimit ==
  /\ Running /\ step.is \in SKILL_TOOLS /\ step.limit # None
  /\ Leave(step.limit, "failed", log) /\ UNCHANGED ctx

\* Only a stale session consumes retries.  A worktree skill has one, and fails.
Stale ==
  /\ Running /\ step.is \in SKILL_TOOLS
  /\ IF tries > 0 THEN tries' = tries - 1 /\ UNCHANGED <<recipe, found, off, at, log>>
     ELSE Leave(IF step.is \in OneShot THEN step.failure ELSE step.exhausted, "failed", log)
  /\ UNCHANGED ctx

Confirm ==
  /\ Running /\ step.is = "confirm"
  /\ Leave(step.success, "ok", log) \/ Leave(step.failure, "failed", log)
  /\ UNCHANGED ctx

Stop ==
  /\ Running /\ step.is = "stop" /\ Leave(Done, "ok", log) /\ UNCHANGED ctx

Follow == Skip \/ Succeed \/ Judged \/ RouteFails \/ Fail \/ ContextLimit \/ Stale \/ Confirm \/ Stop

WalkNext == load_and_validate \/ Follow

\* An orchestrator follows the routes until they end.
WalkSpec == WalkInit /\ [][WalkNext]_walkVars /\ WF_walkVars(Follow)

----------------------------------------------------------------------------

WalkTypeOK ==
  /\ IsRecipe(recipe) /\ off \subseteq Names(recipe)
  /\ at \in Names(recipe) \union Over \union {Unread} /\ tries \in Nat
  /\ found.push \union found.publish \union found.stale \subseteq Names(recipe)
  /\ ctx.w \in {"unset", "live", "gone"} /\ ctx.x \in 0..2 /\ ctx.auto \in {"unknown", "yes", "no"}
  /\ log.ran \subseteq Names(recipe) /\ log.failed \subseteq log.ran /\ log.passes \in 0..GuardCap

\* Every move of a walk, over at most one skipped step, is an edge of the graph the
\* rules search: an orchestrator goes no way that they did not look at.
MovesAreEdges ==
  Running /\ log.from > 0 /\ log.hops <= 1 => at \in _build_step_graph(recipe)[log.from]

\* push-before-audit is silent: nothing is pushed before an audit has been run.
PushAudited ==
  Running /\ step.is = "push" /\ found.push = {} /\ ~log.blind
    => Of(recipe, {"audit"}) \intersect log.ran # {}

\* merge-base-unpublished is silent: where nothing is skipped, the base a worktree
\* is merged into has been pushed or published.
MergePublished ==
  Running /\ step.is = "merge" /\ found.publish = {} /\ off = {}
    => Of(recipe, {"push", "publish"}) \intersect log.ran # {}

\* release-issue-on-unconfirmed-merge is silent, and each wait names its timeout: an
\* issue is not released after a wait for the merge has timed out or failed.
NoReleaseAfterTimeout ==
  Running /\ step.is = "release" /\ found.release = {}
      /\ (\A s \in Of(recipe, {"wait"}) : recipe[s].result # <<>> => recipe[s].result[1].when = "timeout")
    => ~log.timedOut

\* merge-enrollment-auto-consistency is silent: auto-merge is not asked for once a
\* route was taken because the repository has none.
NoAutoWhenUnavailable ==
  Running /\ step.is = "auto" /\ found.auto = {} => ~log.noAuto

\* review-loop-waypoint-guard is silent: verdicts alone do not lead from a review to
\* the CI event check past check_review_loop.
ReviewsAreCounted ==
  Running /\ step.is = "ci_event" /\ found.waypoint = {} /\ off = {} => ~log.reviewed

\* A capture reported dead is never read, by an argument or a condition, while it is
\* the current one.
DeadIsDead ==
  Running => \A v \in Reads(step) : <<ctx.by[v], v>> \notin found.dead

\* REF_INVALIDATED is silent on this step: it does not use a worktree that a merge,
\* left by on_success, has removed, unless a step to renew it has failed; a confirm
\* step renews nothing.
NoStaleRef ==
  Running /\ "w" \in step.reads /\ at \notin found.stale /\ step.is # "merge"
      /\ (\A s \in Of(recipe, {"merge"}) : recipe[s].result = <<>>)
      /\ (\A s \in Of(recipe, {"confirm"}) : "w" \notin recipe[s].capture)
      /\ (\A s \in log.failed : "w" \notin recipe[s].capture) /\ off = {}
    => ctx.w # "gone"

\* unbounded-cycle is silent and no step retries or counts: no step is run twice.
SilenceIsAcyclic ==
  (at # Unread /\ found.cycles = {} /\ ~log.blind
     /\ \A s \in Names(recipe) : recipe[s].is # "guard" /\ recipe[s].retries = 0) => ~log.again

\* A fact known at a step holds there, in a recipe that nothing leads back to the
\* start of, that captures x there or nowhere, and has one way between any two steps.
FactsHold ==
  (Running /\ off = {}
     /\ \A s \in Names(recipe) :
          /\ 1 \notin _build_step_graph(recipe)[s] /\ ("x" \in recipe[s].capture => s = 1)
          /\ \A i, j \in DOMAIN recipe[s].result : recipe[s].result[i].to = recipe[s].result[j].to => i = j
          /\ {recipe[s].failure, recipe[s].limit, recipe[s].exhausted} \intersect Targets(recipe[s]) = {})
  => /\ "x1" \in found.known[at] => ctx.x = 1
     /\ "x2" \in found.known[at] => ctx.x = 2

\* rules_graph.py:29 calls the cycles it reports "Routing cycle with no structural
\* termination guarantee", and at :150 it says of the ones it lets pass "Truly exits
\* - cycle is bounded": the walk of a recipe it is silent about ends.
SilenceIsBounded == (at > 0 /\ found.cycles = {} /\ off = {}) ~> (at \in Over)

\* Where the rules about the order of steps are silent, every walk keeps the order:
\* audited before pushed, published before merged, not released after a timeout, no
\* auto-merge where there is none, a review counted; and walks move along edges.
RoutesHold ==
  /\ WalkTypeOK /\ MovesAreEdges /\ PushAudited /\ MergePublished /\ NoReleaseAfterTimeout
  /\ NoAutoWhenUnavailable /\ ReviewsAreCounted

\* What the analysis says of values is so on every walk: a dead capture is not read,
\* a worktree reference is not stale, a known fact holds.
ValuesHold == DeadIsDead /\ NoStaleRef /\ FactsHold
=============================================================================
