---------------------------- MODULE RecipeProofs ----------------------------
(***************************************************************************)
(* What a rule's silence is worth, for every recipe: walks keep the order  *)
(* of steps, and what the analysis says of values is so.                   *)
(*                                                                         *)
(* One lemma says what a step that is left leaves behind.  Each rule then  *)
(* has an invariant of its own: as long as what the rule asks for has not  *)
(* happened, the walk is at a step the rule's search reaches.              *)
(***************************************************************************)
EXTENDS RecipeWalk, TLAPS, FiniteSetTheorems, SequenceTheorems, WellFoundedInduction

(* Searches *)

\* A search reaches the steps it starts from.
LEMMA ReachStarts ==
  ASSUME NEW graph, NEW starts, NEW barriers, NEW t \in DOMAIN graph, t \in starts
  PROVE  t \in _bfs_capped(graph, starts, barriers)
BY DEF _bfs_capped

\* What an edge leads to from a step reached is reached, unless the step is a barrier.
LEMMA ReachEdges ==
  ASSUME NEW graph, NEW starts, NEW barriers, NEW s \in _bfs_capped(graph, starts, barriers),
         s \notin barriers, NEW t \in DOMAIN graph, t \in graph[s]
  PROVE  t \in _bfs_capped(graph, starts, barriers)
BY DEF _bfs_capped

LEMMA ReachSteps ==
  ASSUME NEW graph, NEW starts, NEW barriers
  PROVE  _bfs_capped(graph, starts, barriers) \subseteq DOMAIN graph
BY DEF _bfs_capped

\* A non-empty set of positions has a first one: initial segments are well-founded by inclusion.
LEMMA Foremost ==
  ASSUME NEW n \in Nat, NEW E \in SUBSET (1..n), E # {}
  PROVE  \E i \in E : \A j \in E : i <= j
<1> DEFINE T == {1..i : i \in E}
           R == StrictSubsetOrdering(1..n)
<1>1. \A i \in E : 1..i \subseteq 1..n
  OBVIOUS
<1>2. IsFiniteSet(1..n) /\ T \subseteq FiniteSubsetsOf(1..n) /\ T # {}
  <2>1. IsFiniteSet(1..n)
    BY FS_Interval
  <2>2. T \subseteq FiniteSubsetsOf(1..n)
    BY <1>1, <2>1, FS_Subset DEF FiniteSubsetsOf
  <2> QED BY <2>1, <2>2
<1>3. \E x \in T : \A y \in T : ~(<<y, x>> \in R)
  <2> HIDE DEF T, R
  <2>1. IsWellFoundedOn(R, FiniteSubsetsOf(1..n))
    BY <1>2, FS_StrictSubsetOrderingWellFounded DEF R
  <2> QED BY <1>2, <2>1, WFMin
<1>4. PICK i \in E : \A j \in E : ~(<<1..j, 1..i>> \in R)
  BY <1>3
<1>5. \A j \in E : ~(1..j \subseteq 1..i /\ 1..j # 1..i)
  BY <1>1, <1>4 DEF StrictSubsetOrdering
<1>6. ASSUME NEW j \in E, j < i PROVE FALSE
  <2>1. 1..j \subseteq 1..i /\ i \in 1..i /\ i \notin 1..j
    BY <1>6
  <2> QED BY <2>1, <1>5
<1> QED BY <1>6

-----------------------------------------------------------------------------
(* The state of a walk *)

Logs ==
  [from : Names(recipe) \union {None}, hops : 0..2, blind : BOOLEAN, ran : SUBSET Names(recipe),
   again : BOOLEAN, failed : SUBSET Names(recipe), passes : 0..GuardCap, timedOut : BOOLEAN,
   noAuto : BOOLEAN, reviewed : BOOLEAN]

Contexts ==
  [w : {"unset", "live", "gone"}, x : 0..2, by : [{"w", "x"} -> Names(recipe) \union {None}],
   auto : {"unknown", "yes", "no"}]

\* A recipe, where the walk is in it, and what has been said of it.
WalkTyped ==
  /\ IsRecipe(recipe) /\ off \subseteq {s \in Names(recipe) : recipe[s].skip}
  /\ at \in Names(recipe) \union Over \union {Unread} /\ tries \in Nat
  /\ ctx \in Contexts /\ log \in Logs /\ log.failed \subseteq log.ran
  /\ IF at = Unread
       THEN /\ log.from = None /\ log.hops = 0 /\ ~log.blind /\ log.ran = {} /\ ~log.timedOut /\ ~log.noAuto
            /\ ~log.reviewed /\ ctx.w = "unset" /\ ctx.x = 0 /\ ctx.by = [v \in {"w", "x"} |-> None]
            /\ found.push \union found.publish \union found.stale = {}
       ELSE validate_recipe_structure(recipe) /\ found = Findings(recipe)

\* What a call may leave in the context.
Captures ==
  /\ ctx'.w = IF "w" \in step.capture THEN "live" ELSE IF step.is = "merge" /\ ctx.w = "live" THEN "gone" ELSE ctx.w
  /\ "x" \notin step.capture => ctx'.x = ctx.x
  /\ ctx'.by = [v \in {"w", "x"} |-> IF v \in step.capture THEN at ELSE ctx.by[v]]

\* What the log says once a step has been run and left.
LeftLog(ok) ==
  /\ UNCHANGED <<recipe, found, off>> /\ log'.from = at /\ log'.hops = 0 /\ log'.blind = log.blind
  /\ log'.ran = log.ran \union {at}
  /\ log'.failed = IF ok THEN log.failed \ {at} ELSE log.failed \union {at}
  /\ log'.reviewed <=> ok /\ step.is # "review_loop" /\ (log.reviewed \/ step.is = "review")

LeftContext(ok) ==
  \/ step.is = "confirm" /\ ctx' = ctx
  \/ step.is = "stop" /\ ctx' = ctx /\ ~Walking'
  \/ ok /\ step.is \in Tools \union {"route"} /\ Captures
  \/ ~ok /\ ctx'.w = ctx.w /\ ctx'.x = ctx.x /\ ctx'.by = ctx.by

\* The walk goes on along a declared edge, and what it may have noted on the way.
LeftAlong(ok) ==
  Walking' =>
    /\ at' \in Declared(recipe)[at]
    /\ IF ok THEN at' \in {step.success} \union Targets(step)
             ELSE at' \in {step.failure, step.limit, step.exhausted}
    /\ log'.timedOut => log.timedOut
         \/ (step.is = "wait" /\ (at' = step.failure \/ (step.result # <<>> /\ at' = First("timeout", ctx'))))
    /\ log'.noAuto => log.noAuto \/ at' \in Arms(step, {"no_auto"})
    /\ ok /\ step.result # <<>> => \E answer \in {"ok", "timeout"} : at' = First(answer, ctx')

Left(ok) == Running /\ LeftLog(ok) /\ LeftContext(ok) /\ LeftAlong(ok)

\* A stale session is started again.
Stays == UNCHANGED <<recipe, found, off, at, ctx, log>>

LEMMA Positions == ASSUME WalkTyped PROVE Names(recipe) = 1..Len(recipe) /\ Len(recipe) \in Nat \ {0}
BY DEF WalkTyped, IsRecipe, Names

LEMMA AtStep == ASSUME WalkTyped, Walking PROVE at \in Names(recipe) /\ at # Unread
BY Positions DEF WalkTyped, Walking, Over, Unread, Done, Escalate, Halted

LEMMA StepTypes ==
  ASSUME WalkTyped, NEW s \in Names(recipe)
  PROVE  /\ recipe[s].is \in Tools \union Actions
         /\ {recipe[s].success, recipe[s].failure, recipe[s].limit, recipe[s].exhausted} \subseteq -2..Len(recipe)
         /\ recipe[s].retries \in Nat /\ recipe[s].skip \in BOOLEAN
         /\ recipe[s].result \in Seq([when : Whens, to : 0..Len(recipe)])
BY DEF WalkTyped, IsRecipe, Names

\* The arm that is taken is the first whose condition holds.
LEMMA FirstTaken ==
  ASSUME WalkTyped, Walking, NEW answer \in {"ok", "timeout"}, NEW c
  PROVE  \/ First(answer, c) = None
         \/ \E i \in DOMAIN step.result : /\ First(answer, c) = step.result[i].to
                                          /\ step.result[i].when = "x1" => c.x = 1
                                          /\ step.result[i].when = "x2" => c.x = 2
<1> DEFINE holds(when) == \/ when \in {"any", answer}
                          \/ when = "x1" /\ c.x = 1
                          \/ when = "x2" /\ c.x = 2
                          \/ when = "no_auto" /\ c.auto = "no"
                          \/ when = "spent" /\ log.passes >= GuardCap
           met == {i \in DOMAIN step.result : holds(step.result[i].when)}
           one == CHOOSE i \in met : \A j \in met : i <= j
<1>1. at \in Names(recipe)
  BY AtStep
<1>2. step.result \in Seq([when : Whens, to : 0..Len(recipe)])
  BY <1>1, StepTypes DEF step
<1>3. CASE met = {}
  BY <1>3 DEF First
<1>4. CASE met # {}
  <2>1. Len(step.result) \in Nat /\ met \subseteq 1..Len(step.result)
    BY <1>2
  <2>2. \E i \in met : \A j \in met : i <= j
    BY <1>4, <2>1, Foremost
  <2>3. one \in met
    <3> HIDE DEF met
    <3> QED BY <2>2
  <2>4. First(answer, c) = step.result[one].to
    BY <1>4 DEF First
  <2>5. holds(step.result[one].when) /\ one \in DOMAIN step.result
    BY <2>3
  <2>6. (step.result[one].when = "x1" => c.x = 1) /\ (step.result[one].when = "x2" => c.x = 2)
    <3> HIDE DEF one
    <3> QED BY <2>5
  <2> QED BY <2>4, <2>5, <2>6
<1> QED BY <1>3, <1>4

LEMMA FirstIsTarget ==
  ASSUME WalkTyped, Walking, NEW answer \in {"ok", "timeout"}, NEW c
  PROVE  First(answer, c) \in Targets(step) \union {None}
<1>1. CASE First(answer, c) = None
  BY <1>1
<1>2. ASSUME NEW i \in DOMAIN step.result, First(answer, c) = step.result[i].to
      PROVE  First(answer, c) \in Targets(step)
  <2>1. step.result \in Seq([when : Whens, to : 0..Len(recipe)])
    BY StepTypes, AtStep DEF step
  <2>2. step.result[i] \in [when : Whens, to : 0..Len(recipe)]
    BY <1>2, <2>1, ElementOfSeq, DOMAIN step.result = 1..Len(step.result)
  <2>3. step.result[i].when \in Whens
    BY <2>2
  <2> QED BY <1>2, <2>3 DEF Targets, Arms
<1> QED BY <1>1, <1>2, FirstTaken

\* A wait whose first condition is the timeout goes where that says.
LEMMA TimeoutTaken ==
  ASSUME WalkTyped, Walking, step.result # <<>>, step.result[1].when = "timeout", NEW c
  PROVE  First("timeout", c) \in Arms(step, {"timeout"})
<1> DEFINE holds(when) == \/ when \in {"any", "timeout"}
                          \/ when = "x1" /\ c.x = 1
                          \/ when = "x2" /\ c.x = 2
                          \/ when = "no_auto" /\ c.auto = "no"
                          \/ when = "spent" /\ log.passes >= GuardCap
           met == {i \in DOMAIN step.result : holds(step.result[i].when)}
           one == CHOOSE i \in met : \A j \in met : i <= j
<1>1. step.result \in Seq([when : Whens, to : 0..Len(recipe)])
  BY StepTypes, AtStep DEF step
<1>2. Len(step.result) \in Nat \ {0} /\ DOMAIN step.result = 1..Len(step.result)
  BY <1>1
<1>3. 1 \in met /\ met \subseteq 1..Len(step.result)
  BY <1>2
<1>4. one = 1
  <2>1. \A i \in met : (\A j \in met : i <= j) <=> i = 1
    BY <1>2, <1>3
  <2> HIDE DEF met
  <2> QED BY <1>3, <2>1
<1>5. First("timeout", c) = step.result[1].to
  <2>1. First("timeout", c) = step.result[one].to
    BY <1>3 DEF First
  <2> QED BY <1>4, <2>1
<1> QED BY <1>2, <1>5 DEF Arms

-----------------------------------------------------------------------------
(* What a step does *)

\* Every way on from a step is a declared edge, once the recipe is validated.
LEMMA DeclaredEdges ==
  ASSUME WalkTyped, at # Unread, NEW s \in Names(recipe), NEW t \in Names(recipe),
         \/ t \in Targets(recipe[s]) \union {recipe[s].success, recipe[s].failure, recipe[s].limit}
         \/ t = recipe[s].exhausted /\ recipe[s].is \notin Actions
  PROVE  t \in Declared(recipe)[s]
<1>1. t # None
  BY Positions DEF None
<1>2. \E e \in _extract_routing_edges(recipe[s]) :
        e[2] = t /\ (e[1] = "exhausted" => recipe[s].is \notin Actions)
  <2>1. CASE t \in Targets(recipe[s])
    <3>1. <<"result_condition", t>> \in _extract_routing_edges(recipe[s])
      BY <2>1 DEF _extract_routing_edges
    <3> QED BY <3>1
  <2>2. CASE t = recipe[s].success
    <3>1. <<"success", t>> \in _extract_routing_edges(recipe[s])
      BY <1>1, <2>2 DEF _extract_routing_edges
    <3> QED BY <3>1
  <2>3. CASE t = recipe[s].failure
    <3>1. <<"failure", t>> \in _extract_routing_edges(recipe[s])
      BY <1>1, <2>3 DEF _extract_routing_edges
    <3> QED BY <3>1
  <2>4. CASE t = recipe[s].limit
    <3>1. <<"context_limit", t>> \in _extract_routing_edges(recipe[s])
      BY <1>1, <2>4 DEF _extract_routing_edges
    <3> QED BY <3>1
  <2>5. CASE t = recipe[s].exhausted /\ recipe[s].is \notin Actions
    <3>1. <<"exhausted", t>> \in _extract_routing_edges(recipe[s])
      BY <1>1, <2>5 DEF _extract_routing_edges
    <3> QED BY <2>5, <3>1
  <2> QED BY <2>1, <2>2, <2>3, <2>4, <2>5
<1> QED BY <1>2 DEF Declared

LEMMA GraphHasDeclared ==
  ASSUME NEW s \in Names(recipe)
  PROVE  Declared(recipe)[s] \subseteq _build_step_graph(recipe)[s]
BY DEF _build_step_graph

\* What leaving a step does to the log.
LEMMA LeaveLogs ==
  ASSUME WalkTyped, Running, NEW to, NEW how \in {"ok", "failed"}, NEW logged \in Logs, Leave(to, how, logged),
         logged.ran = log.ran, logged.failed = log.failed, logged.reviewed = log.reviewed, logged.blind = log.blind
  PROVE  /\ UNCHANGED <<recipe, found, off>> /\ at' = IF to = None THEN Halted ELSE to
         /\ log'.from = at /\ log'.hops = 0 /\ log'.blind = log.blind /\ log'.ran = log.ran \union {at}
         /\ log'.failed = IF how = "failed" THEN log.failed \union {at} ELSE log.failed \ {at}
         /\ log'.reviewed <=> how = "ok" /\ step.is # "review_loop" /\ (log.reviewed \/ step.is = "review")
         /\ log'.timedOut = logged.timedOut /\ log'.noAuto = logged.noAuto
         /\ log' \in Logs' /\ tries' \in Nat
<1>1. at \in Names(recipe)
  BY AtStep DEF Running
<1>2. tries' \in Nat
  BY StepTypes DEF Leave, Tries
<1>3. log.failed \in SUBSET Names(recipe) /\ log.ran \in SUBSET Names(recipe) /\ log.blind \in BOOLEAN
  BY DEF WalkTyped, Logs
<1>4. recipe' = recipe /\ Logs' = Logs
  BY DEF Leave, Logs
<1> DEFINE failed == IF how = "failed" THEN log.failed \union {at} ELSE log.failed \ {at}
           again == logged.again \/ at \in log.ran
           reviewed == how = "ok" /\ step.is # "review_loop" /\ (log.reviewed \/ step.is = "review")
           left == [logged EXCEPT !.from = at, !.hops = 0, !.ran = log.ran \union {at}, !.again = again,
                      !.failed = failed, !.reviewed = reviewed]
<1>5. log' = left
  BY DEF Leave
<1>6. failed \subseteq Names(recipe) /\ again \in BOOLEAN /\ reviewed \in BOOLEAN
  BY <1>1, <1>3
<1>7. log' \in Logs
  <2> HIDE DEF failed, again, reviewed
  <2>1. log' = [from |-> at, hops |-> 0, blind |-> logged.blind, ran |-> log.ran \union {at}, again |-> again,
                failed |-> failed, passes |-> logged.passes, timedOut |-> logged.timedOut,
                noAuto |-> logged.noAuto, reviewed |-> reviewed]
    BY <1>5 DEF Logs
  <2>2. logged.blind \in BOOLEAN /\ logged.passes \in 0..GuardCap /\ logged.timedOut \in BOOLEAN /\ logged.noAuto \in BOOLEAN
    BY DEF Logs
  <2> QED BY <1>1, <1>3, <1>6, <2>1, <2>2 DEF Logs
<1>8. /\ log'.from = at /\ log'.hops = 0 /\ log'.blind = log.blind /\ log'.ran = log.ran \union {at}
      /\ log'.failed = failed /\ log'.reviewed = reviewed
      /\ log'.timedOut = logged.timedOut /\ log'.noAuto = logged.noAuto
  <2> HIDE DEF failed, again, reviewed
  <2> QED BY <1>5 DEF Logs
<1> QED BY <1>2, <1>4, <1>7, <1>8 DEF Leave

\* Where a validated step may lead.
LEMMA Ways ==
  ASSUME WalkTyped, Walking
  PROVE  /\ {step.success, step.failure, step.limit} \subseteq Names(recipe) \union {Done, None}
         /\ step.exhausted \in Names(recipe) \union {Done, Escalate}
         /\ Targets(step) \subseteq Names(recipe) \union {Done}
         /\ step.result # <<>> => step.success = None
         /\ step.is = "confirm" => step.success # None
BY AtStep DEF WalkTyped, validate_recipe_structure, step

\* A walk that goes on is at a step.
LEMMA GoesOn ==
  ASSUME WalkTyped, NEW to \in Names(recipe) \union {Done, Escalate, None}, at' = IF to = None THEN Halted ELSE to
  PROVE  /\ at' \in (Names(recipe) \union Over) \ {Unread}
         /\ Walking' => at' = to /\ to \in Names(recipe)
BY Positions DEF Walking, Over, Unread, Done, Escalate, Halted, None

LEMMA LeaveTyped ==
  ASSUME WalkTyped, Running, NEW to \in Names(recipe) \union {Done, Escalate, None}, NEW how \in {"ok", "failed"},
         NEW logged \in Logs, Leave(to, how, logged), ctx' \in Contexts,
         logged.ran = log.ran, logged.failed = log.failed, logged.reviewed = log.reviewed, logged.blind = log.blind
  PROVE  WalkTyped'
<1>1. /\ UNCHANGED <<recipe, found, off>> /\ at' = IF to = None THEN Halted ELSE to
      /\ log'.ran = log.ran \union {at}
      /\ log'.failed = IF how = "failed" THEN log.failed \union {at} ELSE log.failed \ {at}
      /\ log' \in Logs' /\ tries' \in Nat
  BY LeaveLogs
<1>2. at' \in (Names(recipe) \union Over) \ {Unread}
  BY <1>1, GoesOn
<1>3. at # Unread
  BY AtStep DEF Running
<1>4. log'.failed \subseteq log'.ran
  BY <1>1 DEF WalkTyped
<1> QED BY <1>1, <1>2, <1>3, <1>4 DEF WalkTyped, Contexts

\* What a call that succeeds leaves in the context, with or without a look at auto-merge.
LEMMA CapturedContext ==
  ASSUME WalkTyped, Running, NEW value \in 1..2, NEW auto \in {"unknown", "yes", "no"}
  PROVE  LET c == [Captured(value) EXCEPT !.auto = auto]
         IN /\ c \in Contexts /\ Captured(value) \in Contexts
            /\ ctx' \in {c, Captured(value)} => Captures
<1>1. at \in Names(recipe)
  BY AtStep DEF Running
<1>2. ctx \in Contexts
  BY DEF WalkTyped
<1> DEFINE w == IF "w" \in step.capture THEN "live" ELSE IF step.is = "merge" /\ ctx.w = "live" THEN "gone" ELSE ctx.w
           x == IF "x" \in step.capture THEN value ELSE ctx.x
           by == [v \in {"w", "x"} |-> IF v \in step.capture THEN at ELSE ctx.by[v]]
<1>3. w \in {"unset", "live", "gone"} /\ x \in 0..2 /\ ctx.auto \in {"unknown", "yes", "no"}
  BY <1>2 DEF Contexts
<1>4. by \in [{"w", "x"} -> Names(recipe) \union {None}]
  BY <1>1, <1>2 DEF Contexts
<1>5. Captured(value) = [w |-> w, x |-> x, by |-> by, auto |-> ctx.auto]
  BY DEF Captured
<1>6. ("x" \notin step.capture => x = ctx.x)
  OBVIOUS
<1> HIDE DEF w, x, by
<1>7. [Captured(value) EXCEPT !.auto = auto] = [w |-> w, x |-> x, by |-> by, auto |-> auto]
  BY <1>5
<1>8. ctx' \in {[Captured(value) EXCEPT !.auto = auto], Captured(value)} => ctx'.w = w /\ ctx'.x = x /\ ctx'.by = by
  BY <1>5, <1>7
<1> QED BY <1>3, <1>4, <1>5, <1>6, <1>7, <1>8 DEF Contexts, Captures, w, x, by

LEMMA SucceedLeaves == ASSUME WalkTyped, Succeed PROVE WalkTyped' /\ Left(TRUE)
<1>1. Running /\ Walking /\ step.is \in Tools /\ step.result = <<>> /\ at \in Names(recipe) /\ at # Unread
  BY AtStep DEF Succeed, Running
<1>2. PICK value \in 1..2 : ctx' = Captured(value)
  BY DEF Succeed
<1>3. ctx.auto \in {"unknown", "yes", "no"} /\ log \in Logs
  BY DEF WalkTyped, Contexts
<1>4. ctx' \in Contexts /\ Captures
  BY <1>1, <1>2, <1>3, CapturedContext
<1>5. step.success \in Names(recipe) \union {Done, None}
  BY <1>1, Ways
<1>6. Leave(step.success, "ok", log)
  BY DEF Succeed
<1>7. WalkTyped'
  BY <1>1, <1>3, <1>4, <1>5, <1>6, LeaveTyped
<1>8. Walking' => at' = step.success /\ step.success \in Names(recipe)
  BY <1>1, <1>3, <1>5, <1>6, LeaveLogs, GoesOn
<1>9. Walking' => at' \in Declared(recipe)[at]
  BY <1>1, <1>8, DeclaredEdges DEF step
<1>10. /\ UNCHANGED <<recipe, found, off>> /\ log'.from = at /\ log'.hops = 0 /\ log'.blind = log.blind
       /\ log'.ran = log.ran \union {at}
       /\ log'.failed = log.failed \ {at}
       /\ log'.reviewed <=> step.is # "review_loop" /\ (log.reviewed \/ step.is = "review")
       /\ log'.timedOut = log.timedOut /\ log'.noAuto = log.noAuto
  BY <1>1, <1>3, <1>6, LeaveLogs
<1>11. LeftLog(TRUE)
  BY <1>10 DEF LeftLog
<1>12. LeftContext(TRUE)
  BY <1>1, <1>4 DEF LeftContext
<1>13. LeftAlong(TRUE)
  BY <1>1, <1>8, <1>9, <1>10 DEF LeftAlong
<1> QED BY <1>1, <1>7, <1>11, <1>12, <1>13 DEF Left

LEMMA JudgedLeaves == ASSUME WalkTyped, Judged PROVE WalkTyped' /\ Left(TRUE)
<1>1. /\ Running /\ Walking /\ step.is \in Tools \union {"route"} /\ step.result # <<>>
      /\ at \in Names(recipe) /\ at # Unread
  BY AtStep DEF Judged, Running
<1>2. PICK value \in 1..2, answer \in {"ok"} \union (IF step.is = "wait" THEN {"timeout"} ELSE {}), auto \in {"yes", "no"} :
        Answered(answer, Asked(Captured(value), auto))
  BY DEF Judged
<1> DEFINE context == Asked(Captured(value), auto)
           to == First(answer, context)
           met == log.timedOut \/ answer = "timeout"
           none == log.noAuto \/ (context.auto = "no" /\ to \in Arms(step, {"no_auto"}))
           passes == IF step.is = "guard" /\ log.passes < GuardCap THEN log.passes + 1 ELSE log.passes
           logged == [log EXCEPT !.timedOut = met, !.noAuto = none, !.passes = passes]
<1>3. ctx \in Contexts /\ log \in Logs
  BY DEF WalkTyped
<1>4. ctx' \in Contexts /\ Captures
  <2>1. Captured(value).auto = ctx.auto /\ ctx.auto \in {"unknown", "yes", "no"}
    BY <1>3 DEF Captured, Contexts
  <2>2. ctx' = [Captured(value) EXCEPT !.auto = IF Arms(step, {"no_auto"}) = {} THEN ctx.auto ELSE auto]
    BY <1>2, <2>1 DEF Answered, Asked
  <2>3. (IF Arms(step, {"no_auto"}) = {} THEN ctx.auto ELSE auto) \in {"unknown", "yes", "no"}
    BY <2>1
  <2> QED BY <1>1, <2>2, <2>3, CapturedContext
<1>5. answer \in {"ok", "timeout"} /\ (answer = "timeout" => step.is = "wait")
  BY <1>2
<1>6. to \in Targets(step) \union {None} /\ Targets(step) \subseteq Names(recipe) \union {Done}
  BY <1>1, <1>5, FirstIsTarget, Ways
<1>7. /\ logged \in Logs /\ logged.ran = log.ran /\ logged.failed = log.failed
      /\ logged.reviewed = log.reviewed /\ logged.blind = log.blind
      /\ logged.timedOut = met /\ logged.noAuto = none
  <2>2. met \in BOOLEAN /\ none \in BOOLEAN
    BY <1>3 DEF Logs
  <2>3. log.passes \in 0..GuardCap /\ GuardCap \in Nat
    BY <1>3, WalkAssumption DEF Logs
  <2>4. passes \in 0..GuardCap
    BY <2>3
  <2>5. logged = [log EXCEPT !.timedOut = met, !.noAuto = none, !.passes = passes]
    OBVIOUS
  <2> HIDE DEF context, to, met, none, passes, logged
  <2>6. log \in Logs
    BY <1>3
  <2> QED BY <2>2, <2>4, <2>5, <2>6 DEF Logs
<1>8. Leave(to, "ok", logged) /\ to = First(answer, ctx')
  BY <1>2 DEF Answered
<1> HIDE DEF to, logged
<1>9. WalkTyped'
  BY <1>1, <1>4, <1>6, <1>7, <1>8, LeaveTyped
<1>10. Walking' => at' = to /\ to \in Names(recipe) /\ to \in Targets(step)
  <2>1. at' = IF to = None THEN Halted ELSE to
    BY <1>1, <1>7, <1>8, LeaveLogs
  <2>2. None \notin Names(recipe)
    BY Positions DEF None
  <2> QED BY <1>6, <2>1, <2>2, GoesOn
<1>11. Walking' => at' \in Declared(recipe)[at]
  BY <1>1, <1>10, DeclaredEdges DEF step
<1>12. Walking' /\ log'.timedOut => log.timedOut \/ (step.is = "wait" /\ at' = First("timeout", ctx'))
  BY <1>1, <1>5, <1>7, <1>8, <1>10, LeaveLogs
<1>13. Walking' /\ log'.noAuto => log.noAuto \/ at' \in Arms(step, {"no_auto"})
  BY <1>1, <1>7, <1>8, <1>10, LeaveLogs
<1>14. Walking' => \E a \in {"ok", "timeout"} : at' = First(a, ctx')
  BY <1>5, <1>8, <1>10
<1>15. /\ UNCHANGED <<recipe, found, off>> /\ log'.from = at /\ log'.hops = 0 /\ log'.blind = log.blind
       /\ log'.ran = log.ran \union {at}
       /\ log'.failed = log.failed \ {at}
       /\ log'.reviewed <=> step.is # "review_loop" /\ (log.reviewed \/ step.is = "review")
  BY <1>1, <1>7, <1>8, LeaveLogs
<1>16. LeftLog(TRUE)
  BY <1>15 DEF LeftLog
<1>17. LeftContext(TRUE)
  BY <1>1, <1>4 DEF LeftContext
<1>18. LeftAlong(TRUE)
  BY <1>1, <1>10, <1>11, <1>12, <1>13, <1>14 DEF LeftAlong
<1> QED BY <1>1, <1>9, <1>16, <1>17, <1>18 DEF Left

LEMMA FailLeaves == ASSUME WalkTyped, Fail PROVE WalkTyped' /\ Left(FALSE)
<1>1. Running /\ Walking /\ step.is \in Tools /\ at \in Names(recipe) /\ at # Unread /\ ctx' = ctx
  BY AtStep DEF Fail, Running
<1>2. ctx \in Contexts /\ log \in Logs
  BY DEF WalkTyped
<1> DEFINE late == log.timedOut \/ step.is = "wait"
           logged == [log EXCEPT !.timedOut = late]
<1>3. /\ logged \in Logs /\ logged.ran = log.ran /\ logged.failed = log.failed
      /\ logged.reviewed = log.reviewed /\ logged.blind = log.blind
      /\ logged.timedOut = late /\ logged.noAuto = log.noAuto
  <2>1. late \in BOOLEAN
    BY <1>2 DEF Logs
  <2> HIDE DEF late
  <2> QED BY <1>2, <2>1 DEF Logs
<1>4. Leave(step.failure, "failed", logged)
  BY <1>2 DEF Fail, Logs
<1>5. step.failure \in Names(recipe) \union {Done, None}
  BY <1>1, Ways
<1> HIDE DEF logged
<1>6. WalkTyped'
  BY <1>1, <1>2, <1>3, <1>4, <1>5, LeaveTyped
<1>7. Walking' => at' = step.failure /\ step.failure \in Names(recipe)
  BY <1>1, <1>3, <1>4, <1>5, LeaveLogs, GoesOn
<1>8. Walking' => at' \in Declared(recipe)[at]
  BY <1>1, <1>7, DeclaredEdges DEF step
<1> QED BY <1>1, <1>3, <1>4, <1>6, <1>7, <1>8, LeaveLogs DEF Left, LeftLog, LeftContext, LeftAlong

LEMMA RouteFailsLeaves == ASSUME WalkTyped, RouteFails PROVE WalkTyped' /\ Left(FALSE)
<1>1. /\ Running /\ Walking /\ step.is = "route" /\ at \in Names(recipe) /\ at # Unread
      /\ Leave(step.failure, "failed", log)
  BY AtStep DEF RouteFails, Running
<1>2. PICK auto \in {"yes", "no"} : ctx' = Asked(ctx, auto)
  BY DEF RouteFails
<1>3. ctx \in Contexts /\ log \in Logs
  BY DEF WalkTyped
<1>4. ctx' \in Contexts /\ ctx'.w = ctx.w /\ ctx'.x = ctx.x /\ ctx'.by = ctx.by
  <2> DEFINE told == IF Arms(step, {"no_auto"}) = {} THEN ctx.auto ELSE auto
  <2>1. told \in {"unknown", "yes", "no"} /\ ctx' = [ctx EXCEPT !.auto = told]
    BY <1>2, <1>3 DEF Asked, Contexts
  <2> HIDE DEF told
  <2> QED BY <1>3, <2>1 DEF Contexts
<1>5. step.failure \in Names(recipe) \union {Done, None}
  BY <1>1, Ways
<1>6. WalkTyped'
  BY <1>1, <1>3, <1>4, <1>5, LeaveTyped
<1>7. Walking' => at' = step.failure /\ step.failure \in Names(recipe)
  BY <1>1, <1>3, <1>5, LeaveLogs, GoesOn
<1>8. Walking' => at' \in Declared(recipe)[at]
  BY <1>1, <1>7, DeclaredEdges DEF step
<1> QED BY <1>1, <1>3, <1>4, <1>6, <1>7, <1>8, LeaveLogs DEF Left, LeftLog, LeftContext, LeftAlong

\* A session out of context, or stale once too often.
LEMMA SkillLeaves ==
  ASSUME WalkTyped, Running, step.is \in SKILL_TOOLS, ctx' = ctx,
         NEW to \in {step.failure, step.limit, step.exhausted}, Leave(to, "failed", log)
  PROVE  WalkTyped' /\ Left(FALSE)
<1>1. Walking /\ at \in Names(recipe) /\ at # Unread /\ step.is \notin Actions
  BY AtStep DEF Running, SKILL_TOOLS, Actions
<1>2. ctx \in Contexts /\ log \in Logs
  BY DEF WalkTyped
<1>3. to \in Names(recipe) \union {Done, Escalate, None}
  BY <1>1, Ways
<1>4. WalkTyped'
  BY <1>1, <1>2, <1>3, LeaveTyped
<1>5. Walking' => at' = to /\ to \in Names(recipe)
  BY <1>1, <1>2, <1>3, LeaveLogs, GoesOn
<1>6. Walking' => at' \in Declared(recipe)[at]
  BY <1>1, <1>5, DeclaredEdges DEF step
<1>7. /\ UNCHANGED <<recipe, found, off>> /\ log'.from = at /\ log'.hops = 0 /\ log'.blind = log.blind
      /\ log'.ran = log.ran \union {at}
      /\ log'.failed = log.failed \union {at} /\ ~log'.reviewed
      /\ log'.timedOut = log.timedOut /\ log'.noAuto = log.noAuto
  BY <1>2, LeaveLogs
<1>8. LeftLog(FALSE)
  BY <1>7 DEF LeftLog
<1>9. LeftContext(FALSE)
  BY DEF LeftContext
<1>10. LeftAlong(FALSE)
  BY <1>5, <1>6, <1>7 DEF LeftAlong
<1> QED BY <1>4, <1>8, <1>9, <1>10 DEF Left

LEMMA StaleLeaves == ASSUME WalkTyped, Stale PROVE WalkTyped' /\ (Left(FALSE) \/ Stays)
<1>1. Running /\ step.is \in SKILL_TOOLS /\ ctx' = ctx
  BY DEF Stale
<1>2. CASE tries > 0
  <2>1. tries' \in Nat /\ Stays
    BY <1>1, <1>2 DEF Stale, Stays, WalkTyped
  <2> QED BY <2>1 DEF WalkTyped, Stays, Contexts, Logs
<1>3. CASE ~(tries > 0)
  BY <1>1, <1>3, SkillLeaves DEF Stale
<1> QED BY <1>2, <1>3

LEMMA ConfirmLeaves == ASSUME WalkTyped, Confirm PROVE WalkTyped' /\ (Left(TRUE) \/ Left(FALSE))
<1>1. Running /\ Walking /\ step.is = "confirm" /\ at \in Names(recipe) /\ at # Unread /\ ctx' = ctx
  BY AtStep DEF Confirm, Running
<1>2. ctx \in Contexts /\ log \in Logs /\ step.success # None /\ step.result = <<>>
  BY <1>1, Ways DEF WalkTyped
<1>3. {step.success, step.failure} \subseteq Names(recipe) \union {Done, None}
  BY <1>1, Ways
<1>4. ASSUME NEW to \in {step.success, step.failure}, NEW how \in {"ok", "failed"}, Leave(to, how, log)
      PROVE  WalkTyped' /\ (Walking' => at' = to /\ at' \in Declared(recipe)[at])
  <2>1. WalkTyped'
    BY <1>1, <1>2, <1>3, <1>4, LeaveTyped
  <2>2. Walking' => at' = to /\ to \in Names(recipe)
    BY <1>1, <1>2, <1>3, <1>4, LeaveLogs, GoesOn
  <2>3. Walking' => at' \in Declared(recipe)[at]
    BY <1>1, <2>2, DeclaredEdges DEF step
  <2> QED BY <2>1, <2>2, <2>3
<1>5. CASE Leave(step.success, "ok", log)
  <2>1. /\ UNCHANGED <<recipe, found, off>> /\ log'.from = at /\ log'.hops = 0 /\ log'.blind = log.blind
        /\ log'.ran = log.ran \union {at}
        /\ log'.failed = log.failed \ {at}
        /\ log'.reviewed <=> step.is # "review_loop" /\ (log.reviewed \/ step.is = "review")
        /\ log'.timedOut = log.timedOut /\ log'.noAuto = log.noAuto
    BY <1>1, <1>2, <1>5, LeaveLogs
  <2>2. WalkTyped' /\ (Walking' => at' = step.success /\ at' \in Declared(recipe)[at])
    BY <1>4, <1>5
  <2>3. LeftLog(TRUE)
    BY <2>1 DEF LeftLog
  <2>4. LeftContext(TRUE)
    BY <1>1 DEF LeftContext
  <2>5. LeftAlong(TRUE)
    BY <1>2, <2>1, <2>2 DEF LeftAlong
  <2> QED BY <1>1, <2>2, <2>3, <2>4, <2>5 DEF Left
<1>6. CASE Leave(step.failure, "failed", log)
  BY <1>1, <1>2, <1>4, <1>6, LeaveLogs DEF Left, LeftLog, LeftContext, LeftAlong
<1> QED BY <1>5, <1>6 DEF Confirm

LEMMA StopLeaves == ASSUME WalkTyped, Stop PROVE WalkTyped' /\ Left(TRUE)
<1>1. Running /\ Walking /\ step.is = "stop" /\ at # Unread /\ ctx' = ctx /\ Leave(Done, "ok", log)
  BY AtStep DEF Stop, Running
<1>2. ctx \in Contexts /\ log \in Logs
  BY DEF WalkTyped
<1>3. WalkTyped'
  BY <1>1, <1>2, LeaveTyped
<1>4. ~Walking'
  <2>1. Done \notin Names(recipe)
    BY Positions DEF Done
  <2> QED BY <1>1, <1>2, <2>1, LeaveLogs, GoesOn
<1> QED BY <1>1, <1>2, <1>3, <1>4, LeaveLogs DEF Left, LeftLog, LeftContext, LeftAlong

LEMMA SkipTyped == ASSUME WalkTyped, Skip PROVE WalkTyped'
<1>1. Walking /\ at \in Names(recipe) /\ at # Unread /\ UNCHANGED <<recipe, found, off, ctx>>
  BY AtStep DEF Skip
<1>2. PICK to \in Targets(step) \union ({step.success} \ {None}) : at' = to /\ tries' = Tries(to)
  BY DEF Skip
<1>3. to \in Names(recipe) \union {Done}
  BY <1>1, Ways
<1>4. at' \in (Names(recipe) \union Over) \ {Unread}
  BY <1>2, <1>3, Positions DEF Over, Unread, Done
<1>5. tries' \in Nat
  BY <1>2, StepTypes DEF Tries
<1>6. log \in Logs
  BY DEF WalkTyped
<1> DEFINE hops == IF log.hops = 2 THEN 2 ELSE log.hops + 1
           blind == log.blind \/ (log.hops > 0) \/ (log.from = None)
<1>7. hops \in 0..2 /\ blind \in BOOLEAN
  BY <1>6 DEF Logs
<1>8. log' = [log EXCEPT !.hops = hops, !.blind = blind]
  BY DEF Skip
<1> HIDE DEF hops, blind
<1>9. log' \in Logs /\ log'.failed = log.failed /\ log'.ran = log.ran
  BY <1>6, <1>7, <1>8 DEF Logs
<1>10. Logs' = Logs /\ Contexts' = Contexts
  BY <1>1 DEF Logs, Contexts
<1> QED BY <1>1, <1>4, <1>5, <1>9, <1>10 DEF WalkTyped

\* A skipped step is left along the bypass edges that its predecessors have.
LEMMA SkipMoves ==
  ASSUME WalkTyped, Skip
  PROVE  /\ Walking /\ at \in off /\ recipe[at].skip /\ UNCHANGED <<recipe, found, off, ctx>>
         /\ log'.from = log.from /\ log'.ran = log.ran /\ log'.failed = log.failed
         /\ log'.timedOut = log.timedOut /\ log'.noAuto = log.noAuto /\ log'.reviewed = log.reviewed
         /\ log'.hops = (IF log.hops = 2 THEN 2 ELSE log.hops + 1)
         /\ log'.blind <=> log.blind \/ log.hops > 0 \/ log.from = None
         /\ Walking' => /\ at' \in ({step.success} \union Targets(step)) \intersect Names(recipe)
                        /\ at' \in Declared(recipe)[at]
<1>1. Walking /\ at \in off /\ at \in Names(recipe) /\ at # Unread /\ recipe[at].skip
  BY AtStep DEF Skip, WalkTyped
<1>2. UNCHANGED <<recipe, found, off, ctx>>
  BY DEF Skip
<1>3. log \in Logs
  BY DEF WalkTyped
<1> DEFINE hops == IF log.hops = 2 THEN 2 ELSE log.hops + 1
           blind == log.blind \/ (log.hops > 0) \/ (log.from = None)
<1>4. log' = [log EXCEPT !.hops = hops, !.blind = blind]
  BY DEF Skip
<1>5. /\ log'.from = log.from /\ log'.ran = log.ran /\ log'.failed = log.failed
      /\ log'.timedOut = log.timedOut /\ log'.noAuto = log.noAuto /\ log'.reviewed = log.reviewed
      /\ log'.hops = hops /\ log'.blind = blind
  <2> HIDE DEF hops, blind
  <2> QED BY <1>3, <1>4 DEF Logs
<1>6. at' \in {step.success} \union Targets(step)
  BY DEF Skip
<1>7. Walking' => at' \in Names(recipe)
  <2>1. WalkTyped'
    BY SkipTyped
  <2>2. at' \in Names(recipe) \union Over \union {Unread}
    BY <1>2, <2>1 DEF WalkTyped
  <2> QED BY <2>2 DEF Walking, Over, Unread, Done, Escalate, Halted
<1>8. Walking' => at' \in Declared(recipe)[at]
  BY <1>1, <1>6, <1>7, DeclaredEdges DEF step
<1> QED BY <1>1, <1>2, <1>5, <1>6, <1>7, <1>8

LEMMA LoadTyped ==
  ASSUME WalkTyped, load_and_validate
  PROVE  /\ WalkTyped' /\ at' = 1 /\ UNCHANGED <<recipe, off, ctx, log>> /\ at = Unread
<1>1. at = Unread /\ at' = 1 /\ tries' = recipe[1].retries /\ UNCHANGED <<recipe, off, ctx, log>>
  BY DEF load_and_validate
<1>2. 1 \in Names(recipe) /\ at' # Unread
  BY <1>1, Positions DEF Unread
<1>3. tries' \in Nat
  BY <1>1, <1>2, StepTypes
<1>4. Logs' = Logs /\ Contexts' = Contexts
  BY <1>1 DEF Logs, Contexts
<1>5. validate_recipe_structure(recipe)' /\ found' = Findings(recipe)'
  BY <1>1 DEF load_and_validate
<1> QED BY <1>1, <1>2, <1>3, <1>4, <1>5 DEF WalkTyped

\* What a step of the walk is: a load, a skipped step, a step run and left, or a retry.
LEMMA Moves ==
  ASSUME WalkTyped, [WalkNext]_walkVars
  PROVE  WalkTyped' /\ (load_and_validate \/ Skip \/ Left(TRUE) \/ Left(FALSE) \/ Stays)
<1>1. CASE UNCHANGED walkVars
  BY <1>1 DEF walkVars, Stays, WalkTyped, Logs, Contexts
<1>2. CASE load_and_validate
  BY <1>2, LoadTyped
<1>3. CASE Skip
  BY <1>3, SkipTyped
<1>4. CASE Succeed
  BY <1>4, SucceedLeaves
<1>5. CASE Judged
  BY <1>5, JudgedLeaves
<1>6. CASE Fail
  BY <1>6, FailLeaves
<1>7. CASE ContextLimit
  <2>1. Running /\ step.is \in SKILL_TOOLS /\ ctx' = ctx /\ Leave(step.limit, "failed", log)
    BY <1>7 DEF ContextLimit
  <2> QED BY <2>1, SkillLeaves
<1>8. CASE Stale
  BY <1>8, StaleLeaves
<1>9. CASE Confirm
  BY <1>9, ConfirmLeaves
<1>10. CASE Stop
  BY <1>10, StopLeaves
<1>11. CASE RouteFails
  BY <1>11, RouteFailsLeaves
<1> QED BY <1>1, <1>2, <1>3, <1>4, <1>5, <1>6, <1>7, <1>8, <1>9, <1>10, <1>11 DEF WalkNext, Follow

LEMMA InitWalkTyped == WalkInit => WalkTyped
<1> SUFFICES ASSUME WalkInit PROVE WalkTyped
  OBVIOUS
<1>1. log \in Logs
  <2>1. GuardCap \in Nat
    BY WalkAssumption
  <2> QED BY <2>1 DEF WalkInit, WalkStart, Logs
<1>2. ctx \in Contexts
  BY DEF WalkInit, WalkStart, Contexts
<1> QED BY <1>1, <1>2 DEF WalkInit, WalkStart, WalkTyped

LEMMA WalkTypedHolds == WalkSpec => []WalkTyped
<1>1. WalkTyped /\ [WalkNext]_walkVars => WalkTyped'
  BY Moves
<1> QED BY <1>1, InitWalkTyped, PTL DEF WalkSpec

\* Every rule reports steps of the recipe, and the state of a walk has its type.
LEMMA WalkTypes == WalkTyped => WalkTypeOK
<1> SUFFICES ASSUME WalkTyped PROVE WalkTypeOK
  OBVIOUS
<1>1. found.push \union found.publish \union found.stale \subseteq Names(recipe)
  <2>1. CASE at = Unread
    BY <2>1 DEF WalkTyped
  <2>2. CASE at # Unread
    <3>1. /\ found.push = push_before_audit(recipe) /\ found.publish = merge_base_unpublished(recipe)
          /\ found.stale = detect_ref_invalidations(recipe)
      BY <2>2 DEF WalkTyped, Findings
    <3>2. push_before_audit(recipe) \subseteq Names(recipe)
      BY DEF push_before_audit, Of
    <3>3. merge_base_unpublished(recipe) \subseteq Names(recipe)
      BY DEF merge_base_unpublished, Of
    <3>4. \A starts, w : _bfs_capped(_build_step_graph(recipe), starts, w) \subseteq Names(recipe)
      BY ReachSteps DEF _build_step_graph
    <3>5. detect_ref_invalidations(recipe) \subseteq Names(recipe)
      BY <3>4 DEF detect_ref_invalidations
    <3> QED BY <3>1, <3>2, <3>3, <3>5
  <2> QED BY <2>1, <2>2
<1> QED BY <1>1 DEF WalkTyped, WalkTypeOK, Logs, Contexts

-----------------------------------------------------------------------------
(* The rules about the order of steps *)

Graph == _build_step_graph(recipe)

LEMMA GraphSteps ==
  /\ DOMAIN Graph = Names(recipe) /\ DOMAIN Declared(recipe) = Names(recipe)
  /\ DOMAIN _build_success_step_graph(recipe) = Names(recipe)
  /\ \A s \in Names(recipe) : Declared(recipe)[s] \subseteq Names(recipe)
BY DEF Graph, _build_step_graph, Declared, _build_success_step_graph

\* What no step of a walk changes.
LEMMA Constants ==
  ASSUME WalkTyped, [WalkNext]_walkVars
  PROVE  /\ recipe' = recipe /\ off' = off /\ Graph' = Graph
         /\ at # Unread => at' # Unread /\ found' = found
<1>1. WalkTyped' /\ (load_and_validate \/ Skip \/ Left(TRUE) \/ Left(FALSE) \/ Stays)
  BY Moves
<1>2. recipe' = recipe /\ off' = off
  BY <1>1, SkipMoves DEF load_and_validate, Left, LeftLog, Stays
<1>3. ASSUME at # Unread PROVE at' # Unread /\ found' = found
  <2>1. CASE load_and_validate
    BY <1>3, <2>1 DEF load_and_validate
  <2>2. CASE Skip
    <3>1. at \in Names(recipe) /\ found' = found
      BY <2>2, AtStep DEF Skip
    <3>2. at' \in Targets(step) \union ({step.success} \ {None})
      BY <2>2 DEF Skip
    <3>3. at' \in Names(recipe) \union {Done}
      BY <2>2, <3>2, Ways DEF Skip
    <3> QED BY <3>1, <3>3, Positions DEF Unread, Done
  <2>3. ASSUME NEW ok \in BOOLEAN, Left(ok) PROVE at' # Unread /\ found' = found
    <3>1. found' = found /\ log'.from = at /\ at \in Names(recipe)
      BY <2>3, AtStep DEF Left, LeftLog, Running
    <3>2. at' = Unread => log'.from = None
      BY <1>1 DEF WalkTyped, Unread
    <3> QED BY <3>1, <3>2, Positions DEF None
  <2>4. CASE Stays
    BY <1>3, <2>4 DEF Stays
  <2> QED BY <1>1, <2>1, <2>2, <2>3, <2>4
<1> QED BY <1>2, <1>3 DEF Graph

\* The walk has come to where it is along an edge, over at most one step that is off.
Edges ==
  /\ log.from = None /\ ~log.blind => log.hops = 0 /\ (Walking => at = 1)
  /\ Walking /\ log.from # None /\ log.hops <= 1 => at \in Graph[log.from]
  /\ Walking /\ log.from # None /\ log.hops = 0 => at \in Declared(recipe)[log.from]
  /\ ~log.blind => log.hops <= 1
  /\ off = {} => log.hops = 0 /\ ~log.blind

LEMMA EdgesStep ==
  ASSUME WalkTyped, [WalkNext]_walkVars, Edges
  PROVE  Edges'
<1>1. /\ recipe' = recipe /\ off' = off /\ Graph' = Graph /\ WalkTyped'
      /\ Declared(recipe)' = Declared(recipe)
  BY Constants, Moves
<1>2. log \in Logs
  BY DEF WalkTyped
<1>3. CASE load_and_validate
  <2>1. at' = 1 /\ log' = log /\ log.from = None /\ log.hops = 0 /\ ~log.blind
    BY <1>3, LoadTyped DEF WalkTyped
  <2> QED BY <1>1, <2>1 DEF Edges
<1>4. CASE Skip
  <2>1. /\ Walking /\ at \in off /\ recipe[at].skip /\ log'.from = log.from
        /\ log'.hops = (IF log.hops = 2 THEN 2 ELSE log.hops + 1)
        /\ log'.blind <=> log.blind \/ log.hops > 0 \/ log.from = None
        /\ Walking' => at' \in ({step.success} \union Targets(step)) \intersect Names(recipe)
    BY <1>4, SkipMoves
  <2>2. log.hops \in 0..2 /\ log.from \in Names(recipe) \union {None} /\ log.blind \in BOOLEAN
    BY <1>2 DEF Logs
  <2>3. ASSUME Walking', log'.from # None, log'.hops <= 1 PROVE at' \in Graph[log.from]
    <3>1. log.hops = 0 /\ log.from \in Names(recipe)
      BY <2>1, <2>2, <2>3
    <3>2. at \in Declared(recipe)[log.from]
      BY <2>1, <2>3, <3>1 DEF Edges
    <3> QED BY <2>1, <2>3, <3>1, <3>2 DEF Graph, _build_step_graph, step
  <2>4. log'.hops # 0
    BY <2>1, <2>2
  <2>5. ~log'.blind => log'.from # None /\ log'.hops <= 1
    BY <2>1, <2>2
  <2> QED BY <1>1, <2>1, <2>3, <2>4, <2>5 DEF Edges
<1>5. ASSUME NEW ok \in BOOLEAN, Left(ok) PROVE Edges'
  <2>1. /\ log'.from = at /\ log'.hops = 0 /\ log'.blind = log.blind
        /\ Walking' => at' \in Declared(recipe)[at]
        /\ at \in Names(recipe)
    BY <1>5, AtStep DEF Left, LeftLog, LeftAlong, Running
  <2>2. at # None /\ Declared(recipe)[at] \subseteq Graph[at]
    BY <2>1, Positions, GraphHasDeclared DEF None, Graph
  <2> QED BY <1>1, <2>1, <2>2 DEF Edges
<1>6. CASE Stays
  BY <1>1, <1>6 DEF Stays, Edges, Walking
<1> QED BY <1>3, <1>4, <1>5, <1>6, Moves

\* Until an audit has been run, push-before-audit reaches every step that is run.
Unaudited ==
  Of(recipe, {"audit"}) \intersect log.ran = {} /\ ~log.blind /\ log.from # None
    => log.from \in _bfs_capped(Graph, {1}, Of(recipe, {"audit"})) \ Of(recipe, {"audit"})

\* The step the walk is at is reached when the one before it is.
LEMMA Onward ==
  ASSUME WalkTyped, Edges, Walking, NEW graph, NEW barriers, DOMAIN graph = Names(recipe),
         log.from # None => at \in graph[log.from],
         log.from # None => log.from \in _bfs_capped(graph, {1}, barriers) \ barriers,
         ~log.blind
  PROVE  at \in _bfs_capped(graph, {1}, barriers)
<1>1. at \in Names(recipe)
  BY AtStep
<1>2. CASE log.from = None
  <2>1. at = 1
    BY <1>2 DEF Edges
  <2> QED BY <1>1, <2>1, ReachStarts
<1>3. CASE log.from # None
  BY <1>1, <1>3, ReachEdges
<1> QED BY <1>2, <1>3

LEMMA UnauditedStep ==
  ASSUME WalkTyped, [WalkNext]_walkVars, Edges, Unaudited
  PROVE  Unaudited'
<1> DEFINE audits == Of(recipe, {"audit"})
<1>1. recipe' = recipe /\ Graph' = Graph /\ audits' = audits
  BY Constants DEF Of
<1>2. CASE load_and_validate \/ Skip \/ Stays
  <2>1. log'.from = log.from /\ log'.ran = log.ran /\ (log.blind => log'.blind)
    BY <1>2, LoadTyped, SkipMoves DEF Stays
  <2> QED BY <1>1, <2>1 DEF Unaudited
<1>3. ASSUME NEW ok \in BOOLEAN, Left(ok), audits \intersect log'.ran = {}, ~log'.blind
      PROVE  at \in _bfs_capped(Graph, {1}, audits) \ audits
  <2>1. Walking /\ ~log.blind /\ log'.ran = log.ran \union {at}
    BY <1>3 DEF Left, LeftLog, Running
  <2>2. at \notin audits /\ audits \intersect log.ran = {}
    BY <1>3, <2>1
  <2>3. log.from # None => at \in Graph[log.from]
    BY <2>1 DEF Edges
  <2>4. log.from # None => log.from \in _bfs_capped(Graph, {1}, audits) \ audits
    BY <2>1, <2>2 DEF Unaudited
  <2> HIDE DEF audits
  <2> QED BY <2>1, <2>2, <2>3, <2>4, Onward, GraphSteps
<1>4. ASSUME NEW ok \in BOOLEAN, Left(ok) PROVE Unaudited'
  <2>1. log'.from = at
    BY <1>4 DEF Left, LeftLog
  <2> QED BY <1>1, <1>3, <1>4, <2>1 DEF Unaudited
<1> QED BY <1>2, <1>4, Moves

\* Until something has been pushed or published, merge-base-unpublished reaches every step run.
Unpublished ==
  Of(recipe, {"push", "publish"}) \intersect log.ran = {} /\ off = {} /\ log.from # None
    => log.from \in _bfs_capped(Declared(recipe), {1}, Of(recipe, {"push", "publish"}))
                      \ Of(recipe, {"push", "publish"})

LEMMA UnpublishedStep ==
  ASSUME WalkTyped, [WalkNext]_walkVars, Edges, Unpublished
  PROVE  Unpublished'
<1> DEFINE pushes == Of(recipe, {"push", "publish"})
<1>1. recipe' = recipe /\ off' = off /\ Declared(recipe)' = Declared(recipe) /\ pushes' = pushes
  BY Constants DEF Of
<1>2. CASE load_and_validate \/ Skip \/ Stays
  <2>1. log'.from = log.from /\ log'.ran = log.ran
    BY <1>2, LoadTyped, SkipMoves DEF Stays
  <2> QED BY <1>1, <2>1 DEF Unpublished
<1>3. ASSUME NEW ok \in BOOLEAN, Left(ok), pushes \intersect log'.ran = {}, off = {}
      PROVE  at \in _bfs_capped(Declared(recipe), {1}, pushes) \ pushes
  <2>1. Walking /\ ~log.blind /\ log.hops = 0 /\ log'.ran = log.ran \union {at}
    BY <1>3 DEF Left, LeftLog, Running, Edges
  <2>2. at \notin pushes /\ pushes \intersect log.ran = {}
    BY <1>3, <2>1
  <2>3. log.from # None => at \in Declared(recipe)[log.from]
    BY <2>1 DEF Edges
  <2>4. log.from # None => log.from \in _bfs_capped(Declared(recipe), {1}, pushes) \ pushes
    BY <1>3, <2>1, <2>2 DEF Unpublished
  <2> HIDE DEF pushes
  <2> QED BY <2>1, <2>2, <2>3, <2>4, Onward, GraphSteps
<1>4. ASSUME NEW ok \in BOOLEAN, Left(ok) PROVE Unpublished'
  <2>1. log'.from = at
    BY <1>4 DEF Left, LeftLog
  <2> QED BY <1>1, <1>3, <1>4, <2>1 DEF Unpublished
<1> QED BY <1>2, <1>4, Moves

\* A search without barriers that has reached the walk keeps up with it.
LEMMA Followed ==
  ASSUME WalkTyped, [WalkNext]_walkVars, Walking, Walking', NEW starts, at \in _bfs_capped(Graph, starts, {})
  PROVE  at' \in _bfs_capped(Graph, starts, {})
<1>1. at \in Names(recipe) /\ at # Unread /\ recipe' = recipe
  BY AtStep, Constants
<1>2. at' \in Names(recipe)
  <2>1. WalkTyped'
    BY Moves
  <2> QED BY <1>1, <2>1, AtStep, Positions DEF WalkTyped, Walking, Over, Unread, Done, Escalate, Halted
<1>3. CASE load_and_validate
  BY <1>1, <1>3, LoadTyped
<1>4. CASE Skip
  <2>1. at' \in Declared(recipe)[at]
    BY <1>4, SkipMoves
  <2> QED BY <1>1, <1>2, <2>1, GraphHasDeclared, GraphSteps, ReachEdges DEF Graph
<1>5. ASSUME NEW ok \in BOOLEAN, Left(ok) PROVE at' \in _bfs_capped(Graph, starts, {})
  <2>1. at' \in Declared(recipe)[at]
    BY <1>5 DEF Left, LeftAlong
  <2> QED BY <1>1, <1>2, <2>1, GraphHasDeclared, GraphSteps, ReachEdges DEF Graph
<1>6. CASE Stays
  BY <1>6 DEF Stays
<1> QED BY <1>3, <1>4, <1>5, <1>6, Moves

TimeoutsNamed == \A s \in Of(recipe, {"wait"}) : recipe[s].result # <<>> => recipe[s].result[1].when = "timeout"

\* After a timeout, or a failed wait, the walk is where release-issue-on-unconfirmed-merge looks.
AfterTimeout ==
  TimeoutsNamed /\ log.timedOut /\ Walking
    => at \in _bfs_capped(Graph, _collect_timeout_exit_steps(recipe) \intersect Names(recipe), {})

LEMMA AfterTimeoutStep ==
  ASSUME WalkTyped, [WalkNext]_walkVars, AfterTimeout
  PROVE  AfterTimeout'
<1> DEFINE exits == _collect_timeout_exit_steps(recipe) \intersect Names(recipe)
<1>1. recipe' = recipe /\ Graph' = Graph /\ exits' = exits /\ (TimeoutsNamed' => TimeoutsNamed)
  BY Constants DEF Of, TimeoutsNamed
<1> SUFFICES ASSUME TimeoutsNamed, log'.timedOut, Walking' PROVE at' \in _bfs_capped(Graph, exits, {})
  BY <1>1 DEF AfterTimeout
<1>2. CASE load_and_validate
  BY <1>2, LoadTyped DEF WalkTyped
<1>3. CASE Skip \/ Stays
  <2>1. Walking /\ log.timedOut
    BY <1>3, SkipMoves DEF Stays, Walking
  <2> QED BY <2>1, Followed DEF AfterTimeout
<1>4. ASSUME NEW ok \in BOOLEAN, Left(ok) PROVE at' \in _bfs_capped(Graph, exits, {})
  <2>1. Walking /\ at \in Names(recipe) /\ at # Unread
    BY <1>4, AtStep DEF Left, Running
  <2>2. CASE log.timedOut
    BY <2>1, <2>2, Followed DEF AfterTimeout
  <2>3. CASE ~log.timedOut
    <3>1. /\ step.is = "wait" /\ at' \in Declared(recipe)[at]
          /\ at' = step.failure \/ (step.result # <<>> /\ at' = First("timeout", ctx'))
      BY <1>4, <2>3 DEF Left, LeftAlong
    <3>2. at \in Of(recipe, {"wait"})
      BY <2>1, <3>1 DEF Of, step
    <3>3. at' \in Arms(step, {"timeout"}) \union {step.failure}
      <4>1. CASE at' = step.failure
        BY <4>1
      <4>2. CASE step.result # <<>> /\ at' = First("timeout", ctx')
        <5>1. step.result[1].when = "timeout"
          BY <3>2, <4>2 DEF TimeoutsNamed, step
        <5> QED BY <2>1, <4>2, <5>1, TimeoutTaken
      <4> QED BY <3>1, <4>1, <4>2
    <3>4. at' \in exits
      BY <2>1, <3>1, <3>2, <3>3, GraphSteps DEF _collect_timeout_exit_steps, step
    <3> QED BY <3>4, ReachStarts, GraphSteps
  <2> QED BY <2>2, <2>3
<1> QED BY <1>2, <1>3, <1>4, Moves

\* Once a route was taken for want of auto-merge, the walk is where the rule about it looks.
AutoArms == (UNION {Arms(recipe[s], {"no_auto"}) : s \in Names(recipe)}) \intersect Names(recipe)

AfterNoAuto == log.noAuto /\ Walking => at \in _bfs_capped(Graph, AutoArms, {})

LEMMA AfterNoAutoStep ==
  ASSUME WalkTyped, [WalkNext]_walkVars, AfterNoAuto
  PROVE  AfterNoAuto'
<1>1. recipe' = recipe /\ Graph' = Graph /\ AutoArms' = AutoArms
  BY Constants DEF AutoArms
<1> SUFFICES ASSUME log'.noAuto, Walking' PROVE at' \in _bfs_capped(Graph, AutoArms, {})
  BY <1>1 DEF AfterNoAuto
<1>2. CASE load_and_validate
  BY <1>2, LoadTyped DEF WalkTyped
<1>3. CASE Skip \/ Stays
  <2>1. Walking /\ log.noAuto
    BY <1>3, SkipMoves DEF Stays, Walking
  <2> QED BY <2>1, Followed DEF AfterNoAuto
<1>4. ASSUME NEW ok \in BOOLEAN, Left(ok) PROVE at' \in _bfs_capped(Graph, AutoArms, {})
  <2>1. Walking /\ at \in Names(recipe) /\ at # Unread
    BY <1>4, AtStep DEF Left, Running
  <2>2. CASE log.noAuto
    BY <2>1, <2>2, Followed DEF AfterNoAuto
  <2>3. CASE ~log.noAuto
    <3>1. at' \in Arms(step, {"no_auto"}) /\ at' \in Declared(recipe)[at]
      BY <1>4, <2>3 DEF Left, LeftAlong
    <3>2. at' \in Names(recipe)
      BY <2>1, <3>1, GraphSteps
    <3>3. at' \in AutoArms
      BY <2>1, <3>1, <3>2 DEF AutoArms, step
    <3> QED BY <3>2, <3>3, ReachStarts, GraphSteps
  <2> QED BY <2>2, <2>3
<1> QED BY <1>2, <1>3, <1>4, Moves

\* Where nothing is skipped, verdicts alone since a review keep the walk where the waypoint rule looks.
SinceReview ==
  off = {} /\ log.reviewed /\ Walking
    => \E s \in Of(recipe, {"review"}) : at \in bfs_reachable_without_barrier(recipe, s, Of(recipe, {"review_loop"}))

LEMMA SinceReviewStep ==
  ASSUME WalkTyped, [WalkNext]_walkVars, SinceReview
  PROVE  SinceReview'
<1>1. recipe' = recipe /\ off' = off
  BY Constants
<1> DEFINE graph == _build_success_step_graph(recipe)
           loops == Of(recipe, {"review_loop"})
<1> SUFFICES ASSUME off = {}, log'.reviewed, Walking'
             PROVE  \E s \in Of(recipe, {"review"}) : at' \in _bfs_capped(graph, {s}, loops)
  BY <1>1 DEF SinceReview, bfs_reachable_without_barrier, Of
<1>2. CASE load_and_validate
  BY <1>2, LoadTyped DEF WalkTyped
<1>3. CASE Skip
  BY <1>3, SkipMoves
<1>4. CASE Stays
  BY <1>4 DEF Stays, SinceReview, bfs_reachable_without_barrier, Walking
<1>5. ASSUME NEW ok \in BOOLEAN, Left(ok)
      PROVE  \E s \in Of(recipe, {"review"}) : at' \in _bfs_capped(graph, {s}, loops)
  <2>1. Walking /\ at \in Names(recipe) /\ at # Unread
    BY <1>5, AtStep DEF Left, Running
  <2>2. ok /\ step.is # "review_loop" /\ (log.reviewed \/ step.is = "review")
    BY <1>5 DEF Left, LeftLog
  <2>3. at' \in {step.success} \union Targets(step) /\ at' \in Names(recipe)
    BY <1>5, <2>1, <2>2, GraphSteps DEF Left, LeftAlong
  <2>4. at' \in graph[at] /\ at \notin loops
    BY <2>1, <2>2, <2>3 DEF _build_success_step_graph, step, Of
  <2>5. PICK s \in Of(recipe, {"review"}) : at \in _bfs_capped(graph, {s}, loops)
    <3>1. CASE log.reviewed
      BY <2>1, <3>1 DEF SinceReview, bfs_reachable_without_barrier
    <3>2. CASE step.is = "review"
      <4>1. at \in Of(recipe, {"review"})
        BY <2>1, <3>2 DEF Of, step
      <4>2. at \in _bfs_capped(graph, {at}, loops)
        BY <2>1, ReachStarts, GraphSteps
      <4> QED BY <4>1, <4>2
    <3> QED BY <2>2, <3>1, <3>2
  <2>6. at' \in _bfs_capped(graph, {s}, loops)
    <3> HIDE DEF graph, loops
    <3>1. DOMAIN graph = Names(recipe)
      BY GraphSteps DEF graph
    <3> QED BY <2>3, <2>4, <2>5, <3>1, ReachEdges
  <2> QED BY <2>6
<1> QED BY <1>2, <1>3, <1>4, <1>5, Moves

\* What the rules about the order of steps rest on.
RouteInv == WalkTyped /\ Edges /\ Unaudited /\ Unpublished /\ AfterTimeout /\ AfterNoAuto /\ SinceReview

LEMMA InitRouteInv == WalkInit => RouteInv
<1> SUFFICES ASSUME WalkInit PROVE RouteInv
  OBVIOUS
<1>1. WalkTyped
  BY InitWalkTyped
<1>2. at = Unread /\ ~Walking
  BY DEF WalkInit, WalkStart, Unread, Walking
<1>3. log.from = None /\ log.hops = 0 /\ ~log.blind /\ ~log.timedOut /\ ~log.noAuto /\ ~log.reviewed
  BY <1>1, <1>2 DEF WalkTyped
<1> QED BY <1>1, <1>2, <1>3
        DEF RouteInv, Edges, Unaudited, Unpublished, AfterTimeout, AfterNoAuto, SinceReview

LEMMA RouteInvHolds == WalkSpec => []RouteInv
<1>1. RouteInv /\ [WalkNext]_walkVars => RouteInv'
  BY Moves, EdgesStep, UnauditedStep, UnpublishedStep, AfterTimeoutStep, AfterNoAutoStep, SinceReviewStep
     DEF RouteInv
<1> QED BY <1>1, InitRouteInv, PTL DEF WalkSpec

LEMMA RoutesFollow == RouteInv => RoutesHold
<1> SUFFICES ASSUME RouteInv PROVE RoutesHold
  OBVIOUS
<1>1. WalkTyped /\ Edges
  BY DEF RouteInv
<1>2. Running => at \in Names(recipe) /\ at # Unread
  BY <1>1, AtStep DEF Running
<1>3. log.from > 0 => log.from # None
  BY DEF None
<1>4. at # Unread => found = Findings(recipe)
  BY <1>1 DEF WalkTyped
<1>5. MovesAreEdges
  BY <1>1, <1>3 DEF MovesAreEdges, Edges, Graph, Running
<1>6. PushAudited
  <2> SUFFICES ASSUME Running, step.is = "push", found.push = {}, ~log.blind,
                      Of(recipe, {"audit"}) \intersect log.ran = {}
               PROVE  FALSE
    BY DEF PushAudited
  <2>1. at \in _bfs_capped(Graph, {1}, Of(recipe, {"audit"}))
    <3> DEFINE audits == Of(recipe, {"audit"})
    <3>1. log.from # None => at \in Graph[log.from] /\ log.from \in _bfs_capped(Graph, {1}, audits) \ audits
      BY DEF RouteInv, Edges, Unaudited, Running
    <3> HIDE DEF audits
    <3> QED BY <1>1, <3>1, Onward, GraphSteps DEF Running, audits
  <2>2. at \in Of(recipe, {"push"})
    BY <1>2 DEF Of, step
  <2> QED BY <1>2, <1>4, <2>1, <2>2 DEF Findings, push_before_audit, Graph
<1>7. MergePublished
  <2> SUFFICES ASSUME Running, step.is = "merge", found.publish = {}, off = {},
                      Of(recipe, {"push", "publish"}) \intersect log.ran = {}
               PROVE  FALSE
    BY DEF MergePublished
  <2>1. at \in _bfs_capped(Declared(recipe), {1}, Of(recipe, {"push", "publish"}))
    <3> DEFINE pushes == Of(recipe, {"push", "publish"})
    <3>1. log.from # None => at \in Declared(recipe)[log.from]
                             /\ log.from \in _bfs_capped(Declared(recipe), {1}, pushes) \ pushes
      BY DEF RouteInv, Edges, Unpublished, Running
    <3>2. ~log.blind
      BY <1>1 DEF Edges
    <3> HIDE DEF pushes
    <3> QED BY <1>1, <3>1, <3>2, Onward, GraphSteps DEF Running, pushes
  <2>2. at \in Of(recipe, {"merge"})
    BY <1>2 DEF Of, step
  <2> QED BY <1>2, <1>4, <2>1, <2>2 DEF Findings, merge_base_unpublished
<1>8. NoReleaseAfterTimeout
  <2> SUFFICES ASSUME Running, step.is = "release", found.release = {}, TimeoutsNamed, log.timedOut
               PROVE  FALSE
    BY DEF NoReleaseAfterTimeout, TimeoutsNamed
  <2>1. at \in Of(recipe, {"release"})
    BY <1>2 DEF Of, step
  <2> QED BY <1>2, <1>4, <2>1 DEF RouteInv, AfterTimeout, Running, Findings, release_issue_on_unconfirmed_merge, Graph
<1>9. NoAutoWhenUnavailable
  <2> SUFFICES ASSUME Running, step.is = "auto", found.auto = {}, log.noAuto
               PROVE  FALSE
    BY DEF NoAutoWhenUnavailable
  <2>1. at \in Of(recipe, {"auto"})
    BY <1>2 DEF Of, step
  <2> QED BY <1>2, <1>4, <2>1
          DEF RouteInv, AfterNoAuto, Running, Findings, merge_enrollment_auto_consistency, AutoArms, Graph
<1>10. ReviewsAreCounted
  <2> SUFFICES ASSUME Running, step.is = "ci_event", found.waypoint = {}, off = {}, log.reviewed
               PROVE  FALSE
    BY DEF ReviewsAreCounted
  <2>1. at \in Of(recipe, {"ci_event"})
    BY <1>2 DEF Of, step
  <2> QED BY <1>2, <1>4, <2>1 DEF RouteInv, SinceReview, Running, Findings, review_loop_waypoint_guard
<1>11. WalkTypeOK
  BY <1>1, WalkTypes
<1> QED BY <1>5, <1>6, <1>7, <1>8, <1>9, <1>10, <1>11 DEF RoutesHold

\* For every recipe: where the rules about the order of steps are silent, no walk breaks
\* the order, and no walk goes a way that the rules did not search.
THEOREM RoutesKept == WalkSpec => []RoutesHold
<1> QED BY RouteInvHolds, RoutesFollow, PTL

-----------------------------------------------------------------------------
(* What the analysis says of values *)

\* Where a value captured is still the current one, the walk is at a step its capture reaches.
CapturesReach ==
  \A v \in {"w", "x"} : ctx.by[v] # None /\ Walking => at \in bfs_reachable(Graph, ctx.by[v])

LEMMA CapturesReachStep ==
  ASSUME WalkTyped, [WalkNext]_walkVars, CapturesReach
  PROVE  CapturesReach'
<1>1. recipe' = recipe /\ Graph' = Graph
  BY Constants
<1> SUFFICES ASSUME NEW v \in {"w", "x"}, ctx'.by[v] # None, Walking'
             PROVE  at' \in _bfs_capped(Graph, Graph[ctx'.by[v]], {})
  BY <1>1 DEF CapturesReach, bfs_reachable
<1>2. ASSUME ctx'.by[v] = ctx.by[v], Walking PROVE at' \in _bfs_capped(Graph, Graph[ctx'.by[v]], {})
  BY <1>2, Followed DEF CapturesReach, bfs_reachable
<1>3. CASE load_and_validate
  BY <1>3, LoadTyped DEF WalkTyped
<1>4. CASE Skip \/ Stays
  BY <1>2, <1>4, SkipMoves DEF Stays, Walking
<1>5. ASSUME NEW ok \in BOOLEAN, Left(ok) PROVE at' \in _bfs_capped(Graph, Graph[ctx'.by[v]], {})
  <2>1. Walking /\ at \in Names(recipe) /\ at' \in Declared(recipe)[at]
    BY <1>5, AtStep DEF Left, LeftAlong, Running
  <2>2. at' \in Graph[at] /\ at' \in Names(recipe)
    BY <2>1, GraphHasDeclared, GraphSteps DEF Graph
  <2>3. CASE ctx'.by[v] = at
    BY <2>2, <2>3, ReachStarts, GraphSteps
  <2>4. CASE ctx'.by[v] # at
    <3>1. ctx'.by[v] = ctx.by[v]
      BY <1>5, <2>4 DEF Left, LeftContext, Captures
    <3> QED BY <1>2, <2>1, <3>1
  <2> QED BY <2>3, <2>4
<1> QED BY <1>3, <1>4, <1>5, Moves

\* Where w is set, some step captures it.
WIsCaptured == ctx.w # "unset" => \E s \in Names(recipe) : "w" \in recipe[s].capture

LEMMA WIsCapturedStep ==
  ASSUME WalkTyped, [WalkNext]_walkVars, WIsCaptured
  PROVE  WIsCaptured'
<1>1. recipe' = recipe
  BY Constants
<1>2. CASE load_and_validate \/ Skip \/ Stays
  BY <1>1, <1>2, LoadTyped, SkipMoves DEF Stays, WIsCaptured
<1>3. ASSUME NEW ok \in BOOLEAN, Left(ok) PROVE WIsCaptured'
  <2>1. at \in Names(recipe)
    BY <1>3, AtStep DEF Left, Running
  <2>2. CASE ctx'.w = ctx.w /\ ctx'.x = ctx.x /\ ctx'.by = ctx.by
    BY <1>1, <2>2 DEF WIsCaptured
  <2>3. CASE Captures
    BY <1>1, <2>1, <2>3 DEF WIsCaptured, Captures, step
  <2> QED BY <1>3, <2>2, <2>3 DEF Left, LeftContext
<1> QED BY <1>2, <1>3, Moves

RefsTracked ==
  /\ \A s \in Of(recipe, {"merge"}) : recipe[s].result = <<>>
  /\ \A s \in Of(recipe, {"confirm"}) : "w" \notin recipe[s].capture

Capturing == {s \in Names(recipe) : "w" \in recipe[s].capture}

\* A worktree that a merge has removed leaves the walk where REF_INVALIDATED looks.
GoneIsSearched ==
  /\ ctx.w = "gone" /\ Walking /\ off = {} /\ RefsTracked
  /\ \A s \in log.failed : "w" \notin recipe[s].capture
  => \E m \in Of(recipe, {"merge"}) :
       recipe[m].success \in Names(recipe) /\ at \in _bfs_capped(Graph, {recipe[m].success}, Capturing)

LEMMA GoneIsSearchedStep ==
  ASSUME WalkTyped, [WalkNext]_walkVars, GoneIsSearched
  PROVE  GoneIsSearched'
<1>1. recipe' = recipe /\ off' = off /\ Graph' = Graph /\ Capturing' = Capturing /\ (RefsTracked' <=> RefsTracked)
  BY Constants DEF Capturing, RefsTracked, Of
<1> SUFFICES ASSUME ctx'.w = "gone", Walking', off = {}, RefsTracked,
                    \A s \in log'.failed : "w" \notin recipe[s].capture
             PROVE  \E m \in Of(recipe, {"merge"}) :
                      /\ recipe[m].success \in Names(recipe)
                      /\ at' \in _bfs_capped(Graph, {recipe[m].success}, Capturing)
  BY <1>1 DEF GoneIsSearched, Of
<1>2. CASE load_and_validate
  BY <1>2, LoadTyped DEF WalkTyped
<1>3. CASE Skip
  BY <1>3, SkipMoves
<1>4. CASE Stays
  BY <1>4 DEF Stays, GoneIsSearched, Walking
<1>5. ASSUME NEW ok \in BOOLEAN, Left(ok)
      PROVE  \E m \in Of(recipe, {"merge"}) :
               /\ recipe[m].success \in Names(recipe)
               /\ at' \in _bfs_capped(Graph, {recipe[m].success}, Capturing)
  <2>1. Walking /\ at \in Names(recipe) /\ at' \in Declared(recipe)[at]
    BY <1>5, AtStep DEF Left, LeftAlong, Running
  <2>2. at' \in Graph[at] /\ at' \in Names(recipe)
    BY <2>1, GraphHasDeclared, GraphSteps DEF Graph
  <2>3. log'.failed = IF ok THEN log.failed \ {at} ELSE log.failed \union {at}
    BY <1>5 DEF Left, LeftLog
  <2>4. ~(step.is = "stop" /\ ~Walking')
    OBVIOUS
  <2>5. "w" \notin step.capture
    <3>1. CASE step.is = "confirm"
      BY <2>1, <3>1 DEF RefsTracked, Of, step
    <3>2. CASE ok /\ Captures
      BY <3>2 DEF Captures
    <3>3. CASE ~ok
      BY <2>3, <3>3 DEF step
    <3> QED BY <1>5, <2>4, <3>1, <3>2, <3>3 DEF Left, LeftContext
  <2>6. \A s \in log.failed : "w" \notin recipe[s].capture
    BY <2>3, <2>5 DEF step
  <2>7. CASE ctx.w = "gone"
    <3>1. PICK m \in Of(recipe, {"merge"}) :
            recipe[m].success \in Names(recipe) /\ at \in _bfs_capped(Graph, {recipe[m].success}, Capturing)
      BY <2>1, <2>6, <2>7 DEF GoneIsSearched
    <3>2. at \notin Capturing
      BY <2>5 DEF Capturing, step
    <3> QED BY <2>2, <3>1, <3>2, ReachEdges, GraphSteps
  <2>8. CASE ctx.w # "gone"
    <3>1. ok /\ Captures /\ step.is = "merge"
      BY <1>5, <2>4, <2>5, <2>8 DEF Left, LeftContext, Captures
    <3>2. at \in Of(recipe, {"merge"}) /\ step.result = <<>>
      BY <2>1, <3>1 DEF RefsTracked, Of, step
    <3>3. Targets(step) = {}
      BY <3>2 DEF Targets, Arms
    <3>4. at' = recipe[at].success
      BY <1>5, <3>1, <3>3 DEF Left, LeftAlong, step
    <3> QED BY <2>2, <3>2, <3>4, ReachStarts, GraphSteps
  <2> QED BY <2>7, <2>8
<1> QED BY <1>2, <1>3, <1>4, <1>5, Moves

\* What FactsHold asks of the recipe.
OneWay ==
  \A s \in Names(recipe) :
    /\ 1 \notin Graph[s] /\ ("x" \in recipe[s].capture => s = 1)
    /\ \A i, j \in DOMAIN recipe[s].result : recipe[s].result[i].to = recipe[s].result[j].to => i = j
    /\ {recipe[s].failure, recipe[s].limit, recipe[s].exhausted} \intersect Targets(recipe[s]) = {}

Says(f) == IF f = "x1" THEN 1 ELSE 2

\* Until what a fact says is so, the walk is where it could come without an edge that says it.
FactsArrive ==
  off = {} /\ OneWay /\ Walking =>
    /\ at = 1 => ctx.x = 0
    /\ \A f \in {"x1", "x2"} : at \in _bfs_capped(Without(recipe, Graph, f), {1}, {}) \/ ctx.x = Says(f)

\* An edge that establishes a fact is taken by its condition, so the fact holds.
LEMMA FactTaken ==
  ASSUME WalkTyped, OneWay, at # Unread, NEW ok \in BOOLEAN, Left(ok), Walking', at' \in Names(recipe),
         NEW f \in {"x1", "x2"}, f \in _edge_fact(recipe, at, at')
  PROVE  ctx'.x = Says(f)
<1>1. Walking /\ at \in Names(recipe) /\ at' # None
  BY AtStep, Positions DEF Left, Running, None
<1> DEFINE said == {i \in DOMAIN recipe[at].result : recipe[at].result[i].to = at' /\ recipe[at].result[i].when # "any"}
           one == CHOOSE i \in said : \A j \in said : i <= j
<1>2. said # {} /\ f = recipe[at].result[one].when
  BY DEF _edge_fact
<1>3. recipe[at].result \in Seq([when : Whens, to : 0..Len(recipe)])
  BY <1>1, StepTypes
<1>4. DOMAIN recipe[at].result = 1..Len(recipe[at].result) /\ Len(recipe[at].result) \in Nat
  BY <1>3
<1>5. one \in said
  <2>1. \E i \in said : \A j \in said : i <= j
    BY <1>2, <1>4, Foremost
  <2> HIDE DEF said
  <2> QED BY <2>1
<1>6. one \in DOMAIN recipe[at].result /\ recipe[at].result[one].to = at' /\ recipe[at].result # <<>>
  <2>1. one \in DOMAIN recipe[at].result /\ recipe[at].result[one].to = at'
    <3> HIDE DEF one
    <3> QED BY <1>5
  <2> HIDE DEF one
  <2>2. recipe[at].result # <<>>
    <3> SUFFICES ASSUME recipe[at].result = <<>> PROVE FALSE
      OBVIOUS
    <3> QED BY <2>1
  <2> QED BY <2>1, <2>2
<1> HIDE DEF one
<1>7. recipe[at].result[one].when \in Whens
  <2>1. recipe[at].result[one] \in [when : Whens, to : 0..Len(recipe)]
    BY <1>3, <1>4, <1>6, ElementOfSeq
  <2> QED BY <2>1
<1>8. at' \in Targets(recipe[at])
  BY <1>6, <1>7 DEF Targets, Arms
<1>9. ok
  BY <1>1, <1>8 DEF Left, LeftAlong, OneWay, step
<1>10. PICK answer \in {"ok", "timeout"} : at' = First(answer, ctx')
  BY <1>6, <1>9 DEF Left, LeftAlong, step
<1>11. PICK k \in DOMAIN recipe[at].result : /\ at' = recipe[at].result[k].to
                                             /\ recipe[at].result[k].when = "x1" => ctx'.x = 1
                                             /\ recipe[at].result[k].when = "x2" => ctx'.x = 2
  BY <1>1, <1>10, FirstTaken DEF step
<1>12. k = one
  BY <1>1, <1>6, <1>11 DEF OneWay
<1> QED BY <1>2, <1>11, <1>12 DEF Says

LEMMA FactsArriveStep ==
  ASSUME WalkTyped, [WalkNext]_walkVars, FactsArrive
  PROVE  FactsArrive'
<1>1. recipe' = recipe /\ off' = off /\ Graph' = Graph /\ (OneWay' <=> OneWay)
  BY Constants DEF OneWay
<1> SUFFICES ASSUME off = {}, OneWay, Walking'
             PROVE  /\ at' = 1 => ctx'.x = 0
                    /\ \A f \in {"x1", "x2"} : \/ at' \in _bfs_capped(Without(recipe, Graph, f), {1}, {})
                                               \/ ctx'.x = Says(f)
  BY <1>1 DEF FactsArrive
<1>2. CASE load_and_validate
  <2>1. at' = 1 /\ ctx'.x = 0 /\ 1 \in Names(recipe)
    BY <1>2, LoadTyped, Positions DEF WalkTyped
  <2>2. \A f : DOMAIN Without(recipe, Graph, f) = Names(recipe)
    BY DEF Without
  <2> QED BY <2>1, <2>2, ReachStarts
<1>3. CASE Skip
  BY <1>3, SkipMoves
<1>4. CASE Stays
  BY <1>4 DEF Stays, FactsArrive, Walking
<1>5. ASSUME NEW ok \in BOOLEAN, Left(ok), NEW f \in {"x1", "x2"}
      PROVE  at' # 1 /\ (at' \in _bfs_capped(Without(recipe, Graph, f), {1}, {}) \/ ctx'.x = Says(f))
  <2>1. Walking /\ at \in Names(recipe) /\ at # Unread /\ at' \in Declared(recipe)[at]
    BY <1>5, AtStep DEF Left, LeftAlong, Running
  <2>2. at' \in Graph[at] /\ at' \in Names(recipe)
    BY <2>1, GraphHasDeclared, GraphSteps DEF Graph
  <2>3. at' # 1
    BY <2>1, <2>2 DEF OneWay
  <2>4. CASE ctx.x = Says(f)
    <3>1. at # 1
      BY <2>1, <2>4 DEF FactsArrive, Says
    <3>2. "x" \notin step.capture
      BY <2>1, <3>1 DEF OneWay, step
    <3>3. ctx'.x = ctx.x
      BY <1>5, <3>2 DEF Left, LeftContext, Captures
    <3> QED BY <2>3, <2>4, <3>3
  <2>5. CASE f \in _edge_fact(recipe, at, at')
    BY <1>5, <2>1, <2>2, <2>3, <2>5, FactTaken
  <2>6. CASE ctx.x # Says(f) /\ f \notin _edge_fact(recipe, at, at')
    <3>1. at \in _bfs_capped(Without(recipe, Graph, f), {1}, {})
      BY <2>1, <2>6 DEF FactsArrive
    <3>2. at' \in Without(recipe, Graph, f)[at] /\ DOMAIN Without(recipe, Graph, f) = Names(recipe)
      BY <2>1, <2>2, <2>6 DEF Without
    <3> QED BY <2>2, <2>3, <3>1, <3>2, ReachEdges
  <2> QED BY <2>4, <2>5, <2>6
<1> QED BY <1>2, <1>3, <1>4, <1>5, Moves

\* What the rules about values rest on.
ValueInv == WalkTyped /\ CapturesReach /\ WIsCaptured /\ GoneIsSearched /\ FactsArrive

LEMMA InitValueInv == WalkInit => ValueInv
<1> SUFFICES ASSUME WalkInit PROVE ValueInv
  OBVIOUS
<1>1. WalkTyped
  BY InitWalkTyped
<1>2. ~Walking /\ ctx.w = "unset"
  BY DEF WalkInit, WalkStart, Unread, Walking
<1> QED BY <1>1, <1>2 DEF ValueInv, CapturesReach, WIsCaptured, GoneIsSearched, FactsArrive

LEMMA ValueInvHolds == WalkSpec => []ValueInv
<1>1. ValueInv /\ [WalkNext]_walkVars => ValueInv'
  BY Moves, CapturesReachStep, WIsCapturedStep, GoneIsSearchedStep, FactsArriveStep DEF ValueInv
<1> QED BY <1>1, InitValueInv, PTL DEF WalkSpec

LEMMA ValuesFollow == ValueInv => ValuesHold
<1> SUFFICES ASSUME ValueInv PROVE ValuesHold
  OBVIOUS
<1>1. WalkTyped
  BY DEF ValueInv
<1>2. Running => at \in Names(recipe) /\ at # Unread /\ Walking
  BY <1>1, AtStep DEF Running
<1>3. at # Unread => found = Findings(recipe)
  BY <1>1 DEF WalkTyped
<1>4. DeadIsDead
  <2> SUFFICES ASSUME Running, NEW v \in Reads(step), <<ctx.by[v], v>> \in found.dead
               PROVE  FALSE
    BY DEF DeadIsDead
  <2>1. found.dead = detect_dead_outputs(recipe)
    BY <1>2, <1>3 DEF Findings
  <2> DEFINE dead(s) == {u \in recipe[s].capture : \A t \in bfs_reachable(Graph, s) : u \notin Reads(recipe[t])}
  <2>2. detect_dead_outputs(recipe) = UNION {{<<s, u>> : u \in dead(s)} : s \in {t \in Names(recipe) : recipe[t].result = <<>>}}
    BY DEF detect_dead_outputs, Graph
  <2>3. PICK s \in Names(recipe) : \E u \in dead(s) : <<ctx.by[v], v>> = <<s, u>>
    BY <2>1, <2>2
  <2>4. ctx.by[v] = s /\ v \in dead(s)
    BY <2>3
  <2>5. s # None /\ v \in {"w", "x"}
    <3>1. recipe[s].capture \subseteq {"w", "x"}
      BY <1>1 DEF WalkTyped, IsRecipe, Names
    <3> QED BY <2>4, <3>1, Positions, <1>1 DEF None
  <2>6. at \in bfs_reachable(Graph, s)
    BY <1>2, <2>4, <2>5 DEF ValueInv, CapturesReach
  <2> QED BY <2>4, <2>6 DEF step
<1>5. NoStaleRef
  <2> SUFFICES ASSUME Running, "w" \in step.reads, at \notin found.stale, step.is # "merge", RefsTracked,
                      \A s \in log.failed : "w" \notin recipe[s].capture, off = {}, ctx.w = "gone"
               PROVE  FALSE
    BY DEF NoStaleRef, RefsTracked
  <2>1. PICK m \in Of(recipe, {"merge"}) :
          recipe[m].success \in Names(recipe) /\ at \in _bfs_capped(Graph, {recipe[m].success}, Capturing)
    BY <1>2 DEF ValueInv, GoneIsSearched
  <2>2. Capturing # {}
    BY DEF ValueInv, WIsCaptured, Capturing
  <2>3. at # m
    BY <2>1 DEF Of, step
  <2>4. at \in detect_ref_invalidations(recipe)
    <3> DEFINE merges == {s \in Of(recipe, {"merge"}) : Capturing # {} /\ recipe[s].success \in Names(recipe)}
               uses(n) == {s \in _bfs_capped(Graph, {recipe[n].success}, Capturing) \intersect (Names(recipe) \ {n}) :
                             "w" \in recipe[s].reads}
    <3>1. detect_ref_invalidations(recipe) = UNION {uses(n) : n \in merges}
      BY DEF detect_ref_invalidations, Graph, Capturing
    <3>2. m \in merges
      BY <2>1, <2>2
    <3>3. at \in uses(m)
      BY <1>2, <2>1, <2>3 DEF step
    <3> HIDE DEF merges, uses
    <3> QED BY <3>1, <3>2, <3>3
  <2> QED BY <1>2, <1>3, <2>4 DEF Findings
<1>6. FactsHold
  <2> SUFFICES ASSUME Running, off = {}, OneWay, NEW f \in {"x1", "x2"}, f \in found.known[at]
               PROVE  ctx.x = Says(f)
    BY DEF FactsHold, OneWay, Graph, Says
  <2>1. Entry(recipe) = 1
    <3> DEFINE free == {s \in Names(recipe) : \A p \in Names(recipe) : s \notin Graph[p]}
    <3>1. 1 \in free /\ free \subseteq 1..Len(recipe)
      BY <1>1, Positions DEF OneWay
    <3>2. \A s \in free : (\A t \in free : s <= t) <=> s = 1
      BY <3>1
    <3>3. Entry(recipe) = CHOOSE s \in free : \A t \in free : s <= t
      BY <3>1 DEF Entry, Graph
    <3> HIDE DEF free
    <3> QED BY <3>1, <3>2, <3>3
  <2>2. f \in _bfs_with_facts(recipe, Graph, 1)[at]
    BY <1>2, <1>3, <2>1 DEF Findings, Known, Graph
  <2>3. at \notin _bfs_capped(Without(recipe, Graph, f), {1}, {})
    BY <1>2, <2>2 DEF _bfs_with_facts
  <2> QED BY <1>2, <2>3 DEF ValueInv, FactsArrive
<1> QED BY <1>4, <1>5, <1>6 DEF ValuesHold

\* For every recipe: a capture reported dead is never read, a worktree reference that is not
\* reported is not stale, and a fact known at a step holds there.
THEOREM ValuesKept == WalkSpec => []ValuesHold
<1> QED BY ValueInvHolds, ValuesFollow, PTL
=============================================================================
