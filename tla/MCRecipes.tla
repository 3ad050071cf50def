----------------------------- MODULE MCRecipes -----------------------------
(***************************************************************************)
(* Recipes of three and four steps, a family for each rule.                *)
(***************************************************************************)
EXTENDS RecipeWalk

Step(is, ok, bad) ==
  [is |-> is, success |-> ok, failure |-> bad, limit |-> None, exhausted |-> Escalate, retries |-> 0,
   result |-> <<>>, skip |-> FALSE, capture |-> {}, reads |-> {}]

On(when, to) == [when |-> when, to |-> to]
Judge(is, arms, bad) == [Step(is, None, bad) EXCEPT !.result = arms]

\* Steps that may be skipped, fail or run out of context on the way to a push.
AuditRecipe(rec) ==
  \E a \in {2, 3}, b \in {None, 4}, i, j \in {"skill", "audit"}, c \in {3, 4}, l \in {None, 4},
     k, m \in BOOLEAN, d \in {2, 4}, e \in {None, 2}, x \in {4, Escalate} : rec =
   <<Step("cmd", a, b), [Step(i, c, None) EXCEPT !.skip = k, !.limit = l],
     [Step(j, d, e) EXCEPT !.skip = m, !.exhausted = x], Step("push", Done, None)>>

\* Two ways to publish a base before a merge.
PublishRecipe(rec) ==
  \E a, b \in 2..4, c \in {None, 4}, i, j \in {"push", "publish", "cmd"}, d \in {3, 4}, e \in {None, 3},
     f \in {2, 4} : rec =
   <<Judge("cmd", <<On("x1", a), On("any", b)>>, c), Step(i, d, e), Step(j, f, None), Step("merge", Done, None)>>

\* A worktree captured, merged and used again; a value captured and read or not.
DataRecipe(rec) ==
  \E a \in {2, 3}, b \in {None, 4}, c \in {3, 4, Done}, d \in {3, Done}, e \in {2, 4}, f \in {None, 1},
     p \in {{}, {"w"}}, q, r \in {{}, {"w"}, {"x"}}, h \in {Done, 2} : rec =
   <<[Step("implement", a, b) EXCEPT !.capture = {"w", "x"}], [Step("merge", c, d) EXCEPT !.reads = {"w"}],
     [Step("implement", e, f) EXCEPT !.capture = p, !.reads = q],
     [Step("cmd", h, None) EXCEPT !.reads = r]>>

\* A wait for the merge queue, its timeout and its failure, and the release.
WaitRecipe(rec) ==
  \E a, b \in 2..4, c \in {None, 2, 3, 4}, d \in {3, 4, Done}, e \in {None, 3, 4}, k \in BOOLEAN,
     i \in {"cmd", "confirm", "stop"}, f \in {1, 4, Done} : rec =
   <<Judge("wait", <<On("timeout", a), On("any", b)>>, c), [Step("cmd", d, e) EXCEPT !.skip = k],
     Step(i, f, Done), Step("release", Done, None)>>

\* Auto-merge asked for, or not, by what the repository allows.
AutoRecipe(rec) ==
  \E a, b \in 2..3, v \in {"any", "x1"}, c \in {1, 3, Done}, d \in {None, 1, 3}, k \in BOOLEAN, e \in {Done, 2},
     f \in {None, 1}, g \in {None, 2, 3} : rec =
   <<Judge("route", <<On("no_auto", a), On(v, b)>>, g), [Step("cmd", c, d) EXCEPT !.skip = k],
     Step("auto", e, f)>>

\* A review, the loop's counter and the CI event check.
ReviewRecipe(rec) ==
  \E a, b \in 2..4, c \in {None, 4}, d \in {1, 3, 4}, e \in {None, 4}, f \in {1, 2, 4}, g \in {None, 4} : rec =
   <<Judge("review", <<On("x1", a), On("any", b)>>, c), Step("review_loop", d, e), Step("cmd", f, g),
     Step("ci_event", Done, None)>>

\* Any graph of three plain steps.
CycleRecipe(rec) ==
  \E a, b, c, d, e, f \in {None, 1, 2, 3} : rec =
   <<Step("cmd", a, b), Step("cmd", c, d), Step("cmd", e, f)>>

\* A value captured first and judged twice.
FactRecipe(rec) ==
  \E a \in 2..4, i \in {"cmd", "skill"}, b \in 2..4, c \in {3, 4}, v \in {"any", "x2"}, d \in {None, 3, 4}, e, f \in {2, 4},
     h \in {None, 2, 3} : rec =
   <<[Step("cmd", a, None) EXCEPT !.capture = {"x"}], Judge(i, <<On("x1", b), On(v, c)>>, d),
     Judge("route", <<On("x2", e), On("any", f)>>, None), [Step("cmd", Done, h) EXCEPT !.reads = {"x"}]>>

\* Loops through a step that retries or counts.
LoopRecipe(rec) ==
  \E a, b, c, d, e, f \in {Done, 1, 2, 3} : rec =
   <<Judge("guard", <<On("spent", a), On("any", b)>>, None), [Step("skill", c, d) EXCEPT !.retries = 1],
     Step("cmd", e, f)>>

MCRecipe(rec) ==
  \/ AuditRecipe(rec) \/ PublishRecipe(rec) \/ DataRecipe(rec) \/ WaitRecipe(rec) \/ AutoRecipe(rec)
  \/ ReviewRecipe(rec) \/ CycleRecipe(rec) \/ FactRecipe(rec)
=============================================================================
