---------------------------- MODULE SessionGuards ----------------------------
(***************************************************************************)
(* Who may call what: the sessions of one project, the hooks Claude Code   *)
(* runs before and after each of their tool calls, and the tier guards the *)
(* server applies again.  A session can have several calls in flight, and  *)
(* the hooks of the project share its files.                               *)
(*                                                                         *)
(* A hook that crashes or cannot parse its input lets the call through.    *)
(***************************************************************************)
EXTENDS Naturals, Sequences, FiniteSets

CONSTANTS
  MaxSessionsRun,  \* bound: sessions there ever are
  CallSlots,       \* bound: calls in flight
  MaxReviews,      \* bound: results that ask for a review or clear it
  MaxHookFails     \* bound: hooks that fail open

ASSUME GuardsAssumption == {MaxSessionsRun, MaxReviews, MaxHookFails} \subseteq Nat

VARIABLES
  family,      \* the sessions: what their environment says, and who started them
  toolCalls,   \* the calls in flight: session, tool, how far they are
  loaded,      \* skill_guard_<session>.flag
  marked,      \* the sessions with a kitchen marker less than a day old
  review,      \* review_gate_state.json
  rework,      \* history: the review that asked last has not been followed by check_review_loop
  tangled,     \* history: two hooks that write the review state overlapped
  slipped,     \* history: a gated call was let through behind a review that was not checked
  reviews,     \* how many results spoke of a review
  hookFails    \* hooks that have failed open

guardVars == <<family, toolCalls, loaded, marked, review, rework, tangled, slipped, reviews, hookFails>>

NoReview == [gate |-> "none", called |-> FALSE]
NoCall == [by |-> 0, tool |-> "", pc |-> "free", tag |-> "none", copy |-> NoReview]
Sess(headless, type, profile, parent) ==
  [headless |-> headless, type |-> type, profile |-> profile, parent |-> parent]

\* What a person starts is interactive: plain claude, the cook command, a fleet.
GuardsInit ==
  /\ family \in {<<Sess(FALSE, t, FALSE, 0)>> : t \in {"skill", "orchestrator", "fleet"}}
  /\ toolCalls = [c \in CallSlots |-> NoCall] /\ slipped = FALSE /\ reviews = 0 /\ loaded = {} /\ marked = {}
  /\ review = NoReview /\ rework = FALSE /\ tangled = FALSE /\ hookFails = 0

Orchestration == {"run_skill", "check_review_loop"}   \* run_skill and run_python
Gated == {"wait_for_ci"}                              \* and enqueue_pr
NativeTools == {"Read"}                                    \* Read, Write, Edit, Bash, Grep, Glob
Callable == Orchestration \union Gated \union NativeTools
           \union {"open_kitchen", "dispatch_food_truck", "AskUserQuestion", "Skill"}

----------------------------------------------------------------------------
(* PreToolUse                                                              *)

skill_orchestration_guard(s, tool) ==
  tool \in Orchestration /\ family[s].headless /\ family[s].type \notin {"orchestrator", "fleet"}

\* Every headless session is denied, whatever its type.
fleet_dispatch_guard(s, tool) == tool = "dispatch_food_truck" /\ family[s].headless

open_kitchen_guard(s, tool) ==
  tool = "open_kitchen" /\ family[s].headless /\ family[s].type # "orchestrator"

ask_user_question_guard(s, tool) ==
  tool = "AskUserQuestion" /\ family[s].headless /\ s \notin marked

skill_load_guard(s, tool) ==
  tool \in NativeTools /\ family[s].profile /\ family[s].headless /\ family[s].type = "skill" /\ s \notin loaded

\* Mutant: any state that was once checked lets the call pass.
GateUnread(s, tool) == tool \in Gated /\ review.gate = "LOOP_REQUIRED" /\ ~review.called /\ family[s].headless

review_loop_gate(s, tool) == tool \in Gated /\ review.gate = "LOOP_REQUIRED" /\ ~review.called

Denied(s, tool) ==
  \/ skill_orchestration_guard(s, tool) \/ fleet_dispatch_guard(s, tool) \/ open_kitchen_guard(s, tool)
  \/ ask_user_question_guard(s, tool) \/ skill_load_guard(s, tool) \/ review_loop_gate(s, tool)

\* A food truck has its own tools and AskUserQuestion, no others of Claude Code's.
Offers(s, tool) == family[s].type = "orchestrator" /\ family[s].headless => tool \notin NativeTools \union {"Skill"}

HooksPending == \E d \in CallSlots : toolCalls[d].tool \in Orchestration /\ toolCalls[d].pc \in {"post", "writing"}

\* The kitchen's guard leaves the session's marker before the tool runs.  What the other tools do is
\* nothing the guards look at.
PreToolUse(s, tool) ==
  /\ Offers(s, tool)
  /\ \/ ~Denied(s, tool) /\ UNCHANGED hookFails
     \/ Denied(s, tool) /\ hookFails < MaxHookFails /\ hookFails' = hookFails + 1
  /\ marked' = IF tool = "open_kitchen" /\ ~Denied(s, tool) THEN marked \union {s} ELSE marked
  /\ slipped' = (slipped \/ (tool \in Gated /\ rework /\ ~HooksPending /\ ~tangled /\ ~Denied(s, tool)))
  /\ IF tool \in Orchestration \union {"dispatch_food_truck", "Skill"}
       THEN LET free == {c \in CallSlots : toolCalls[c].pc = "free"} IN free # {} /\ LET c == CHOOSE x \in free : TRUE IN
              toolCalls' = [toolCalls EXCEPT ![c] = [NoCall EXCEPT !.by = s, !.tool = tool,
                                                     !.pc = IF tool = "Skill" THEN "post" ELSE "called"]]
       ELSE UNCHANGED toolCalls
  /\ UNCHANGED <<family, loaded, review, rework, tangled, reviews>>

----------------------------------------------------------------------------
(* The tools                                                               *)

_require_orchestrator_or_higher(s) == ~family[s].headless \/ family[s].type \in {"orchestrator", "fleet"}

\* No interactive bypass.
_require_fleet(s) == family[s].type = "fleet"

Called(c, tool) == toolCalls[c].pc = "called" /\ toolCalls[c].tool = tool
CallGoes(c, pc, tag) == toolCalls' = [toolCalls EXCEPT ![c] = IF pc = "done" THEN NoCall ELSE [@ EXCEPT !.pc = pc, !.tag = tag]]

\* The child is a skill session, with the profile of a provider or without, and what it says may ask for
\* another review or end it.  Its environment is built over its parent's.
run_skill(c) ==
  LET s == toolCalls[c].by
  IN  /\ Called(c, "run_skill")
      /\ IF _require_orchestrator_or_higher(s)
           THEN \E profile \in BOOLEAN, tag \in {"none", "LOOP_REQUIRED", "CLEAR"} :
                  /\ Len(family) < MaxSessionsRun
                  /\ family' = Append(family, Sess(TRUE, "skill", profile, s)) /\ CallGoes(c, "post", tag)
                  /\ tag # "none" => reviews < MaxReviews
                  /\ reviews' = (IF tag = "none" THEN reviews ELSE reviews + 1)
                  /\ rework' = (IF tag = "none" THEN rework ELSE tag = "LOOP_REQUIRED")
           ELSE CallGoes(c, "done", "none") /\ UNCHANGED <<family, rework, reviews>>
      /\ UNCHANGED <<loaded, marked, review, tangled, slipped, hookFails>>

\* Only a fleet gets through; its food trucks are headless orchestrators.
dispatch_food_truck(c) ==
  LET s == toolCalls[c].by
  IN  /\ Called(c, "dispatch_food_truck")
      /\ IF _require_fleet(s)
           THEN Len(family) < MaxSessionsRun /\ family' = Append(family, Sess(TRUE, "orchestrator", FALSE, s))
           ELSE UNCHANGED family
      /\ CallGoes(c, "done", "none")
      /\ UNCHANGED <<loaded, marked, review, rework, tangled, slipped, reviews, hookFails>>

\* run_python asks for the tier as well.
check_review_loop(c) ==
  LET runs == _require_orchestrator_or_higher(toolCalls[c].by)
  IN  /\ Called(c, "check_review_loop")
      /\ CallGoes(c, IF runs THEN "post" ELSE "done", "none") /\ rework' = (rework /\ ~runs)
      /\ UNCHANGED <<family, loaded, marked, review, tangled, slipped, reviews, hookFails>>

----------------------------------------------------------------------------
(* PostToolUse                                                             *)

\* The flag is the session's, when it has a provider.
skill_load_post_hook(c) ==
  /\ toolCalls[c].pc = "post" /\ toolCalls[c].tool = "Skill"
  /\ loaded' = IF family[toolCalls[c].by].profile THEN loaded \union {toolCalls[c].by} ELSE loaded
  /\ CallGoes(c, "done", "none") /\ UNCHANGED <<family, marked, review, rework, tangled, slipped, reviews, hookFails>>

PostPending(c) == \E d \in CallSlots \ {c} : toolCalls[d].tool \in Orchestration /\ toolCalls[d].pc \in {"post", "writing"}

\* A result that asks for the loop begins it again, one that clears ends it.
ReviewTag(c) ==
  /\ toolCalls[c].pc = "post" /\ toolCalls[c].tool = "run_skill"
  /\ review' = CASE toolCalls[c].tag = "LOOP_REQUIRED" -> [gate |-> "LOOP_REQUIRED", called |-> FALSE]
                 [] toolCalls[c].tag = "CLEAR" -> NoReview
                 [] OTHER -> review
  /\ tangled' = (tangled \/ (toolCalls[c].tag # "none" /\ PostPending(c)))
  /\ CallGoes(c, "done", toolCalls[c].tag) /\ UNCHANGED <<family, loaded, marked, rework, slipped, reviews, hookFails>>

\* The state is read, and written with the mark.
ReadReview(c) ==
  /\ toolCalls[c].pc = "post" /\ toolCalls[c].tool = "check_review_loop"
  /\ toolCalls' = [toolCalls EXCEPT ![c] = IF review.gate = "LOOP_REQUIRED" THEN [@ EXCEPT !.pc = "writing", !.copy = review] ELSE NoCall]
  /\ tangled' = (tangled \/ PostPending(c)) /\ UNCHANGED <<family, loaded, marked, review, rework, slipped, reviews, hookFails>>

MarkReview(c) ==
  /\ toolCalls[c].pc = "writing" /\ review' = [toolCalls[c].copy EXCEPT !.called = TRUE]
  /\ CallGoes(c, "done", "none") /\ UNCHANGED <<family, loaded, marked, rework, tangled, slipped, reviews, hookFails>>

\* An old marker counts no more, and the start of a session sweeps it.
DayPasses ==
  /\ marked # {} /\ marked' = {}
  /\ UNCHANGED <<family, toolCalls, loaded, review, rework, tangled, slipped, reviews, hookFails>>

GuardsNext ==
  \/ \E s \in DOMAIN family, tool \in Callable : PreToolUse(s, tool)
  \/ \E c \in CallSlots :
       \/ run_skill(c) \/ dispatch_food_truck(c) \/ check_review_loop(c)
       \/ skill_load_post_hook(c) \/ ReviewTag(c) \/ ReadReview(c) \/ MarkReview(c)
  \/ DayPasses

GuardsSpec == GuardsInit /\ [][GuardsNext]_guardVars

----------------------------------------------------------------------------

\* A skill session starts nothing, whichever of its hooks failed; a fleet's food trucks are
\* orchestrators, which start skill sessions only: no session of a tier has one of the same
\* tier, or of a higher, among those that descend from it.
Tier(s) == CASE family[s].type = "skill" -> 1 [] family[s].type = "orchestrator" -> 2 [] OTHER -> 3
Descends ==
  \A s \in DOMAIN family : family[s].parent # 0 =>
    LET p == family[s].parent
    IN  Tier(p) > Tier(s) \/ ~family[p].headless

\* Unless two hooks were at the review's state at once, or the gate failed, nobody is let through to wait for CI or to
\* enter the queue between a review that asks for changes, once its hook has run, and check_review_loop.
Reviewed == ~slipped

GuardsHold == Descends /\ Reviewed
=============================================================================
