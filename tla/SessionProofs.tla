--------------------------- MODULE SessionProofs ---------------------------
(***************************************************************************)
(* Proofs about what surrounds the sessions: the guards that hem them in,  *)
(* for any number of sessions, calls, reviews and hooks that fail; the     *)
(* issues they file, for any reports, fingerprints and batches; and the    *)
(* logs they leave, for any servers, campaigns, runs and crashes.          *)
(***************************************************************************)
EXTENDS SessionGuards, IssueReports, SessionLogs, SequenceTheorems, FiniteSetTheorems, TLAPS

(***************************************************************************)
(* The guards.  A call belongs to a session; and a review that asks for    *)
(* changes, while no two hooks were at its state at once, is either still  *)
(* with the hook that will write it, or is written and nothing under way   *)
(* will take it back.                                                      *)
(***************************************************************************)
ReviewStates == [gate : {"none", "LOOP_REQUIRED"}, called : BOOLEAN]
GuardSessions ==
  [headless : BOOLEAN, type : {"skill", "orchestrator", "fleet"}, profile : BOOLEAN, parent : Nat]
GuardCalls ==
  [by : Nat, tool : Callable \union {""}, pc : {"free", "called", "post", "writing"},
   tag : {"none", "LOOP_REQUIRED", "CLEAR"}, copy : ReviewStates]

GuardsTyped ==
  /\ family \in Seq(GuardSessions)
  /\ toolCalls \in [CallSlots -> GuardCalls]
  /\ review \in ReviewStates
  /\ \A c \in CallSlots : toolCalls[c].pc # "free" => toolCalls[c].by \in DOMAIN family
  /\ \A c \in CallSlots : toolCalls[c].pc = "writing" => toolCalls[c].tool = "check_review_loop"
  /\ \A s \in DOMAIN family : family[s].parent # 0 => family[s].parent \in DOMAIN family

\* The hook of a result that asks for another review is still to run.
Asking(t) == t.tool = "run_skill" /\ t.pc = "post" /\ t.tag = "LOOP_REQUIRED"

\* A hook that will end the review, or write a state it read before.
Ending(t) ==
  \/ t.tool = "run_skill" /\ t.pc = "post" /\ t.tag = "CLEAR"
  \/ t.tool = "check_review_loop" /\ t.pc \in {"post", "writing"}

Asked == review.gate = "LOOP_REQUIRED" /\ ~review.called

Remembered ==
  \/ tangled \/ ~rework
  \/ \E c \in CallSlots : Asking(toolCalls[c])
  \/ Asked /\ \A c \in CallSlots : ~Ending(toolCalls[c])

GuardsInv == GuardsTyped /\ Descends /\ Remembered /\ Reviewed

LEMMA NoCallType == NoCall \in GuardCalls
BY DEF NoCall, NoReview, GuardCalls, ReviewStates

LEMMA Single ==
  ASSUME NEW S, NEW x \in S
  PROVE  <<x>> \in Seq(S) /\ DOMAIN <<x>> = {1} /\ <<x>>[1] = x
OBVIOUS

LEMMA GuardsInitInv == GuardsInit => GuardsInv
<1> SUFFICES ASSUME GuardsInit PROVE GuardsInv
  OBVIOUS
<1>1. PICK t \in {"skill", "orchestrator", "fleet"} : family = <<Sess(FALSE, t, FALSE, 0)>>
  BY DEF GuardsInit
<1>2. Sess(FALSE, t, FALSE, 0) \in GuardSessions /\ Sess(FALSE, t, FALSE, 0).parent = 0
  BY DEF Sess, GuardSessions
<1>3. family \in Seq(GuardSessions) /\ \A s \in DOMAIN family : family[s].parent = 0
  <2>1. family \in Seq(GuardSessions) /\ DOMAIN family = {1} /\ family[1] = Sess(FALSE, t, FALSE, 0)
    BY <1>1, <1>2, Single
  <2> QED BY <1>2, <2>1
<1>4. toolCalls \in [CallSlots -> GuardCalls] /\ \A c \in CallSlots : toolCalls[c].pc = "free"
  BY NoCallType DEF GuardsInit, NoCall
<1>5. review \in ReviewStates
  BY DEF GuardsInit, NoReview, ReviewStates
<1> QED BY <1>3, <1>4, <1>5 DEF GuardsInit, GuardsInv, GuardsTyped, Descends, Remembered, Reviewed

-----------------------------------------------------------------------------
(* Which session starts which. *)

Rank(type) == CASE type = "skill" -> 1 [] type = "orchestrator" -> 2 [] OTHER -> 3
Below(sessions) ==
  \A s \in DOMAIN sessions : sessions[s].parent # 0 =>
    LET p == sessions[sessions[s].parent]
    IN  Rank(p.type) > Rank(sessions[s].type) \/ ~p.headless

LEMMA DescendsBelow == Descends <=> Below(family)
BY DEF Descends, Below, Tier, Rank

\* A session is added below the one that called for it.
LEMMA Descended ==
  ASSUME GuardsTyped, Descends, NEW s \in DOMAIN family, NEW new \in GuardSessions,
         new.parent = s, family' = Append(family, new),
         \/ new.type = "skill" /\ _require_orchestrator_or_higher(s)
         \/ new.type = "orchestrator" /\ _require_fleet(s)
  PROVE  /\ family' \in Seq(GuardSessions)
         /\ DOMAIN family \subseteq DOMAIN family'
         /\ \A t \in DOMAIN family' : family'[t].parent # 0 => family'[t].parent \in DOMAIN family'
         /\ Below(family')
<1>1. /\ family' \in Seq(GuardSessions) /\ DOMAIN family' = DOMAIN family \union {Len(family) + 1}
      /\ \A t \in DOMAIN family : family'[t] = family[t]
      /\ family'[Len(family) + 1] = new /\ Len(family) + 1 \notin DOMAIN family
  BY DEF GuardsTyped
<1>2. \A t \in DOMAIN family : family[t].parent # 0 => family[t].parent \in DOMAIN family
  BY DEF GuardsTyped
<1>3. Below(family)
  BY DescendsBelow
<1>4. family[s].type \in {"skill", "orchestrator", "fleet"} /\ family[s].headless \in BOOLEAN
  <2>1. family[s] \in GuardSessions
    BY DEF GuardsTyped
  <2> QED BY <2>1 DEF GuardSessions
<1>5. Rank(family[s].type) > Rank(new.type) \/ ~family[s].headless
  BY <1>4 DEF Rank, _require_orchestrator_or_higher, _require_fleet
<1>6. ASSUME NEW t \in DOMAIN family', family'[t].parent # 0
      PROVE  LET p == family'[family'[t].parent] IN Rank(p.type) > Rank(family'[t].type) \/ ~p.headless
  <2>1. CASE t \in DOMAIN family
    <3>1. family'[t] = family[t] /\ family[t].parent # 0 /\ family[t].parent \in DOMAIN family
      BY <1>1, <1>2, <1>6, <2>1
    <3>2. family'[family[t].parent] = family[family[t].parent]
      BY <1>1, <3>1
    <3> QED BY <1>3, <2>1, <3>1, <3>2 DEF Below
  <2>2. CASE t = Len(family) + 1
    BY <1>1, <1>5, <2>2
  <2> QED BY <1>1, <2>1, <2>2
<1>7. Below(family')
  BY <1>6 DEF Below
<1> QED BY <1>1, <1>2, <1>7

-----------------------------------------------------------------------------
(* The calls in flight. *)

\* One call moves on, and a session may be added; what the other calls ask for, or will end, stays.
LEMMA CallMoves ==
  ASSUME GuardsTyped, NEW c \in CallSlots, NEW t \in GuardCalls, toolCalls' = [toolCalls EXCEPT ![c] = t],
         t.pc # "free" => t.by \in DOMAIN family,
         t.pc = "writing" => t.tool = "check_review_loop",
         family' \in Seq(GuardSessions), DOMAIN family \subseteq DOMAIN family',
         \A u \in DOMAIN family' : family'[u].parent # 0 => family'[u].parent \in DOMAIN family',
         review' \in ReviewStates
  PROVE  GuardsTyped' /\ \A d \in CallSlots : toolCalls'[d] = IF d = c THEN t ELSE toolCalls[d]
BY DEF GuardsTyped

LEMMA SameFamily ==
  ASSUME GuardsTyped, Descends, family' = family
  PROVE  /\ family' \in Seq(GuardSessions) /\ DOMAIN family \subseteq DOMAIN family'
         /\ \A u \in DOMAIN family' : family'[u].parent # 0 => family'[u].parent \in DOMAIN family'
         /\ Descends'
BY DEF GuardsTyped, Descends, Tier

\* How a call goes on.
LEMMA GoesOn ==
  ASSUME GuardsTyped, NEW c \in CallSlots, toolCalls[c].pc # "free",
         NEW pc \in {"post", "done"}, NEW tag \in {"none", "LOOP_REQUIRED", "CLEAR"}, CallGoes(c, pc, tag)
  PROVE  \E t \in GuardCalls :
           /\ toolCalls' = [toolCalls EXCEPT ![c] = t]
           /\ IF pc = "done" THEN t = NoCall
              ELSE t.pc = pc /\ t.tag = tag /\ t.tool = toolCalls[c].tool /\ t.by = toolCalls[c].by
           /\ t.pc # "free" => t.by \in DOMAIN family
           /\ t.pc # "writing"
<1>1. toolCalls[c] \in GuardCalls /\ toolCalls[c].by \in DOMAIN family
  BY DEF GuardsTyped
<1>2. CASE pc = "done"
  BY <1>2, NoCallType DEF CallGoes, NoCall
<1>3. CASE pc = "post"
  <2> DEFINE t == [toolCalls[c] EXCEPT !.pc = pc, !.tag = tag]
  <2>1. t \in GuardCalls /\ t.pc = pc /\ t.tag = tag /\ t.tool = toolCalls[c].tool /\ t.by = toolCalls[c].by
    BY <1>1, <1>3 DEF GuardCalls
  <2>2. toolCalls' = [toolCalls EXCEPT ![c] = t]
    BY <1>3 DEF CallGoes
  <2> QED BY <1>1, <1>3, <2>1, <2>2
<1> QED BY <1>2, <1>3

LEMMA PreToolUseKeeps ==
  ASSUME GuardsInv, NEW s \in DOMAIN family, NEW tool \in Callable, PreToolUse(s, tool)
  PROVE  GuardsInv'
<1> USE DEF GuardsInv
<1>1. UNCHANGED <<family, loaded, review, rework, tangled, reviews>>
  BY DEF PreToolUse
<1>2. Reviewed'
  <2> SUFFICES ASSUME tool \in Gated, rework, ~HooksPending, ~tangled PROVE Denied(s, tool)
    BY DEF PreToolUse, Reviewed
  <2>1. \A c \in CallSlots : ~Asking(toolCalls[c])
    BY DEF HooksPending, Asking, Orchestration
  <2>2. Asked
    BY <2>1 DEF Remembered
  <2> QED BY <2>2 DEF Denied, review_loop_gate, Asked
<1>3. CASE toolCalls' = toolCalls
  BY <1>1, <1>2, <1>3 DEF GuardsTyped, Descends, Tier, Remembered, Asked
<1>4. ASSUME NEW c \in CallSlots, toolCalls[c].pc = "free",
             toolCalls' = [toolCalls EXCEPT ![c] = [NoCall EXCEPT !.by = s, !.tool = tool,
                                                    !.pc = IF tool = "Skill" THEN "post" ELSE "called"]]
      PROVE  GuardsInv'
  <2> DEFINE t == [NoCall EXCEPT !.by = s, !.tool = tool, !.pc = IF tool = "Skill" THEN "post" ELSE "called"]
  <2>1. /\ t \in GuardCalls /\ t.by = s /\ t.pc \in {"called", "post"}
        /\ t.tool = "Skill" \/ t.pc = "called"
    <3>1. s \in Nat
      BY DEF GuardsTyped
    <3> QED BY <3>1, NoCallType DEF NoCall, GuardCalls
  <2>2. ~Asking(toolCalls[c]) /\ ~Ending(t)
    BY <1>4, <2>1 DEF Asking, Ending
  <2>3. review' \in ReviewStates /\ toolCalls' = [toolCalls EXCEPT ![c] = t]
    BY <1>1, <1>4 DEF GuardsTyped
  <2> HIDE DEF t
  <2>4. GuardsTyped' /\ \A d \in CallSlots : toolCalls'[d] = IF d = c THEN t ELSE toolCalls[d]
    BY <1>1, <2>1, <2>3, CallMoves, SameFamily
  <2>5. Remembered'
    BY <1>1, <2>2, <2>4 DEF Remembered, Asked
  <2> QED BY <1>1, <1>2, <2>4, <2>5, SameFamily
<1> QED BY <1>3, <1>4 DEF PreToolUse

LEMMA RunSkillKeeps ==
  ASSUME GuardsInv, NEW c \in CallSlots, run_skill(c)
  PROVE  GuardsInv'
<1> USE DEF GuardsInv
<1> DEFINE s == toolCalls[c].by
<1>1. /\ toolCalls[c].pc = "called" /\ UNCHANGED <<review, tangled, slipped>> /\ s \in DOMAIN family
      /\ review' \in ReviewStates
  BY DEF run_skill, Called, GuardsTyped
<1>2. ~Asking(toolCalls[c])
  BY <1>1 DEF Asking
<1>3. CASE ~_require_orchestrator_or_higher(s)
  <2>1. CallGoes(c, "done", "none") /\ UNCHANGED <<family, rework>>
    BY <1>3 DEF run_skill
  <2>2. toolCalls' = [toolCalls EXCEPT ![c] = NoCall] /\ NoCall.pc = "free" /\ ~Ending(NoCall)
    BY <2>1 DEF CallGoes, NoCall, Ending
  <2>3. GuardsTyped' /\ \A d \in CallSlots : toolCalls'[d] = IF d = c THEN NoCall ELSE toolCalls[d]
    BY <1>1, <2>1, <2>2, NoCallType, CallMoves, SameFamily
  <2>4. Remembered'
    BY <1>1, <1>2, <2>1, <2>2, <2>3 DEF Remembered, Asked
  <2> QED BY <1>1, <2>1, <2>3, <2>4, SameFamily DEF Reviewed
<1>4. ASSUME NEW profile \in BOOLEAN, NEW tag \in {"none", "LOOP_REQUIRED", "CLEAR"},
             _require_orchestrator_or_higher(s),
             family' = Append(family, Sess(TRUE, "skill", profile, s)), CallGoes(c, "post", tag),
             rework' = IF tag = "none" THEN rework ELSE tag = "LOOP_REQUIRED"
      PROVE  GuardsInv'
  <2>1. /\ Sess(TRUE, "skill", profile, s) \in GuardSessions
        /\ Sess(TRUE, "skill", profile, s).parent = s /\ Sess(TRUE, "skill", profile, s).type = "skill"
    BY <1>1 DEF Sess, GuardSessions, GuardsTyped
  <2>2. /\ family' \in Seq(GuardSessions) /\ DOMAIN family \subseteq DOMAIN family'
        /\ \A u \in DOMAIN family' : family'[u].parent # 0 => family'[u].parent \in DOMAIN family'
        /\ Below(family')
    BY <1>1, <1>4, <2>1, Descended
  <2>3. PICK t \in GuardCalls :
           /\ toolCalls' = [toolCalls EXCEPT ![c] = t]
           /\ t.pc = "post" /\ t.tag = tag /\ t.tool = toolCalls[c].tool /\ t.by = s
    BY <1>1, <1>4, GoesOn
  <2>4. GuardsTyped' /\ \A d \in CallSlots : toolCalls'[d] = IF d = c THEN t ELSE toolCalls[d]
    BY <1>1, <2>2, <2>3, CallMoves
  <2>5. t.tool = "run_skill"
    BY <2>3 DEF run_skill, Called
  <2>6. Remembered'
    <3>1. CASE tag = "LOOP_REQUIRED"
      BY <2>3, <2>4, <2>5, <3>1 DEF Remembered, Asking
    <3>2. CASE tag = "CLEAR"
      BY <1>4, <3>2 DEF Remembered
    <3>3. CASE tag = "none"
      <4>1. ~Ending(t) /\ rework' = rework
        BY <1>4, <2>3, <2>5, <3>3 DEF Ending
      <4> QED BY <1>1, <1>2, <2>4, <4>1 DEF Remembered, Asked
    <3> QED BY <3>1, <3>2, <3>3
  <2>7. Descends'
    BY <2>2 DEF Descends, Below, Tier, Rank
  <2> QED BY <1>1, <2>4, <2>6, <2>7 DEF Reviewed
<1> QED BY <1>3, <1>4 DEF run_skill

LEMMA DispatchKeeps ==
  ASSUME GuardsInv, NEW c \in CallSlots, dispatch_food_truck(c)
  PROVE  GuardsInv'
<1> USE DEF GuardsInv
<1> DEFINE s == toolCalls[c].by
<1>1. /\ toolCalls[c].pc = "called" /\ UNCHANGED <<review, rework, tangled, slipped>> /\ s \in DOMAIN family
      /\ review' \in ReviewStates /\ CallGoes(c, "done", "none")
  BY DEF dispatch_food_truck, Called, GuardsTyped
<1>2. ~Asking(toolCalls[c])
  BY <1>1 DEF Asking
<1>3. toolCalls' = [toolCalls EXCEPT ![c] = NoCall] /\ NoCall.pc = "free" /\ ~Ending(NoCall)
  BY <1>1 DEF CallGoes, NoCall, Ending
<1>4. /\ family' \in Seq(GuardSessions) /\ DOMAIN family \subseteq DOMAIN family'
      /\ \A u \in DOMAIN family' : family'[u].parent # 0 => family'[u].parent \in DOMAIN family'
      /\ Descends'
  <2>1. CASE ~_require_fleet(s)
    BY <2>1, SameFamily DEF dispatch_food_truck
  <2>2. CASE _require_fleet(s)
    <3>1. /\ Sess(TRUE, "orchestrator", FALSE, s) \in GuardSessions
          /\ Sess(TRUE, "orchestrator", FALSE, s).parent = s
          /\ Sess(TRUE, "orchestrator", FALSE, s).type = "orchestrator"
      BY <1>1 DEF Sess, GuardSessions, GuardsTyped
    <3>2. family' = Append(family, Sess(TRUE, "orchestrator", FALSE, s))
      BY <2>2 DEF dispatch_food_truck
    <3>3. /\ family' \in Seq(GuardSessions) /\ DOMAIN family \subseteq DOMAIN family'
          /\ \A u \in DOMAIN family' : family'[u].parent # 0 => family'[u].parent \in DOMAIN family'
          /\ Below(family')
      BY <1>1, <2>2, <3>1, <3>2, Descended
    <3> QED BY <3>3 DEF Descends, Below, Tier, Rank
  <2> QED BY <2>1, <2>2
<1>5. GuardsTyped' /\ \A d \in CallSlots : toolCalls'[d] = IF d = c THEN NoCall ELSE toolCalls[d]
  BY <1>1, <1>3, <1>4, NoCallType, CallMoves
<1>6. Remembered'
  BY <1>1, <1>2, <1>3, <1>5 DEF Remembered, Asked
<1> QED BY <1>1, <1>4, <1>5, <1>6 DEF Reviewed

\* check_review_loop and the hooks after a call: no session is added.
LEMMA HookKeeps ==
  ASSUME GuardsInv, NEW c \in CallSlots,
         check_review_loop(c) \/ skill_load_post_hook(c) \/ ReviewTag(c) \/ ReadReview(c) \/ MarkReview(c)
  PROVE  GuardsInv'
<1> USE DEF GuardsInv
<1>1. family' = family /\ UNCHANGED slipped
  BY DEF check_review_loop, skill_load_post_hook, ReviewTag, ReadReview, MarkReview
<1>2. Descends' /\ Reviewed'
  BY <1>1, SameFamily DEF Reviewed
<1>3. toolCalls[c] \in GuardCalls /\ (toolCalls[c].pc # "free" => toolCalls[c].by \in DOMAIN family)
  BY DEF GuardsTyped
<1>4. ASSUME NEW t \in GuardCalls, toolCalls' = [toolCalls EXCEPT ![c] = t], t.pc # "free" => t.by \in DOMAIN family,
             t.pc = "writing" => t.tool = "check_review_loop", review' \in ReviewStates
      PROVE  GuardsTyped' /\ \A d \in CallSlots : toolCalls'[d] = IF d = c THEN t ELSE toolCalls[d]
  BY <1>1, <1>4, CallMoves, SameFamily
<1>5. toolCalls' = [toolCalls EXCEPT ![c] = NoCall] =>
        \A d \in CallSlots : toolCalls'[d] = IF d = c THEN NoCall ELSE toolCalls[d]
  BY DEF GuardsTyped
<1>6. NoCall.pc = "free" /\ ~Ending(NoCall) /\ ~Asking(NoCall)
  BY DEF NoCall, Ending, Asking
<1>7. CASE check_review_loop(c)
  <2>1. /\ toolCalls[c].pc = "called" /\ toolCalls[c].tool = "check_review_loop"
        /\ UNCHANGED <<review, tangled>> /\ review' \in ReviewStates
    BY <1>7 DEF check_review_loop, Called, GuardsTyped
  <2>2. \/ CallGoes(c, "post", "none") /\ ~rework'
        \/ CallGoes(c, "done", "none") /\ (rework' = rework \/ ~rework')
    BY <1>7 DEF check_review_loop
  <2>3. PICK t \in GuardCalls : /\ toolCalls' = [toolCalls EXCEPT ![c] = t]
                                /\ t = NoCall \/ ~rework'
                                /\ t.pc # "free" => t.by \in DOMAIN family
                                /\ t.pc # "writing"
    <3>1. CASE CallGoes(c, "post", "none") /\ ~rework'
      BY <2>1, <3>1, GoesOn
    <3>2. CASE CallGoes(c, "done", "none") /\ (rework' = rework \/ ~rework')
      BY <2>1, <3>2, GoesOn
    <3> QED BY <2>2, <3>1, <3>2
  <2>4. GuardsTyped' /\ \A d \in CallSlots : toolCalls'[d] = IF d = c THEN t ELSE toolCalls[d]
    BY <1>4, <2>1, <2>3
  <2>5. ~Asking(toolCalls[c])
    BY <2>1 DEF Asking
  <2>6. Remembered'
    BY <1>6, <2>1, <2>2, <2>3, <2>4, <2>5 DEF Remembered, Asked
  <2> QED BY <1>2, <2>4, <2>6
<1>8. CASE skill_load_post_hook(c)
  <2>1. /\ toolCalls[c].tool = "Skill" /\ CallGoes(c, "done", "none") /\ UNCHANGED <<review, rework, tangled>>
        /\ review' \in ReviewStates
    BY <1>8 DEF skill_load_post_hook, GuardsTyped
  <2>2. toolCalls' = [toolCalls EXCEPT ![c] = NoCall]
    BY <2>1 DEF CallGoes
  <2>3. ~Asking(toolCalls[c])
    BY <2>1 DEF Asking
  <2>4. GuardsTyped' /\ Remembered'
    BY <1>4, <1>6, <2>1, <2>2, <2>3, NoCallType DEF Remembered, Asked
  <2> QED BY <1>2, <2>4
<1>9. CASE ReviewTag(c)
  <2> DEFINE tag == toolCalls[c].tag
  <2>1. /\ toolCalls[c].pc = "post" /\ toolCalls[c].tool = "run_skill" /\ UNCHANGED rework
        /\ tangled' = (tangled \/ (tag # "none" /\ PostPending(c))) /\ CallGoes(c, "done", tag)
        /\ tag \in {"none", "LOOP_REQUIRED", "CLEAR"}
    BY <1>3, <1>9 DEF ReviewTag, GuardCalls
  <2>2. toolCalls' = [toolCalls EXCEPT ![c] = NoCall]
    BY <2>1 DEF CallGoes
  <2>3. /\ tag = "none" => review' = review
        /\ tag = "LOOP_REQUIRED" => review' = [gate |-> "LOOP_REQUIRED", called |-> FALSE]
        /\ tag = "CLEAR" => review' = NoReview
    BY <1>9, <2>1 DEF ReviewTag
  <2>4. review' \in ReviewStates
    <3>1. review \in ReviewStates /\ NoReview \in ReviewStates
      BY DEF GuardsTyped, ReviewStates, NoReview
    <3>2. [gate |-> "LOOP_REQUIRED", called |-> FALSE] \in ReviewStates
      BY DEF ReviewStates
    <3> QED BY <2>1, <2>3, <3>1, <3>2
  <2>5. GuardsTyped' /\ \A d \in CallSlots : toolCalls'[d] = IF d = c THEN NoCall ELSE toolCalls[d]
    BY <1>4, <1>6, <2>2, <2>4, NoCallType
  <2>6. ~PostPending(c) => \A d \in CallSlots \ {c} : ~Asking(toolCalls[d]) /\ ~Ending(toolCalls[d])
    BY DEF PostPending, Asking, Ending, Orchestration
  <2>7. Remembered'
    <3>1. CASE tag = "none"
      <4>1. ~Asking(toolCalls[c])
        BY <3>1 DEF Asking
      <4> QED BY <1>6, <2>1, <2>3, <2>5, <3>1, <4>1 DEF Remembered, Asked
    <3>2. CASE tag # "none" /\ PostPending(c)
      BY <2>1, <3>2 DEF Remembered
    <3>3. CASE tag = "LOOP_REQUIRED" /\ ~PostPending(c)
      BY <1>6, <2>3, <2>5, <2>6, <3>3 DEF Remembered, Asked
    <3>4. CASE tag = "CLEAR" /\ ~PostPending(c)
      <4>1. Ending(toolCalls[c]) /\ ~Asking(toolCalls[c])
        BY <2>1, <3>4 DEF Ending, Asking
      <4>2. tangled \/ ~rework
        BY <2>6, <3>4, <4>1 DEF Remembered
      <4> QED BY <2>1, <4>2 DEF Remembered
    <3> QED BY <2>1, <3>1, <3>2, <3>3, <3>4
  <2> QED BY <1>2, <2>5, <2>7
<1>10. CASE ReadReview(c)
  <2>1. /\ toolCalls[c].pc = "post" /\ toolCalls[c].tool = "check_review_loop" /\ UNCHANGED <<review, rework>>
        /\ tangled' = (tangled \/ PostPending(c)) /\ review' \in ReviewStates
    BY <1>10 DEF ReadReview, GuardsTyped
  <2>2. PICK t \in GuardCalls : /\ toolCalls' = [toolCalls EXCEPT ![c] = t]
                                /\ t.pc # "free" => t.by \in DOMAIN family
                                /\ t.pc = "writing" => t.tool = "check_review_loop"
    <3>1. CASE review.gate = "LOOP_REQUIRED"
      <4> DEFINE t == [toolCalls[c] EXCEPT !.pc = "writing", !.copy = review]
      <4>1. t \in GuardCalls /\ t.by = toolCalls[c].by /\ t.tool = toolCalls[c].tool
        BY <1>3 DEF GuardCalls, GuardsTyped
      <4>2. toolCalls' = [toolCalls EXCEPT ![c] = t]
        BY <1>10, <3>1 DEF ReadReview
      <4> QED BY <1>3, <2>1, <4>1, <4>2
    <3>2. CASE review.gate # "LOOP_REQUIRED"
      BY <1>6, <1>10, <3>2, NoCallType DEF ReadReview
    <3> QED BY <3>1, <3>2
  <2>3. GuardsTyped'
    BY <1>4, <2>1, <2>2
  <2>4. Ending(toolCalls[c]) /\ ~Asking(toolCalls[c])
    BY <2>1 DEF Ending, Asking
  <2>5. ~PostPending(c) => \A d \in CallSlots \ {c} : ~Asking(toolCalls[d])
    BY DEF PostPending, Asking, Orchestration
  <2>6. Remembered'
    BY <2>1, <2>4, <2>5 DEF Remembered
  <2> QED BY <1>2, <2>3, <2>6
<1>11. CASE MarkReview(c)
  <2>1. /\ toolCalls[c].pc = "writing" /\ toolCalls[c].tool = "check_review_loop" /\ UNCHANGED <<rework, tangled>>
        /\ review' = [toolCalls[c].copy EXCEPT !.called = TRUE] /\ CallGoes(c, "done", "none")
    BY <1>11 DEF MarkReview, GuardsTyped
  <2>2. toolCalls' = [toolCalls EXCEPT ![c] = NoCall] /\ review' \in ReviewStates
    BY <1>3, <2>1 DEF CallGoes, GuardCalls, ReviewStates
  <2>3. GuardsTyped' /\ \A d \in CallSlots : toolCalls'[d] = IF d = c THEN NoCall ELSE toolCalls[d]
    BY <1>4, <1>6, <2>2, NoCallType
  <2>4. Ending(toolCalls[c]) /\ ~Asking(toolCalls[c])
    BY <2>1 DEF Ending, Asking
  <2>5. Remembered'
    BY <2>1, <2>3, <2>4 DEF Remembered
  <2> QED BY <1>2, <2>3, <2>5
<1> QED BY <1>7, <1>8, <1>9, <1>10, <1>11

LEMMA GuardsStep == GuardsInv /\ [GuardsNext]_guardVars => GuardsInv'
<1> SUFFICES ASSUME GuardsInv, [GuardsNext]_guardVars PROVE GuardsInv'
  OBVIOUS
<1>1. CASE DayPasses \/ UNCHANGED guardVars
  BY <1>1 DEF DayPasses, guardVars, GuardsInv, GuardsTyped, Descends, Tier, Remembered, Asked, Reviewed
<1> QED BY <1>1, PreToolUseKeeps, RunSkillKeeps, DispatchKeeps, HookKeeps DEF GuardsNext

(***************************************************************************)
(* Whatever hooks fail open and however many calls overlap: no session     *)
(* starts one of its own tier or of a higher (the server's own test of the *)
(* tier stands behind the hooks), and nobody waits for CI or enters the    *)
(* queue between a review that asks for changes and check_review_loop,     *)
(* unless two hooks had the review's file at once or the gate itself       *)
(* failed.                                                                 *)
(***************************************************************************)
THEOREM GuardsAreKept == GuardsSpec => []GuardsHold
<1>1. GuardsInv => GuardsHold
  BY DEF GuardsInv, GuardsHold
<1> QED BY <1>1, GuardsInitInv, GuardsStep, PTL DEF GuardsSpec

-----------------------------------------------------------------------------
(***************************************************************************)
(* The issues.  While nothing was overtaken, no two reports are about to   *)
(* write for one fingerprint, one that will create an issue has none to    *)
(* extend, and who will write a body has read what it holds.               *)
(***************************************************************************)
Words == {nothing, "failed", "skipped", "duplicate", "updated", "update_failed", "created", "create_failed"}
Told == {"updated", "created", "duplicate"}
Parts == Errors \union {nothing, note}
ReportRecords ==
  [pc : {"idle", "session", "search", "update", "create", "done", "cut"},
   at : Seconds \union {NotCalled.at}, error : Errors \union {nothing}, fp : Fingerprints \union {nothing},
   to : Nat, copy : SUBSET Parts, says : Words]
IssueRecords == [fp : Fingerprints \union {nothing}, open : BOOLEAN, body : SUBSET Parts]
ClosingRecords ==
  [pc : {"idle", "view", "edit", "close", "done"}, todo : Seq(Nat), copy : SUBSET Parts,
   closed : SUBSET Nat, failed : SUBSET Nat]

ReportsTyped ==
  /\ rpt \in [Reports -> ReportRecords]
  /\ \A r \in Reports : /\ rpt[r].pc # "idle" => rpt[r].at \in Seconds
                        /\ rpt[r].pc # "done" => rpt[r].says = nothing
  /\ statusAt \in [Seconds -> {"none", "pending", "failed", "complete"}]

LEMMA NotCalledType == NotCalled \in ReportRecords /\ NotCalled.pc = "idle" /\ NotCalled.says = nothing
<1> DEFINE s == CHOOSE s \in Seconds : TRUE
<1> HIDE DEF s
<1>1. NotCalled = [pc |-> "idle", at |-> s, error |-> nothing, fp |-> nothing, to |-> 0, copy |-> {}, says |-> nothing]
  BY DEF NotCalled, s
<1> QED BY <1>1 DEF ReportRecords, Words

-----------------------------------------------------------------------------
(* The status files. *)

\* The word a status file is to have.
Word(t) == IF t.pc # "done" THEN "pending" ELSE IF t.says = "failed" THEN "failed" ELSE "complete"

StatusInv ==
  /\ \A s \in Seconds : statusAt[s] # "none" => \E q \in Reports : rpt[q].pc # "idle" /\ rpt[q].at = s
  /\ \A r \in Reports :
       /\ rpt[r].pc # "idle" /\ statusAt[rpt[r].at] # "none"
       /\ \A q \in Reports \ {r} : rpt[q].pc = "idle" \/ rpt[q].at # rpt[r].at
       => statusAt[rpt[r].at] = Word(rpt[r])

LEMMA StatusWord == StatusInv => StatusTold
BY DEF StatusInv, StatusTold, Word

\* A report goes on: its second stays, and the word goes with what it says.
LEMMA ReportGoesOn ==
  ASSUME ReportsTyped, StatusInv, NEW r \in Reports, rpt[r].pc \notin {"idle", "done"},
         NEW t \in ReportRecords, rpt' = [rpt EXCEPT ![r] = t], t.at = rpt[r].at, t.pc # "idle",
         t.pc # "done" => t.says = nothing,
         \/ statusAt' = statusAt /\ t.pc # "done"
         \/ Status(r, Word(t)) /\ t.pc = "done"
  PROVE  ReportsTyped' /\ StatusInv'
<1>1. rpt' \in [Reports -> ReportRecords] /\ \A q \in Reports : rpt'[q] = IF q = r THEN t ELSE rpt[q]
  BY DEF ReportsTyped
<1>2. rpt[r].at \in Seconds
  BY DEF ReportsTyped
<1>3. Word(t) \in {"pending", "failed", "complete"}
  BY DEF Word
<1>4. /\ statusAt' \in [Seconds -> {"none", "pending", "failed", "complete"}]
      /\ \A s \in Seconds : s # rpt[r].at => statusAt'[s] = statusAt[s]
      /\ statusAt'[rpt[r].at] \in {statusAt[rpt[r].at], Word(t)}
      /\ statusAt'[rpt[r].at] # "none" => statusAt[rpt[r].at] # "none"
      /\ t.pc = "done" /\ statusAt'[rpt[r].at] # "none" => statusAt'[rpt[r].at] = Word(t)
  BY <1>2, <1>3 DEF ReportsTyped, Status, Tells
<1>5. ReportsTyped'
  BY <1>1, <1>2, <1>4 DEF ReportsTyped
<1>6. ASSUME NEW s \in Seconds, statusAt'[s] # "none"
      PROVE  \E q \in Reports : rpt'[q].pc # "idle" /\ rpt'[q].at = s
  <2>1. PICK q \in Reports : rpt[q].pc # "idle" /\ rpt[q].at = s
    BY <1>4, <1>6 DEF StatusInv
  <2> QED BY <1>1, <2>1
<1>7. ASSUME NEW q \in Reports, rpt'[q].pc # "idle", statusAt'[rpt'[q].at] # "none",
             \A p \in Reports \ {q} : rpt'[p].pc = "idle" \/ rpt'[p].at # rpt'[q].at
      PROVE  statusAt'[rpt'[q].at] = Word(rpt'[q])
  <2>1. CASE q = r
    <3>1. CASE t.pc = "done"
      BY <1>1, <1>4, <1>7, <2>1, <3>1
    <3>2. CASE t.pc # "done"
      <4>1. statusAt' = statusAt /\ Word(t) = Word(rpt[r])
        BY <3>2 DEF Word
      <4>2. \A p \in Reports \ {r} : rpt[p].pc = "idle" \/ rpt[p].at # rpt[r].at
        BY <1>1, <1>7, <2>1
      <4> QED BY <1>1, <1>7, <2>1, <4>1, <4>2 DEF StatusInv
    <3> QED BY <3>1, <3>2
  <2>2. CASE q # r
    <3>1. rpt'[q] = rpt[q] /\ rpt[q].at # rpt[r].at /\ rpt[q].at \in Seconds
      BY <1>1, <1>7, <2>2 DEF ReportsTyped
    <3>2. \A p \in Reports \ {q} : rpt[p].pc = "idle" \/ rpt[p].at # rpt[q].at
      BY <1>1, <1>7, <2>2
    <3>3. statusAt'[rpt'[q].at] = statusAt[rpt[q].at] /\ rpt[q].pc # "idle" /\ statusAt[rpt[q].at] # "none"
      BY <1>4, <1>7, <3>1
    <3>4. statusAt[rpt[q].at] = Word(rpt[q])
      BY <3>2, <3>3 DEF StatusInv
    <3> QED BY <3>1, <3>3, <3>4
  <2> QED BY <2>1, <2>2
<1> QED BY <1>5, <1>6, <1>7 DEF StatusInv

\* A report is made: another may have been in the same second.
LEMMA ReportStarts ==
  ASSUME ReportsTyped, StatusInv, NEW r \in Reports, rpt[r].pc = "idle",
         NEW t \in ReportRecords, rpt' = [rpt EXCEPT ![r] = t], t.at \in Seconds, t.pc = "session", t.says = nothing,
         \/ statusAt' = statusAt
         \/ statusAt' = [statusAt EXCEPT ![t.at] = "pending"]
  PROVE  ReportsTyped' /\ StatusInv'
<1>1. rpt' \in [Reports -> ReportRecords] /\ \A q \in Reports : rpt'[q] = IF q = r THEN t ELSE rpt[q]
  BY DEF ReportsTyped
<1>2. /\ statusAt' \in [Seconds -> {"none", "pending", "failed", "complete"}]
      /\ \A s \in Seconds : s # t.at => statusAt'[s] = statusAt[s]
      /\ statusAt'[t.at] \in {statusAt[t.at], "pending"}
  BY DEF ReportsTyped
<1>3. ReportsTyped'
  BY <1>1, <1>2 DEF ReportsTyped
<1>4. ASSUME NEW s \in Seconds, statusAt'[s] # "none"
      PROVE  \E q \in Reports : rpt'[q].pc # "idle" /\ rpt'[q].at = s
  <2>1. CASE s = t.at
    BY <1>1, <2>1
  <2>2. CASE s # t.at
    <3>1. PICK q \in Reports : rpt[q].pc # "idle" /\ rpt[q].at = s
      BY <1>2, <1>4, <2>2 DEF StatusInv
    <3> QED BY <1>1, <3>1
  <2> QED BY <2>1, <2>2
<1>5. ASSUME NEW q \in Reports, rpt'[q].pc # "idle", statusAt'[rpt'[q].at] # "none",
             \A p \in Reports \ {q} : rpt'[p].pc = "idle" \/ rpt'[p].at # rpt'[q].at
      PROVE  statusAt'[rpt'[q].at] = Word(rpt'[q])
  <2>1. CASE q = r
    <3>1. \A p \in Reports : rpt[p].pc = "idle" \/ rpt[p].at # t.at
      BY <1>1, <1>5, <2>1
    <3>2. statusAt[t.at] = "none"
      BY <3>1 DEF StatusInv
    <3> QED BY <1>1, <1>2, <1>5, <2>1, <3>2 DEF Word
  <2>2. CASE q # r
    <3>1. rpt'[q] = rpt[q] /\ rpt[q].at # t.at /\ rpt[q].at \in Seconds
      BY <1>1, <1>5, <2>2 DEF ReportsTyped
    <3>2. \A p \in Reports \ {q} : rpt[p].pc = "idle" \/ rpt[p].at # rpt[q].at
      BY <1>1, <1>5, <2>2
    <3>3. statusAt'[rpt'[q].at] = statusAt[rpt[q].at] /\ rpt[q].pc # "idle" /\ statusAt[rpt[q].at] # "none"
      BY <1>2, <1>5, <3>1
    <3>4. statusAt[rpt[q].at] = Word(rpt[q])
      BY <3>2, <3>3 DEF StatusInv
    <3> QED BY <3>1, <3>3, <3>4
  <2> QED BY <2>1, <2>2
<1> QED BY <1>3, <1>4, <1>5 DEF StatusInv

-----------------------------------------------------------------------------
(* The issues, as long as no search and no read was overtaken. *)

IssuesTyped ==
  /\ issues \in Seq(IssueRecords)
  /\ listed \in 0..Len(issues)
  /\ closing \in ClosingRecords
  /\ \A k \in DOMAIN closing.todo : closing.todo[k] \in IssueIds
  /\ closing.pc \in {"view", "edit", "close"} => closing.todo # <<>>
  /\ closing.closed \subseteq IssueIds
  /\ \A r \in Reports : rpt[r].pc = "update" => rpt[r].to \in IssueIds /\ issues[rpt[r].to].fp = rpt[r].fp
  /\ \A r \in Reports : rpt[r].says \in Told => rpt[r].to \in IssueIds

\* Reports about to write are about different fingerprints; one that will create has no open
\* issue to extend; one that will extend, and the bulk close, have what the body holds.
Acting(r) == rpt[r].pc \in {"update", "create"}
Apart == \A q, r \in Reports : q # r /\ Acting(q) /\ Acting(r) => rpt[q].fp # rpt[r].fp
FirstOfKind ==
  \A r \in Reports : rpt[r].pc = "create" => \A i \in IssueIds : issues[i].open => issues[i].fp # rpt[r].fp
CopiesCurrent ==
  /\ \A r \in Reports : rpt[r].pc = "update" => ~Editing(rpt[r].to) /\ rpt[r].copy = issues[rpt[r].to].body
  /\ closing.pc = "edit" => closing.copy = issues[closing.todo[1]].body
  /\ closing.pc = "close" => note \in issues[closing.todo[1]].body

AloneInv == ~raced => Apart /\ FirstOfKind /\ CopiesCurrent /\ NothingLostAlone

IssuesInv == ReportsTyped /\ StatusInv /\ IssuesTyped /\ AloneInv

LEMMA IssuesInitInv == IssuesInit => IssuesInv
<1> SUFFICES ASSUME IssuesInit PROVE IssuesInv
  OBVIOUS
<1>1. ReportsTyped /\ \A r \in Reports : rpt[r].pc = "idle" /\ rpt[r].says = nothing
  BY NotCalledType DEF IssuesInit, ReportsTyped
<1>2. issues = <<>> /\ Len(issues) = 0 /\ IssueIds = {} /\ issues \in Seq(IssueRecords)
  BY DEF IssuesInit, IssueIds
<1>3. /\ closing = [pc |-> "idle", todo |-> <<>>, copy |-> {}, closed |-> {}, failed |-> {}]
      /\ closing \in ClosingRecords /\ closing.pc = "idle" /\ closing.closed = {} /\ closing.todo = <<>>
  <2>1. <<>> \in Seq(Nat)
    OBVIOUS
  <2> QED BY <2>1 DEF IssuesInit, ClosingRecords
<1>4. IssuesTyped
  <2>1. listed \in 0..Len(issues)
    BY <1>2 DEF IssuesInit
  <2>2. \A k \in DOMAIN closing.todo : closing.todo[k] \in IssueIds
    BY <1>3
  <2> QED BY <1>1, <1>2, <1>3, <2>1, <2>2 DEF IssuesTyped, Told, nothing
<1>5. StatusInv
  BY <1>1 DEF StatusInv, IssuesInit
<1>6. Apart /\ FirstOfKind /\ CopiesCurrent /\ NothingLostAlone
  BY <1>1, <1>2, <1>3 DEF Apart, Acting, FirstOfKind, CopiesCurrent, NothingLostAlone, nothing
<1> QED BY <1>1, <1>4, <1>5, <1>6 DEF IssuesInv, AloneInv

\* A report that writes no issue: it is not about to, was not told of one, and says so.
LEMMA QuietReport ==
  ASSUME ReportsTyped, IssuesTyped, AloneInv, NEW r \in Reports, NEW t \in ReportRecords,
         rpt' = [rpt EXCEPT ![r] = t], t.pc \notin {"update", "create"},
         t.says \in Told => t.to \in IssueIds /\ (~raced => t.error \in issues[t.to].body),
         UNCHANGED <<issues, listed, closing>>, raced => raced'
  PROVE  IssuesTyped' /\ AloneInv'
<1>1. \A q \in Reports : rpt'[q] = IF q = r THEN t ELSE rpt[q]
  BY DEF ReportsTyped
<1>2. IssuesTyped'
  BY <1>1 DEF IssuesTyped, IssueIds
<1>3. ASSUME ~raced' PROVE Apart' /\ FirstOfKind' /\ CopiesCurrent' /\ NothingLostAlone'
  <2>1. ~raced /\ Apart /\ FirstOfKind /\ CopiesCurrent /\ NothingLostAlone
    BY <1>3 DEF AloneInv
  <2>2. Apart'
    BY <1>1, <2>1 DEF Apart, Acting
  <2>3. FirstOfKind'
    BY <1>1, <2>1 DEF FirstOfKind, IssueIds
  <2>4. CopiesCurrent'
    BY <1>1, <2>1 DEF CopiesCurrent, Editing
  <2>5. NothingLostAlone'
    BY <1>1, <2>1 DEF NothingLostAlone, Told, IssueIds
  <2> QED BY <2>2, <2>3, <2>4, <2>5
<1> QED BY <1>2, <1>3 DEF AloneInv

\* What Moves leaves of a report.
Pcs == {"idle", "session", "search", "update", "create", "done", "cut"}

LEMMA ReportMoves ==
  ASSUME ReportsTyped, NEW r \in Reports, NEW F, Moves(r, F),
         "pc" \in DOMAIN F => F["pc"] \in Pcs, "at" \in DOMAIN F => F["at"] \in Seconds,
         "error" \in DOMAIN F => F["error"] \in Errors, "fp" \in DOMAIN F => F["fp"] \in Fingerprints,
         "to" \in DOMAIN F => F["to"] \in Nat, "copy" \in DOMAIN F => F["copy"] \in SUBSET Parts,
         "says" \in DOMAIN F => F["says"] \in Words
  PROVE  \E t \in ReportRecords :
           /\ rpt' = [rpt EXCEPT ![r] = t]
           /\ t.pc = IF "pc" \in DOMAIN F THEN F["pc"] ELSE rpt[r].pc
           /\ t.at = IF "at" \in DOMAIN F THEN F["at"] ELSE rpt[r].at
           /\ t.error = IF "error" \in DOMAIN F THEN F["error"] ELSE rpt[r].error
           /\ t.fp = IF "fp" \in DOMAIN F THEN F["fp"] ELSE rpt[r].fp
           /\ t.to = IF "to" \in DOMAIN F THEN F["to"] ELSE rpt[r].to
           /\ t.copy = IF "copy" \in DOMAIN F THEN F["copy"] ELSE rpt[r].copy
           /\ t.says = IF "says" \in DOMAIN F THEN F["says"] ELSE rpt[r].says
<1> DEFINE t == [f \in DOMAIN rpt[r] |-> IF f \in DOMAIN F THEN F[f] ELSE rpt[r][f]]
<1>1. rpt[r] \in ReportRecords
  BY DEF ReportsTyped
<1>2. DOMAIN rpt[r] = {"pc", "at", "error", "fp", "to", "copy", "says"}
  BY <1>1 DEF ReportRecords
<1>3. /\ t.pc = IF "pc" \in DOMAIN F THEN F["pc"] ELSE rpt[r].pc
      /\ t.at = IF "at" \in DOMAIN F THEN F["at"] ELSE rpt[r].at
      /\ t.error = IF "error" \in DOMAIN F THEN F["error"] ELSE rpt[r].error
      /\ t.fp = IF "fp" \in DOMAIN F THEN F["fp"] ELSE rpt[r].fp
      /\ t.to = IF "to" \in DOMAIN F THEN F["to"] ELSE rpt[r].to
      /\ t.copy = IF "copy" \in DOMAIN F THEN F["copy"] ELSE rpt[r].copy
      /\ t.says = IF "says" \in DOMAIN F THEN F["says"] ELSE rpt[r].says
  BY <1>2
<1>4. t = [pc |-> t.pc, at |-> t.at, error |-> t.error, fp |-> t.fp, to |-> t.to, copy |-> t.copy, says |-> t.says]
  BY <1>2
<1>5. /\ rpt[r].pc \in Pcs /\ rpt[r].at \in Seconds \union {NotCalled.at} /\ rpt[r].error \in Errors \union {nothing}
      /\ rpt[r].fp \in Fingerprints \union {nothing} /\ rpt[r].to \in Nat /\ rpt[r].copy \in SUBSET Parts
      /\ rpt[r].says \in Words
  BY <1>1 DEF ReportRecords, Pcs
<1>6. /\ t.pc \in Pcs /\ t.at \in Seconds \union {NotCalled.at} /\ t.error \in Errors \union {nothing}
      /\ t.fp \in Fingerprints \union {nothing} 
  <2> HIDE DEF t
  <2> QED BY <1>3, <1>5
<1>7. t.to \in Nat /\ t.copy \in SUBSET Parts /\ t.says \in Words
  <2> HIDE DEF t
  <2> QED BY <1>3, <1>5
<1>8. /\ t.pc \in Pcs /\ t.at \in Seconds \union {NotCalled.at} /\ t.error \in Errors \union {nothing}
      /\ t.fp \in Fingerprints \union {nothing} /\ t.to \in Nat /\ t.copy \in SUBSET Parts /\ t.says \in Words
  BY <1>6, <1>7
<1>9. t \in ReportRecords
  <2> HIDE DEF t
  <2> QED BY <1>4, <1>8 DEF ReportRecords, Pcs
<1>10. rpt' = [rpt EXCEPT ![r] = t]
  BY DEF Moves
<1> HIDE DEF t
<1> QED BY <1>3, <1>9, <1>10

LEMMA ReportBugKeeps ==
  ASSUME IssuesInv, NEW r \in Reports, report_bug(r)
  PROVE  IssuesInv'
<1> USE DEF IssuesInv
<1>1. PICK s \in Seconds, e \in Errors, background \in BOOLEAN :
        /\ Moves(r, [pc |-> "session", at |-> s, error |-> e])
        /\ statusAt' = [statusAt EXCEPT ![s] = IF background THEN "pending" ELSE @]
  BY DEF report_bug
<1>2. PICK t \in ReportRecords :
        rpt' = [rpt EXCEPT ![r] = t] /\ t.pc = "session" /\ t.at = s /\ t.says = rpt[r].says
  BY <1>1, ReportMoves DEF Pcs
<1>3. rpt[r].pc = "idle" /\ rpt[r].says = nothing
  BY DEF report_bug, ReportsTyped
<1>4. statusAt' = statusAt \/ statusAt' = [statusAt EXCEPT ![t.at] = "pending"]
  BY <1>1, <1>2 DEF ReportsTyped
<1>5. ReportsTyped' /\ StatusInv'
  BY <1>2, <1>3, <1>4, ReportStarts
<1>6. IssuesTyped' /\ AloneInv'
  BY <1>2, <1>3, QuietReport DEF report_bug, Told, nothing
<1> QED BY <1>5, <1>6

LEMMA SessionFailsKeeps ==
  ASSUME IssuesInv, NEW r \in Reports, SessionFails(r)
  PROVE  IssuesInv'
<1> USE DEF IssuesInv
<1>1. PICK t \in ReportRecords :
        rpt' = [rpt EXCEPT ![r] = t] /\ t.pc = "done" /\ t.at = rpt[r].at /\ t.says = "failed"
  <2>1. Moves(r, [pc |-> "done", says |-> "failed"]) /\ "done" \in Pcs /\ "failed" \in Words
    BY DEF SessionFails, Pcs, Words
  <2> QED BY <2>1, ReportMoves
<1>2. rpt[r].pc = "session" /\ Status(r, Word(t))
  BY <1>1 DEF SessionFails, Word
<1>3. ReportsTyped' /\ StatusInv'
  BY <1>1, <1>2, ReportGoesOn
<1>4. IssuesTyped' /\ AloneInv'
  BY <1>1, QuietReport DEF SessionFails, Told
<1> QED BY <1>3, <1>4

LEMMA SessionReportsKeeps ==
  ASSUME IssuesInv, NEW r \in Reports, SessionReports(r)
  PROVE  IssuesInv'
<1> USE DEF IssuesInv
<1>1. rpt[r].pc = "session" /\ rpt[r].says = nothing
  BY DEF SessionReports, ReportsTyped
<1>2. CASE \E fp \in Fingerprints : Moves(r, [pc |-> "search", fp |-> fp]) /\ UNCHANGED statusAt
  <2>1. PICK fp \in Fingerprints : Moves(r, [pc |-> "search", fp |-> fp]) /\ UNCHANGED statusAt
    BY <1>2
  <2>2. PICK t \in ReportRecords :
          rpt' = [rpt EXCEPT ![r] = t] /\ t.pc = "search" /\ t.at = rpt[r].at /\ t.says = rpt[r].says
    BY <2>1, ReportMoves DEF Pcs
  <2>3. ReportsTyped' /\ StatusInv'
    BY <1>1, <2>1, <2>2, ReportGoesOn
  <2>4. IssuesTyped' /\ AloneInv'
    BY <1>1, <2>2, QuietReport DEF SessionReports, Told, nothing
  <2> QED BY <2>3, <2>4
<1>3. CASE Status(r, "complete") /\ Moves(r, [pc |-> "done", says |-> "skipped"])
  <2>1. PICK t \in ReportRecords :
          rpt' = [rpt EXCEPT ![r] = t] /\ t.pc = "done" /\ t.at = rpt[r].at /\ t.says = "skipped"
    <3>1. "done" \in Pcs /\ "skipped" \in Words
      BY DEF Pcs, Words
    <3> QED BY <1>3, <3>1, ReportMoves
  <2>2. Word(t) = "complete"
    BY <2>1 DEF Word
  <2>3. ReportsTyped' /\ StatusInv'
    BY <1>1, <1>3, <2>1, <2>2, ReportGoesOn
  <2>4. IssuesTyped' /\ AloneInv'
    BY <2>1, QuietReport DEF SessionReports, Told
  <2> QED BY <2>3, <2>4
<1> QED BY <1>2, <1>3 DEF SessionReports

\* A report finds what it will extend, or that there is nothing to extend.
LEMMA ReportActs ==
  ASSUME ReportsTyped, IssuesTyped, AloneInv, NEW r \in Reports, NEW t \in ReportRecords,
         rpt' = [rpt EXCEPT ![r] = t], t.pc \in {"update", "create"}, t.says = nothing, t.fp = rpt[r].fp,
         t.pc = "update" => /\ t.to \in IssueIds /\ issues[t.to].fp = t.fp /\ t.copy = issues[t.to].body
                            /\ ~raced' => ~Editing(t.to),
         t.pc = "create" /\ ~raced' => \A i \in IssueIds : issues[i].open => issues[i].fp # t.fp,
         ~raced' => ~raced /\ ~Overlapping(r),
         UNCHANGED <<issues, listed, closing>>
  PROVE  IssuesTyped' /\ AloneInv'
<1>1. \A q \in Reports : rpt'[q] = IF q = r THEN t ELSE rpt[q]
  BY DEF ReportsTyped
<1>2. IssuesTyped'
  <2>1. t.says \notin Told
    BY DEF Told, nothing
  <2> QED BY <1>1, <2>1 DEF IssuesTyped, IssueIds
<1>3. ASSUME ~raced' PROVE Apart' /\ FirstOfKind' /\ CopiesCurrent' /\ NothingLostAlone'
  <2>1. ~raced /\ ~Overlapping(r) /\ Apart /\ FirstOfKind /\ CopiesCurrent /\ NothingLostAlone
    BY <1>3 DEF AloneInv
  <2>2. \A q \in Reports \ {r} : Acting(q) => rpt[q].fp # t.fp
    BY <2>1 DEF Overlapping, Acting
  <2>3. Apart'
    BY <1>1, <2>1, <2>2 DEF Apart, Acting
  <2>4. FirstOfKind'
    BY <1>1, <1>3, <2>1 DEF FirstOfKind, IssueIds
  <2>5. CopiesCurrent'
    BY <1>1, <1>3, <2>1 DEF CopiesCurrent, Editing
  <2>6. NothingLostAlone'
    BY <1>1, <2>1 DEF NothingLostAlone, IssueIds, nothing
  <2> QED BY <2>3, <2>4, <2>5, <2>6
<1> QED BY <1>2, <1>3 DEF AloneInv

LEMMA SearchIssuesKeeps ==
  ASSUME IssuesInv, NEW r \in Reports, search_issues(r)
  PROVE  IssuesInv'
<1> USE DEF IssuesInv
<1>1. rpt[r].pc = "search" /\ rpt[r].says = nothing /\ UNCHANGED <<issues, listed, closing>>
  BY DEF search_issues, ReportsTyped
<1>2. CASE Status(r, "complete") /\ Moves(r, [pc |-> "done", says |-> "skipped"]) /\ UNCHANGED raced
  <2>1. PICK t \in ReportRecords :
          rpt' = [rpt EXCEPT ![r] = t] /\ t.pc = "done" /\ t.at = rpt[r].at /\ t.says = "skipped"
    <3>1. "done" \in Pcs /\ "skipped" \in Words
      BY DEF Pcs, Words
    <3> QED BY <1>2, <3>1, ReportMoves
  <2>2. Word(t) = "complete"
    BY <2>1 DEF Word
  <2>3. ReportsTyped' /\ StatusInv'
    BY <1>1, <1>2, <2>1, <2>2, ReportGoesOn
  <2>4. IssuesTyped' /\ AloneInv'
    BY <1>1, <1>2, <2>1, QuietReport DEF Told
  <2> QED BY <2>3, <2>4
<1>3. ASSUME NEW i \in Found(rpt[r].fp), raced' = (raced \/ Overlapping(r) \/ Editing(i)),
             IF rpt[r].error \in issues[i].body
               THEN Status(r, "complete") /\ Moves(r, [pc |-> "done", to |-> i, says |-> "duplicate"])
               ELSE Moves(r, [pc |-> "update", to |-> i, copy |-> issues[i].body]) /\ UNCHANGED statusAt
      PROVE  IssuesInv'
  <2>1. /\ i \in Nat /\ i \in IssueIds /\ issues[i].fp = rpt[r].fp /\ issues[i] \in IssueRecords
        /\ issues[i].body \in SUBSET Parts
    <3>1. i \in 1..listed /\ issues[i].fp = rpt[r].fp /\ listed \in 0..Len(issues) /\ issues \in Seq(IssueRecords)
      BY DEF Found, IssuesTyped
    <3>2. i \in 1..Len(issues)
      BY <3>1
    <3>3. issues[i] \in IssueRecords
      BY <3>1, <3>2
    <3> QED BY <3>1, <3>2, <3>3 DEF IssueIds, IssueRecords
  <2>2. CASE rpt[r].error \in issues[i].body
    <3>1. Status(r, "complete") /\ Moves(r, [pc |-> "done", to |-> i, says |-> "duplicate"])
      BY <1>3, <2>2
    <3>2. PICK t \in ReportRecords : /\ rpt' = [rpt EXCEPT ![r] = t]
                                     /\ t.pc = "done" /\ t.at = rpt[r].at /\ t.says = "duplicate"
                                     /\ t.to = i /\ t.error = rpt[r].error
      <4>1. "done" \in Pcs /\ "duplicate" \in Words
        BY DEF Pcs, Words
      <4> QED BY <2>1, <3>1, <4>1, ReportMoves
    <3>3. Word(t) = "complete"
      BY <3>2 DEF Word
    <3>4. ReportsTyped' /\ StatusInv'
      BY <1>1, <3>1, <3>2, <3>3, ReportGoesOn
    <3>5. IssuesTyped' /\ AloneInv'
      BY <1>1, <1>3, <2>1, <2>2, <3>2, QuietReport
    <3> QED BY <3>4, <3>5
  <2>3. CASE rpt[r].error \notin issues[i].body
    <3>1. Moves(r, [pc |-> "update", to |-> i, copy |-> issues[i].body]) /\ UNCHANGED statusAt
      BY <1>3, <2>3
    <3>2. PICK t \in ReportRecords : /\ rpt' = [rpt EXCEPT ![r] = t]
                                     /\ t.pc = "update" /\ t.at = rpt[r].at /\ t.says = nothing /\ t.fp = rpt[r].fp
                                     /\ t.to = i /\ t.copy = issues[i].body
      <4>1. "update" \in Pcs
        BY DEF Pcs
      <4> QED BY <1>1, <2>1, <3>1, <4>1, ReportMoves
    <3>3. ReportsTyped' /\ StatusInv'
      BY <1>1, <3>1, <3>2, ReportGoesOn
    <3>4. IssuesTyped' /\ AloneInv'
      BY <1>1, <1>3, <2>1, <3>2, ReportActs
    <3> QED BY <3>3, <3>4
  <2> QED BY <2>2, <2>3
<1>4. CASE /\ Moves(r, [pc |-> "create"]) /\ UNCHANGED statusAt
           /\ raced' = (raced \/ Overlapping(r) \/ \E i \in IssueIds : issues[i].open /\ issues[i].fp = rpt[r].fp)
  <2>1. PICK t \in ReportRecords : /\ rpt' = [rpt EXCEPT ![r] = t]
                                   /\ t.pc = "create" /\ t.at = rpt[r].at /\ t.says = nothing /\ t.fp = rpt[r].fp
    <3>1. "create" \in Pcs
      BY DEF Pcs
    <3> QED BY <1>1, <1>4, <3>1, ReportMoves
  <2>2. ReportsTyped' /\ StatusInv'
    BY <1>1, <1>4, <2>1, ReportGoesOn
  <2>3. IssuesTyped' /\ AloneInv'
    BY <1>1, <1>4, <2>1, ReportActs
  <2> QED BY <2>2, <2>3
<1> QED BY <1>2, <1>3, <1>4 DEF search_issues

-----------------------------------------------------------------------------
(* The steps that write an issue. *)

\* One field of one issue is replaced.
LEMMA BodyReplaced ==
  ASSUME issues \in Seq(IssueRecords), NEW i \in IssueIds, NEW B \in SUBSET Parts,
         issues' = [issues EXCEPT ![i].body = B]
  PROVE  /\ issues' \in Seq(IssueRecords) /\ Len(issues') = Len(issues) /\ IssueIds' = IssueIds
         /\ \A j \in IssueIds : /\ issues'[j].fp = issues[j].fp /\ issues'[j].open = issues[j].open
                                /\ issues'[j].body = IF j = i THEN B ELSE issues[j].body
<1>1. issues[i] \in IssueRecords /\ i \in 1..Len(issues)
  BY DEF IssueIds
<1>2. [issues[i] EXCEPT !.body = B] \in IssueRecords
  BY <1>1 DEF IssueRecords
<1>3. issues' = [issues EXCEPT ![i] = [issues[i] EXCEPT !.body = B]]
  OBVIOUS
<1>4. issues' \in Seq(IssueRecords) /\ Len(issues') = Len(issues)
  BY <1>1, <1>2, <1>3
<1>5. \A j \in IssueIds : issues'[j] = IF j = i THEN [issues[i] EXCEPT !.body = B] ELSE issues[j]
  BY <1>3 DEF IssueIds
<1>6. [issues[i] EXCEPT !.body = B] = [fp |-> issues[i].fp, open |-> issues[i].open, body |-> B]
  BY <1>1 DEF IssueRecords
<1>7. \A j \in IssueIds : /\ issues'[j].fp = issues[j].fp /\ issues'[j].open = issues[j].open
                          /\ issues'[j].body = IF j = i THEN B ELSE issues[j].body
  BY <1>5, <1>6
<1> QED BY <1>4, <1>7 DEF IssueIds

LEMMA IssueClosed ==
  ASSUME issues \in Seq(IssueRecords), NEW i \in IssueIds,
         issues' = [issues EXCEPT ![i].open = FALSE]
  PROVE  /\ issues' \in Seq(IssueRecords) /\ Len(issues') = Len(issues) /\ IssueIds' = IssueIds
         /\ \A j \in IssueIds : /\ issues'[j].fp = issues[j].fp /\ issues'[j].body = issues[j].body
                                /\ issues'[j].open => j # i /\ issues[j].open
                                /\ j # i => issues'[j] = issues[j]
<1>1. issues[i] \in IssueRecords /\ i \in 1..Len(issues)
  BY DEF IssueIds
<1>2. [issues[i] EXCEPT !.open = FALSE] \in IssueRecords
  BY <1>1 DEF IssueRecords
<1>3. issues' = [issues EXCEPT ![i] = [issues[i] EXCEPT !.open = FALSE]]
  OBVIOUS
<1>4. issues' \in Seq(IssueRecords) /\ Len(issues') = Len(issues)
  BY <1>1, <1>2, <1>3
<1>5. \A j \in IssueIds : issues'[j] = IF j = i THEN [issues[i] EXCEPT !.open = FALSE] ELSE issues[j]
  BY <1>3 DEF IssueIds
<1>6. /\ issues'[i].fp = issues[i].fp /\ issues'[i].body = issues[i].body
      /\ ~issues'[i].open
  BY <1>1, <1>5 DEF IssueRecords
<1>7. \A j \in IssueIds : /\ issues'[j].fp = issues[j].fp /\ issues'[j].body = issues[j].body
                          /\ issues'[j].open => j # i /\ issues[j].open
                          /\ j # i => issues'[j] = issues[j]
  BY <1>5, <1>6
<1> QED BY <1>4, <1>7 DEF IssueIds

LEMMA UpdateKeeps ==
  ASSUME IssuesInv, NEW r \in Reports, update_issue_body(r)
  PROVE  IssuesInv'
<1> USE DEF IssuesInv
<1> DEFINE i == rpt[r].to
           B == Occurrence(r)
<1>1. PICK lands \in BOOLEAN, answers \in BOOLEAN :
        /\ answers => lands
        /\ issues' = IF lands THEN [issues EXCEPT ![i].body = B] ELSE issues
        /\ Moves(r, [pc |-> "done", says |-> IF answers THEN "updated" ELSE "update_failed"])
        /\ raced' = (raced \/ (lands /\ Editing(i)))
  BY DEF update_issue_body
<1>2. rpt[r].pc = "update" /\ Status(r, "complete") /\ UNCHANGED <<listed, closing>>
  BY DEF update_issue_body
<1>3. PICK t \in ReportRecords : /\ rpt' = [rpt EXCEPT ![r] = t]
                                 /\ t.pc = "done" /\ t.at = rpt[r].at /\ t.to = i /\ t.error = rpt[r].error
                                 /\ t.says \in {"updated", "update_failed"}
                                 /\ ~lands => t.says = "update_failed"
  <2> DEFINE word == IF answers THEN "updated" ELSE "update_failed"
  <2>1. "done" \in Pcs /\ word \in Words /\ Moves(r, [pc |-> "done", says |-> word])
    BY <1>1 DEF Pcs, Words
  <2> HIDE DEF word
  <2>2. \E t \in ReportRecords : /\ rpt' = [rpt EXCEPT ![r] = t] /\ t.pc = "done" /\ t.at = rpt[r].at
                                /\ t.to = rpt[r].to /\ t.error = rpt[r].error /\ t.says = word
    BY <2>1, ReportMoves
  <2>3. word \in {"updated", "update_failed"} /\ (~lands => word = "update_failed")
    BY <1>1 DEF word
  <2> QED BY <2>2, <2>3
<1>4. Word(t) = "complete"
  BY <1>3 DEF Word
<1>5. ReportsTyped' /\ StatusInv'
  BY <1>2, <1>3, <1>4, ReportGoesOn
<1>6. CASE ~lands
  BY <1>1, <1>2, <1>3, <1>5, <1>6, QuietReport DEF Told
<1>7. CASE lands
  <2>1. \A q \in Reports : rpt'[q] = IF q = r THEN t ELSE rpt[q]
    BY <1>3 DEF ReportsTyped
  <2>2. i \in IssueIds /\ issues[i].fp = rpt[r].fp
    BY <1>2 DEF IssuesTyped
  <2>3. B \in SUBSET Parts
    BY DEF ReportsTyped, ReportRecords, Occurrence, Parts
  <2>4. issues' = [issues EXCEPT ![i].body = B]
    BY <1>1, <1>7
  <2> HIDE DEF B, i
  <2>5. /\ issues' \in Seq(IssueRecords) /\ Len(issues') = Len(issues) /\ IssueIds' = IssueIds
        /\ \A j \in IssueIds : /\ issues'[j].fp = issues[j].fp /\ issues'[j].open = issues[j].open
                               /\ issues'[j].body = IF j = i THEN B ELSE issues[j].body
    BY <2>2, <2>3, <2>4, BodyReplaced DEF IssuesTyped
  <2>6. IssuesTyped'
    BY <1>2, <1>3, <2>1, <2>2, <2>5 DEF IssuesTyped
  <2>7. ASSUME ~raced' PROVE Apart' /\ FirstOfKind' /\ CopiesCurrent' /\ NothingLostAlone'
    <3>1. ~raced /\ ~Editing(i) /\ Apart /\ FirstOfKind /\ CopiesCurrent /\ NothingLostAlone
      BY <1>1, <1>7, <2>7 DEF AloneInv
    <3>2. issues[i].body \subseteq B /\ rpt[r].error \in B
      BY <1>2, <3>1 DEF CopiesCurrent, Occurrence, B, i
    <3>3. Apart'
      BY <1>3, <2>1, <3>1 DEF Apart, Acting
    <3>4. FirstOfKind'
      BY <1>3, <2>1, <2>5, <3>1 DEF FirstOfKind
    <3>5. \A q \in Reports : q # r /\ rpt[q].pc = "update" => rpt[q].to # i /\ rpt[q].to \in IssueIds
      BY <1>2, <2>2, <3>1 DEF Apart, Acting, IssuesTyped
    <3>6. closing.pc \in {"edit", "close"} => closing.todo[1] \in IssueIds
      BY DEF IssuesTyped, ClosingRecords
    <3>7. closing.pc = "edit" => closing.todo[1] # i
      BY <3>1 DEF Editing
    <3>8. ASSUME NEW q \in Reports, rpt'[q].pc = "update"
          PROVE  ~Editing(rpt[q].to)' /\ rpt'[q].copy = issues'[rpt'[q].to].body
      <4>1. q # r /\ rpt'[q] = rpt[q]
        BY <1>3, <2>1, <3>8
      <4>2. rpt[q].to \in IssueIds /\ rpt[q].to # i
        BY <3>5, <3>8, <4>1
      <4>3. ~Editing(rpt[q].to) /\ rpt[q].copy = issues[rpt[q].to].body
        BY <3>1, <3>8, <4>1 DEF CopiesCurrent
      <4> QED BY <1>2, <2>5, <4>1, <4>2, <4>3 DEF Editing
    <3>9. CopiesCurrent'
      <4>1. closing.pc = "edit" => closing.copy = issues'[closing.todo[1]].body
        BY <2>5, <3>1, <3>6, <3>7 DEF CopiesCurrent
      <4>2. closing.pc = "close" => note \in issues'[closing.todo[1]].body
        BY <2>5, <3>1, <3>2, <3>6 DEF CopiesCurrent
      <4> QED BY <1>2, <3>8, <4>1, <4>2 DEF CopiesCurrent
    <3>10. \A j \in IssueIds : issues[j].body \subseteq issues'[j].body
      BY <2>5, <3>2
    <3>11. \A q \in Reports : rpt'[q].says \in Told => rpt'[q].error \in issues'[rpt'[q].to].body
      <4>1. ASSUME NEW q \in Reports, q # r, rpt[q].says \in Told PROVE rpt[q].error \in issues'[rpt[q].to].body
        BY <3>1, <3>10, <4>1 DEF NothingLostAlone, IssuesTyped, Told
      <4>2. t.error \in issues'[t.to].body
        BY <1>3, <2>2, <2>5, <3>2
      <4> QED BY <2>1, <4>1, <4>2
    <3>12. \A k \in closing.closed : ~issues'[k].open /\ note \in issues'[k].body
      BY <2>5, <3>1, <3>10 DEF NothingLostAlone, IssuesTyped
    <3>13. NothingLostAlone'
      BY <1>2, <2>5, <3>1, <3>11, <3>12 DEF NothingLostAlone, Told
    <3> QED BY <3>3, <3>4, <3>9, <3>13
  <2> QED BY <1>5, <2>6, <2>7 DEF AloneInv
<1> QED BY <1>6, <1>7

LEMMA CreateKeeps ==
  ASSUME IssuesInv, NEW r \in Reports, create_issue(r)
  PROVE  IssuesInv'
<1> USE DEF IssuesInv
<1> DEFINE new == [fp |-> rpt[r].fp, open |-> TRUE, body |-> {rpt[r].error}]
           n == Len(issues)
<1>1. PICK lands \in BOOLEAN, answers \in BOOLEAN :
        /\ answers => lands
        /\ issues' = IF lands THEN Append(issues, new) ELSE issues
        /\ Moves(r, [pc |-> "done", to |-> IF answers THEN n + 1 ELSE 0,
                     says |-> IF answers THEN "created" ELSE "create_failed"])
  BY DEF create_issue
<1>2. rpt[r].pc = "create" /\ Status(r, "complete") /\ UNCHANGED <<listed, closing, raced>>
  BY DEF create_issue
<1>3. n \in Nat
  BY DEF IssuesTyped
<1>4. PICK t \in ReportRecords : /\ rpt' = [rpt EXCEPT ![r] = t]
                                 /\ t.pc = "done" /\ t.at = rpt[r].at /\ t.error = rpt[r].error
                                 /\ t.says \in {"created", "create_failed"}
                                 /\ t.says = "created" => lands /\ t.to = n + 1
  <2> DEFINE word == IF answers THEN "created" ELSE "create_failed"
             to == IF answers THEN n + 1 ELSE 0
  <2>1. "done" \in Pcs /\ word \in Words /\ to \in Nat /\ Moves(r, [pc |-> "done", to |-> to, says |-> word])
    BY <1>1, <1>3 DEF Pcs, Words
  <2>2. word \in {"created", "create_failed"} /\ (word = "created" => lands /\ to = n + 1)
    BY <1>1
  <2> HIDE DEF word, to
  <2>3. \E t \in ReportRecords : /\ rpt' = [rpt EXCEPT ![r] = t] /\ t.pc = "done" /\ t.at = rpt[r].at
                                 /\ t.to = to /\ t.error = rpt[r].error /\ t.says = word
    BY <2>1, ReportMoves
  <2> QED BY <2>2, <2>3
<1>5. Word(t) = "complete"
  BY <1>4 DEF Word
<1>6. ReportsTyped' /\ StatusInv'
  BY <1>2, <1>4, <1>5, ReportGoesOn
<1>7. CASE ~lands
  <2>1. t.says \notin Told /\ UNCHANGED issues
    BY <1>1, <1>4, <1>7 DEF Told
  <2> QED BY <1>2, <1>4, <1>6, <2>1, QuietReport
<1>8. CASE lands
  <2>1. \A q \in Reports : rpt'[q] = IF q = r THEN t ELSE rpt[q]
    BY <1>4 DEF ReportsTyped
  <2>2. new \in IssueRecords
    BY DEF ReportsTyped, ReportRecords, IssueRecords, Parts
  <2>3. /\ issues' \in Seq(IssueRecords) /\ Len(issues') = n + 1
        /\ \A j \in 1..n : issues'[j] = issues[j]
        /\ issues'[n + 1] = new
    <3>1. issues' = Append(issues, new) /\ issues \in Seq(IssueRecords)
      BY <1>1, <1>8 DEF IssuesTyped
    <3> HIDE DEF new
    <3> QED BY <2>2, <3>1
  <2>4. issues'[n + 1].fp = rpt[r].fp /\ issues'[n + 1].body = {rpt[r].error}
    BY <2>3
  <2> HIDE DEF new, n
  <2>5. IssueIds = 1..n /\ IssueIds' = 1..(n + 1) /\ \A j \in IssueIds' : j \in IssueIds \/ j = n + 1
    BY <1>3, <2>3 DEF IssueIds, n
  <2>6. IssuesTyped'
    <3>1. listed \in 0..n /\ closing \in ClosingRecords /\ closing.closed \subseteq 1..n
      BY <2>5 DEF IssuesTyped, n
    <3>2. listed' \in 0..Len(issues') /\ closing' \in ClosingRecords /\ closing'.closed \subseteq 1..(n + 1)
      BY <1>2, <1>3, <2>3, <3>1
    <3>3. \A k \in DOMAIN closing'.todo : closing'.todo[k] \in 1..(n + 1)
      BY <1>2, <1>3, <2>5 DEF IssuesTyped
    <3>4. closing'.pc \in {"view", "edit", "close"} => closing'.todo # <<>>
      BY <1>2 DEF IssuesTyped
    <3>5. ASSUME NEW q \in Reports, rpt'[q].pc = "update"
          PROVE  rpt'[q].to \in 1..(n + 1) /\ issues'[rpt'[q].to].fp = rpt'[q].fp
      <4>1. rpt'[q] = rpt[q]
        BY <1>4, <2>1, <3>5
      <4> QED BY <1>3, <2>3, <2>5, <3>5, <4>1 DEF IssuesTyped
    <3>6. ASSUME NEW q \in Reports, rpt'[q].says \in Told PROVE rpt'[q].to \in 1..(n + 1)
      <4>1. CASE q = r
        BY <1>3, <1>4, <2>1, <3>6, <4>1 DEF Told
      <4>2. CASE q # r
        BY <1>3, <2>1, <2>5, <3>6, <4>2 DEF IssuesTyped
      <4> QED BY <4>1, <4>2
    <3> QED BY <2>3, <2>5, <3>2, <3>3, <3>4, <3>5, <3>6 DEF IssuesTyped
  <2>7. ASSUME ~raced' PROVE Apart' /\ FirstOfKind' /\ CopiesCurrent' /\ NothingLostAlone'
    <3>1. ~raced /\ Apart /\ FirstOfKind /\ CopiesCurrent /\ NothingLostAlone
      BY <1>2, <2>7 DEF AloneInv
    <3>2. Apart'
      BY <1>4, <2>1, <3>1 DEF Apart, Acting
    <3>3. \A q \in Reports : q # r /\ Acting(q) => rpt[q].fp # rpt[r].fp
      BY <1>2, <3>1 DEF Apart, Acting
    <3>4. ASSUME NEW q \in Reports, rpt'[q].pc = "create", NEW i \in IssueIds', issues'[i].open
          PROVE  issues'[i].fp # rpt'[q].fp
      <4>1. q # r /\ rpt'[q] = rpt[q]
        BY <1>4, <2>1, <3>4
      <4>2. CASE i \in IssueIds
        BY <2>3, <2>5, <3>1, <3>4, <4>1, <4>2 DEF FirstOfKind
      <4>3. CASE i = n + 1
        BY <2>4, <3>3, <3>4, <4>1, <4>3 DEF Acting
      <4> QED BY <2>5, <4>2, <4>3
    <3>5. FirstOfKind'
      BY <3>4 DEF FirstOfKind
    <3>6. ASSUME NEW q \in Reports, rpt'[q].pc = "update"
          PROVE  ~Editing(rpt[q].to)' /\ rpt'[q].copy = issues'[rpt'[q].to].body
      <4>1. rpt'[q] = rpt[q]
        BY <1>4, <2>1, <3>6
      <4>2. rpt[q].to \in 1..n
        BY <2>5, <3>6, <4>1 DEF IssuesTyped
      <4>3. ~Editing(rpt[q].to) /\ rpt[q].copy = issues[rpt[q].to].body
        BY <3>1, <3>6, <4>1 DEF CopiesCurrent
      <4> QED BY <1>2, <2>3, <4>1, <4>2, <4>3 DEF Editing
    <3>7. CopiesCurrent'
      <4>1. closing.pc \in {"edit", "close"} => closing.todo[1] \in 1..n
        BY <2>5 DEF IssuesTyped, ClosingRecords
      <4>2. closing.pc = "edit" => closing.copy = issues'[closing.todo[1]].body
        BY <2>3, <3>1, <4>1 DEF CopiesCurrent
      <4>3. closing.pc = "close" => note \in issues'[closing.todo[1]].body
        BY <2>3, <3>1, <4>1 DEF CopiesCurrent
      <4> QED BY <1>2, <3>6, <4>2, <4>3 DEF CopiesCurrent
    <3>8. ASSUME NEW i \in IssueIds', NEW j \in IssueIds', i # j, issues'[i].fp = issues'[j].fp
          PROVE  ~(issues'[i].open /\ issues'[j].open)
      <4>1. \A k \in IssueIds : issues[k].open => issues[k].fp # rpt[r].fp
        BY <1>2, <3>1 DEF FirstOfKind
      <4>2. CASE i \in IssueIds /\ j \in IssueIds
        BY <2>3, <2>5, <3>1, <3>8, <4>2 DEF NothingLostAlone
      <4>3. CASE i = n + 1
        BY <2>3, <2>4, <2>5, <3>8, <4>1, <4>3
      <4>4. CASE j = n + 1
        BY <2>3, <2>4, <2>5, <3>8, <4>1, <4>4
      <4> QED BY <2>5, <4>2, <4>3, <4>4
    <3>9. ASSUME NEW q \in Reports, rpt'[q].says \in Told PROVE rpt'[q].error \in issues'[rpt'[q].to].body
      <4>1. CASE q = r
        BY <1>4, <2>1, <2>4, <3>9, <4>1 DEF Told
      <4>2. CASE q # r
        <5>1. rpt'[q] = rpt[q] /\ rpt[q].to \in 1..n
          BY <2>1, <2>5, <3>9, <4>2 DEF IssuesTyped
        <5>2. rpt[q].error \in issues[rpt[q].to].body
          BY <3>1, <3>9, <5>1 DEF NothingLostAlone, Told
        <5> QED BY <2>3, <5>1, <5>2
      <4> QED BY <4>1, <4>2
    <3>10. \A k \in closing.closed : ~issues'[k].open /\ note \in issues'[k].body
      BY <2>3, <2>5, <3>1 DEF NothingLostAlone, IssuesTyped
    <3>11. NothingLostAlone'
      BY <1>2, <3>8, <3>9, <3>10 DEF NothingLostAlone, Told
    <3> QED BY <3>2, <3>5, <3>7, <3>11
  <2> QED BY <1>6, <2>6, <2>7 DEF AloneInv
<1> QED BY <1>7, <1>8

LEMMA ServerStopsKeeps ==
  ASSUME IssuesInv, ServerStops
  PROVE  IssuesInv'
<1> USE DEF IssuesInv
<1>1. /\ rpt' = [q \in Reports |-> IF rpt[q].pc \in {"idle", "done"} THEN rpt[q] ELSE [rpt[q] EXCEPT !.pc = "cut"]]
      /\ UNCHANGED <<statusAt, issues, listed, closing, raced>>
  BY DEF ServerStops
<1>2. ASSUME NEW q \in Reports
      PROVE  /\ rpt'[q] \in ReportRecords /\ rpt'[q].at = rpt[q].at /\ rpt'[q].says = rpt[q].says
             /\ rpt'[q].to = rpt[q].to /\ rpt'[q].error = rpt[q].error
             /\ rpt'[q].pc # "update" /\ rpt'[q].pc # "create"
             /\ rpt'[q].pc = "idle" <=> rpt[q].pc = "idle"
             /\ rpt'[q].pc = "done" <=> rpt[q].pc = "done"
  <2>1. rpt[q] \in ReportRecords
    BY DEF ReportsTyped
  <2>2. CASE rpt[q].pc \in {"idle", "done"}
    BY <1>1, <2>1, <2>2
  <2>3. CASE rpt[q].pc \notin {"idle", "done"}
    <3>1. rpt'[q] = [rpt[q] EXCEPT !.pc = "cut"]
      BY <1>1, <2>3
    <3> QED BY <2>1, <2>3, <3>1 DEF ReportRecords
  <2> QED BY <2>2, <2>3
<1>3. ReportsTyped'
  <2>1. rpt' \in [Reports -> ReportRecords]
    BY <1>1, <1>2
  <2> QED BY <1>1, <1>2, <2>1 DEF ReportsTyped
<1>4. StatusInv'
  <2>1. \A q \in Reports : Word(rpt'[q]) = Word(rpt[q])
    BY <1>2 DEF Word
  <2>2. \A s \in Seconds : statusAt'[s] # "none" => \E q \in Reports : rpt'[q].pc # "idle" /\ rpt'[q].at = s
    BY <1>1, <1>2 DEF StatusInv
  <2>3. ASSUME NEW q \in Reports, rpt'[q].pc # "idle", statusAt'[rpt'[q].at] # "none",
               \A p \in Reports \ {q} : rpt'[p].pc = "idle" \/ rpt'[p].at # rpt'[q].at
        PROVE  statusAt'[rpt'[q].at] = Word(rpt'[q])
    <3>1. \A p \in Reports \ {q} : rpt[p].pc = "idle" \/ rpt[p].at # rpt[q].at
      BY <1>2, <2>3
    <3>2. rpt[q].pc # "idle" /\ statusAt[rpt[q].at] # "none"
      BY <1>1, <1>2, <2>3
    <3>3. statusAt[rpt[q].at] = Word(rpt[q])
      BY <3>1, <3>2 DEF StatusInv
    <3> QED BY <1>1, <1>2, <2>1, <3>3
  <2> QED BY <2>2, <2>3 DEF StatusInv
<1>5. IssuesTyped'
  BY <1>1, <1>2 DEF IssuesTyped, IssueIds
<1>6. ASSUME ~raced' PROVE Apart' /\ FirstOfKind' /\ CopiesCurrent' /\ NothingLostAlone'
  <2>1. ~raced /\ Apart /\ FirstOfKind /\ CopiesCurrent /\ NothingLostAlone
    BY <1>1, <1>6 DEF AloneInv
  <2>2. Apart' /\ FirstOfKind'
    BY <1>2 DEF Apart, Acting, FirstOfKind
  <2>3. CopiesCurrent'
    BY <1>1, <1>2, <2>1 DEF CopiesCurrent
  <2>4. NothingLostAlone'
    BY <1>1, <1>2, <2>1 DEF NothingLostAlone, IssueIds
  <2> QED BY <2>2, <2>3, <2>4
<1> QED BY <1>3, <1>4, <1>5, <1>6 DEF AloneInv

\* The search, the throttle and the batches leave the issues alone.
LEMMA IssuesAside ==
  ASSUME IssuesInv, UNCHANGED <<rpt, statusAt, issues, closing, raced>>, listed' \in 0..Len(issues)
  PROVE  IssuesInv'
<1> USE DEF IssuesInv
<1>1. ReportsTyped' /\ StatusInv'
  BY DEF ReportsTyped, StatusInv
<1>2. IssuesTyped'
  BY DEF IssuesTyped, IssueIds
<1>3. AloneInv'
  BY DEF AloneInv, Apart, Acting, FirstOfKind, CopiesCurrent, Editing, NothingLostAlone, IssueIds
<1> QED BY <1>1, <1>2, <1>3

-----------------------------------------------------------------------------
(* bulk_close_issues *)

\* It goes to the next issue, with this one closed or failed.
LEMMA NextIssueGoes ==
  ASSUME IssuesTyped, closing.pc \in {"view", "edit", "close"}, NEW outcome \in {"closed", "failed"},
         NextIssue(outcome)
  PROVE  /\ closing' \in ClosingRecords /\ closing'.pc \in {"view", "done"}
         /\ \A k \in DOMAIN closing'.todo : closing'.todo[k] \in IssueIds
         /\ closing'.pc = "view" => closing'.todo # <<>>
         /\ closing'.closed = IF outcome = "closed" THEN closing.closed \union {closing.todo[1]} ELSE closing.closed
         /\ closing.todo[1] \in IssueIds
<1>1. closing \in ClosingRecords /\ closing.todo \in Seq(Nat) /\ closing.todo # <<>>
  BY DEF IssuesTyped, ClosingRecords
<1>2. /\ closing.todo[1] \in Nat /\ closing.todo[1] \in IssueIds /\ Tail(closing.todo) \in Seq(Nat)
      /\ Len(Tail(closing.todo)) = Len(closing.todo) - 1 /\ Len(closing.todo) \in Nat \ {0}
      /\ \A k \in DOMAIN Tail(closing.todo) : Tail(closing.todo)[k] = closing.todo[k + 1]
      /\ \A k \in DOMAIN Tail(closing.todo) : k + 1 \in DOMAIN closing.todo
  BY <1>1 DEF IssuesTyped
<1> DEFINE tail == Tail(closing.todo)
           goes == IF Len(closing.todo) = 1 THEN "done" ELSE "view"
<1>3. goes \in {"view", "done"} /\ (goes = "view" => tail # <<>>)
  <2>1. goes = "view" => Len(tail) # 0
    BY <1>2
  <2>2. tail = <<>> => Len(tail) = 0
    <3> HIDE DEF tail
    <3> QED OBVIOUS
  <2> QED BY <2>1, <2>2
<1>4. CASE outcome = "closed"
  <2>1. closing' = [closing EXCEPT !.todo = tail, !.pc = goes, !.closed = closing.closed \union {closing.todo[1]}]
    BY <1>4 DEF NextIssue
  <2>2. goes \in {"view", "done"} /\ (goes = "view" => tail # <<>>)
    BY <1>3
  <2>3. tail \in Seq(Nat) /\ \A k \in DOMAIN tail : tail[k] \in IssueIds
    BY <1>2 DEF IssuesTyped
  <2> HIDE DEF tail, goes
  <2>4. closing' \in ClosingRecords /\ closing'.todo = tail /\ closing'.pc = goes
        /\ closing'.closed = closing.closed \union {closing.todo[1]}
    BY <1>1, <1>2, <2>1, <2>2, <2>3 DEF ClosingRecords
  <2> QED BY <1>2, <1>4, <2>2, <2>3, <2>4
<1>5. CASE outcome = "failed"
  <2>1. closing' = [closing EXCEPT !.todo = tail, !.pc = goes, !.failed = closing.failed \union {closing.todo[1]}]
    BY <1>5 DEF NextIssue
  <2>2. goes \in {"view", "done"} /\ (goes = "view" => tail # <<>>)
    BY <1>3
  <2>3. tail \in Seq(Nat) /\ \A k \in DOMAIN tail : tail[k] \in IssueIds
    BY <1>2 DEF IssuesTyped
  <2> HIDE DEF tail, goes
  <2>4. closing' \in ClosingRecords /\ closing'.todo = tail /\ closing'.pc = goes /\ closing'.closed = closing.closed
    BY <1>1, <1>2, <2>1, <2>2, <2>3 DEF ClosingRecords
  <2> QED BY <1>2, <1>5, <2>2, <2>3, <2>4
<1> QED BY <1>4, <1>5

\* A step of the bulk close that writes no issue, and has not read one anew.
LEMMA ClosingAside ==
  ASSUME IssuesInv, closing' \in ClosingRecords, closing'.pc \in {"view", "done"},
         \A k \in DOMAIN closing'.todo : closing'.todo[k] \in IssueIds,
         closing'.pc = "view" => closing'.todo # <<>>, closing'.closed = closing.closed,
         UNCHANGED <<rpt, statusAt, issues, listed, raced>>
  PROVE  IssuesInv'
<1> USE DEF IssuesInv
<1>1. ReportsTyped' /\ StatusInv'
  BY DEF ReportsTyped, StatusInv
<1>2. IssuesTyped'
  BY DEF IssuesTyped, IssueIds
<1>3. AloneInv'
  BY DEF AloneInv, Apart, Acting, FirstOfKind, CopiesCurrent, Editing, NothingLostAlone, IssueIds
<1> QED BY <1>1, <1>2, <1>3

LEMMA BulkCloseKeeps ==
  ASSUME IssuesInv, bulk_close_issues
  PROVE  IssuesInv'
<1> DEFINE all == [i \in IssueIds |-> i]
<1>1. Len(issues) \in Nat /\ issues # <<>> /\ closing \in ClosingRecords
  BY DEF IssuesInv, IssuesTyped, bulk_close_issues
<1>2. all \in Seq(Nat) /\ all # <<>> /\ \A k \in DOMAIN all : all[k] \in IssueIds
  <2>1. issues \in Seq(IssueRecords) /\ Len(issues) > 0
    BY <1>1 DEF IssuesInv, IssuesTyped
  <2>2. all \in [1..Len(issues) -> Nat] /\ Len(all) = Len(issues)
    BY <1>1 DEF IssueIds
  <2> QED BY <1>1, <2>1, <2>2 DEF IssueIds
<1>3. closing' = [closing EXCEPT !.pc = "view", !.todo = all]
  BY DEF bulk_close_issues
<1> HIDE DEF all
<1>4. closing' \in ClosingRecords /\ closing'.pc = "view" /\ closing'.todo = all /\ closing'.closed = closing.closed
  BY <1>1, <1>2, <1>3 DEF ClosingRecords
<1> QED BY <1>2, <1>4, ClosingAside DEF bulk_close_issues

LEMMA ViewBodyKeeps ==
  ASSUME IssuesInv, ViewBody
  PROVE  IssuesInv'
<1> USE DEF IssuesInv
<1>1. closing.pc = "view" /\ UNCHANGED <<rpt, statusAt, issues, listed>>
  BY DEF ViewBody
<1>2. CASE NextIssue("failed") /\ UNCHANGED raced
  BY <1>1, <1>2, NextIssueGoes, ClosingAside
<1>3. CASE /\ closing' = [closing EXCEPT !.pc = "edit", !.copy = issues[closing.todo[1]].body]
           /\ raced' = (raced \/ \E r \in Reports : rpt[r].pc = "update" /\ rpt[r].to = closing.todo[1])
  <2>1. /\ closing \in ClosingRecords /\ closing.todo[1] \in IssueIds /\ closing.todo # <<>>
        /\ issues[closing.todo[1]].body \in SUBSET Parts
    <3>1. closing.todo[1] \in IssueIds /\ closing.todo # <<>> /\ closing \in ClosingRecords
      BY <1>1 DEF IssuesTyped, ClosingRecords
    <3>2. issues[closing.todo[1]] \in IssueRecords
      BY <3>1 DEF IssuesTyped, IssueIds
    <3> QED BY <3>1, <3>2 DEF IssueRecords
  <2>2. /\ closing' \in ClosingRecords /\ closing'.pc = "edit" /\ closing'.todo = closing.todo
        /\ closing'.closed = closing.closed /\ closing'.copy = issues[closing.todo[1]].body
    BY <1>3, <2>1 DEF ClosingRecords
  <2>3. ReportsTyped' /\ StatusInv'
    BY <1>1 DEF ReportsTyped, StatusInv
  <2>4. IssuesTyped'
    BY <1>1, <2>1, <2>2 DEF IssuesTyped, IssueIds
  <2>5. ASSUME ~raced' PROVE Apart' /\ FirstOfKind' /\ CopiesCurrent' /\ NothingLostAlone'
    <3>1. ~raced /\ Apart /\ FirstOfKind /\ CopiesCurrent /\ NothingLostAlone
      BY <1>3, <2>5 DEF AloneInv
    <3>2. \A r \in Reports : rpt[r].pc = "update" => rpt[r].to # closing.todo[1]
      BY <1>3, <2>5
    <3>3. CopiesCurrent'
      BY <1>1, <2>2, <3>1, <3>2 DEF CopiesCurrent, Editing
    <3>4. Apart' /\ FirstOfKind' /\ NothingLostAlone'
      BY <1>1, <2>2, <3>1 DEF Apart, Acting, FirstOfKind, NothingLostAlone, IssueIds
    <3> QED BY <3>3, <3>4
  <2> QED BY <2>3, <2>4, <2>5 DEF AloneInv
<1> QED BY <1>2, <1>3, <1>1 DEF ViewBody

\* A step of the bulk close that may write an issue: nothing comes off a body and no issue is
\* opened, no report has read what is overwritten.
LEMMA ClosingWrites ==
  ASSUME IssuesInv, UNCHANGED <<rpt, statusAt, listed, raced>>,
         issues' \in Seq(IssueRecords), Len(issues') = Len(issues),
         closing' \in ClosingRecords, closing'.pc \in {"view", "done", "close"},
         \A k \in DOMAIN closing'.todo : closing'.todo[k] \in IssueIds,
         closing'.pc \in {"view", "close"} => closing'.todo # <<>>, closing'.closed \subseteq IssueIds,
         \A j \in IssueIds : issues'[j].fp = issues[j].fp,
         ~raced => /\ \A j \in IssueIds : /\ issues'[j].open => issues[j].open
                                          /\ issues[j].body \subseteq issues'[j].body
                   /\ \A q \in Reports : rpt[q].pc = "update" => issues'[rpt[q].to].body = issues[rpt[q].to].body
                   /\ closing'.pc = "close" => note \in issues'[closing'.todo[1]].body
                   /\ \A k \in closing'.closed : ~issues'[k].open /\ note \in issues'[k].body
  PROVE  IssuesInv'
<1> USE DEF IssuesInv
<1>1. ReportsTyped' /\ StatusInv'
  BY DEF ReportsTyped, StatusInv
<1>2. IssueIds' = IssueIds
  BY DEF IssueIds
<1>3. IssuesTyped'
  BY <1>2 DEF IssuesTyped
<1>4. ASSUME ~raced' PROVE Apart' /\ FirstOfKind' /\ CopiesCurrent' /\ NothingLostAlone'
  <2>1. ~raced /\ Apart /\ FirstOfKind /\ CopiesCurrent /\ NothingLostAlone
    BY <1>4 DEF AloneInv
  <2>2. Apart'
    BY <2>1 DEF Apart, Acting
  <2>3. FirstOfKind'
    BY <1>2, <2>1 DEF FirstOfKind
  <2>4. CopiesCurrent'
    BY <1>2, <2>1 DEF CopiesCurrent, Editing
  <2>5. \A i, j \in IssueIds : i # j /\ issues'[i].fp = issues'[j].fp => ~(issues'[i].open /\ issues'[j].open)
    BY <2>1 DEF NothingLostAlone
  <2>6. \A r \in Reports : rpt[r].says \in Told => rpt[r].error \in issues'[rpt[r].to].body
    BY <2>1 DEF NothingLostAlone, IssuesTyped, Told
  <2>7. NothingLostAlone'
    BY <1>2, <2>1, <2>5, <2>6 DEF NothingLostAlone, Told
  <2> QED BY <2>2, <2>3, <2>4, <2>7
<1> QED BY <1>1, <1>3, <1>4 DEF AloneInv

LEMMA EditBodyKeeps ==
  ASSUME IssuesInv, EditBody
  PROVE  IssuesInv'
<1> DEFINE i == closing.todo[1]
           B == closing.copy \union {note}
<1>1. closing.pc = "edit" /\ UNCHANGED <<rpt, statusAt, listed, raced>>
  BY DEF EditBody
<1>2. /\ issues \in Seq(IssueRecords) /\ closing \in ClosingRecords /\ i \in IssueIds /\ B \in SUBSET Parts
      /\ closing.todo # <<>> /\ closing.closed \subseteq IssueIds
      /\ \A k \in DOMAIN closing.todo : closing.todo[k] \in IssueIds
  BY <1>1 DEF IssuesInv, IssuesTyped, ClosingRecords, Parts
<1>3. ~raced => /\ issues[i].body \subseteq B
                /\ \A q \in Reports : rpt[q].pc = "update" => rpt[q].to # i /\ rpt[q].to \in IssueIds
                /\ \A k \in closing.closed : ~issues[k].open /\ note \in issues[k].body
  BY <1>1 DEF IssuesInv, IssuesTyped, AloneInv, CopiesCurrent, Editing, NothingLostAlone
<1>4. note \in B
  OBVIOUS
<1>5. CASE issues' = [issues EXCEPT ![i].body = B] /\ closing' = [closing EXCEPT !.pc = "close"]
  <2>1. closing' \in ClosingRecords /\ closing'.pc = "close" /\ closing'.todo = closing.todo
        /\ closing'.closed = closing.closed
    BY <1>2, <1>5 DEF ClosingRecords
  <2> HIDE DEF i, B
  <2>2. /\ issues' \in Seq(IssueRecords) /\ Len(issues') = Len(issues)
        /\ \A j \in IssueIds : /\ issues'[j].fp = issues[j].fp /\ issues'[j].open = issues[j].open
                               /\ issues'[j].body = IF j = i THEN B ELSE issues[j].body
    BY <1>2, <1>5, BodyReplaced
  <2>3. ~raced => /\ \A j \in IssueIds : /\ issues'[j].open => issues[j].open
                                         /\ issues[j].body \subseteq issues'[j].body
                  /\ \A q \in Reports : rpt[q].pc = "update" => issues'[rpt[q].to].body = issues[rpt[q].to].body
                  /\ \A k \in closing.closed : ~issues'[k].open /\ note \in issues'[k].body
    BY <1>2, <1>3, <2>2
  <2>4. note \in issues'[closing'.todo[1]].body
    BY <1>2, <1>4, <2>1, <2>2 DEF i
  <2> QED BY <1>1, <1>2, <2>1, <2>2, <2>3, <2>4, ClosingWrites
<1>6. CASE NextIssue("failed") /\ issues' = issues
  BY <1>1, <1>6, NextIssueGoes, ClosingAside DEF IssuesInv
<1>7. CASE NextIssue("failed") /\ issues' = [issues EXCEPT ![i].body = B]
  <2>1. /\ closing' \in ClosingRecords /\ closing'.pc \in {"view", "done"}
        /\ \A k \in DOMAIN closing'.todo : closing'.todo[k] \in IssueIds
        /\ closing'.pc = "view" => closing'.todo # <<>>
        /\ closing'.closed = closing.closed
    BY <1>1, <1>7, NextIssueGoes DEF IssuesInv
  <2> HIDE DEF i, B
  <2>2. /\ issues' \in Seq(IssueRecords) /\ Len(issues') = Len(issues)
        /\ \A j \in IssueIds : /\ issues'[j].fp = issues[j].fp /\ issues'[j].open = issues[j].open
                               /\ issues'[j].body = IF j = i THEN B ELSE issues[j].body
    BY <1>2, <1>7, BodyReplaced
  <2>3. ~raced => /\ \A j \in IssueIds : /\ issues'[j].open => issues[j].open
                                         /\ issues[j].body \subseteq issues'[j].body
                  /\ \A q \in Reports : rpt[q].pc = "update" => issues'[rpt[q].to].body = issues[rpt[q].to].body
                  /\ \A k \in closing.closed : ~issues'[k].open /\ note \in issues'[k].body
    BY <1>2, <1>3, <2>2
  <2> QED BY <1>1, <1>2, <2>1, <2>2, <2>3, ClosingWrites
<1> QED BY <1>5, <1>6, <1>7 DEF EditBody

LEMMA CloseIssueKeeps ==
  ASSUME IssuesInv, CloseIssue
  PROVE  IssuesInv'
<1> DEFINE i == closing.todo[1]
<1>1. closing.pc = "close" /\ UNCHANGED <<rpt, statusAt, listed, raced>>
  BY DEF CloseIssue
<1>2. /\ issues \in Seq(IssueRecords) /\ i \in IssueIds /\ closing.closed \subseteq IssueIds
  BY <1>1 DEF IssuesInv, IssuesTyped, ClosingRecords
<1>3. ~raced => /\ note \in issues[i].body
                /\ \A q \in Reports : rpt[q].pc = "update" => rpt[q].to \in IssueIds
                /\ \A k \in closing.closed : ~issues[k].open /\ note \in issues[k].body
  BY <1>1 DEF IssuesInv, IssuesTyped, AloneInv, CopiesCurrent, NothingLostAlone
<1>4. CASE NextIssue("failed") /\ issues' = issues
  BY <1>1, <1>4, NextIssueGoes, ClosingAside DEF IssuesInv
<1>5. ASSUME NEW outcome \in {"closed", "failed"}, NextIssue(outcome), issues' = [issues EXCEPT ![i].open = FALSE]
      PROVE  IssuesInv'
  <2>1. /\ closing' \in ClosingRecords /\ closing'.pc \in {"view", "done"}
        /\ \A k \in DOMAIN closing'.todo : closing'.todo[k] \in IssueIds
        /\ closing'.pc = "view" => closing'.todo # <<>>
        /\ closing'.closed = closing.closed \/ closing'.closed = closing.closed \union {i}
    BY <1>1, <1>5, NextIssueGoes DEF IssuesInv
  <2> HIDE DEF i
  <2>2. /\ issues' \in Seq(IssueRecords) /\ Len(issues') = Len(issues)
        /\ \A j \in IssueIds : /\ issues'[j].fp = issues[j].fp /\ issues'[j].body = issues[j].body
                               /\ issues'[j].open => j # i /\ issues[j].open
    BY <1>2, <1>5, IssueClosed
  <2>3. ~raced => /\ \A j \in IssueIds : /\ issues'[j].open => issues[j].open
                                         /\ issues[j].body \subseteq issues'[j].body
                  /\ \A q \in Reports : rpt[q].pc = "update" => issues'[rpt[q].to].body = issues[rpt[q].to].body
                  /\ \A k \in closing'.closed : ~issues'[k].open /\ note \in issues'[k].body
    BY <1>2, <1>3, <2>1, <2>2
  <2>4. closing'.closed \subseteq IssueIds
    BY <1>2, <2>1
  <2> QED BY <1>1, <2>1, <2>2, <2>3, <2>4, ClosingWrites
<1> QED BY <1>4, <1>5 DEF CloseIssue

-----------------------------------------------------------------------------
(* batch_create_issues *)

BatchRecords ==
  [pc : {"mutation", "returns", "ended"}, next : 1..(Tickets + 1),
   says : {nothing, "timeout", "raised", "created"}, urls : Nat]

BatchTyped ==
  /\ batches \in Seq(BatchRecords) /\ filed \in Seq(Nat)
  /\ \A b \in DOMAIN batches :
       /\ batches[b].pc = "mutation" => batches[b].urls = batches[b].next - 1
       /\ batches[b].pc = "returns" => batches[b].urls = Tickets
       /\ batches[b].says = "created" => batches[b].pc = "ended" /\ batches[b].urls = Tickets

\* The first batch files the tickets in order.
FirstBatch ==
  /\ Len(batches) = 0 => filed = <<>>
  /\ Len(batches) = 1 => /\ \A i \in DOMAIN filed : filed[i] = i
                         /\ batches[1].pc = "mutation" => Len(filed) = batches[1].next - 1

BatchInv == BatchTyped /\ FirstBatch

LEMMA BatchesSafe == BatchInv => BatchOnce
<1> SUFFICES ASSUME BatchInv PROVE BatchOnce
  OBVIOUS
<1>1. \A b \in DOMAIN batches : batches[b].says = "created" => batches[b].urls = Tickets
  BY DEF BatchInv, BatchTyped
<1>2. Len(batches) \in Nat
  BY DEF BatchInv, BatchTyped
<1>3. ASSUME NEW i \in DOMAIN filed, NEW j \in DOMAIN filed, i # j, filed[i] = filed[j] PROVE Len(batches) > 1
  <2>1. Len(batches) # 0
    BY <1>3 DEF BatchInv, FirstBatch
  <2>2. Len(batches) # 1
    BY <1>3 DEF BatchInv, FirstBatch
  <2>3. \A n \in Nat : n # 0 /\ n # 1 => n > 1
    OBVIOUS
  <2> QED BY <1>2, <2>1, <2>2, <2>3
<1> QED BY <1>1, <1>3 DEF BatchOnce

\* A batch goes on.
LEMMA BatchGoesOn ==
  ASSUME BatchInv, NEW b \in DOMAIN batches, NEW u \in BatchRecords, batches' = [batches EXCEPT ![b] = u],
         filed' \in Seq(Nat),
         u.pc = "mutation" => u.urls = u.next - 1,
         u.pc = "returns" => u.urls = Tickets,
         u.says = "created" => u.pc = "ended" /\ u.urls = Tickets,
         Len(batches) = 1 => /\ \A i \in DOMAIN filed' : filed'[i] = i
                             /\ u.pc = "mutation" => Len(filed') = u.next - 1
  PROVE  BatchInv'
<1>1. batches \in Seq(BatchRecords) /\ b \in 1..Len(batches) /\ Len(batches) \in Nat
  BY DEF BatchInv, BatchTyped
<1>2. batches' \in Seq(BatchRecords) /\ Len(batches') = Len(batches) /\ DOMAIN batches' = DOMAIN batches
  BY <1>1
<1>3. \A c \in DOMAIN batches : batches'[c] = IF c = b THEN u ELSE batches[c]
  BY <1>1
<1>4. BatchTyped'
  BY <1>2, <1>3 DEF BatchInv, BatchTyped
<1>5. Len(batches) = 1 => b = 1
  BY <1>1
<1>6. FirstBatch'
  BY <1>1, <1>2, <1>3, <1>5 DEF FirstBatch
<1> QED BY <1>4, <1>6 DEF BatchInv

LEMMA RunPythonKeeps ==
  ASSUME BatchInv, RunPython
  PROVE  BatchInv'
<1> DEFINE new == [pc |-> "mutation", next |-> 1, says |-> nothing, urls |-> 0]
<1>1. batches \in Seq(BatchRecords) /\ Len(batches) \in Nat /\ batches' = Append(batches, new) /\ filed' = filed
  BY DEF BatchInv, BatchTyped, RunPython
<1>2. new \in BatchRecords /\ new.pc = "mutation" /\ new.urls = new.next - 1 /\ new.says # "created" /\ new.next = 1
  BY ReportsAssumption DEF BatchRecords, nothing
<1> HIDE DEF new
<1>3. /\ batches' \in Seq(BatchRecords) /\ Len(batches') = Len(batches) + 1
      /\ \A c \in DOMAIN batches' : IF c = Len(batches) + 1 THEN batches'[c] = new
                                    ELSE c \in DOMAIN batches /\ batches'[c] = batches[c]
  BY <1>1, <1>2
<1>4. BatchTyped'
  BY <1>1, <1>2, <1>3 DEF BatchInv, BatchTyped
<1>5. ASSUME Len(batches') = 1
      PROVE  (\A i \in DOMAIN filed' : filed'[i] = i) /\ Len(filed') = batches'[1].next - 1
  <2>1. Len(batches) = 0
    BY <1>1, <1>3, <1>5
  <2>2. filed' = <<>>
    BY <1>1, <2>1 DEF BatchInv, FirstBatch
  <2>3. batches'[1] = new
    <3>1. 1 \in DOMAIN batches'
      BY <1>3, <1>5
    <3> QED BY <1>3, <2>1, <3>1
  <2> QED BY <1>2, <2>2, <2>3
<1>6. Len(batches') # 0
  BY <1>1, <1>3
<1> QED BY <1>4, <1>5, <1>6 DEF BatchInv, FirstBatch

LEMMA ReturnURLsKeeps ==
  ASSUME BatchInv, NEW b \in DOMAIN batches, ReturnURLs(b) \/ RunPythonTimeout(b)
  PROVE  BatchInv'
<1>1. batches[b] \in BatchRecords
  BY DEF BatchInv, BatchTyped
<1>2. CASE ReturnURLs(b)
  <2> DEFINE word == IF batches[b].says = nothing THEN "created" ELSE batches[b].says
             u == [batches[b] EXCEPT !.pc = "ended", !.says = word]
  <2>1. word \in {nothing, "timeout", "raised", "created"}
    BY <1>1 DEF BatchRecords
  <2>2. batches' = [batches EXCEPT ![b] = u] /\ batches[b].pc = "returns" /\ filed' = filed
    BY <1>2 DEF ReturnURLs
  <2> HIDE DEF word
  <2>3. u \in BatchRecords /\ u.pc = "ended" /\ u.urls = batches[b].urls
    BY <1>1, <2>1 DEF BatchRecords
  <2> HIDE DEF u
  <2>4. u.urls = Tickets
    BY <2>2, <2>3 DEF BatchInv, BatchTyped
  <2>5. filed' \in Seq(Nat) /\ (Len(batches) = 1 => \A i \in DOMAIN filed' : filed'[i] = i)
    BY <2>2 DEF BatchInv, BatchTyped, FirstBatch
  <2> QED BY <2>2, <2>3, <2>4, <2>5, BatchGoesOn
<1>3. CASE RunPythonTimeout(b)
  <2> DEFINE u == [batches[b] EXCEPT !.says = "timeout"]
  <2>1. batches' = [batches EXCEPT ![b] = u] /\ filed' = filed
    BY <1>3 DEF RunPythonTimeout
  <2>2. u \in BatchRecords /\ u.pc = batches[b].pc /\ u.urls = batches[b].urls /\ u.next = batches[b].next
        /\ u.says = "timeout"
    BY <1>1 DEF BatchRecords
  <2> HIDE DEF u
  <2>3. /\ u.pc = "mutation" => u.urls = u.next - 1
        /\ u.pc = "returns" => u.urls = Tickets
    BY <2>2 DEF BatchInv, BatchTyped
  <2>4. filed' \in Seq(Nat) /\ (Len(batches) = 1 => \A i \in DOMAIN filed' : filed'[i] = i)
    BY <2>1 DEF BatchInv, BatchTyped, FirstBatch
  <2>5. Len(batches) = 1 /\ u.pc = "mutation" => Len(filed') = u.next - 1
    <3>1. Len(batches) = 1 => b = 1
      BY DEF BatchInv, BatchTyped
    <3> QED BY <2>1, <2>2, <3>1 DEF BatchInv, FirstBatch
  <2> QED BY <2>1, <2>2, <2>3, <2>4, <2>5, BatchGoesOn
<1> QED BY <1>2, <1>3

LEMMA CreateChunkKeeps ==
  ASSUME BatchInv, NEW b \in DOMAIN batches, CreateChunk(b)
  PROVE  BatchInv'
<1> DEFINE first == batches[b].next
           last == IF first + Chunk - 1 < Tickets THEN first + Chunk - 1 ELSE Tickets
<1>1. /\ batches[b] \in BatchRecords /\ batches[b].pc = "mutation" /\ first \in 1..(Tickets + 1)
      /\ batches[b].urls = first - 1 /\ Tickets \in Nat /\ Chunk \in Nat
  <2>1. batches[b] \in BatchRecords /\ batches[b].pc = "mutation" /\ batches[b].urls = batches[b].next - 1
    BY DEF BatchInv, BatchTyped, CreateChunk
  <2>2. Tickets \in Nat /\ Chunk \in Nat
    BY ReportsAssumption
  <2> QED BY <2>1, <2>2 DEF BatchRecords
<1>2. PICK to \in (first - 1)..last :
        /\ filed' = filed \o [t \in 1..(to + 1 - first) |-> first + t - 1]
        /\ \/ /\ to = last
              /\ batches' = [batches EXCEPT ![b].next = to + 1, ![b].urls = @ + to + 1 - first,
                                            ![b].pc = IF to = Tickets THEN "returns" ELSE "mutation"]
           \/ batches' = [batches EXCEPT ![b].pc = "ended", ![b].says = IF @ = nothing THEN "raised" ELSE @]
  BY DEF CreateChunk
<1>3. to \in Nat /\ to + 1 - first \in Nat /\ to <= Tickets
  BY <1>1
<1> HIDE DEF last
<1> DEFINE more == [t \in 1..(to + 1 - first) |-> first + t - 1]
<1>4. more \in Seq(Nat) /\ Len(more) = to + 1 - first /\ \A t \in 1..(to + 1 - first) : more[t] = first + t - 1
  <2> DEFINE n == to + 1 - first
  <2>1. \A t \in 1..n : first + t - 1 \in Nat
    BY <1>1, <1>3
  <2>2. n \in Nat
    BY <1>3
  <2> HIDE DEF n, first
  <2>3. more = [t \in 1..n |-> first + t - 1]
    BY DEF n
  <2> HIDE DEF more
  <2>4. more \in [1..n -> Nat] /\ \A t \in 1..n : more[t] = first + t - 1
    BY <2>1, <2>3
  <2>5. more \in Seq(Nat) /\ Len(more) = n
    BY <2>2, <2>4
  <2> QED BY <2>4, <2>5 DEF n
<1> HIDE DEF more
<1>5. filed \in Seq(Nat) /\ filed' = filed \o more
  BY <1>2 DEF BatchInv, BatchTyped, more
<1>6. /\ filed' \in Seq(Nat) /\ Len(filed') = Len(filed) + Len(more)
      /\ \A i \in 1..Len(filed') : filed'[i] = IF i <= Len(filed) THEN filed[i] ELSE more[i - Len(filed)]
  BY <1>4, <1>5, ConcatProperties
<1>7. ASSUME Len(batches) = 1
      PROVE  (\A i \in DOMAIN filed' : filed'[i] = i) /\ Len(filed') = to
  <2>1. b = 1
    BY <1>7 DEF BatchInv, BatchTyped
  <2>2. Len(filed) = first - 1 /\ \A i \in DOMAIN filed : filed[i] = i
    BY <1>1, <1>7, <2>1 DEF BatchInv, FirstBatch
  <2>3. Len(filed') = to /\ DOMAIN filed' = 1..to
    BY <1>1, <1>3, <1>4, <1>6, <2>2
  <2>4. ASSUME NEW i \in 1..to PROVE filed'[i] = i
    <3>1. CASE i <= Len(filed)
      BY <1>5, <1>6, <2>2, <2>3, <2>4, <3>1
    <3>2. CASE ~(i <= Len(filed))
      <4>1. i - Len(filed) \in 1..(to + 1 - first)
        BY <1>1, <1>3, <2>2, <2>4, <3>2
      <4>2. filed'[i] = first + (i - Len(filed)) - 1
        BY <1>4, <1>6, <2>3, <2>4, <3>2, <4>1
      <4> QED BY <1>1, <2>2, <4>1, <4>2
    <3> QED BY <3>1, <3>2
  <2> QED BY <2>3, <2>4
<1>8. CASE /\ to = last
           /\ batches' = [batches EXCEPT ![b].next = to + 1, ![b].urls = @ + to + 1 - first,
                                         ![b].pc = IF to = Tickets THEN "returns" ELSE "mutation"]
  <2> DEFINE goes == IF to = Tickets THEN "returns" ELSE "mutation"
             urls == batches[b].urls + to + 1 - first
             u == [batches[b] EXCEPT !.next = to + 1, !.urls = urls, !.pc = goes]
  <2>1. urls = to
    BY <1>1, <1>3
  <2>2. goes \in {"returns", "mutation"} /\ (goes = "returns" => to = Tickets)
    OBVIOUS
  <2>3. batches' = [batches EXCEPT ![b] = u]
    BY <1>8
  <2> HIDE DEF goes, urls
  <2>4. u = [batches[b] EXCEPT !.next = to + 1, !.urls = to, !.pc = goes]
    BY <2>1
  <2> HIDE DEF u, first
  <2>5. u \in BatchRecords /\ u.pc = goes /\ u.next = to + 1 /\ u.urls = to /\ u.says = batches[b].says
    <3>1. to + 1 \in 1..(Tickets + 1)
      BY <1>1, <1>3
    <3>2. u = [pc |-> goes, next |-> to + 1, says |-> batches[b].says, urls |-> to]
      BY <1>1, <2>4 DEF BatchRecords
    <3>3. batches[b].says \in {nothing, "timeout", "raised", "created"}
      BY <1>1 DEF BatchRecords
    <3> QED BY <1>3, <2>2, <3>1, <3>2, <3>3 DEF BatchRecords
  <2>6. u.says # "created"
    BY <1>1, <2>5 DEF BatchInv, BatchTyped
  <2>7. /\ u.pc = "mutation" => u.urls = u.next - 1
        /\ u.pc = "returns" => u.urls = Tickets
    BY <1>3, <2>2, <2>5
  <2>8. Len(batches) = 1 => /\ \A i \in DOMAIN filed' : filed'[i] = i
                            /\ u.pc = "mutation" => Len(filed') = u.next - 1
    BY <1>3, <1>7, <2>5
  <2> QED BY <1>6, <2>3, <2>5, <2>6, <2>7, <2>8, BatchGoesOn
<1>9. CASE batches' = [batches EXCEPT ![b].pc = "ended", ![b].says = IF @ = nothing THEN "raised" ELSE @]
  <2> DEFINE word == IF batches[b].says = nothing THEN "raised" ELSE batches[b].says
             u == [batches[b] EXCEPT !.pc = "ended", !.says = word]
  <2>1. word \in {nothing, "timeout", "raised", "created"} /\ word # "created"
    BY <1>1 DEF BatchRecords, BatchInv, BatchTyped
  <2>2. batches' = [batches EXCEPT ![b] = u]
    BY <1>9
  <2> HIDE DEF word, first
  <2>3. u \in BatchRecords /\ u.pc = "ended" /\ u.says = word
    BY <1>1, <2>1 DEF BatchRecords
  <2> HIDE DEF u
  <2> QED BY <1>6, <1>7, <2>1, <2>2, <2>3, BatchGoesOn
<1> QED BY <1>2, <1>8, <1>9

LEMMA BatchKeeps ==
  ASSUME BatchInv, Batch
  PROVE  BatchInv'
BY RunPythonKeeps, ReturnURLsKeeps, CreateChunkKeeps DEF Batch

-----------------------------------------------------------------------------

LEMMA IssuesInvInit == IssuesInit => IssuesInv /\ BatchInv
<1> SUFFICES ASSUME IssuesInit PROVE BatchInv
  BY IssuesInitInv
<1>1. batches = <<>> /\ filed = <<>> /\ Len(batches) = 0
  BY DEF IssuesInit
<1> QED BY <1>1 DEF BatchInv, BatchTyped, FirstBatch

LEMMA IssuesInvNext ==
  ASSUME IssuesInv, BatchInv, [IssuesNext]_issueVars
  PROVE  IssuesInv' /\ BatchInv'
<1>1. listed \in 0..Len(issues) /\ Len(issues) \in Nat
  BY DEF IssuesInv, IssuesTyped
<1>2. ASSUME UNCHANGED <<batches, filed>> PROVE BatchInv'
  BY <1>2 DEF BatchInv, BatchTyped, FirstBatch
<1>3. ASSUME NEW r \in Reports, report_bug(r) PROVE IssuesInv' /\ BatchInv'
  BY <1>2, <1>3, ReportBugKeeps DEF report_bug
<1>4. ASSUME NEW r \in Reports, SessionFails(r) PROVE IssuesInv' /\ BatchInv'
  BY <1>2, <1>4, SessionFailsKeeps DEF SessionFails
<1>5. ASSUME NEW r \in Reports, SessionReports(r) PROVE IssuesInv' /\ BatchInv'
  BY <1>2, <1>5, SessionReportsKeeps DEF SessionReports
<1>6. ASSUME NEW r \in Reports, search_issues(r) PROVE IssuesInv' /\ BatchInv'
  BY <1>2, <1>6, SearchIssuesKeeps DEF search_issues
<1>7. ASSUME NEW r \in Reports, update_issue_body(r) PROVE IssuesInv' /\ BatchInv'
  BY <1>2, <1>7, UpdateKeeps DEF update_issue_body
<1>8. ASSUME NEW r \in Reports, create_issue(r) PROVE IssuesInv' /\ BatchInv'
  BY <1>2, <1>8, CreateKeeps DEF create_issue
<1>9. CASE ServerStops
  BY <1>2, <1>9, ServerStopsKeeps DEF ServerStops
<1>10. CASE SearchCatchesUp
  BY <1>1, <1>2, <1>10, IssuesAside DEF SearchCatchesUp
<1>11. CASE SecondPasses
  BY <1>1, <1>2, <1>11, IssuesAside DEF SecondPasses
<1>12. CASE bulk_close_issues
  BY <1>2, <1>12, BulkCloseKeeps DEF bulk_close_issues
<1>13. CASE ViewBody
  BY <1>2, <1>13, ViewBodyKeeps DEF ViewBody
<1>14. CASE EditBody
  BY <1>2, <1>14, EditBodyKeeps DEF EditBody
<1>15. CASE CloseIssue
  BY <1>2, <1>15, CloseIssueKeeps DEF CloseIssue
<1>16. CASE Batch
  <2>1. UNCHANGED reporting
    BY <1>16 DEF Batch, RunPython, CreateChunk, ReturnURLs, RunPythonTimeout
  <2>2. IssuesInv'
    BY <1>1, <2>1, IssuesAside DEF reporting
  <2> QED BY <1>16, <2>2, BatchKeeps
<1>17. CASE UNCHANGED issueVars
  BY <1>1, <1>2, <1>17, IssuesAside DEF issueVars
<1> QED BY <1>3, <1>4, <1>5, <1>6, <1>7, <1>8, <1>9, <1>10, <1>11, <1>12, <1>13, <1>14, <1>15, <1>16, <1>17
        DEF IssuesNext, ReportSteps, Closing

\* What status files, issues and batches tell is so: for any reports, fingerprints and batches.
THEOREM ReportsAreSafe == IssuesSpec => []ReportsSafe
<1>1. IssuesInv /\ BatchInv => ReportsSafe
  BY StatusWord, BatchesSafe DEF IssuesInv, AloneInv, ReportsSafe, NothingLostAlone
<1> QED BY IssuesInvInit, IssuesInvNext, <1>1, PTL DEF IssuesSpec

-----------------------------------------------------------------------------
(***************************************************************************)
(* The session logs.  What a flush has put into the index stays until a    *)
(* retention that spares its directory rewrites it; a record is of a run   *)
(* that is over; and where a record is in the directory of another run,    *)
(* the two ran beside each other.                                          *)
(***************************************************************************)
Campaigns == {none} \union (UNION {CampaignsOf[s] : s \in LogServers})
Records == [run : Nat, failed : BOOLEAN]
Directories == [name : Nat, campaign : Campaigns, audit : Records]
Lines == [dir : Nat, at : Nat]
Runs == [pc : {"running", "ok", "failed", "done", "orphan", "dead"}, server : LogServers, name : Nat \ {0},
         campaign : Campaigns, step : BOOLEAN, at : Nat, base : Nat]
Flushes == [pc : {"no", "scan", "rewrite", "end"}, run : Nat, keep : SUBSET Nat, name : Nat]
Servers == [pc : {"down", "recovering", "up"}, flush : Flushes, todo : SUBSET Nat]

LogsTyped ==
  /\ logTime \in Nat /\ fence \in Nat /\ fence < logTime
  /\ index \in Seq(Lines) /\ logDirs \in Seq(Directories)
  /\ logServer \in [LogServers -> Servers] /\ memory \in [LogServers -> Seq(Records)]
  /\ logged \in Seq(Runs) /\ Len(logged) <= MaxLogged
  /\ \A r \in DOMAIN logged : logged[r].name <= MaxLogged /\ logged[r].at < logTime
  /\ traces \subseteq DOMAIN logged

\* A server that is down flushes nothing; one that is up flushes a run of its own that has just ended.
Working(r) == logged[r].pc \in {"running", "ok", "failed"}

ServersKnown ==
  /\ \A s \in LogServers :
       /\ logServer[s].pc = "down" => logServer[s].flush.pc = "no"
       /\ logServer[s].pc = "up" /\ logServer[s].flush.pc # "no" =>
            LET r == logServer[s].flush.run
            IN  r \in DOMAIN logged /\ logged[r].server = s /\ logged[r].pc \in {"ok", "failed"}
  /\ \A r \in DOMAIN logged :
       /\ Working(r) => logServer[logged[r].server].pc = "up"
       /\ logged[r].pc \in {"ok", "failed"} =>
            LET f == logServer[logged[r].server].flush IN f.pc # "no" /\ f.run = r

Beside ==
  \A q, r \in DOMAIN logged :
    q # r /\ logged[q].server = logged[r].server /\ Working(q) /\ Working(r) => {q, r} \subseteq mixed

\* A record is of a run that is over; in a directory, it is of the session there, or of a run beside it.
IsRecord(m, runs) ==
  /\ m.run \in DOMAIN runs /\ runs[m.run].pc \in {"failed", "done"}
  /\ ~m.failed => runs[m.run].pc = "done"

IsPlaced(d, runs, beside) == d.audit.run # 0 =>
  /\ IsRecord(d.audit, runs) /\ d.name <= MaxLogged
  /\ d.audit.run \in beside \/ runs[d.audit.run].name = d.name

Recorded ==
  /\ \A s \in LogServers : \A i \in DOMAIN memory[s] : IsRecord(memory[s][i], logged)
  /\ \A i \in DOMAIN logDirs : IsPlaced(logDirs[i], logged, mixed)

\* What a server has recorded since the start of a run it is still in.
Since ==
  \A r \in DOMAIN logged : logged[r].pc = "running" =>
    \A i \in DOMAIN memory[logged[r].server] :
      i > logged[r].base => memory[logged[r].server][i].run \in mixed

\* A line is of a run that has ended, and a second one of its session means that it was resumed.
OfRun(l, runs) ==
  \E q \in DOMAIN runs :
    l.at = runs[q].at /\ l.dir = runs[q].name /\ runs[q].pc \in {"ok", "failed", "done"}

Indexed ==
  /\ \A i \in DOMAIN index : index[i].dir <= MaxLogged => OfRun(index[i], logged)
  /\ \A i, j \in DOMAIN index :
       i # j /\ index[i].dir = index[j].dir /\ index[i].dir <= MaxLogged => Resumed(index[i].dir)

\* What was cleared is over, and started before the fence.
Past ==
  /\ clearedRuns \in [LogServers -> SUBSET DOMAIN logged]
  /\ \A s \in LogServers : \A q \in clearedRuns[s] : logged[q].pc \in {"failed", "done"} /\ logged[q].at < fence

\* A directory's line is in the index, and spared by whoever is about to rewrite it.
InIndex ==
  \A n \in DirNames \ torn :
    /\ \E i \in DOMAIN index : index[i].dir = n
    /\ \A s \in LogServers : logServer[s].flush.pc = "rewrite" => n \in logServer[s].flush.keep

LogsInv ==
  /\ LogsTyped /\ ServersKnown /\ Beside /\ Recorded /\ Since /\ Indexed /\ Past /\ InIndex
  /\ CampaignKept /\ CountedOnce /\ ClearedStays

(* Sequences gone through in order *)

LEMMA AlongKeeps ==
  ASSUME NEW S, NEW seq \in Seq(S), NEW P \in SUBSET DOMAIN seq, NEW f \in InOrder(P)
  PROVE  /\ Along(f, seq) \in Seq(S) /\ DOMAIN Along(f, seq) = DOMAIN f
         /\ \A i \in DOMAIN f : f[i] \in P /\ f[i] \in DOMAIN seq /\ Along(f, seq)[i] = seq[f[i]]
         /\ \A i, j \in DOMAIN f : i # j => f[i] # f[j]
         /\ \A p \in P : \E i \in DOMAIN f : f[i] = p
<1>1. DOMAIN seq = 1..Len(seq) /\ Len(seq) \in Nat /\ seq \in [1..Len(seq) -> S]
  OBVIOUS
<1>2. Cardinality(P) \in Nat
  <2>1. IsFiniteSet(1..Len(seq))
    BY <1>1, FS_Interval
  <2> QED BY <1>1, <2>1, FS_Subset, FS_CardinalityType
<1>3. /\ f \in [1..Cardinality(P) -> P]
      /\ \A i, j \in DOMAIN f : i < j => f[i] < f[j]
      /\ \A p \in P : \E i \in DOMAIN f : f[i] = p
  BY DEF InOrder
<1>4. DOMAIN f = 1..Cardinality(P)
  BY <1>3
<1>5. \A i \in DOMAIN f : f[i] \in P /\ f[i] \in 1..Len(seq) /\ seq[f[i]] \in S
  BY <1>1, <1>3, <1>4
<1>6. Along(f, seq) = [i \in 1..Cardinality(P) |-> seq[f[i]]]
  BY <1>4 DEF Along
<1>7. Along(f, seq) \in Seq(S)
  BY <1>2, <1>4, <1>5, <1>6, IsASeq
<1>8. ASSUME NEW i \in DOMAIN f, NEW j \in DOMAIN f, i # j PROVE f[i] # f[j]
  <2>1. i \in Int /\ j \in Int /\ f[i] \in Int /\ f[j] \in Int
    BY <1>2, <1>4, <1>5
  <2>2. i < j \/ j < i
    BY <1>8, <2>1
  <2>3. f[i] < f[j] \/ f[j] < f[i]
    BY <1>3, <2>2
  <2> QED BY <2>1, <2>3
<1> QED BY <1>1, <1>3, <1>4, <1>5, <1>6, <1>7, <1>8

\* A directory written is the session's, with the new record or, failing that, the old one.
LEMMA WriteKeeps ==
  ASSUME NEW name \in Nat, NEW campaign \in Campaigns, NEW record \in Records,
         logDirs \in Seq(Directories), Write(name, campaign, record)
  PROVE  /\ logDirs' \in Seq(Directories) /\ DirNames' \subseteq DirNames \union {name}
         /\ \A i \in DOMAIN logDirs' :
              \/ \E j \in DOMAIN logDirs : logDirs'[i] = logDirs[j]
              \/ /\ logDirs'[i].name = name
                 /\ \/ logDirs'[i].audit \in {record, NoRecord}
                    \/ \E j \in DOMAIN logDirs : logDirs[j].name = name /\ logDirs'[i].audit = logDirs[j].audit
<1> DEFINE others == {i \in DOMAIN logDirs : logDirs[i].name # name}
           before == {logDirs[i] : i \in DOMAIN logDirs \ others}
           kept == IF before = {} THEN [name |-> name, campaign |-> none, audit |-> NoRecord]
                   ELSE CHOOSE d \in before : TRUE
           written == [name |-> name, campaign |-> IF campaign = none THEN kept.campaign ELSE campaign,
                       audit |-> IF record.run = 0 THEN kept.audit ELSE record]
<1>1. PICK f \in InOrder(others) : logDirs' = Append(Along(f, logDirs), written)
  BY DEF Write
<1>2. kept \in Directories /\ (kept.audit = NoRecord \/ \E j \in DOMAIN logDirs : logDirs[j].name = name /\ kept.audit = logDirs[j].audit)
  <2>1. CASE before = {}
    <3>1. none \in Campaigns
      BY DEF Campaigns
    <3>2. NoRecord \in Records
      BY DEF NoRecord, Records
    <3>3. [name |-> name, campaign |-> none, audit |-> NoRecord] \in Directories
      BY <3>1, <3>2 DEF Directories
    <3> QED BY <2>1, <3>3
  <2>2. CASE before # {}
    <3>1. kept \in before
      BY <2>2
    <3>2. PICK j \in DOMAIN logDirs : logDirs[j].name = name /\ kept = logDirs[j]
      BY <3>1
    <3> HIDE DEF kept
    <3>3. logDirs[j] \in Directories
      BY <3>2, ElementOfSeq
    <3> QED BY <3>2, <3>3
  <2> QED BY <2>1, <2>2
<1> HIDE DEF kept, before
<1>3. written \in Directories /\ written.name = name
  BY <1>2 DEF Directories
<1>4. written.audit \in {record, NoRecord} \/ \E j \in DOMAIN logDirs : logDirs[j].name = name /\ written.audit = logDirs[j].audit
  BY <1>2
<1> HIDE DEF written
<1>5. others \in SUBSET DOMAIN logDirs
  OBVIOUS
<1>6. /\ Along(f, logDirs) \in Seq(Directories) /\ DOMAIN Along(f, logDirs) = DOMAIN f
      /\ \A i \in DOMAIN f : f[i] \in DOMAIN logDirs /\ Along(f, logDirs)[i] = logDirs[f[i]]
  <2> HIDE DEF others
  <2> QED BY <1>5, AlongKeeps
<1>7. logDirs' \in Seq(Directories) /\ Len(logDirs') = Len(Along(f, logDirs)) + 1
      /\ \A i \in DOMAIN logDirs' : \/ i \in DOMAIN f /\ logDirs'[i] = Along(f, logDirs)[i]
                                    \/ logDirs'[i] = written
  BY <1>1, <1>3, <1>6, AppendProperties
<1>8. \A i \in DOMAIN logDirs' : (\E j \in DOMAIN logDirs : logDirs'[i] = logDirs[j]) \/ logDirs'[i] = written
  BY <1>6, <1>7
<1>9. DirNames' \subseteq DirNames \union {name}
  BY <1>3, <1>8 DEF DirNames
<1> QED BY <1>3, <1>4, <1>7, <1>8, <1>9

LEMMA RunTypes ==
  ASSUME LogsTyped
  PROVE  /\ DOMAIN logged = 1..Len(logged) /\ Len(logged) \in Nat /\ MaxLogged \in Nat
         /\ \A r \in DOMAIN logged : logged[r] \in Runs /\ r \in Nat \ {0} /\ r <= MaxLogged
<1>1. logged \in Seq(Runs) /\ Len(logged) <= MaxLogged /\ MaxLogged \in Nat
  BY LogsAssumption DEF LogsTyped
<1>2. \A r \in DOMAIN logged : logged[r] \in Runs
  BY <1>1, ElementOfSeq
<1> QED BY <1>1, <1>2

(* What a step keeps of the runs *)

Becomes(p, q) ==
  \/ q = p \/ (p = "running" /\ q \in {"ok", "failed", "orphan"})
  \/ (p \in {"ok", "failed"} /\ q = "done") \/ (p = "orphan" /\ q = "dead")

Grown ==
  /\ DOMAIN logged \subseteq DOMAIN logged' /\ mixed \subseteq mixed' /\ fence <= fence'
  /\ \A r \in DOMAIN logged :
       /\ logged'[r].server = logged[r].server /\ logged'[r].name = logged[r].name
       /\ logged'[r].at = logged[r].at /\ logged'[r].base = logged[r].base
       /\ Becomes(logged[r].pc, logged'[r].pc)

LEMMA StartRunTyped ==
  ASSUME LogsTyped, NEW s \in LogServers, StartRun(s)
  PROVE  /\ LogsTyped' /\ Grown /\ \A r \in DOMAIN logged : logged'[r] = logged[r]
         /\ \E n \in DOMAIN logged' : /\ n \notin DOMAIN logged /\ DOMAIN logged' = DOMAIN logged \union {n}
                                     /\ logged'[n].pc = "running" /\ logged'[n].server = s
                                     /\ logged'[n].base = Len(memory[s])
                                     /\ mixed' = (IF RunningOn(s) = {} THEN mixed ELSE mixed \union RunningOn(s) \union {n})
<1>1. PICK campaign \in CampaignsOf[s] \union {none}, step \in BOOLEAN,
           name \in {Len(logged) + 1} \union {logged[r].name : r \in {q \in DOMAIN logged : logged[q].pc = "done" /\ logged[q].server = s}} :
        logged' = Append(logged, [pc |-> "running", server |-> s, name |-> name, campaign |-> campaign, step |-> step,
                                  at |-> logTime, base |-> Len(memory[s])])
  BY DEF StartRun
<1> DEFINE run == [pc |-> "running", server |-> s, name |-> name, campaign |-> campaign, step |-> step,
                   at |-> logTime, base |-> Len(memory[s])]
<1>2. /\ Len(logged) < MaxLogged /\ logTime' = logTime + 1 /\ traces' = traces \union {Len(logged) + 1}
      /\ UNCHANGED <<index, logDirs, fence, logServer, memory>> /\ mixed \subseteq mixed'
  BY DEF StartRun
<1>3. name \in Nat \ {0} /\ name <= MaxLogged
  <2>1. Len(logged) \in Nat /\ MaxLogged \in Nat
    BY RunTypes
  <2>2. \A r \in DOMAIN logged : logged[r].name \in Nat \ {0} /\ logged[r].name <= MaxLogged
    BY RunTypes DEF Runs, LogsTyped
  <2>3. CASE name = Len(logged) + 1
    BY <1>2, <2>1, <2>3
  <2>4. ASSUME NEW r \in DOMAIN logged, name = logged[r].name PROVE name \in Nat \ {0} /\ name <= MaxLogged
    BY <2>2, <2>4
  <2> QED BY <2>3, <2>4
<1>4. campaign \in Campaigns
  BY DEF Campaigns
<1>5. memory[s] \in Seq(Records) /\ Len(memory[s]) \in Nat /\ logTime \in Nat /\ logged \in Seq(Runs)
  <2>1. memory[s] \in Seq(Records)
    BY DEF LogsTyped
  <2> QED BY <2>1, LenProperties DEF LogsTyped
<1>6. run \in Runs
  BY <1>3, <1>4, <1>5 DEF Runs
<1>7. run.pc = "running" /\ run.server = s /\ run.name = name /\ run.at = logTime /\ run.base = Len(memory[s])
  OBVIOUS
<1> HIDE DEF run
<1>8. /\ logged' \in Seq(Runs) /\ Len(logged') = Len(logged) + 1
      /\ DOMAIN logged' = DOMAIN logged \union {Len(logged) + 1}
      /\ \A r \in DOMAIN logged : logged'[r] = logged[r]
      /\ logged'[Len(logged) + 1] = run
  BY <1>1, <1>5, <1>6, AppendProperties DEF run
<1>9. \A r \in DOMAIN logged' : logged'[r].name <= MaxLogged /\ logged'[r].at < logTime'
  <2>1. \A r \in DOMAIN logged : logged[r].at \in Nat /\ logged[r].at < logTime /\ logged[r].name <= MaxLogged
    BY RunTypes DEF LogsTyped, Runs
  <2> QED BY <1>2, <1>3, <1>5, <1>7, <1>8, <2>1
<1>10. LogsTyped'
  <2>1. Len(logged') <= MaxLogged
    BY <1>2, <1>8, RunTypes
  <2>2. logTime' \in Nat /\ fence' \in Nat /\ fence' < logTime'
    BY <1>2 DEF LogsTyped
  <2>3. traces' \subseteq DOMAIN logged'
    BY <1>2, <1>8 DEF LogsTyped
  <2> QED BY <1>2, <1>8, <1>9, <2>1, <2>2, <2>3 DEF LogsTyped
<1>11. Grown
  BY <1>2, <1>8 DEF Grown, Becomes, LogsTyped
<1>12. Len(logged) + 1 \in DOMAIN logged' /\ Len(logged) + 1 \notin DOMAIN logged
  BY <1>8, RunTypes
<1>13. mixed' = (IF RunningOn(s) = {} THEN mixed ELSE mixed \union RunningOn(s) \union {Len(logged) + 1})
  BY DEF StartRun
<1> QED BY <1>7, <1>8, <1>10, <1>11, <1>12, <1>13

\* A run that ends, the record it leaves, and the flush that begins.
Log(s, r, failed) == IF failed THEN Append(memory[s], [run |-> r, failed |-> TRUE]) ELSE memory[s]
Record(s, r, failed) == IF logged[r].step THEN AuditRecord(r, Log(s, r, failed)) ELSE NoRecord

LEMMA LogTyped ==
  ASSUME LogsTyped, NEW s \in LogServers, NEW r \in DOMAIN logged, NEW failed \in BOOLEAN
  PROVE  /\ memory[s] \in Seq(Records) /\ Log(s, r, failed) \in Seq(Records)
         /\ \A i \in DOMAIN Log(s, r, failed) :
              \/ i \in DOMAIN memory[s] /\ Log(s, r, failed)[i] = memory[s][i]
              \/ i = Len(memory[s]) + 1 /\ failed /\ Log(s, r, failed)[i] = [run |-> r, failed |-> TRUE]
         /\ Record(s, r, failed) \in Records
         /\ \/ Record(s, r, failed) = NoRecord
            \/ \E i \in DOMAIN Log(s, r, failed) : i > logged[r].base /\ Record(s, r, failed) = Log(s, r, failed)[i]
<1>1. memory[s] \in Seq(Records) /\ r \in Nat /\ logged[r].base \in Nat
  BY RunTypes DEF LogsTyped, Runs
<1>2. [run |-> r, failed |-> TRUE] \in Records
  BY <1>1 DEF Records
<1>3. /\ Log(s, r, failed) \in Seq(Records)
      /\ \A i \in DOMAIN Log(s, r, failed) :
           \/ i \in DOMAIN memory[s] /\ Log(s, r, failed)[i] = memory[s][i]
           \/ i = Len(memory[s]) + 1 /\ failed /\ Log(s, r, failed)[i] = [run |-> r, failed |-> TRUE]
  <2>1. CASE failed
    <3> DEFINE one == [run |-> r, failed |-> TRUE]
    <3>1. one \in Records /\ Log(s, r, failed) = Append(memory[s], one)
      BY <1>2, <2>1 DEF Log
    <3> HIDE DEF one
    <3>2. /\ Log(s, r, failed) \in Seq(Records) /\ Len(Log(s, r, failed)) = Len(memory[s]) + 1
          /\ \A i \in 1..Len(memory[s]) : Log(s, r, failed)[i] = memory[s][i]
          /\ Log(s, r, failed)[Len(memory[s]) + 1] = one
      BY <1>1, <3>1, AppendProperties
    <3>3. DOMAIN Log(s, r, failed) = 1..(Len(memory[s]) + 1) /\ DOMAIN memory[s] = 1..Len(memory[s]) /\ Len(memory[s]) \in Nat
      BY <1>1, <3>2, LenProperties
    <3>4. \A i \in DOMAIN Log(s, r, failed) : i \in DOMAIN memory[s] \/ i = Len(memory[s]) + 1
      BY <3>3
    <3> QED BY <2>1, <3>2, <3>3, <3>4 DEF one
  <2>2. CASE ~failed
    BY <1>1, <2>2 DEF Log
  <2> QED BY <2>1, <2>2
<1>4. DOMAIN Log(s, r, failed) = 1..Len(Log(s, r, failed)) /\ Len(Log(s, r, failed)) \in Nat
  BY <1>3, LenProperties
<1>5. \/ Record(s, r, failed) = NoRecord
      \/ \E i \in DOMAIN Log(s, r, failed) : i > logged[r].base /\ Record(s, r, failed) = Log(s, r, failed)[i]
  BY <1>1, <1>4 DEF Record, AuditRecord
<1>6. NoRecord \in Records
  BY DEF NoRecord, Records
<1>7. Record(s, r, failed) \in Records
  BY <1>3, <1>5, <1>6, ElementOfSeq
<1> QED BY <1>1, <1>3, <1>5, <1>7

LEMMA FlushType ==
  ASSUME LogsTyped, NEW s \in LogServers, NEW pc \in {"no", "scan", "rewrite", "end"}, NEW r \in Nat, NEW name \in Nat
  PROVE  /\ Flushing(s, pc, r, name) \in [LogServers -> Servers]
         /\ Flushing(s, pc, r, name)[s].pc = logServer[s].pc
         /\ Flushing(s, pc, r, name)[s].flush.pc = pc /\ Flushing(s, pc, r, name)[s].flush.run = r
         /\ \A t \in LogServers \ {s} : Flushing(s, pc, r, name)[t] = logServer[t]
<1> DEFINE flush == [pc |-> pc, run |-> r, keep |-> {}, name |-> name]
<1>1. flush \in Flushes /\ flush.pc = pc /\ flush.run = r
  BY DEF Flushes
<1>2. logServer \in [LogServers -> Servers]
  BY DEF LogsTyped
<1>3. Flushing(s, pc, r, name) = [logServer EXCEPT ![s].flush = flush]
  BY DEF Flushing
<1> HIDE DEF flush
<1> QED BY <1>1, <1>2, <1>3 DEF Servers

LEMMA EndRunTyped ==
  ASSUME LogsTyped, NEW s \in LogServers, NEW r \in DOMAIN logged, NEW failed \in BOOLEAN, EndRun(s, r, failed)
  PROVE  /\ LogsTyped' /\ Grown
         /\ logged[r].pc = "running" /\ logged[r].server = s /\ DOMAIN logged' = DOMAIN logged
         /\ failed => logged'[r].pc = "failed"
         /\ ~failed => logged'[r].pc = "ok"
         /\ \A q \in DOMAIN logged \ {r} : logged'[q] = logged[q]
         /\ logServer'[s].pc = "up" /\ logServer'[s].flush.run = r /\ logServer'[s].flush.pc \in {"scan", "end"}
         /\ \A t \in LogServers \ {s} : logServer'[t] = logServer[t]
<1>1. /\ Serving(s) /\ logged[r].pc = "running" /\ logged[r].server = s /\ traces' = traces \ {r}
      /\ memory' = [memory EXCEPT ![s] = Log(s, r, failed)]
      /\ Write(logged[r].name, logged[r].campaign, Record(s, r, failed))
      /\ logged' = [logged EXCEPT ![r].pc = IF failed THEN "failed" ELSE "ok"]
      /\ UNCHANGED <<logTime, fence, campaigning, downs, clearedRuns, mixed, evicted>>
  BY DEF EndRun, Log, Record, RunningOn
<1>2. \/ /\ index' = Append(index, [dir |-> logged[r].name, at |-> logged[r].at])
         /\ torn' = IF Others(s) = {} THEN torn ELSE torn \union {logged[r].name}
         /\ logServer' = Flushing(s, "scan", r, logged[r].name)
      \/ /\ index' = index /\ torn' = torn \union {logged[r].name}
         /\ logServer' = Flushing(s, "end", r, logged[r].name)
  BY DEF EndRun
<1>3. logged[r] \in Runs /\ r \in Nat
  BY RunTypes
<1>4. logged[r].name \in Nat /\ logged[r].at \in Nat /\ logged[r].campaign \in Campaigns
  BY <1>3 DEF Runs
<1>5. logServer[s].pc = "up"
  BY <1>1 DEF Serving
<1>6. /\ logServer' \in [LogServers -> Servers] /\ logServer'[s].pc = "up" /\ logServer'[s].flush.run = r
      /\ logServer'[s].flush.pc \in {"scan", "end"} /\ \A t \in LogServers \ {s} : logServer'[t] = logServer[t]
  <2>1. CASE logServer' = Flushing(s, "scan", r, logged[r].name)
    BY <1>3, <1>4, <1>5, <2>1, FlushType
  <2>2. CASE logServer' = Flushing(s, "end", r, logged[r].name)
    BY <1>3, <1>4, <1>5, <2>2, FlushType
  <2> QED BY <1>2, <2>1, <2>2
<1>7. index' \in Seq(Lines)
  <2>1. [dir |-> logged[r].name, at |-> logged[r].at] \in Lines /\ index \in Seq(Lines)
    BY <1>4 DEF Lines, LogsTyped
  <2> QED BY <1>2, <2>1, AppendProperties
<1>8. logDirs' \in Seq(Directories)
  BY <1>1, <1>4, LogTyped, WriteKeeps DEF LogsTyped
<1>9. memory' \in [LogServers -> Seq(Records)]
  BY <1>1, LogTyped DEF LogsTyped
<1>10. /\ logged' \in Seq(Runs) /\ DOMAIN logged' = DOMAIN logged /\ Len(logged') = Len(logged)
       /\ logged'[r] = [logged[r] EXCEPT !.pc = IF failed THEN "failed" ELSE "ok"]
       /\ \A q \in DOMAIN logged \ {r} : logged'[q] = logged[q]
  <2> DEFINE run == [logged[r] EXCEPT !.pc = IF failed THEN "failed" ELSE "ok"]
  <2>1. run \in Runs /\ logged \in Seq(Runs)
    BY <1>3 DEF Runs, LogsTyped
  <2>2. logged' = [logged EXCEPT ![r] = run]
    BY <1>1
  <2> HIDE DEF run
  <2>3. logged' \in Seq(Runs) /\ Len(logged') = Len(logged)
    BY <2>1, <2>2, ExceptSeq
  <2> QED BY <2>1, <2>2, <2>3 DEF run
<1>11. /\ logged'[r].pc = (IF failed THEN "failed" ELSE "ok") /\ logged'[r].server = s
       /\ logged'[r].name = logged[r].name /\ logged'[r].at = logged[r].at /\ logged'[r].base = logged[r].base
  BY <1>1, <1>3, <1>10 DEF Runs
<1>12. Grown
  BY <1>1, <1>10, <1>11 DEF Grown, Becomes, LogsTyped
<1>13. LogsTyped'
  BY <1>1, <1>6, <1>7, <1>8, <1>9, <1>10, <1>11 DEF LogsTyped
<1> QED BY <1>1, <1>2, <1>6, <1>10, <1>11, <1>12, <1>13

LEMMA EndRunWrites ==
  ASSUME NEW s \in LogServers, NEW r \in DOMAIN logged, NEW failed \in BOOLEAN, EndRun(s, r, failed)
  PROVE  /\ Serving(s) /\ memory' = [memory EXCEPT ![s] = Log(s, r, failed)]
         /\ Write(logged[r].name, logged[r].campaign, Record(s, r, failed))
         /\ UNCHANGED <<logTime, fence, campaigning, downs, clearedRuns, mixed, evicted>>
         /\ \/ /\ index' = Append(index, [dir |-> logged[r].name, at |-> logged[r].at])
               /\ torn' = IF Others(s) = {} THEN torn ELSE torn \union {logged[r].name}
            \/ index' = index /\ torn' = torn \union {logged[r].name}
BY DEF EndRun, Log, Record

\* Nothing is said of runs.
LEMMA NoneGrow == ASSUME LogsTyped, UNCHANGED <<logged, mixed, fence>> PROVE Grown
BY DEF Grown, Becomes, LogsTyped

LEMMA ServerType ==
  ASSUME LogsTyped, NEW s \in LogServers
  PROVE  /\ logServer[s] \in Servers /\ logServer[s].flush \in Flushes /\ memory[s] \in Seq(Records)
         /\ DOMAIN memory[s] = 1..Len(memory[s]) /\ Len(memory[s]) \in Nat
         /\ DOMAIN logDirs = 1..Len(logDirs) /\ Len(logDirs) \in Nat
         /\ DOMAIN index = 1..Len(index) /\ Len(index) \in Nat
<1>1. logServer[s] \in Servers /\ memory[s] \in Seq(Records) /\ logDirs \in Seq(Directories) /\ index \in Seq(Lines)
  BY DEF LogsTyped
<1>2. logServer[s].flush \in Flushes
  BY <1>1 DEF Servers
<1> QED BY <1>1, <1>2, LenProperties

LEMMA RetentionTyped ==
  ASSUME LogsTyped, NEW s \in LogServers, _enforce_retention(s)
  PROVE  /\ LogsTyped' /\ Grown
         /\ UNCHANGED <<index, fence, campaigning, memory, logged, clearedRuns, mixed, torn>>
         /\ logServer[s].flush.pc = "scan" /\ logServer'[s].pc = logServer[s].pc
         /\ logServer'[s].flush.run = logServer[s].flush.run
         /\ \A t \in LogServers \ {s} : logServer'[t] = logServer[t]
         /\ \A i \in DOMAIN logDirs' : \E j \in DOMAIN logDirs : logDirs'[i] = logDirs[j]
         /\ \/ logServer'[s].flush.pc = "end" /\ evicted' = evicted
            \/ /\ logServer'[s].flush.pc = "rewrite" /\ DirNames' \subseteq logServer'[s].flush.keep
               /\ \A e \in evicted' : e \in evicted
                    \/ \E c \in campaigning \ Protected(s) : e = <<c, s, logServer[s].pc>>
<1> DEFINE surviving == Surviving(Protected(s), Len(logDirs) - MaxSessions)
           keep == {logDirs[i].name : i \in surviving}
<1>1. /\ logServer[s].flush.pc = "scan"
      /\ UNCHANGED <<logTime, index, fence, campaigning, memory, logged, traces, downs, clearedRuns, mixed, torn>>
  BY DEF _enforce_retention
<1>2. logServer[s] \in Servers /\ logServer[s].flush \in Flushes /\ logServer \in [LogServers -> Servers]
  BY ServerType DEF LogsTyped
<1>3. logDirs \in Seq(Directories) /\ surviving \in SUBSET DOMAIN logDirs
  BY DEF LogsTyped, Surviving
<1>4. CASE Len(logDirs) <= MaxSessions
  <2>1. Len(logDirs) \in Nat /\ MaxSessions \in Nat
    BY <1>3, LogsAssumption, LenProperties
  <2>2. logServer' = [logServer EXCEPT ![s].flush.pc = "end"] /\ UNCHANGED <<logDirs, evicted>>
    BY <1>4, <2>1 DEF _enforce_retention
  <2>3. logServer' \in [LogServers -> Servers]
    BY <1>2, <2>2 DEF Servers, Flushes
  <2>4. /\ logServer'[s].pc = logServer[s].pc /\ logServer'[s].flush.run = logServer[s].flush.run
        /\ logServer'[s].flush.pc = "end" /\ \A t \in LogServers \ {s} : logServer'[t] = logServer[t]
    BY <1>2, <2>2 DEF Servers, Flushes
  <2> QED BY <1>1, <2>2, <2>3, <2>4, NoneGrow DEF LogsTyped
<1>5. CASE ~(Len(logDirs) <= MaxSessions)
  <2>1. /\ \E f \in InOrder(surviving) : logDirs' = Along(f, logDirs)
        /\ logServer' = [logServer EXCEPT ![s].flush.pc = "rewrite", ![s].flush.keep = keep]
        /\ evicted' = evicted \union
             {<<c, s, logServer[s].pc>> : c \in {logDirs[i].campaign : i \in DOMAIN logDirs \ surviving} \intersect campaigning}
    BY <1>5 DEF _enforce_retention
  <2>2. PICK f \in InOrder(surviving) : logDirs' = Along(f, logDirs)
    BY <2>1
  <2>3. /\ logDirs' \in Seq(Directories) /\ DOMAIN logDirs' = DOMAIN f
        /\ \A i \in DOMAIN f : f[i] \in surviving /\ f[i] \in DOMAIN logDirs /\ logDirs'[i] = logDirs[f[i]]
    <3> HIDE DEF surviving
    <3> QED BY <1>3, <2>2, AlongKeeps
  <2>4. keep \in SUBSET Nat
    <3>1. \A i \in DOMAIN logDirs : logDirs[i] \in Directories
      BY <1>3, ElementOfSeq
    <3> QED BY <1>3, <3>1 DEF Directories
  <2>5. DirNames' \subseteq keep
    BY <2>3 DEF DirNames
  <2>6. \A i \in DOMAIN logDirs \ surviving : logDirs[i].campaign \notin Protected(s)
    BY DEF Surviving
  <2> HIDE DEF keep
  <2>7. logServer' \in [LogServers -> Servers]
    BY <1>2, <2>1, <2>4 DEF Servers, Flushes
  <2>8. /\ logServer'[s].pc = logServer[s].pc /\ logServer'[s].flush.run = logServer[s].flush.run
        /\ logServer'[s].flush.pc = "rewrite" /\ logServer'[s].flush.keep = keep
        /\ \A t \in LogServers \ {s} : logServer'[t] = logServer[t]
    BY <1>2, <2>1 DEF Servers, Flushes
  <2>9. LogsTyped'
    BY <1>1, <2>3, <2>7 DEF LogsTyped
  <2>10. \A e \in evicted' : e \in evicted \/ \E c \in campaigning \ Protected(s) : e = <<c, s, logServer[s].pc>>
    BY <2>1, <2>6
  <2> HIDE DEF surviving
  <2> QED BY <1>1, <2>3, <2>5, <2>8, <2>9, <2>10, NoneGrow
<1> QED BY <1>4, <1>5

LEMMA RewriteTyped ==
  ASSUME LogsTyped, NEW s \in LogServers, RewriteIndex(s)
  PROVE  /\ LogsTyped' /\ Grown
         /\ UNCHANGED <<logDirs, fence, campaigning, memory, logged, clearedRuns, mixed, torn, evicted>>
         /\ logServer[s].flush.pc = "rewrite" /\ logServer'[s].pc = logServer[s].pc
         /\ logServer'[s].flush.run = logServer[s].flush.run /\ logServer'[s].flush.pc = "end"
         /\ \A t \in LogServers \ {s} : logServer'[t] = logServer[t]
         /\ \A i \in DOMAIN index : index[i].dir \in logServer[s].flush.keep =>
              \E k \in DOMAIN index' : index'[k] = index[i]
         /\ \A i \in DOMAIN index' : \E j \in DOMAIN index : index'[i] = index[j]
         /\ \A i, j \in DOMAIN index' : i # j =>
              \E k, l \in DOMAIN index : k # l /\ index'[i] = index[k] /\ index'[j] = index[l]
<1> DEFINE kept == {i \in DOMAIN index : index[i].dir \in logServer[s].flush.keep}
<1>1. /\ logServer[s].flush.pc = "rewrite" /\ logServer' = [logServer EXCEPT ![s].flush.pc = "end"]
      /\ UNCHANGED <<logTime, logDirs, fence, campaigning, memory, logged, traces, downs, clearedRuns, mixed, torn, evicted>>
  BY DEF RewriteIndex, histories
<1>2. logServer[s] \in Servers /\ logServer[s].flush \in Flushes /\ logServer \in [LogServers -> Servers]
  BY ServerType DEF LogsTyped
<1>3. PICK f \in InOrder(kept) : index' = Along(f, index)
  BY DEF RewriteIndex
<1>4. index \in Seq(Lines) /\ kept \in SUBSET DOMAIN index
  BY DEF LogsTyped
<1>5. /\ index' \in Seq(Lines) /\ DOMAIN index' = DOMAIN f
      /\ \A i \in DOMAIN f : f[i] \in DOMAIN index /\ index'[i] = index[f[i]]
      /\ \A i, j \in DOMAIN f : i # j => f[i] # f[j]
      /\ \A p \in kept : \E i \in DOMAIN f : f[i] = p
  <2> HIDE DEF kept
  <2> QED BY <1>3, <1>4, AlongKeeps
<1>6. logServer' \in [LogServers -> Servers]
  BY <1>1, <1>2 DEF Servers, Flushes
<1>7. /\ logServer'[s].pc = logServer[s].pc /\ logServer'[s].flush.run = logServer[s].flush.run
      /\ logServer'[s].flush.pc = "end" /\ \A t \in LogServers \ {s} : logServer'[t] = logServer[t]
  BY <1>1, <1>2 DEF Servers, Flushes
<1>8. \A i \in DOMAIN index : index[i].dir \in logServer[s].flush.keep => \E k \in DOMAIN index' : index'[k] = index[i]
  BY <1>5
<1> HIDE DEF kept
<1> QED BY <1>1, <1>5, <1>6, <1>7, <1>8, NoneGrow DEF LogsTyped

LEMMA FlushEndsTyped ==
  ASSUME LogsTyped, ServersKnown, NEW s \in LogServers, FlushEnds(s)
  PROVE  /\ LogsTyped' /\ Grown /\ DOMAIN logged' = DOMAIN logged
         /\ UNCHANGED <<index, logDirs, fence, campaigning, clearedRuns, mixed, torn, evicted>>
         /\ logServer[s].flush.pc = "end" /\ logServer'[s].pc = logServer[s].pc /\ logServer'[s].flush.pc = "no"
         /\ \A t \in LogServers \ {s} : logServer'[t] = logServer[t]
         /\ logServer[s].pc # "up" => logServer[s].pc = "recovering" /\ memory' = memory /\ logged' = logged
         /\ logServer[s].pc = "up" =>
              LET r == logServer[s].flush.run
              IN  /\ r \in DOMAIN logged /\ logged[r].server = s /\ logged[r].pc \in {"ok", "failed"}
                  /\ logged'[r].pc = "done" /\ \A q \in DOMAIN logged \ {r} : logged'[q] = logged[q]
                  /\ \/ memory' = memory
                     \/ /\ logged[r].pc = "ok"
                        /\ memory' = [memory EXCEPT ![s] = Append(memory[s], [run |-> r, failed |-> FALSE])]
<1>1. /\ logServer[s].flush.pc = "end" /\ logServer' = [logServer EXCEPT ![s].flush = NoFlush]
      /\ UNCHANGED <<logTime, index, logDirs, fence, campaigning, downs, clearedRuns, mixed, torn, evicted>>
  BY DEF FlushEnds, histories
<1>2. logServer[s] \in Servers /\ logServer[s].flush \in Flushes /\ logServer \in [LogServers -> Servers]
  BY ServerType DEF LogsTyped
<1>3. NoFlush \in Flushes /\ NoFlush.pc = "no"
  BY DEF NoFlush, Flushes
<1>4. /\ logServer' \in [LogServers -> Servers] /\ logServer'[s].pc = logServer[s].pc /\ logServer'[s].flush.pc = "no"
      /\ \A t \in LogServers \ {s} : logServer'[t] = logServer[t]
  BY <1>1, <1>2, <1>3 DEF Servers
<1>5. CASE logServer[s].pc # "up"
  <2>1. traces' \subseteq traces /\ UNCHANGED <<memory, logged>>
    BY <1>5 DEF FlushEnds
  <2>2. logServer[s].pc = "recovering"
    BY <1>1, <1>2, <1>5 DEF ServersKnown, Servers
  <2> QED BY <1>1, <1>4, <2>1, <2>2, NoneGrow DEF LogsTyped
<1>6. CASE logServer[s].pc = "up"
  <2> DEFINE r == logServer[s].flush.run
  <2>1. r \in DOMAIN logged /\ logged[r].server = s /\ logged[r].pc \in {"ok", "failed"}
    BY <1>1, <1>6 DEF ServersKnown
  <2>2. /\ memory' = IF logged[r].pc = "ok" THEN [memory EXCEPT ![s] = Append(memory[s], [run |-> r, failed |-> FALSE])] ELSE memory
        /\ logged' = [logged EXCEPT ![r].pc = "done"] /\ UNCHANGED traces
    BY <1>6 DEF FlushEnds, LogsTyped
  <2>3. logged[r] \in Runs /\ r \in Nat /\ logged \in Seq(Runs) /\ memory[s] \in Seq(Records)
    BY <2>1, RunTypes, ServerType DEF LogsTyped
  <2>4. memory' \in [LogServers -> Seq(Records)]
    <3>1. [run |-> r, failed |-> FALSE] \in Records
      BY <2>3 DEF Records
    <3>2. Append(memory[s], [run |-> r, failed |-> FALSE]) \in Seq(Records)
      BY <2>3, <3>1, AppendProperties
    <3> QED BY <2>2, <3>2 DEF LogsTyped
  <2> HIDE DEF r
  <2> DEFINE run == [logged[r] EXCEPT !.pc = "done"]
  <2>5. run \in Runs /\ logged' = [logged EXCEPT ![r] = run]
    BY <2>2, <2>3 DEF Runs
  <2>6. /\ run.pc = "done" /\ run.server = logged[r].server /\ run.name = logged[r].name
        /\ run.at = logged[r].at /\ run.base = logged[r].base
    BY <2>3 DEF Runs
  <2> HIDE DEF run
  <2>7. /\ logged' \in Seq(Runs) /\ Len(logged') = Len(logged) /\ DOMAIN logged' = DOMAIN logged
        /\ logged'[r] = run /\ \A q \in DOMAIN logged \ {r} : logged'[q] = logged[q]
    BY <2>1, <2>3, <2>5, ExceptSeq
  <2>8. Grown
    <3>1. Becomes(logged[r].pc, "done") /\ \A q \in DOMAIN logged : Becomes(logged[q].pc, logged[q].pc)
      BY <2>1 DEF Becomes, r
    <3>2. fence \in Nat /\ fence <= fence
      BY DEF LogsTyped
    <3>3. \A q \in DOMAIN logged :
            /\ logged'[q].server = logged[q].server /\ logged'[q].name = logged[q].name
            /\ logged'[q].at = logged[q].at /\ logged'[q].base = logged[q].base
            /\ Becomes(logged[q].pc, logged'[q].pc)
      BY <2>6, <2>7, <3>1
    <3> QED BY <1>1, <2>7, <3>2, <3>3 DEF Grown
  <2>9. LogsTyped'
    BY <1>1, <1>4, <2>2, <2>4, <2>6, <2>7 DEF LogsTyped
  <2> QED BY <1>1, <1>4, <1>6, <2>1, <2>2, <2>6, <2>7, <2>8, <2>9 DEF r
<1> QED BY <1>5, <1>6

LEMMA ClearTyped ==
  ASSUME LogsTyped, NEW s \in LogServers, ClearReport(s)
  PROVE  /\ LogsTyped' /\ Grown
         /\ UNCHANGED <<index, logDirs, campaigning, logServer, logged, torn, evicted>>
         /\ Serving(s) /\ fence' = logTime /\ fence < logTime /\ memory'[s] = <<>>
         /\ \A t \in LogServers \ {s} : memory'[t] = memory[t]
         /\ clearedRuns' = [clearedRuns EXCEPT ![s] = @ \union {memory[s][i].run : i \in DOMAIN memory[s]}]
<1>1. /\ Serving(s) /\ fence' = logTime /\ logTime' = logTime + 1 /\ memory' = [memory EXCEPT ![s] = <<>>]
      /\ clearedRuns' = [clearedRuns EXCEPT ![s] = @ \union {memory[s][i].run : i \in DOMAIN memory[s]}]
      /\ mixed \subseteq mixed'
      /\ UNCHANGED <<index, logDirs, campaigning, logServer, logged, traces, downs, torn, evicted>>
  BY DEF ClearReport
<1>2. <<>> \in Seq(Records) /\ memory \in [LogServers -> Seq(Records)]
  BY DEF LogsTyped
<1>3. memory' \in [LogServers -> Seq(Records)] /\ memory'[s] = <<>> /\ \A t \in LogServers \ {s} : memory'[t] = memory[t]
  BY <1>1, <1>2
<1>4. logTime \in Nat /\ fence \in Nat /\ fence < logTime
  BY DEF LogsTyped
<1>5. \A r \in DOMAIN logged : logged[r].at < logTime'
  <2>1. \A r \in DOMAIN logged : logged[r].at \in Nat /\ logged[r].at < logTime
    BY RunTypes DEF LogsTyped, Runs
  <2> QED BY <1>1, <1>4, <2>1
<1>6. LogsTyped'
  BY <1>1, <1>3, <1>4, <1>5 DEF LogsTyped
<1>7. Grown
  BY <1>1, <1>4 DEF Grown, Becomes
<1> QED BY <1>1, <1>3, <1>4, <1>6, <1>7

LEMMA CrashTyped ==
  ASSUME LogsTyped, NEW s \in LogServers, Crash(s)
  PROVE  /\ LogsTyped' /\ Grown /\ DOMAIN logged' = DOMAIN logged
         /\ UNCHANGED <<index, logDirs, fence, campaigning, clearedRuns, mixed, evicted>>
         /\ logServer'[s].pc = "down" /\ logServer'[s].flush.pc = "no"
         /\ \A t \in LogServers \ {s} : logServer'[t] = logServer[t] /\ memory'[t] = memory[t]
         /\ memory'[s] = <<>>
         /\ \A r \in DOMAIN logged :
              logged'[r].pc = (IF logged[r].server = s /\ logged[r].pc = "running" THEN "orphan"
                               ELSE IF logged[r].server = s /\ logged[r].pc \in {"ok", "failed"} THEN "done" ELSE logged[r].pc)
         /\ torn' = IF logServer[s].flush.pc \in {"no", "end"} THEN torn ELSE torn \union DirNames
<1>1. /\ logServer' = [logServer EXCEPT ![s] = [pc |-> "down", flush |-> NoFlush, todo |-> {}]]
      /\ memory' = [memory EXCEPT ![s] = <<>>]
      /\ logged' = [r \in DOMAIN logged |-> IF logged[r].server = s /\ logged[r].pc = "running" THEN [logged[r] EXCEPT !.pc = "orphan"]
                                            ELSE IF logged[r].server = s /\ logged[r].pc \in {"ok", "failed"} THEN [logged[r] EXCEPT !.pc = "done"]
                                            ELSE logged[r]]
      /\ torn' = IF logServer[s].flush.pc \in {"no", "end"} THEN torn ELSE torn \union DirNames
      /\ UNCHANGED <<logTime, index, logDirs, fence, campaigning, traces, clearedRuns, mixed, evicted>>
  BY DEF Crash
<1>2. [pc |-> "down", flush |-> NoFlush, todo |-> {}] \in Servers /\ NoFlush.pc = "no"
  BY DEF Servers, Flushes, NoFlush
<1>3. <<>> \in Seq(Records) /\ memory \in [LogServers -> Seq(Records)] /\ logServer \in [LogServers -> Servers]
  BY DEF LogsTyped
<1>4. /\ logServer' \in [LogServers -> Servers] /\ memory' \in [LogServers -> Seq(Records)]
      /\ logServer'[s].pc = "down" /\ logServer'[s].flush.pc = "no" /\ memory'[s] = <<>>
      /\ \A t \in LogServers \ {s} : logServer'[t] = logServer[t] /\ memory'[t] = memory[t]
  BY <1>1, <1>2, <1>3
<1>5. DOMAIN logged = 1..Len(logged) /\ Len(logged) \in Nat /\ \A r \in DOMAIN logged : logged[r] \in Runs
  BY RunTypes
<1>6. \A r \in DOMAIN logged :
        /\ logged'[r] \in Runs /\ logged'[r].server = logged[r].server /\ logged'[r].name = logged[r].name
        /\ logged'[r].at = logged[r].at /\ logged'[r].base = logged[r].base
        /\ logged'[r].pc = (IF logged[r].server = s /\ logged[r].pc = "running" THEN "orphan"
                            ELSE IF logged[r].server = s /\ logged[r].pc \in {"ok", "failed"} THEN "done" ELSE logged[r].pc)
  BY <1>1, <1>5 DEF Runs
<1>7. DOMAIN logged' = DOMAIN logged
  BY <1>1
<1>8. logged' \in Seq(Runs) /\ Len(logged') = Len(logged)
  <2>1. logged' = [r \in 1..Len(logged) |-> logged'[r]]
    BY <1>1, <1>5
  <2>2. logged' \in Seq(Runs)
    BY <1>5, <1>6, <2>1, IsASeq
  <2> QED BY <1>5, <1>7, <2>2, LenProperties
<1>9. Grown
  BY <1>1, <1>6, <1>7 DEF Grown, Becomes, LogsTyped
<1>10. LogsTyped'
  BY <1>1, <1>4, <1>6, <1>7, <1>8 DEF LogsTyped
<1> QED BY <1>1, <1>4, <1>6, <1>7, <1>9, <1>10

LEMMA OrphanEndsTyped ==
  ASSUME LogsTyped, OrphanEnds
  PROVE  /\ LogsTyped' /\ Grown /\ DOMAIN logged' = DOMAIN logged
         /\ UNCHANGED <<index, logDirs, fence, campaigning, logServer, memory, clearedRuns, mixed, torn, evicted>>
         /\ \E r \in DOMAIN logged : /\ logged[r].pc = "orphan" /\ logged'[r].pc = "dead"
                                     /\ logged'[r].server = logged[r].server
                                     /\ \A q \in DOMAIN logged \ {r} : logged'[q] = logged[q]
<1>1. PICK r \in DOMAIN logged : logged[r].pc = "orphan" /\ logged' = [logged EXCEPT ![r].pc = "dead"]
  BY DEF OrphanEnds
<1>2. UNCHANGED <<logTime, index, logDirs, fence, campaigning, logServer, memory, traces, downs, clearedRuns, mixed, torn, evicted>>
  BY DEF OrphanEnds, histories
<1>3. logged[r] \in Runs /\ logged \in Seq(Runs)
  BY RunTypes DEF LogsTyped
<1> DEFINE run == [logged[r] EXCEPT !.pc = "dead"]
<1>4. run \in Runs /\ logged' = [logged EXCEPT ![r] = run]
  BY <1>1, <1>3 DEF Runs
<1>5. /\ run.pc = "dead" /\ run.server = logged[r].server /\ run.name = logged[r].name
      /\ run.at = logged[r].at /\ run.base = logged[r].base
  BY <1>3 DEF Runs
<1> HIDE DEF run
<1>6. /\ logged' \in Seq(Runs) /\ Len(logged') = Len(logged) /\ DOMAIN logged' = DOMAIN logged
      /\ logged'[r] = run /\ \A q \in DOMAIN logged \ {r} : logged'[q] = logged[q]
  BY <1>1, <1>3, <1>4, ExceptSeq
<1>7. Grown
  <2>1. Becomes(logged[r].pc, "dead") /\ \A q \in DOMAIN logged : Becomes(logged[q].pc, logged[q].pc)
    BY <1>1 DEF Becomes
  <2>2. fence \in Nat /\ fence <= fence
    BY DEF LogsTyped
  <2>3. \A q \in DOMAIN logged :
          /\ logged'[q].server = logged[q].server /\ logged'[q].name = logged[q].name
          /\ logged'[q].at = logged[q].at /\ logged'[q].base = logged[q].base
          /\ Becomes(logged[q].pc, logged'[q].pc)
    BY <1>5, <1>6, <2>1
  <2> QED BY <1>2, <1>6, <2>2, <2>3 DEF Grown
<1>8. LogsTyped'
  BY <1>2, <1>5, <1>6 DEF LogsTyped
<1> QED BY <1>1, <1>2, <1>5, <1>6, <1>7, <1>8

LEMMA StartTyped ==
  ASSUME LogsTyped, NEW s \in LogServers, Start(s)
  PROVE  /\ LogsTyped' /\ Grown
         /\ UNCHANGED <<index, logDirs, fence, campaigning, memory, logged, clearedRuns, mixed, torn, evicted>>
         /\ logServer[s].pc = "down" /\ logServer'[s].pc = "recovering" /\ logServer'[s].flush = logServer[s].flush
         /\ \A t \in LogServers \ {s} : logServer'[t] = logServer[t]
<1>1. /\ logServer[s].pc = "down" /\ logServer' = [logServer EXCEPT ![s].pc = "recovering", ![s].todo = traces]
      /\ UNCHANGED <<logTime, index, logDirs, fence, campaigning, memory, logged, traces, downs, clearedRuns, mixed, torn, evicted>>
  BY DEF Start, histories
<1>2. logServer[s] \in Servers /\ logServer \in [LogServers -> Servers] /\ traces \in SUBSET Nat
  BY ServerType, RunTypes DEF LogsTyped
<1>3. /\ logServer' \in [LogServers -> Servers] /\ logServer'[s].pc = "recovering" /\ logServer'[s].flush = logServer[s].flush
      /\ \A t \in LogServers \ {s} : logServer'[t] = logServer[t]
  BY <1>1, <1>2 DEF Servers
<1> QED BY <1>1, <1>3, NoneGrow DEF LogsTyped

\* A trace is left alone, or flushed as a session beyond those of the runs.
LEMMA RecoverTyped ==
  ASSUME LogsTyped, NEW s \in LogServers, recover_crashed_sessions(s)
  PROVE  /\ LogsTyped' /\ Grown
         /\ UNCHANGED <<fence, campaigning, memory, logged, clearedRuns, mixed, evicted>>
         /\ logServer[s].pc = "recovering" /\ logServer[s].flush.pc = "no" /\ logServer'[s].pc = "recovering"
         /\ \A t \in LogServers \ {s} : logServer'[t] = logServer[t]
         /\ \/ UNCHANGED <<index, logDirs, torn>> /\ logServer'[s].flush.pc = "no"
            \/ \E r \in DOMAIN logged :
                 /\ logServer'[s].flush.pc = "scan" /\ r > 0
                 /\ Write(MaxLogged + r, none, NoRecord)
                 /\ index' = Append(index, [dir |-> MaxLogged + r, at |-> logged[r].at])
                 /\ torn' = IF Others(s) = {} THEN torn ELSE torn \union {MaxLogged + r}
<1>1. PICK r \in logServer[s].todo :
        LET rest == [logServer EXCEPT ![s].todo = @ \ {r}]
        IN  IF r \in traces /\ logged[r].pc = "dead"
              THEN /\ Write(MaxLogged + r, none, NoRecord)
                   /\ index' = Append(index, [dir |-> MaxLogged + r, at |-> logged[r].at])
                   /\ logServer' = [rest EXCEPT ![s].flush = [pc |-> "scan", run |-> r, keep |-> {}, name |-> MaxLogged + r]]
                   /\ torn' = IF Others(s) = {} THEN torn ELSE torn \union {MaxLogged + r}
              ELSE logServer' = rest /\ UNCHANGED <<logDirs, index, torn>>
  BY DEF recover_crashed_sessions
<1>2. /\ logServer[s].pc = "recovering" /\ logServer[s].flush.pc = "no"
      /\ UNCHANGED <<logTime, fence, campaigning, memory, logged, traces, downs, clearedRuns, mixed, evicted>>
  BY DEF recover_crashed_sessions
<1>3. logServer[s] \in Servers /\ logServer \in [LogServers -> Servers] /\ r \in Nat
  BY ServerType DEF LogsTyped, Servers
<1> DEFINE rest == [logServer EXCEPT ![s].todo = @ \ {r}]
<1>4. /\ rest \in [LogServers -> Servers] /\ rest[s].pc = "recovering" /\ rest[s].flush = logServer[s].flush
      /\ \A t \in LogServers \ {s} : rest[t] = logServer[t]
  BY <1>2, <1>3 DEF Servers
<1>5. CASE ~(r \in traces /\ logged[r].pc = "dead")
  <2>1. logServer' = rest /\ UNCHANGED <<logDirs, index, torn>>
    BY <1>1, <1>5
  <2> HIDE DEF rest
  <2> QED BY <1>2, <1>4, <2>1, NoneGrow DEF LogsTyped
<1>6. CASE r \in traces /\ logged[r].pc = "dead"
  <2> DEFINE flush == [pc |-> "scan", run |-> r, keep |-> {}, name |-> MaxLogged + r]
  <2>1. /\ Write(MaxLogged + r, none, NoRecord)
        /\ index' = Append(index, [dir |-> MaxLogged + r, at |-> logged[r].at])
        /\ logServer' = [rest EXCEPT ![s].flush = flush]
        /\ torn' = IF Others(s) = {} THEN torn ELSE torn \union {MaxLogged + r}
    BY <1>1, <1>6
  <2>2. r \in DOMAIN logged /\ r > 0 /\ MaxLogged \in Nat /\ logged[r] \in Runs
    BY <1>6, RunTypes DEF LogsTyped
  <2>3. flush \in Flushes /\ flush.pc = "scan" /\ MaxLogged + r \in Nat /\ logged[r].at \in Nat
    BY <1>3, <2>2 DEF Flushes, Runs
  <2> HIDE DEF rest, flush
  <2>4. /\ logServer' \in [LogServers -> Servers] /\ logServer'[s].pc = "recovering" /\ logServer'[s].flush.pc = "scan"
        /\ \A t \in LogServers \ {s} : logServer'[t] = logServer[t]
    BY <1>4, <2>1, <2>3 DEF Servers
  <2>5. index' \in Seq(Lines)
    <3>1. [dir |-> MaxLogged + r, at |-> logged[r].at] \in Lines /\ index \in Seq(Lines)
      BY <2>3 DEF Lines, LogsTyped
    <3> QED BY <2>1, <3>1, AppendProperties
  <2>6. logDirs' \in Seq(Directories)
    <3>1. none \in Campaigns /\ NoRecord \in Records /\ logDirs \in Seq(Directories)
      BY DEF Campaigns, NoRecord, Records, LogsTyped
    <3> QED BY <2>1, <2>3, <3>1, WriteKeeps
  <2>7. LogsTyped'
    BY <1>2, <2>4, <2>5, <2>6 DEF LogsTyped
  <2> QED BY <1>2, <2>1, <2>2, <2>4, <2>7, NoneGrow
<1> QED BY <1>5, <1>6

\* What is replayed is what the lines' directories hold, line by line.
LEMMA DeferredTyped ==
  ASSUME LogsTyped, NEW s \in LogServers, deferred_initialize(s)
  PROVE  /\ LogsTyped' /\ Grown
         /\ UNCHANGED <<index, logDirs, fence, campaigning, logged, clearedRuns, mixed, torn, evicted>>
         /\ logServer[s].pc = "recovering" /\ logServer[s].flush.pc = "no"
         /\ logServer'[s].pc = "up" /\ logServer'[s].flush.pc = "no"
         /\ \A t \in LogServers \ {s} : logServer'[t] = logServer[t] /\ memory'[t] = memory[t]
         /\ \E f \in InOrder(Entries(fence)) :
              /\ DOMAIN memory'[s] = DOMAIN f
              /\ \A i, j \in DOMAIN f : i # j => f[i] # f[j]
              /\ \A i \in DOMAIN f :
                   /\ f[i] \in DOMAIN index /\ index[f[i]].at >= fence
                   /\ \E d \in DOMAIN logDirs : /\ logDirs[d].name = index[f[i]].dir
                                                /\ logDirs[d].audit.run # 0
                                                /\ memory'[s][i] = logDirs[d].audit
<1>1. /\ logServer[s].pc = "recovering" /\ logServer[s].flush.pc = "no"
      /\ logServer' = [logServer EXCEPT ![s].pc = "up"]
      /\ UNCHANGED <<logTime, index, logDirs, fence, campaigning, logged, traces, downs, clearedRuns, mixed, torn, evicted>>
  BY DEF deferred_initialize, histories
<1>2. PICK f \in InOrder(Entries(fence)) :
        memory' = [memory EXCEPT ![s] = [i \in DOMAIN f |-> SessionOf(index[f[i]]).audit]]
  BY DEF deferred_initialize, load_from_log_dir, Replay
<1>3. logServer[s] \in Servers /\ logServer \in [LogServers -> Servers]
  BY ServerType DEF LogsTyped
<1>4. /\ logServer' \in [LogServers -> Servers] /\ logServer'[s].pc = "up" /\ logServer'[s].flush.pc = "no"
      /\ \A t \in LogServers \ {s} : logServer'[t] = logServer[t]
  BY <1>1, <1>3 DEF Servers
<1>5. Entries(fence) \in SUBSET DOMAIN index /\ index \in Seq(Lines) /\ logDirs \in Seq(Directories)
  BY DEF Entries, LogsTyped
<1>6. /\ DOMAIN f = 1..Len(Along(f, index)) /\ Len(Along(f, index)) \in Nat
      /\ \A i \in DOMAIN f : f[i] \in Entries(fence) /\ f[i] \in DOMAIN index
      /\ \A i, j \in DOMAIN f : i # j => f[i] # f[j]
  <2>1. /\ Along(f, index) \in Seq(Lines) /\ DOMAIN Along(f, index) = DOMAIN f
        /\ \A i \in DOMAIN f : f[i] \in Entries(fence) /\ f[i] \in DOMAIN index
        /\ \A i, j \in DOMAIN f : i # j => f[i] # f[j]
    BY <1>5, AlongKeeps
  <2> QED BY <2>1, LenProperties
<1>7. ASSUME NEW i \in DOMAIN f
      PROVE  /\ index[f[i]].at >= fence
             /\ \E d \in DOMAIN logDirs : /\ logDirs[d].name = index[f[i]].dir /\ logDirs[d].audit.run # 0
                                          /\ SessionOf(index[f[i]]).audit = logDirs[d].audit
  <2>1. index[f[i]].at >= fence /\ index[f[i]].dir \in DirNames /\ SessionOf(index[f[i]]).audit.run # 0
    BY <1>6 DEF Entries
  <2> DEFINE d == CHOOSE k \in DOMAIN logDirs : logDirs[k].name = index[f[i]].dir
  <2>2. d \in DOMAIN logDirs /\ logDirs[d].name = index[f[i]].dir
    BY <2>1 DEF DirNames
  <2>3. SessionOf(index[f[i]]) = logDirs[d]
    BY DEF SessionOf
  <2> HIDE DEF d
  <2> QED BY <2>1, <2>2, <2>3
<1> DEFINE replay == [i \in DOMAIN f |-> SessionOf(index[f[i]]).audit]
<1>8. replay \in Seq(Records)
  <2>1. \A i \in DOMAIN f : SessionOf(index[f[i]]).audit \in Records
    <3>1. \A d \in DOMAIN logDirs : logDirs[d] \in Directories
      BY <1>5, ElementOfSeq
    <3> QED BY <1>7, <3>1 DEF Directories
  <2>2. replay = [i \in 1..Len(Along(f, index)) |-> SessionOf(index[f[i]]).audit]
    BY <1>6
  <2> QED BY <1>6, <2>1, <2>2, IsASeq
<1>9. DOMAIN replay = DOMAIN f /\ \A i \in DOMAIN f : replay[i] = SessionOf(index[f[i]]).audit
  OBVIOUS
<1>10. memory' = [memory EXCEPT ![s] = replay] /\ memory \in [LogServers -> Seq(Records)]
  BY <1>2 DEF LogsTyped
<1> HIDE DEF replay
<1>11. memory' \in [LogServers -> Seq(Records)] /\ memory'[s] = replay /\ \A t \in LogServers \ {s} : memory'[t] = memory[t]
  BY <1>8, <1>10
<1>12. LogsTyped'
  BY <1>1, <1>4, <1>11 DEF LogsTyped
<1>13. Grown
  BY <1>1, NoneGrow
<1>14. \A i \in DOMAIN f :
         /\ f[i] \in DOMAIN index /\ index[f[i]].at >= fence
         /\ \E d \in DOMAIN logDirs : /\ logDirs[d].name = index[f[i]].dir
                                      /\ logDirs[d].audit.run # 0
                                      /\ memory'[s][i] = logDirs[d].audit
  BY <1>6, <1>7, <1>9, <1>11
<1>15. DOMAIN memory'[s] = DOMAIN f
  BY <1>9, <1>11
<1> QED BY <1>1, <1>4, <1>6, <1>11, <1>12, <1>13, <1>14, <1>15

LEMMA CampaignEndsTyped ==
  ASSUME LogsTyped, CampaignEnds
  PROVE  /\ LogsTyped' /\ Grown
         /\ UNCHANGED <<index, logDirs, fence, logServer, memory, logged, clearedRuns, mixed, torn, evicted>>
<1>1. UNCHANGED <<logTime, index, logDirs, fence, logServer, memory, logged, traces, downs, clearedRuns, mixed, torn, evicted>>
  BY DEF CampaignEnds, histories
<1> QED BY <1>1, NoneGrow DEF LogsTyped

LEMMA LogsInitInv == LogsInit => LogsInv
<1> SUFFICES ASSUME LogsInit PROVE LogsInv
  OBVIOUS
<1>1. /\ logTime = 1 /\ fence = 0 /\ index = <<>> /\ logDirs = <<>> /\ logged = <<>> /\ traces = {}
      /\ memory = [s \in LogServers |-> <<>>] /\ clearedRuns = [s \in LogServers |-> {}]
      /\ logServer = [s \in LogServers |-> [pc |-> "up", flush |-> NoFlush, todo |-> {}]] /\ evicted = {}
  BY DEF LogsInit
<1>2. DOMAIN logged = {} /\ DOMAIN index = {} /\ DOMAIN logDirs = {} /\ \A s \in LogServers : DOMAIN memory[s] = {}
  BY <1>1
<1>3. LogsTyped
  <2>1. [pc |-> "up", flush |-> NoFlush, todo |-> {}] \in Servers
    BY DEF Servers, Flushes, NoFlush
  <2>2. logServer \in [LogServers -> Servers] /\ memory \in [LogServers -> Seq(Records)]
    BY <1>1, <2>1
  <2>3. MaxLogged \in Nat
    BY LogsAssumption
  <2>4. index \in Seq(Lines) /\ logDirs \in Seq(Directories) /\ logged \in Seq(Runs) /\ Len(logged) = 0
    BY <1>1
  <2>5. logTime \in Nat /\ fence \in Nat /\ fence < logTime /\ Len(logged) <= MaxLogged
    BY <1>1, <2>3, <2>4
  <2> QED BY <1>1, <1>2, <2>2, <2>4, <2>5 DEF LogsTyped
<1>4. ServersKnown
  BY <1>1, <1>2 DEF ServersKnown, NoFlush
<1>5. Beside /\ Recorded /\ Since /\ Indexed
  BY <1>2 DEF Beside, Recorded, Since, Indexed
<1>6. Past
  BY <1>1 DEF Past
<1>7. InIndex
  BY <1>2 DEF InIndex, DirNames
<1>8. CampaignKept /\ CountedOnce /\ ClearedStays
  BY <1>1, <1>2 DEF CampaignKept, CountedOnce, ClearedStays
<1> QED BY <1>3, <1>4, <1>5, <1>6, <1>7, <1>8 DEF LogsInv

\* What the histories and the runs excuse stays excused.
Excused(q) == q \in mixed \/ Resumed(logged[q].name)

LEMMA GrownKeeps ==
  ASSUME LogsTyped, Grown
  PROVE  /\ \A m : IsRecord(m, logged) => IsRecord(m, logged')
         /\ \A l : OfRun(l, logged) => OfRun(l, logged')
         /\ \A n : Resumed(n) => Resumed(n)'
         /\ \A q \in DOMAIN logged : Excused(q) => Excused(q)'
<1>1. /\ DOMAIN logged \subseteq DOMAIN logged' /\ mixed \subseteq mixed'
      /\ \A r \in DOMAIN logged :
           /\ logged'[r].name = logged[r].name /\ logged'[r].at = logged[r].at
           /\ Becomes(logged[r].pc, logged'[r].pc)
  BY DEF Grown
<1>2. \A m : IsRecord(m, logged) => IsRecord(m, logged')
  BY <1>1 DEF IsRecord, Becomes
<1>3. \A l : OfRun(l, logged) => OfRun(l, logged')
  BY <1>1 DEF OfRun, Becomes
<1>4. \A n : Resumed(n) => Resumed(n)'
  BY <1>1 DEF Resumed
<1>5. \A q \in DOMAIN logged : Excused(q) => Excused(q)'
  BY <1>1, <1>4 DEF Excused
<1> QED BY <1>2, <1>3, <1>4, <1>5

LEMMA LogsStep ==
  ASSUME LogsTyped, ServersKnown, [LogsNext]_logVars
  PROVE  LogsTyped' /\ Grown
<1>1. ASSUME NEW s \in LogServers, StartRun(s) PROVE LogsTyped' /\ Grown
  BY <1>1, StartRunTyped
<1>2. ASSUME NEW s \in LogServers, NEW r \in DOMAIN logged, NEW failed \in BOOLEAN, EndRun(s, r, failed) PROVE LogsTyped' /\ Grown
  BY <1>2, EndRunTyped
<1>3. ASSUME NEW s \in LogServers, _enforce_retention(s) PROVE LogsTyped' /\ Grown
  BY <1>3, RetentionTyped
<1>4. ASSUME NEW s \in LogServers, RewriteIndex(s) PROVE LogsTyped' /\ Grown
  BY <1>4, RewriteTyped
<1>5. ASSUME NEW s \in LogServers, FlushEnds(s) PROVE LogsTyped' /\ Grown
  BY <1>5, FlushEndsTyped
<1>6. ASSUME NEW s \in LogServers, ClearReport(s) PROVE LogsTyped' /\ Grown
  BY <1>6, ClearTyped
<1>7. ASSUME NEW s \in LogServers, Crash(s) PROVE LogsTyped' /\ Grown
  BY <1>7, CrashTyped
<1>8. ASSUME NEW s \in LogServers, Start(s) PROVE LogsTyped' /\ Grown
  BY <1>8, StartTyped
<1>9. ASSUME NEW s \in LogServers, recover_crashed_sessions(s) PROVE LogsTyped' /\ Grown
  BY <1>9, RecoverTyped
<1>10. ASSUME NEW s \in LogServers, deferred_initialize(s) PROVE LogsTyped' /\ Grown
  BY <1>10, DeferredTyped
<1>11. CASE CampaignEnds
  BY <1>11, CampaignEndsTyped
<1>12. CASE OrphanEnds
  BY <1>12, OrphanEndsTyped
<1>13. CASE UNCHANGED logVars
  BY <1>13, NoneGrow DEF logVars, LogsTyped
<1> QED BY <1>1, <1>2, <1>3, <1>4, <1>5, <1>6, <1>7, <1>8, <1>9, <1>10, <1>11, <1>12, <1>13 DEF LogsNext

(* What a step does to a server's audit log: it grows by a run that is over, shrinks, or is replayed. *)

Shrunk(s) ==
  DOMAIN memory'[s] \subseteq DOMAIN memory[s] /\ \A i \in DOMAIN memory'[s] : memory'[s][i] = memory[s][i]

Added(s) ==
  \E r \in DOMAIN logged, b \in BOOLEAN :
    /\ memory'[s] = Append(memory[s], [run |-> r, failed |-> b])
    /\ logged[r].server = s /\ UNCHANGED <<clearedRuns, fence, mixed>>
    /\ \A q \in DOMAIN logged' \ {r} : q \in DOMAIN logged /\ logged'[q] = logged[q]
    /\ \/ b /\ logged[r].pc = "running" /\ logged'[r].pc = "failed"
       \/ ~b /\ logged[r].pc = "ok" /\ logged'[r].pc = "done"

Replayed(s) ==
  /\ UNCHANGED <<index, logDirs, fence, logged, clearedRuns, mixed>> /\ logServer[s].pc = "recovering"
  /\ \E f \in InOrder(Entries(fence)) :
       /\ DOMAIN memory'[s] = DOMAIN f
       /\ \A i, j \in DOMAIN f : i # j => f[i] # f[j]
       /\ \A i \in DOMAIN f :
            /\ f[i] \in DOMAIN index /\ index[f[i]].at >= fence
            /\ \E d \in DOMAIN logDirs : /\ logDirs[d].name = index[f[i]].dir
                                         /\ logDirs[d].audit.run # 0
                                         /\ memory'[s][i] = logDirs[d].audit

LEMMA MemoryStep ==
  ASSUME LogsTyped, ServersKnown, [LogsNext]_logVars, NEW t \in LogServers
  PROVE  Shrunk(t) \/ Added(t) \/ Replayed(t)
<1>0. memory \in [LogServers -> Seq(Records)]
  BY DEF LogsTyped
<1>1. ASSUME memory' = memory PROVE Shrunk(t)
  BY <1>1 DEF Shrunk
<1>2. ASSUME NEW s \in LogServers, NEW r \in DOMAIN logged, NEW failed \in BOOLEAN, EndRun(s, r, failed)
      PROVE  Shrunk(t) \/ Added(t)
  <2>1. /\ logged[r].pc = "running" /\ logged[r].server = s /\ DOMAIN logged' = DOMAIN logged
        /\ failed => logged'[r].pc = "failed"
        /\ \A q \in DOMAIN logged \ {r} : logged'[q] = logged[q]
    BY <1>2, EndRunTyped
  <2>4. memory' = [memory EXCEPT ![s] = Log(s, r, failed)] /\ UNCHANGED <<clearedRuns, fence, mixed>>
    BY <1>2, EndRunWrites
  <2>2. CASE t = s /\ failed
    <3>1. memory'[t] = Append(memory[t], [run |-> r, failed |-> TRUE])
      BY <1>0, <2>2, <2>4 DEF Log
    <3> QED BY <2>1, <2>2, <2>4, <3>1 DEF Added
  <2>3. CASE ~(t = s /\ failed)
    <3>1. memory'[t] = memory[t]
      BY <1>0, <2>3, <2>4 DEF Log
    <3> QED BY <3>1 DEF Shrunk
  <2> QED BY <2>2, <2>3
<1>3. ASSUME NEW s \in LogServers, FlushEnds(s) PROVE Shrunk(t) \/ Added(t)
  <2>1. CASE memory' = memory
    BY <1>1, <2>1
  <2>2. CASE memory' # memory
    <3>1. UNCHANGED <<clearedRuns, fence, mixed>>
      BY <1>3 DEF FlushEnds, histories
    <3>2. DOMAIN logged' = DOMAIN logged
      BY <1>3, FlushEndsTyped
    <3> DEFINE r == logServer[s].flush.run
    <3>5. /\ r \in DOMAIN logged /\ logged[r].server = s /\ logged'[r].pc = "done" /\ logged[r].pc = "ok"
          /\ \A q \in DOMAIN logged \ {r} : logged'[q] = logged[q]
          /\ memory' = [memory EXCEPT ![s] = Append(memory[s], [run |-> r, failed |-> FALSE])]
      BY <1>3, <2>2, FlushEndsTyped
    <3> HIDE DEF r
    <3>3. CASE t = s
      <4>1. memory'[t] = Append(memory[t], [run |-> r, failed |-> FALSE])
        BY <1>0, <2>2, <3>3, <3>5
      <4> QED BY <2>2, <3>1, <3>2, <3>3, <3>5, <4>1 DEF Added
    <3>4. CASE t # s
      <4>1. memory'[t] = memory[t]
        BY <1>0, <2>2, <3>4, <3>5
      <4> QED BY <4>1 DEF Shrunk
    <3> QED BY <3>3, <3>4
  <2> QED BY <2>1, <2>2
<1>4. ASSUME NEW s \in LogServers, memory'[s] = <<>>, \A u \in LogServers \ {s} : memory'[u] = memory[u] PROVE Shrunk(t)
  <2>1. DOMAIN memory'[s] = {}
    BY <1>4
  <2> QED BY <1>4, <2>1 DEF Shrunk
<1>5. ASSUME NEW s \in LogServers, deferred_initialize(s) PROVE Shrunk(t) \/ Replayed(t)
  <2>1. CASE t = s
    BY <1>5, <2>1, DeferredTyped DEF Replayed
  <2>2. CASE t # s
    <3>1. memory'[t] = memory[t]
      BY <1>5, <2>2, DeferredTyped
    <3> QED BY <3>1 DEF Shrunk
  <2> QED BY <2>1, <2>2
<1>6. ASSUME NEW s \in LogServers, StartRun(s) \/ _enforce_retention(s) \/ RewriteIndex(s) \/ Start(s) \/ recover_crashed_sessions(s)
      PROVE  memory' = memory
  BY <1>6 DEF StartRun, _enforce_retention, RewriteIndex, Start, recover_crashed_sessions
<1>7. ASSUME NEW s \in LogServers, ClearReport(s) \/ Crash(s) PROVE Shrunk(t)
  BY <1>4, <1>7, ClearTyped, CrashTyped
<1>8. CASE CampaignEnds \/ OrphanEnds \/ UNCHANGED logVars
  <2>1. memory' = memory
    BY <1>8 DEF CampaignEnds, OrphanEnds, logVars
  <2> QED BY <1>1, <2>1
<1> QED BY <1>1, <1>2, <1>3, <1>5, <1>6, <1>7, <1>8 DEF LogsNext

LEMMA LogProperties ==
  ASSUME LogsTyped, NEW s \in LogServers, NEW r \in Nat, NEW b \in BOOLEAN, memory'[s] = Append(memory[s], [run |-> r, failed |-> b])
  PROVE  /\ DOMAIN memory'[s] = 1..(Len(memory[s]) + 1) /\ Len(memory[s]) \in Nat /\ DOMAIN memory[s] = 1..Len(memory[s])
         /\ \A i \in DOMAIN memory[s] : i \in DOMAIN memory'[s] /\ memory'[s][i] = memory[s][i]
         /\ memory'[s][Len(memory[s]) + 1] = [run |-> r, failed |-> b]
         /\ \A i \in DOMAIN memory'[s] : i \in DOMAIN memory[s] \/ i = Len(memory[s]) + 1
<1> DEFINE one == [run |-> r, failed |-> b]
<1>1. one \in Records /\ memory[s] \in Seq(Records) /\ memory'[s] = Append(memory[s], one)
  BY ServerType DEF Records
<1> HIDE DEF one
<1>2. /\ memory'[s] \in Seq(Records) /\ Len(memory'[s]) = Len(memory[s]) + 1
      /\ \A i \in 1..Len(memory[s]) : memory'[s][i] = memory[s][i]
      /\ memory'[s][Len(memory[s]) + 1] = one
  BY <1>1, AppendProperties
<1>3. DOMAIN memory'[s] = 1..(Len(memory[s]) + 1) /\ DOMAIN memory[s] = 1..Len(memory[s]) /\ Len(memory[s]) \in Nat
  BY <1>1, <1>2, LenProperties
<1> QED BY <1>2, <1>3 DEF one

\* The audit logs hold records of runs that are over.
LEMMA RecordedInMemory ==
  ASSUME LogsInv, [LogsNext]_logVars, NEW s \in LogServers, NEW i \in DOMAIN memory'[s]
  PROVE  IsRecord(memory'[s][i], logged')
<1>1. LogsTyped /\ ServersKnown /\ Recorded
  BY DEF LogsInv
<1>2. Grown
  BY <1>1, LogsStep
<1>3. \A m : IsRecord(m, logged) => IsRecord(m, logged')
  BY <1>1, <1>2, GrownKeeps
<1>4. CASE Shrunk(s)
  BY <1>1, <1>3, <1>4 DEF Shrunk, Recorded
<1>5. CASE Added(s)
  <2>1. PICK r \in DOMAIN logged, b \in BOOLEAN :
          /\ memory'[s] = Append(memory[s], [run |-> r, failed |-> b])
          /\ \/ b /\ logged[r].pc = "running" /\ logged'[r].pc = "failed"
             \/ ~b /\ logged[r].pc = "ok" /\ logged'[r].pc = "done"
    BY <1>5 DEF Added
  <2>2. r \in Nat /\ r \in DOMAIN logged'
    BY <1>1, <1>2, RunTypes DEF Grown
  <2>3. i \in DOMAIN memory[s] \/ i = Len(memory[s]) + 1
    BY <1>1, <2>1, <2>2, LogProperties
  <2>4. CASE i \in DOMAIN memory[s]
    <3>1. memory'[s][i] = memory[s][i]
      BY <1>1, <2>1, <2>2, <2>4, LogProperties
    <3> QED BY <1>1, <1>3, <2>4, <3>1 DEF Recorded
  <2>5. CASE i = Len(memory[s]) + 1
    <3>1. memory'[s][i] = [run |-> r, failed |-> b]
      BY <1>1, <2>1, <2>2, <2>5, LogProperties
    <3>2. memory'[s][i].run = r /\ memory'[s][i].failed = b
      BY <3>1
    <3> QED BY <2>1, <2>2, <3>2 DEF IsRecord
  <2> QED BY <2>3, <2>4, <2>5
<1>6. CASE Replayed(s)
  <2>1. \E d \in DOMAIN logDirs : logDirs[d].audit.run # 0 /\ memory'[s][i] = logDirs[d].audit
    BY <1>6 DEF Replayed
  <2> QED BY <1>1, <1>3, <2>1 DEF Recorded, IsPlaced
<1> QED BY <1>1, <1>4, <1>5, <1>6, MemoryStep

\* What a step leaves in a directory was there, was in the directory of that name, or is the record
\* of a run that ends.
LEMMA RecordedInDirectories ==
  ASSUME LogsInv, [LogsNext]_logVars, NEW i \in DOMAIN logDirs'
  PROVE  IsPlaced(logDirs'[i], logged', mixed')
<1>1. LogsTyped /\ ServersKnown /\ Recorded /\ Since
  BY DEF LogsInv
<1>2. Grown /\ LogsTyped'
  BY <1>1, LogsStep
<1>3. \A d : IsPlaced(d, logged, mixed) => IsPlaced(d, logged', mixed')
  <2>1. \A m : IsRecord(m, logged) => IsRecord(m, logged')
    BY <1>1, <1>2, GrownKeeps
  <2> QED BY <1>2, <2>1 DEF IsPlaced, IsRecord, Grown
<1>4. \A j \in DOMAIN logDirs : IsPlaced(logDirs[j], logged, mixed)
  BY <1>1 DEF Recorded
<1>5. ASSUME NEW j \in DOMAIN logDirs, logDirs'[i] = logDirs[j] PROVE IsPlaced(logDirs'[i], logged', mixed')
  BY <1>3, <1>4, <1>5
<1>6. ASSUME NEW name \in Nat, NEW campaign \in Campaigns, NEW record \in Records, Write(name, campaign, record),
             record.run # 0 => /\ IsRecord(record, logged') /\ name <= MaxLogged
                               /\ record.run \in mixed' \/ logged'[record.run].name = name
      PROVE  IsPlaced(logDirs'[i], logged', mixed')
  <2>1. logDirs \in Seq(Directories)
    BY <1>1 DEF LogsTyped
  <2>2. \/ \E j \in DOMAIN logDirs : logDirs'[i] = logDirs[j]
        \/ /\ logDirs'[i].name = name
           /\ \/ logDirs'[i].audit \in {record, NoRecord}
              \/ \E j \in DOMAIN logDirs : logDirs[j].name = name /\ logDirs'[i].audit = logDirs[j].audit
    BY <1>6, <2>1, WriteKeeps
  <2>3. CASE logDirs'[i].name = name /\ logDirs'[i].audit = record
    BY <1>6, <2>3 DEF IsPlaced
  <2>4. CASE logDirs'[i].audit = NoRecord
    BY <2>4 DEF IsPlaced, NoRecord
  <2>5. ASSUME NEW j \in DOMAIN logDirs, logDirs'[i].name = logDirs[j].name, logDirs'[i].audit = logDirs[j].audit
        PROVE  IsPlaced(logDirs'[i], logged', mixed')
    <3>1. IsPlaced(logDirs[j], logged', mixed')
      BY <1>3, <1>4
    <3> QED BY <2>5, <3>1 DEF IsPlaced
  <2> QED BY <1>5, <2>2, <2>3, <2>4, <2>5
<1>7. ASSUME NEW s \in LogServers, NEW r \in DOMAIN logged, NEW failed \in BOOLEAN, EndRun(s, r, failed)
      PROVE  IsPlaced(logDirs'[i], logged', mixed')
  <2> DEFINE record == Record(s, r, failed)
  <2>1. /\ logged[r].pc = "running" /\ logged[r].server = s /\ DOMAIN logged' = DOMAIN logged
        /\ failed => logged'[r].pc = "failed"
    BY <1>1, <1>7, EndRunTyped
  <2>2. Write(logged[r].name, logged[r].campaign, record) /\ mixed' = mixed
    BY <1>7, EndRunWrites
  <2>3. /\ logged[r].name \in Nat /\ logged[r].name <= MaxLogged /\ logged[r].campaign \in Campaigns
        /\ r \in Nat /\ logged'[r].name = logged[r].name
    BY <1>1, <1>2, RunTypes DEF Runs, LogsTyped, Grown
  <2>4. /\ record \in Records
        /\ \/ record = NoRecord
           \/ \E k \in DOMAIN Log(s, r, failed) : k > logged[r].base /\ record = Log(s, r, failed)[k]
        /\ \A k \in DOMAIN Log(s, r, failed) :
             \/ k \in DOMAIN memory[s] /\ Log(s, r, failed)[k] = memory[s][k]
             \/ k = Len(memory[s]) + 1 /\ failed /\ Log(s, r, failed)[k] = [run |-> r, failed |-> TRUE]
    BY <1>1, LogTyped
  <2> HIDE DEF record
  <2>5. ASSUME record.run # 0 PROVE IsRecord(record, logged') /\ (record.run \in mixed' \/ logged'[record.run].name = logged[r].name)
    <3>1. record # NoRecord
      BY <2>5 DEF NoRecord
    <3>2. PICK k \in DOMAIN Log(s, r, failed) : k > logged[r].base /\ record = Log(s, r, failed)[k]
      BY <2>4, <3>1
    <3>3. CASE k \in DOMAIN memory[s] /\ record = memory[s][k]
      <4>1. IsRecord(record, logged')
        <5>1. IsRecord(memory[s][k], logged)
          BY <1>1, <3>3 DEF Recorded
        <5> QED BY <1>1, <1>2, <3>3, <5>1, GrownKeeps
      <4>2. record.run \in mixed
        BY <1>1, <2>1, <3>2, <3>3 DEF Since
      <4> QED BY <2>2, <4>1, <4>2
    <3>4. CASE failed /\ record = [run |-> r, failed |-> TRUE]
      <4>1. record.run = r /\ record.failed
        BY <3>4
      <4> QED BY <2>1, <2>3, <3>4, <4>1 DEF IsRecord
    <3> QED BY <2>4, <3>2, <3>3, <3>4
  <2> QED BY <1>6, <2>2, <2>3, <2>4, <2>5
<1>8. ASSUME NEW s \in LogServers, recover_crashed_sessions(s) PROVE IsPlaced(logDirs'[i], logged', mixed')
  <2>1. CASE logDirs' = logDirs
    BY <1>5, <2>1
  <2>2. ASSUME NEW r \in DOMAIN logged, Write(MaxLogged + r, none, NoRecord) PROVE IsPlaced(logDirs'[i], logged', mixed')
    <3>1. MaxLogged + r \in Nat /\ none \in Campaigns /\ NoRecord \in Records /\ NoRecord.run = 0
      BY <1>1, RunTypes DEF Campaigns, Records, NoRecord
    <3> QED BY <1>6, <2>2, <3>1
  <2> QED BY <1>1, <1>8, <2>1, <2>2, RecoverTyped
<1>9. ASSUME NEW s \in LogServers, _enforce_retention(s) PROVE IsPlaced(logDirs'[i], logged', mixed')
  BY <1>1, <1>5, <1>9, RetentionTyped
<1>10. CASE logDirs' = logDirs
  BY <1>5, <1>10
<1>11. ASSUME NEW s \in LogServers,
              \/ StartRun(s) \/ RewriteIndex(s) \/ FlushEnds(s) \/ ClearReport(s) \/ Crash(s) \/ Start(s) \/ deferred_initialize(s)
       PROVE  logDirs' = logDirs
  BY <1>11 DEF StartRun, RewriteIndex, FlushEnds, ClearReport, Crash, Start, deferred_initialize
<1>12. CampaignEnds \/ OrphanEnds \/ UNCHANGED logVars => logDirs' = logDirs
  BY DEF CampaignEnds, OrphanEnds, logVars
<1> QED BY <1>7, <1>8, <1>9, <1>10, <1>11, <1>12 DEF LogsNext

(* Servers and the runs they are in *)

\* A server's own part of what is known of servers, and a run's.
KnownServer(s) ==
  /\ logServer[s].pc = "down" => logServer[s].flush.pc = "no"
  /\ logServer[s].pc = "up" /\ logServer[s].flush.pc # "no" =>
       LET r == logServer[s].flush.run
       IN  r \in DOMAIN logged /\ logged[r].server = s /\ logged[r].pc \in {"ok", "failed"}

KnownRun(r) ==
  /\ Working(r) => logServer[logged[r].server].pc = "up"
  /\ logged[r].pc \in {"ok", "failed"} =>
       LET f == logServer[logged[r].server].flush IN f.pc # "no" /\ f.run = r

LEMMA Known == ServersKnown <=> (\A s \in LogServers : KnownServer(s)) /\ (\A r \in DOMAIN logged : KnownRun(r))
BY DEF ServersKnown, KnownServer, KnownRun

LEMMA ServersStep ==
  ASSUME LogsTyped, ServersKnown, [LogsNext]_logVars
  PROVE  ServersKnown'
<1>0. /\ \A t \in LogServers : KnownServer(t)
      /\ \A q \in DOMAIN logged : KnownRun(q) /\ logged[q].server \in LogServers
  BY Known, RunTypes DEF Runs
<1>1. SUFFICES (\A t \in LogServers : KnownServer(t)') /\ (\A q \in DOMAIN logged' : KnownRun(q)')
  BY DEF ServersKnown, KnownServer, KnownRun, Working
<1>2. ASSUME NEW s \in LogServers, StartRun(s) PROVE (\A t \in LogServers : KnownServer(t)') /\ (\A q \in DOMAIN logged' : KnownRun(q)')
  <2>1. /\ \A r \in DOMAIN logged : logged'[r] = logged[r]
        /\ \E n \in DOMAIN logged' : /\ n \notin DOMAIN logged /\ DOMAIN logged' = DOMAIN logged \union {n}
                                    /\ logged'[n].pc = "running" /\ logged'[n].server = s
    BY <1>2, StartRunTyped
  <2>2. logServer' = logServer /\ logServer[s].pc = "up"
    BY <1>2 DEF StartRun, Serving
  <2> QED BY <1>0, <2>1, <2>2 DEF KnownServer, KnownRun, Working
<1>3. ASSUME NEW s \in LogServers, NEW r \in DOMAIN logged, NEW failed \in BOOLEAN, EndRun(s, r, failed)
      PROVE  (\A t \in LogServers : KnownServer(t)') /\ (\A q \in DOMAIN logged' : KnownRun(q)')
  <2>1. /\ logged[r].pc = "running" /\ logged[r].server = s /\ DOMAIN logged' = DOMAIN logged
        /\ logged'[r].pc \in {"ok", "failed"}
        /\ \A q \in DOMAIN logged \ {r} : logged'[q] = logged[q]
        /\ logServer'[s].pc = "up" /\ logServer'[s].flush.run = r /\ logServer'[s].flush.pc \in {"scan", "end"}
        /\ \A t \in LogServers \ {s} : logServer'[t] = logServer[t]
    BY <1>3, EndRunTyped
  <2>2. logged'[r].server = s
    <3>1. Grown
      BY <1>3, EndRunTyped
    <3> QED BY <2>1, <3>1 DEF Grown
  <2>3. Serving(s)
    BY <1>3, EndRunWrites
  <2>4. \A t \in LogServers : KnownServer(t)'
    <3>1. KnownServer(s)'
      BY <2>1, <2>2 DEF KnownServer
    <3>2. ASSUME NEW t \in LogServers \ {s} PROVE KnownServer(t)'
      BY <1>0, <2>1 DEF KnownServer
    <3> QED BY <3>1, <3>2
  <2>5. ASSUME NEW q \in DOMAIN logged \ {r} PROVE KnownRun(q)'
    <3>1. CASE logged[q].server = s
      BY <1>0, <2>1, <2>3, <3>1 DEF KnownRun, Working, Serving
    <3>2. CASE logged[q].server # s
      BY <1>0, <2>1, <3>2 DEF KnownRun, Working
    <3> QED BY <3>1, <3>2
  <2>6. KnownRun(r)'
    BY <2>1, <2>2 DEF KnownRun, Working
  <2> QED BY <2>1, <2>4, <2>5, <2>6
<1>4. ASSUME NEW s \in LogServers, logServer'[s].pc = logServer[s].pc, logServer'[s].flush.run = logServer[s].flush.run,
             \/ logServer[s].flush.pc # "no" /\ logServer'[s].flush.pc # "no"
             \/ logServer'[s].flush = logServer[s].flush,
             \A t \in LogServers \ {s} : logServer'[t] = logServer[t], logged' = logged
      PROVE  (\A t \in LogServers : KnownServer(t)') /\ (\A q \in DOMAIN logged' : KnownRun(q)')
  <2>1. \A t \in LogServers : /\ logServer'[t].pc = logServer[t].pc /\ logServer'[t].flush.run = logServer[t].flush.run
                              /\ logServer'[t].flush.pc # "no" <=> logServer[t].flush.pc # "no"
    BY <1>4
  <2> QED BY <1>0, <1>4, <2>1 DEF KnownServer, KnownRun, Working
<1>5. ASSUME NEW s \in LogServers, _enforce_retention(s) \/ RewriteIndex(s)
      PROVE  (\A t \in LogServers : KnownServer(t)') /\ (\A q \in DOMAIN logged' : KnownRun(q)')
  <2>1. CASE _enforce_retention(s)
    BY <1>4, <2>1, RetentionTyped
  <2>2. CASE RewriteIndex(s)
    BY <1>4, <2>2, RewriteTyped
  <2> QED BY <1>5, <2>1, <2>2
<1>6. ASSUME NEW s \in LogServers, FlushEnds(s)
      PROVE  (\A t \in LogServers : KnownServer(t)') /\ (\A q \in DOMAIN logged' : KnownRun(q)')
  <2>1. /\ DOMAIN logged' = DOMAIN logged /\ logServer'[s].pc = logServer[s].pc /\ logServer'[s].flush.pc = "no"
        /\ \A t \in LogServers \ {s} : logServer'[t] = logServer[t]
        /\ logServer[s].pc # "up" => logged' = logged
        /\ logServer[s].flush.pc = "end"
    BY <1>6, FlushEndsTyped
  <2>2. CASE logServer[s].pc # "up"
    <3>1. ASSUME NEW q \in DOMAIN logged PROVE KnownRun(q)'
      <4>1. CASE logged[q].server = s
        BY <1>0, <2>1, <2>2, <4>1 DEF KnownRun, Working
      <4>2. CASE logged[q].server # s
        BY <1>0, <2>1, <2>2, <4>2 DEF KnownRun, Working
      <4> QED BY <4>1, <4>2
    <3> QED BY <1>0, <2>1, <2>2, <3>1 DEF KnownServer
  <2>3. CASE logServer[s].pc = "up"
    <3> DEFINE r == logServer[s].flush.run
    <3>1. /\ r \in DOMAIN logged /\ logged[r].server = s /\ logged'[r].pc = "done"
          /\ \A q \in DOMAIN logged \ {r} : logged'[q] = logged[q]
      BY <1>6, <2>3, FlushEndsTyped
    <3>2. ASSUME NEW q \in DOMAIN logged PROVE KnownRun(q)'
      <4>1. CASE q = r
        BY <3>1, <4>1 DEF KnownRun, Working
      <4>2. CASE q # r /\ logged[q].server = s
        BY <1>0, <2>1, <2>3, <3>1, <4>2 DEF KnownRun, Working
      <4>3. CASE q # r /\ logged[q].server # s
        BY <1>0, <2>1, <3>1, <4>3 DEF KnownRun, Working
      <4> QED BY <4>1, <4>2, <4>3
    <3>3. ASSUME NEW t \in LogServers PROVE KnownServer(t)'
      <4>1. CASE t = s
        BY <2>1, <4>1 DEF KnownServer
      <4>2. CASE t # s
        BY <1>0, <2>1, <3>1, <4>2 DEF KnownServer
      <4> QED BY <4>1, <4>2
    <3> QED BY <2>1, <3>2, <3>3
  <2> QED BY <2>2, <2>3
<1>7. ASSUME NEW s \in LogServers, Crash(s)
      PROVE  (\A t \in LogServers : KnownServer(t)') /\ (\A q \in DOMAIN logged' : KnownRun(q)')
  <2>1. /\ DOMAIN logged' = DOMAIN logged /\ logServer'[s].pc = "down" /\ logServer'[s].flush.pc = "no"
        /\ \A t \in LogServers \ {s} : logServer'[t] = logServer[t]
        /\ \A r \in DOMAIN logged :
             logged'[r].pc = (IF logged[r].server = s /\ logged[r].pc = "running" THEN "orphan"
                              ELSE IF logged[r].server = s /\ logged[r].pc \in {"ok", "failed"} THEN "done" ELSE logged[r].pc)
    BY <1>7, CrashTyped
  <2>2. \A r \in DOMAIN logged : logged'[r].server = logged[r].server
    BY <1>7, CrashTyped DEF Grown
  <2> QED BY <1>0, <2>1, <2>2 DEF KnownServer, KnownRun, Working
\* A server that is not up has no run.
<1>8. ASSUME NEW s \in LogServers, logServer[s].pc # "up", logServer'[s].pc # "down",
             logServer'[s].pc = "recovering" \/ logServer'[s].flush.pc = "no",
             \A t \in LogServers \ {s} : logServer'[t] = logServer[t], logged' = logged
      PROVE  (\A t \in LogServers : KnownServer(t)') /\ (\A q \in DOMAIN logged' : KnownRun(q)')
  <2>1. \A q \in DOMAIN logged : logged[q].server = s => ~Working(q)
    BY <1>0, <1>8 DEF KnownRun
  <2>2. ASSUME NEW q \in DOMAIN logged PROVE KnownRun(q)'
    BY <1>0, <1>8, <2>1 DEF KnownRun, Working
  <2>3. ASSUME NEW t \in LogServers PROVE KnownServer(t)'
    BY <1>0, <1>8 DEF KnownServer
  <2> QED BY <1>8, <2>2, <2>3
<1>9. ASSUME NEW s \in LogServers, Start(s) \/ recover_crashed_sessions(s) \/ deferred_initialize(s)
      PROVE  (\A t \in LogServers : KnownServer(t)') /\ (\A q \in DOMAIN logged' : KnownRun(q)')
  <2>1. CASE Start(s)
    BY <1>8, <2>1, StartTyped
  <2>2. CASE recover_crashed_sessions(s)
    BY <1>8, <2>2, RecoverTyped
  <2>3. CASE deferred_initialize(s)
    BY <1>8, <2>3, DeferredTyped
  <2> QED BY <1>9, <2>1, <2>2, <2>3
<1>10. CASE OrphanEnds
  <2>1. PICK r \in DOMAIN logged : /\ logged[r].pc = "orphan" /\ logged'[r].pc = "dead"
                                   /\ logged'[r].server = logged[r].server
                                   /\ \A q \in DOMAIN logged \ {r} : logged'[q] = logged[q]
    BY <1>10, OrphanEndsTyped
  <2>2. DOMAIN logged' = DOMAIN logged /\ logServer' = logServer
    BY <1>10, OrphanEndsTyped
  <2> QED BY <1>0, <2>1, <2>2 DEF KnownServer, KnownRun, Working
<1>11. CASE logServer' = logServer /\ logged' = logged
  BY <1>0, <1>11 DEF KnownServer, KnownRun, Working
<1>12. ASSUME NEW s \in LogServers, ClearReport(s) PROVE logServer' = logServer /\ logged' = logged
  BY <1>12 DEF ClearReport
<1>13. CampaignEnds \/ UNCHANGED logVars => logServer' = logServer /\ logged' = logged
  BY DEF CampaignEnds, logVars
<1> QED BY <1>2, <1>3, <1>5, <1>6, <1>7, <1>9, <1>10, <1>11, <1>12, <1>13 DEF LogsNext

\* Only the start of a run adds one.
LEMMA SameRuns ==
  ASSUME LogsTyped, ServersKnown, [LogsNext]_logVars
  PROVE  (\E s \in LogServers : StartRun(s)) \/ DOMAIN logged' = DOMAIN logged
<1>1. ASSUME NEW s \in LogServers, NEW r \in DOMAIN logged, NEW failed \in BOOLEAN, EndRun(s, r, failed) PROVE DOMAIN logged' = DOMAIN logged
  BY <1>1, EndRunTyped
<1>2. ASSUME NEW s \in LogServers, FlushEnds(s) PROVE DOMAIN logged' = DOMAIN logged
  BY <1>2, FlushEndsTyped
<1>3. ASSUME NEW s \in LogServers, Crash(s) PROVE DOMAIN logged' = DOMAIN logged
  BY <1>3, CrashTyped
<1>4. CASE OrphanEnds
  BY <1>4, OrphanEndsTyped
<1>5. ASSUME NEW s \in LogServers,
             \/ _enforce_retention(s) \/ RewriteIndex(s) \/ ClearReport(s) \/ Start(s)
             \/ recover_crashed_sessions(s) \/ deferred_initialize(s)
      PROVE  DOMAIN logged' = DOMAIN logged
  BY <1>5 DEF _enforce_retention, RewriteIndex, ClearReport, Start, recover_crashed_sessions, deferred_initialize
<1>6. CampaignEnds \/ UNCHANGED logVars => DOMAIN logged' = DOMAIN logged
  BY DEF CampaignEnds, logVars
<1> QED BY <1>1, <1>2, <1>3, <1>4, <1>5, <1>6 DEF LogsNext

LEMMA BesideStep ==
  ASSUME LogsInv, [LogsNext]_logVars
  PROVE  Beside'
<1>1. LogsTyped /\ ServersKnown /\ Beside
  BY DEF LogsInv
<1>2. Grown
  BY <1>1, LogsStep
<1>3. \A r \in DOMAIN logged : Working(r)' => Working(r)
  BY <1>2 DEF Grown, Becomes, Working
<1>4. CASE DOMAIN logged' = DOMAIN logged
  BY <1>1, <1>2, <1>3, <1>4 DEF Beside, Grown
<1>5. ASSUME NEW s \in LogServers, StartRun(s) PROVE Beside'
  <2>1. PICK n \in DOMAIN logged' :
          /\ n \notin DOMAIN logged /\ DOMAIN logged' = DOMAIN logged \union {n}
          /\ logged'[n].pc = "running" /\ logged'[n].server = s
          /\ mixed' = (IF RunningOn(s) = {} THEN mixed ELSE mixed \union RunningOn(s) \union {n})
    BY <1>1, <1>5, StartRunTyped
  <2>2. \A r \in DOMAIN logged : logged'[r] = logged[r]
    BY <1>1, <1>5, StartRunTyped
  <2>3. Serving(s)
    BY <1>5 DEF StartRun
  <2>4. \A r \in DOMAIN logged : logged[r].server = s /\ Working(r) => r \in RunningOn(s)
    BY <1>1, <2>3 DEF ServersKnown, Working, RunningOn, Serving
  <2>5. ASSUME NEW q \in DOMAIN logged', NEW r \in DOMAIN logged', q # r, logged'[q].server = logged'[r].server, Working(q)', Working(r)'
        PROVE  {q, r} \subseteq mixed'
    <3>1. CASE q = n \/ r = n
      BY <1>3, <2>1, <2>2, <2>4, <2>5, <3>1
    <3>2. CASE q \in DOMAIN logged /\ r \in DOMAIN logged
      BY <1>1, <1>3, <2>1, <2>2, <2>5, <3>2 DEF Beside
    <3> QED BY <2>1, <3>1, <3>2
  <2> QED BY <2>5 DEF Beside
<1> QED BY <1>1, <1>4, <1>5, SameRuns

LEMMA SinceStep ==
  ASSUME LogsInv, [LogsNext]_logVars
  PROVE  Since'
<1>1. LogsTyped /\ ServersKnown /\ Beside /\ Since
  BY DEF LogsInv
<1>2. Grown
  BY <1>1, LogsStep
<1>3. ASSUME NEW r \in DOMAIN logged, logged'[r].pc = "running", NEW i \in DOMAIN memory'[logged'[r].server], i > logged'[r].base
      PROVE  memory'[logged'[r].server][i].run \in mixed'
  <2> DEFINE s == logged[r].server
  <2>1. /\ logged[r].pc = "running" /\ logged'[r].server = s /\ logged'[r].base = logged[r].base
        /\ mixed \subseteq mixed' /\ s \in LogServers /\ Working(r)
    BY <1>1, <1>2, <1>3, RunTypes DEF Grown, Becomes, Runs, Working
  <2>2. \A k \in DOMAIN memory[s] : k > logged[r].base => memory[s][k].run \in mixed
    BY <1>1, <2>1 DEF Since
  <2>3. logServer[s].pc = "up"
    BY <1>1, <2>1 DEF ServersKnown
  <2> HIDE DEF s
  <2>4. CASE Shrunk(s)
    BY <1>3, <2>1, <2>2, <2>4 DEF Shrunk
  <2>5. CASE Added(s)
    <3>1. PICK q \in DOMAIN logged, b \in BOOLEAN :
            /\ memory'[s] = Append(memory[s], [run |-> q, failed |-> b]) /\ logged[q].server = s
            /\ \/ b /\ logged[q].pc = "running" /\ logged'[q].pc = "failed"
               \/ ~b /\ logged[q].pc = "ok" /\ logged'[q].pc = "done"
      BY <2>5 DEF Added
    <3>2. q # r /\ Working(q) /\ q \in Nat
      BY <1>1, <1>3, <3>1, RunTypes DEF Working
    <3>3. q \in mixed
      BY <1>1, <2>1, <3>1, <3>2 DEF Beside, s
    <3>4. CASE i \in DOMAIN memory[s]
      <4>1. memory'[s][i] = memory[s][i]
        BY <1>1, <2>1, <3>1, <3>2, <3>4, LogProperties
      <4> QED BY <1>3, <2>1, <2>2, <3>4, <4>1
    <3>5. CASE i = Len(memory[s]) + 1
      <4>1. memory'[s][i] = [run |-> q, failed |-> b]
        BY <1>1, <2>1, <3>1, <3>2, <3>5, LogProperties
      <4> QED BY <2>1, <3>3, <4>1
    <3>6. i \in DOMAIN memory[s] \/ i = Len(memory[s]) + 1
      BY <1>1, <1>3, <2>1, <3>1, <3>2, LogProperties
    <3> QED BY <3>4, <3>5, <3>6
  <2>6. CASE Replayed(s)
    BY <2>3, <2>6 DEF Replayed
  <2> QED BY <1>1, <2>1, <2>4, <2>5, <2>6, MemoryStep
<1>4. CASE DOMAIN logged' = DOMAIN logged
  BY <1>3, <1>4 DEF Since
<1>5. ASSUME NEW s \in LogServers, StartRun(s) PROVE Since'
  <2>1. PICK n \in DOMAIN logged' :
          /\ DOMAIN logged' = DOMAIN logged \union {n}
          /\ logged'[n].server = s /\ logged'[n].base = Len(memory[s])
    BY <1>1, <1>5, StartRunTyped
  <2>2. memory' = memory
    BY <1>5 DEF StartRun
  <2>3. ~\E i \in DOMAIN memory[s] : i > Len(memory[s])
    BY <1>1, ServerType
  <2> QED BY <1>3, <2>1, <2>2, <2>3 DEF Since
<1> QED BY <1>1, <1>4, <1>5, SameRuns

LEMMA PastStep ==
  ASSUME LogsInv, [LogsNext]_logVars
  PROVE  Past'
<1>1. LogsTyped /\ ServersKnown /\ Recorded /\ Past
  BY DEF LogsInv
<1>2. Grown
  BY <1>1, LogsStep
<1>3. \A q \in DOMAIN logged : /\ q \in DOMAIN logged' /\ logged'[q].at = logged[q].at /\ logged[q].at \in Nat
                               /\ logged[q].pc \in {"failed", "done"} => logged'[q].pc \in {"failed", "done"}
                               /\ logged[q].at < logTime /\ fence <= fence' /\ fence \in Nat
  BY <1>1, <1>2, RunTypes DEF Grown, Becomes, LogsTyped, Runs
<1>4. fence' \in Nat
  BY <1>1, LogsStep DEF LogsTyped
<1>5. CASE clearedRuns' = clearedRuns
  BY <1>1, <1>3, <1>4, <1>5 DEF Past
<1>6. ASSUME NEW s \in LogServers, ClearReport(s) PROVE Past'
  <2> DEFINE gone == {memory[s][i].run : i \in DOMAIN memory[s]}
  <2>1. clearedRuns' = [clearedRuns EXCEPT ![s] = @ \union gone] /\ fence' = logTime
    BY <1>6 DEF ClearReport
  <2>2. gone \subseteq DOMAIN logged /\ \A q \in gone : logged[q].pc \in {"failed", "done"}
    BY <1>1 DEF Recorded, IsRecord
  <2> HIDE DEF gone
  <2>3. clearedRuns' \in [LogServers -> SUBSET DOMAIN logged']
    BY <1>1, <1>3, <2>1, <2>2 DEF Past
  <2>4. ASSUME NEW t \in LogServers, NEW q \in clearedRuns'[t] PROVE logged'[q].pc \in {"failed", "done"} /\ logged'[q].at < fence'
    <3>1. q \in clearedRuns[t] \/ q \in gone
      BY <1>1, <2>1, <2>4 DEF Past
    <3>2. CASE q \in gone
      BY <1>3, <2>1, <2>2, <3>2
    <3>3. CASE q \in clearedRuns[t]
      BY <1>1, <1>3, <1>4, <3>3 DEF Past
    <3> QED BY <3>1, <3>2, <3>3
  <2> QED BY <2>3, <2>4 DEF Past
<1>7. ASSUME NEW s \in LogServers, NEW r \in DOMAIN logged, NEW failed \in BOOLEAN, EndRun(s, r, failed) PROVE clearedRuns' = clearedRuns
  BY <1>7, EndRunWrites
<1>8. ASSUME NEW s \in LogServers,
             \/ StartRun(s) \/ _enforce_retention(s) \/ RewriteIndex(s) \/ FlushEnds(s) \/ Crash(s) \/ Start(s)
             \/ recover_crashed_sessions(s) \/ deferred_initialize(s)
      PROVE  clearedRuns' = clearedRuns
  BY <1>8 DEF StartRun, _enforce_retention, RewriteIndex, FlushEnds, Crash, Start, recover_crashed_sessions, deferred_initialize, histories
<1>9. CampaignEnds \/ OrphanEnds \/ UNCHANGED logVars => clearedRuns' = clearedRuns
  BY DEF CampaignEnds, OrphanEnds, logVars, histories
<1> QED BY <1>5, <1>6, <1>7, <1>8, <1>9 DEF LogsNext

(* What the logs promise *)

LEMMA CampaignKeptStep ==
  ASSUME LogsInv, [LogsNext]_logVars
  PROVE  CampaignKept'
<1>1. LogsTyped /\ ServersKnown /\ CampaignKept
  BY DEF LogsInv
<1>2. CASE evicted' = evicted
  BY <1>1, <1>2 DEF CampaignKept
<1>3. ASSUME NEW s \in LogServers, _enforce_retention(s) PROVE CampaignKept'
  <2>1. /\ logServer[s].flush.pc = "scan"
        /\ \A e \in evicted' : e \in evicted \/ \E c \in campaigning \ Protected(s) : e = <<c, s, logServer[s].pc>>
    BY <1>1, <1>3, RetentionTyped
  <2>2. logServer[s].pc \in {"recovering", "up"}
    BY <1>1, <2>1, ServerType DEF ServersKnown, Servers
  <2>3. ASSUME NEW c \in campaigning \ Protected(s) PROVE c \in CampaignsOf[s] => logServer[s].pc = "recovering"
    BY <2>2 DEF Protected
  <2>4. ASSUME NEW e \in evicted', e[1] \in CampaignsOf[e[2]] PROVE e[3] = "recovering"
    <3>1. CASE e \in evicted
      BY <1>1, <2>4, <3>1 DEF CampaignKept
    <3>2. CASE e \notin evicted
      <4>1. PICK c \in campaigning \ Protected(s) : e = <<c, s, logServer[s].pc>>
        BY <2>1, <3>2
      <4> QED BY <2>3, <2>4, <4>1
    <3> QED BY <3>1, <3>2
  <2> QED BY <2>4 DEF CampaignKept
<1>4. ASSUME NEW s \in LogServers, NEW r \in DOMAIN logged, NEW failed \in BOOLEAN, EndRun(s, r, failed) PROVE evicted' = evicted
  BY <1>4, EndRunWrites
<1>5. ASSUME NEW s \in LogServers,
             \/ StartRun(s) \/ RewriteIndex(s) \/ FlushEnds(s) \/ ClearReport(s) \/ Crash(s) \/ Start(s)
             \/ recover_crashed_sessions(s) \/ deferred_initialize(s)
      PROVE  evicted' = evicted
  BY <1>5 DEF StartRun, RewriteIndex, FlushEnds, ClearReport, Crash, Start, recover_crashed_sessions, deferred_initialize, histories
<1>6. CampaignEnds \/ OrphanEnds \/ UNCHANGED logVars => evicted' = evicted
  BY DEF CampaignEnds, OrphanEnds, logVars, histories
<1> QED BY <1>2, <1>3, <1>4, <1>5, <1>6 DEF LogsNext

\* What a replay takes for the record of a run has a line in the index for each time it is met, not from before the fence.
LEMMA ReplayedFrom ==
  ASSUME LogsInv, NEW s \in LogServers, Replayed(s), NEW i \in DOMAIN memory'[s]
  PROVE  LET q == memory'[s][i].run
         IN  /\ q \in DOMAIN logged
             /\ q \notin mixed => \E k \in DOMAIN index : /\ index[k].at >= fence /\ index[k].dir = logged[q].name
                                                           /\ index[k].dir <= MaxLogged
<1>1. LogsTyped /\ Recorded
  BY DEF LogsInv
<1>2. PICK k \in DOMAIN index, d \in DOMAIN logDirs :
        /\ index[k].at >= fence /\ logDirs[d].name = index[k].dir
        /\ logDirs[d].audit.run # 0 /\ memory'[s][i] = logDirs[d].audit
  BY DEF Replayed
<1>3. IsPlaced(logDirs[d], logged, mixed)
  BY <1>1 DEF Recorded
<1> QED BY <1>2, <1>3 DEF IsPlaced, IsRecord

LEMMA CountedOnceStep ==
  ASSUME LogsInv, [LogsNext]_logVars
  PROVE  CountedOnce'
<1>1. LogsTyped /\ ServersKnown /\ Recorded /\ Indexed /\ CountedOnce
  BY DEF LogsInv
<1>2. Grown
  BY <1>1, LogsStep
<1>3. \A q \in DOMAIN logged : Excused(q) => Excused(q)'
  BY <1>1, <1>2, GrownKeeps
<1>4. ASSUME NEW s \in LogServers, NEW i \in DOMAIN memory'[s], NEW j \in DOMAIN memory'[s], i # j, memory'[s][i] = memory'[s][j]
      PROVE  LET q == memory'[s][i].run IN q \in DOMAIN logged /\ Excused(q)
  <2>1. ASSUME NEW k \in DOMAIN memory[s], NEW l \in DOMAIN memory[s], k # l, memory[s][k] = memory[s][l]
        PROVE  LET q == memory[s][k].run IN q \in DOMAIN logged /\ Excused(q)
    BY <1>1, <2>1 DEF CountedOnce, Excused, Recorded, IsRecord
  <2>2. CASE Shrunk(s)
    BY <1>4, <2>1, <2>2 DEF Shrunk
  <2>3. CASE Added(s)
    <3>1. PICK r \in DOMAIN logged, b \in BOOLEAN :
            /\ memory'[s] = Append(memory[s], [run |-> r, failed |-> b]) /\ logged[r].pc \in {"running", "ok"}
      BY <2>3 DEF Added
    <3>2. r \in Nat
      BY <1>1, RunTypes
    <3>3. /\ \A k \in DOMAIN memory[s] : memory'[s][k] = memory[s][k]
          /\ memory'[s][Len(memory[s]) + 1] = [run |-> r, failed |-> b]
          /\ \A k \in DOMAIN memory'[s] : k \in DOMAIN memory[s] \/ k = Len(memory[s]) + 1
      BY <1>1, <3>1, <3>2, LogProperties
    <3>4. \A k \in DOMAIN memory[s] : memory[s][k].run # r
      BY <1>1, <3>1 DEF Recorded, IsRecord
    <3>5. i \in DOMAIN memory[s] /\ j \in DOMAIN memory[s]
      BY <1>4, <3>3, <3>4
    <3> QED BY <1>4, <2>1, <3>3, <3>5
  <2>4. CASE Replayed(s)
    <3> DEFINE q == memory'[s][i].run
    <3>1. PICK f \in InOrder(Entries(fence)) :
            /\ DOMAIN memory'[s] = DOMAIN f
            /\ \A k, l \in DOMAIN f : k # l => f[k] # f[l]
            /\ \A k \in DOMAIN f :
                 /\ f[k] \in DOMAIN index
                 /\ \E d \in DOMAIN logDirs : /\ logDirs[d].name = index[f[k]].dir
                                              /\ logDirs[d].audit.run # 0
                                              /\ memory'[s][k] = logDirs[d].audit
      BY <2>4 DEF Replayed
    <3>2. ASSUME NEW k \in {i, j}
          PROVE  q \in DOMAIN logged /\ (q \in mixed \/ (index[f[k]].dir = logged[q].name /\ index[f[k]].dir <= MaxLogged))
      <4>1. PICK d \in DOMAIN logDirs : /\ logDirs[d].name = index[f[k]].dir
                                        /\ logDirs[d].audit.run # 0 /\ memory'[s][k] = logDirs[d].audit
        BY <3>1
      <4>2. IsPlaced(logDirs[d], logged, mixed) /\ q = logDirs[d].audit.run
        BY <1>1, <1>4, <4>1 DEF Recorded
      <4> HIDE DEF q
      <4> QED BY <4>1, <4>2 DEF IsPlaced, IsRecord
    <3>3. f[i] \in DOMAIN index /\ f[j] \in DOMAIN index /\ f[i] # f[j]
      BY <1>4, <3>1
    <3> HIDE DEF q
    <3>4. q \in mixed \/ Resumed(logged[q].name)
      BY <1>1, <3>2, <3>3 DEF Indexed
    <3> QED BY <3>2, <3>4 DEF Excused, q
  <2> QED BY <1>1, <2>2, <2>3, <2>4, MemoryStep
<1>5. ASSUME NEW s \in LogServers, NEW i \in DOMAIN memory'[s], NEW j \in DOMAIN memory'[s], i # j, memory'[s][i] = memory'[s][j]
      PROVE  Excused(memory[s][i].run)'
  <2>1. PICK q : q = memory'[s][i].run
    OBVIOUS
  <2>2. Excused(q)'
    BY <1>3, <1>4, <1>5, <2>1
  <2> QED BY <2>1, <2>2 DEF Excused
<1> QED BY <1>5 DEF CountedOnce, Excused

LEMMA ClearedStaysStep ==
  ASSUME LogsInv, [LogsNext]_logVars
  PROVE  ClearedStays'
<1>1. LogsTyped /\ ServersKnown /\ Recorded /\ Indexed /\ Past /\ ClearedStays
  BY DEF LogsInv
<1>2. Grown
  BY <1>1, LogsStep
<1>3. \A q \in DOMAIN logged : Excused(q) => Excused(q)'
  BY <1>1, <1>2, GrownKeeps
<1>4. \A s \in LogServers : memory'[s] = <<>> \/ clearedRuns'[s] = clearedRuns[s]
  <2>1. ASSUME NEW s \in LogServers, ClearReport(s), NEW t \in LogServers PROVE memory'[t] = <<>> \/ clearedRuns'[t] = clearedRuns[t]
    <3>1. CASE t = s
      BY <1>1, <2>1, <3>1, ClearTyped
    <3>2. CASE t # s
      BY <1>1, <2>1, <3>2 DEF ClearReport, Past
    <3> QED BY <3>1, <3>2
  <2>2. ASSUME NEW s \in LogServers, NEW r \in DOMAIN logged, NEW failed \in BOOLEAN, EndRun(s, r, failed) PROVE clearedRuns' = clearedRuns
    BY <2>2, EndRunWrites
  <2>3. ASSUME NEW s \in LogServers,
               \/ StartRun(s) \/ _enforce_retention(s) \/ RewriteIndex(s) \/ FlushEnds(s) \/ Crash(s) \/ Start(s)
               \/ recover_crashed_sessions(s) \/ deferred_initialize(s)
        PROVE  clearedRuns' = clearedRuns
    BY <2>3 DEF StartRun, _enforce_retention, RewriteIndex, FlushEnds, Crash, Start, recover_crashed_sessions, deferred_initialize, histories
  <2>4. CampaignEnds \/ OrphanEnds \/ UNCHANGED logVars => clearedRuns' = clearedRuns
    BY DEF CampaignEnds, OrphanEnds, logVars, histories
  <2> QED BY <2>1, <2>2, <2>3, <2>4 DEF LogsNext
<1>5. ASSUME NEW s \in LogServers, NEW i \in DOMAIN memory'[s], memory'[s][i].run \in clearedRuns'[s]
      PROVE  LET q == memory'[s][i].run IN q \in DOMAIN logged /\ Excused(q)
  <2> DEFINE q == memory'[s][i].run
  <2>1. q \in clearedRuns[s]
    <3>1. memory'[s] # <<>>
      BY <1>5
    <3> QED BY <1>4, <1>5, <3>1
  <2>2. q \in DOMAIN logged /\ logged[q].pc \in {"failed", "done"} /\ logged[q].at < fence
    BY <1>1, <2>1 DEF Past
  <2>3. CASE Shrunk(s)
    <3>1. i \in DOMAIN memory[s] /\ memory[s][i].run = q
      BY <2>3 DEF Shrunk
    <3> HIDE DEF q
    <3>2. Excused(q)
      BY <1>1, <2>1, <3>1 DEF ClearedStays, Excused
    <3> QED BY <2>2, <3>2 DEF q
  <2>4. CASE Added(s)
    <3>1. PICK r \in DOMAIN logged, b \in BOOLEAN :
            /\ memory'[s] = Append(memory[s], [run |-> r, failed |-> b]) /\ logged[r].pc \in {"running", "ok"}
      BY <2>4 DEF Added
    <3>2. r \in Nat
      BY <1>1, RunTypes
    <3>3. /\ \A k \in DOMAIN memory[s] : memory'[s][k] = memory[s][k]
          /\ memory'[s][Len(memory[s]) + 1] = [run |-> r, failed |-> b]
          /\ \A k \in DOMAIN memory'[s] : k \in DOMAIN memory[s] \/ k = Len(memory[s]) + 1
      BY <1>1, <3>1, <3>2, LogProperties
    <3>4. i \in DOMAIN memory[s]
      <4>1. i = Len(memory[s]) + 1 => q = r
        BY <3>3
      <4> HIDE DEF q
      <4> QED BY <2>2, <3>1, <3>3, <4>1
    <3>5. memory[s][i].run = q
      BY <3>3, <3>4
    <3> HIDE DEF q
    <3>6. Excused(q)
      BY <1>1, <2>1, <3>4, <3>5 DEF ClearedStays, Excused
    <3> QED BY <2>2, <3>6 DEF q
  <2>5. CASE Replayed(s)
    <3>1. CASE q \in mixed
      BY <2>2, <3>1 DEF Excused
    <3>2. CASE q \notin mixed
      <4>1. PICK k \in DOMAIN index : index[k].at >= fence /\ index[k].dir = logged[q].name /\ index[k].dir <= MaxLogged
        BY <2>5, <3>2, ReplayedFrom
      <4> HIDE DEF q
      <4>2. PICK p \in DOMAIN logged : index[k].at = logged[p].at /\ index[k].dir = logged[p].name
        BY <1>1, <4>1 DEF Indexed, OfRun
      <4>3. p # q
        <5>1. logged[q].at \in Nat /\ fence \in Nat
          BY <1>1, <2>2, RunTypes DEF Runs, LogsTyped
        <5> QED BY <2>2, <4>1, <4>2, <5>1
      <4>4. Resumed(logged[q].name)
        BY <2>2, <4>1, <4>2, <4>3 DEF Resumed
      <4> QED BY <2>2, <4>4 DEF Excused, q
    <3> QED BY <3>1, <3>2
  <2> QED BY <1>1, <2>3, <2>4, <2>5, MemoryStep
<1>6. ASSUME NEW s \in LogServers, NEW i \in DOMAIN memory'[s], memory'[s][i].run \in clearedRuns'[s]
      PROVE  Excused(memory[s][i].run)'
  <2>1. PICK q : q = memory'[s][i].run
    OBVIOUS
  <2>2. Excused(q)'
    BY <1>3, <1>5, <1>6, <2>1
  <2> QED BY <2>1, <2>2 DEF Excused
<1> QED BY <1>6 DEF ClearedStays, Excused

(* The index *)

\* A line that is added is of a run that has just ended, or of a session of a recovery.
LEMMA IndexedStep ==
  ASSUME LogsInv, [LogsNext]_logVars
  PROVE  Indexed'
<1>1. LogsTyped /\ ServersKnown /\ Indexed
  BY DEF LogsInv
<1>2. Grown /\ LogsTyped'
  BY <1>1, LogsStep
<1>3. /\ \A l : OfRun(l, logged) => OfRun(l, logged')
      /\ \A n : Resumed(n) => Resumed(n)'
  BY <1>1, <1>2, GrownKeeps
<1>4. CASE index' = index
  BY <1>1, <1>3, <1>4 DEF Indexed
<1>5. ASSUME NEW line \in Lines, index' = Append(index, line), line.dir <= MaxLogged => OfRun(line, logged'),
             \A i \in DOMAIN index : index[i].dir = line.dir /\ line.dir <= MaxLogged => Resumed(line.dir)'
      PROVE  Indexed'
  <2>1. index \in Seq(Lines)
    BY <1>1 DEF LogsTyped
  <2>2. /\ index' \in Seq(Lines) /\ Len(index') = Len(index) + 1
        /\ \A i \in 1..Len(index) : index'[i] = index[i]
        /\ index'[Len(index) + 1] = line
    BY <1>5, <2>1, AppendProperties
  <2>3. \A i \in DOMAIN index' : (i \in DOMAIN index /\ index'[i] = index[i]) \/ (i = Len(index) + 1 /\ index'[i] = line)
    BY <2>1, <2>2, LenProperties
  <2>4. ASSUME NEW i \in DOMAIN index', index'[i].dir <= MaxLogged PROVE OfRun(index'[i], logged')
    BY <1>1, <1>3, <1>5, <2>3, <2>4 DEF Indexed
  <2>5. ASSUME NEW i \in DOMAIN index', NEW j \in DOMAIN index', i # j, index'[i].dir = index'[j].dir, index'[i].dir <= MaxLogged
        PROVE  Resumed(index[i].dir)'
    <3>1. PICK n : n = index'[i].dir
      OBVIOUS
    <3>2. Resumed(n)'
      <4>1. CASE i \in DOMAIN index /\ j \in DOMAIN index
        <5>1. index'[i] = index[i] /\ index'[j] = index[j]
          BY <2>1, <2>2, <4>1, LenProperties
        <5>2. Resumed(index[i].dir) /\ n = index[i].dir
          BY <1>1, <2>5, <3>1, <4>1, <5>1 DEF Indexed
        <5>3. Resumed(n)
          BY <5>2
        <5> QED BY <1>3, <5>3
      <4>2. CASE i = Len(index) + 1 \/ j = Len(index) + 1
        <5>1. n = line.dir
          BY <2>2, <2>5, <3>1, <4>2
        <5>2. \E k \in DOMAIN index : index[k].dir = line.dir
          BY <2>3, <2>5, <3>1, <4>2, <5>1
        <5>3. line.dir <= MaxLogged
          BY <2>5, <3>1, <5>1
        <5> QED BY <1>5, <5>1, <5>2, <5>3
      <4> QED BY <2>3, <4>1, <4>2
    <3> QED BY <3>1, <3>2 DEF Resumed
  <2> QED BY <2>4, <2>5 DEF Indexed
<1>6. ASSUME NEW s \in LogServers, NEW r \in DOMAIN logged, NEW failed \in BOOLEAN, EndRun(s, r, failed) PROVE Indexed'
  <2>0. PICK line : line = [dir |-> logged[r].name, at |-> logged[r].at]
    OBVIOUS
  <2>1. /\ logged[r].pc = "running" /\ r \in DOMAIN logged' /\ logged'[r].pc \in {"ok", "failed"}
        /\ \A q \in DOMAIN logged \ {r} : logged'[q] = logged[q]
    BY <1>1, <1>6, EndRunTyped
  <2>2. index' = Append(index, line) \/ index' = index
    BY <1>6, <2>0, EndRunWrites
  <2>3. line \in Lines /\ line.dir = logged[r].name /\ line.at = logged[r].at
    BY <1>1, <2>0, RunTypes DEF Lines, Runs
  <2>4. logged'[r].name = logged[r].name /\ logged'[r].at = logged[r].at
    BY <1>2 DEF Grown
  <2>5. OfRun(line, logged')
    BY <2>1, <2>3, <2>4 DEF OfRun
  <2>6. ASSUME NEW i \in DOMAIN index, index[i].dir = line.dir, line.dir <= MaxLogged PROVE Resumed(line.dir)'
    <3>1. PICK q \in DOMAIN logged : index[i].dir = logged[q].name /\ logged[q].pc \in {"ok", "failed", "done"}
      BY <1>1, <2>6 DEF Indexed, OfRun
    <3>2. q # r /\ logged[q].name = line.dir
      BY <2>1, <2>6, <3>1
    <3>3. Resumed(line.dir)
      BY <2>3, <3>2 DEF Resumed
    <3> QED BY <1>3, <3>3
  <2> QED BY <1>4, <1>5, <2>2, <2>3, <2>5, <2>6
<1>7. ASSUME NEW s \in LogServers, recover_crashed_sessions(s) PROVE Indexed'
  <2>1. ASSUME NEW r \in DOMAIN logged, r > 0, index' = Append(index, [dir |-> MaxLogged + r, at |-> logged[r].at]) PROVE Indexed'
    <3> DEFINE line == [dir |-> MaxLogged + r, at |-> logged[r].at]
    <3>1. line \in Lines /\ ~(line.dir <= MaxLogged) /\ index' = Append(index, line)
      BY <1>1, <2>1, RunTypes DEF Lines, Runs
    <3> HIDE DEF line
    <3> QED BY <1>5, <3>1
  <2>2. index' = index \/ \E r \in DOMAIN logged : r > 0 /\ index' = Append(index, [dir |-> MaxLogged + r, at |-> logged[r].at])
    BY <1>1, <1>7, RecoverTyped
  <2> QED BY <1>4, <2>1, <2>2
<1>8. ASSUME NEW s \in LogServers, RewriteIndex(s) PROVE Indexed'
  <2>1. logged' = logged
    BY <1>8 DEF RewriteIndex
  <2>2. /\ \A i \in DOMAIN index' : \E j \in DOMAIN index : index'[i] = index[j]
        /\ \A i, j \in DOMAIN index' : i # j =>
             \E k, l \in DOMAIN index : k # l /\ index'[i] = index[k] /\ index'[j] = index[l]
    BY <1>1, <1>8, RewriteTyped
  <2>3. \A i \in DOMAIN index' : index'[i].dir <= MaxLogged => OfRun(index'[i], logged')
    BY <1>1, <2>1, <2>2 DEF Indexed
  <2>4. \A i, j \in DOMAIN index' :
          i # j /\ index'[i].dir = index'[j].dir /\ index'[i].dir <= MaxLogged => \E k \in DOMAIN index : index'[i] = index[k] /\ Resumed(index[k].dir)
    BY <1>1, <2>2 DEF Indexed
  <2> QED BY <2>1, <2>3, <2>4 DEF Indexed, Resumed
<1>9. ASSUME NEW s \in LogServers,
             \/ StartRun(s) \/ _enforce_retention(s) \/ FlushEnds(s) \/ ClearReport(s) \/ Crash(s) \/ Start(s) \/ deferred_initialize(s)
      PROVE  index' = index
  BY <1>9 DEF StartRun, _enforce_retention, FlushEnds, ClearReport, Crash, Start, deferred_initialize
<1>10. CampaignEnds \/ OrphanEnds \/ UNCHANGED logVars => index' = index
  BY DEF CampaignEnds, OrphanEnds, logVars
<1> QED BY <1>4, <1>6, <1>7, <1>8, <1>9, <1>10 DEF LogsNext

\* A session is in the index, and spared by a rewrite under way, unless a flush was beside another's, or cut off.
LEMMA InIndexStep ==
  ASSUME LogsInv, [LogsNext]_logVars
  PROVE  InIndex'
<1>1. LogsTyped /\ ServersKnown /\ InIndex
  BY DEF LogsInv
<1> DEFINE Line(n) == \E i \in DOMAIN index' : index'[i].dir = n
           Spared(n) == \A t \in LogServers : logServer'[t].flush.pc = "rewrite" => n \in logServer'[t].flush.keep
           Spares(t, n) == logServer[t].flush.pc = "rewrite" => n \in logServer[t].flush.keep
<1>2. /\ \A n \in DirNames \ torn : \E i \in DOMAIN index : index[i].dir = n
      /\ \A n \in DirNames \ torn : \A t \in LogServers : Spares(t, n)
  BY <1>1 DEF InIndex
<1>3. SUFFICES \A n \in DirNames' \ torn' : Line(n) /\ Spared(n)
  BY DEF InIndex
<1>4. ASSUME DirNames' \subseteq DirNames, torn \subseteq torn', index' = index,
             \A t \in LogServers : logServer'[t].flush.pc = "rewrite" =>
                                     logServer[t].flush.pc = "rewrite" /\ logServer'[t].flush.keep = logServer[t].flush.keep
      PROVE  \A n \in DirNames' \ torn' : Line(n) /\ Spared(n)
  BY <1>2, <1>4
<1>5. ASSUME NEW s \in LogServers, NEW name, DirNames' \subseteq DirNames \union {name}, torn \subseteq torn',
             \/ name \in torn' /\ index' = index
             \/ \E l \in Lines : index' = Append(index, l) /\ l.dir = name /\ (name \in torn' \/ Others(s) = {}),
             logServer'[s].flush.pc # "rewrite", \A t \in LogServers \ {s} : logServer'[t] = logServer[t]
      PROVE  \A n \in DirNames' \ torn' : Line(n) /\ Spared(n)
  <2>1. index \in Seq(Lines)
    BY <1>1 DEF LogsTyped
  <2>2. /\ \A i \in DOMAIN index : i \in DOMAIN index' /\ index'[i] = index[i]
        /\ name \in torn' \/ (Line(name) /\ Others(s) = {})
    <3>1. CASE index' = index /\ name \in torn'
      BY <3>1
    <3>2. ASSUME NEW l \in Lines, index' = Append(index, l), l.dir = name, name \in torn' \/ Others(s) = {}
          PROVE  /\ \A i \in DOMAIN index : i \in DOMAIN index' /\ index'[i] = index[i]
                 /\ name \in torn' \/ (Line(name) /\ Others(s) = {})
      <4>1. /\ index' \in Seq(Lines) /\ Len(index') = Len(index) + 1
            /\ \A i \in 1..Len(index) : index'[i] = index[i]
            /\ index'[Len(index) + 1] = l
        BY <2>1, <3>2, AppendProperties
      <4>2. DOMAIN index = 1..Len(index) /\ DOMAIN index' = 1..(Len(index) + 1) /\ Len(index) \in Nat
        BY <2>1, <4>1, LenProperties
      <4>3. Line(name)
        BY <3>2, <4>1, <4>2
      <4> QED BY <3>2, <4>1, <4>2, <4>3
    <3> QED BY <1>5, <3>1, <3>2
  <2>3. ASSUME NEW n \in DirNames' \ torn', n # name PROVE Line(n) /\ Spared(n)
    <3>1. n \in DirNames \ torn
      BY <1>5, <2>3
    <3>2. Line(n)
      BY <1>2, <2>2, <3>1
    <3>3. Spared(n)
      BY <1>2, <1>5, <3>1
    <3> QED BY <3>2, <3>3
  <2>4. ASSUME name \notin torn' PROVE Line(name) /\ Spared(name)
    <3>1. Line(name) /\ Others(s) = {}
      BY <2>2, <2>4
    <3>2. \A t \in LogServers \ {s} : logServer[t].flush.pc = "no"
      BY <3>1 DEF Others
    <3>3. Spared(name)
      BY <1>5, <3>2
    <3> QED BY <3>1, <3>3
  <2> QED BY <2>3, <2>4
<1> HIDE DEF Line, Spared, Spares
<1>6. ASSUME NEW s \in LogServers, NEW r \in DOMAIN logged, NEW failed \in BOOLEAN, EndRun(s, r, failed)
      PROVE  \A n \in DirNames' \ torn' : Line(n) /\ Spared(n)
  <2>1. PICK name : name = logged[r].name
    OBVIOUS
  <2>2. PICK l : l = [dir |-> logged[r].name, at |-> logged[r].at]
    OBVIOUS
  <2>3. name \in Nat /\ l \in Lines /\ l.dir = name /\ logged[r].campaign \in Campaigns /\ logDirs \in Seq(Directories)
    BY <1>1, <2>1, <2>2, RunTypes DEF Lines, Runs, LogsTyped
  <2>4. /\ Write(name, logged[r].campaign, Record(s, r, failed))
        /\ \/ index' = Append(index, l) /\ torn' = (IF Others(s) = {} THEN torn ELSE torn \union {name})
           \/ index' = index /\ torn' = torn \union {name}
    BY <1>6, <2>1, <2>2, EndRunWrites
  <2>5. DirNames' \subseteq DirNames \union {name}
    BY <1>1, <2>3, <2>4, LogTyped, WriteKeeps
  <2>6. logServer'[s].flush.pc # "rewrite" /\ \A t \in LogServers \ {s} : logServer'[t] = logServer[t]
    BY <1>1, <1>6, EndRunTyped
  <2>7. /\ torn \subseteq torn'
        /\ \/ name \in torn' /\ index' = index
           \/ \E k \in Lines : index' = Append(index, k) /\ k.dir = name /\ (name \in torn' \/ Others(s) = {})
    BY <2>3, <2>4
  <2> QED BY <1>5, <2>5, <2>6, <2>7
<1>7. ASSUME NEW s \in LogServers, recover_crashed_sessions(s)
      PROVE  \A n \in DirNames' \ torn' : Line(n) /\ Spared(n)
  <2>1. \A t \in LogServers \ {s} : logServer'[t] = logServer[t]
    BY <1>1, <1>7, RecoverTyped
  <2>2. CASE UNCHANGED <<index, logDirs, torn>> /\ logServer'[s].flush.pc = "no"
    <3>1. DirNames' = DirNames
      BY <2>2 DEF DirNames
    <3> QED BY <1>4, <2>1, <2>2, <3>1
  <2>3. ASSUME NEW r \in DOMAIN logged, logServer'[s].flush.pc = "scan", Write(MaxLogged + r, none, NoRecord),
               index' = Append(index, [dir |-> MaxLogged + r, at |-> logged[r].at]),
               torn' = IF Others(s) = {} THEN torn ELSE torn \union {MaxLogged + r}
        PROVE  \A n \in DirNames' \ torn' : Line(n) /\ Spared(n)
    <3>1. PICK name : name = MaxLogged + r
      OBVIOUS
    <3>2. PICK l : l = [dir |-> MaxLogged + r, at |-> logged[r].at]
      OBVIOUS
    <3>3. name \in Nat /\ l \in Lines /\ l.dir = name
      BY <1>1, <3>1, <3>2, RunTypes DEF Lines, Runs
    <3>4. none \in Campaigns /\ NoRecord \in Records /\ logDirs \in Seq(Directories)
      BY <1>1 DEF Campaigns, NoRecord, Records, LogsTyped
    <3>5. DirNames' \subseteq DirNames \union {name}
      BY <2>3, <3>1, <3>3, <3>4, WriteKeeps
    <3>6. /\ torn \subseteq torn'
          /\ \E k \in Lines : index' = Append(index, k) /\ k.dir = name /\ (name \in torn' \/ Others(s) = {})
      BY <2>3, <3>1, <3>2, <3>3
    <3> QED BY <1>5, <2>1, <2>3, <3>5, <3>6
  <2>4. \/ UNCHANGED <<index, logDirs, torn>> /\ logServer'[s].flush.pc = "no"
        \/ \E r \in DOMAIN logged :
             /\ logServer'[s].flush.pc = "scan" /\ Write(MaxLogged + r, none, NoRecord)
             /\ index' = Append(index, [dir |-> MaxLogged + r, at |-> logged[r].at])
             /\ torn' = IF Others(s) = {} THEN torn ELSE torn \union {MaxLogged + r}
    BY <1>1, <1>7, RecoverTyped
  <2> QED BY <2>2, <2>3, <2>4
\* What retention leaves it keeps; what it removes is not looked for.
<1>8. ASSUME NEW s \in LogServers, _enforce_retention(s)
      PROVE  \A n \in DirNames' \ torn' : Line(n) /\ Spared(n)
  <2>1. /\ \A t \in LogServers \ {s} : logServer'[t] = logServer[t]
        /\ \A i \in DOMAIN logDirs' : \E j \in DOMAIN logDirs : logDirs'[i] = logDirs[j]
        /\ logServer'[s].flush.pc = "rewrite" => DirNames' \subseteq logServer'[s].flush.keep
    BY <1>1, <1>8, RetentionTyped
  <2>2. index' = index /\ torn' = torn
    BY <1>8 DEF _enforce_retention
  <2>3. DirNames' \subseteq DirNames
    BY <2>1 DEF DirNames
  <2> QED BY <1>2, <2>1, <2>2, <2>3 DEF Line, Spared, Spares
<1>9. ASSUME NEW s \in LogServers, RewriteIndex(s)
      PROVE  \A n \in DirNames' \ torn' : Line(n) /\ Spared(n)
  <2>1. /\ logServer[s].flush.pc = "rewrite" /\ logServer'[s].flush.pc = "end"
        /\ \A t \in LogServers \ {s} : logServer'[t] = logServer[t]
        /\ \A i \in DOMAIN index : index[i].dir \in logServer[s].flush.keep => \E k \in DOMAIN index' : index'[k] = index[i]
    BY <1>1, <1>9, RewriteTyped
  <2>2. DirNames' = DirNames /\ torn' = torn
    BY <1>9 DEF RewriteIndex, DirNames, histories
  <2> QED BY <1>2, <2>1, <2>2 DEF Line, Spared, Spares
<1>10. ASSUME NEW s \in LogServers, Crash(s)
       PROVE  \A n \in DirNames' \ torn' : Line(n) /\ Spared(n)
  <2>1. /\ logServer'[s].flush.pc = "no" /\ \A t \in LogServers \ {s} : logServer'[t] = logServer[t]
    BY <1>1, <1>10, CrashTyped
  <2>2. index' = index /\ DirNames' = DirNames /\ torn \subseteq torn'
    BY <1>10 DEF Crash, DirNames
  <2> QED BY <1>4, <2>1, <2>2
<1>11. CASE /\ UNCHANGED <<index, logDirs, torn>>
            /\ \A t \in LogServers : logServer'[t].flush.pc = "no" \/ logServer'[t].flush = logServer[t].flush
  <2>1. DirNames' = DirNames
    BY <1>11 DEF DirNames
  <2> QED BY <1>4, <1>11, <2>1
<1>12. ASSUME NEW s \in LogServers, FlushEnds(s) \/ Start(s) \/ deferred_initialize(s)
       PROVE  /\ UNCHANGED <<index, logDirs, torn>>
              /\ \A t \in LogServers : logServer'[t].flush.pc = "no" \/ logServer'[t].flush = logServer[t].flush
  <2>1. UNCHANGED <<index, logDirs, torn>>
    BY <1>12 DEF FlushEnds, Start, deferred_initialize, histories
  <2>2. CASE FlushEnds(s)
    BY <1>1, <2>1, <2>2, FlushEndsTyped
  <2>3. CASE Start(s)
    BY <1>1, <2>1, <2>3, StartTyped
  <2>4. CASE deferred_initialize(s)
    BY <1>1, <2>1, <2>4, DeferredTyped
  <2> QED BY <1>12, <2>2, <2>3, <2>4
<1>13. ASSUME NEW s \in LogServers, StartRun(s) \/ ClearReport(s) PROVE UNCHANGED <<index, logDirs, torn, logServer>>
  BY <1>13 DEF StartRun, ClearReport
<1>14. CampaignEnds \/ OrphanEnds \/ UNCHANGED logVars => UNCHANGED <<index, logDirs, torn, logServer>>
  BY DEF CampaignEnds, OrphanEnds, logVars, histories
<1> QED BY <1>6, <1>7, <1>8, <1>9, <1>10, <1>11, <1>12, <1>13, <1>14 DEF LogsNext

\* The inductive invariant of the logs holds throughout.
THEOREM LogsInvariant == LogsSpec => []LogsInv
<1>1. LogsInv /\ [LogsNext]_logVars => LogsInv'
  <2> SUFFICES ASSUME LogsInv, [LogsNext]_logVars PROVE LogsInv'
    OBVIOUS
  <2>1. LogsTyped /\ ServersKnown
    BY DEF LogsInv
  <2>2. LogsTyped' /\ ServersKnown'
    BY <2>1, LogsStep, ServersStep
  <2>3. Recorded'
    BY RecordedInMemory, RecordedInDirectories DEF Recorded
  <2> QED BY <2>2, <2>3, BesideStep, SinceStep, IndexedStep, PastStep, InIndexStep,
             CampaignKeptStep, CountedOnceStep, ClearedStaysStep DEF LogsInv
<1> QED BY <1>1, LogsInitInv, PTL DEF LogsSpec

\* The session logs of every server: a campaign under way keeps its sessions, a session has its line,
\* a failure counts once, and what was cleared does not come back (session_log._enforce_retention and
\* recover_crashed_sessions, audit.load_from_log_dir).
THEOREM LogsAreSafe == LogsSpec => []LogsSafe
<1>1. LogsInv => LogsSafe
  BY DEF LogsInv, LogsSafe, Listed, InIndex
<1> QED BY <1>1, LogsInvariant, PTL
=============================================================================
