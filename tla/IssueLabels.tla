---------------------------- MODULE IssueLabels ----------------------------
(***************************************************************************)
(* claim_issue and release_issue: sessions agree on who works on an issue  *)
(* through its lifecycle labels.  A claim looks at the labels and then     *)
(* swaps them; a swap is a GET and a PUT of the whole set.  A plain        *)
(* session runs a recipe on the issue; an upfront session claims it as     *)
(* queued first, and lets the recipe re-enter the claim.                   *)
(***************************************************************************)
EXTENDS FiniteSets, Naturals

CONSTANTS Sessions,  \* pipeline sessions that may take the issue
          Kinds      \* the kinds of session to play

ASSUME LabelAssumption ==
  IsFiniteSet(Sessions) /\ Sessions # {} /\ Kinds \subseteq {"plain", "upfront"}

VARIABLES labels,   \* the lifecycle labels of the issue
          ses,      \* session -> its kind, its step and the swap it is making
          raced,    \* history: labels were put over labels not looked at
          crossed,  \* history: a claim was granted past a session of the other kind
          spoiled   \* history: a write was reported as failed

labelVars == <<labels, ses, raced, crossed, spoiled>>

IssueLabelState == {"queued", "in_progress", "staged", "fail"}

\* Mutant: staging does not take the claim away.
StagingKeepsClaim == [queued |-> {"fail"}, in_progress |-> {"queued", "fail"},
                      staged |-> {"fail", "queued"}, fail |-> {"in_progress", "queued"}]

removes_on_entry == [queued |-> {"fail"}, in_progress |-> {"queued", "fail"},
                     staged |-> {"in_progress", "fail", "queued"},
                     fail |-> {"in_progress", "queued"}]
NoLabel == "none"
LABEL_TRANSITIONS == [none |-> {"queued", "in_progress"},
                      queued |-> {"in_progress", NoLabel},
                      in_progress |-> {"staged", "fail", NoLabel},
                      staged |-> {}, fail |-> {"queued", "in_progress"}]
NoSwap == [add |-> {}, remove |-> {}, then |-> "over"]

LabelTypeOK ==
  /\ labels \subseteq IssueLabelState /\ {raced, crossed, spoiled} \subseteq BOOLEAN
  /\ ses \in [Sessions -> [kind : Kinds, pc : {"new", "get", "put", "queued", "work", "over"},
                           snap : SUBSET IssueLabelState, fresh : BOOLEAN,
                           swap : [add : SUBSET IssueLabelState, remove : SUBSET IssueLabelState,
                                   then : {"queued", "work", "over"}]]]

LabelInit ==
  /\ labels \in {{}} \union {{x} : x \in IssueLabelState}
  /\ ses \in [Sessions -> {[kind |-> k, pc |-> "new", snap |-> {}, fresh |-> TRUE,
                            swap |-> NoSwap] : k \in Kinds}]
  /\ raced = FALSE /\ crossed = FALSE /\ spoiled = FALSE

----------------------------------------------------------------------------

Is(s, p) == ses[s].pc = p
To(s, p) == ses' = [ses EXCEPT ![s].pc = p]
Swap(s, add, remove, then) ==
  ses' = [ses EXCEPT ![s].pc = "get",
                     ![s].fresh = IF ses[s].pc \in {"new", "queued"} THEN TRUE ELSE @,
                     ![s].swap = [add |-> add, remove |-> remove, then |-> then]]
Working == {s \in Sessions : ses[s].pc = "work"
                             \/ (ses[s].pc \in {"get", "put"} /\ ses[s].swap.then = "over"
                                 /\ ses[s].swap.add \subseteq {"staged", "fail"})}
Holding == Working \union {s \in Sessions : ses[s].pc = "queued"}

\* fetch_issue fails, the label is there (another session has it, unless this one
\* re-enters), or the claim goes on to its swap whatever ensure_label says.
Claim(s, label, allow_reentry, then) ==
  /\ \/ To(s, "over") /\ spoiled' = TRUE
     \/ label \in labels /\ ~allow_reentry /\ To(s, "over") /\ UNCHANGED spoiled
     \/ label \in labels /\ allow_reentry /\ To(s, then) /\ UNCHANGED spoiled
     \/ label \notin labels /\ Swap(s, {label}, removes_on_entry[label], then) /\ UNCHANGED spoiled
  /\ UNCHANGED <<labels, raced, crossed>>

ClaimIssue(s) ==
  /\ Is(s, "new")
  /\ IF ses[s].kind = "plain" THEN Claim(s, "in_progress", FALSE, "work")
                              ELSE Claim(s, "queued", FALSE, "queued")

\* The recipe of an upfront session claims again, re-entry allowed.
Reenter(s) == Is(s, "queued") /\ Claim(s, "in_progress", TRUE, "work")

\* Staged, failed or bare, the last also for an issue that was never dispatched.
ReleaseIssue(s) ==
  /\ \/ /\ Is(s, "work")
        /\ \/ \E label \in {"staged", "fail"} : Swap(s, {label}, removes_on_entry[label], "over")
           \/ Swap(s, {}, IssueLabelState, "over")
     \/ Is(s, "queued") /\ Swap(s, {}, IssueLabelState, "over")
  /\ UNCHANGED <<labels, raced, crossed, spoiled>>

\* ensure_label or the request fails before the swap: the session gives up.
GiveUp(s) ==
  /\ Is(s, "get") /\ To(s, "over") /\ spoiled' = TRUE
  /\ UNCHANGED <<labels, raced, crossed>>

SwapGet(s) ==
  /\ Is(s, "get")
  /\ ses' = [ses EXCEPT ![s].pc = "put", ![s].snap = labels,
                        ![s].fresh = @ \/ ses[s].swap.then = "over"]
  /\ UNCHANGED <<labels, raced, crossed, spoiled>>

\* The PUT replaces the whole set; one that reports failure may have done so too.
SwapPut(s) ==
  /\ Is(s, "put")
  /\ \E ok, done \in BOOLEAN :
       /\ ok => done
       /\ labels' = IF done THEN (ses[s].snap \ ses[s].swap.remove) \union ses[s].swap.add
                            ELSE labels
       /\ ses' = [t \in Sessions |->
                   IF t = s THEN [ses[s] EXCEPT !.pc = IF ok THEN ses[s].swap.then ELSE "over"]
                   ELSE IF done THEN [ses[t] EXCEPT !.fresh = FALSE] ELSE ses[t]]
       /\ raced' = (raced \/ (done /\ ~ses[s].fresh))
       /\ spoiled' = (spoiled \/ ~ok)
       /\ crossed' = (crossed \/ (ses[s].swap.add = {"queued"} /\ "in_progress" \in labels)
                       \/ (ses[s].swap.then # "over"
                           /\ \E t \in Holding \ {s} : ses[t].kind # ses[s].kind))

LabelNext ==
  \E s \in Sessions : \/ ClaimIssue(s) \/ Reenter(s) \/ ReleaseIssue(s)
                      \/ GiveUp(s) \/ SwapGet(s) \/ SwapPut(s)

LabelSpec == LabelInit /\ [][LabelNext]_labelVars

----------------------------------------------------------------------------

\* At most one session works on the issue.
OneWorker == Cardinality(Working) <= 1

\* The labels exclude a second worker, but for the holes they are known to have:
\* two swaps that overlap, and a claim of one kind past a session of the other.
ClaimsExclude == raced \/ crossed \/ OneWorker

\* When every session is over, none failed to write and none raced, the issue is
\* nobody's: it is not left queued or in progress but as it was found.
NothingLeftClaimed ==
  (\A s \in Sessions : ses[s].pc = "over" /\ ses[s].swap # NoSwap) /\ ~raced /\ ~spoiled
    => labels \intersect {"in_progress", "queued"} = {}

\* Two sessions never work on one issue, and none that is over still claims it.
ClaimsSound == LabelTypeOK /\ ClaimsExclude /\ NothingLeftClaimed
=============================================================================
