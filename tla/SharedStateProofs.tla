-------------------------- MODULE SharedStateProofs --------------------------
(***************************************************************************)
(* Proofs about what sessions share: the labels of an issue (for any       *)
(* sessions), the quota cache (for any windows and any times), the plugin  *)
(* cache (for any versions and installs), the clone registry (for any      *)
(* pipelines, owners, cleanups and scopes) and the kitchens (for any       *)
(* servers, projects and campaigns).                                       *)
(***************************************************************************)
EXTENDS IssueLabels, QuotaGuard, PluginCache, CloneCleanup, KitchenGate, FiniteSetTheorems, TLAPS

(***************************************************************************)
(* The labels.  While no swaps overlapped and no claim crossed one of the  *)
(* other kind, the issue has one owner: the session that holds it, gives   *)
(* it back, or re-enters its claim; and the labels bear the owner's mark,  *)
(* which is what makes every other claim stop.                             *)
(***************************************************************************)
Claimed == {"in_progress", "queued"}
Swapping(r) == r.pc \in {"get", "put"}

\* What the swap of a session may be.
SwapOK(r) ==
  /\ r.swap.then = "over" => r.swap.add \intersect Claimed = {} /\ Claimed \subseteq r.swap.remove
  /\ r.swap.then = "work" => r.swap.add = {"in_progress"}
  /\ r.swap.then = "queued" => r.swap.add = {"queued"} /\ r.kind = "upfront"
SessionOK(r) ==
  /\ r.pc = "new" => r.swap = NoSwap
  /\ r.pc = "queued" => r.kind = "upfront"
  /\ Swapping(r) => SwapOK(r)

\* What a session that no write came in between may rely on.
LooksOK(r, L) ==
  /\ r.pc = "put" /\ r.fresh => r.snap = L
  /\ Swapping(r) /\ r.swap.then # "over" /\ r.fresh => r.swap.add \intersect L = {}

Claimant(r) ==
  \/ r.pc \in {"work", "queued"}
  \/ Swapping(r) /\ r.swap.then = "over"
  \/ Swapping(r) /\ r.swap.then = "work" /\ r.kind = "upfront" /\ r.fresh
Marked(r, L) == IF r.kind = "plain" THEN "in_progress" \in L ELSE L \intersect Claimed # {}

SessionsOK == \A s \in Sessions : SessionOK(ses[s]) /\ LooksOK(ses[s], labels)
OwnersMark == raced \/ crossed \/ \A s \in Sessions : Claimant(ses[s]) => Marked(ses[s], labels)
OneOwner ==
  raced \/ crossed \/ \A s, t \in Sessions : Claimant(ses[s]) /\ Claimant(ses[t]) => s = t
LastClears ==
  \/ spoiled \/ labels \intersect Claimed = {}
  \/ \E s \in Sessions : ses[s].swap = NoSwap \/ ses[s].pc # "over"
LabelInv == LabelTypeOK /\ SessionsOK /\ OwnersMark /\ OneOwner /\ LastClears

Session == [kind : Kinds, pc : {"new", "get", "put", "queued", "work", "over"},
            snap : SUBSET IssueLabelState, fresh : BOOLEAN,
            swap : [add : SUBSET IssueLabelState, remove : SUBSET IssueLabelState,
                    then : {"queued", "work", "over"}]]

LEMMA SessionsTyped == LabelTypeOK => ses \in [Sessions -> Session]
BY DEF LabelTypeOK, Session

LEMMA LabelInitInv == LabelInit => LabelInv
<1> SUFFICES ASSUME LabelInit PROVE LabelInv
  OBVIOUS
<1>1. PICK k0 \in Sessions : TRUE
  BY LabelAssumption
<1>2. LabelTypeOK
  <2> DEFINE new(k) == [kind |-> k, pc |-> "new", snap |-> {}, fresh |-> TRUE, swap |-> NoSwap]
  <2>1. \A k \in Kinds : new(k) \in Session
    BY DEF Session, NoSwap
  <2>2. ses \in [Sessions -> {new(k) : k \in Kinds}]
    BY DEF LabelInit
  <2>3. ses \in [Sessions -> Session]
    <3> HIDE DEF new
    <3> QED BY <2>1, <2>2
  <2>4. labels \subseteq IssueLabelState
    BY DEF LabelInit
  <2> QED BY <2>3, <2>4 DEF LabelInit, LabelTypeOK, Session
<1>3. \A s \in Sessions : ses[s].pc = "new" /\ ses[s].swap = NoSwap
  BY DEF LabelInit
<1>4. SessionsOK /\ OwnersMark /\ OneOwner
  BY <1>3 DEF SessionsOK, OwnersMark, OneOwner, SessionOK, LooksOK, Claimant, Swapping
<1>5. LastClears
  BY <1>1, <1>3 DEF LastClears
<1> QED BY <1>2, <1>4, <1>5 DEF LabelInv

\* A step of s that leaves the labels alone: what its new record must satisfy.
LEMMA QuietStepKeeps ==
  ASSUME LabelInv, NEW s \in Sessions, NEW r \in Session,
         ses' = [ses EXCEPT ![s] = r], UNCHANGED <<labels, raced, crossed>>,
         spoiled' \in BOOLEAN, spoiled => spoiled',
         SessionOK(r), LooksOK(r, labels),
         Claimant(r) => Claimant(ses[s]) /\ r.kind = ses[s].kind,
         r.swap = NoSwap \/ r.pc # "over" \/ spoiled'
  PROVE  LabelInv'
<1>1. ses \in [Sessions -> Session]
  BY SessionsTyped DEF LabelInv
<1>2. ses'[s] = r /\ \A t \in Sessions \ {s} : ses'[t] = ses[t]
  BY <1>1
<1>3. LabelTypeOK'
  BY <1>1 DEF LabelInv, LabelTypeOK, Session
<1>4. SessionsOK'
  BY <1>2 DEF LabelInv, SessionsOK
<1>5. OwnersMark'
  <2> SUFFICES ASSUME ~raced, ~crossed, NEW t \in Sessions, Claimant(ses'[t])
               PROVE  Marked(ses'[t], labels)
    BY DEF OwnersMark
  <2>1. Claimant(ses[t]) /\ ses'[t].kind = ses[t].kind
    BY <1>2
  <2> QED BY <2>1 DEF LabelInv, OwnersMark, Marked
<1>6. OneOwner'
  BY <1>2 DEF LabelInv, OneOwner
<1>7. LastClears'
  BY <1>2 DEF LabelInv, LastClears
<1> QED BY <1>3, <1>4, <1>5, <1>6, <1>7 DEF LabelInv

LEMMA ClaimKeeps ==
  ASSUME LabelInv, NEW s \in Sessions,
         NEW label, NEW reentry \in BOOLEAN, NEW then, Claim(s, label, reentry, then),
         \/ Is(s, "new") /\ ~reentry /\ label = "in_progress" /\ then = "work"
              /\ ses[s].kind = "plain"
         \/ Is(s, "new") /\ ~reentry /\ label = "queued" /\ then = "queued"
              /\ ses[s].kind = "upfront"
         \/ Is(s, "queued") /\ reentry /\ label = "in_progress" /\ then = "work"
  PROVE  LabelInv'
<1>1. ses[s] \in Session
  BY SessionsTyped DEF LabelInv
<1>2. ses[s].pc \in {"new", "queued"} /\ (ses[s].pc = "new" => ses[s].swap = NoSwap)
      /\ (ses[s].pc = "queued" => ses[s].kind = "upfront")
  BY DEF Is, LabelInv, SessionsOK, SessionOK
<1>3. CASE To(s, "over") /\ spoiled' = TRUE
  <2> DEFINE r == [ses[s] EXCEPT !.pc = "over"]
  <2>1. r \in Session /\ r.pc = "over"
    BY <1>1 DEF Session
  <2>2. SessionOK(r) /\ LooksOK(r, labels) /\ ~Claimant(r)
    BY <2>1 DEF SessionOK, LooksOK, Claimant, Swapping
  <2>3. ses' = [ses EXCEPT ![s] = r]
    BY <1>3 DEF To
  <2> HIDE DEF r
  <2> QED BY <1>3, <2>1, <2>2, <2>3, QuietStepKeeps DEF Claim
<1>4. CASE label \in labels /\ ~reentry /\ To(s, "over") /\ UNCHANGED spoiled
  <2> DEFINE r == [ses[s] EXCEPT !.pc = "over"]
  <2>1. r \in Session /\ r.pc = "over" /\ r.swap = NoSwap
    BY <1>1, <1>2, <1>4 DEF Session, Is
  <2>2. SessionOK(r) /\ LooksOK(r, labels) /\ ~Claimant(r)
    BY <2>1 DEF SessionOK, LooksOK, Claimant, Swapping
  <2>3. ses' = [ses EXCEPT ![s] = r]
    BY <1>4 DEF To
  <2>4. spoiled \in BOOLEAN
    BY DEF LabelInv, LabelTypeOK
  <2> HIDE DEF r
  <2> QED BY <1>4, <2>1, <2>2, <2>3, <2>4, QuietStepKeeps DEF Claim
<1>5. CASE label \in labels /\ reentry /\ To(s, then) /\ UNCHANGED spoiled
  <2> DEFINE r == [ses[s] EXCEPT !.pc = "work"]
  <2>1. r \in Session /\ r.pc = "work" /\ r.kind = ses[s].kind
    BY <1>1 DEF Session
  <2>2. SessionOK(r) /\ LooksOK(r, labels)
    BY <2>1 DEF SessionOK, LooksOK, Swapping
  <2>3. Claimant(ses[s])
    BY <1>5, <1>2 DEF Claimant, Is
  <2>4. ses' = [ses EXCEPT ![s] = r]
    BY <1>5 DEF To
  <2>5. spoiled \in BOOLEAN
    BY DEF LabelInv, LabelTypeOK
  <2> HIDE DEF r
  <2> QED BY <1>5, <2>1, <2>2, <2>3, <2>4, <2>5, QuietStepKeeps DEF Claim
<1>6. CASE label \notin labels /\ Swap(s, {label}, removes_on_entry[label], then)
           /\ UNCHANGED spoiled
  <2> DEFINE swap == [add |-> {label}, remove |-> removes_on_entry[label], then |-> then]
             r == [ses[s] EXCEPT !.pc = "get", !.fresh = TRUE, !.swap = swap]
  <2>1. swap \in [add : SUBSET IssueLabelState, remove : SUBSET IssueLabelState,
                  then : {"queued", "work", "over"}]
    BY DEF IssueLabelState, removes_on_entry
  <2>2. /\ r \in Session /\ r.pc = "get" /\ r.fresh /\ r.kind = ses[s].kind
        /\ r.swap.add = {label} /\ r.swap.then = then
    BY <1>1, <2>1 DEF Session
  <2>3. SessionOK(r)
    BY <2>2, <1>2 DEF SessionOK, SwapOK, Swapping, Is
  <2>4. LooksOK(r, labels)
    BY <2>2, <1>6 DEF LooksOK
  <2>5. Claimant(r) => Claimant(ses[s])
    BY <2>2 DEF Claimant, Is
  <2>6. ses' = [ses EXCEPT ![s] = r]
    BY <1>2, <1>6 DEF Swap
  <2>7. spoiled \in BOOLEAN
    BY DEF LabelInv, LabelTypeOK
  <2> HIDE DEF r
  <2> QED BY <1>6, <2>2, <2>3, <2>4, <2>5, <2>6, <2>7, QuietStepKeeps DEF Claim
<1> QED BY <1>3, <1>4, <1>5, <1>6 DEF Claim

LEMMA ReleaseKeeps ==
  ASSUME LabelInv, NEW s \in Sessions, ReleaseIssue(s) PROVE LabelInv'
<1>1. ses[s] \in Session /\ spoiled \in BOOLEAN
  BY SessionsTyped DEF LabelInv, LabelTypeOK
<1>2. PICK add \in {{}, {"staged"}, {"fail"}}, remove \in SUBSET IssueLabelState :
        Claimed \subseteq remove /\ Swap(s, add, remove, "over")
  BY DEF ReleaseIssue, removes_on_entry, IssueLabelState, Claimed
<1>3. ses[s].pc \in {"work", "queued"}
  BY DEF ReleaseIssue, Is
<1> DEFINE fresh == IF ses[s].pc \in {"new", "queued"} THEN TRUE ELSE ses[s].fresh
           swap == [add |-> add, remove |-> remove, then |-> "over"]
           r == [ses[s] EXCEPT !.pc = "get", !.fresh = fresh, !.swap = swap]
<1>4. swap \in [add : SUBSET IssueLabelState, remove : SUBSET IssueLabelState,
                then : {"queued", "work", "over"}] /\ fresh \in BOOLEAN
  BY <1>1 DEF IssueLabelState, Session
<1>5. r \in Session /\ r.pc = "get" /\ r.kind = ses[s].kind /\ r.swap = swap
  BY <1>1, <1>4 DEF Session
<1>6. swap.add \intersect Claimed = {} /\ Claimed \subseteq swap.remove /\ swap.then = "over"
      /\ swap # NoSwap
  BY <1>2 DEF Claimed, NoSwap
<1>7. ses' = [ses EXCEPT ![s] = r]
  BY <1>2 DEF Swap
<1>8. SessionOK(r) /\ LooksOK(r, labels)
  BY <1>5, <1>6 DEF SessionOK, SwapOK, LooksOK, Swapping
<1>9. Claimant(ses[s])
  BY <1>3 DEF Claimant
<1> HIDE DEF r
<1> QED BY <1>1, <1>5, <1>7, <1>8, <1>9, QuietStepKeeps DEF ReleaseIssue

LEMMA GiveUpKeeps ==
  ASSUME LabelInv, NEW s \in Sessions, GiveUp(s) PROVE LabelInv'
<1> DEFINE r == [ses[s] EXCEPT !.pc = "over"]
<1>1. r \in Session /\ r.pc = "over"
  BY SessionsTyped DEF LabelInv, Session
<1>2. SessionOK(r) /\ LooksOK(r, labels) /\ ~Claimant(r)
  BY <1>1 DEF SessionOK, LooksOK, Claimant, Swapping
<1>3. ses' = [ses EXCEPT ![s] = r]
  BY DEF GiveUp, To
<1> HIDE DEF r
<1> QED BY <1>1, <1>2, <1>3, QuietStepKeeps DEF GiveUp

LEMMA SwapGetKeeps ==
  ASSUME LabelInv, NEW s \in Sessions, SwapGet(s) PROVE LabelInv'
<1>1. ses[s] \in Session /\ spoiled \in BOOLEAN /\ labels \subseteq IssueLabelState
  BY SessionsTyped DEF LabelInv, LabelTypeOK
<1> DEFINE fresh == ses[s].fresh \/ ses[s].swap.then = "over"
           r == [ses[s] EXCEPT !.pc = "put", !.snap = labels, !.fresh = fresh]
<1>2. fresh \in BOOLEAN
  OBVIOUS
<1>3. /\ r \in Session /\ r.pc = "put" /\ r.kind = ses[s].kind /\ r.swap = ses[s].swap
      /\ r.snap = labels /\ r.fresh = fresh
  BY <1>1, <1>2 DEF Session
<1>4. ses' = [ses EXCEPT ![s] = r]
  BY DEF SwapGet
<1>5. ses[s].pc = "get" /\ SwapOK(ses[s]) /\ LooksOK(ses[s], labels)
  BY DEF SwapGet, Is, LabelInv, SessionsOK, SessionOK, Swapping
<1>6. SessionOK(r)
  BY <1>3, <1>5 DEF SessionOK, SwapOK, Swapping
<1>7. LooksOK(r, labels)
  BY <1>3, <1>5 DEF LooksOK, Swapping
<1>8. Claimant(r) => Claimant(ses[s])
  BY <1>3, <1>5 DEF Claimant, Swapping
<1> HIDE DEF r
<1> QED BY <1>1, <1>3, <1>4, <1>6, <1>7, <1>8, QuietStepKeeps DEF SwapGet

\* The write: what it leaves of the sessions, and of the labels.
LEMMA PutEffect ==
  ASSUME LabelInv, NEW s \in Sessions, SwapPut(s)
  PROVE  \E ok, done \in BOOLEAN :
           /\ ok => done
           /\ labels' = IF done THEN (ses[s].snap \ ses[s].swap.remove) \union ses[s].swap.add
                                ELSE labels
           /\ ses'[s] = [ses[s] EXCEPT !.pc = IF ok THEN ses[s].swap.then ELSE "over"]
           /\ \A t \in Sessions \ {s} :
                ses'[t] = IF done THEN [ses[t] EXCEPT !.fresh = FALSE] ELSE ses[t]
           /\ raced' = (raced \/ (done /\ ~ses[s].fresh))
           /\ spoiled' = (spoiled \/ ~ok)
           /\ crossed' = (crossed \/ (ses[s].swap.add = {"queued"} /\ "in_progress" \in labels)
                       \/ (ses[s].swap.then # "over"
                           /\ \E t \in Holding \ {s} : ses[t].kind # ses[s].kind))
           /\ \A t \in Sessions : ses'[t] \in Session
           /\ ses' \in [Sessions -> Session]
<1>1. ses \in [Sessions -> Session]
  BY SessionsTyped DEF LabelInv
<1>2. PICK ok, done \in BOOLEAN :
           /\ ok => done
           /\ labels' = IF done THEN (ses[s].snap \ ses[s].swap.remove) \union ses[s].swap.add
                                ELSE labels
           /\ ses' = [t \in Sessions |->
                   IF t = s THEN [ses[s] EXCEPT !.pc = IF ok THEN ses[s].swap.then ELSE "over"]
                   ELSE IF done THEN [ses[t] EXCEPT !.fresh = FALSE] ELSE ses[t]]
           /\ raced' = (raced \/ (done /\ ~ses[s].fresh))
           /\ spoiled' = (spoiled \/ ~ok)
           /\ crossed' = (crossed \/ (ses[s].swap.add = {"queued"} /\ "in_progress" \in labels)
                       \/ (ses[s].swap.then # "over"
                           /\ \E t \in Holding \ {s} : ses[t].kind # ses[s].kind))
  BY DEF SwapPut
<1> DEFINE over == IF ok THEN ses[s].swap.then ELSE "over"
<1>3. over \in {"queued", "work", "over"}
  BY <1>1 DEF Session
<1>4. [ses[s] EXCEPT !.pc = over] \in Session
  BY <1>1, <1>3 DEF Session
<1>5. \A t \in Sessions : [ses[t] EXCEPT !.fresh = FALSE] \in Session
  BY <1>1 DEF Session
<1>6. \A t \in Sessions : ses'[t] \in Session
  BY <1>1, <1>2, <1>4, <1>5
<1>7. ses' \in [Sessions -> Session]
  BY <1>2, <1>6
<1> QED BY <1>2, <1>6, <1>7

LEMMA PutKeeps ==
  ASSUME LabelInv, NEW s \in Sessions, SwapPut(s) PROVE LabelInv'
<1>1. PICK ok, done \in BOOLEAN :
           /\ ok => done
           /\ labels' = IF done THEN (ses[s].snap \ ses[s].swap.remove) \union ses[s].swap.add
                                ELSE labels
           /\ ses'[s] = [ses[s] EXCEPT !.pc = IF ok THEN ses[s].swap.then ELSE "over"]
           /\ \A t \in Sessions \ {s} :
                ses'[t] = IF done THEN [ses[t] EXCEPT !.fresh = FALSE] ELSE ses[t]
           /\ raced' = (raced \/ (done /\ ~ses[s].fresh))
           /\ spoiled' = (spoiled \/ ~ok)
           /\ crossed' = (crossed \/ (ses[s].swap.add = {"queued"} /\ "in_progress" \in labels)
                       \/ (ses[s].swap.then # "over"
                           /\ \E t \in Holding \ {s} : ses[t].kind # ses[s].kind))
           /\ \A t \in Sessions : ses'[t] \in Session
           /\ ses' \in [Sessions -> Session]
  BY PutEffect
<1>2. \A t \in Sessions : ses[t] \in Session /\ ses[t].kind \in {"plain", "upfront"}
  BY SessionsTyped, LabelAssumption DEF LabelInv, Session
<1>3. /\ ses[s].pc = "put" /\ SwapOK(ses[s]) /\ LooksOK(ses[s], labels)
      /\ ses[s].swap.then \in {"queued", "work", "over"}
  BY <1>2 DEF SwapPut, Is, LabelInv, SessionsOK, SessionOK, Swapping, Session
<1>4. /\ ses'[s].pc = (IF ok THEN ses[s].swap.then ELSE "over") /\ ses'[s].kind = ses[s].kind
      /\ ses'[s].swap = ses[s].swap
  BY <1>1, <1>2 DEF Session
<1>5. ASSUME NEW t \in Sessions \ {s}
      PROVE  /\ ses'[t].pc = ses[t].pc /\ ses'[t].swap = ses[t].swap /\ ses'[t].kind = ses[t].kind
             /\ ses'[t].snap = ses[t].snap
             /\ ses'[t].fresh = (IF done THEN FALSE ELSE ses[t].fresh)
  <2>1. ses[t] \in Session /\ ses'[t] = IF done THEN [ses[t] EXCEPT !.fresh = FALSE] ELSE ses[t]
    BY <1>1, <1>2
  <2> QED BY <2>1 DEF Session
<1>6. LabelTypeOK'
  <2>1. labels' \subseteq IssueLabelState
    BY <1>1, <1>2 DEF LabelInv, LabelTypeOK, Session
  <2>2. raced' \in BOOLEAN /\ crossed' \in BOOLEAN /\ spoiled' \in BOOLEAN
    BY <1>1
  <2> QED BY <1>1, <2>1, <2>2 DEF LabelTypeOK, Session
<1>7. SessionsOK'
  <2>1. SessionOK(ses'[s]) /\ LooksOK(ses'[s], labels')
    BY <1>3, <1>4 DEF SessionOK, LooksOK, Swapping, SwapOK
  <2>2. ASSUME NEW t \in Sessions \ {s}
        PROVE  SessionOK(ses'[t]) /\ LooksOK(ses'[t], labels')
    <3>1. SessionOK(ses[t]) /\ LooksOK(ses[t], labels)
      BY DEF LabelInv, SessionsOK
    <3>2. SessionOK(ses'[t])
      BY <1>5, <3>1 DEF SessionOK, SwapOK, Swapping
    <3>3. CASE done
      BY <1>5, <3>2, <3>3 DEF LooksOK
    <3>4. CASE ~done
      BY <1>1, <3>1, <3>2, <3>4
    <3> QED BY <3>3, <3>4
  <2> QED BY <2>1, <2>2 DEF SessionsOK
<1>8. OwnersMark' /\ OneOwner'
  <2>1. CASE raced' \/ crossed'
    BY <2>1 DEF OwnersMark, OneOwner
  <2>2. CASE ~raced' /\ ~crossed'
    <3>1. /\ ~raced /\ ~crossed /\ (done => ses[s].fresh)
          /\ ~(ses[s].swap.add = {"queued"} /\ "in_progress" \in labels)
          /\ ses[s].swap.then # "over" => \A t \in Holding \ {s} : ses[t].kind = ses[s].kind
      BY <1>1, <2>2
    <3>2. ASSUME NEW t \in Sessions \ {s}, Claimant(ses'[t]) PROVE Claimant(ses[t])
      BY <1>5, <3>2 DEF Claimant, Swapping
    <3>3. CASE ~done
      <4>1. ~ok /\ labels' = labels /\ ~Claimant(ses'[s])
        BY <1>1, <1>4, <3>3 DEF Claimant, Swapping
      <4>2. \A t \in Sessions \ {s} : ses'[t] = ses[t]
        BY <1>1, <3>3
      <4> QED BY <3>1, <4>1, <4>2 DEF LabelInv, OwnersMark, OneOwner
    <3>4. CASE done
      <4>1. ses[s].fresh /\ ses[s].snap = labels
            /\ (ses[s].swap.then # "over" => ses[s].swap.add \intersect labels = {})
        BY <1>3, <3>1, <3>4 DEF LooksOK, Swapping
      <4>2. ASSUME NEW t \in Sessions \ {s} PROVE ~Claimant(ses'[t])
        <5> SUFFICES ASSUME Claimant(ses'[t]) PROVE FALSE
          OBVIOUS
        <5>1. Claimant(ses[t]) /\ Marked(ses[t], labels) /\ ~Claimant(ses[s])
          BY <3>1, <3>2 DEF LabelInv, OwnersMark, OneOwner
        <5>2. ses[s].swap.then # "over" /\ ~(ses[s].swap.then = "work" /\ ses[s].kind = "upfront")
          BY <1>3, <4>1, <5>1 DEF Claimant, Swapping
        <5>3. t \in Holding
          <6>1. CASE ses[t].pc \in {"work", "queued"}
            BY <6>1 DEF Holding, Working
          <6>2. CASE Swapping(ses[t]) /\ ses[t].swap.then = "over"
            <7>1. ses[t].swap.add \intersect Claimed = {}
              BY <6>2 DEF LabelInv, SessionsOK, SessionOK, SwapOK
            <7>2. ses[t].swap.add \subseteq {"staged", "fail"}
              BY <1>2, <7>1 DEF Session, IssueLabelState, Claimed
            <7> QED BY <6>2, <7>2 DEF Holding, Working, Swapping
          <6> QED BY <1>5, <3>4, <6>1, <6>2 DEF Claimant, Swapping
        <5>4. ses[t].kind = ses[s].kind
          BY <3>1, <5>2, <5>3
        <5>5. CASE ses[s].swap.then = "work"
          BY <1>2, <1>3, <4>1, <5>1, <5>2, <5>4, <5>5 DEF SwapOK, Marked
        <5>6. CASE ses[s].swap.then = "queued"
          <6>1. ses[s].swap.add = {"queued"} /\ labels \intersect Claimed # {}
            BY <1>3, <5>1, <5>4, <5>6 DEF SwapOK, Marked
          <6> QED BY <3>1, <4>1, <5>2, <6>1 DEF Claimed
        <5> QED BY <1>3, <5>2, <5>5, <5>6
      <4>3. Claimant(ses'[s]) => Marked(ses'[s], labels')
        <5> SUFFICES ASSUME Claimant(ses'[s]) PROVE Marked(ses'[s], labels')
          OBVIOUS
        <5>1. ok /\ ses'[s].pc = ses[s].swap.then /\ ses[s].swap.then \in {"work", "queued"}
          BY <1>3, <1>4 DEF Claimant, Swapping
        <5>2. ses[s].swap.add \subseteq labels'
          BY <1>1, <3>4
        <5>3. CASE ses[s].swap.then = "work"
          BY <1>3, <5>2, <5>3 DEF SwapOK, Marked, Claimed
        <5>4. CASE ses[s].swap.then = "queued"
          BY <1>3, <1>4, <5>2, <5>4 DEF SwapOK, Marked, Claimed
        <5> QED BY <5>1, <5>3, <5>4
      <4> QED BY <4>2, <4>3 DEF OwnersMark, OneOwner
    <3> QED BY <3>3, <3>4
  <2> QED BY <2>1, <2>2
<1>9. LastClears'
  <2>1. CASE ~ok
    BY <1>1, <2>1 DEF LastClears
  <2>2. CASE ok /\ ses[s].swap.then # "over"
    BY <1>4, <2>2 DEF LastClears
  <2>3. CASE ok /\ ses[s].swap.then = "over"
    BY <1>1, <1>3, <2>3 DEF LastClears, SwapOK
  <2> QED BY <2>1, <2>2, <2>3
<1> QED BY <1>6, <1>7, <1>8, <1>9 DEF LabelInv

LEMMA LabelStepKeeps == LabelInv /\ [LabelNext]_labelVars => LabelInv'
<1> SUFFICES ASSUME LabelInv, [LabelNext]_labelVars PROVE LabelInv'
  OBVIOUS
<1>1. ASSUME NEW s \in Sessions, ClaimIssue(s) PROVE LabelInv'
  <2>1. ses[s].kind \in {"plain", "upfront"}
    BY SessionsTyped, LabelAssumption DEF LabelInv, Session
  <2>2. CASE ses[s].kind = "plain"
    <3>1. Is(s, "new") /\ Claim(s, "in_progress", FALSE, "work")
      BY <1>1, <2>2 DEF ClaimIssue
    <3> QED BY <2>2, <3>1, ClaimKeeps
  <2>3. CASE ses[s].kind = "upfront"
    <3>1. Is(s, "new") /\ Claim(s, "queued", FALSE, "queued")
      BY <1>1, <2>3 DEF ClaimIssue
    <3> QED BY <2>3, <3>1, ClaimKeeps
  <2> QED BY <2>1, <2>2, <2>3
<1>2. ASSUME NEW s \in Sessions, Reenter(s) PROVE LabelInv'
  <2>1. Is(s, "queued") /\ Claim(s, "in_progress", TRUE, "work")
    BY <1>2 DEF Reenter
  <2> QED BY <2>1, ClaimKeeps
<1>3. ASSUME NEW s \in Sessions, ReleaseIssue(s) PROVE LabelInv'
  BY <1>3, ReleaseKeeps
<1>4. ASSUME NEW s \in Sessions, GiveUp(s) PROVE LabelInv'
  BY <1>4, GiveUpKeeps
<1>5. ASSUME NEW s \in Sessions, SwapGet(s) PROVE LabelInv'
  BY <1>5, SwapGetKeeps
<1>6. ASSUME NEW s \in Sessions, SwapPut(s) PROVE LabelInv'
  BY <1>6, PutKeeps
<1>7. CASE UNCHANGED labelVars
  BY <1>7 DEF labelVars, LabelInv, LabelTypeOK, SessionsOK, OwnersMark, OneOwner, LastClears
<1> QED BY <1>1, <1>2, <1>3, <1>4, <1>5, <1>6, <1>7 DEF LabelNext

\* The inductive invariant of the labels holds in every reachable state.
THEOREM LabelInvariant == LabelSpec => []LabelInv
<1> QED BY LabelInitInv, LabelStepKeeps, PTL DEF LabelSpec

\* But for its known holes, two swaps that overlap and a claim of one kind past a
\* session of the other, the protocol of the labels never lets a second session
\* work on an issue, however many there are.
THEOREM LabelsExclude == LabelSpec => []ClaimsExclude
<1>1. LabelInv => ClaimsExclude
  <2> SUFFICES ASSUME LabelInv, ~raced, ~crossed PROVE OneWorker
    BY DEF ClaimsExclude
  <2>1. \A s, t \in Working : s = t
    BY DEF Working, LabelInv, OneOwner, Claimant, Swapping
  <2>2. Working = {} \/ \E s \in Working : Working = {s}
    BY <2>1
  <2>3. Cardinality({}) = 0 /\ \A s : Cardinality({s}) = 1
    BY FS_EmptySet, FS_Singleton
  <2> QED BY <2>2, <2>3 DEF OneWorker
<1> QED BY <1>1, LabelInvariant, PTL

\* When every session is over and none failed to write, the issue is nobody's.
THEOREM LabelsCleared == LabelSpec => []NothingLeftClaimed
<1>1. LabelInv => NothingLeftClaimed
  BY DEF LabelInv, LastClears, NothingLeftClaimed, Claimed
<1> QED BY <1>1, LabelInvariant, PTL

\* Two sessions never work on one issue, and none that is over still claims it.
THEOREM ClaimsAreSound == LabelSpec => []ClaimsSound
<1>1. LabelInv => LabelTypeOK BY DEF LabelInv
<1> QED BY <1>1, LabelInvariant, LabelsExclude, LabelsCleared, PTL DEF ClaimsSound

-----------------------------------------------------------------------------
(* The plugin cache.  An install that holds the lock has retired, of what   *)
(* it found, all it has looked at but its own version.                      *)

Retired(v) == \E e \in retiring : e.version = v
RetiredSoFar ==
  \A i \in Installers :
    /\ ipc[i] = "retire" => \A v \in dirs \ (subdirs[i] \union {newVersion[i]}) : Retired(v)
    /\ ipc[i] = "install" => \A v \in dirs \ {newVersion[i]} : Retired(v)
PluginInv == PluginTypeOK /\ RetiredSoFar /\ OthersRetired

LEMMA PluginInitInv == PluginInit => PluginInv
<1> SUFFICES ASSUME PluginInit PROVE PluginInv
  OBVIOUS
<1>1. PluginTypeOK
  BY PluginAssumption DEF PluginInit, PluginTypeOK
<1>2. RetiredSoFar /\ OthersRetired
  BY DEF PluginInit, RetiredSoFar, OthersRetired
<1> QED BY <1>1, <1>2 DEF PluginInv

\* A sweep takes a version out of the list only with its directory.
LEMMA SweepKeeps ==
  ASSUME PluginTypeOK, Sweep
  PROVE  /\ dirs' \subseteq dirs /\ retiring' \subseteq retiring
         /\ \A v \in dirs' : Retired(v) => Retired(v)'
<1>1. PICK failed \in SUBSET {e \in retiring : Expired(e) /\ e.version \in dirs} :
        LET swept == {e \in retiring : Expired(e)} \ failed
        IN  dirs' = dirs \ {e.version : e \in swept} /\ retiring' = retiring \ swept
  BY DEF Sweep
<1>2. ASSUME NEW v \in dirs', Retired(v) PROVE Retired(v)'
  BY <1>1, <1>2 DEF Retired
<1> QED BY <1>1, <1>2

LEMMA SweepsKeep == PluginInv /\ ServerSweeps => PluginInv'
<1> SUFFICES ASSUME PluginInv, ServerSweeps PROVE PluginInv'
  OBVIOUS
<1> USE DEF PluginInv
<1>1. /\ dirs' \subseteq dirs /\ retiring' \subseteq retiring
      /\ \A v \in dirs' : Retired(v) => Retired(v)'
  BY SweepKeeps DEF ServerSweeps
<1>2. PluginTypeOK'
  BY <1>1 DEF PluginTypeOK, ServerSweeps
<1>3. RetiredSoFar'
  BY <1>1 DEF RetiredSoFar, ServerSweeps
<1>4. OthersRetired'
  <2>1. OthersRetired <=>
          (Quiet /\ installed # NoVersion => \A v \in dirs \ {installed} : Retired(v))
    BY DEF OthersRetired, Retired
  <2>2. OthersRetired' <=>
          (Quiet /\ installed # NoVersion => \A v \in dirs' \ {installed} : Retired(v)')
    BY DEF OthersRetired, Retired, ServerSweeps, Quiet
  <2> QED BY <1>1, <2>1, <2>2
<1> QED BY <1>2, <1>3, <1>4

\* Only the holder of the lock is at work.
LEMMA OneInstall ==
  ASSUME PluginTypeOK, NEW i \in Installers, ipc[i] \in {"retire", "install"}
  PROVE  /\ installLock = i /\ ~Quiet
         /\ \A j \in Installers \ {i} : ipc[j] \notin {"retire", "install"}
BY PluginAssumption DEF PluginTypeOK, Quiet

LEMMA TakeKeeps ==
  ASSUME PluginInv, NEW i \in Installers, TakeInstallLock(i) PROVE PluginInv'
<1> USE DEF PluginInv
<1>1. PluginTypeOK'
  BY PluginAssumption DEF PluginTypeOK, TakeInstallLock, Goes
<1>2. RetiredSoFar'
  BY DEF RetiredSoFar, TakeInstallLock, Goes, PluginTypeOK, Retired
<1>3. OthersRetired'
  BY PluginAssumption DEF OthersRetired, Quiet, TakeInstallLock
<1> QED BY <1>1, <1>2, <1>3

LEMMA RetireKeeps ==
  ASSUME PluginInv, NEW i \in Installers, NEW v \in Versions, RetireOldVersion(i, v)
  PROVE  PluginInv'
<1> USE DEF PluginInv
<1>1. /\ ipc[i] = "retire" /\ installLock = i /\ ~Quiet
      /\ \A j \in Installers \ {i} : ipc[j] \notin {"retire", "install"}
  BY OneInstall DEF RetireOldVersion
<1>2. [version |-> v, at |-> hour] \in [version : Versions, at : 0..MaxHours]
  BY DEF PluginTypeOK
<1>3. /\ dirs' \subseteq dirs /\ retiring \subseteq retiring'
      /\ retiring' \subseteq retiring \union {[version |-> v, at |-> hour]}
      /\ v \in dirs' /\ v # newVersion[i] => [version |-> v, at |-> hour] \in retiring'
      /\ subdirs' = [subdirs EXCEPT ![i] = @ \ {v}]
      /\ UNCHANGED <<hour, installLock, ipc, newVersion, installed>>
  BY DEF RetireOldVersion
<1>4. PluginTypeOK'
  BY <1>2, <1>3 DEF PluginTypeOK
<1>5. RetiredSoFar'
  <2> SUFFICES ASSUME NEW u \in dirs', u \notin subdirs'[i], u # newVersion[i]
               PROVE  Retired(u)'
    BY <1>1, <1>3 DEF RetiredSoFar
  <2>1. CASE u = v
    BY <1>3, <2>1 DEF Retired
  <2>2. CASE u # v
    <3>1. u \in dirs \ (subdirs[i] \union {newVersion[i]})
      BY <1>3, <2>2 DEF PluginTypeOK
    <3>2. Retired(u)
      BY <1>1, <3>1 DEF RetiredSoFar
    <3> QED BY <1>3, <3>2 DEF Retired
  <2> QED BY <2>1, <2>2
<1>6. OthersRetired'
  BY <1>1, <1>3 DEF OthersRetired, Quiet
<1> QED BY <1>4, <1>5, <1>6

LEMMA ClearKeeps ==
  ASSUME PluginInv, NEW i \in Installers, ClearEnds(i) PROVE PluginInv'
<1> USE DEF PluginInv
<1>1. /\ dirs' \subseteq dirs /\ retiring' \subseteq retiring
      /\ \A v \in dirs' : Retired(v) => Retired(v)'
  BY SweepKeeps DEF ClearEnds
<1>2. /\ ipc[i] = "retire" /\ ~Quiet
      /\ \A j \in Installers \ {i} : ipc[j] \notin {"retire", "install"}
  BY OneInstall DEF ClearEnds, Goes
<1>3. /\ subdirs[i] = {} /\ ipc' = [ipc EXCEPT ![i] = "install"]
      /\ UNCHANGED <<hour, installLock, newVersion, subdirs, installed>>
  BY DEF ClearEnds, Goes
<1>4. PluginTypeOK'
  BY <1>1, <1>2, <1>3 DEF PluginTypeOK
<1>5. RetiredSoFar'
  <2>1. \A v \in dirs \ {newVersion[i]} : Retired(v)
    BY <1>2, <1>3 DEF RetiredSoFar
  <2> QED BY <1>1, <1>2, <1>3, <2>1 DEF RetiredSoFar, PluginTypeOK
<1>6. OthersRetired'
  BY <1>2, <1>3 DEF OthersRetired, Quiet
<1> QED BY <1>4, <1>5, <1>6

LEMMA InstallsKeeps ==
  ASSUME PluginInv, NEW i \in Installers, PluginInstalls(i) PROVE PluginInv'
<1> USE DEF PluginInv
<1>1. /\ ipc[i] = "install" /\ installLock = i
      /\ \A j \in Installers \ {i} : ipc[j] \notin {"retire", "install"}
  BY OneInstall DEF PluginInstalls, Goes
<1>2. PluginTypeOK'
  BY <1>1, PluginAssumption DEF PluginTypeOK, PluginInstalls, Goes
<1>3. RetiredSoFar'
  BY <1>1 DEF RetiredSoFar, PluginInstalls, Goes, PluginTypeOK
<1>4. OthersRetired'
  <2>1. \A v \in dirs \ {newVersion[i]} : Retired(v)
    BY <1>1 DEF RetiredSoFar
  <2> QED BY <2>1 DEF OthersRetired, PluginInstalls, Retired
<1> QED BY <1>2, <1>3, <1>4

LEMMA FailsKeeps ==
  ASSUME PluginInv, NEW i \in Installers, InstallFails(i) PROVE PluginInv'
<1> USE DEF PluginInv
<1>1. /\ installLock = i
      /\ \A j \in Installers \ {i} : ipc[j] \notin {"retire", "install"}
  BY OneInstall DEF InstallFails
<1>2. PluginTypeOK'
  BY <1>1, PluginAssumption DEF PluginTypeOK, InstallFails
<1>3. RetiredSoFar' /\ OthersRetired'
  BY <1>1 DEF RetiredSoFar, OthersRetired, InstallFails, PluginTypeOK
<1> QED BY <1>2, <1>3

LEMMA PluginStepKeeps == PluginInv /\ [PluginNext]_pluginVars => PluginInv'
<1> SUFFICES ASSUME PluginInv, [PluginNext]_pluginVars PROVE PluginInv'
  OBVIOUS
<1>1. CASE PassHour
  <2>1. PluginTypeOK'
    BY <1>1, PluginAssumption DEF PluginInv, PluginTypeOK, PassHour
  <2>2. RetiredSoFar' /\ OthersRetired'
    BY <1>1 DEF PluginInv, RetiredSoFar, OthersRetired, Retired, Quiet, PassHour
  <2> QED BY <2>1, <2>2 DEF PluginInv
<1>2. CASE ServerSweeps
  BY <1>2, SweepsKeep
<1>3. ASSUME NEW i \in Installers, TakeInstallLock(i) PROVE PluginInv'
  BY <1>3, TakeKeeps
<1>4. ASSUME NEW i \in Installers, NEW v \in Versions, RetireOldVersion(i, v) PROVE PluginInv'
  BY <1>4, RetireKeeps
<1>5. ASSUME NEW i \in Installers, ClearEnds(i) PROVE PluginInv'
  BY <1>5, ClearKeeps
<1>6. ASSUME NEW i \in Installers, PluginInstalls(i) PROVE PluginInv'
  BY <1>6, InstallsKeeps
<1>7. ASSUME NEW i \in Installers, InstallFails(i) PROVE PluginInv'
  BY <1>7, FailsKeeps
<1>8. CASE UNCHANGED pluginVars
  BY <1>8 DEF pluginVars, PluginInv, PluginTypeOK, RetiredSoFar, OthersRetired, Retired, Quiet
<1> QED BY <1>1, <1>2, <1>3, <1>4, <1>5, <1>6, <1>7, <1>8 DEF PluginNext

\* However many installs run, break off or die while servers sweep, every version
\* but the one installed last is retired, so nothing stays in the cache for good.
THEOREM PluginCacheSwept == PluginSpec => []CacheSwept
<1>1. PluginInv => CacheSwept
  BY DEF PluginInv, CacheSwept
<1> QED BY <1>1, PluginInitInv, PluginStepKeeps, PTL DEF PluginSpec

-----------------------------------------------------------------------------
(* The quota guard.  An answer is written in the instant it arrives, so a   *)
(* cache that does not block dates from an instant at which no window was   *)
(* at its threshold; and the loop is never further behind than the time it  *)
(* sleeps and the time its request takes.                                   *)

Written == cache.at # Never
CacheTrue ==
  /\ clear <= now /\ (Exhausted = {} => clear = now)
  /\ (Written => cache.at <= now) /\ (~Written => cache = NoCache)
  /\ Written /\ ~cache.block => cache.at <= clear
AnswersTrue ==
  /\ check.pc \in {"answered", "reanswered"} /\ ~check.got.block => clear = now
  /\ check.pc \in {"answered", "reanswered"} /\ check.got.block => check.last <= check.got.resets
  /\ check.pc \in {"idle", "fetch"} => check.last = Never
  /\ loop.pc = "answered" /\ ~loop.got.block => clear = now
LoopOnTime ==
  /\ 0 <= loop.since /\ loop.since <= now
  /\ now <= loop.since + (IF loop.pc = "sleep" THEN Interval ELSE Latency)
  /\ Written /\ ~faulty => loop.since <= cache.at + (IF loop.pc = "sleep" THEN 0 ELSE Interval)
QuotaInv ==
  /\ QuotaTypeOK /\ CacheTrue /\ AnswersTrue /\ LoopOnTime
  /\ GoIsRecent /\ SleepCoversAll

LEMMA QuotaNumbers ==
  ASSUME QuotaTypeOK
  PROVE  /\ {MaxAge, Interval, Latency, Buffer, MaxTime} \subseteq Nat
         /\ Interval + Latency <= MaxAge /\ now \in Nat /\ clear \in Nat
         /\ \A t \in Times : t \in Int /\ Never <= t
         /\ cache.at \in Times /\ cache.block \in BOOLEAN /\ cache.resets \in Times
         /\ loop.since \in Times /\ check.since \in Times
         /\ check.last \in Times /\ check.got.resets \in Times
BY QuotaAssumption DEF QuotaTypeOK, Times, Never, Status

LEMMA QuotaInitInv == QuotaInit => QuotaInv
<1> SUFFICES ASSUME QuotaInit PROVE QuotaInv
  OBVIOUS
<1>1. QuotaTypeOK
  <2>1. Idle \in Status /\ Never \in Times /\ 0 \in Times /\ 0 \in 0..MaxTime
    BY QuotaAssumption DEF Idle, Status, Times
  <2> QED BY <2>1 DEF QuotaInit, QuotaTypeOK, NoCache, NoCheck, NoAnswer
<1>2. CacheTrue /\ AnswersTrue
  BY DEF QuotaInit, CacheTrue, AnswersTrue, Written, NoCache, NoCheck, Exhausted
<1>3. LoopOnTime
  BY QuotaAssumption DEF QuotaInit, LoopOnTime, Written, NoCache
<1>4. GoIsRecent /\ SleepCoversAll
  BY DEF QuotaInit, GoIsRecent, SleepCoversAll, NoAnswer
<1> QED BY <1>1, <1>2, <1>3, <1>4 DEF QuotaInv

\* A step that is neither a check's end nor the hook says nothing.
LEMMA SaysNothing ==
  answer' = NoAnswer =>
    /\ NoAnswer \in [by : {"none", "check", "hook"}, sleep : BOOLEAN, open : BOOLEAN,
                     block : BOOLEAN, recent : BOOLEAN, covers : BOOLEAN]
    /\ GoIsRecent' /\ SleepCoversAll'
BY DEF NoAnswer, GoIsRecent, SleepCoversAll

\* What the API is seen to say.
LEMMA BindingTrue ==
  ASSUME QuotaTypeOK, NEW omit \in SUBSET Windows, NEW s \in Binding(omit)
  PROVE  /\ s \in Status /\ s.block = (Exhausted # {})
         /\ s.block => \A v \in Exhausted : Shown(v, omit) <= s.resets
<1> DEFINE full == {w \in Windows : usage[w].level = "high"}
           latest == {w \in Exhausted : \A v \in Exhausted : Shown(v, omit) <= Shown(w, omit)}
<1>1. PICK w \in (IF Exhausted # {} THEN latest ELSE IF full # {} THEN full ELSE Windows) :
        s = [block |-> Exhausted # {}, resets |-> Shown(w, omit)]
  BY DEF Binding
<1>2. w \in Windows /\ (Exhausted # {} => w \in latest)
  BY <1>1 DEF Exhausted
<1>3. Shown(w, omit) \in Times /\ (Exhausted # {}) \in BOOLEAN
  BY <1>2 DEF Shown, Times, QuotaTypeOK
<1> HIDE DEF full
<1> QED BY <1>1, <1>2, <1>3 DEF Status

LEMMA TickKeeps == QuotaInv /\ Tick => QuotaInv'
<1> SUFFICES ASSUME QuotaInv, Tick PROVE QuotaInv'
  OBVIOUS
<1> USE DEF QuotaInv
<1>1. /\ now' = now + 1 /\ now < MaxTime /\ UNCHANGED <<cache, check, loop, faulty>>
      /\ answer' = NoAnswer
  BY DEF Tick
<1>2. clear' = IF \A w \in Exhausted : usage[w].resets \in 0..(now + 1) THEN now + 1
              ELSE IF Exhausted = {} THEN now ELSE clear
  BY DEF Tick
<1>3. usage' = [w \in Windows |-> IF usage[w].resets \in 0..(now + 1)
                                 THEN [level |-> "low", resets |-> Never] ELSE usage[w]]
  BY DEF Tick
<1>4. now \in 0..MaxTime /\ clear \in Nat /\ MaxTime \in Nat /\ clear <= now
  BY QuotaNumbers DEF QuotaTypeOK, CacheTrue
<1>5. clear <= clear' /\ clear' <= now' /\ clear' \in Nat /\ now' \in 0..MaxTime
  BY <1>1, <1>2, <1>4
<1>6. QuotaTypeOK'
  <2>1. usage' \in [Windows -> [level : {"low", "high", "exhausted"}, resets : Times]]
    BY <1>3 DEF QuotaTypeOK, Times
  <2>2. clear' \in 0..MaxTime
    BY <1>4, <1>5
  <2> QED BY <1>1, <1>5, <2>1, <2>2, SaysNothing DEF QuotaTypeOK
<1>7. Exhausted' = {} => clear' = now'
  <2> SUFFICES ASSUME Exhausted' = {} PROVE \A w \in Exhausted : usage[w].resets \in 0..(now + 1)
    BY <1>1, <1>2
  <2> SUFFICES ASSUME NEW w \in Exhausted, usage[w].resets \notin 0..(now + 1) PROVE FALSE
    OBVIOUS
  <2>1. w \in Windows /\ usage'[w] = usage[w] /\ usage[w].level = "exhausted"
    BY <1>3 DEF Exhausted
  <2> QED BY <2>1 DEF Exhausted
<1>8. CacheTrue'
  BY <1>1, <1>4, <1>5, <1>7, QuotaNumbers DEF CacheTrue, Written
<1>9. AnswersTrue'
  BY <1>1 DEF AnswersTrue, Tick
<1>10. LoopOnTime'
  <2>1. loop.pc \in {"sleep", "fetch"}
    BY DEF Tick, QuotaTypeOK
  <2>2. loop.pc = "sleep" => now < loop.since + Interval
    BY DEF Tick
  <2>3. loop.pc = "fetch" => now < loop.since + Latency
    BY DEF Tick
  <2> QED BY <1>1, <1>4, <2>1, <2>2, <2>3, QuotaNumbers DEF LoopOnTime, Written
<1> QED BY <1>1, <1>6, <1>8, <1>9, <1>10, SaysNothing

LEMMA UseKeeps ==
  ASSUME QuotaInv, NEW w \in Windows, Use(w) PROVE QuotaInv'
<1> USE DEF QuotaInv
<1>1. /\ UNCHANGED <<now, cache, check, loop, clear, faulty>> /\ answer' = NoAnswer
      /\ usage[w].level # "exhausted"
      /\ usage' = [usage EXCEPT ![w] =
            [level |-> IF @.level = "low" THEN "high" ELSE "exhausted",
             resets |-> IF @.resets = Never THEN now + Span[w] ELSE @.resets]]
  BY DEF Use
<1>2. now + Span[w] \in Nat /\ usage \in [Windows -> [level : {"low", "high", "exhausted"}, resets : Times]]
  BY QuotaAssumption, QuotaNumbers DEF QuotaTypeOK
<1>3. usage' \in [Windows -> [level : {"low", "high", "exhausted"}, resets : Times]]
  BY <1>1, <1>2 DEF Times
<1>4. QuotaTypeOK'
  BY <1>1, <1>3, SaysNothing DEF QuotaTypeOK
<1>5. Exhausted' = {} => Exhausted = {}
  BY <1>1, <1>2 DEF Exhausted
<1>6. CacheTrue' /\ AnswersTrue' /\ LoopOnTime'
  BY <1>1, <1>5 DEF CacheTrue, AnswersTrue, LoopOnTime, Written
<1> QED BY <1>1, <1>4, <1>6, SaysNothing

\* A decision on a status that is recent, if it does not block, and that waits past
\* every reset that was seen, if it does not know which.
LEMMA DecideRight ==
  ASSUME QuotaTypeOK, NEW s, s.block \in BOOLEAN, Decide(s), UNCHANGED <<now, clear>>,
         ~s.block => now - clear <= MaxAge,
         s.block /\ s.resets = Never => check.last = Never
  PROVE  /\ answer' \in [by : {"none", "check", "hook"}, sleep : BOOLEAN, open : BOOLEAN,
                         block : BOOLEAN, recent : BOOLEAN, covers : BOOLEAN]
         /\ GoIsRecent' /\ SleepCoversAll'
         /\ \/ check' = NoCheck
            \/ check' = [check EXCEPT !.pc = "refetch", !.since = now, !.got = Idle]
<1>1. CASE ~s.block /\ Say(FALSE, Never, FALSE, FALSE) /\ check' = NoCheck
  <2>1. Recent \in BOOLEAN /\ (check.last <= Never) \in BOOLEAN /\ Recent
    BY <1>1, QuotaNumbers DEF Recent
  <2> QED BY <1>1, <2>1 DEF Say, GoIsRecent, SleepCoversAll
<1>2. CASE s.block /\ s.resets = Never /\ Say(TRUE, now + Buffer, FALSE, TRUE) /\ check' = NoCheck
  <2>1. Recent \in BOOLEAN /\ (check.last <= now + Buffer) = TRUE
    BY <1>2, QuotaNumbers DEF Recent, Never
  <2> QED BY <1>2, <2>1 DEF Say, GoIsRecent, SleepCoversAll
<1>3. CASE s.block /\ s.resets # Never /\ answer' = NoAnswer
           /\ check' = [check EXCEPT !.pc = "refetch", !.since = now, !.got = Idle]
  BY <1>3, SaysNothing
<1> QED BY <1>1, <1>2, <1>3 DEF Decide

LEMMA CheckTypes ==
  ASSUME QuotaTypeOK
  PROVE  /\ NoCheck \in [pc : {"idle", "fetch", "answered", "refetch", "reanswered"},
                         since : Times, got : Status, last : Times]
         /\ [check EXCEPT !.pc = "refetch", !.since = now, !.got = Idle]
              \in [pc : {"idle", "fetch", "answered", "refetch", "reanswered"},
                   since : Times, got : Status, last : Times]
         /\ [check EXCEPT !.pc = "fetch", !.since = now]
              \in [pc : {"idle", "fetch", "answered", "refetch", "reanswered"},
                   since : Times, got : Status, last : Times]
         /\ NoCheck.pc = "idle" /\ NoCheck.last = Never
         /\ [check EXCEPT !.pc = "refetch", !.since = now, !.got = Idle].pc = "refetch"
         /\ [check EXCEPT !.pc = "fetch", !.since = now].pc = "fetch"
         /\ [check EXCEPT !.pc = "fetch", !.since = now].last = check.last
<1>1. now \in Times /\ Idle \in Status /\ Never \in Times /\ 0 \in Times
  BY QuotaNumbers DEF Idle, Status, Times
<1> QED BY <1>1 DEF QuotaTypeOK, NoCheck

\* A step of the checks or the hook that leaves account, cache and loop alone.
LEMMA CheckOnly ==
  ASSUME QuotaInv, UNCHANGED <<now, usage, cache, loop, clear>>,
         faulty' \in BOOLEAN, faulty => faulty',
         check' \in [pc : {"idle", "fetch", "answered", "refetch", "reanswered"},
                     since : Times, got : Status, last : Times],
         answer' \in [by : {"none", "check", "hook"}, sleep : BOOLEAN, open : BOOLEAN,
                      block : BOOLEAN, recent : BOOLEAN, covers : BOOLEAN],
         check'.pc \in {"answered", "reanswered"} => /\ ~check'.got.block => clear = now
                                                     /\ check'.got.block => check'.last <= check'.got.resets,
         check'.pc \in {"idle", "fetch"} => check'.last = Never,
         GoIsRecent', SleepCoversAll'
  PROVE  QuotaInv'
<1> USE DEF QuotaInv
<1>1. QuotaTypeOK'
  BY DEF QuotaTypeOK
<1>2. CacheTrue'
  BY DEF CacheTrue, Written, Exhausted
<1>3. AnswersTrue'
  BY DEF AnswersTrue
<1>4. LoopOnTime'
  BY DEF LoopOnTime, Written
<1> QED BY <1>1, <1>2, <1>3, <1>4

LEMMA CheckBeginsKeeps == QuotaInv /\ check_and_sleep_if_needed => QuotaInv'
<1> SUFFICES ASSUME QuotaInv, check_and_sleep_if_needed PROVE QuotaInv'
  OBVIOUS
<1>1. UNCHANGED <<now, usage, cache, loop, clear, faulty>> /\ check.pc = "idle"
  BY DEF check_and_sleep_if_needed
<1>2. QuotaTypeOK /\ check.last = Never /\ faulty' \in BOOLEAN
  BY <1>1 DEF QuotaInv, AnswersTrue, QuotaTypeOK
<1>3. CASE Fresh /\ Decide(cache)
  <2>1. ~cache.block => now - clear <= MaxAge
    BY <1>2, <1>3, QuotaNumbers DEF QuotaInv, CacheTrue, Fresh, Written
  <2>2. cache.block \in BOOLEAN
    BY <1>2, QuotaNumbers
  <2>3. /\ answer' \in [by : {"none", "check", "hook"}, sleep : BOOLEAN, open : BOOLEAN,
                        block : BOOLEAN, recent : BOOLEAN, covers : BOOLEAN]
        /\ GoIsRecent' /\ SleepCoversAll'
        /\ \/ check' = NoCheck
           \/ check' = [check EXCEPT !.pc = "refetch", !.since = now, !.got = Idle]
    BY <1>1, <1>2, <1>3, <2>1, <2>2, DecideRight
  <2> QED BY <1>1, <1>2, <2>3, CheckTypes, CheckOnly
<1>4. CASE ~Fresh /\ check' = [check EXCEPT !.pc = "fetch", !.since = now] /\ answer' = NoAnswer
  BY <1>1, <1>2, <1>4, CheckTypes, CheckOnly, SaysNothing
<1> QED BY <1>3, <1>4 DEF check_and_sleep_if_needed

LEMMA CheckFetchKeeps == QuotaInv /\ CheckFetch => QuotaInv'
<1> SUFFICES ASSUME QuotaInv, CheckFetch PROVE QuotaInv'
  OBVIOUS
<1>1. /\ UNCHANGED <<now, usage, cache, loop, clear, faulty>> /\ answer' = NoAnswer
      /\ check.pc \in {"fetch", "refetch"}
  BY DEF CheckFetch
<1>2. PICK omit \in SUBSET Windows : \E s \in Binding(omit) :
     \E last \in {Shown(w, omit) : w \in Exhausted} \union {Never} :
       /\ \A w \in Exhausted : Shown(w, omit) <= last
       /\ check' = [check EXCEPT !.got = s, !.last = last,
                   !.pc = IF check.pc = "fetch" THEN "answered" ELSE "reanswered"]
  BY DEF CheckFetch
<1>3. PICK s \in Binding(omit) :
     \E last \in {Shown(w, omit) : w \in Exhausted} \union {Never} :
       /\ \A w \in Exhausted : Shown(w, omit) <= last
       /\ check' = [check EXCEPT !.got = s, !.last = last,
                   !.pc = IF check.pc = "fetch" THEN "answered" ELSE "reanswered"]
  BY <1>2
<1>4. PICK last \in {Shown(w, omit) : w \in Exhausted} \union {Never} :
       /\ \A w \in Exhausted : Shown(w, omit) <= last
       /\ check' = [check EXCEPT !.got = s, !.last = last,
                   !.pc = IF check.pc = "fetch" THEN "answered" ELSE "reanswered"]
  BY <1>3
<1>5. QuotaTypeOK
  BY DEF QuotaInv
<1>6. /\ s \in Status /\ s.block = (Exhausted # {}) /\ s.resets \in Times
      /\ s.block => \A v \in Exhausted : Shown(v, omit) <= s.resets
  BY <1>5, BindingTrue DEF Status
<1>7. last \in Times /\ (s.block => last <= s.resets)
  <2>1. CASE last = Never
    BY <2>1, <1>5, <1>6, QuotaNumbers DEF Times
  <2>2. CASE \E w \in Exhausted : last = Shown(w, omit)
    BY <2>2, <1>5, <1>6 DEF Exhausted, Shown, QuotaTypeOK, Times
  <2> QED BY <2>1, <2>2
<1>8. /\ check' \in [pc : {"idle", "fetch", "answered", "refetch", "reanswered"},
                     since : Times, got : Status, last : Times]
      /\ check'.pc \in {"answered", "reanswered"} /\ check'.got = s /\ check'.last = last
  BY <1>4, <1>5, <1>6, <1>7 DEF QuotaTypeOK
<1>9. ~s.block => clear = now
  BY <1>6 DEF QuotaInv, CacheTrue
<1>10. faulty' \in BOOLEAN /\ (faulty => faulty')
  BY <1>1, <1>5 DEF QuotaTypeOK
<1> HIDE DEF QuotaInv
<1> QED BY <1>1, <1>7, <1>8, <1>9, <1>10, CheckOnly, SaysNothing

LEMMA CheckFailsKeeps == QuotaInv /\ CheckFails => QuotaInv'
<1> SUFFICES ASSUME QuotaInv, CheckFails PROVE QuotaInv'
  OBVIOUS
<1>1. /\ UNCHANGED <<now, usage, cache, loop, clear>> /\ faulty' = TRUE
      /\ check' = NoCheck /\ Say(FALSE, Never, TRUE, FALSE)
  BY DEF CheckFails
<1>2. QuotaTypeOK
  BY DEF QuotaInv
<1>3. Recent \in BOOLEAN /\ (check.last <= Never) \in BOOLEAN
  BY <1>2, QuotaNumbers DEF Recent
<1>4. /\ answer' \in [by : {"none", "check", "hook"}, sleep : BOOLEAN, open : BOOLEAN,
                      block : BOOLEAN, recent : BOOLEAN, covers : BOOLEAN]
      /\ GoIsRecent' /\ SleepCoversAll'
  BY <1>1, <1>3 DEF Say, GoIsRecent, SleepCoversAll
<1> QED BY <1>1, <1>2, <1>4, CheckTypes, CheckOnly

\* A step that writes what was fetched in this instant.
LEMMA CacheWritten ==
  ASSUME QuotaInv, NEW s \in Status, _write_cache(s), UNCHANGED <<now, usage, clear, faulty>>,
         ~s.block => clear = now,
         loop' \in [pc : {"sleep", "fetch", "answered"}, since : Times, got : Status],
         \/ loop' = loop
         \/ loop'.pc = "sleep" /\ loop'.since = now,
         check' \in [pc : {"idle", "fetch", "answered", "refetch", "reanswered"},
                     since : Times, got : Status, last : Times],
         answer' \in [by : {"none", "check", "hook"}, sleep : BOOLEAN, open : BOOLEAN,
                      block : BOOLEAN, recent : BOOLEAN, covers : BOOLEAN],
         check'.pc \in {"answered", "reanswered"} => /\ ~check'.got.block => clear = now
                                                     /\ check'.got.block => check'.last <= check'.got.resets,
         check'.pc \in {"idle", "fetch"} => check'.last = Never,
         GoIsRecent', SleepCoversAll'
  PROVE  QuotaInv'
<1>1. QuotaTypeOK /\ now \in Nat /\ Interval \in Nat /\ loop.since \in Int /\ cache.at \in Int
  BY QuotaNumbers DEF QuotaInv, Times, Never
<1>2. /\ cache' = [at |-> now, block |-> s.block, resets |-> s.resets]
      /\ cache' \in [at : Times, block : BOOLEAN, resets : Times]
  BY <1>1 DEF _write_cache, Status, Times
<1>3. QuotaTypeOK'
  BY <1>1, <1>2 DEF QuotaTypeOK
<1>4. CacheTrue'
  BY <1>1, <1>2 DEF QuotaInv, CacheTrue, Written, Exhausted, Never
<1>5. AnswersTrue'
  BY DEF QuotaInv, AnswersTrue
<1>6. 0 <= loop.since /\ loop.since <= now /\ Latency \in Nat
  BY <1>1, QuotaNumbers DEF QuotaInv, LoopOnTime
<1>7. LoopOnTime'
  BY <1>1, <1>2, <1>6 DEF QuotaInv, LoopOnTime, Written
<1> QED BY <1>3, <1>4, <1>5, <1>7 DEF QuotaInv

LEMMA CheckFetchedKeeps == QuotaInv /\ CheckFetched => QuotaInv'
<1> SUFFICES ASSUME QuotaInv, CheckFetched PROVE QuotaInv'
  OBVIOUS
<1> DEFINE s == check.got
<1>1. /\ UNCHANGED <<now, usage, loop, clear, faulty>> /\ check.pc = "answered"
      /\ _write_cache(s) /\ Decide(s)
  BY DEF CheckFetched
<1>2. /\ QuotaTypeOK /\ s \in Status /\ s.block \in BOOLEAN /\ s.resets \in Times /\ check.last \in Times
      /\ loop \in [pc : {"sleep", "fetch", "answered"}, since : Times, got : Status]
  BY DEF QuotaInv, QuotaTypeOK, Status
<1>3. (~s.block => clear = now) /\ (s.block => check.last <= s.resets)
  BY <1>1 DEF QuotaInv, AnswersTrue
<1>4. ~s.block => now - clear <= MaxAge
  BY <1>2, <1>3, QuotaNumbers
<1>5. s.block /\ s.resets = Never => check.last = Never
  BY <1>2, <1>3, QuotaNumbers DEF Never
<1> HIDE DEF s
<1>6. /\ answer' \in [by : {"none", "check", "hook"}, sleep : BOOLEAN, open : BOOLEAN,
                      block : BOOLEAN, recent : BOOLEAN, covers : BOOLEAN]
      /\ GoIsRecent' /\ SleepCoversAll'
      /\ \/ check' = NoCheck
         \/ check' = [check EXCEPT !.pc = "refetch", !.since = now, !.got = Idle]
  BY <1>1, <1>2, <1>4, <1>5, DecideRight
<1> QED BY <1>1, <1>2, <1>3, <1>6, CheckTypes, CacheWritten

LEMMA CheckRefetchedKeeps == QuotaInv /\ CheckRefetched => QuotaInv'
<1> SUFFICES ASSUME QuotaInv, CheckRefetched PROVE QuotaInv'
  OBVIOUS
<1> DEFINE s == check.got
           wake == IF s.resets = Never THEN now + Buffer ELSE s.resets + Buffer
<1>1. /\ UNCHANGED <<now, usage, loop, clear, faulty>> /\ check.pc = "reanswered"
      /\ _write_cache(s) /\ check' = NoCheck /\ Say(TRUE, wake, FALSE, s.block)
  BY DEF CheckRefetched
<1>2. /\ QuotaTypeOK /\ s \in Status /\ s.block \in BOOLEAN /\ s.resets \in Times /\ check.last \in Times
      /\ loop \in [pc : {"sleep", "fetch", "answered"}, since : Times, got : Status]
  BY DEF QuotaInv, QuotaTypeOK, Status
<1>3. (~s.block => clear = now) /\ (s.block => check.last <= s.resets)
  BY <1>1 DEF QuotaInv, AnswersTrue
<1>4. s.block => check.last <= wake
  BY <1>2, <1>3, QuotaNumbers DEF Never
<1>5. Recent \in BOOLEAN /\ (check.last <= wake) \in BOOLEAN
  BY <1>2, QuotaNumbers DEF Recent
<1> HIDE DEF s, wake
<1>6. /\ answer' \in [by : {"none", "check", "hook"}, sleep : BOOLEAN, open : BOOLEAN,
                      block : BOOLEAN, recent : BOOLEAN, covers : BOOLEAN]
      /\ GoIsRecent' /\ SleepCoversAll'
  BY <1>1, <1>2, <1>4, <1>5 DEF Say, GoIsRecent, SleepCoversAll
<1> QED BY <1>1, <1>2, <1>3, <1>6, CheckTypes, CacheWritten

\* A step of the loop that asks, or gives up.
LEMMA LoopOnly ==
  ASSUME QuotaInv, UNCHANGED <<now, usage, cache, check, clear>>, answer' = NoAnswer,
         faulty' \in BOOLEAN, faulty => faulty', LoopOnTime',
         loop' \in [pc : {"sleep", "fetch", "answered"}, since : Times, got : Status],
         loop'.pc = "answered" /\ ~loop'.got.block => clear = now
  PROVE  QuotaInv'
<1> USE DEF QuotaInv
<1>1. QuotaTypeOK'
  BY SaysNothing DEF QuotaTypeOK
<1>2. CacheTrue'
  BY DEF CacheTrue, Written, Exhausted
<1>3. AnswersTrue'
  BY DEF AnswersTrue
<1> QED BY <1>1, <1>2, <1>3, SaysNothing

LEMMA LoopWakesKeeps == QuotaInv /\ LoopWakes => QuotaInv'
<1> SUFFICES ASSUME QuotaInv, LoopWakes PROVE QuotaInv'
  OBVIOUS
<1>1. /\ UNCHANGED <<now, usage, cache, check, clear, faulty>> /\ answer' = NoAnswer
      /\ loop.pc = "sleep" /\ now = loop.since + Interval
      /\ loop' = [loop EXCEPT !.pc = "fetch", !.since = now]
  BY DEF LoopWakes
<1>2. /\ QuotaTypeOK /\ loop \in [pc : {"sleep", "fetch", "answered"}, since : Times, got : Status]
      /\ now \in Times /\ now \in Nat /\ Latency \in Nat /\ Interval \in Nat /\ cache.at \in Int
      /\ loop.since \in Int /\ faulty \in BOOLEAN
  BY QuotaNumbers DEF QuotaInv, QuotaTypeOK, Times, Never
<1>3. /\ loop' \in [pc : {"sleep", "fetch", "answered"}, since : Times, got : Status]
      /\ loop'.pc = "fetch" /\ loop'.since = now
  BY <1>1, <1>2
<1>4. LoopOnTime'
  BY <1>1, <1>2, <1>3 DEF QuotaInv, LoopOnTime, Written
<1> QED BY <1>1, <1>2, <1>3, <1>4, LoopOnly

LEMMA LoopFetchKeeps == QuotaInv /\ LoopFetch => QuotaInv'
<1> SUFFICES ASSUME QuotaInv, LoopFetch PROVE QuotaInv'
  OBVIOUS
<1>1. UNCHANGED <<now, usage, cache, check, clear>> /\ answer' = NoAnswer /\ loop.pc = "fetch"
  BY DEF LoopFetch
<1>2. /\ QuotaTypeOK /\ loop \in [pc : {"sleep", "fetch", "answered"}, since : Times, got : Status]
      /\ now \in Times /\ now \in Nat /\ Latency \in Nat /\ Interval \in Nat /\ cache.at \in Int
      /\ loop.since \in Int /\ faulty \in BOOLEAN
  BY QuotaNumbers DEF QuotaInv, QuotaTypeOK, Times, Never
<1>3. CASE /\ \E omit \in SUBSET Windows : \E s \in Binding(omit) :
                loop' = [loop EXCEPT !.pc = "answered", !.got = s]
           /\ UNCHANGED faulty
  <2>1. PICK omit \in SUBSET Windows : \E s \in Binding(omit) :
          loop' = [loop EXCEPT !.pc = "answered", !.got = s]
    BY <1>3
  <2>2. PICK s \in Binding(omit) : loop' = [loop EXCEPT !.pc = "answered", !.got = s]
    BY <2>1
  <2>3. s \in Status /\ s.block = (Exhausted # {})
    BY <1>2, BindingTrue
  <2>4. /\ loop' \in [pc : {"sleep", "fetch", "answered"}, since : Times, got : Status]
        /\ loop'.pc = "answered" /\ loop'.since = loop.since /\ loop'.got = s
    BY <1>2, <2>2, <2>3
  <2>5. ~s.block => clear = now
    BY <2>3 DEF QuotaInv, CacheTrue
  <2>6. LoopOnTime'
    BY <1>1, <1>2, <1>3, <2>4 DEF QuotaInv, LoopOnTime, Written
  <2> QED BY <1>1, <1>2, <1>3, <2>4, <2>5, <2>6, LoopOnly
<1>4. CASE loop' = [loop EXCEPT !.pc = "sleep", !.since = now] /\ faulty' = TRUE
  <2>1. /\ loop' \in [pc : {"sleep", "fetch", "answered"}, since : Times, got : Status]
        /\ loop'.pc = "sleep" /\ loop'.since = now
    BY <1>2, <1>4
  <2>2. LoopOnTime'
    BY <1>1, <1>2, <1>4, <2>1 DEF QuotaInv, LoopOnTime, Written
  <2> QED BY <1>1, <1>4, <2>1, <2>2, LoopOnly
<1> QED BY <1>3, <1>4 DEF LoopFetch

LEMMA LoopWritesKeeps == QuotaInv /\ LoopWrites => QuotaInv'
<1> SUFFICES ASSUME QuotaInv, LoopWrites PROVE QuotaInv'
  OBVIOUS
<1> DEFINE s == loop.got
<1>1. /\ UNCHANGED <<now, usage, check, clear, faulty>> /\ answer' = NoAnswer
      /\ loop.pc = "answered" /\ _write_cache(s)
      /\ loop' = [pc |-> "sleep", since |-> now, got |-> Idle]
  BY DEF LoopWrites
<1>2. /\ QuotaTypeOK /\ s \in Status /\ now \in Times /\ Idle \in Status
      /\ check \in [pc : {"idle", "fetch", "answered", "refetch", "reanswered"},
                    since : Times, got : Status, last : Times]
  BY QuotaNumbers DEF QuotaInv, QuotaTypeOK, Times, Status, Idle
<1>3. ~s.block => clear = now
  BY <1>1 DEF QuotaInv, AnswersTrue
<1>4. /\ loop' \in [pc : {"sleep", "fetch", "answered"}, since : Times, got : Status]
      /\ loop'.pc = "sleep" /\ loop'.since = now
  BY <1>1, <1>2
<1>5. /\ check'.pc \in {"answered", "reanswered"} => /\ ~check'.got.block => clear = now
                                                     /\ check'.got.block => check'.last <= check'.got.resets
      /\ check'.pc \in {"idle", "fetch"} => check'.last = Never
  BY <1>1 DEF QuotaInv, AnswersTrue
<1> HIDE DEF s
<1> QED BY <1>1, <1>2, <1>3, <1>4, <1>5, SaysNothing, CacheWritten

LEMMA InvalidateKeeps == QuotaInv /\ invalidate_cache => QuotaInv'
<1> SUFFICES ASSUME QuotaInv, invalidate_cache PROVE QuotaInv'
  OBVIOUS
<1> USE DEF QuotaInv
<1>1. /\ cache' = NoCache /\ faulty' = TRUE /\ answer' = NoAnswer
      /\ UNCHANGED <<now, usage, check, loop, clear>>
  BY DEF invalidate_cache
<1>2. QuotaTypeOK'
  BY <1>1, SaysNothing DEF QuotaTypeOK, NoCache, Times
<1>3. CacheTrue'
  BY <1>1 DEF CacheTrue, Written, NoCache, Exhausted
<1>4. AnswersTrue' /\ LoopOnTime'
  BY <1>1 DEF AnswersTrue, LoopOnTime, Written
<1> QED BY <1>1, <1>2, <1>3, <1>4, SaysNothing

LEMMA HookKeeps == QuotaInv /\ quota_guard => QuotaInv'
<1> SUFFICES ASSUME QuotaInv, quota_guard PROVE QuotaInv'
  OBVIOUS
<1>1. /\ UNCHANGED <<now, usage, cache, check, loop, clear, faulty>>
      /\ answer' = [by |-> "hook", sleep |-> Fresh /\ cache.block, open |-> ~Fresh,
                    block |-> cache.block, recent |-> Recent, covers |-> TRUE]
  BY DEF quota_guard
<1>2. QuotaTypeOK
  BY DEF QuotaInv
<1>3. Recent \in BOOLEAN /\ Fresh \in BOOLEAN /\ cache.block \in BOOLEAN
  BY <1>2, QuotaNumbers DEF Recent, Fresh
<1>4. Fresh /\ ~cache.block => Recent
  BY <1>2, QuotaNumbers DEF QuotaInv, CacheTrue, Fresh, Written, Recent
<1>5. /\ answer' \in [by : {"none", "check", "hook"}, sleep : BOOLEAN, open : BOOLEAN,
                      block : BOOLEAN, recent : BOOLEAN, covers : BOOLEAN]
      /\ GoIsRecent' /\ SleepCoversAll'
  BY <1>1, <1>3, <1>4 DEF GoIsRecent, SleepCoversAll
<1>6. QuotaTypeOK'
  BY <1>1, <1>2, <1>5 DEF QuotaTypeOK
<1>7. CacheTrue' /\ AnswersTrue' /\ LoopOnTime'
  BY <1>1 DEF QuotaInv, CacheTrue, AnswersTrue, LoopOnTime, Written, Exhausted
<1> QED BY <1>5, <1>6, <1>7 DEF QuotaInv

LEMMA QuotaStepKeeps == QuotaInv /\ [QuotaNext]_quotaVars => QuotaInv'
<1> SUFFICES ASSUME QuotaInv, [QuotaNext]_quotaVars PROVE QuotaInv'
  OBVIOUS
<1>1. CASE Tick
  BY <1>1, TickKeeps
<1>2. ASSUME NEW w \in Windows, Use(w) PROVE QuotaInv'
  BY <1>2, UseKeeps
<1>3. CASE check_and_sleep_if_needed
  BY <1>3, CheckBeginsKeeps
<1>4. CASE CheckFetch
  BY <1>4, CheckFetchKeeps
<1>5. CASE CheckFails
  BY <1>5, CheckFailsKeeps
<1>6. CASE CheckFetched
  BY <1>6, CheckFetchedKeeps
<1>7. CASE CheckRefetched
  BY <1>7, CheckRefetchedKeeps
<1>8. CASE LoopWakes
  BY <1>8, LoopWakesKeeps
<1>9. CASE LoopFetch
  BY <1>9, LoopFetchKeeps
<1>10. CASE LoopWrites
  BY <1>10, LoopWritesKeeps
<1>11. CASE invalidate_cache
  BY <1>11, InvalidateKeeps
<1>12. CASE quota_guard
  BY <1>12, HookKeeps
<1>13. CASE UNCHANGED quotaVars
  BY <1>13 DEF quotaVars, QuotaInv, QuotaTypeOK, CacheTrue, AnswersTrue, LoopOnTime, Written,
       Exhausted, GoIsRecent, SleepCoversAll
<1> QED BY <1>1, <1>2, <1>3, <1>4, <1>5, <1>6, <1>7, <1>8, <1>9, <1>10, <1>11, <1>12, <1>13
     DEF QuotaNext

\* Work goes on only on a word that is recent, waits past every reset it was told
\* of, and finds the cache fresh while the loop runs without failures: for any
\* windows, ages and intervals that leave room for one late request.
THEOREM QuotaIsSafe == QuotaSpec => []QuotaSafe
<1>1. QuotaInv => QuotaSafe
  <2> SUFFICES ASSUME QuotaInv PROVE LoopKeepsFresh
    BY DEF QuotaInv, QuotaSafe
  <2> SUFFICES ASSUME cache # NoCache, ~faulty PROVE Fresh
    BY DEF LoopKeepsFresh
  <2>1. Written
    BY DEF QuotaInv, CacheTrue
  <2> QED BY <2>1, QuotaNumbers DEF QuotaInv, LoopOnTime, Written, Fresh, Times, Never
<1> QED BY <1>1, QuotaInitInv, QuotaStepKeeps, PTL DEF QuotaSpec

-----------------------------------------------------------------------------
(***************************************************************************)
(* The clone registry.  The inductive invariant says who is responsible    *)
(* for what: the registry holds what was registered and no more, a         *)
(* pipeline registers once, and what a cleanup is to delete was a success  *)
(* when it looked.                                                         *)
(***************************************************************************)

\* The registration that lets a clone be deleted.
SuccessOf(p) == [path |-> p, status |-> "success", owner |-> Owner[p]]

OwnEntries == \A e \in registered : e.owner = Owner[e.path]
OnlyRegistered == registry \subseteq registered
NotYetRegistered ==
  \A p \in Pipelines : kpc[p] \in {"working", "append"} =>
    \A e \in registered : e.path # p
DoomedFinished ==
  \A k \in Cleaners : \A p \in doomed[k] :
    SuccessOf(p) \in registered /\ Reach[k] \in {Owner[p], Everyone}
DeletedGone ==
  \A k \in Cleaners : \A p \in deleted[k] :
    p \notin onDisk /\ \E e \in registered : e.path = p

CloneInv ==
  /\ CloneTypeOK /\ LockExact
  /\ OwnEntries /\ OnlyRegistered /\ NotYetRegistered
  /\ DoomedFinished /\ DeletedGone
  /\ RegistrationKept /\ DeletedForgotten

-----------------------------------------------------------------------------
(* The initial state, and stuttering. *)

LEMMA CloneInitInv == CloneInit => CloneInv
BY DEF CloneInit, CloneInv, CloneTypeOK, LockExact, HoldsLock, OwnEntries,
       OnlyRegistered, NotYetRegistered, DoomedFinished, DeletedGone,
       RegistrationKept, DeletedForgotten, Clients

LEMMA CloneStutters == CloneInv /\ UNCHANGED cloneVars => CloneInv'
BY DEF cloneVars, CloneInv, CloneTypeOK, LockExact, HoldsLock, OwnEntries,
       OnlyRegistered, NotYetRegistered, DoomedFinished, DeletedGone,
       RegistrationKept, DeletedForgotten, Listed

-----------------------------------------------------------------------------
(* Taking the lock: nothing but the client's own copy and phase changes. *)

LEMMA TakingKeeps ==
  ASSUME CloneInv, NEW k \in Clients, NEW from, NEW to,
         TakeLock(k, from, to),
         from \notin {"append", "scan", "prune", "done"},
         to \in {"append", "scan", "prune"},
         to = "append" => from = "working",
         UNCHANGED <<onDisk, registry, doomed, deleted, registered>>
  PROVE  CloneInv'
<1> USE DEF CloneInv
<1>1. CloneTypeOK'
  BY DEF CloneTypeOK, TakeLock
<1>2. LockExact'
  <2> SUFFICES ASSUME NEW j \in Clients, HoldsLock(j)'
               PROVE  regLock' = j /\ entries'[j] = registry'
    BY DEF LockExact
  <2>1. CASE j = k
    BY <2>1 DEF TakeLock, CloneTypeOK
  <2>2. CASE j # k
    <3>1. kpc'[j] = kpc[j]
      BY <2>2 DEF TakeLock, CloneTypeOK
    <3>2. regLock = j
      BY <3>1 DEF LockExact, HoldsLock
    <3> QED BY <3>2, CloneAssumption DEF TakeLock, Clients
  <2> QED BY <2>1, <2>2
<1>3. NotYetRegistered'
  <2> SUFFICES ASSUME NEW p \in Pipelines, kpc'[p] \in {"working", "append"}
               PROVE  \A e \in registered : e.path # p
    BY DEF NotYetRegistered
  <2>1. kpc[p] \in {"working", "append"}
    BY DEF TakeLock, CloneTypeOK, Clients
  <2> QED BY <2>1 DEF NotYetRegistered
<1>4. DeletedForgotten'
  <2> SUFFICES ASSUME NEW j \in Cleaners, kpc'[j] = "done", NEW p \in deleted[j]
               PROVE  ~Listed(p)
    BY DEF DeletedForgotten, Listed
  <2>1. kpc[j] = "done"
    BY DEF TakeLock, CloneTypeOK, Clients
  <2> QED BY <2>1 DEF DeletedForgotten
<1> QED
  BY <1>1, <1>2, <1>3, <1>4
  DEF OwnEntries, OnlyRegistered, DoomedFinished, DeletedGone, RegistrationKept

-----------------------------------------------------------------------------
(* Releasing it: only the holder's steps write the registry. *)

LEMMA LeavingKeepsLock ==
  ASSUME CloneTypeOK, LockExact, NEW k \in Clients, NEW from, NEW to,
         LeaveLock(k, from, to), from \in {"append", "scan", "prune"},
         to \in {"done", "delete"}
  PROVE  LockExact'
<1> SUFFICES ASSUME NEW j \in Clients, HoldsLock(j)' PROVE FALSE
  BY DEF LockExact
<1>1. kpc'[k] = to /\ (j # k => kpc'[j] = kpc[j])
  BY DEF LeaveLock, CloneTypeOK
<1>2. j # k /\ kpc[j] \in {"append", "scan", "prune"}
  BY <1>1 DEF HoldsLock
<1> QED BY <1>2 DEF LockExact, HoldsLock, LeaveLock

LEMMA RegisterKeeps ==
  ASSUME CloneInv, NEW p \in Pipelines, NEW status \in CloneStatus,
         RegisterClone(p, status)
  PROVE  CloneInv'
<1> USE DEF CloneInv
<1> DEFINE entry == [path |-> p, status |-> status, owner |-> Owner[p]]
<1>1. p \in Clients /\ entry \in CloneEntry
  BY DEF Clients, CloneEntry, Owners
<1>2. /\ kpc[p] = "append" /\ entries[p] = registry
      /\ registry' = registry \union {entry}
      /\ registered' = registered \union {entry}
      /\ kpc' = [kpc EXCEPT ![p] = "done"]
      /\ UNCHANGED <<onDisk, doomed, deleted>>
  BY <1>1 DEF RegisterClone, LeaveLock, LockExact, HoldsLock
<1>3. entry.path = p /\ entry.owner = Owner[p]
  OBVIOUS
<1>4. \A e \in registered : e.path # p
  BY <1>2 DEF NotYetRegistered
<1> HIDE DEF entry
<1>5. CloneTypeOK'
  BY <1>1, <1>2 DEF CloneTypeOK, RegisterClone, LeaveLock
<1>6. LockExact'
  BY <1>1, LeavingKeepsLock DEF RegisterClone
<1>7. NotYetRegistered'
  <2> SUFFICES ASSUME NEW q \in Pipelines, kpc'[q] \in {"working", "append"},
                      NEW e \in registered'
               PROVE  e.path # q
    BY DEF NotYetRegistered
  <2>1. q # p /\ kpc[q] \in {"working", "append"}
    BY <1>1, <1>2 DEF CloneTypeOK, Clients
  <2> QED BY <2>1, <1>2, <1>3 DEF NotYetRegistered
<1>8. DeletedForgotten'
  <2> SUFFICES ASSUME NEW k \in Cleaners, kpc'[k] = "done", NEW q \in deleted[k],
                      NEW e \in registry', e.path = q
               PROVE  FALSE
    BY <1>2 DEF DeletedForgotten, Listed
  <2>1. k # p /\ kpc[k] = "done"
    BY <1>1, <1>2, CloneAssumption DEF CloneTypeOK, Clients
  <2>2. q # p
    BY <1>4 DEF DeletedGone
  <2> QED BY <2>1, <2>2, <1>2, <1>3 DEF DeletedForgotten, Listed
<1>9. OwnEntries' /\ OnlyRegistered'
  BY <1>2, <1>3 DEF OwnEntries, OnlyRegistered
<1>10. DoomedFinished' /\ DeletedGone' /\ RegistrationKept'
  BY <1>2 DEF DoomedFinished, DeletedGone, RegistrationKept
<1> QED BY <1>5, <1>6, <1>7, <1>8, <1>9, <1>10

LEMMA ScanKeeps ==
  ASSUME CloneInv, NEW k \in Cleaners, Scan(k)
  PROVE  CloneInv'
<1> USE DEF CloneInv
<1>1. k \in Clients /\ k \notin Pipelines
  BY CloneAssumption DEF Clients
<1>2. /\ kpc[k] = "scan" /\ entries[k] = registry
      /\ kpc' = [kpc EXCEPT ![k] = "delete"]
      /\ doomed' = [doomed EXCEPT ![k] = Candidates(k)]
      /\ UNCHANGED <<onDisk, registry, deleted, registered>>
  BY <1>1 DEF Scan, LeaveLock, LockExact, HoldsLock
<1>3. ASSUME NEW p \in Candidates(k)
      PROVE  /\ p \in Pipelines /\ SuccessOf(p) \in registered
             /\ Reach[k] \in {Owner[p], Everyone}
  <2>1. PICK e \in registry :
          e.path = p /\ e.status = "success" /\ Reach[k] \in {e.owner, Everyone}
    BY <1>2 DEF Candidates, InReach
  <2>2. e \in registered /\ e \in CloneEntry /\ e.owner = Owner[p]
    BY <2>1 DEF OnlyRegistered, OwnEntries, CloneTypeOK
  <2>3. e = SuccessOf(p)
    BY <2>1, <2>2 DEF CloneEntry, SuccessOf
  <2> QED BY <2>1, <2>2, <2>3 DEF CloneEntry
<1>4. CloneTypeOK'
  BY <1>1, <1>2, <1>3 DEF CloneTypeOK, Scan, LeaveLock
<1>5. LockExact'
  BY <1>1, LeavingKeepsLock DEF Scan
<1>6. DoomedFinished'
  BY <1>2, <1>3 DEF DoomedFinished, CloneTypeOK, SuccessOf
<1>7. NotYetRegistered'
  BY <1>1, <1>2 DEF NotYetRegistered, CloneTypeOK, Clients
<1>8. DeletedForgotten'
  BY <1>1, <1>2 DEF DeletedForgotten, Listed, CloneTypeOK
<1> QED
  BY <1>2, <1>4, <1>5, <1>6, <1>7, <1>8
  DEF OwnEntries, OnlyRegistered, DeletedGone, RegistrationKept

LEMMA PruneKeeps ==
  ASSUME CloneInv, NEW k \in Cleaners, PruneDeleted(k)
  PROVE  CloneInv'
<1> USE DEF CloneInv
<1>1. k \in Clients /\ k \notin Pipelines
  BY CloneAssumption DEF Clients
<1>2. /\ kpc[k] = "prune" /\ entries[k] = registry
      /\ kpc' = [kpc EXCEPT ![k] = "done"]
      /\ registry' = {e \in registry : e.path \notin deleted[k]}
      /\ UNCHANGED <<onDisk, doomed, deleted, registered>>
  BY <1>1 DEF PruneDeleted, LeaveLock, LockExact, HoldsLock
<1>3. CloneTypeOK'
  BY <1>1, <1>2 DEF CloneTypeOK, PruneDeleted, LeaveLock
<1>4. LockExact'
  BY <1>1, LeavingKeepsLock DEF PruneDeleted
<1>5. NotYetRegistered'
  BY <1>1, <1>2 DEF NotYetRegistered, CloneTypeOK, Clients
<1>6. RegistrationKept'
  BY <1>2 DEF RegistrationKept, DeletedGone
<1>7. DeletedForgotten'
  <2> SUFFICES ASSUME NEW j \in Cleaners, kpc'[j] = "done", NEW p \in deleted[j],
                      NEW e \in registry', e.path = p
               PROVE  FALSE
    BY <1>2 DEF DeletedForgotten, Listed
  <2>1. j = k \/ kpc[j] = "done"
    BY <1>1, <1>2 DEF CloneTypeOK
  <2> QED BY <2>1, <1>2 DEF DeletedForgotten, Listed
<1> QED
  BY <1>2, <1>3, <1>4, <1>5, <1>6, <1>7
  DEF OwnEntries, OnlyRegistered, DoomedFinished, DeletedGone

-----------------------------------------------------------------------------
(* The steps outside the lock. *)

LEMMA RemoveKeeps ==
  ASSUME CloneInv, NEW k \in Cleaners, NEW p \in Pipelines, RemoveClone(k, p)
  PROVE  CloneInv'
<1> USE DEF CloneInv
<1>1. /\ p \in doomed[k] /\ doomed' = [doomed EXCEPT ![k] = @ \ {p}]
      /\ kpc[k] = "delete"
      /\ UNCHANGED <<registry, regLock, kpc, entries, registered>>
  BY DEF RemoveClone
<1>2. \/ onDisk' = onDisk \ {p} /\ deleted' = [deleted EXCEPT ![k] = @ \union {p}]
      \/ UNCHANGED <<onDisk, deleted>>
  BY DEF RemoveClone
<1>3. CloneTypeOK'
  BY <1>1, <1>2 DEF CloneTypeOK
<1>4. DoomedFinished'
  BY <1>1 DEF DoomedFinished, CloneTypeOK, SuccessOf
<1>5. SuccessOf(p) \in registered /\ SuccessOf(p).path = p
  BY <1>1 DEF DoomedFinished, SuccessOf
<1>6. DeletedGone'
  <2> SUFFICES ASSUME NEW j \in Cleaners, NEW q \in deleted'[j]
               PROVE  q \notin onDisk' /\ \E e \in registered : e.path = q
    BY <1>1 DEF DeletedGone
  <2>1. CASE q \in deleted[j]
    BY <2>1, <1>2 DEF DeletedGone
  <2>2. CASE q \notin deleted[j]
    <3>1. q = p /\ onDisk' = onDisk \ {p}
      BY <2>2, <1>2 DEF CloneTypeOK
    <3> QED BY <3>1, <1>5
  <2> QED BY <2>1, <2>2
<1>7. DeletedForgotten'
  <2> SUFFICES ASSUME NEW j \in Cleaners, kpc[j] = "done", NEW q \in deleted'[j]
               PROVE  ~Listed(q)
    BY <1>1 DEF DeletedForgotten, Listed
  <2>1. q \in deleted[j]
    BY <1>1, <1>2 DEF CloneTypeOK
  <2> QED BY <2>1 DEF DeletedForgotten
<1>8. LockExact' /\ NotYetRegistered'
  BY <1>1 DEF LockExact, HoldsLock, NotYetRegistered
<1>9. RegistrationKept'
  BY <1>1, <1>2 DEF RegistrationKept
<1> QED
  BY <1>1, <1>3, <1>4, <1>6, <1>7, <1>8, <1>9 DEF OwnEntries, OnlyRegistered

LEMMA NothingKeeps ==
  ASSUME CloneInv, NEW k \in Cleaners, NothingDeleted(k)
  PROVE  CloneInv'
<1> USE DEF CloneInv
<1>1. k \in Clients /\ k \notin Pipelines
  BY CloneAssumption DEF Clients
<1>2. /\ kpc[k] = "delete" /\ deleted[k] = {}
      /\ kpc' = [kpc EXCEPT ![k] = "done"]
      /\ UNCHANGED <<onDisk, registry, regLock, entries, doomed, deleted, registered>>
  BY DEF NothingDeleted, NeedsPrune
<1>3. CloneTypeOK'
  BY <1>1, <1>2 DEF CloneTypeOK
<1>4. LockExact' /\ NotYetRegistered'
  BY <1>1, <1>2 DEF LockExact, HoldsLock, NotYetRegistered, CloneTypeOK, Clients
<1>5. DeletedForgotten'
  BY <1>1, <1>2 DEF DeletedForgotten, Listed, CloneTypeOK
<1> QED
  BY <1>2, <1>3, <1>4, <1>5
  DEF OwnEntries, OnlyRegistered, DoomedFinished, DeletedGone, RegistrationKept

LEMMA CrashKeeps ==
  ASSUME CloneInv, NEW k \in Clients, CloneCrash(k)
  PROVE  CloneInv'
<1> USE DEF CloneInv
<1>1. /\ kpc[k] \notin {"working", "done"} /\ kpc' = [kpc EXCEPT ![k] = "dead"]
      /\ regLock' = (IF regLock = k THEN NoHolder ELSE regLock)
      /\ UNCHANGED <<onDisk, registry, entries, doomed, deleted, registered>>
  BY DEF CloneCrash
<1>2. CloneTypeOK'
  BY <1>1 DEF CloneTypeOK
<1>3. LockExact' /\ NotYetRegistered'
  BY <1>1 DEF LockExact, HoldsLock, NotYetRegistered, CloneTypeOK, Clients
<1>4. DeletedForgotten'
  BY <1>1 DEF DeletedForgotten, Listed, CloneTypeOK, Clients
<1> QED
  BY <1>1, <1>2, <1>3, <1>4
  DEF OwnEntries, OnlyRegistered, DoomedFinished, DeletedGone, RegistrationKept

-----------------------------------------------------------------------------
(* Every step. *)

LEMMA CloneStepKeeps == CloneInv /\ [CloneNext]_cloneVars => CloneInv'
<1> SUFFICES ASSUME CloneInv, [CloneNext]_cloneVars PROVE CloneInv'
  OBVIOUS
<1>1. ASSUME NEW k \in Clients, CloneCrash(k) PROVE CloneInv'
  BY <1>1, CrashKeeps
<1>2. ASSUME NEW k \in Clients, RegisterOpens(k) PROVE CloneInv'
  BY <1>2, TakingKeeps DEF RegisterOpens
<1>3. ASSUME NEW k \in Clients, NEW status \in CloneStatus, RegisterClone(k, status)
      PROVE  CloneInv'
  BY <1>3, RegisterKeeps DEF RegisterClone
<1>4. ASSUME NEW k \in Clients, ScanOpens(k) PROVE CloneInv'
  BY <1>4, TakingKeeps DEF ScanOpens
<1>5. ASSUME NEW k \in Clients, Scan(k) PROVE CloneInv'
  BY <1>5, ScanKeeps DEF Scan
<1>6. ASSUME NEW k \in Clients, NEW p \in Pipelines, RemoveClone(k, p) PROVE CloneInv'
  BY <1>6, RemoveKeeps DEF RemoveClone
<1>7. ASSUME NEW k \in Clients, PruneOpens(k) PROVE CloneInv'
  BY <1>7, TakingKeeps DEF PruneOpens
<1>8. ASSUME NEW k \in Clients, PruneDeleted(k) PROVE CloneInv'
  BY <1>8, PruneKeeps DEF PruneDeleted
<1>9. ASSUME NEW k \in Clients, NothingDeleted(k) PROVE CloneInv'
  BY <1>9, NothingKeeps DEF NothingDeleted
<1>10. CASE UNCHANGED cloneVars
  BY <1>10, CloneStutters
<1> QED
  BY <1>1, <1>2, <1>3, <1>4, <1>5, <1>6, <1>7, <1>8, <1>9, <1>10
  DEF CloneNext, CloneProgress

\* The inductive invariant of the clone registry holds in every reachable state.
THEOREM CloneInvariant == CloneSpec => []CloneInv
<1> QED BY CloneInitInv, CloneStepKeeps, PTL DEF CloneSpec

\* The registry's variables keep their types.
THEOREM CloneTyped == CloneSpec => []CloneTypeOK
<1>1. CloneInv => CloneTypeOK BY DEF CloneInv
<1> QED BY <1>1, CloneInvariant, PTL

\* A client between reading and replacing the registry file holds its lock, and
\* what it read is what the file holds.
THEOREM LockIsExact == CloneSpec => []LockExact
<1>1. CloneInv => LockExact BY DEF CloneInv
<1> QED BY <1>1, CloneInvariant, PTL

\* No registration of a clone that exists is lost, however many pipelines register
\* and cleanups prune.
THEOREM RegistrationsStay == CloneSpec => []RegistrationKept
<1>1. CloneInv => RegistrationKept BY DEF CloneInv
<1> QED BY <1>1, CloneInvariant, PTL

\* A cleanup that returns has taken what it deleted out of the registry.
THEOREM DeletedAreForgotten == CloneSpec => []DeletedForgotten
<1>1. CloneInv => DeletedForgotten BY DEF CloneInv
<1> QED BY <1>1, CloneInvariant, PTL

\* Only a clone that its pipeline registered as a success is ever deleted, by a
\* cleanup whose scope it is in.
THEOREM OnlyFinishedGo == CloneSpec => OnlyFinished
<1> DEFINE Allowed ==
      \A p \in onDisk \ onDisk' :
        /\ [path |-> p, status |-> "success", owner |-> Owner[p]] \in registered
        /\ \E k \in Cleaners : p \in doomed[k] /\ Reach[k] \in {Owner[p], Everyone}
<1>1. CloneInv /\ [CloneNext]_cloneVars => [Allowed]_onDisk
  <2> SUFFICES ASSUME CloneInv, CloneNext, onDisk' # onDisk PROVE Allowed
    BY DEF cloneVars
  <2>1. PICK k \in Cleaners, p \in Pipelines : RemoveClone(k, p)
    BY DEF CloneNext, CloneProgress, CloneCrash, RegisterOpens, RegisterClone,
           ScanOpens, Scan, PruneOpens, PruneDeleted, NothingDeleted, RemoveClone
  <2>2. onDisk \ onDisk' \subseteq {p} /\ p \in doomed[k]
    BY <2>1 DEF RemoveClone
  <2>3. SuccessOf(p) \in registered /\ Reach[k] \in {Owner[p], Everyone}
    BY <2>2 DEF CloneInv, DoomedFinished
  <2> QED BY <2>2, <2>3 DEF SuccessOf
<1> QED BY <1>1, CloneInvariant, PTL DEF CloneSpec, OnlyFinished

\* All that is said of the registry, whatever clients run on it.
THEOREM RegistryIsSafe == CloneSpec => []CloneSafe
<1> QED BY CloneTyped, LockIsExact, RegistrationsStay, DeletedAreForgotten, PTL DEF CloneSafe

-----------------------------------------------------------------------------
(***************************************************************************)
(* The kitchens.  The inductive invariant adds to the properties that no   *)
(* server has more calls of open_kitchen at their await than were made,    *)
(* that a gate is open in a running server only, and which entry the       *)
(* doctor finds.                                                           *)
(***************************************************************************)

OpeningCounted == \A s \in Kitchens : opening[s] <= opens
OpenIsUp == \A s \in Kitchens : gateOpen[s] => s \in up
Entry(s) == [id |-> kitchen[s], pid |-> s]
OpenIsRegistered ==
  \A s \in Kitchens : Settled(s) /\ kitchen[s] \notin closed => Entry(s) \in active

KitchenInv ==
  /\ KitchenTypeOK
  /\ OpeningCounted /\ OpenIsUp /\ OpenIsRegistered
  /\ RefreshedWhileOpen /\ GuardIsBack

LEMMA KitchenIdTypes ==
  /\ NoKitchen = KitchenId(Solo, 0)
  /\ \A s \in Kitchens : opens \in 0..MaxOpens /\ opens < MaxOpens =>
       NewKitchen(s) \in KitchenIds /\ NewKitchen(s) # NoKitchen
<1> SUFFICES ASSUME NEW s \in Kitchens, opens \in 0..MaxOpens, opens < MaxOpens
             PROVE  NewKitchen(s) \in KitchenIds /\ NewKitchen(s) # NoKitchen
  BY DEF NoKitchen
<1>1. CASE CampaignOf[s] = Solo
  <2>1. opens + 1 \in 1..MaxOpens /\ opens + 1 # 0
    BY KitchenAssumption
  <2>2. NewKitchen(s) = KitchenId(Solo, opens + 1)
    BY <1>1 DEF NewKitchen
  <2> QED BY <2>1, <2>2 DEF KitchenIds, KitchenId, NoKitchen
<1>2. CASE CampaignOf[s] # Solo
  <2>1. CampaignOf[s] \in Campaigns
    BY <1>2 DEF Campaigns
  <2>2. NewKitchen(s) = KitchenId(CampaignOf[s], 0)
    BY <1>2 DEF NewKitchen
  <2> QED BY <1>2, <2>1, <2>2 DEF KitchenIds, KitchenId, NoKitchen
<1> QED BY <1>1, <1>2

LEMMA KitchenInitInv == KitchenInit => KitchenInv
<1> SUFFICES ASSUME KitchenInit PROVE KitchenInv
  OBVIOUS
<1>1. KitchenTypeOK
  BY KitchenAssumption DEF KitchenInit, KitchenTypeOK
<1>2. OpeningCounted /\ OpenIsUp /\ OpenIsRegistered
  BY DEF KitchenInit, OpeningCounted, OpenIsUp, OpenIsRegistered, Settled
<1>3. RefreshedWhileOpen /\ GuardIsBack
  BY DEF KitchenInit, RefreshedWhileOpen, GuardIsBack, Settled, NoConfig
<1> QED BY <1>1, <1>2, <1>3 DEF KitchenInv

-----------------------------------------------------------------------------
(* Opening a kitchen. *)

LEMMA OpenKeeps ==
  ASSUME KitchenInv, NEW s \in Kitchens, OpenKitchen(s)
  PROVE  KitchenInv'
<1> USE DEF KitchenInv
<1>1. opens \in 0..MaxOpens /\ opens < MaxOpens /\ opens' = opens + 1
  BY DEF KitchenTypeOK, OpenKitchen
<1>2. opens' \in 0..MaxOpens /\ opening[s] + 1 \in 0..MaxOpens
  BY <1>1, KitchenAssumption DEF OpeningCounted, KitchenTypeOK
<1>3. ProjectOf[s] \in Projects
  BY DEF Projects
<1>4. KitchenTypeOK'
  BY <1>1, <1>2, <1>3, KitchenIdTypes DEF KitchenTypeOK, OpenKitchen, HookConfig
<1>5. OpeningCounted'
  BY <1>1, KitchenAssumption DEF OpeningCounted, KitchenTypeOK, OpenKitchen
<1>6. OpenIsUp'
  BY DEF OpenIsUp, OpenKitchen, KitchenTypeOK
<1>7. ASSUME NEW t \in Kitchens, Settled(t)'
      PROVE  t # s /\ Settled(t) /\ kitchen'[t] = kitchen[t]
  <2>1. opening[s] + 1 # 0
    BY DEF KitchenTypeOK
  <2> QED BY <1>7, <2>1 DEF Settled, OpenKitchen, KitchenTypeOK
<1>8. OpenIsRegistered' /\ RefreshedWhileOpen'
  BY <1>7 DEF OpenIsRegistered, RefreshedWhileOpen, Entry, OpenKitchen
<1>9. GuardIsBack'
  <2> SUFFICES ASSUME NEW t \in Kitchens, Alone(t), gateOpen'[t],
                      hooks'[ProjectOf[t]] = "off"
               PROVE  t \in disabled'
    BY DEF GuardIsBack, Alone
  <2>1. t # s
    BY <1>3 DEF OpenKitchen, HookConfig, KitchenTypeOK
  <2>2. ProjectOf[t] # ProjectOf[s] /\ gateOpen[t]
    BY <2>1 DEF Alone, OpenKitchen, KitchenTypeOK
  <2>3. hooks[ProjectOf[t]] = "off"
    BY <2>2 DEF OpenKitchen, KitchenTypeOK, Projects
  <2> QED BY <2>1, <2>2, <2>3 DEF GuardIsBack, OpenKitchen
<1> QED BY <1>4, <1>5, <1>6, <1>8, <1>9

LEMMA ContinueKeeps ==
  ASSUME KitchenInv, NEW s \in Kitchens, OpenContinues(s)
  PROVE  KitchenInv'
<1> USE DEF KitchenInv
<1>1. opening[s] \in 0..MaxOpens /\ opening[s] > 0 /\ opening[s] <= opens /\ opens \in Nat
  BY KitchenAssumption DEF KitchenTypeOK, OpenContinues, OpeningCounted
<1>2. opening[s] - 1 \in 0..MaxOpens /\ opening[s] - 1 <= opens
  BY <1>1, KitchenAssumption
<1>3. [id |-> kitchen[s], pid |-> s] \in [id : KitchenIds \union {NoKitchen}, pid : Kitchens]
  BY DEF KitchenTypeOK
<1>4. KitchenTypeOK'
  BY <1>2, <1>3 DEF KitchenTypeOK, OpenContinues
<1>5. OpeningCounted' /\ OpenIsUp' /\ GuardIsBack'
  BY <1>2 DEF OpeningCounted, OpenIsUp, GuardIsBack, Alone, OpenContinues, KitchenTypeOK
<1>6. ASSUME NEW t \in Kitchens, Settled(t)'
      PROVE  gateOpen[t] /\ (t # s => Settled(t))
  BY <1>6 DEF Settled, OpenContinues, KitchenTypeOK
<1>7. OpenIsRegistered'
  BY <1>6 DEF OpenIsRegistered, Entry, OpenContinues
<1>8. RefreshedWhileOpen'
  BY <1>6 DEF RefreshedWhileOpen, OpenContinues, KitchenTypeOK
<1> QED BY <1>4, <1>5, <1>7, <1>8

-----------------------------------------------------------------------------
(* Closing it, and the end of a server. *)

LEMMA CloseKeeps ==
  ASSUME KitchenInv, NEW s \in Kitchens, CloseKitchen(s)
  PROVE  KitchenInv'
<1> USE DEF KitchenInv
<1>1. ProjectOf[s] \in Projects
  BY DEF Projects
<1>2. KitchenTypeOK'
  BY <1>1 DEF KitchenTypeOK, CloseKitchen, Unregister
<1>3. OpeningCounted' /\ OpenIsUp'
  BY DEF OpeningCounted, OpenIsUp, CloseKitchen, KitchenTypeOK
<1>4. ASSUME NEW t \in Kitchens, Settled(t)'
      PROVE  t # s /\ Settled(t) /\ kitchen'[t] = kitchen[t] /\ kitchen[t] # NoKitchen
  BY <1>4 DEF Settled, CloseKitchen, KitchenTypeOK
<1>5. OpenIsRegistered'
  <2> SUFFICES ASSUME NEW t \in Kitchens, Settled(t)', kitchen'[t] \notin closed'
               PROVE  Entry(t) \in active'
    BY DEF OpenIsRegistered, Entry, CloseKitchen
  <2>1. kitchen[t] # kitchen[s] /\ kitchen[t] \notin closed
    BY <1>4 DEF CloseKitchen
  <2>2. Entry(t) \in active /\ Entry(t).id = kitchen[t]
    BY <2>1, <1>4 DEF OpenIsRegistered, Entry
  <2> QED BY <2>1, <2>2 DEF CloseKitchen, Unregister
<1>6. RefreshedWhileOpen'
  BY <1>4 DEF RefreshedWhileOpen, CloseKitchen, KitchenTypeOK
<1>7. GuardIsBack'
  BY <1>1 DEF GuardIsBack, Alone, CloseKitchen, KitchenTypeOK, NoConfig, Projects
<1> QED BY <1>2, <1>3, <1>5, <1>6, <1>7

LEMMA DisableKeeps ==
  ASSUME KitchenInv, NEW s \in Kitchens, DisableQuotaGuard(s)
  PROVE  KitchenInv'
<1> USE DEF KitchenInv
<1>1. ProjectOf[s] \in Projects
  BY DEF Projects
<1>2. KitchenTypeOK'
  BY <1>1 DEF KitchenTypeOK, DisableQuotaGuard, perServer
<1>3. OpeningCounted' /\ OpenIsUp' /\ OpenIsRegistered' /\ RefreshedWhileOpen'
  BY DEF OpeningCounted, OpenIsUp, OpenIsRegistered, RefreshedWhileOpen, Settled,
         Entry, DisableQuotaGuard, perServer
<1>4. GuardIsBack'
  BY <1>1 DEF GuardIsBack, Alone, DisableQuotaGuard, perServer, KitchenTypeOK, Projects
<1> QED BY <1>2, <1>3, <1>4

LEMMA GoneKeeps ==
  ASSUME KitchenInv, NEW s \in Kitchens, Gone(s),
         active' \subseteq active, \A e \in active : e.pid # s => e \in active'
  PROVE  KitchenInv'
<1> USE DEF KitchenInv
<1>1. KitchenTypeOK'
  BY KitchenAssumption DEF KitchenTypeOK, Gone
<1>2. ASSUME NEW t \in Kitchens, gateOpen'[t]
      PROVE  /\ t # s /\ gateOpen[t] /\ kitchen'[t] = kitchen[t]
             /\ opening'[t] = opening[t] /\ refreshing'[t] = refreshing[t]
  BY <1>2 DEF Gone, KitchenTypeOK
<1>3. OpeningCounted'
  BY KitchenAssumption DEF OpeningCounted, Gone, KitchenTypeOK
<1>4. OpenIsUp' /\ RefreshedWhileOpen' /\ GuardIsBack'
  BY <1>2 DEF OpenIsUp, RefreshedWhileOpen, GuardIsBack, Alone, Settled, Gone
<1>5. OpenIsRegistered'
  <2> SUFFICES ASSUME NEW t \in Kitchens, Settled(t)', kitchen'[t] \notin closed
               PROVE  [id |-> kitchen'[t], pid |-> t] \in active'
    BY DEF OpenIsRegistered, Entry, Gone
  <2>1. t # s /\ Settled(t) /\ kitchen'[t] = kitchen[t]
    BY <1>2 DEF Settled
  <2>2. [id |-> kitchen[t], pid |-> t] \in active
    BY <2>1 DEF OpenIsRegistered, Entry
  <2> QED BY <2>1, <2>2
<1> QED BY <1>1, <1>3, <1>4, <1>5

LEMMA DoctorKeeps == KitchenInv /\ Doctor => KitchenInv'
<1> SUFFICES ASSUME KitchenInv, Doctor PROVE KitchenInv'
  OBVIOUS
<1> USE DEF KitchenInv
<1>1. KitchenTypeOK'
  BY DEF KitchenTypeOK, Doctor, perServer
<1>2. OpeningCounted' /\ OpenIsUp' /\ RefreshedWhileOpen' /\ GuardIsBack'
  BY DEF OpeningCounted, OpenIsUp, RefreshedWhileOpen, GuardIsBack, Alone, Settled,
         Doctor, perServer
<1>3. OpenIsRegistered'
  <2> SUFFICES ASSUME NEW t \in Kitchens, Settled(t), kitchen[t] \notin closed
               PROVE  Entry(t) \in active'
    BY DEF OpenIsRegistered, Entry, Settled, Doctor, perServer
  <2>1. Entry(t) \in active /\ Entry(t).pid = t /\ t \in up
    BY DEF OpenIsRegistered, Entry, OpenIsUp, Settled
  <2> QED BY <2>1 DEF Doctor, PidAlive
<1> QED BY <1>1, <1>2, <1>3

LEMMA KitchenStutters == KitchenInv /\ UNCHANGED kitchenVars => KitchenInv'
BY DEF kitchenVars, perServer, KitchenInv, KitchenTypeOK, OpeningCounted, OpenIsUp,
       OpenIsRegistered, Entry, RefreshedWhileOpen, GuardIsBack, Alone, Settled

-----------------------------------------------------------------------------
(* Every step, and the theorems. *)

LEMMA KitchenStepKeeps == KitchenInv /\ [KitchenNext]_kitchenVars => KitchenInv'
<1> SUFFICES ASSUME KitchenInv, [KitchenNext]_kitchenVars PROVE KitchenInv'
  OBVIOUS
<1>1. CASE Doctor
  BY <1>1, DoctorKeeps
<1>2. ASSUME NEW s \in Kitchens, OpenKitchen(s) PROVE KitchenInv'
  BY <1>2, OpenKeeps
<1>3. ASSUME NEW s \in Kitchens, OpenContinues(s) PROVE KitchenInv'
  BY <1>3, ContinueKeeps
<1>4. ASSUME NEW s \in Kitchens, CloseKitchen(s) PROVE KitchenInv'
  BY <1>4, CloseKeeps
<1>5. ASSUME NEW s \in Kitchens, DisableQuotaGuard(s) PROVE KitchenInv'
  BY <1>5, DisableKeeps
<1>6. ASSUME NEW s \in Kitchens, Teardown(s) PROVE KitchenInv'
  BY <1>6, GoneKeeps DEF Teardown
<1>7. ASSUME NEW s \in Kitchens, Killed(s) PROVE KitchenInv'
  BY <1>7, GoneKeeps DEF Killed
<1>8. CASE UNCHANGED kitchenVars
  BY <1>8, KitchenStutters
<1> QED
  BY <1>1, <1>2, <1>3, <1>4, <1>5, <1>6, <1>7, <1>8 DEF KitchenNext

\* The inductive invariant of the kitchens holds in every reachable state.
THEOREM KitchenInvariant == KitchenSpec => []KitchenInv
<1> QED BY KitchenInitInv, KitchenStepKeeps, PTL DEF KitchenSpec

\* The kitchens' variables keep their types.
THEOREM KitchenTyped == KitchenSpec => []KitchenTypeOK
<1>1. KitchenInv => KitchenTypeOK BY DEF KitchenInv
<1> QED BY <1>1, KitchenInvariant, PTL

\* The doctor knows of every open kitchen whose id nobody closed.
THEOREM DoctorIsRight == KitchenSpec => []DoctorKnows
<1>1. KitchenInv => DoctorKnows
  <2> SUFFICES ASSUME KitchenInv, NEW s \in Kitchens, Settled(s), kitchen[s] \notin closed
               PROVE  KitchenOpen(ProjectOf[s])
    BY DEF DoctorKnows
  <2>1. Entry(s) \in active /\ Entry(s).pid = s /\ s \in up
    BY DEF KitchenInv, OpenIsRegistered, OpenIsUp, Entry, Settled
  <2> QED BY <2>1 DEF KitchenOpen, PidAlive
<1> QED BY <1>1, KitchenInvariant, PTL

\* The quota cache of an open kitchen is being refreshed, however the opens and
\* closes of its server interleave.
THEOREM OpenIsRefreshed == KitchenSpec => []RefreshedWhileOpen
<1>1. KitchenInv => RefreshedWhileOpen BY DEF KitchenInv
<1> QED BY <1>1, KitchenInvariant, PTL

\* In a project of its own, an open kitchen's guard is off only if its session
\* disabled it since it opened the kitchen.
THEOREM GuardComesBack == KitchenSpec => []GuardIsBack
<1>1. KitchenInv => GuardIsBack BY DEF KitchenInv
<1> QED BY <1>1, KitchenInvariant, PTL

\* All that other sessions may rely on while kitchens open, close and die.
THEOREM KitchensAreSafe == KitchenSpec => []KitchenSafe
<1> QED BY KitchenTyped, DoctorIsRight, OpenIsRefreshed, GuardComesBack, PTL DEF KitchenSafe
=============================================================================
