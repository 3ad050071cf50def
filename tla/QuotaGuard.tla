----------------------------- MODULE QuotaGuard -----------------------------
(***************************************************************************)
(* The quota guard: dispatches and hooks decide whether to wait from a     *)
(* cache of the rate-limit windows, which the kitchen's refresh loop and   *)
(* the checks themselves write from an API that answers late or not at     *)
(* all, while the windows fill and reset.                                  *)
(***************************************************************************)
EXTENDS Integers

CONSTANTS Windows,   \* rate-limit windows whose class is enabled
          Span,      \* window -> its length
          MaxAge,    \* cache_max_age
          Interval,  \* cache_refresh_interval
          Latency,   \* the longest a request takes (_httpx_timeout)
          Buffer,    \* buffer_seconds
          MaxTime    \* bound: the last instant

ASSUME QuotaAssumption ==
  /\ Windows # {} /\ Span \in [Windows -> Nat \ {0}]
  /\ {MaxAge, Interval, Latency, Buffer, MaxTime} \subseteq Nat
  /\ Interval + Latency <= MaxAge

VARIABLES now,
          usage,    \* window -> its utilization and the instant it resets
          cache,    \* the cache file
          check,    \* check_and_sleep_if_needed
          loop,     \* _quota_refresh_loop
          answer,   \* what the last step said, if it ended a check or was the hook
          clear,    \* history: the last instant with no window at its threshold
          faulty    \* history: a request failed, or the cache was invalidated

quotaVars == <<now, usage, cache, check, loop, answer, clear, faulty>>

Never == -1             \* no resets_at
NoCache == [at |-> Never, block |-> FALSE, resets |-> Never]
Times == Nat \union {Never}
Status == [block : BOOLEAN, resets : Times]
Idle == [block |-> FALSE, resets |-> Never]
NoCheck == [pc |-> "idle", since |-> 0, got |-> Idle, last |-> Never]
NoAnswer == [by |-> "none", sleep |-> FALSE, open |-> TRUE, block |-> FALSE,
             recent |-> TRUE, covers |-> TRUE]

QuotaTypeOK ==
  /\ now \in 0..MaxTime /\ clear \in 0..MaxTime /\ faulty \in BOOLEAN
  /\ usage \in [Windows -> [level : {"low", "high", "exhausted"}, resets : Times]]
  /\ cache \in [at : Times, block : BOOLEAN, resets : Times]
  /\ check \in [pc : {"idle", "fetch", "answered", "refetch", "reanswered"}, since : Times,
                got : Status, last : Times]
  /\ loop \in [pc : {"sleep", "fetch", "answered"}, since : Times, got : Status]
  /\ answer \in [by : {"none", "check", "hook"}, sleep : BOOLEAN, open : BOOLEAN,
                 block : BOOLEAN, recent : BOOLEAN, covers : BOOLEAN]

QuotaInit ==
  /\ now = 0 /\ clear = 0 /\ faulty = FALSE
  /\ usage = [w \in Windows |-> [level |-> "low", resets |-> Never]]
  /\ cache = NoCache
  /\ check = NoCheck
  /\ loop = [pc |-> "sleep", since |-> 0, got |-> Idle]
  /\ answer = NoAnswer

----------------------------------------------------------------------------
(* The account.                                                             *)

Exhausted == {w \in Windows : usage[w].level = "exhausted"}

Use(w) ==
  /\ usage[w].level # "exhausted"
  /\ usage' = [usage EXCEPT ![w] =
       [level |-> IF @.level = "low" THEN "high" ELSE "exhausted",
        resets |-> IF @.resets = Never THEN now + Span[w] ELSE @.resets]]
  /\ answer' = NoAnswer /\ UNCHANGED <<now, cache, check, loop, clear, faulty>>

\* A request is answered or given up before Latency has passed, and the loop
\* wakes when its sleep is over.
Tick ==
  /\ now < MaxTime /\ now' = now + 1
  /\ check.pc \in {"fetch", "refetch"} => now < check.since + Latency
  /\ loop.pc = "fetch" => now < loop.since + Latency
  /\ loop.pc = "sleep" => now < loop.since + Interval
  /\ check.pc \notin {"answered", "reanswered"} /\ loop.pc # "answered"
  /\ usage' = [w \in Windows |-> IF usage[w].resets \in 0..(now + 1)
                                 THEN [level |-> "low", resets |-> Never] ELSE usage[w]]
  /\ clear' = IF \A w \in Exhausted : usage[w].resets \in 0..(now + 1) THEN now + 1
              ELSE IF Exhausted = {} THEN now ELSE clear
  /\ answer' = NoAnswer
  /\ UNCHANGED <<cache, check, loop, faulty>>

----------------------------------------------------------------------------
(* quota.py.                                                                *)

\* What the API shows of a window's reset: it may leave it out.
Shown(w, omit) == IF w \in omit THEN Never ELSE usage[w].resets

\* Mutant: the window that resets first binds.
BindingEarliest(omit) ==
  LET full == {w \in Windows : usage[w].level = "high"}
      first == {w \in Exhausted : \A v \in Exhausted : Shown(w, omit) <= Shown(v, omit)}
  IN {[block |-> Exhausted # {}, resets |-> Shown(w, omit)] :
        w \in IF Exhausted # {} THEN first ELSE IF full # {} THEN full ELSE Windows}

\* Of the exhausted windows the one that resets last binds; with none, the fullest
\* one, for display.
Binding(omit) ==
  LET full == {w \in Windows : usage[w].level = "high"}
      latest == {w \in Exhausted : \A v \in Exhausted : Shown(v, omit) <= Shown(w, omit)}
  IN {[block |-> Exhausted # {}, resets |-> Shown(w, omit)] :
        w \in IF Exhausted # {} THEN latest ELSE IF full # {} THEN full ELSE Windows}

Fresh == cache.at # Never /\ now - cache.at <= MaxAge
_write_cache(s) == cache' = [at |-> now, block |-> s.block, resets |-> s.resets]

\* recent: no window was at its threshold within the age a cache may have and the
\* time a request may take; covers: no reset the API showed is after waking.
Recent == now - clear <= MaxAge + Latency
Say(sleep, wake, open, block) ==
  answer' = [by |-> "check", sleep |-> sleep, open |-> open, block |-> block,
             recent |-> Recent, covers |-> check.last <= wake]

\* What a first look at the status decides: go, wait for an unknown reset, or ask
\* again for the exact one.
Decide(s) ==
  \/ ~s.block /\ Say(FALSE, Never, FALSE, FALSE) /\ check' = NoCheck
  \/ s.block /\ s.resets = Never /\ Say(TRUE, now + Buffer, FALSE, TRUE)
     /\ check' = NoCheck
  \/ s.block /\ s.resets # Never /\ answer' = NoAnswer
     /\ check' = [check EXCEPT !.pc = "refetch", !.since = now, !.got = Idle]

check_and_sleep_if_needed ==
  /\ check.pc = "idle"
  /\ \/ Fresh /\ Decide(cache)
     \/ ~Fresh /\ check' = [check EXCEPT !.pc = "fetch", !.since = now] /\ answer' = NoAnswer
  /\ UNCHANGED <<now, usage, cache, loop, clear, faulty>>

\* _fetch_quota: the API answers for this instant; the answer is used later.
CheckFetch ==
  /\ check.pc \in {"fetch", "refetch"}
  /\ \E omit \in SUBSET Windows : \E s \in Binding(omit) :
     \E last \in {Shown(w, omit) : w \in Exhausted} \union {Never} :
       /\ \A w \in Exhausted : Shown(w, omit) <= last
       /\ check' = [check EXCEPT !.got = s, !.last = last,
                   !.pc = IF check.pc = "fetch" THEN "answered" ELSE "reanswered"]
  /\ answer' = NoAnswer /\ UNCHANGED <<now, usage, cache, loop, clear, faulty>>

\* Any failure: fail open, without sleep.
CheckFails ==
  /\ check.pc \in {"fetch", "refetch"} /\ faulty' = TRUE
  /\ check' = NoCheck /\ Say(FALSE, Never, TRUE, FALSE)
  /\ UNCHANGED <<now, usage, cache, loop, clear>>

CheckFetched ==
  /\ check.pc = "answered" /\ _write_cache(check.got) /\ Decide(check.got)
  /\ UNCHANGED <<now, usage, loop, clear, faulty>>

\* The second answer gives the time to sleep, whether it blocks or not.
CheckRefetched ==
  /\ check.pc = "reanswered" /\ _write_cache(check.got)
  /\ check' = NoCheck
  /\ Say(TRUE, IF check.got.resets = Never THEN now + Buffer ELSE check.got.resets + Buffer,
         FALSE, check.got.block)
  /\ UNCHANGED <<now, usage, loop, clear, faulty>>

\* _refresh_quota_cache, in the loop: an error skips one refresh.
LoopWakes ==
  /\ loop.pc = "sleep" /\ now = loop.since + Interval
  /\ loop' = [loop EXCEPT !.pc = "fetch", !.since = now]
  /\ answer' = NoAnswer /\ UNCHANGED <<now, usage, cache, check, clear, faulty>>

LoopFetch ==
  /\ loop.pc = "fetch"
  /\ \/ (\E omit \in SUBSET Windows : \E s \in Binding(omit) :
             loop' = [loop EXCEPT !.pc = "answered", !.got = s])
        /\ UNCHANGED faulty
     \/ loop' = [loop EXCEPT !.pc = "sleep", !.since = now] /\ faulty' = TRUE
  /\ answer' = NoAnswer /\ UNCHANGED <<now, usage, cache, check, clear>>

LoopWrites ==
  /\ loop.pc = "answered" /\ _write_cache(loop.got)
  /\ loop' = [pc |-> "sleep", since |-> now, got |-> Idle]
  /\ answer' = NoAnswer /\ UNCHANGED <<now, usage, check, clear, faulty>>

\* After a dispatch.
invalidate_cache ==
  /\ cache # NoCache /\ cache' = NoCache /\ faulty' = TRUE
  /\ answer' = NoAnswer /\ UNCHANGED <<now, usage, check, loop, clear>>
\* The hook before run_skill: approve without a fresh cache, deny while it blocks.
quota_guard ==
  /\ answer' = [by |-> "hook", sleep |-> Fresh /\ cache.block, open |-> ~Fresh,
                block |-> cache.block, recent |-> Recent, covers |-> TRUE]
  /\ UNCHANGED <<now, usage, cache, check, loop, clear, faulty>>

QuotaNext ==
  \/ Tick \/ (\E w \in Windows : Use(w))
  \/ check_and_sleep_if_needed \/ CheckFetch \/ CheckFails \/ CheckFetched \/ CheckRefetched
  \/ LoopWakes \/ LoopFetch \/ LoopWrites \/ invalidate_cache \/ quota_guard

QuotaSpec == QuotaInit /\ [][QuotaNext]_quotaVars

----------------------------------------------------------------------------

\* A check or a hook that lets work go on without having failed open was right not
\* longer ago than a cache may be old and a request may take.
GoIsRecent == ~answer.sleep /\ ~answer.open => answer.recent

\* A check that waits for a reset wakes after every window the API showed
\* exhausted has reset: it never waits for one and runs into the other.
SleepCoversAll == answer.by = "check" /\ answer.sleep /\ answer.block => answer.covers

\* "The hook never sees a stale cache as long as this loop is running": once
\* written, and while no request fails and nothing invalidates it.
LoopKeepsFresh == cache # NoCache /\ ~faulty => Fresh

\* Work goes on, or waits, on the word of a cache that is recent, covers every
\* window and is kept fresh.
QuotaSafe == QuotaTypeOK /\ GoIsRecent /\ SleepCoversAll /\ LoopKeepsFresh

\* A check asks to sleep only when the windows it last saw block.
SleepIsNeeded == answer.by = "check" /\ answer.sleep => answer.block
=============================================================================
