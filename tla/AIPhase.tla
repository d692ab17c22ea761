------------------------------ MODULE AIPhase ------------------------------
(***************************************************************************)
(* apply_ai of src/worker.py, over the pages of one run: the scenarios a   *)
(* page has and the cache has not are submitted to a thread pool of their  *)
(* own, answers are collected until a deadline, what is left is cancelled  *)
(* and cached as a timeout, and calls that are still running are left      *)
(* behind, beside the pool of the next page.                               *)
(*                                                                         *)
(* External: ThreadPoolExecutor (a queued future starts when its pool has  *)
(* a free thread, a started one cannot be cancelled) and the provider,     *)
(* whose call may take any time and may never return.                      *)
(***************************************************************************)
EXTENDS Naturals, Sequences, FiniteSets

CONSTANTS Scenario,          \* the scenarios of a run
          Classify,          \* those that ask for the bucket of a code; the
                             \* others ask for a message to the customer
          Pages,             \* Seq(SUBSET Scenario): the scenarios of each page
          AI_MAX_CONCURRENCY \* threads of a pool

ASSUME AIAssumption ==
  /\ Pages \in Seq(SUBSET Scenario)
  /\ IsFiniteSet(Scenario) /\ Classify \subseteq Scenario
  /\ AI_MAX_CONCURRENCY \in Nat \ {0}

VARIABLES enabled,  \* ai.enabled: the client has a key
          page,     \* calls of apply_ai so far, the current one included
          phase,    \* where apply_ai is
          pending,  \* scenarios whose futures it has not collected
          cache,    \* ai_cache: [Scenario -> "missing" or a result]
          pool,     \* [Scenario -> the page whose pool it was submitted to, 0]
          future,   \* [Scenario -> state of its future]
          answer,   \* [Scenario -> what its call returned]
          calls     \* history: [Scenario -> calls made to the provider]

main    == <<page, phase, pending, cache, pool>>
threads == <<future, answer, calls>>
vars    == <<enabled, main, threads>>

\* What the provider makes of a prompt: a text with the name of a bucket in
\* it, another text, no text, or an exception.
Reply == {"bucket_word", "prose", "nothing", "timeout", "error"}

\* The status of an AIResult.
Answer == {"ok", "unparseable", "timeout", "error"}
Result == Answer \cup {"disabled"}

Usable(s, reply) ==
  \/ reply = "bucket_word"
  \/ reply = "prose" /\ s \notin Classify

\* _try, and what the two calls make of its text.
AnswerOf(s, reply) ==
  IF Usable(s, reply) THEN "ok"
  ELSE IF reply \in {"timeout", "error"} THEN reply ELSE "unparseable"

Init ==
  /\ enabled \in BOOLEAN
  /\ page = 0 /\ phase = "between" /\ pending = {}
  /\ cache = [s \in Scenario |-> "missing"]
  /\ pool = [s \in Scenario |-> 0]
  /\ future = [s \in Scenario |-> "none"]
  /\ answer = [s \in Scenario |-> "none"]
  /\ calls = [s \in Scenario |-> 0]

\* Mutant: a scenario that failed is asked again on the next page.
MissingRetried(p) == {s \in Pages[p] : cache[s] # "ok"}

\* The scenarios of page p without a cached result.
Missing(p) == {s \in Pages[p] : cache[s] = "missing"}

NextPage == phase = "between" /\ page < Len(Pages) /\ page' = page + 1

\* No AI task on the page, or all of its scenarios are cached.
ServeCached ==
  /\ NextPage
  /\ Missing(page + 1) = {}
  /\ UNCHANGED <<enabled, phase, pending, cache, pool, threads>>

\* Without a client every call returns at once, in the calling thread.
ServeDisabled ==
  /\ NextPage
  /\ ~enabled /\ Missing(page + 1) # {}
  /\ cache' = [s \in Scenario |-> IF s \in Missing(page + 1) THEN "disabled"
                                                            ELSE cache[s]]
  /\ UNCHANGED <<enabled, phase, pending, pool, threads>>

\* A new pool; the futures are queued.
Submit ==
  /\ NextPage
  /\ enabled /\ Missing(page + 1) # {}
  /\ phase' = "waiting"
  /\ pending' = Missing(page + 1)
  /\ pool' = [s \in Scenario |-> IF s \in Missing(page + 1) THEN page + 1 ELSE pool[s]]
  /\ future' = [s \in Scenario |-> IF s \in Missing(page + 1) THEN "queued"
                                                             ELSE future[s]]
  /\ UNCHANGED <<enabled, cache, answer, calls>>

InFlight == {s \in Scenario : future[s] = "running"}

FreeThread(p) ==
  Cardinality({s \in InFlight : pool[s] = p}) < AI_MAX_CONCURRENCY

StartCall(s) ==
  /\ future[s] = "queued" /\ FreeThread(pool[s])
  /\ future' = [future EXCEPT ![s] = "running"]
  /\ calls' = [calls EXCEPT ![s] = @ + 1]
  /\ UNCHANGED <<enabled, main, answer>>

\* Mutant: the thread stores its answer in the cache, however late it comes.
EndCallCaches(s) ==
  /\ future[s] = "running"
  /\ future' = [future EXCEPT ![s] = "done"]
  /\ \E reply \in Reply : /\ answer' = [answer EXCEPT ![s] = AnswerOf(s, reply)]
                          /\ cache' = [cache EXCEPT ![s] = AnswerOf(s, reply)]
  /\ UNCHANGED <<enabled, page, phase, pending, pool, calls>>

EndCall(s) ==
  /\ future[s] = "running"
  /\ future' = [future EXCEPT ![s] = "done"]
  /\ \E reply \in Reply : answer' = [answer EXCEPT ![s] = AnswerOf(s, reply)]
  /\ UNCHANGED <<enabled, main, calls>>

\* Mutant: the futures are taken in order, finished or not.
CollectUnfinished(s) ==
  /\ phase = "waiting" /\ s \in pending
  /\ pending' = pending \ {s}
  /\ cache' = [cache EXCEPT ![s] = answer[s]]
  /\ UNCHANGED <<enabled, page, phase, pool, threads>>

\* as_completed yields a finished future; an exception in it is an error result.
Collect(s) ==
  /\ phase = "waiting" /\ s \in pending /\ future[s] = "done"
  /\ pending' = pending \ {s}
  /\ cache' = [cache EXCEPT ![s] = answer[s]]
  /\ UNCHANGED <<enabled, page, phase, pool, threads>>

\* as_completed raises; futures that finished since its last look are lost.
Expire ==
  /\ phase = "waiting" /\ pending # {}
  /\ phase' = "expired"
  /\ UNCHANGED <<enabled, page, pending, cache, pool, threads>>

\* Mutant: the futures left are not cancelled.
AbandonUncancelled(s) ==
  /\ phase = "expired" /\ s \in pending
  /\ pending' = pending \ {s}
  /\ cache' = [cache EXCEPT ![s] = "timeout"]
  /\ UNCHANGED <<enabled, page, phase, pool, threads>>

\* One turn of the `finally` loop; other futures may start meanwhile.
Abandon(s) ==
  /\ phase = "expired" /\ s \in pending
  /\ pending' = pending \ {s}
  /\ future' = [future EXCEPT ![s] = IF @ = "queued" THEN "cancelled" ELSE @]
  /\ cache' = [cache EXCEPT ![s] = "timeout"]
  /\ UNCHANGED <<enabled, page, phase, pool, answer, calls>>

\* Mutant: the pool is a `with` block, which waits for its threads.
LeaveJoins ==
  /\ phase \in {"waiting", "expired"} /\ pending = {}
  /\ \A s \in InFlight : pool[s] # page
  /\ phase' = "between"
  /\ UNCHANGED <<enabled, page, pending, cache, pool, threads>>

\* shutdown(wait=False), and the results are merged into the plans.
Leave ==
  /\ phase \in {"waiting", "expired"} /\ pending = {}
  /\ phase' = "between"
  /\ UNCHANGED <<enabled, page, pending, cache, pool, threads>>

-----------------------------------------------------------------------------
\* The worker's own thread.
MainStep ==
  \/ ServeCached \/ ServeDisabled \/ Submit \/ Expire \/ Leave
  \/ \E s \in Scenario : Collect(s) \/ Abandon(s)

ThreadStep == \E s \in Scenario : StartCall(s) \/ EndCall(s)

Next == MainStep \/ ThreadStep

\* The worker's thread runs on, and so does the clock behind the deadline;
\* no call need ever start or return.
Spec == Init /\ [][Next]_vars /\ WF_vars(MainStep)

-----------------------------------------------------------------------------
TypeOK ==
  /\ enabled \in BOOLEAN
  /\ page \in 0..Len(Pages)
  /\ phase \in {"between", "waiting", "expired"}
  /\ pending \in SUBSET Scenario
  /\ cache \in [Scenario -> Result \cup {"missing"}]
  /\ pool \in [Scenario -> 0..Len(Pages)]
  /\ future \in [Scenario -> {"none", "queued", "running", "done", "cancelled"}]
  /\ answer \in [Scenario -> Answer \cup {"none"}]
  /\ calls \in [Scenario -> Nat]

(***************************************************************************)
(* The provider is asked at most once per scenario and run, failed and     *)
(* late answers included (src/worker.py:265-270).                          *)
(***************************************************************************)
OneCallPerScenario == \A s \in Scenario : calls[s] <= 1

(***************************************************************************)
(* Once a page has left the AI phase none of its calls can start any more: *)
(* the deadline and the pool's threads race for each queued future, and    *)
(* whichever wins, no quota is spent on a page that is already written.    *)
(***************************************************************************)
NoCallStartsLate ==
  \A s \in Scenario : future[s] = "queued" =>
    pool[s] = page /\ phase # "between" /\ s \in pending

(***************************************************************************)
(* Threads, deadline and cache behave as ScenarioCache: a page leaves with *)
(* a result for every scenario, and an answer that comes late changes      *)
(* neither this page nor a later one.                                      *)
(***************************************************************************)
Outcome(result) == IF result \in {"missing", "ok"} THEN result ELSE "failed"

Asked == {s \in Scenario : phase # "between" /\ pool[s] = page}

Abstract == INSTANCE ScenarioCache
  WITH served  <- IF phase = "between" THEN page ELSE page - 1,
       results <- [s \in Scenario |-> IF s \in Asked THEN "missing"
                                                     ELSE Outcome(cache[s])]

ImplementsScenarioCache == Abstract!Spec

(***************************************************************************)
(* The pipeline never hangs on the AI (PRINCIPLES.md Rule 2): every page   *)
(* leaves the AI phase, even when no call ever returns.                    *)
(***************************************************************************)
PageLeavesAIPhase == phase # "between" ~> phase = "between"

(***************************************************************************)
(* src/config.py:40: AI_MAX_CONCURRENCY is the cap on in-flight AI calls.  *)
(***************************************************************************)
InFlightWithinCap == Cardinality(InFlight) <= AI_MAX_CONCURRENCY
=============================================================================
