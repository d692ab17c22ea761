--------------------------- MODULE AIPhase_proof ---------------------------
(***************************************************************************)
(* Proofs about AIPhase: types, one call per scenario, no call that starts *)
(* after its page, the cap of a pool, and that AIPhase implements          *)
(* ScenarioCache, for any scenarios, pages and number of threads.          *)
(***************************************************************************)
EXTENDS AIPhase, FiniteSetTheorems, TLAPS

\* A call was counted only when a thread took its future.
CallsAreStarted ==
  \A s \in Scenario :
    /\ calls[s] <= 1
    /\ future[s] \in {"none", "queued"} => calls[s] = 0

\* Whatever has been submitted is being waited for or has a result, so that
\* no later page submits it again.
SubmittedIsAccounted ==
  \A s \in Scenario : future[s] # "none" => s \in pending \/ cache[s] # "missing"

\* Only a future that is done has an answer to collect.
DoneIsAnswered == \A s \in Scenario : future[s] = "done" => answer[s] \in Answer

NobodyWaitsBetween == phase = "between" => pending = {}

PoolInv ==
  /\ TypeOK
  /\ CallsAreStarted
  /\ SubmittedIsAccounted
  /\ DoneIsAnswered
  /\ NobodyWaitsBetween
  /\ NoCallStartsLate

LEMMA AnswerIsAStatus == \A s \in Scenario, reply \in Reply : AnswerOf(s, reply) \in Answer
BY DEF AnswerOf, Reply, Answer

LEMMA PagesAreScenarios ==
  ASSUME NEW p \in 1..Len(Pages)
  PROVE  Pages[p] \subseteq Scenario
BY AIAssumption

LEMMA MissingIsUncached ==
  ASSUME NEW p \in 1..Len(Pages)
  PROVE  /\ Missing(p) \subseteq Scenario
         /\ \A s \in Missing(p) : cache[s] = "missing"
BY PagesAreScenarios DEF Missing

LEMMA NextPageIsAPage ==
  ASSUME TypeOK, NextPage
  PROVE  page + 1 \in 1..Len(Pages) /\ page' \in 0..Len(Pages) /\ page' = page + 1
<1>1. Len(Pages) \in Nat
  BY AIAssumption
<1> QED BY <1>1 DEF TypeOK, NextPage

LEMMA PoolInvInit == Init => PoolInv
<1> SUFFICES ASSUME Init PROVE PoolInv
  OBVIOUS
<1>1. Len(Pages) \in Nat
  BY AIAssumption
<1>2. TypeOK
  BY <1>1 DEF Init, TypeOK
<1> QED
  BY <1>2 DEF Init, PoolInv, CallsAreStarted, SubmittedIsAccounted, DoneIsAnswered,
              NobodyWaitsBetween, NoCallStartsLate

USE DEF PoolInv, main, threads

LEMMA PoolInvStep == PoolInv /\ [Next]_vars => PoolInv'
<1> SUFFICES ASSUME PoolInv, [Next]_vars PROVE PoolInv'
  OBVIOUS
<1> USE DEF TypeOK, Answer, Result, CallsAreStarted, SubmittedIsAccounted,
            DoneIsAnswered, NobodyWaitsBetween, NoCallStartsLate
<1>1. CASE ServeCached
  BY <1>1, NextPageIsAPage DEF ServeCached, NextPage
<1>2. CASE ServeDisabled
  <2>1. page' \in 0..Len(Pages)
    BY <1>2, NextPageIsAPage DEF ServeDisabled
  <2> QED BY <1>2, <2>1 DEF ServeDisabled, NextPage
<1>3. CASE Submit
  <2> DEFINE asked == Missing(page + 1)
  <2>1. /\ page' = page + 1 /\ page' \in 0..Len(Pages)
        /\ asked \subseteq Scenario
        /\ \A s \in asked : cache[s] = "missing"
    BY <1>3, NextPageIsAPage, MissingIsUncached DEF Submit
  <2>2. /\ phase = "between" /\ phase' = "waiting" /\ pending' = asked
        /\ pool' = [s \in Scenario |-> IF s \in asked THEN page' ELSE pool[s]]
        /\ future' = [s \in Scenario |-> IF s \in asked THEN "queued" ELSE future[s]]
        /\ UNCHANGED <<enabled, cache, answer, calls>>
    BY <1>3, <2>1 DEF Submit, NextPage
  <2> HIDE DEF asked
  <2>3. \A s \in asked : future[s] = "none"
    BY <2>1, <2>2
  <2> QED BY <2>1, <2>2, <2>3
<1>4. CASE Expire
  BY <1>4 DEF Expire
<1>5. CASE Leave
  BY <1>5 DEF Leave
<1>6. ASSUME NEW s \in Scenario, Collect(s) PROVE PoolInv'
  BY <1>6 DEF Collect
<1>7. ASSUME NEW s \in Scenario, Abandon(s) PROVE PoolInv'
  BY <1>7 DEF Abandon
<1>8. ASSUME NEW s \in Scenario, StartCall(s) PROVE PoolInv'
  BY <1>8 DEF StartCall
<1>9. ASSUME NEW s \in Scenario, EndCall(s) PROVE PoolInv'
  BY <1>9, AnswerIsAStatus DEF EndCall
<1>10. CASE UNCHANGED vars
  BY <1>10 DEF vars
<1> QED
  BY <1>1, <1>2, <1>3, <1>4, <1>5, <1>6, <1>7, <1>8, <1>9, <1>10
  DEF Next, MainStep, ThreadStep

THEOREM PoolInvariant == Spec => []PoolInv
BY PoolInvInit, PoolInvStep, PTL DEF Spec

(***************************************************************************)
(* Type correctness of apply_ai over the pages of a run.                   *)
(***************************************************************************)
THEOREM TypeCorrect == Spec => []TypeOK
<1>1. PoolInv => TypeOK
  OBVIOUS
<1> QED BY <1>1, PoolInvariant, PTL

(***************************************************************************)
(* The provider is asked at most once per scenario, whatever fails or      *)
(* comes late and however many pages need the scenario.                    *)
(***************************************************************************)
THEOREM ProviderIsAskedOnce == Spec => []OneCallPerScenario
<1>1. PoolInv => OneCallPerScenario
  BY DEF OneCallPerScenario, CallsAreStarted
<1> QED BY <1>1, PoolInvariant, PTL

(***************************************************************************)
(* After a page has left the AI phase none of its calls starts.            *)
(***************************************************************************)
THEOREM AbandonedCallsNeverStart == Spec => []NoCallStartsLate
<1>1. PoolInv => NoCallStartsLate
  OBVIOUS
<1> QED BY <1>1, PoolInvariant, PTL

-----------------------------------------------------------------------------
(***************************************************************************)
(* How far InFlightWithinCap fails: the pool of each page keeps to the     *)
(* cap, so that only calls left behind by earlier pages exceed it.         *)
(***************************************************************************)
CallsOf(p) == {s \in InFlight : pool[s] = p}

PoolWithinCap == \A p \in 0..Len(Pages) : Cardinality(CallsOf(p)) <= AI_MAX_CONCURRENCY

LEMMA CallsAreFinite ==
  ASSUME NEW p PROVE IsFiniteSet(CallsOf(p)) /\ Cardinality(CallsOf(p)) \in Nat
<1>1. CallsOf(p) \in SUBSET Scenario
  BY DEF CallsOf, InFlight
<1> QED BY <1>1, AIAssumption, FS_Subset, FS_CardinalityType

\* Calls that end, or stay as they are, do not make a pool exceed its cap.
LEMMA FewerCalls ==
  ASSUME PoolWithinCap, \A p \in 0..Len(Pages) : CallsOf(p)' \subseteq CallsOf(p)
  PROVE  PoolWithinCap'
<1> SUFFICES ASSUME NEW p \in 0..Len(Pages)
             PROVE  Cardinality(CallsOf(p)') <= AI_MAX_CONCURRENCY
  BY DEF PoolWithinCap
<1> DEFINE old == CallsOf(p)
           new == CallsOf(p)'
<1>1. IsFiniteSet(old) /\ new \in SUBSET old
  BY CallsAreFinite
<1> HIDE DEF old, new
<1>2. Cardinality(new) <= Cardinality(old) /\ IsFiniteSet(new)
  BY <1>1, FS_Subset
<1>3. Cardinality(new) \in Nat /\ Cardinality(old) \in Nat
  BY <1>1, <1>2, FS_CardinalityType
<1>4. Cardinality(old) <= AI_MAX_CONCURRENCY
  BY DEF PoolWithinCap, old
<1> QED BY <1>2, <1>3, <1>4, AIAssumption DEF new

LEMMA PoolWithinCapStep == PoolInv /\ PoolWithinCap /\ [Next]_vars => PoolWithinCap'
<1> SUFFICES ASSUME PoolInv, PoolWithinCap, [Next]_vars PROVE PoolWithinCap'
  OBVIOUS
<1>1. CASE Submit
  <2>1. \A s \in Missing(page + 1) : future[s] = "none"
    <3>1. phase = "between" /\ \A s \in Missing(page + 1) : s \in Scenario /\ cache[s] = "missing"
      BY <1>1, NextPageIsAPage, MissingIsUncached DEF Submit, NextPage
    <3> QED BY <3>1 DEF NobodyWaitsBetween, SubmittedIsAccounted
  <2>2. \A s \in Scenario : future'[s] = "running" =>
          future[s] = "running" /\ pool'[s] = pool[s]
    BY <1>1 DEF Submit, TypeOK
  <2>3. \A p \in 0..Len(Pages) : CallsOf(p)' \subseteq CallsOf(p)
    BY <2>2 DEF CallsOf, InFlight
  <2> QED BY <2>3, FewerCalls
<1>2. ASSUME NEW s \in Scenario, StartCall(s) PROVE PoolWithinCap'
  <2> SUFFICES ASSUME NEW p \in 0..Len(Pages)
               PROVE  Cardinality(CallsOf(p)') <= AI_MAX_CONCURRENCY
    BY DEF PoolWithinCap
  <2>1. /\ pool' = pool /\ FreeThread(pool[s])
        /\ \A u \in Scenario : future'[u] = "running" <=> u = s \/ future[u] = "running"
    BY <1>2 DEF StartCall, TypeOK
  <2>2. CallsOf(p)' = IF p = pool[s] THEN CallsOf(p) \cup {s} ELSE CallsOf(p)
    BY <2>1 DEF CallsOf, InFlight
  <2>3. CASE p = pool[s]
    <3>1. Cardinality(CallsOf(p)) < AI_MAX_CONCURRENCY
      BY <2>1, <2>3 DEF FreeThread, CallsOf
    <3>2. IsFiniteSet(CallsOf(p)) /\ Cardinality(CallsOf(p)) \in Nat
      BY CallsAreFinite
    <3>3. Cardinality(CallsOf(p) \cup {s}) \in {Cardinality(CallsOf(p)), Cardinality(CallsOf(p)) + 1}
      BY <3>2, FS_AddElement
    <3> QED BY <2>2, <2>3, <3>1, <3>2, <3>3, AIAssumption
  <2>4. CASE p # pool[s]
    BY <2>2, <2>4 DEF PoolWithinCap
  <2> QED BY <2>3, <2>4
<1>3. ASSUME NEW s \in Scenario, EndCall(s) \/ Collect(s) \/ Abandon(s) PROVE PoolWithinCap'
  <2>1. /\ pool' = pool
        /\ \A u \in Scenario : future'[u] = "running" => future[u] = "running"
    BY <1>3 DEF EndCall, Collect, Abandon, TypeOK
  <2>2. \A p \in 0..Len(Pages) : CallsOf(p)' \subseteq CallsOf(p)
    BY <2>1 DEF CallsOf, InFlight
  <2> QED BY <2>2, FewerCalls
<1>4. CASE UNCHANGED <<future, pool>>
  <2>1. \A p \in 0..Len(Pages) : CallsOf(p)' \subseteq CallsOf(p)
    BY <1>4 DEF CallsOf, InFlight
  <2> QED BY <2>1, FewerCalls
<1> QED
  BY <1>1, <1>2, <1>3, <1>4
  DEF Next, MainStep, ThreadStep, ServeCached, ServeDisabled, Expire, Leave, vars

\* No pool runs more calls than the cap, and all pools together do so only
\* when calls of an earlier page are still running.
THEOREM OnlyLateCallsExceedTheCap ==
  Spec => []( /\ PoolWithinCap
              /\ (\A s \in InFlight : pool[s] = page) => InFlightWithinCap )
<1>1. Init => PoolWithinCap
  <2> SUFFICES ASSUME Init, NEW p \in 0..Len(Pages)
               PROVE  Cardinality(CallsOf(p)) <= AI_MAX_CONCURRENCY
    BY DEF PoolWithinCap
  <2>1. CallsOf(p) = {}
    BY DEF Init, CallsOf, InFlight
  <2> QED BY <2>1, FS_EmptySet, AIAssumption
<1>2. Spec => []PoolWithinCap
  BY <1>1, PoolWithinCapStep, PoolInvariant, PTL DEF Spec
<1>3. PoolInv /\ PoolWithinCap =>
        ((\A s \in InFlight : pool[s] = page) => InFlightWithinCap)
  <2> SUFFICES ASSUME PoolInv, PoolWithinCap, \A s \in InFlight : pool[s] = page
               PROVE  InFlightWithinCap
    OBVIOUS
  <2>1. CallsOf(page) = InFlight
    BY DEF CallsOf
  <2>2. page \in 0..Len(Pages)
    BY DEF TypeOK
  <2> QED BY <2>1, <2>2 DEF PoolWithinCap, InFlightWithinCap
<1> QED BY <1>2, <1>3, PoolInvariant, PTL

-----------------------------------------------------------------------------
\* Where the scenarios of the current page are, which decides what
\* ScenarioCache sees of them: nothing until the page leaves.
PageInv ==
  /\ PoolInv
  /\ phase # "between" => page \in 1..Len(Pages)
  /\ \A s \in Scenario : pool[s] # 0 => /\ future[s] # "none"
                                        /\ pool[s] <= page
                                        /\ s \in Pages[pool[s]]
  /\ \A s \in pending : pool[s] = page
  /\ phase # "between" =>
       \A s \in Pages[page] : pool[s] = page \/ cache[s] # "missing"

LEMMA PageInvInit == Init => PageInv
BY PoolInvInit DEF Init, PageInv

LEMMA PageInvStep == PageInv /\ [Next]_vars => PageInv'
<1> SUFFICES ASSUME PageInv, [Next]_vars PROVE PageInv'
  OBVIOUS
<1>a. PoolInv' /\ Len(Pages) \in Nat
  BY PoolInvStep, AIAssumption DEF PageInv
<1> USE DEF PageInv, TypeOK
<1>1. CASE ServeCached
  BY <1>a, <1>1, NextPageIsAPage DEF ServeCached, NextPage, NobodyWaitsBetween
<1>2. CASE ServeDisabled
  BY <1>a, <1>2, NextPageIsAPage DEF ServeDisabled, NextPage, NobodyWaitsBetween
<1>3. CASE Submit
  <2> DEFINE asked == Missing(page + 1)
  <2>1. /\ page' = page + 1 /\ page' \in 1..Len(Pages)
        /\ \A s \in asked : s \in Pages[page']
        /\ \A s \in Pages[page'] : s \in asked \/ cache[s] # "missing"
        /\ asked \subseteq Scenario /\ Pages[page'] \subseteq Scenario
    BY <1>3, NextPageIsAPage, PagesAreScenarios DEF Submit, Missing
  <2>2. /\ phase = "between" /\ phase' = "waiting" /\ pending' = asked
        /\ pool' = [s \in Scenario |-> IF s \in asked THEN page' ELSE pool[s]]
        /\ future' = [s \in Scenario |-> IF s \in asked THEN "queued" ELSE future[s]]
        /\ UNCHANGED <<enabled, cache, answer, calls>>
    BY <1>3, <2>1 DEF Submit, NextPage
  <2> HIDE DEF asked
  <2> QED BY <1>a, <2>1, <2>2
<1>4. CASE Expire
  BY <1>a, <1>4 DEF Expire
<1>5. CASE Leave
  BY <1>a, <1>5 DEF Leave
<1>6. ASSUME NEW s \in Scenario, Collect(s) PROVE PageInv'
  <2>1. Pages[page] \subseteq Scenario /\ answer[s] # "missing"
    BY <1>6, PagesAreScenarios DEF Collect, DoneIsAnswered, Answer
  <2> QED BY <1>a, <1>6, <2>1 DEF Collect
<1>7. ASSUME NEW s \in Scenario, Abandon(s) PROVE PageInv'
  <2>1. Pages[page] \subseteq Scenario
    BY <1>7, PagesAreScenarios DEF Abandon
  <2> QED BY <1>a, <1>7, <2>1 DEF Abandon
<1>8. ASSUME NEW s \in Scenario, StartCall(s) PROVE PageInv'
  BY <1>a, <1>8 DEF StartCall
<1>9. ASSUME NEW s \in Scenario, EndCall(s) PROVE PageInv'
  BY <1>a, <1>9 DEF EndCall
<1>10. CASE UNCHANGED vars
  BY <1>a, <1>10 DEF vars
<1> QED
  BY <1>1, <1>2, <1>3, <1>4, <1>5, <1>6, <1>7, <1>8, <1>9, <1>10
  DEF Next, MainStep, ThreadStep

\* What ScenarioCache sees.
Served  == IF phase = "between" THEN page ELSE page - 1
Results == [s \in Scenario |-> IF s \in Asked THEN "missing" ELSE Outcome(cache[s])]

LEMMA OutcomeOf ==
  ASSUME NEW r \in Result \cup {"missing"}
  PROVE  /\ Outcome(r) \in {"missing", "ok", "failed"}
         /\ Outcome(r) = "missing" <=> r = "missing"
BY DEF Outcome, Result, Answer

\* A page that leaves gives each of its scenarios a result, and no other.
LEMMA ServesThePage ==
  ASSUME PageInv, Served < Len(Pages), Served' = Served + 1,
         \A s \in Scenario :
           IF s \in Pages[Served + 1] /\ Results[s] = "missing"
           THEN Results'[s] # "missing" ELSE Results'[s] = Results[s],
         TypeOK'
  PROVE  Abstract!Serve
<1> DEFINE given == [s \in Scenario |-> IF Results'[s] = "ok" THEN "ok" ELSE "failed"]
<1>1. \A s \in Scenario : Results'[s] \in {"missing", "ok", "failed"}
  BY OutcomeOf DEF Results, TypeOK, Outcome
<1>2. given \in [Scenario -> {"ok", "failed"}]
  OBVIOUS
<1>3. Results' = [s \in Scenario |->
         IF s \in Pages[Served + 1] /\ Results[s] = "missing" THEN given[s]
                                                              ELSE Results[s]]
  BY <1>1 DEF Results
<1> HIDE DEF given
<1> QED BY <1>2, <1>3 DEF Abstract!Serve, Served, Results

LEMMA RefinementInit == Init => Abstract!Init
BY OutcomeOf DEF Init, Abstract!Init, Asked, Outcome

LEMMA RefinementStep ==
  ASSUME PageInv, PageInv', [Next]_vars
  PROVE  [Abstract!Next]_Abstract!vars
<1> USE DEF PageInv
<1>a. Len(Pages) \in Nat
  BY AIAssumption
<1>b. \A s \in Scenario : /\ cache[s] \in Result \cup {"missing"}
                          /\ cache'[s] \in Result \cup {"missing"}
  BY DEF TypeOK
<1>s. ASSUME Served' = Served, \A s \in Scenario : Results'[s] = Results[s]
      PROVE  UNCHANGED Abstract!vars
  <2>1. Results' = Results
    BY <1>s DEF Results
  <2> QED BY <1>s, <2>1 DEF Abstract!vars, Served, Results
<1>1. CASE ServeCached
  <2>1. /\ phase = "between" /\ phase' = "between" /\ page' = page + 1
        /\ page < Len(Pages) /\ page \in Nat /\ UNCHANGED <<cache, pool>>
        /\ \A s \in Pages[page + 1] : cache[s] # "missing"
    BY <1>1, <1>a DEF ServeCached, NextPage, Missing, TypeOK
  <2>2. \A s \in Scenario : Results[s] = Outcome(cache[s]) /\ Results'[s] = Outcome(cache[s])
    BY <2>1 DEF Results, Asked
  <2>3. Abstract!Serve
    BY <1>b, <2>1, <2>2, ServesThePage, OutcomeOf DEF Served
  <2> QED BY <2>3 DEF Abstract!Next
<1>2. CASE ServeDisabled
  <2>1. /\ phase = "between" /\ phase' = "between" /\ page' = page + 1
        /\ page < Len(Pages) /\ page \in Nat /\ UNCHANGED pool
        /\ \A s \in Scenario : cache'[s] = IF s \in Missing(page + 1) THEN "disabled"
                                                                      ELSE cache[s]
    BY <1>2, <1>a DEF ServeDisabled, NextPage, TypeOK
  <2>2. \A s \in Scenario : Results[s] = Outcome(cache[s]) /\ Results'[s] = Outcome(cache'[s])
    BY <2>1 DEF Results, Asked
  <2>3. \A s \in Scenario : s \in Missing(page + 1) <=>
                              s \in Pages[page + 1] /\ cache[s] = "missing"
    BY <2>1 DEF Missing
  <2>4. Outcome("disabled") = "failed"
    BY DEF Outcome
  <2>5. Abstract!Serve
    BY <1>b, <2>1, <2>2, <2>3, <2>4, ServesThePage, OutcomeOf DEF Served
  <2> QED BY <2>5 DEF Abstract!Next
<1>3. CASE Submit
  <2>1. /\ phase = "between" /\ phase' = "waiting" /\ page' = page + 1 /\ page \in Nat
        /\ UNCHANGED cache
        /\ \A s \in Scenario :
             /\ pool'[s] = IF s \in Missing(page + 1) THEN page + 1 ELSE pool[s]
             /\ s \in Missing(page + 1) => cache[s] = "missing"
    BY <1>3 DEF Submit, NextPage, Missing, TypeOK
  <2>2. \A s \in Scenario : pool[s] # page + 1
    BY <2>1 DEF TypeOK
  <2>3. \A s \in Scenario : s \in Asked' <=> s \in Missing(page + 1)
    BY <2>1, <2>2 DEF Asked
  <2>4. \A s \in Scenario : Results'[s] = Results[s]
    BY <2>1, <2>3, OutcomeOf DEF Results, Asked, Outcome
  <2>5. Served' = Served
    BY <2>1 DEF Served
  <2> QED BY <1>s, <2>4, <2>5
<1>4. CASE Expire
  BY <1>4, <1>s DEF Expire, Served, Results, Asked, Outcome
<1>5. CASE Leave
  <2>1. /\ phase # "between" /\ phase' = "between" /\ pending = {}
        /\ page \in 1..Len(Pages) /\ UNCHANGED <<page, cache, pool>>
    BY <1>5 DEF Leave
  <2>2. \A s \in Scenario : s \in Asked => /\ s \in Pages[page]
                                           /\ cache[s] # "missing"
    BY <2>1, <1>a DEF Asked, SubmittedIsAccounted
  <2>3. \A s \in Pages[page] : s \in Asked \/ cache[s] # "missing"
    BY <2>1, PagesAreScenarios DEF Asked
  <2>4. \A s \in Scenario :
          /\ Results[s] = IF s \in Asked THEN "missing" ELSE Outcome(cache[s])
          /\ Results'[s] = Outcome(cache[s])
    BY <2>1 DEF Results, Asked
  <2>5. Served < Len(Pages) /\ Served' = Served + 1 /\ Served + 1 = page
    BY <2>1, <1>a DEF Served
  <2>6. Abstract!Serve
    BY <1>b, <2>2, <2>3, <2>4, <2>5, ServesThePage, OutcomeOf
  <2> QED BY <2>6 DEF Abstract!Next
<1>6. ASSUME NEW s \in Scenario, Collect(s) \/ Abandon(s)
      PROVE  UNCHANGED Abstract!vars
  <2>1. /\ phase # "between" /\ UNCHANGED <<page, phase, pool>> /\ pool[s] = page
        /\ \A u \in Scenario : u # s => cache'[u] = cache[u]
    BY <1>6 DEF Collect, Abandon, TypeOK
  <2>2. \A u \in Scenario : Results'[u] = Results[u]
    BY <2>1 DEF Results, Asked, Outcome
  <2> QED BY <1>s, <2>1, <2>2 DEF Served
<1>7. CASE UNCHANGED main
  BY <1>7, <1>s DEF Served, Results, Asked, Outcome
<1> QED
  BY <1>1, <1>2, <1>3, <1>4, <1>5, <1>6, <1>7
  DEF Next, MainStep, ThreadStep, StartCall, EndCall, vars

(***************************************************************************)
(* apply_ai implements ScenarioCache: thread pool, deadline and late       *)
(* answers are invisible to the rest of the run, except that some results  *)
(* are failures.                                                           *)
(***************************************************************************)
THEOREM ScenarioCacheImplemented == Spec => ImplementsScenarioCache
<1>1. Spec => []PageInv
  BY PageInvInit, PageInvStep, PTL DEF Spec
<1> QED BY <1>1, RefinementInit, RefinementStep, PTL DEF Spec, ImplementsScenarioCache, Abstract!Spec
=============================================================================
