-------------------------- MODULE Dashboard_proof --------------------------
(***************************************************************************)
(* The views of the dashboard, for any tables, pages, lifetimes and number *)
(* of threads: a summary from the cache is recent, a detail view explains  *)
(* the status it shows, and the pages of a list add up.  All of it rests   *)
(* on one fact about the writers: an entry is made once and stays.  At the *)
(* end, what a single thread makes of the shared connection.               *)
(***************************************************************************)
EXTENDS Dashboard, FiniteSetTheorems, TLAPS

-----------------------------------------------------------------------------
(***************************************************************************)
(* Pages of a finite set of numbers, the largest first.                    *)
(***************************************************************************)
Before(M, t) == Cardinality({u \in M : u > t})

RowsOf(M, page) ==
  {t \in M : Before(M, t) \in (page - 1) * DASHBOARD_PAGE_SIZE ..
                              (page - 1) * DASHBOARD_PAGE_SIZE + DASHBOARD_PAGE_SIZE - 1}

\* The number of pages is the quotient, rounded up.
LEMMA Ceiling ==
  ASSUME NEW p \in Nat, NEW c \in Nat, NEW n \in Nat \ {0}
  PROVE  p < (c + n - 1) \div n <=> p * n < c
<1> DEFINE q == (c + n - 1) \div n
           r == (c + n - 1) % n
<1>1. q \in Nat /\ r \in Nat /\ r < n /\ c + n - 1 = q * n + r
  OBVIOUS
<1> HIDE DEF q, r
<1>2. ASSUME p < q PROVE p * n < c
  <2>1. (p + 1) * n <= q * n
    BY <1>1, <1>2
  <2>2. (p + 1) * n = p * n + n
    OBVIOUS
  <2> QED BY <1>1, <2>1, <2>2
<1>3. ASSUME ~(p < q) PROVE ~(p * n < c)
  <2>1. q * n <= p * n
    BY <1>1, <1>3
  <2>2. c + n - 1 < q * n + n
    BY <1>1
  <2>3. p * n \in Int /\ q * n \in Int
    BY <1>1
  <2> QED BY <1>1, <2>1, <2>2, <2>3
<1> QED BY <1>2, <1>3 DEF q

\* Every place from the first to the last is taken by exactly one element.
LEMMA Places ==
  ASSUME NEW M \in SUBSET Nat, IsFiniteSet(M)
  PROVE  LET n == Cardinality(M)
         IN  /\ n \in Nat
             /\ \A t \in M : Before(M, t) \in 0 .. n - 1
             /\ \A t, u \in M : Before(M, t) = Before(M, u) => t = u
             /\ \A i \in 0 .. n - 1 : \E t \in M : Before(M, t) = i
<1> DEFINE n == Cardinality(M)
           above(t) == {u \in M : u > t}
<1>1. n \in Nat
  BY FS_CardinalityType
<1>0. \A t \in M : t \in Nat
  OBVIOUS
<1>2. \A t \in M : IsFiniteSet(above(t)) /\ Before(M, t) \in Nat
  BY FS_Subset, FS_CardinalityType DEF Before
<1>3. ASSUME NEW t \in M PROVE Before(M, t) \in 0 .. n - 1
  <2>1. IsFiniteSet(M \ {t}) /\ Cardinality(M \ {t}) = n - 1
    BY FS_RemoveElement
  <2>2. above(t) \in SUBSET (M \ {t})
    OBVIOUS
  <2>3. Before(M, t) <= n - 1
    BY <2>1, <2>2, FS_Subset DEF Before
  <2>4. Before(M, t) \in Nat
    BY <1>2
  <2> HIDE DEF n
  <2> QED BY <1>1, <2>3, <2>4
<1>4. ASSUME NEW t \in M, NEW u \in M, t < u PROVE Before(M, u) < Before(M, t)
  <2>1. above(u) \in SUBSET above(t) /\ u \in above(t) /\ u \notin above(u)
    <3>1. t \in Nat /\ u \in Nat
      BY <1>0
    <3>2. u > t /\ ~(u > u)
      BY <1>4, <3>1
    <3>3. ASSUME NEW v \in M, v > u PROVE v > t
      <4>1. v \in Nat
        BY <1>0
      <4> QED BY <3>1, <3>2, <3>3, <4>1
    <3> QED BY <3>2, <3>3
  <2>2. /\ Cardinality(above(u)) <= Cardinality(above(t))
        /\ Cardinality(above(t)) # Cardinality(above(u))
    <3> HIDE DEF above
    <3> QED BY <1>2, <2>1, FS_Subset
  <2> QED BY <1>2, <2>2 DEF Before
<1>5. \A t, u \in M : Before(M, t) = Before(M, u) => t = u
  <2> SUFFICES ASSUME NEW t \in M, NEW u \in M, t # u
               PROVE  Before(M, t) # Before(M, u)
    OBVIOUS
  <2>1. t \in Nat /\ u \in Nat
    BY <1>0
  <2>2. t < u \/ u < t
    BY <2>1
  <2>3. Before(M, t) \in Nat /\ Before(M, u) \in Nat
    BY <1>2
  <2>4. CASE t < u
    <3>1. Before(M, u) < Before(M, t)
      BY <1>4, <2>4
    <3> QED BY <2>3, <3>1
  <2>5. CASE u < t
    <3>1. Before(M, t) < Before(M, u)
      BY <1>4, <2>5
    <3> QED BY <2>3, <3>1
  <2> QED BY <2>2, <2>4, <2>5
<1>6. \A i \in 0 .. n - 1 : \E t \in M : Before(M, t) = i
  <2> DEFINE f == [t \in M |-> Before(M, t)]
  <2>1. f \in Injection(M, 0 .. n - 1)
    <3>1. f \in [M -> 0 .. n - 1]
      BY <1>3
    <3>2. IsInjective(f)
      BY <1>5 DEF IsInjective
    <3> QED BY <3>1, <3>2 DEF Injection
  <2>2. IsFiniteSet(0 .. n - 1) /\ Cardinality(0 .. n - 1) = n
    <3> HIDE DEF n
    <3>1. n - 1 \in Int /\ (0 > n - 1 <=> n = 0) /\ n - 1 - 0 + 1 = n
      BY <1>1
    <3> QED BY <1>1, <3>1, FS_Interval
  <2>3. f \in Surjection(M, 0 .. n - 1)
    BY <2>1, <2>2, FS_Injection
  <2> QED BY <2>3 DEF Surjection
<1> QED BY <1>1, <1>3, <1>5, <1>6

\* A page with a row has no more of them than are left from its first place on.
LEMMA RowsWithin ==
  ASSUME NEW M \in SUBSET Nat, IsFiniteSet(M), NEW page \in Nat \ {0},
         RowsOf(M, page) # {}
  PROVE  (page - 1) * DASHBOARD_PAGE_SIZE + Cardinality(RowsOf(M, page)) <= Cardinality(M)
<1> DEFINE n == Cardinality(M)
           offset == (page - 1) * DASHBOARD_PAGE_SIZE
           rows == RowsOf(M, page)
           f == [t \in rows |-> Before(M, t)]
<1>1. /\ n \in Nat /\ \A t \in M : Before(M, t) \in 0 .. n - 1
      /\ \A t, u \in M : Before(M, t) = Before(M, u) => t = u
  BY Places
<1>2. offset \in Nat
  BY DashboardAssumption
<1>3. \A t \in rows : t \in M /\ Before(M, t) >= offset
  <2> HIDE DEF offset, n
  <2> QED BY <1>1, <1>2, DashboardAssumption DEF RowsOf, offset
<1>4. f \in Injection(rows, offset .. n - 1)
  <2>1. ASSUME NEW t \in rows PROVE Before(M, t) \in offset .. n - 1
    <3>1. Before(M, t) \in 0 .. n - 1 /\ Before(M, t) >= offset
      BY <1>1, <1>3
    <3> HIDE DEF n, offset, rows
    <3> QED BY <1>1, <1>2, <3>1
  <2>2. f \in [rows -> offset .. n - 1]
    BY <2>1
  <2>3. IsInjective(f)
    BY <1>1, <1>3 DEF IsInjective
  <2> QED BY <2>2, <2>3 DEF Injection
<1>5. PICK t \in rows : TRUE
  OBVIOUS
<1>6. offset <= n - 1
  <2>1. Before(M, t) \in 0 .. n - 1 /\ Before(M, t) >= offset
    BY <1>1, <1>3, <1>5
  <2> HIDE DEF n, offset, rows
  <2> QED BY <1>1, <1>2, <2>1
<1>7. IsFiniteSet(offset .. n - 1) /\ Cardinality(offset .. n - 1) = n - offset
  <2> HIDE DEF n, offset
  <2> QED BY <1>1, <1>2, <1>6, FS_Interval
<1>8. Cardinality(rows) <= n - offset
  BY <1>4, <1>7, FS_Injection
<1>9. Cardinality(rows) \in Nat
  BY <1>3, FS_Subset, FS_CardinalityType
<1> HIDE DEF n, offset, rows
<1> QED BY <1>1, <1>2, <1>8, <1>9 DEF n, offset, rows

\* When a page does not reach the last place, the next one has a row.
LEMMA PageHasRows ==
  ASSUME NEW M \in SUBSET Nat, IsFiniteSet(M), NEW page \in Nat,
         page * DASHBOARD_PAGE_SIZE < Cardinality(M)
  PROVE  RowsOf(M, page + 1) # {}
<1> DEFINE offset == page * DASHBOARD_PAGE_SIZE
           n == Cardinality(M)
<1>1. offset \in Nat /\ DASHBOARD_PAGE_SIZE \in Nat \ {0}
  BY DashboardAssumption
<1>2. n \in Nat /\ \A i \in 0 .. n - 1 : \E t \in M : Before(M, t) = i
  BY Places
<1>3. offset \in 0 .. n - 1 /\ offset \in offset .. offset + DASHBOARD_PAGE_SIZE - 1
  <2> HIDE DEF offset, n
  <2> QED BY <1>1, <1>2 DEF offset, n
<1>4. PICK t \in M : Before(M, t) = offset
  BY <1>2, <1>3
<1>5. (page + 1 - 1) * DASHBOARD_PAGE_SIZE = offset
  OBVIOUS
<1> HIDE DEF offset
<1> QED BY <1>3, <1>4, <1>5 DEF RowsOf

-----------------------------------------------------------------------------
(***************************************************************************)
(* What a request has read, compared with the tables as they are now.      *)
(***************************************************************************)
\* Thread th handles a request of this kind.
Handles(th, kind) == request[th] # None /\ request[th].kind = kind

\* What a request has read is the beginning of what it reads.
ReadsInOrder(th) ==
  LET read == DOMAIN seen[th]
  IN  /\ request[th] = None => read = {}
      /\ Handles(th, "cached") => read \in {{}, {"cache"}}
      /\ Handles(th, "recompute") => read \in {{}, {"totals"}}
      /\ Handles(th, "detail") =>
           read \in {{}, {"status"}, {"status", "decision"}, {"status", "decision", "story"}}
      /\ Handles(th, "list") => read \in {{}, {"rows"}, {"rows", "total"}}

\* A summary is stamped before it is taken, and taken before it is stored.
StampedInOrder ==
  summaryCache # None => /\ summaryCache.at <= summaryCache.taken
                         /\ summaryCache.taken <= summaryCache.stored
                         /\ summaryCache.stored <= clock

\* A request that found a fresh summary finds one no older when it returns it.
CachedInv(th) ==
  Handles(th, "cached") =>
    /\ began[th] <= clock /\ summaryCache # None
    /\ \/ began[th] - summaryCache.at < DASHBOARD_SUMMARY_TTL_SECONDS
       \/ summaryCache.stored >= began[th]
    /\ "cache" \in DOMAIN seen[th] =>
         /\ seen[th].cache \in Summary
         /\ \/ began[th] - seen[th].cache.taken < DASHBOARD_SUMMARY_TTL_SECONDS
            \/ seen[th].cache.stored >= began[th]

RecomputeInv(th) ==
  Handles(th, "recompute") =>
    /\ began[th] <= clock
    /\ "totals" \in DOMAIN seen[th] =>
         /\ seen[th].totals \in Nat
         /\ began[th] <= seen[th].totals /\ seen[th].totals <= clock

\* What was read of an entry is the entry, and what is read later knows more.
DetailInv(th) ==
  Handles(th, "detail") =>
    LET story == seen[th]
        final == entry[request[th].txn]
    IN  /\ "status" \in DOMAIN story =>
             story.status = "pending" \/ (story.status = final /\ final # None)
        /\ "decision" \in DOMAIN story =>
             /\ story.decision = None \/ story.decision = final
             /\ story.status # "pending" => story.decision = story.status
        /\ "story" \in DOMAIN story =>
             (story.decision # None => story.story = story.decision)

\* What was listed is there still; of pending transactions it need not be.
ListInv(th) ==
  Handles(th, "list") /\ request[th].status # "pending" =>
    LET now    == Cardinality(Matching(request[th].status))
        offset == (request[th].page - 1) * DASHBOARD_PAGE_SIZE
    IN  /\ "rows" \in DOMAIN seen[th] =>
             /\ Cardinality(seen[th].rows) \in Nat
             /\ seen[th].rows # {} => offset + Cardinality(seen[th].rows) <= now
        /\ "total" \in DOMAIN seen[th] =>
             /\ seen[th].total \in Nat /\ seen[th].total <= now
             /\ seen[th].rows # {} =>
                  offset + Cardinality(seen[th].rows) <= seen[th].total

RequestInv(th) == /\ ReadsInOrder(th) /\ CachedInv(th) /\ RecomputeInv(th)
                  /\ DetailInv(th) /\ ListInv(th)

DashboardInv == /\ TypeOK /\ StampedInOrder
                /\ \A th \in Thread : RequestInv(th)

\* How many statements of a request have been run.
LEMMA ReadSoFar ==
  /\ Cardinality({}) = 0 /\ Cardinality({"cache"}) = 1 /\ Cardinality({"totals"}) = 1
  /\ Cardinality({"status"}) = 1 /\ Cardinality({"status", "decision"}) = 2
  /\ Cardinality({"status", "decision", "story"}) = 3
  /\ Cardinality({"rows"}) = 1 /\ Cardinality({"rows", "total"}) = 2
<1>1. \A a : IsFiniteSet({a}) /\ Cardinality({a}) = 1
  BY FS_Singleton
<1>2. ASSUME NEW a, NEW b, a # b
      PROVE  IsFiniteSet({a, b}) /\ Cardinality({a, b}) = 2
  <2>1. {a, b} = {a} \cup {b} /\ b \notin {a} /\ IsFiniteSet({a})
    BY <1>1, <1>2
  <2>2. IsFiniteSet({a} \cup {b}) /\ Cardinality({a} \cup {b}) = Cardinality({a}) + 1
    BY <2>1, FS_AddElement
  <2>3. Cardinality({a}) = 1
    BY <1>1
  <2> QED BY <2>1, <2>2, <2>3
<1>3. ASSUME NEW a, NEW b, NEW c, a # b, a # c, b # c
      PROVE  Cardinality({a, b, c}) = 3
  <2>1. IsFiniteSet({a, b}) /\ Cardinality({a, b}) = 2
    BY <1>2, <1>3
  <2>2. {a, b, c} = {a, b} \cup {c} /\ c \notin {a, b}
    BY <1>3
  <2>3. Cardinality({a, b} \cup {c}) = Cardinality({a, b}) + 1
    BY <2>1, <2>2, FS_AddElement
  <2> QED BY <2>1, <2>2, <2>3
<1>4. "status" # "decision" /\ "status" # "story" /\ "decision" # "story" /\ "rows" # "total"
  OBVIOUS
<1>5. Cardinality({"status", "decision"}) = 2 /\ Cardinality({"rows", "total"}) = 2
  BY <1>2, <1>4
<1>6. Cardinality({"status", "decision", "story"}) = 3
  BY <1>3, <1>4
<1> QED BY <1>1, <1>5, <1>6, FS_EmptySet

LEMMA StatementLists ==
  /\ Len(Statements("cached")) = 1 /\ Statements("cached")[1] = "cache"
  /\ Len(Statements("recompute")) = 1 /\ Statements("recompute")[1] = "totals"
  /\ Len(Statements("detail")) = 3 /\ Statements("detail")[1] = "status"
  /\ Statements("detail")[2] = "decision" /\ Statements("detail")[3] = "story"
  /\ Len(Statements("list")) = 2 /\ Statements("list")[1] = "rows"
  /\ Statements("list")[2] = "total"
BY DEF Statements

\* A request is of one of four kinds.
LEMMA Kinds ==
  ASSUME TypeOK, NEW th \in Thread, request[th] # None
  PROVE  \/ Handles(th, "cached") \/ Handles(th, "recompute")
         \/ Handles(th, "detail") /\ request[th].txn \in Txn
         \/ /\ Handles(th, "list") /\ request[th].page \in 1..MaxPage
            /\ request[th].status \in Filters
<1>1. request[th] \in Request
  BY DEF TypeOK
<1>2. CASE request[th] \in [kind : {"cached", "recompute"}]
  BY <1>2 DEF Handles
<1>3. CASE request[th] \in [kind : {"detail"}, txn : Txn]
  BY <1>3 DEF Handles
<1>4. CASE request[th] \in [kind : {"list"}, page : 1..MaxPage, status : Filters]
  BY <1>4 DEF Handles
<1> QED BY <1>1, <1>2, <1>3, <1>4 DEF Request

\* A complete request has read all it reads.
LEMMA CompleteHasRead ==
  ASSUME TypeOK, NEW th \in Thread, ReadsInOrder(th), Complete(th)
  PROVE  /\ Handles(th, "cached") => DOMAIN seen[th] = {"cache"}
         /\ Handles(th, "recompute") => DOMAIN seen[th] = {"totals"}
         /\ Handles(th, "detail") => DOMAIN seen[th] = {"status", "decision", "story"}
         /\ Handles(th, "list") => DOMAIN seen[th] = {"rows", "total"}
<1>1. CASE Handles(th, "cached")
  BY <1>1, ReadSoFar, StatementLists DEF Handles, ReadsInOrder, Complete, Progress
<1>2. CASE Handles(th, "recompute")
  BY <1>2, ReadSoFar, StatementLists DEF Handles, ReadsInOrder, Complete, Progress
<1>3. CASE Handles(th, "detail")
  BY <1>3, ReadSoFar, StatementLists DEF Handles, ReadsInOrder, Complete, Progress
<1>4. CASE Handles(th, "list")
  BY <1>4, ReadSoFar, StatementLists DEF Handles, ReadsInOrder, Complete, Progress
<1> QED BY <1>1, <1>2, <1>3, <1>4, Kinds DEF Complete, Handles

\* The next statement of a request that is not complete.
NextRead(th, kind, read, statement) ==
  Handles(th, kind) /\ DOMAIN seen[th] = read /\ Statement(th) = statement

LEMMA NextStatement ==
  ASSUME TypeOK, NEW th \in Thread, ReadsInOrder(th), request[th] # None, ~Complete(th)
  PROVE  \/ NextRead(th, "cached", {}, "cache")
         \/ NextRead(th, "recompute", {}, "totals")
         \/ NextRead(th, "detail", {}, "status")
         \/ NextRead(th, "detail", {"status"}, "decision")
         \/ NextRead(th, "detail", {"status", "decision"}, "story")
         \/ NextRead(th, "list", {}, "rows")
         \/ NextRead(th, "list", {"rows"}, "total")
<1> USE DEF NextRead, Statement, Progress
<1>1. CASE Handles(th, "cached")
  <2>1. DOMAIN seen[th] = {}
    BY <1>1, ReadSoFar, StatementLists DEF Handles, ReadsInOrder, Complete
  <2> QED BY <1>1, <2>1, ReadSoFar, StatementLists DEF Handles
<1>2. CASE Handles(th, "recompute")
  <2>1. DOMAIN seen[th] = {}
    BY <1>2, ReadSoFar, StatementLists DEF Handles, ReadsInOrder, Complete
  <2> QED BY <1>2, <2>1, ReadSoFar, StatementLists DEF Handles
<1>3. CASE Handles(th, "detail")
  <2>1. DOMAIN seen[th] \in {{}, {"status"}, {"status", "decision"}}
    BY <1>3, ReadSoFar, StatementLists DEF Handles, ReadsInOrder, Complete
  <2>2. CASE DOMAIN seen[th] = {}
    BY <1>3, <2>2, ReadSoFar, StatementLists DEF Handles
  <2>3. CASE DOMAIN seen[th] = {"status"}
    BY <1>3, <2>3, ReadSoFar, StatementLists DEF Handles
  <2>4. CASE DOMAIN seen[th] = {"status", "decision"}
    BY <1>3, <2>4, ReadSoFar, StatementLists DEF Handles
  <2> QED BY <2>1, <2>2, <2>3, <2>4
<1>4. CASE Handles(th, "list")
  <2>1. DOMAIN seen[th] \in {{}, {"rows"}}
    BY <1>4, ReadSoFar, StatementLists DEF Handles, ReadsInOrder, Complete
  <2>2. CASE DOMAIN seen[th] = {}
    BY <1>4, <2>2, ReadSoFar, StatementLists DEF Handles
  <2>3. CASE DOMAIN seen[th] = {"rows"}
    BY <1>4, <2>3, ReadSoFar, StatementLists DEF Handles
  <2> QED BY <2>1, <2>2, <2>3
<1> QED BY <1>1, <1>2, <1>3, <1>4, Kinds

-----------------------------------------------------------------------------
(***************************************************************************)
(* What a step of anyone does.                                             *)
(***************************************************************************)
\* Transactions come and stay, and so do their entries.
LEMMA TablesGrow ==
  ASSUME TypeOK, [Next]_vars
  PROVE  /\ arrived \subseteq arrived' /\ arrived' \in SUBSET Txn
         /\ entry' \in [Txn -> FinalStatus \cup {None}]
         /\ \A t \in Txn : entry[t] # None => entry'[t] = entry[t]
<1> USE DEF TypeOK
<1>1. CASE UNCHANGED tables
  BY <1>1 DEF tables
<1>2. CASE Commit
  <2>1. ASSUME NEW S \in SUBSET (Txn \ arrived), Ledger!Arrive(S)
        PROVE  arrived \subseteq arrived' /\ arrived' \in SUBSET Txn /\ entry' = entry
    BY <2>1 DEF Ledger!Arrive
  <2>2. ASSUME NEW S \in SUBSET arrived, Ledger!Decide(S),
               entry' \in [Txn -> FinalStatus \cup {None}]
        PROVE  /\ arrived' = arrived
               /\ \A t \in Txn : entry[t] # None => entry'[t] = entry[t]
    BY <2>2 DEF Ledger!Decide
  <2> QED BY <1>2, <2>1, <2>2 DEF Commit
<1>3. Next => UNCHANGED tables \/ Commit
  BY DEF Next, Tick, BeginSummary, BeginDetail, BeginList, Begin, Read, Store, Respond,
         Responded
<1>4. UNCHANGED vars => UNCHANGED tables
  BY DEF vars
<1> QED BY <1>1, <1>2, <1>3, <1>4

\* So what matches a filter other than pending matches it for ever.
LEMMA MatchingGrows ==
  ASSUME TypeOK, [Next]_vars, NEW status \in Filters, status # "pending"
  PROVE  /\ Matching(status) \subseteq Matching(status)'
         /\ Cardinality(Matching(status)) \in Nat
         /\ Cardinality(Matching(status)') \in Nat
         /\ Cardinality(Matching(status)) <= Cardinality(Matching(status)')
<1>1. /\ arrived \in SUBSET Txn /\ arrived \subseteq arrived' /\ arrived' \in SUBSET Txn
      /\ \A t \in Txn : entry[t] # None => entry'[t] = entry[t]
  BY TablesGrow DEF TypeOK
<1>2. ASSUME NEW t \in Matching(status) PROVE t \in Matching(status)'
  <2>1. t \in arrived /\ t \in arrived' /\ status \in {None, StatusOf(t)}
    BY <1>1 DEF Matching
  <2>2. CASE status = None
    BY <2>1, <2>2 DEF Matching
  <2>3. CASE status = StatusOf(t)
    <3>1. StatusOf(t) = entry[t] /\ entry[t] # None
      BY <2>3 DEF StatusOf
    <3>2. StatusOf(t)' = StatusOf(t)
      BY <1>1, <2>1, <3>1 DEF StatusOf
    <3> QED BY <2>1, <2>3, <3>2 DEF Matching
  <2> QED BY <2>1, <2>2, <2>3
<1>3. IsFiniteSet(Matching(status)) /\ IsFiniteSet(Matching(status)')
  BY <1>1, DashboardAssumption, FS_Subset DEF Matching
<1> QED BY <1>2, <1>3, FS_Subset, FS_CardinalityType

\* A request begins, reads, ends, or is left alone.
HandlerOf(th) == <<request[th], began[th], seen[th]>>

LEMMA StepOfThread ==
  ASSUME TypeOK, [Next]_vars, NEW th \in Thread
  PROVE  \/ UNCHANGED HandlerOf(th)
         \/ BeginSummary(th) \/ BeginDetail(th) \/ BeginList(th)
         \/ Read(th) \/ Store(th) \/ Respond(th)
<1> USE DEF TypeOK, HandlerOf
<1>1. CASE UNCHANGED handler
  BY <1>1 DEF handler
<1>2. Commit \/ Tick \/ UNCHANGED vars => UNCHANGED handler
  BY DEF Commit, Tick, vars
<1>3. ASSUME NEW v \in Thread, v # th,
             \/ BeginSummary(v) \/ BeginDetail(v) \/ BeginList(v)
             \/ Read(v) \/ Store(v) \/ Respond(v)
      PROVE  UNCHANGED HandlerOf(th)
  BY <1>3 DEF BeginSummary, BeginDetail, BeginList, Begin, Read, Store, Respond, Responded
<1> QED BY <1>1, <1>2, <1>3 DEF Next

\* A new summary is stored with its stamps in order, and at the present time.
LEMMA SummaryMoves ==
  ASSUME DashboardInv, [Next]_vars
  PROVE  /\ clock' \in 0..MaxTime /\ clock <= clock'
         /\ \/ summaryCache' = summaryCache
            \/ /\ summaryCache' \in Summary /\ clock' = clock
               /\ summaryCache'.at <= summaryCache'.taken
               /\ summaryCache'.taken <= summaryCache'.stored
               /\ summaryCache'.stored = clock
<1> USE DEF DashboardInv, TypeOK
<1>1. CASE Tick
  BY <1>1, DashboardAssumption DEF Tick
<1>2. ASSUME NEW th \in Thread, Store(th)
      PROVE  /\ summaryCache' \in Summary /\ clock' = clock
             /\ summaryCache'.at <= summaryCache'.taken
             /\ summaryCache'.taken <= summaryCache'.stored
             /\ summaryCache'.stored = clock
  <2>1. Handles(th, "recompute") /\ Complete(th)
    BY <1>2 DEF Store, Handles, Complete
  <2>2. "totals" \in DOMAIN seen[th]
    BY <2>1, CompleteHasRead DEF RequestInv
  <2>3. /\ seen[th].totals \in Nat
        /\ began[th] <= seen[th].totals /\ seen[th].totals <= clock
    BY <2>1, <2>2 DEF RequestInv, RecomputeInv
  <2>4. /\ summaryCache' = [at |-> began[th], taken |-> seen[th].totals, stored |-> clock]
        /\ clock' = clock
    BY <1>2 DEF Store, Responded
  <2>5. began[th] \in Nat /\ clock \in Nat
    BY DashboardAssumption
  <2> QED BY <2>3, <2>4, <2>5 DEF Summary
<1>3. \/ Tick
      \/ summaryCache' = summaryCache /\ clock' = clock
      \/ \E th \in Thread : Store(th)
  BY DEF Next, vars, Commit, BeginSummary, BeginDetail, BeginList, Begin, Read, Respond,
         Responded
<1>4. clock \in 0..MaxTime /\ clock <= clock
  BY DashboardAssumption
<1> QED BY <1>1, <1>2, <1>3, <1>4 DEF Tick

LEMMA StepStampedInOrder ==
  ASSUME DashboardInv, [Next]_vars
  PROVE  StampedInOrder' /\ summaryCache' \in Summary \cup {None}
<1>1. clock \in Nat /\ clock' \in Nat /\ clock <= clock'
  BY SummaryMoves, DashboardAssumption DEF DashboardInv, TypeOK
<1>2. CASE summaryCache' = summaryCache
  <2>1. summaryCache # None => summaryCache.stored \in Nat
    BY DEF DashboardInv, TypeOK, Summary
  <2> QED BY <1>1, <1>2, <2>1 DEF DashboardInv, TypeOK, StampedInOrder
<1>3. CASE summaryCache' # summaryCache
  BY <1>1, <1>3, SummaryMoves DEF StampedInOrder
<1> QED BY <1>2, <1>3

\* While a thread is left alone, its reads stay true of the tables.
LEMMA HandlerKept ==
  ASSUME DashboardInv, [Next]_vars, NEW th \in Thread, UNCHANGED HandlerOf(th)
  PROVE  RequestInv(th)'
<1> USE DEF DashboardInv, TypeOK, HandlerOf
<1>1. /\ request'[th] = request[th] /\ began'[th] = began[th] /\ seen'[th] = seen[th]
      /\ \A kind : Handles(th, kind)' = Handles(th, kind)
  BY DEF Handles
<1>2. ReadsInOrder(th)'
  BY <1>1 DEF RequestInv, ReadsInOrder
<1>3. began[th] \in Nat /\ clock \in Nat /\ clock' \in Nat /\ clock <= clock'
  BY SummaryMoves, DashboardAssumption
<1>4. CachedInv(th)'
  <2> SUFFICES ASSUME Handles(th, "cached") PROVE CachedInv(th)'
    BY <1>1 DEF CachedInv
  <2>1. began[th] <= clock /\ summaryCache # None
    BY DEF RequestInv, CachedInv
  <2>2. began'[th] <= clock'
    BY <1>1, <1>3, <2>1
  <2>3. CASE summaryCache' = summaryCache
    BY <1>1, <2>2, <2>3 DEF RequestInv, CachedInv
  <2>4. CASE summaryCache' # summaryCache
    <3>1. summaryCache' \in Summary /\ summaryCache'.stored = clock
      BY <2>4, SummaryMoves
    <3>2. summaryCache' # None
      BY <3>1, NoneAssumption
    <3> QED BY <1>1, <2>1, <2>2, <3>1, <3>2 DEF RequestInv, CachedInv
  <2> QED BY <2>3, <2>4
<1>5. RecomputeInv(th)'
  <2> SUFFICES ASSUME Handles(th, "recompute") PROVE RecomputeInv(th)'
    BY <1>1 DEF RecomputeInv
  <2>1. began'[th] <= clock'
    BY <1>1, <1>3 DEF RequestInv, RecomputeInv
  <2>2. ASSUME "totals" \in DOMAIN seen[th]
        PROVE  /\ seen[th].totals \in Nat
               /\ began[th] <= seen[th].totals /\ seen[th].totals <= clock'
    BY <1>3, <2>2 DEF RequestInv, RecomputeInv
  <2> QED BY <1>1, <2>1, <2>2 DEF RecomputeInv
<1>6. DetailInv(th)'
  <2> SUFFICES ASSUME Handles(th, "detail") PROVE DetailInv(th)'
    BY <1>1 DEF DetailInv
  <2>1. request[th].txn \in Txn
    BY Kinds DEF Handles
  <2>2. entry[request[th].txn] # None => entry'[request[th].txn] = entry[request[th].txn]
    BY <2>1, TablesGrow
  <2> QED BY <1>1, <2>2 DEF RequestInv, DetailInv
<1>7. ListInv(th)'
  <2> SUFFICES ASSUME Handles(th, "list"), request[th].status # "pending" PROVE ListInv(th)'
    BY <1>1 DEF ListInv
  <2> DEFINE status == request[th].status
             now == Cardinality(Matching(status))
             then == Cardinality(Matching(status)')
             offset == (request[th].page - 1) * DASHBOARD_PAGE_SIZE
  <2>1. status \in Filters /\ request[th].page \in Nat
    BY Kinds, DashboardAssumption DEF Handles
  <2>2. now \in Nat /\ then \in Nat /\ now <= then
    BY <2>1, MatchingGrows
  <2>3. Cardinality(Matching(request[th].status))' = then
    BY <1>1 DEF Matching
  <2>4. offset \in Int
    BY <2>1, DashboardAssumption
  <2>5. ASSUME "rows" \in DOMAIN seen[th]
        PROVE  /\ Cardinality(seen[th].rows) \in Nat
               /\ seen[th].rows # {} => offset + Cardinality(seen[th].rows) <= then
    <3>1. /\ Cardinality(seen[th].rows) \in Nat
          /\ seen[th].rows # {} => offset + Cardinality(seen[th].rows) <= now
      BY <2>5 DEF RequestInv, ListInv
    <3> HIDE DEF offset, now, then
    <3> QED BY <2>2, <2>4, <3>1
  <2>6. ASSUME "total" \in DOMAIN seen[th]
        PROVE  /\ seen[th].total \in Nat /\ seen[th].total <= then
               /\ seen[th].rows # {} =>
                    offset + Cardinality(seen[th].rows) <= seen[th].total
    <3>1. /\ seen[th].total \in Nat /\ seen[th].total <= now
          /\ seen[th].rows # {} =>
               offset + Cardinality(seen[th].rows) <= seen[th].total
      BY <2>6 DEF RequestInv, ListInv
    <3> HIDE DEF offset, now, then
    <3> QED BY <2>2, <3>1
  <2> QED BY <1>1, <2>3, <2>5, <2>6 DEF ListInv
<1> QED BY <1>2, <1>4, <1>5, <1>6, <1>7 DEF RequestInv

\* A request that begins has read nothing; a cached one found a fresh summary.
LEMMA BeginsRight ==
  ASSUME DashboardInv, NEW th \in Thread,
         BeginSummary(th) \/ BeginDetail(th) \/ BeginList(th)
  PROVE  RequestInv(th)'
<1> USE DEF DashboardInv, TypeOK
<1>1. request[th] = None /\ clock' = clock /\ summaryCache' = summaryCache /\ seen' = seen
  BY DEF BeginSummary, BeginDetail, BeginList, Begin
<1>2. DOMAIN seen'[th] = {}
  BY <1>1 DEF RequestInv, ReadsInOrder
<1>3. ReadsInOrder(th)' /\ DetailInv(th)' /\ ListInv(th)'
  BY <1>2 DEF ReadsInOrder, DetailInv, ListInv
<1>4. CASE BeginSummary(th)
  <2>1. /\ request'[th] = [kind |-> IF Fresh THEN "cached" ELSE "recompute"]
        /\ began'[th] = clock
    BY <1>4 DEF BeginSummary, Begin
  <2>2. Handles(th, "cached")' => Fresh
    BY <2>1 DEF Handles
  <2>3. clock \in Nat
    BY DashboardAssumption
  <2>4. CachedInv(th)'
    BY <1>1, <1>2, <2>1, <2>2, <2>3 DEF CachedInv, Fresh
  <2>5. RecomputeInv(th)'
    BY <1>1, <1>2, <2>1, <2>3 DEF RecomputeInv
  <2> QED BY <1>3, <2>4, <2>5 DEF RequestInv
<1>5. CASE BeginDetail(th) \/ BeginList(th)
  <2>1. request'[th].kind \in {"detail", "list"}
    BY <1>5 DEF BeginDetail, BeginList, Begin
  <2>2. CachedInv(th)' /\ RecomputeInv(th)'
    BY <2>1 DEF CachedInv, RecomputeInv, Handles
  <2> QED BY <1>3, <2>2 DEF RequestInv
<1> QED BY <1>4, <1>5

\* A statement reads the tables as they are, which agrees with what the
\* statements before it have read.
LEMMA ReadsRight ==
  ASSUME DashboardInv, NEW th \in Thread, Read(th)
  PROVE  RequestInv(th)'
<1> USE DEF DashboardInv, TypeOK
<1> DEFINE s == Statement(th)
<1>1. /\ request' = request /\ began' = began /\ clock' = clock
      /\ summaryCache' = summaryCache /\ entry' = entry /\ arrived' = arrived
      /\ \A kind : Handles(th, kind)' = Handles(th, kind)
  BY DEF Read, tables, Handles
<1>2. seen'[th] = [x \in DOMAIN seen[th] \cup {s} |->
                     IF x = s THEN Result(s, request[th]) ELSE seen[th][x]]
  BY DEF Read
<1>3. request[th] # None /\ ~Complete(th) /\ RequestInv(th)
  BY DEF Read
<1> HIDE DEF s
<1>4. CASE NextRead(th, "cached", {}, "cache")
  <2>1. /\ Handles(th, "cached") /\ ~Handles(th, "recompute") /\ ~Handles(th, "detail")
        /\ ~Handles(th, "list") /\ s = "cache"
    BY <1>4 DEF NextRead, Handles, s
  <2>2. DOMAIN seen'[th] = {"cache"} /\ seen'[th].cache = summaryCache
    BY <1>2, <1>4, <2>1 DEF NextRead, Result
  <2>3. /\ began[th] <= clock /\ summaryCache # None
        /\ \/ began[th] - summaryCache.at < DASHBOARD_SUMMARY_TTL_SECONDS
           \/ summaryCache.stored >= began[th]
    BY <1>3, <2>1 DEF RequestInv, CachedInv
  <2>4. \/ began[th] - summaryCache.taken < DASHBOARD_SUMMARY_TTL_SECONDS
        \/ summaryCache.stored >= began[th]
    <3>1. /\ summaryCache.at \in Nat /\ summaryCache.taken \in Nat
          /\ began[th] \in Nat /\ DASHBOARD_SUMMARY_TTL_SECONDS \in Nat
      BY <2>3, DashboardAssumption DEF Summary
    <3>2. summaryCache.at <= summaryCache.taken
      BY <2>3 DEF StampedInOrder
    <3> QED BY <2>3, <3>1, <3>2
  <2>5. CachedInv(th)'
    BY <1>1, <2>2, <2>3, <2>4 DEF CachedInv
  <2>6. ReadsInOrder(th)'
    BY <1>1, <1>3, <2>1, <2>2 DEF ReadsInOrder
  <2> QED BY <1>1, <2>1, <2>5, <2>6 DEF RequestInv, RecomputeInv, DetailInv, ListInv
<1>5. CASE NextRead(th, "recompute", {}, "totals")
  <2>1. /\ Handles(th, "recompute") /\ ~Handles(th, "cached") /\ ~Handles(th, "detail")
        /\ ~Handles(th, "list") /\ s = "totals"
    BY <1>5 DEF NextRead, Handles, s
  <2>2. DOMAIN seen'[th] = {"totals"} /\ seen'[th].totals = clock
    BY <1>2, <1>5, <2>1 DEF NextRead, Result
  <2>3. began[th] <= clock /\ clock \in Nat
    BY <1>3, <2>1, DashboardAssumption DEF RequestInv, RecomputeInv
  <2>4. RecomputeInv(th)'
    BY <1>1, <2>2, <2>3 DEF RecomputeInv
  <2>5. ReadsInOrder(th)'
    BY <1>1, <1>3, <2>1, <2>2 DEF ReadsInOrder
  <2> QED BY <1>1, <2>1, <2>4, <2>5 DEF RequestInv, CachedInv, DetailInv, ListInv
<1>6. CASE \/ NextRead(th, "detail", {}, "status")
           \/ NextRead(th, "detail", {"status"}, "decision")
           \/ NextRead(th, "detail", {"status", "decision"}, "story")
  <2> DEFINE final == entry[request[th].txn]
             now == seen'[th]
  <2>1. /\ Handles(th, "detail") /\ ~Handles(th, "cached") /\ ~Handles(th, "recompute")
        /\ ~Handles(th, "list")
    BY <1>6 DEF NextRead, Handles
  <2>2. DetailInv(th)
    BY <1>3 DEF RequestInv
  <2>3. CASE NextRead(th, "detail", {}, "status")
    <3>1. DOMAIN now = {"status"} /\ now.status = StatusOf(request[th].txn)
      BY <1>2, <2>3 DEF NextRead, Result, s
    <3>2. DetailInv(th)'
      BY <1>1, <3>1 DEF DetailInv, StatusOf
    <3>3. ReadsInOrder(th)'
      BY <1>1, <1>3, <2>1, <3>1 DEF ReadsInOrder
    <3> QED BY <1>1, <2>1, <3>2, <3>3 DEF RequestInv, CachedInv, RecomputeInv, ListInv
  <2>4. CASE NextRead(th, "detail", {"status"}, "decision")
    <3>1. /\ DOMAIN now = {"status", "decision"}
          /\ now.status = seen[th].status /\ now.decision = final
      BY <1>2, <2>4 DEF NextRead, Result, s
    <3>2. now.status = "pending" \/ (now.status = final /\ final # None)
      BY <2>1, <2>2, <2>4, <3>1 DEF DetailInv, NextRead
    <3>3. DetailInv(th)'
      BY <1>1, <3>1, <3>2 DEF DetailInv
    <3>4. ReadsInOrder(th)'
      BY <1>1, <1>3, <2>1, <3>1 DEF ReadsInOrder
    <3> QED BY <1>1, <2>1, <3>3, <3>4 DEF RequestInv, CachedInv, RecomputeInv, ListInv
  <2>5. CASE NextRead(th, "detail", {"status", "decision"}, "story")
    <3>1. /\ DOMAIN now = {"status", "decision", "story"}
          /\ now.status = seen[th].status /\ now.decision = seen[th].decision
          /\ now.story = final
      BY <1>2, <2>5 DEF NextRead, Result, s
    <3>2. /\ now.status = "pending" \/ (now.status = final /\ final # None)
          /\ now.decision = None \/ now.decision = final
          /\ now.status # "pending" => now.decision = now.status
      BY <2>1, <2>2, <2>5, <3>1 DEF DetailInv, NextRead
    <3>3. DetailInv(th)'
      BY <1>1, <3>1, <3>2 DEF DetailInv
    <3>4. ReadsInOrder(th)'
      BY <1>1, <1>3, <2>1, <3>1 DEF ReadsInOrder
    <3> QED BY <1>1, <2>1, <3>3, <3>4 DEF RequestInv, CachedInv, RecomputeInv, ListInv
  <2> QED BY <1>6, <2>3, <2>4, <2>5
<1>7. CASE \/ NextRead(th, "list", {}, "rows")
           \/ NextRead(th, "list", {"rows"}, "total")
  <2> DEFINE status == request[th].status
             page == request[th].page
             offset == (page - 1) * DASHBOARD_PAGE_SIZE
             rows == PageRows(page, status)
             total == Cardinality(Matching(status))
             now == seen'[th]
  <2>1. /\ Handles(th, "list") /\ ~Handles(th, "cached") /\ ~Handles(th, "recompute")
        /\ ~Handles(th, "detail")
    BY <1>7 DEF NextRead, Handles
  <2>2. ListInv(th)
    BY <1>3 DEF RequestInv
  <2>3. Cardinality(Matching(request[th].status))' = total
    BY <1>1 DEF Matching, StatusOf
  <2>4. total \in Nat /\ Matching(status) \in SUBSET Nat /\ IsFiniteSet(Matching(status))
    <3>1. Matching(status) \in SUBSET Txn
      BY DEF Matching
    <3> QED BY <3>1, DashboardAssumption, FS_Subset, FS_CardinalityType
  <2>5. CASE NextRead(th, "list", {}, "rows")
    <3>1. DOMAIN now = {"rows"} /\ now.rows = rows
      BY <1>2, <2>5 DEF NextRead, Result, s
    <3>2. page \in Nat \ {0}
      BY <2>1, Kinds, DashboardAssumption DEF Handles
    <3>3. rows = RowsOf(Matching(status), page)
      BY DEF PageRows, RowsOf, Before
    <3>4. rows # {} => offset + Cardinality(rows) <= total
      BY <2>4, <3>2, <3>3, RowsWithin
    <3>5. Cardinality(rows) \in Nat
      <4>1. rows \in SUBSET Matching(status)
        BY DEF PageRows
      <4> QED BY <2>4, <4>1, FS_Subset, FS_CardinalityType
    <3>6. ListInv(th)'
      BY <1>1, <2>3, <3>1, <3>4, <3>5 DEF ListInv
    <3>7. ReadsInOrder(th)'
      BY <1>1, <1>3, <2>1, <3>1 DEF ReadsInOrder
    <3> QED BY <1>1, <2>1, <3>6, <3>7 DEF RequestInv, CachedInv, RecomputeInv, DetailInv
  <2>6. CASE NextRead(th, "list", {"rows"}, "total")
    <3>1. DOMAIN now = {"rows", "total"} /\ now.rows = seen[th].rows /\ now.total = total
      BY <1>2, <2>6 DEF NextRead, Result, s
    <3>2. status # "pending" =>
            /\ Cardinality(now.rows) \in Nat
            /\ now.rows # {} => offset + Cardinality(now.rows) <= total
      BY <2>1, <2>2, <2>6, <3>1 DEF ListInv, NextRead
    <3>3. total <= total
      BY <2>4
    <3>4. ListInv(th)'
      BY <1>1, <2>3, <2>4, <3>1, <3>2, <3>3 DEF ListInv
    <3>5. ReadsInOrder(th)'
      BY <1>1, <1>3, <2>1, <3>1 DEF ReadsInOrder
    <3> QED BY <1>1, <2>1, <3>4, <3>5 DEF RequestInv, CachedInv, RecomputeInv, DetailInv
  <2> QED BY <1>7, <2>5, <2>6
<1> QED BY <1>3, <1>4, <1>5, <1>6, <1>7, NextStatement DEF RequestInv

\* A request that ends leaves nothing behind.
LEMMA EndsRight ==
  ASSUME DashboardInv, NEW th \in Thread, Store(th) \/ Respond(th)
  PROVE  RequestInv(th)'
<1>1. request'[th] = None /\ DOMAIN seen'[th] = {}
  <2>1. DOMAIN <<>> = {}
    OBVIOUS
  <2> QED BY <2>1 DEF Store, Respond, Responded, DashboardInv, TypeOK
<1> QED BY <1>1 DEF RequestInv, ReadsInOrder, CachedInv, RecomputeInv, DetailInv, ListInv,
                    Handles

LEMMA StepRequest ==
  ASSUME DashboardInv, [Next]_vars, NEW th \in Thread
  PROVE  RequestInv(th)'
<1>1. TypeOK
  BY DEF DashboardInv
<1> QED BY <1>1, StepOfThread, HandlerKept, BeginsRight, ReadsRight, EndsRight

\* The threads' own variables keep their types.
LEMMA StepHandlers ==
  ASSUME TypeOK, [Next]_vars
  PROVE  /\ request' \in [Thread -> Request \cup {None}]
         /\ began' \in [Thread -> 0..MaxTime] /\ DOMAIN seen' = Thread
<1> USE DEF TypeOK
<1>1. CASE UNCHANGED handler
  BY <1>1 DEF handler
<1>2. Commit \/ Tick \/ UNCHANGED vars => UNCHANGED handler
  BY DEF Commit, Tick, vars
<1>3. ASSUME NEW th \in Thread, BeginSummary(th)
      PROVE  /\ request' \in [Thread -> Request \cup {None}]
             /\ began' \in [Thread -> 0..MaxTime] /\ DOMAIN seen' = Thread
  <2>1. [kind |-> IF Fresh THEN "cached" ELSE "recompute"] \in Request
    BY DEF Request
  <2> QED BY <1>3, <2>1 DEF BeginSummary, Begin
<1>4. ASSUME NEW th \in Thread, BeginDetail(th)
      PROVE  /\ request' \in [Thread -> Request \cup {None}]
             /\ began' \in [Thread -> 0..MaxTime] /\ DOMAIN seen' = Thread
  <2>1. \A t \in arrived : [kind |-> "detail", txn |-> t] \in Request
    BY DEF Request
  <2> QED BY <1>4, <2>1 DEF BeginDetail, Begin
<1>5. ASSUME NEW th \in Thread, BeginList(th)
      PROVE  /\ request' \in [Thread -> Request \cup {None}]
             /\ began' \in [Thread -> 0..MaxTime] /\ DOMAIN seen' = Thread
  <2>1. \A page \in 1..MaxPage, status \in Filters :
          [kind |-> "list", page |-> page, status |-> status] \in Request
    BY DEF Request
  <2> QED BY <1>5, <2>1 DEF BeginList, Begin
<1>6. ASSUME NEW th \in Thread, Read(th) \/ Store(th) \/ Respond(th)
      PROVE  /\ request' \in [Thread -> Request \cup {None}]
             /\ began' \in [Thread -> 0..MaxTime] /\ DOMAIN seen' = Thread
  <2>1. 0 \in 0..MaxTime
    BY DashboardAssumption
  <2> QED BY <1>6, <2>1 DEF Read, Store, Respond, Responded
<1> QED BY <1>1, <1>2, <1>3, <1>4, <1>5, <1>6 DEF Next

LEMMA InitDashboardInv == Init => DashboardInv
<1> SUFFICES ASSUME Init PROVE DashboardInv
  OBVIOUS
<1>1. DOMAIN <<>> = {}
  OBVIOUS
<1>2. TypeOK
  BY <1>1, DashboardAssumption DEF Init, Ledger!Init, TypeOK
<1>3. StampedInOrder
  BY DEF Init, StampedInOrder
<1>4. \A th \in Thread : RequestInv(th)
  BY <1>1 DEF Init, RequestInv, ReadsInOrder, CachedInv, RecomputeInv, DetailInv, ListInv,
              Handles
<1> QED BY <1>2, <1>3, <1>4 DEF DashboardInv

LEMMA StepDashboardInv == DashboardInv /\ [Next]_vars => DashboardInv'
<1> SUFFICES ASSUME DashboardInv, [Next]_vars PROVE DashboardInv'
  OBVIOUS
<1>1. TypeOK
  BY DEF DashboardInv
<1>2. \A th \in Thread : RequestInv(th)'
  BY StepRequest
<1>3. StampedInOrder' /\ summaryCache' \in Summary \cup {None}
  BY StepStampedInOrder
<1>4. clock' \in 0..MaxTime
  BY SummaryMoves
<1>5. ASSUME NEW th \in Thread, "cache" \in DOMAIN seen'[th]
      PROVE  seen'[th].cache \in Summary
  <2>1. ReadsInOrder(th)' /\ CachedInv(th)'
    BY <1>2 DEF RequestInv
  <2>2. request'[th] # None
    BY <1>5, <2>1 DEF ReadsInOrder
  <2>3. request'[th] \in Request
    BY <1>1, <2>2, StepHandlers
  <2>4. request'[th].kind \in {"cached", "recompute", "detail", "list"}
    BY <2>3 DEF Request
  <2>5. request'[th].kind = "cached"
    BY <1>5, <2>1, <2>2, <2>4 DEF ReadsInOrder, Handles
  <2> QED BY <1>5, <2>1, <2>2, <2>5 DEF CachedInv, Handles
<1>6. TypeOK'
  BY <1>1, <1>3, <1>4, <1>5, TablesGrow, StepHandlers DEF TypeOK
<1> QED BY <1>2, <1>3, <1>6 DEF DashboardInv

\* What every request has read agrees with the tables, whatever the workers and
\* the other threads do between its statements.
THEOREM DashboardInvariant == Spec => []DashboardInv
BY InitDashboardInv, StepDashboardInv, PTL DEF Spec

-----------------------------------------------------------------------------
(***************************************************************************)
(* What the views promise.                                                 *)
(***************************************************************************)
\* A summary, a request and what a request has read from the cache are what
\* they should be; in particular get_summary never returns a missing summary.
THEOREM TypeCorrect == Spec => []TypeOK
<1>1. DashboardInv => TypeOK
  BY DEF DashboardInv
<1> QED BY <1>1, DashboardInvariant, PTL

\* A summary from the cache is younger than its lifetime, or was stored while
\* the request was being handled.
THEOREM CachedSummaryIsRecent == Spec => []SummaryIsRecent
<1>1. DashboardInv => SummaryIsRecent
  <2> SUFFICES ASSUME DashboardInv, NEW th \in Thread, Complete(th), Handles(th, "cached")
               PROVE  /\ seen[th].cache # None
                      /\ \/ began[th] - seen[th].cache.taken < DASHBOARD_SUMMARY_TTL_SECONDS
                         \/ seen[th].cache.stored >= began[th]
    BY DEF SummaryIsRecent, Handles, Complete
  <2>1. "cache" \in DOMAIN seen[th]
    BY CompleteHasRead DEF DashboardInv, RequestInv
  <2> QED BY <2>1, NoneAssumption DEF DashboardInv, RequestInv, CachedInv
<1> QED BY <1>1, DashboardInvariant, PTL

\* The detail view explains the status it shows: what it reads later is never
\* behind what it read before.
THEOREM DetailIsExplained == Spec => []FinalStatusIsExplained
<1>1. DashboardInv => FinalStatusIsExplained
  <2> SUFFICES ASSUME DashboardInv, NEW th \in Thread, Complete(th), Handles(th, "detail")
               PROVE  /\ seen[th].status # "pending" => seen[th].decision = seen[th].status
                      /\ seen[th].decision # None => seen[th].story = seen[th].decision
    BY DEF FinalStatusIsExplained, Handles, Complete
  <2>1. DOMAIN seen[th] = {"status", "decision", "story"}
    BY CompleteHasRead DEF DashboardInv, RequestInv
  <2> QED BY <2>1 DEF DashboardInv, RequestInv, DetailInv
<1> QED BY <1>1, DashboardInvariant, PTL

\* A list that is not the pending one shows no more rows than its total.
THEOREM ListIsWithinTotal == Spec => []ListWithinTotal
<1>1. DashboardInv => ListWithinTotal
  <2> SUFFICES ASSUME DashboardInv, NEW th \in Thread, Complete(th), Handles(th, "list"),
                      request[th].status # "pending", seen[th].rows # {}
               PROVE  (request[th].page - 1) * DASHBOARD_PAGE_SIZE
                        + Cardinality(seen[th].rows) <= seen[th].total
    BY DEF ListWithinTotal, Handles, Complete
  <2>1. DOMAIN seen[th] = {"rows", "total"}
    BY CompleteHasRead DEF DashboardInv, RequestInv
  <2> QED BY <2>1 DEF DashboardInv, RequestInv, ListInv
<1> QED BY <1>1, DashboardInvariant, PTL

\* A link to a next page leads to rows for as long as it is shown, and a page
\* without one is the last.
THEOREM LinksLeadToRows == Spec => []NextLeadsToRows
<1>1. DashboardInv => NextLeadsToRows
  <2> SUFFICES ASSUME DashboardInv, NEW th \in Thread, Complete(th), Handles(th, "list"),
                      request[th].status # "pending"
               PROVE  IF HasNext(th)
                      THEN PageRows(request[th].page + 1, request[th].status) # {}
                      ELSE seen[th].total <= request[th].page * DASHBOARD_PAGE_SIZE
    BY DEF NextLeadsToRows, Handles, Complete
  <2> DEFINE page == request[th].page
             status == request[th].status
             total == seen[th].total
             M == Matching(status)
  <2>1. DOMAIN seen[th] = {"rows", "total"}
    BY CompleteHasRead DEF DashboardInv, RequestInv
  <2>2. total \in Nat /\ total <= Cardinality(M)
    BY <2>1 DEF DashboardInv, RequestInv, ListInv
  <2>3. page \in Nat \ {0} /\ DASHBOARD_PAGE_SIZE \in Nat \ {0}
    BY Kinds, DashboardAssumption DEF DashboardInv, Handles, Complete
  <2>4. M \in SUBSET Nat /\ IsFiniteSet(M) /\ Cardinality(M) \in Nat
    <3>1. M \in SUBSET Txn
      BY DEF Matching, DashboardInv, TypeOK
    <3> QED BY <3>1, DashboardAssumption, FS_Subset, FS_CardinalityType
  <2>5. HasNext(th) <=> page * DASHBOARD_PAGE_SIZE < total
    <3>1. page * DASHBOARD_PAGE_SIZE \in Nat /\ page * DASHBOARD_PAGE_SIZE > 0
      BY <2>3
    <3>2. CASE total = 0
      <4>1. HasNext(th) <=> page < 1
        BY <3>2 DEF HasNext, TotalPages
      <4> HIDE DEF page, total
      <4> QED BY <2>3, <3>1, <3>2, <4>1
    <3>3. CASE total # 0
      <4>1. HasNext(th) <=>
              page < (total + DASHBOARD_PAGE_SIZE - 1) \div DASHBOARD_PAGE_SIZE
        BY <3>3 DEF HasNext, TotalPages
      <4> HIDE DEF page, total
      <4> QED BY <2>2, <2>3, <4>1, Ceiling
    <3> QED BY <3>2, <3>3
  <2>6. CASE HasNext(th)
    <3>1. page * DASHBOARD_PAGE_SIZE \in Nat
      BY <2>3
    <3>2. page * DASHBOARD_PAGE_SIZE < Cardinality(M)
      <4> HIDE DEF page, total, M
      <4> QED BY <2>2, <2>4, <2>5, <2>6, <3>1
    <3>3. RowsOf(M, page + 1) # {}
      <4> HIDE DEF page, M
      <4> QED BY <2>3, <2>4, <3>2, PageHasRows
    <3>4. PageRows(page + 1, status) = RowsOf(M, page + 1)
      BY DEF PageRows, RowsOf, Before
    <3> QED BY <2>6, <3>3, <3>4
  <2>7. CASE ~HasNext(th)
    <3>1. page * DASHBOARD_PAGE_SIZE \in Nat
      BY <2>3
    <3>2. total <= page * DASHBOARD_PAGE_SIZE
      <4> HIDE DEF page, total
      <4> QED BY <2>2, <2>5, <2>7, <3>1
    <3> QED BY <2>7, <3>2
  <2> QED BY <2>6, <2>7
<1> QED BY <1>1, DashboardInvariant, PTL

-----------------------------------------------------------------------------
(***************************************************************************)
(* The connection of the request threads, src/dashboard.py:36-46.  Two     *)
(* threads can leave it outside autocommit; a single one cannot.           *)
(***************************************************************************)
CONSTANT Connection

VARIABLES conn, autocommit, state, dropped, at, using

Shared == INSTANCE DashboardConnection

\* Only the thread itself opens, configures and uses a connection, so that a
\* connection it has not configured yet is the one it is about to.
OwnConnection(th) ==
  /\ conn # "none" => /\ state[conn] \in {"idle", "closed"}
                      /\ at[th] # "configure" => autocommit[conn]
  /\ conn = "none" => at[th] \in {"start", "connect"}
  /\ at[th] = "configure" => state[conn] = "idle"
  /\ at[th] = "execute" => using[th] = conn

ConnectionInv ==
  /\ conn \in Connection \cup {"none"}
  /\ autocommit \in [Connection -> BOOLEAN]
  /\ state \in [Connection -> {"unopened", "idle", "intrans", "aborted", "closed"}]
  /\ at \in [Thread -> {"start", "connect", "configure", "return", "execute"}]
  /\ using \in [Thread -> Connection \cup {"none"}]
  /\ \A th \in Thread : OwnConnection(th)
  /\ Thread = {} => conn = "none"

LEMMA ConnectionStep ==
  ASSUME "none" \notin Connection, \A th, u \in Thread : th = u,
         ConnectionInv, [Shared!Next]_(Shared!vars)
  PROVE  ConnectionInv'
<1> USE DEF ConnectionInv, OwnConnection
<1>1. ASSUME NEW th \in Thread, Shared!Test(th) PROVE ConnectionInv'
  BY <1>1 DEF Shared!Test, Shared!Goto, Shared!Usable
<1>2. ASSUME NEW th \in Thread, Shared!Connect(th) PROVE ConnectionInv'
  BY <1>2 DEF Shared!Connect, Shared!Goto
<1>3. ASSUME NEW th \in Thread, Shared!Configure(th) PROVE ConnectionInv'
  BY <1>3 DEF Shared!Configure, Shared!Goto
<1>4. ASSUME NEW th \in Thread, Shared!Return(th) PROVE ConnectionInv'
  BY <1>4 DEF Shared!Return, Shared!Goto
<1>5. ASSUME NEW th \in Thread, Shared!Execute(th) PROVE ConnectionInv'
  BY <1>5 DEF Shared!Execute, Shared!Goto, Shared!After
<1>6. ASSUME NEW c \in Connection, Shared!Drop(c) PROVE ConnectionInv'
  BY <1>6 DEF Shared!Drop
<1>7. CASE UNCHANGED Shared!vars
  BY <1>7 DEF Shared!vars
<1> QED BY <1>1, <1>2, <1>3, <1>4, <1>5, <1>6, <1>7 DEF Shared!Next

\* One request thread never leaves the connection in a transaction, however
\* often the server drops it and whichever statements fail: the disagreement
\* about SharedConnectionAutocommits needs two.
THEOREM OneThreadAutocommits ==
  ASSUME "none" \notin Connection, \A th, u \in Thread : th = u
  PROVE  Shared!Spec => []Shared!SharedConnectionAutocommits
<1>1. Shared!Init => ConnectionInv
  BY DEF Shared!Init, ConnectionInv, OwnConnection
<1>2. ConnectionInv /\ [Shared!Next]_(Shared!vars) => ConnectionInv'
  BY ConnectionStep
<1>3. ConnectionInv => Shared!SharedConnectionAutocommits
  <2> SUFFICES ASSUME ConnectionInv, conn # "none", state[conn] # "closed"
               PROVE  state[conn] = "idle"
    BY DEF Shared!SharedConnectionAutocommits, Shared!Usable
  <2>1. PICK th \in Thread : TRUE
    BY DEF ConnectionInv
  <2> QED BY <2>1 DEF ConnectionInv, OwnConnection
<1> QED BY <1>1, <1>2, <1>3, PTL DEF Shared!Spec
=============================================================================
