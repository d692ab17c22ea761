----------------------------- MODULE Dashboard -----------------------------
(***************************************************************************)
(* The read-only views of src/dashboard.py, as Flask's request threads run *)
(* them while workers and the seeder write.  The writers are those of      *)
(* DecisionLedger, which RecoveryWorker implements; an entry is known here *)
(* by its status, and with it come its decision and its story.             *)
(*                                                                         *)
(* A request is a list of reads, one SQL statement each; every statement   *)
(* is a transaction of its own and sees the tables as they are then.  The  *)
(* numbers of a summary are those of the tables at the time it was taken.  *)
(***************************************************************************)
EXTENDS Integers, Sequences, FiniteSets

CONSTANTS Txn,          \* transactions, the later one scheduled later
          InitialTxns,  \* those of the first batch
          Permitted,    \* [Txn -> set of the final statuses it may get]
          None,         \* no entry, no filter, no request, no summary
          Thread,       \* request threads
          Filters,      \* the status filters asked for; None is no filter
          DASHBOARD_PAGE_SIZE,
          DASHBOARD_SUMMARY_TTL_SECONDS,
          MaxTime,      \* bound on the clock
          MaxPage       \* bound on the page asked for

FinalStatus == {"recovered", "halted", "escalated"}
Status      == FinalStatus \cup {"pending"}

ASSUME DashboardAssumption ==
  /\ Txn \subseteq Nat /\ IsFiniteSet(Txn) /\ InitialTxns \subseteq Txn
  /\ Permitted \in [Txn -> SUBSET FinalStatus]
  /\ None \notin Status /\ Filters \subseteq Status \cup {None}
  /\ DASHBOARD_PAGE_SIZE \in Nat \ {0} /\ DASHBOARD_SUMMARY_TTL_SECONDS \in Nat
  /\ MaxTime \in Nat /\ MaxPage \in Nat \ {0}

Summary == [at : Nat, taken : Nat, stored : Nat]

Request == [kind : {"cached", "recompute"}] \cup [kind : {"detail"}, txn : Txn]
           \cup [kind : {"list"}, page : 1..MaxPage, status : Filters]

ASSUME NoneAssumption == None \notin Summary \cup Request

VARIABLES arrived, entry,  \* the tables, see DecisionLedger
          clock,           \* time.monotonic() of the process
          summaryCache,    \* _summary_cache: None, or its stamp and its data
          request,         \* [Thread -> the request it handles, or None]
          began,           \* [Thread -> `now` of get_summary, 0 outside it]
          seen             \* [Thread -> [statements it has run -> result]]

tables  == <<arrived, entry>>
handler == <<request, began, seen>>
vars    == <<tables, clock, summaryCache, handler>>

Ledger == INSTANCE DecisionLedger

Init ==
  /\ Ledger!Init
  /\ clock = 0
  /\ summaryCache = None
  /\ request = [th \in Thread |-> None]
  /\ began = [th \in Thread |-> 0]
  /\ seen = [th \in Thread |-> <<>>]

-----------------------------------------------------------------------------
StatusOf(t) == IF entry[t] = None THEN "pending" ELSE entry[t]

Matching(status) == {t \in arrived : status \in {None, StatusOf(t)}}

\* LIMIT and OFFSET of the filtered rows, the latest one first.
PageRows(page, status) ==
  LET offset == (page - 1) * DASHBOARD_PAGE_SIZE
      before(t) == Cardinality({u \in Matching(status) : u > t})
  IN  {t \in Matching(status) :
         before(t) \in offset .. offset + DASHBOARD_PAGE_SIZE - 1}

\* Mutant: the pages are counted as if the last one were never full.
TotalPagesOffByOne(total) == total \div DASHBOARD_PAGE_SIZE + 1

\* max(1, ceil(total / limit))
TotalPages(total) ==
  IF total = 0 THEN 1
  ELSE (total + DASHBOARD_PAGE_SIZE - 1) \div DASHBOARD_PAGE_SIZE

\* Mutant: the audit trail and the count are read before what they explain.
StatementsReordered(kind) ==
  CASE kind = "cached"    -> <<"cache">>
    [] kind = "recompute" -> <<"totals">>
    [] kind = "detail"    -> <<"story", "decision", "status">>
    [] kind = "list"      -> <<"total", "rows">>

\* What a request reads, in the order of the code.
Statements(kind) ==
  CASE kind = "cached"    -> <<"cache">>
    [] kind = "recompute" -> <<"totals">>
    [] kind = "detail"    -> <<"status", "decision", "story">>
    [] kind = "list"      -> <<"rows", "total">>

Result(statement, r) ==
  CASE statement = "cache"    -> summaryCache
    [] statement = "totals"   -> clock
    [] statement = "status"   -> StatusOf(r.txn)
    [] statement = "decision" -> entry[r.txn]
    [] statement = "story"    -> entry[r.txn]
    [] statement = "rows"     -> PageRows(r.page, r.status)
    [] statement = "total"    -> Cardinality(Matching(r.status))

Progress(th)  == Cardinality(DOMAIN seen[th])
Statement(th) == Statements(request[th].kind)[Progress(th) + 1]
Complete(th)  == /\ request[th] # None
                 /\ Progress(th) = Len(Statements(request[th].kind))

-----------------------------------------------------------------------------
Begin(th, r) ==
  /\ request[th] = None
  /\ request' = [request EXCEPT ![th] = r]
  /\ UNCHANGED <<tables, clock, summaryCache, seen>>

\* Mutant: whether there is a summary at all is not asked.
FreshUnchecked ==
  summaryCache # None =>
    clock - summaryCache.at < DASHBOARD_SUMMARY_TTL_SECONDS

Fresh ==
  /\ summaryCache # None
  /\ clock - summaryCache.at < DASHBOARD_SUMMARY_TTL_SECONDS

\* get_summary: the lifetime is tested before the data is returned.
BeginSummary(th) ==
  /\ Begin(th, [kind |-> IF Fresh THEN "cached" ELSE "recompute"])
  /\ began' = [began EXCEPT ![th] = clock]

\* get_transaction_detail of a transaction that exists; any other one is a 404.
BeginDetail(th) ==
  /\ \E t \in arrived : Begin(th, [kind |-> "detail", txn |-> t])
  /\ UNCHANGED began

\* get_transactions_page
BeginList(th) ==
  /\ \E page \in 1..MaxPage, status \in Filters :
       Begin(th, [kind |-> "list", page |-> page, status |-> status])
  /\ UNCHANGED began

\* One statement of a request.
Read(th) ==
  /\ request[th] # None /\ ~Complete(th)
  /\ seen' = [seen EXCEPT ![th] =
                [s \in DOMAIN @ \cup {Statement(th)} |->
                   IF s = Statement(th) THEN Result(s, request[th]) ELSE @[s]]]
  /\ UNCHANGED <<tables, clock, summaryCache, request, began>>

Responded(th) ==
  /\ request' = [request EXCEPT ![th] = None]
  /\ seen' = [seen EXCEPT ![th] = <<>>]
  /\ began' = [began EXCEPT ![th] = 0]
  /\ UNCHANGED <<tables, clock>>

\* Mutant: the new summary is stamped when it is stored.
StoreStampedLate(th) ==
  /\ Complete(th) /\ request[th].kind = "recompute"
  /\ summaryCache' = [at |-> clock, taken |-> seen[th].totals, stored |-> clock]
  /\ Responded(th)

\* The summary is stored under the time at which its request began.
Store(th) ==
  /\ Complete(th) /\ request[th].kind = "recompute"
  /\ summaryCache' = [at |-> began[th], taken |-> seen[th].totals, stored |-> clock]
  /\ Responded(th)

Respond(th) ==
  /\ Complete(th) /\ request[th].kind # "recompute"
  /\ Responded(th)
  /\ UNCHANGED summaryCache

\* A worker commits a page, or the seeder a batch.
Commit ==
  /\ \/ \E S \in SUBSET (Txn \ arrived) : Ledger!Arrive(S)
     \/ \E S \in SUBSET arrived :
          entry' \in [Txn -> FinalStatus \cup {None}] /\ Ledger!Decide(S)
  /\ UNCHANGED <<clock, summaryCache, handler>>

Tick ==
  /\ clock < MaxTime
  /\ clock' = clock + 1
  /\ UNCHANGED <<tables, summaryCache, handler>>

Next ==
  \/ Commit \/ Tick
  \/ \E th \in Thread : \/ BeginSummary(th) \/ BeginDetail(th) \/ BeginList(th)
                        \/ Read(th) \/ Store(th) \/ Respond(th)

Spec == Init /\ [][Next]_vars

-----------------------------------------------------------------------------
TypeOK ==
  /\ arrived \in SUBSET Txn
  /\ entry \in [Txn -> FinalStatus \cup {None}]
  /\ clock \in 0..MaxTime
  /\ summaryCache \in Summary \cup {None}
  /\ request \in [Thread -> Request \cup {None}]
  /\ began \in [Thread -> 0..MaxTime]
  /\ DOMAIN seen = Thread
  /\ \A th \in Thread : "cache" \in DOMAIN seen[th] => seen[th].cache \in Summary

(***************************************************************************)
(* A summary that is served from the cache shows the tables as they were   *)
(* less than DASHBOARD_SUMMARY_TTL_SECONDS before the request, or was      *)
(* stored while the request was being handled.                             *)
(***************************************************************************)
SummaryIsRecent ==
  \A th \in Thread : Complete(th) /\ request[th].kind = "cached" =>
    LET summary == seen[th].cache
    IN  /\ summary # None
        /\ \/ began[th] - summary.taken < DASHBOARD_SUMMARY_TTL_SECONDS
           \/ summary.stored >= began[th]

(***************************************************************************)
(* The detail view never shows a final status without the decision and the *)
(* story that led to it, nor a decision without its story, although it     *)
(* reads the three tables one after the other.                             *)
(***************************************************************************)
FinalStatusIsExplained ==
  \A th \in Thread : Complete(th) /\ request[th].kind = "detail" =>
    /\ seen[th].status # "pending" => seen[th].decision = seen[th].status
    /\ seen[th].decision # None => seen[th].story = seen[th].decision

(***************************************************************************)
(* The list shows no more rows than the total it prints, although it       *)
(* counts in a second statement.  A pending list may: the worker empties   *)
(* it between the two.                                                     *)
(***************************************************************************)
ListWithinTotal ==
  \A th \in Thread :
    Complete(th) /\ request[th].kind = "list" /\ request[th].status # "pending" =>
      LET offset == (request[th].page - 1) * DASHBOARD_PAGE_SIZE
      IN  seen[th].rows # {} => offset + Cardinality(seen[th].rows) <= seen[th].total

HasNext(th) == request[th].page < TotalPages(seen[th].total)

(***************************************************************************)
(* The link to the next page leads to rows, now and whenever it is         *)
(* followed, and where there is no link there was nothing more to show.    *)
(* Again only the pending list may shrink before the link is followed.     *)
(***************************************************************************)
NextLeadsToRows ==
  \A th \in Thread :
    Complete(th) /\ request[th].kind = "list" /\ request[th].status # "pending" =>
      IF HasNext(th) THEN PageRows(request[th].page + 1, request[th].status) # {}
                     ELSE seen[th].total <= request[th].page * DASHBOARD_PAGE_SIZE
=============================================================================
