---------------------------- MODULE MCLoadTest -----------------------------
(***************************************************************************)
(* A batch of a page and a half is seeded over an older one, of which one  *)
(* row can never be written.                                               *)
(***************************************************************************)
EXTENDS LoadTest

LTRow(text, luck, at) ==
  [decline_code |-> [text |-> text, padded |-> FALSE], amount |-> 100,
   mandate_category |-> "general", attempt_count |-> 0, luck |-> luck,
   scheduled_at |-> at]

LTTxn == 1..5
LTRows == [t \in LTTxn |-> CASE t = 1 -> LTRow("Z9", 2, 1)
                             [] t = 2 -> LTRow("ZM", 1, 2)
                             [] t = 3 -> LTRow("U30", 4, 2)
                             [] t = 4 -> LTRow("XX99", 1, 1)
                             [] t = 5 -> LTRow("ZM", 1, 3)]
\* Evaluating this once, TLC keeps the plans and does not compute them again
\* at every use.
ASSUME RoutesArePlans == Route \in [Txn -> RowPlan]

LTOld == {1, 3}
LTNew == {2, 4, 5}

\* The worker beside the harness may be started with max_pages.
LTMaxPages == [w \in Worker |-> IF w = Harness THEN None ELSE 1]
=============================================================================
