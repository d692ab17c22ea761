-------------------------- MODULE MCRecoveryWorker --------------------------
(***************************************************************************)
(* Small batches for RecoveryWorker.  Ids are chosen so that the page      *)
(* order is not the id order, two rows tie on scheduled_at across a page   *)
(* boundary, and a later batch sorts before rows already passed.           *)
(***************************************************************************)
EXTENDS RecoveryWorker, TLC

MCRow(text, amount, attempt, luck, at) ==
  [decline_code |-> [text |-> text, padded |-> FALSE], amount |-> amount,
   mandate_category |-> "general", attempt_count |-> attempt, luck |-> luck,
   scheduled_at |-> at]

\* A soft decline that recovers, an unknown code, a mandate to re-register,
\* a technical decline that halts, and a hard decline.
MCRows == 1 :> MCRow("Z9", 100, 1, 2, 2)
       @@ 2 :> MCRow("XX99", 100, 0, 1, 1)
       @@ 3 :> MCRow("V3", 100, 0, 1, 2)
       @@ 4 :> MCRow("U30", 100, 2, 2, 1)
       @@ 5 :> MCRow("ZM", 100, 0, 1, 2)

RowsOf(S) == [t \in S |-> MCRows[t]]

\* One worker: row 4 arrives later, before the rows of the second page, and
\* row 5 can never be written.
OneTxn     == 1..5
OneRow     == RowsOf(OneTxn)
OneInitial == {1, 2, 3, 5}
OnePoison  == {5}

\* Two workers: the whole batch is there from the start.
TwoTxn == 1..4
TwoRow == RowsOf(TwoTxn)

NoLimit == [w \in Worker |-> None]

\* One of the workers is started with max_pages.
OneLimited ==
  LET limited == CHOOSE w \in Worker : TRUE
  IN  [w \in Worker |-> IF w = limited THEN 1 ELSE None]
=============================================================================
