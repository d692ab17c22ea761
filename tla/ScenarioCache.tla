--------------------------- MODULE ScenarioCache ---------------------------
(***************************************************************************)
(* What the AI phase promises to the rest of a run: page after page, each  *)
(* scenario of the page has one result, ok or failed, and a result that a  *)
(* page was given is the result of every later page.                       *)
(***************************************************************************)
EXTENDS Naturals, Sequences

CONSTANTS Scenario,   \* the scenarios of a run
          Pages       \* Seq(SUBSET Scenario): the scenarios of each page

VARIABLES served,     \* pages that have gone through the AI phase
          results     \* [Scenario -> "missing", "ok" or "failed"]

vars == <<served, results>>

Init == served = 0 /\ results = [s \in Scenario |-> "missing"]

\* The next page gets a result for each of its scenarios.
Serve ==
  /\ served < Len(Pages)
  /\ served' = served + 1
  /\ \E answer \in [Scenario -> {"ok", "failed"}] :
       results' = [s \in Scenario |->
         IF s \in Pages[served + 1] /\ results[s] = "missing" THEN answer[s]
                                                              ELSE results[s]]

Next == Serve

Spec == Init /\ [][Next]_vars
=============================================================================
