------------------------ MODULE DashboardConnection ------------------------
(***************************************************************************)
(* _connection() and the statements that run on what it returns, in        *)
(* src/dashboard.py: one global connection for all request threads, which  *)
(* Flask's server runs concurrently.                                       *)
(*                                                                         *)
(* External: psycopg and PostgreSQL.  Without autocommit the first         *)
(* statement of a connection opens a transaction, in which autocommit      *)
(* cannot be set any more and a failed statement refuses all later ones.   *)
(***************************************************************************)
EXTENDS Naturals

CONSTANTS Thread,     \* request threads
          Connection  \* the connections the process ever opens, a bound

VARIABLES conn,        \* the global _conn, or "none"
          autocommit,  \* [Connection -> BOOLEAN]
          state,       \* [Connection -> what the client knows of it: "unopened",
                       \*                "idle", "intrans", "aborted", "closed"]
          dropped,     \* connections that the server or the network has ended
          at,          \* [Thread -> where its request is]
          using        \* [Thread -> what _connection() returned, or "none"]

vars == <<conn, autocommit, state, dropped, at, using>>

Init ==
  /\ conn = "none"
  /\ autocommit = [c \in Connection |-> FALSE]
  /\ state = [c \in Connection |-> "unopened"]
  /\ dropped = {}
  /\ at = [th \in Thread |-> "start"]
  /\ using = [th \in Thread |-> "none"]

Usable == conn # "none" /\ state[conn] # "closed"

Goto(th, place) == at' = [at EXCEPT ![th] = place]

\* A request, or its next statement, calls _connection().
Test(th) ==
  /\ at[th] = "start"
  /\ Goto(th, IF Usable THEN "return" ELSE "connect")
  /\ UNCHANGED <<conn, autocommit, state, dropped, using>>

\* _conn = psycopg.connect(...)
Connect(th) ==
  /\ at[th] = "connect"
  /\ \E c \in Connection :
       /\ state[c] = "unopened"
       /\ state' = [state EXCEPT ![c] = "idle"]
       /\ conn' = c
  /\ Goto(th, "configure")
  /\ UNCHANGED <<autocommit, dropped, using>>

\* _conn.autocommit = True, on the connection _conn is by now.
Configure(th) ==
  /\ at[th] = "configure"
  /\ IF state[conn] = "idle"
     THEN /\ autocommit' = [autocommit EXCEPT ![conn] = TRUE]
          /\ Goto(th, "return")
     ELSE /\ UNCHANGED autocommit  \* it raises: the request fails
          /\ Goto(th, "start")
  /\ UNCHANGED <<conn, state, dropped, using>>

Return(th) ==
  /\ at[th] = "return"
  /\ using' = [using EXCEPT ![th] = conn]
  /\ Goto(th, "execute")
  /\ UNCHANGED <<conn, autocommit, state, dropped>>

\* What a connection is after a statement that succeeds or fails on it.
After(c, fails) ==
  IF c \in dropped \/ state[c] = "closed" THEN "closed"
  ELSE IF autocommit[c] THEN "idle"
  ELSE IF fails \/ state[c] = "aborted" THEN "aborted" ELSE "intrans"

\* _rows: one statement; it may fail by itself.
Execute(th) ==
  /\ at[th] = "execute"
  /\ \E fails \in BOOLEAN :
       state' = [state EXCEPT ![using[th]] = After(using[th], fails)]
  /\ using' = [using EXCEPT ![th] = "none"]
  /\ Goto(th, "start")
  /\ UNCHANGED <<conn, autocommit, dropped>>

\* The client learns of it at the next statement.
Drop(c) ==
  /\ state[c] \notin {"unopened", "closed"}
  /\ dropped' = dropped \cup {c}
  /\ UNCHANGED <<conn, autocommit, state, at, using>>

Next ==
  \/ \E th \in Thread :
       Test(th) \/ Connect(th) \/ Configure(th) \/ Return(th) \/ Execute(th)
  \/ \E c \in Connection : Drop(c)

Spec == Init /\ [][Next]_vars

-----------------------------------------------------------------------------
(***************************************************************************)
(* src/dashboard.py:37: "one lazily-opened autocommit connection, reused   *)
(* across requests".  The connection the requests share is never left in a *)
(* transaction, where one failed statement refuses all that follow it.     *)
(***************************************************************************)
SharedConnectionAutocommits == Usable => state[conn] = "idle"
=============================================================================
