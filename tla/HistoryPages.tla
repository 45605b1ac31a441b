---------------------------- MODULE HistoryPages -----------------------------
(***************************************************************************)
(* The history of a run read page by page while it is written:             *)
(* get_attempts, get_events and get_evaluations of run_service.py behind   *)
(* the three list endpoints of api/main.py, walked with get_history_page   *)
(* of client.py.  The three lists are the same query over three tables;    *)
(* one table stands for them.                                              *)
(*                                                                         *)
(* A row is ordered by (created_at, id).  created_at is now() of           *)
(* PostgreSQL, the start of the transaction that inserts the row, and id   *)
(* is a random UUID; a row becomes visible when its transaction commits.   *)
(* The order of the rows is therefore not the order in which they appear.  *)
(***************************************************************************)
EXTENDS Integers, FiniteSets

CONSTANTS
    Txs,        \* the transactions that write history
    Rows,       \* the rows they insert
    TxOf,       \* the transaction of a row
    Runs,
    RunOf,      \* the run a transaction writes about
    SubmitOf,   \* the transaction that inserts a run
    Clients,
    ClientOf,   \* the tenant of a run
    Walks,      \* callers that read a history from page to page
    NoRow,      \* no cursor
    Limits,     \* page sizes a caller asks for
    MaxPage     \* 100 in the code

ASSUME RowsAssumption ==
    /\ Runs # {}
    /\ TxOf \in [Rows -> Txs]
    /\ RunOf \in [Txs -> Runs]
    /\ SubmitOf \in [Runs -> Txs]
    /\ ClientOf \in [Runs -> Clients]
    /\ \A r \in Runs : RunOf[SubmitOf[r]] = r
    /\ NoRow \notin Rows
    /\ IsFiniteSet(Rows)

ASSUME LimitsAssumption ==
    /\ Limits \subseteq Int
    /\ MaxPage \in Nat \ {0}

VARIABLES
    uid,       \* the order of the random identifiers
    clock,     \* the database clock
    tx,        \* "new", "open", "committed" or "aborted"
    stamp,     \* created_at of the rows of a transaction
    walk,      \* what a walk does next, or how it ended
    subject,   \* the tenant that asks and the run it asks about
    limit,     \* page size of the request
    cursor,    \* cursor of the request
    from,      \* ghost: the cursor a walk began with
    earlier,   \* rows of the pages before the last one
    page,      \* rows of the last page
    known      \* ghost: rows after that cursor that were visible as it began

tableVars == <<clock, tx, stamp>>
walkVars == <<walk, subject, limit, cursor, from, earlier, page, known>>
vars == <<uid, tableVars, walkVars>>

-----------------------------------------------------------------------------
Subjects == [client : Clients, run : Runs]

RunOfRow(e) == RunOf[TxOf[e]]
Visible(r) == {e \in Rows : RunOfRow(e) = r /\ tx[TxOf[e]] = "committed"}

\* (created_at, id) < (created_at, id), the row comparison of PostgreSQL.
Precedes(d, e) ==
    \/ stamp[TxOf[d]] < stamp[TxOf[e]]
    \/ stamp[TxOf[d]] = stamp[TxOf[e]] /\ uid[d] < uid[e]

PageSizeBelowMaximum(n) == IF n >= MaxPage THEN MaxPage - 1 ELSE IF n < 1 THEN 1 ELSE n

\* max(1, min(limit, 100))
PageSize(n) == IF n > MaxPage THEN MaxPage ELSE IF n < 1 THEN 1 ELSE n

FollowsInclusive(c, e) == c = NoRow \/ c = e \/ Precedes(c, e)

Follows(c, e) == c = NoRow \/ Precedes(c, e)

RunOfWalk(w) == subject[w].run
Rest(w) == {e \in Visible(RunOfWalk(w)) : Follows(cursor[w], e)}

\* ORDER BY created_at, id LIMIT n: the first rows after the cursor.
IsPage(p, candidates, n) ==
    /\ p \subseteq candidates
    /\ \A d \in candidates, e \in p : Precedes(d, e) => d \in p
    /\ \/ Cardinality(p) = n
       \/ p = candidates /\ Cardinality(p) < n
-----------------------------------------------------------------------------
\* now() of a transaction: two may begin at the same reading of the clock.
Begin(t) ==
    /\ tx[t] = "new"
    /\ clock' \in {clock, clock + 1}
    /\ tx' = [tx EXCEPT ![t] = "open"]
    /\ stamp' = [stamp EXCEPT ![t] = clock']
    /\ UNCHANGED <<uid, walkVars>>

Finish(t, outcome) ==
    /\ tx[t] = "open"
    /\ tx' = [tx EXCEPT ![t] = outcome]
    /\ UNCHANGED <<uid, clock, stamp, walkVars>>

\* A caller asks for the first page, from the start or after a row it was
\* shown, perhaps in another history.
\* The SDK refuses a limit outside 1..100, and so does the endpoint.
StartWalk(w) == \E s \in Subjects, n \in Limits, k \in Rows \cup {NoRow} :
    /\ walk[w] = "idle"
    /\ k # NoRow => tx[TxOf[k]] = "committed"
    /\ subject' = [subject EXCEPT ![w] = s]
    /\ limit' = [limit EXCEPT ![w] = n]
    /\ cursor' = [cursor EXCEPT ![w] = k]
    /\ from' = [from EXCEPT ![w] = k]
    /\ walk' = [walk EXCEPT ![w] = IF n \in 1..MaxPage THEN "asked" ELSE "unprocessable"]
    /\ UNCHANGED <<uid, tableVars, earlier, page, known>>

\* The first statements of get_events: the run of this tenant, then the row
\* the cursor names among the rows of this run.
OwnedRun(s) == ClientOf[s.run] = s.client

Anchor(w) ==
    /\ walk[w] = "asked"
    /\ walk' = [walk EXCEPT ![w] =
          IF ~OwnedRun(subject[w]) THEN "not_found"
          ELSE IF cursor[w] # NoRow /\ cursor[w] \notin Visible(RunOfWalk(w))
               THEN "unprocessable"
               ELSE "anchored"]
    /\ known' = [known EXCEPT ![w] =
          IF earlier[w] \cup page[w] # {} THEN @
          ELSE Rest(w)]
    /\ UNCHANGED <<uid, subject, tableVars, limit, cursor, from, earlier, page>>

\* The last statement, the X-Next-Cursor of the endpoint (on a full page only)
\* and the request for the page after it, of any size.
Fetch(w) ==
    /\ walk[w] = "anchored"
    /\ \E p \in SUBSET Rest(w) :
          /\ IsPage(p, Rest(w), PageSize(limit[w]))
          /\ earlier' = [earlier EXCEPT ![w] = @ \cup page[w]]
          /\ page' = [page EXCEPT ![w] = p]
          /\ IF Cardinality(p) = limit[w]
             THEN /\ \E k \in p, n \in Limits \cap (1..MaxPage) :
                        /\ \A e \in p : e = k \/ Precedes(e, k)
                        /\ cursor' = [cursor EXCEPT ![w] = k]
                        /\ limit' = [limit EXCEPT ![w] = n]
                  /\ walk' = [walk EXCEPT ![w] = "asked"]
             ELSE /\ walk' = [walk EXCEPT ![w] = "done"]
                  /\ UNCHANGED <<cursor, limit>>
    /\ UNCHANGED <<uid, subject, tableVars, from, known>>
-----------------------------------------------------------------------------
\* The runs have been submitted; what else is written about them is to come.
Init ==
    /\ uid \in [Rows -> 1..Cardinality(Rows)]
    /\ \A d, e \in Rows : uid[d] = uid[e] => d = e
    /\ clock = 1
    /\ tx = [t \in Txs |-> IF t = SubmitOf[RunOf[t]] THEN "committed" ELSE "new"]
    /\ stamp = [t \in Txs |-> 0]
    /\ walk = [w \in Walks |-> "idle"]
    /\ subject = [w \in Walks |-> CHOOSE s \in Subjects : TRUE]
    /\ limit = [w \in Walks |-> 1]
    /\ cursor = [w \in Walks |-> NoRow]
    /\ from = [w \in Walks |-> NoRow]
    /\ earlier = [w \in Walks |-> {}]
    /\ page = [w \in Walks |-> {}]
    /\ known = [w \in Walks |-> {}]

Next ==
    \/ \E t \in Txs : Begin(t) \/ Finish(t, "committed") \/ Finish(t, "aborted")
    \/ \E w \in Walks : StartWalk(w) \/ Anchor(w) \/ Fetch(w)

Spec == Init /\ [][Next]_vars
-----------------------------------------------------------------------------
TypeOK ==
    /\ uid \in [Rows -> Nat]
    /\ subject \in [Walks -> Subjects]
    /\ clock \in Nat
    /\ tx \in [Txs -> {"new", "open", "committed", "aborted"}]
    /\ stamp \in [Txs -> Nat]
    /\ walk \in [Walks -> {"idle", "asked", "anchored", "done", "unprocessable",
                           "not_found"}]
    /\ limit \in [Walks -> Int]
    /\ cursor \in [Walks -> Rows \cup {NoRow}]
    /\ from \in [Walks -> Rows \cup {NoRow}]
    /\ earlier \in [Walks -> SUBSET Rows]
    /\ page \in [Walks -> SUBSET Rows]
    /\ known \in [Walks -> SUBSET Rows]

\* What a walk has returned are committed rows of a run of the tenant that
\* asked, all after the cursor it began with, and every row of a page comes
\* after every row of the pages before it: no row twice, none of another run,
\* however the writers' commits fall between the statements of the reader.
\* (get_events and its siblings; "non-duplicating and tenant scoped" in
\* docs/testing/failure-matrix.md.)
PagesInOrder == \A w \in Walks :
    /\ \A e \in earlier[w] \cup page[w] :
          /\ tx[TxOf[e]] = "committed"
          /\ RunOfRow(e) = RunOfWalk(w)
          /\ ClientOf[RunOfRow(e)] = subject[w].client
          /\ Follows(from[w], e)
    /\ \A d \in earlier[w], e \in page[w] : Precedes(d, e)

\* A walk that runs to its end has returned every row, after the cursor it
\* began with, that was committed when it began: the X-Next-Cursor of the
\* endpoint and the page size of the service never part ways.
CommittedRowsSeen == \A w \in Walks :
    walk[w] = "done" => known[w] \subseteq earlier[w] \cup page[w]

\* docs/testing/failure-matrix.md:23, "Bounded cursor pages are complete": the
\* pages of a walk hold every row that is there as its last page is read.  A
\* row whose transaction began before the cursor's and committed after the
\* cursor was handed out is in none of them.
PagesComplete == [][\A w \in Walks :
    walk[w] # "done" /\ walk'[w] = "done" =>
        {e \in Visible(RunOfWalk(w)) : Follows(from[w], e)} \subseteq earlier'[w] \cup page'[w]]_vars
=============================================================================
