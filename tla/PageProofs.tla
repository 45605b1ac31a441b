----------------------------- MODULE PageProofs ------------------------------
(***************************************************************************)
(* Proofs about HistoryPages, for any rows, transactions, writers, readers *)
(* and page sizes.                                                         *)
(*                                                                         *)
(* PagesInOrder is not inductive: that a new page comes after the old ones *)
(* needs the cursor to be their last row.  PageInv adds what the cursor is *)
(* (CursorLast), and what a walk has still to return (RestAhead).          *)
(***************************************************************************)
EXTENDS HistoryPages, TLAPS

Committed(e) == tx[TxOf[e]] = "committed"
Returned(w) == earlier[w] \cup page[w]
Reading(w) == walk[w] \in {"asked", "anchored"}
AtOrBefore(d, e) == d = e \/ Precedes(d, e)

UniqueIds == \A d, e \in Rows : uid[d] = uid[e] => d = e

\* What has been shown or named is committed.
ShownCommitted(w) ==
    /\ cursor[w] # NoRow => Committed(cursor[w])
    /\ from[w] # NoRow => Committed(from[w])
    /\ \A e \in Returned(w) \cup known[w] : Committed(e)

\* The rows a walk returned are of its run, and its own tenant's.
InScope(w) ==
    /\ walk[w] = "idle" => Returned(w) = {} /\ known[w] = {}
    /\ walk[w] = "anchored" \/ Returned(w) # {} => OwnedRun(subject[w])
    /\ \A e \in Returned(w) : RunOfRow(e) = RunOfWalk(w) /\ Follows(from[w], e)
    /\ \A e \in known[w] : RunOfRow(e) = RunOfWalk(w)

\* While a walk goes on its cursor is the last row returned, or the first one.
CursorLast(w) == Reading(w) =>
    /\ limit[w] \in 1..MaxPage
    /\ Returned(w) = {} => cursor[w] = from[w]
    /\ Returned(w) # {} => cursor[w] \in Rows /\ Follows(from[w], cursor[w])
    /\ \A e \in Returned(w) : AtOrBefore(e, cursor[w])

\* What a walk knew and has not returned is still after its cursor.
RestAhead(w) ==
    walk[w] = "anchored" \/ (walk[w] = "asked" /\ Returned(w) # {}) =>
        \A e \in known[w] : e \in Returned(w) \/ Follows(cursor[w], e)

Ordered(w) == \A d \in earlier[w], e \in page[w] : Precedes(d, e)

Complete(w) == walk[w] = "done" => known[w] \subseteq Returned(w)

WalkInv(w) ==
    ShownCommitted(w) /\ InScope(w) /\ CursorLast(w) /\ RestAhead(w) /\ Ordered(w) /\ Complete(w)

PageInv == TypeOK /\ UniqueIds /\ \A w \in Walks : WalkInv(w)
-----------------------------------------------------------------------------
\* (created_at, id) orders the rows: Precedes is transitive ...
LEMMA PrecedesTransitive ==
  ASSUME TypeOK, NEW a \in Rows, NEW b \in Rows, NEW c \in Rows,
         Precedes(a, b), Precedes(b, c)
  PROVE  Precedes(a, c)
<1>1. /\ stamp[TxOf[a]] \in Nat /\ stamp[TxOf[b]] \in Nat /\ stamp[TxOf[c]] \in Nat
      /\ uid[a] \in Nat /\ uid[b] \in Nat /\ uid[c] \in Nat
  BY RowsAssumption DEF TypeOK
<1> QED BY SMTT(10), SMTT(20), <1>1 DEF Precedes

\* ... and total, since no two rows have the same identifier.
LEMMA PrecedesTotal ==
  ASSUME TypeOK, UniqueIds, NEW a \in Rows, NEW b \in Rows
  PROVE  a = b \/ Precedes(a, b) \/ Precedes(b, a)
<1>1. /\ stamp[TxOf[a]] \in Nat /\ stamp[TxOf[b]] \in Nat
      /\ uid[a] \in Nat /\ uid[b] \in Nat
  BY RowsAssumption DEF TypeOK
<1>2. uid[a] = uid[b] => a = b
  BY DEF UniqueIds
<1> QED BY SMTT(10), SMTT(20), <1>1, <1>2 DEF Precedes

\* A page that starts after the cursor starts after where the walk began.
LEMMA FollowsTransitive ==
  ASSUME TypeOK, NEW a \in Rows \cup {NoRow}, NEW b \in Rows, NEW c \in Rows,
         Follows(a, b), Follows(b, c)
  PROVE  Follows(a, c)
  BY RowsAssumption, PrecedesTransitive DEF Follows

\* Writers leave the order of the committed rows alone: created_at is set as
\* the transaction begins and committed rows stay.
LEMMA OrderStable ==
  ASSUME TypeOK, NEW t \in Txs,
         Begin(t) \/ Finish(t, "committed") \/ Finish(t, "aborted"),
         NEW d \in Rows, Committed(d)
  PROVE  /\ Committed(d)'
         /\ \A e \in Rows : Committed(e) => /\ Precedes(d, e)' <=> Precedes(d, e)
                                            /\ Precedes(e, d)' <=> Precedes(e, d)
<1>1. TxOf[d] \in Txs /\ TxOf[d] # t
  BY RowsAssumption DEF Begin, Finish, Committed
<1>2. tx'[TxOf[d]] = tx[TxOf[d]] /\ stamp'[TxOf[d]] = stamp[TxOf[d]]
  BY <1>1 DEF Begin, Finish, TypeOK
<1>3. ASSUME NEW e \in Rows, Committed(e)
      PROVE  stamp'[TxOf[e]] = stamp[TxOf[e]]
  <2>1. TxOf[e] \in Txs /\ TxOf[e] # t
    BY <1>3, RowsAssumption DEF Begin, Finish, Committed
  <2> QED BY <2>1 DEF Begin, Finish, TypeOK
<1>4. uid' = uid
  BY DEF Begin, Finish
<1> QED BY <1>2, <1>3, <1>4 DEF Committed, Precedes

LEMMA TypesHold == TypeOK /\ [Next]_vars => TypeOK'
<1> SUFFICES ASSUME TypeOK, [Next]_vars PROVE TypeOK'
  OBVIOUS
<1>1. ASSUME NEW t \in Txs, Begin(t) PROVE TypeOK'
  <2>1. clock' \in Nat
    BY SMTT(10), SMTT(20), <1>1 DEF Begin, TypeOK
  <2> QED BY <1>1, <2>1 DEF Begin, walkVars, TypeOK
<1>2. ASSUME NEW t \in Txs, NEW outcome \in {"committed", "aborted"}, Finish(t, outcome)
      PROVE  TypeOK'
  BY <1>2 DEF Finish, walkVars, TypeOK
<1>3. ASSUME NEW w \in Walks, StartWalk(w) PROVE TypeOK'
  <2>1. PICK s \in Subjects, n \in Limits, k \in Rows \cup {NoRow} :
           /\ subject' = [subject EXCEPT ![w] = s]
           /\ limit' = [limit EXCEPT ![w] = n]
           /\ cursor' = [cursor EXCEPT ![w] = k]
           /\ from' = [from EXCEPT ![w] = k]
           /\ walk' = [walk EXCEPT ![w] = IF n \in 1..MaxPage THEN "asked" ELSE "unprocessable"]
    BY ZenonT(30), <1>3 DEF StartWalk
  <2>2. n \in Int
    BY LimitsAssumption
  <2> QED BY SMTT(10), SMTT(20), <1>3, <2>1, <2>2 DEF StartWalk, tableVars, TypeOK
<1>4. ASSUME NEW w \in Walks, Anchor(w) PROVE TypeOK'
  <2>1. Rest(w) \subseteq Rows
    BY DEF Rest, Visible
  <2>2. known' \in [Walks -> SUBSET Rows]
    BY <1>4, <2>1 DEF Anchor, TypeOK
  <2> QED BY <1>4, <2>2 DEF Anchor, tableVars, TypeOK
<1>5. ASSUME NEW w \in Walks, Fetch(w) PROVE TypeOK'
  <2>1. Rest(w) \subseteq Rows
    BY DEF Rest, Visible
  <2>2. /\ earlier' \in [Walks -> SUBSET Rows]
        /\ page' \in [Walks -> SUBSET Rows]
    BY SMTT(10), SMTT(20), <1>5, <2>1 DEF Fetch, TypeOK
  <2>3. /\ limit' \in [Walks -> Int]
        /\ cursor' \in [Walks -> Rows \cup {NoRow}]
        /\ walk' \in [Walks -> {"idle", "asked", "anchored", "done", "unprocessable",
                                "not_found"}]
    BY SMTT(10), SMTT(20), <1>5, <2>1, LimitsAssumption DEF Fetch, TypeOK
  <2> QED BY <1>5, <2>2, <2>3 DEF Fetch, tableVars, TypeOK
<1>6. CASE UNCHANGED vars
  BY <1>6 DEF vars, tableVars, walkVars, TypeOK
<1> QED BY <1>1, <1>2, <1>3, <1>4, <1>5, <1>6 DEF Next
-----------------------------------------------------------------------------
\* A walk that no step touches keeps its invariant.
LEMMA OtherWalks ==
  ASSUME TypeOK, NEW v \in Walks, WalkInv(v),
         UNCHANGED <<uid, tableVars>>,
         UNCHANGED <<walk[v], subject[v], limit[v], cursor[v], from[v], earlier[v], page[v],
                     known[v]>>
  PROVE  WalkInv(v)'
<1>1. UNCHANGED <<uid, tx, stamp>>
  BY DEF tableVars
<1>2. /\ ShownCommitted(v)' /\ InScope(v)'
  BY <1>1 DEF WalkInv, ShownCommitted, InScope, Committed, Returned, OwnedRun, RunOfRow,
     RunOfWalk, Follows, Precedes
<1>3. CursorLast(v)'
  BY <1>1 DEF WalkInv, CursorLast, Reading, Returned, AtOrBefore, Follows, Precedes
<1>4. RestAhead(v)' /\ Ordered(v)' /\ Complete(v)'
  BY SMTT(10), SMTT(20), <1>1 DEF WalkInv, RestAhead, Ordered, Complete, Returned, Follows, Precedes
<1> QED BY <1>2, <1>3, <1>4 DEF WalkInv

\* Begin, commit and abort: the walks see committed rows only.
LEMMA WritersKeep ==
  ASSUME PageInv, NEW t \in Txs,
         Begin(t) \/ Finish(t, "committed") \/ Finish(t, "aborted"),
         NEW v \in Walks
  PROVE  WalkInv(v)'
<1>1. UNCHANGED <<uid, walk, subject, limit, cursor, from, earlier, page, known>>
  BY DEF Begin, Finish, walkVars
<1>2. \A e \in Rows : Committed(e) => Committed(e)'
  BY OrderStable DEF PageInv
<1>3. \A d, e \in Rows : Committed(d) /\ Committed(e) => (Precedes(d, e)' <=> Precedes(d, e))
  BY OrderStable DEF PageInv
<1>4. WalkInv(v) /\ TypeOK
  BY DEF PageInv
<1>5. /\ Returned(v) \subseteq Rows /\ known[v] \subseteq Rows
      /\ cursor[v] \in Rows \cup {NoRow} /\ from[v] \in Rows \cup {NoRow}
  BY <1>4 DEF TypeOK, Returned
<1>6. /\ Returned(v)' = Returned(v) /\ Reading(v)' = Reading(v)
      /\ OwnedRun(subject[v])' = OwnedRun(subject[v])
  BY <1>1 DEF Returned, Reading, OwnedRun
<1>7. \A e \in Rows : Committed(e) =>
         /\ Follows(from[v], e)' <=> Follows(from[v], e)
         /\ Follows(cursor[v], e)' <=> Follows(cursor[v], e)
         /\ cursor[v] # NoRow => (AtOrBefore(e, cursor[v])' <=> AtOrBefore(e, cursor[v]))
  BY <1>1, <1>3, <1>4, <1>5 DEF Follows, AtOrBefore, WalkInv, ShownCommitted
<1>8. ShownCommitted(v)'
  <2>1. ShownCommitted(v)
    BY <1>4 DEF WalkInv
  <2> QED BY <1>1, <1>2, <1>5, <1>6, <2>1, RowsAssumption DEF ShownCommitted
<1>9. InScope(v)'
  <2>1. InScope(v) /\ \A e \in Returned(v) : Committed(e)
    BY <1>4 DEF WalkInv, ShownCommitted
  <2>2. RunOfWalk(v)' = RunOfWalk(v)
    BY <1>1 DEF RunOfWalk
  <2> QED BY <1>1, <1>5, <1>6, <1>7, <2>1, <2>2 DEF InScope, RunOfRow
<1>10. CursorLast(v)'
  <2>1. CursorLast(v) /\ ShownCommitted(v)
    BY <1>4 DEF WalkInv
  <2>2. CASE ~Reading(v)
    BY <1>6, <2>2 DEF CursorLast
  <2>3. CASE Reading(v) /\ Returned(v) = {}
    BY <1>1, <1>6, <2>1, <2>3 DEF CursorLast
  <2>4. CASE Reading(v) /\ Returned(v) # {}
    <3>1. cursor[v] \in Rows /\ cursor[v] # NoRow /\ Committed(cursor[v])
      BY <2>1, <2>4, RowsAssumption DEF CursorLast, ShownCommitted
    <3>2. Follows(from[v], cursor[v])'
      BY <1>1, <1>7, <2>1, <2>4, <3>1 DEF CursorLast, Follows
    <3>3. \A e \in Returned(v) : AtOrBefore(e, cursor[v])'
      BY <1>5, <1>7, <2>1, <2>4, <3>1 DEF CursorLast, ShownCommitted
    <3> QED BY <1>1, <1>6, <2>1, <2>4, <3>1, <3>2, <3>3 DEF CursorLast
  <2> QED BY <2>2, <2>3, <2>4
<1>11. RestAhead(v)' /\ Complete(v)'
  <2>1. RestAhead(v) /\ Complete(v) /\ \A e \in known[v] : Committed(e)
    BY <1>4 DEF WalkInv, ShownCommitted
  <2> QED BY <1>1, <1>5, <1>6, <1>7, <2>1 DEF RestAhead, Complete
<1>12. Ordered(v)'
  <2>1. Ordered(v) /\ \A e \in Returned(v) : e \in Rows /\ Committed(e)
    BY <1>4, <1>5 DEF WalkInv, ShownCommitted
  <2> QED BY <1>1, <1>3, <2>1 DEF Ordered, Returned
<1> QED BY <1>8, <1>9, <1>10, <1>11, <1>12 DEF WalkInv

\* A first request: nothing is returned yet.
LEMMA StartKeeps ==
  ASSUME PageInv, NEW w \in Walks, StartWalk(w)
  PROVE  WalkInv(w)'
<1>1. WalkInv(w) /\ TypeOK /\ walk[w] = "idle"
  BY DEF PageInv, StartWalk
<1>2. PICK s \in Subjects, n \in Limits, k \in Rows \cup {NoRow} :
         /\ k # NoRow => tx[TxOf[k]] = "committed"
         /\ subject'[w] = s /\ limit'[w] = n /\ cursor'[w] = k /\ from'[w] = k
         /\ walk'[w] = IF n \in 1..MaxPage THEN "asked" ELSE "unprocessable"
  BY SMTT(10), SMTT(20), <1>1 DEF StartWalk, TypeOK
<1>3. UNCHANGED <<uid, tx, stamp, earlier, page, known>>
  BY DEF StartWalk, tableVars
<1>4. Returned(w) = {} /\ Returned(w)' = {} /\ known[w] = {}
  BY <1>1, <1>3 DEF WalkInv, InScope, Returned
<1>5. ShownCommitted(w)'
  BY <1>2, <1>3, <1>4 DEF ShownCommitted, Committed
<1>6. InScope(w)'
  BY <1>2, <1>3, <1>4 DEF InScope
<1>7. CursorLast(w)'
  BY <1>2, <1>4 DEF CursorLast, Reading
<1>8. RestAhead(w)' /\ Ordered(w)' /\ Complete(w)'
  BY <1>2, <1>3, <1>4 DEF RestAhead, Ordered, Complete, Returned
<1> QED BY <1>5, <1>6, <1>7, <1>8 DEF WalkInv

\* The first statements of a page.
LEMMA AnchorKeeps ==
  ASSUME PageInv, NEW w \in Walks, Anchor(w)
  PROVE  WalkInv(w)'
<1>1. WalkInv(w) /\ TypeOK /\ walk[w] = "asked"
  BY DEF PageInv, Anchor
<1>2. UNCHANGED <<uid, tx, stamp, subject, limit, cursor, from, earlier, page>>
  BY DEF Anchor, tableVars
<1>3. /\ walk'[w] \in {"not_found", "unprocessable", "anchored"}
      /\ walk'[w] = "anchored" => OwnedRun(subject[w])
      /\ known'[w] = IF Returned(w) # {} THEN known[w] ELSE Rest(w)
  BY <1>1 DEF Anchor, TypeOK, Returned
<1>4. Returned(w)' = Returned(w)
  BY <1>2 DEF Returned
<1>5. \A e \in Rest(w) : Committed(e) /\ RunOfRow(e) = RunOfWalk(w) /\ Follows(cursor[w], e)
  BY DEF Rest, Visible, Committed
<1>6. ShownCommitted(w)'
  BY <1>1, <1>2, <1>3, <1>4, <1>5 DEF WalkInv, ShownCommitted, Committed
<1>7. InScope(w)'
  BY <1>1, <1>2, <1>3, <1>4, <1>5
     DEF WalkInv, InScope, OwnedRun, RunOfRow, RunOfWalk, Follows, Precedes
<1>8. CursorLast(w)'
  BY <1>1, <1>2, <1>3, <1>4 DEF WalkInv, CursorLast, Reading, AtOrBefore, Follows, Precedes
<1>9. RestAhead(w)'
  BY <1>1, <1>2, <1>3, <1>4, <1>5 DEF WalkInv, RestAhead, Follows, Precedes
<1>10. Ordered(w)' /\ Complete(w)'
  BY SMTT(10), SMTT(20), <1>1, <1>2, <1>3 DEF WalkInv, Ordered, Complete, Precedes
<1> QED BY <1>6, <1>7, <1>8, <1>9, <1>10 DEF WalkInv

\* The rows of a page come after all that the walk has returned.
LEMMA PageIsNext ==
  ASSUME PageInv, NEW w \in Walks, walk[w] = "anchored",
         NEW e \in Rest(w)
  PROVE  /\ e \in Rows /\ Committed(e) /\ RunOfRow(e) = RunOfWalk(w)
         /\ Follows(from[w], e)
         /\ \A d \in Returned(w) : Precedes(d, e)
<1>1. WalkInv(w) /\ TypeOK
  BY DEF PageInv
<1>2. e \in Rows /\ Committed(e) /\ RunOfRow(e) = RunOfWalk(w) /\ Follows(cursor[w], e)
  BY DEF Rest, Visible, Committed
<1>3. CursorLast(w) /\ Reading(w)
  BY <1>1 DEF WalkInv, Reading
<1>4. CASE Returned(w) = {}
  BY <1>2, <1>3, <1>4 DEF CursorLast
<1>5. CASE Returned(w) # {}
  <2>1. /\ cursor[w] \in Rows /\ from[w] \in Rows \cup {NoRow} /\ cursor[w] # NoRow
        /\ Follows(from[w], cursor[w])
    BY <1>1, <1>3, <1>5, RowsAssumption DEF CursorLast, TypeOK
  <2>2. Follows(from[w], e)
    BY <1>1, <1>2, <2>1, FollowsTransitive
  <2>3. Precedes(cursor[w], e)
    BY <1>2, <2>1 DEF Follows
  <2>4. ASSUME NEW d \in Returned(w) PROVE Precedes(d, e)
    <3>1. d \in Rows /\ AtOrBefore(d, cursor[w])
      BY <1>1, <1>3 DEF CursorLast, TypeOK, Returned
    <3> QED BY <1>1, <1>2, <2>1, <2>3, <3>1, PrecedesTransitive DEF AtOrBefore
  <2> QED BY <1>2, <2>2, <2>4
<1> QED BY <1>4, <1>5

\* The last statement of a page and what the caller does with it.
LEMMA FetchKeeps ==
  ASSUME PageInv, NEW w \in Walks, Fetch(w)
  PROVE  WalkInv(w)'
<1>1. WalkInv(w) /\ TypeOK /\ UniqueIds /\ walk[w] = "anchored"
  BY DEF PageInv, Fetch
<1>2. UNCHANGED <<uid, tx, stamp, subject, from, known>>
  BY DEF Fetch, tableVars
<1>3. PICK p \in SUBSET Rows :
         /\ IsPage(p, Rest(w), PageSize(limit[w]))
         /\ earlier'[w] = earlier[w] \cup page[w]
         /\ page'[w] = p
         /\ IF Cardinality(p) = limit[w]
            THEN /\ \E k \in p, n \in Limits \cap (1..MaxPage) :
                       /\ \A e \in p : e = k \/ Precedes(e, k)
                       /\ cursor'[w] = k /\ limit'[w] = n
                 /\ walk'[w] = "asked"
            ELSE walk'[w] = "done" /\ cursor'[w] = cursor[w]
  <2>1. PICK p \in SUBSET Rest(w) :
          /\ IsPage(p, Rest(w), PageSize(limit[w]))
          /\ earlier' = [earlier EXCEPT ![w] = @ \cup page[w]]
          /\ page' = [page EXCEPT ![w] = p]
          /\ IF Cardinality(p) = limit[w]
             THEN /\ \E k \in p, n \in Limits \cap (1..MaxPage) :
                        /\ \A e \in p : e = k \/ Precedes(e, k)
                        /\ cursor' = [cursor EXCEPT ![w] = k]
                        /\ limit' = [limit EXCEPT ![w] = n]
                  /\ walk' = [walk EXCEPT ![w] = "asked"]
             ELSE /\ walk' = [walk EXCEPT ![w] = "done"]
                  /\ UNCHANGED <<cursor, limit>>
    BY ZenonT(30) DEF Fetch
  <2>2. p \in SUBSET Rows
    BY DEF Rest, Visible
  <2> QED BY <1>1, <2>1, <2>2 DEF TypeOK
<1>4. p \subseteq Rest(w) /\ Returned(w)' = Returned(w) \cup p
  BY <1>3 DEF IsPage, Returned
<1>5. \A e \in p : /\ e \in Rows /\ Committed(e) /\ RunOfRow(e) = RunOfWalk(w)
                   /\ Follows(from[w], e)
                   /\ \A d \in Returned(w) : Precedes(d, e)
  BY <1>1, <1>4, PageIsNext
<1>6. \A d, e : Precedes(d, e)' = Precedes(d, e)
  BY <1>2 DEF Precedes
<1>7. Ordered(w)'
  BY <1>3, <1>5, <1>6 DEF Ordered, Returned
<1>8. InScope(w)'
  <2>1. InScope(w) /\ OwnedRun(subject[w])
    BY ZenonT(30), <1>1 DEF WalkInv, InScope
  <2>2. walk'[w] # "idle"
    BY <1>3
  <2>3. \A e \in Returned(w) \cup p : RunOfRow(e) = RunOfWalk(w) /\ Follows(from[w], e)
    BY <1>5, <2>1 DEF InScope
  <2> QED BY ZenonT(30), <1>2, <1>4, <1>6, <2>1, <2>2, <2>3 DEF InScope, OwnedRun, RunOfRow, RunOfWalk, Follows
<1>9. PageSize(limit[w]) = limit[w]
  BY SMTT(10), SMTT(20), <1>1, LimitsAssumption DEF WalkInv, CursorLast, Reading, PageSize
<1>10. \A e \in known[w] : e \in Rows /\ (e \in Returned(w) \/ e \in Rest(w))
  <2>1. \A e \in known[w] : /\ e \in Rows /\ Committed(e) /\ RunOfRow(e) = RunOfWalk(w)
                            /\ e \in Returned(w) \/ Follows(cursor[w], e)
    BY <1>1 DEF WalkInv, ShownCommitted, InScope, RestAhead, TypeOK
  <2> QED BY <2>1 DEF Rest, Visible, Committed
<1>11. CASE Cardinality(p) # limit[w]
  <2>1. p = Rest(w) /\ walk'[w] = "done" /\ cursor'[w] = cursor[w]
    BY <1>3, <1>9, <1>11 DEF IsPage
  <2>2. Complete(w)'
    BY <1>2, <1>4, <1>10, <2>1 DEF Complete
  <2>3. ShownCommitted(w)'
    BY <1>1, <1>2, <1>4, <1>5, <2>1 DEF WalkInv, ShownCommitted, Committed
  <2> QED BY <1>7, <1>8, <2>1, <2>2, <2>3 DEF WalkInv, CursorLast, RestAhead, Reading
<1>12. CASE Cardinality(p) = limit[w]
  <2>1. PICK k \in p, n \in Limits \cap (1..MaxPage) :
           /\ \A e \in p : e = k \/ Precedes(e, k)
           /\ cursor'[w] = k /\ limit'[w] = n
    BY <1>3, <1>12
  <2>2. walk'[w] = "asked" /\ k \in Rows /\ k # NoRow /\ Committed(k) /\ Follows(from[w], k)
    BY ZenonT(30), <1>3, <1>5, <1>12, RowsAssumption
  <2>3. ShownCommitted(w)'
    BY ZenonT(30), <1>1, <1>2, <1>4, <1>5, <2>1, <2>2 DEF WalkInv, ShownCommitted, Committed
  <2>4. CursorLast(w)'
    <3>1. \A e \in Returned(w) \cup p : AtOrBefore(e, k)
      BY <1>5, <2>1 DEF AtOrBefore
    <3> QED BY <1>2, <1>4, <1>6, <2>1, <2>2, <3>1 DEF CursorLast, AtOrBefore, Follows
  <2>5. RestAhead(w)'
    <3>1. ASSUME NEW e \in known[w], e \notin Returned(w), e \notin p
          PROVE  Precedes(k, e)
      <4>1. e \in Rows /\ e \in Rest(w) /\ e # k
        BY <1>10, <3>1
      <4>2. ~Precedes(e, k)
        BY <1>3, <3>1, <4>1 DEF IsPage
      <4> QED BY <1>1, <2>2, <4>1, <4>2, PrecedesTotal
    <3> QED BY <1>2, <1>4, <1>6, <2>1, <3>1 DEF RestAhead, Follows
  <2> QED BY <1>7, <1>8, <2>2, <2>3, <2>4, <2>5 DEF WalkInv, Complete
<1> QED BY <1>11, <1>12

\* A step of one walk leaves the others alone.
LEMMA WalksKeep ==
  ASSUME PageInv, NEW w \in Walks, StartWalk(w) \/ Anchor(w) \/ Fetch(w), NEW v \in Walks
  PROVE  WalkInv(v)'
<1>1. CASE v = w
  BY <1>1, StartKeeps, AnchorKeeps, FetchKeeps
<1>2. CASE v # w
  <2>1. TypeOK /\ WalkInv(v) /\ UNCHANGED <<uid, tableVars>>
    BY DEF PageInv, StartWalk, Anchor, Fetch
  <2>2. UNCHANGED <<walk[v], subject[v], limit[v], cursor[v], from[v], earlier[v], page[v],
                    known[v]>>
    <3>1. CASE StartWalk(w)
      BY SMTT(10), SMTT(20), <1>2, <2>1, <3>1 DEF StartWalk, TypeOK
    <3>2. CASE Anchor(w)
      BY <1>2, <2>1, <3>2 DEF Anchor, TypeOK
    <3>3. CASE Fetch(w)
      BY SMTT(10), SMTT(20), <1>2, <2>1, <3>3 DEF Fetch, TypeOK
    <3> QED BY <3>1, <3>2, <3>3
  <2> QED BY <2>1, <2>2, OtherWalks
<1> QED BY <1>1, <1>2
-----------------------------------------------------------------------------
LEMMA PagesInit == Init => PageInv
<1> SUFFICES ASSUME Init PROVE PageInv
  OBVIOUS
<1>1. \E s \in Subjects : TRUE
  <2>1. PICK r \in Runs : TRUE
    BY RowsAssumption
  <2>2. [client |-> ClientOf[r], run |-> r] \in Subjects
    BY RowsAssumption DEF Subjects
  <2> QED BY <2>2
<1>2. (CHOOSE s \in Subjects : TRUE) \in Subjects
  BY <1>1
<1>3. uid \in [Rows -> Nat] /\ UniqueIds
  BY SMTT(10), SMTT(20) DEF Init, UniqueIds
<1>4. TypeOK
  BY SMTT(10), SMTT(20), <1>2, <1>3 DEF Init, TypeOK
<1>5. ASSUME NEW w \in Walks PROVE WalkInv(w)
  BY DEF Init, WalkInv, ShownCommitted, InScope, CursorLast, RestAhead, Ordered, Complete,
     Returned, Reading
<1> QED BY <1>3, <1>4, <1>5 DEF PageInv

LEMMA PagesStep == PageInv /\ [Next]_vars => PageInv'
<1> SUFFICES ASSUME PageInv, [Next]_vars PROVE PageInv'
  OBVIOUS
<1>1. TypeOK'
  BY TypesHold DEF PageInv
<1>2. UniqueIds'
  <2>1. uid' = uid
    BY DEF Next, vars, Begin, Finish, StartWalk, Anchor, Fetch
  <2> QED BY <2>1 DEF PageInv, UniqueIds
<1>3. ASSUME NEW v \in Walks PROVE WalkInv(v)'
  <2>1. CASE UNCHANGED vars
    BY <2>1, OtherWalks DEF vars, walkVars, PageInv
  <2>2. CASE \E t \in Txs : Begin(t) \/ Finish(t, "committed") \/ Finish(t, "aborted")
    BY <2>2, WritersKeep
  <2>3. CASE \E w \in Walks : StartWalk(w) \/ Anchor(w) \/ Fetch(w)
    BY <2>3, WalksKeep
  <2> QED BY <2>1, <2>2, <2>3 DEF Next
<1> QED BY <1>1, <1>2, <1>3 DEF PageInv

\* However transactions and pages interleave, a walk over a history returns
\* committed rows of one run of the tenant that asked, in order and none twice.
THEOREM PagesOrdered == Spec => []PagesInOrder
<1>1. PageInv => PagesInOrder
  <2> SUFFICES ASSUME PageInv, NEW w \in Walks
               PROVE  /\ \A e \in Returned(w) :
                            /\ tx[TxOf[e]] = "committed"
                            /\ RunOfRow(e) = RunOfWalk(w)
                            /\ ClientOf[RunOfRow(e)] = subject[w].client
                            /\ Follows(from[w], e)
                      /\ \A d \in earlier[w], e \in page[w] : Precedes(d, e)
    BY DEF PagesInOrder, Returned
  <2>1. WalkInv(w)
    BY DEF PageInv
  <2>2. Ordered(w)
    BY <2>1 DEF WalkInv
  <2>3. ASSUME NEW e \in Returned(w)
        PROVE  /\ Committed(e) /\ RunOfRow(e) = RunOfWalk(w) /\ Follows(from[w], e)
               /\ OwnedRun(subject[w])
    BY <2>1 DEF WalkInv, ShownCommitted, InScope
  <2> QED BY <2>2, <2>3 DEF Ordered, Committed, OwnedRun, RunOfWalk
<1> QED BY <1>1, PagesInit, PagesStep, PTL DEF Spec

\* A walk that comes to its end has returned every row that was committed after
\* its first cursor when it began, whatever was written meanwhile.
THEOREM NothingCommittedMissed == Spec => []CommittedRowsSeen
<1>1. PageInv => CommittedRowsSeen
  BY DEF PageInv, WalkInv, Complete, CommittedRowsSeen, Returned
<1> QED BY <1>1, PagesInit, PagesStep, PTL DEF Spec
=============================================================================
