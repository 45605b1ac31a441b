--------------------------- MODULE MCHistoryPages ----------------------------
(***************************************************************************)
(* A run, two more transactions about it, and a run of another tenant.     *)
(***************************************************************************)
EXTENDS HistoryPages, TLC

CONSTANTS r1, r2, c1, c2, w1, submit1, claim1, publish1, submit2,
          queued, routed, claimed, published, other

MCTxOf == (queued :> submit1) @@ (routed :> submit1) @@ (claimed :> claim1)
          @@ (published :> publish1) @@ (other :> submit2)
MCRunOf == (submit1 :> r1) @@ (claim1 :> r1) @@ (publish1 :> r1) @@ (submit2 :> r2)
MCSubmitOf == (r1 :> submit1) @@ (r2 :> submit2)
MCClientOf == (r1 :> c1) @@ (r2 :> c2)

\* Permutations of the later transactions that take their rows along.
RowOf(t) == CHOOSE e \in Rows : TxOf[e] = t
WriterSymmetry == {f @@ [e \in {RowOf(t) : t \in DOMAIN f} |-> RowOf(f[TxOf[e]])] :
                      f \in Permutations({claim1, publish1})}
=============================================================================
