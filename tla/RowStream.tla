----------------------------- MODULE RowStream -----------------------------
(***************************************************************************)
(* What a scan promises its client, with no producer, checkpoint or        *)
(* transport in it: the rows of the sources, in scan order, each exactly   *)
(* once, in batches that are never empty; then either the end of the scan  *)
(* or an error.  A strict scan reports no error row: it fails instead.     *)
(***************************************************************************)
EXTENDS MrtStream

CONSTANT Inputs

VARIABLES sources, strict, delivered, status

vars == <<sources, strict, delivered, status>>

RowsOf(s, j) == LET rows == RowsAt(sources, s, j) IN {rows[n] : n \in DOMAIN rows}

Delivered == {delivered[n] : n \in DOMAIN delivered}

Init ==
  /\ sources \in Inputs
  /\ strict \in BOOLEAN
  /\ delivered = <<>>
  /\ status = "running"

\* Every row comes from the outcome it names, and rows are in scan order.
InOrder ==
  /\ \A n \in DOMAIN delivered : delivered[n] \in RowsOf(delivered[n].src, delivered[n].rec)
  /\ \A m, n \in DOMAIN delivered : m < n => Precedes(delivered[m], delivered[n])

\* The outcomes up to outcome j of source s.
Before(s, j) ==
  {o \in UNION {{t} \X DOMAIN sources[t] : t \in DOMAIN sources} :
     o[1] < s \/ (o[1] = s /\ o[2] <= j)}

\* All rows up to the last delivered one, and all rows of its record, are there.
NoGap ==
  delivered # <<>> =>
    LET last == delivered[Len(delivered)]
    IN \A o \in Before(last.src, last.rec) : RowsOf(o[1], o[2]) \subseteq Delivered

Deliver ==
  /\ status = "running"
  /\ Len(delivered') > Len(delivered)
  /\ SubSeq(delivered', 1, Len(delivered)) = delivered
  /\ InOrder' /\ NoGap'
  /\ strict => \A n \in DOMAIN delivered' : delivered'[n].type # "error"
  /\ UNCHANGED <<sources, strict, status>>

Finish ==
  /\ status = "running"
  /\ \A s \in DOMAIN sources : \A j \in DOMAIN sources[s] : RowsOf(s, j) \subseteq Delivered
  /\ status' = "finished"
  /\ UNCHANGED <<sources, strict, delivered>>

\* An error reaches the client: a source that cannot be opened, or a strict
\* scan's bad record.
Fail ==
  /\ status = "running"
  /\ status' = "failed"
  /\ UNCHANGED <<sources, strict, delivered>>

Next == Deliver \/ Finish \/ Fail

Spec == Init /\ [][Next]_vars
=============================================================================
