------------------------------ MODULE MrtScan ------------------------------
(***************************************************************************)
(* A whole scan: the producer of MrtProducer together with the client that *)
(* collects its batches.  `delivered` is all the client has received, the  *)
(* thing a query sees; the code keeps no such variable.                    *)
(***************************************************************************)
EXTENDS MrtProducer, SequencesExt

CONSTANT MaxDelivered  \* the client asks for no more once it has this many rows

ASSUME MaxDeliveredAssumption == MaxDelivered \in Nat

VARIABLE delivered

scanVars == <<vars, delivered>>

ScanInit == Init /\ delivered = <<>>

ScanRequest ==
  /\ Len(delivered) < MaxDelivered
  /\ Request
  /\ UNCHANGED delivered

ScanPull == Pull /\ UNCHANGED delivered

ScanEmit == Emit /\ delivered' = delivered \o pending

\* The scan is over, or the client stopped asking.
ScanEnded ==
  /\ \/ pc \in {"finished", "failed"}
     \/ pc = "idle" /\ Len(delivered) >= MaxDelivered
  /\ UNCHANGED scanVars

ScanNext == ScanRequest \/ ScanPull \/ ScanEmit \/ ScanEnded

ScanSpec == ScanInit /\ [][ScanNext]_scanVars

\* The SDK drains the scan, as in FairSpec.
FairScanSpec == ScanSpec /\ WF_scanVars(ScanRequest \/ ScanPull \/ ScanEmit)

---------------------------------------------------------------------------
(* Properties *)

\* Nothing is made up: every row the client receives is a row its record has
\* in a single uninterrupted pass, with the peer and the view of that pass.
RowsFaithful ==
  \A i \in DOMAIN delivered :
    delivered[i] \in Range(RowsAt(sources, delivered[i].src, delivered[i].rec))

\* The scans in which no checkpoint is ever restored past a captured error.
Safe == strict \/ transport = "stdio" \/ ~Has(sources, ErrorKinds)

received == delivered \o pending

\* No row comes twice, or out of order, across batch boundaries
\* (scan_state.test:22-23), unless a bad record is read again.
InScanOrder ==
  strict \/ transport = "stdio" \/ ~Has(sources, {"bad"}) =>
    \A m, n \in DOMAIN received : m < n => Precedes(received[m], received[n])

\* Every row of every source has arrived.
AllRowsDelivered ==
  \A s \in DOMAIN sources : \A j \in DOMAIN sources[s] :
    Range(RowsAt(sources, s, j)) \subseteq Range(delivered)

\* No row is lost across batch boundaries (scan_state.test:22-23): a scan that
\* ends normally has delivered every row, unless a source is torn.
NothingLost ==
  pc = "finished" /\ (strict \/ transport = "stdio" \/ ~Has(sources, {"torn"}))
    => AllRowsDelivered

---------------------------------------------------------------------------
(* What the documentation says of every scan, and the code does not keep *)

\* No loss across batch boundaries (scan_state.test:22-23).
NoRowLost == pc = "finished" /\ ~strict => AllRowsDelivered

---------------------------------------------------------------------------
(* A scan keeps the promise of RowStream *)

\* What the promise is about: a scan that is not safe promises nothing, and shows
\* RowStream nothing.
promised == IF Safe THEN delivered ELSE <<>>

status == IF Safe /\ pc \in {"finished", "failed"} THEN pc ELSE "running"

Promise ==
  INSTANCE RowStream WITH sources <- sources, strict <- strict,
                          delivered <- promised, status <- status

\* The client of a safe scan cannot tell it from one uninterrupted pass, cut
\* into batches on record boundaries (scan_state.test:22-23, reader.rs:10-15).
KeepsPromise == Promise!Spec
=============================================================================
