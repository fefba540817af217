----------------------------- MODULE RunLedger ------------------------------
(***************************************************************************)
(* What the rows of a durable run promise to the parts that read them (the *)
(* UI, calibration, a resume): the step rows are a ledger.  A row is       *)
(* written once, while the run is running, and not after a row of a later  *)
(* unit; the run is closed once and nothing is written afterwards.         *)
(* Module DurableRun implements it.                                        *)
(***************************************************************************)
EXTENDS Integers

CONSTANTS
  Row, NoRow, \* the rows, and no row yet
  Closed      \* the statuses a run can end with

VARIABLES
  status,
  ledger      \* a row or NoRow for every place <<unit, branch>> of the pipeline

Recorded(k) == ledger[k] # NoRow

LedgerInit == status = "running" /\ \A k \in DOMAIN ledger : ~Recorded(k)

Record(k) ==
  /\ status = "running" /\ ~Recorded(k)
  /\ \A j \in DOMAIN ledger : k[1] < j[1] => ~Recorded(j)
  /\ ledger'[k] \in Row /\ ledger' = [ledger EXCEPT ![k] = ledger'[k]]
  /\ UNCHANGED status

Close(s) ==
  /\ status = "running"
  /\ status' = s
  /\ UNCHANGED ledger

LedgerNext ==
  \/ \E s \in Closed : Close(s)
  \/ \E k \in DOMAIN ledger : Record(k)

Spec == LedgerInit /\ [][LedgerNext]_<<status, ledger>>
=============================================================================
