--------------------------- MODULE GpuLedgerPower ---------------------------
(***************************************************************************)
(* GpuLedger on a disk that writes late.  A row of the session journal is  *)
(* fsynced before the call that appends it returns (_journal_append,       *)
(* configio.py:896-899); a row of the ledger is only closed                *)
(* (ledger_append, configio.py:851-852) and reaches the disk when the      *)
(* kernel writes it back.  The rows of the ledger not yet written are the  *)
(* newest ones, and are what a loss of power takes.                        *)
(***************************************************************************)
EXTENDS GpuLedger

VARIABLE unsynced    \* seconds of the ledger's rows that are not on disk yet

powerVars == <<vars, unsynced>>

PowerInit == Init /\ unsynced = 0

(* Every receipt, remainder and reconciliation is a ledger_append. *)
RunOn ==
  /\ Next
  /\ unsynced' = unsynced + (ledger' - ledger)

WriteBack ==
  /\ unsynced # 0
  /\ unsynced' = 0
  /\ UNCHANGED vars

(* The seconds of lost rows leave the sum the next run reads. *)
LosePower ==
  /\ ProcessesDie
  /\ ledger' = ledger - unsynced
  /\ unsynced' = 0
  /\ UNCHANGED <<clock, sessions, ghosts>>

PowerSpec == PowerInit /\ [][RunOn \/ WriteBack \/ LosePower]_powerVars

(* configio.py:857, "interrupted occupancy is CHARGED, never lost", and 879, *)
(* "SIGKILL and power loss are covered too, not only clean shutdowns": the   *)
(* ledger holds at least what the journal observed of any closed session.    *)
(* An open session is reconciled by the next guard; a closed one never is.   *)
PowerLossCovered ==
  \A s \in Ids : ~ Open(s) => ledger >= sessions[s].observed
=============================================================================
