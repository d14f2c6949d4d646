------------------------- MODULE ResultsSinkLedger -------------------------
(***************************************************************************)
(* The sink implements the ledger: the table is the ledger, acknowledged   *)
(* and terminated messages are the settled ones.                           *)
(***************************************************************************)
EXTENDS ResultsSink

Settled == {s \in Seqs : cons[s] \in {"acked", "termed"}}

Ledger == INSTANCE ResultsLedger
            WITH recorded <- Stored, settled <- Settled,
                 Lossy <- MaxPowerLosses > 0

(* Every behaviour of the sink is one of the ledger: batches, redelivery,  *)
(* crashes and lost acks are invisible.                                    *)
ImplementsLedger == Ledger!LedgerSpec
=============================================================================
