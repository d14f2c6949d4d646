--------------------------- MODULE ResultsLedger ---------------------------
(***************************************************************************)
(* What the results sink promises, without batches, deliveries, processes  *)
(* or transactions: a ledger in which each well-formed result of the       *)
(* stream is recorded at most once, and a result is settled (never asked   *)
(* for again) only after it was recorded or found to be malformed.         *)
(***************************************************************************)
EXTENDS Naturals, Sequences

CONSTANTS
  Messages,   \* what may be published
  Parseable,  \* the messages that can be recorded
  Lossy       \* whether the storage may undo what was recorded

VARIABLES
  stream,    \* the published results
  recorded,  \* sequence numbers in the ledger
  settled,   \* sequence numbers that will not be delivered again
  lost       \* recorded sequence numbers the storage has undone

ledgerVars == <<stream, recorded, settled, lost>>

Recordable == {s \in 1..Len(stream) : stream[s] \in Parseable}

Publish ==
  /\ \E m \in Messages : stream' = Append(stream, m)
  /\ UNCHANGED <<recorded, settled, lost>>

(* A batch enters the ledger as a whole, and only with new entries. *)
Record ==
  /\ \E S \in SUBSET (Recordable \ recorded) :
       recorded' = recorded \cup S /\ lost' = lost
  /\ UNCHANGED <<stream, settled>>

Settle ==
  /\ \E s \in 1..Len(stream) :
       /\ s \in Recordable => s \in recorded \cup lost
       /\ settled' = settled \cup {s}
  /\ UNCHANGED <<stream, recorded, lost>>

Lose ==
  /\ Lossy
  /\ recorded' \subseteq recorded
  /\ lost' = (lost \cup recorded) \ recorded'
  /\ UNCHANGED <<stream, settled>>

LedgerInit == stream = <<>> /\ recorded = {} /\ settled = {} /\ lost = {}
LedgerNext == Publish \/ Record \/ Settle \/ Lose
LedgerSpec == LedgerInit /\ [][LedgerNext]_ledgerVars
=============================================================================
