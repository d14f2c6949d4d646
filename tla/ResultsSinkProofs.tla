------------------------- MODULE ResultsSinkProofs -------------------------
(***************************************************************************)
(* The safety of the results sink for any number of messages, faults and   *)
(* power losses, any batch size and any delivery limit.                    *)
(***************************************************************************)
EXTENDS ResultsSinkLedger, SequenceFacts

(* No stream sequence number that is settled or in a local queue is        *)
(* unpublished, only rows that are in the table are waiting to be          *)
(* acknowledged, and what is kept, stored or lost could be parsed.         *)
HeldIsPublished ==
  /\ \A s \in Seqs : cons[s] # "none" => s \in Published
  /\ Range(inbox) \subseteq Published
  /\ Range(batch) \subseteq Published

KeptIsWellFormed ==
  /\ \A s \in Range(toAck) : WellFormed(s)
  /\ \A s \in Stored \cup lost : WellFormed(s)

AckFollowsCommit == pc = "ack" => Range(toAck) \subseteq Stored

TermedIsMalformed == \A s \in Seqs : cons[s] = "termed" => ~WellFormed(s)

(* The inductive invariant. *)
SinkInv ==
  /\ TypeOK
  /\ HeldIsPublished
  /\ KeptIsWellFormed
  /\ AckFollowsCommit
  /\ TermedIsMalformed
  /\ AckedIsStored

(* Publishing leaves the content of what is published alone. *)
LEMMA PublishKeeps ==
  ASSUME SinkAssumption, TypeOK, NEW m \in Messages, Publish(m)
  PROVE  /\ stream' \in Seq(Messages) /\ Len(stream') <= MaxSeq
         /\ Len(stream') = Len(stream) + 1
         /\ Published \subseteq Published'
         /\ \A s \in Published : stream'[s] = stream[s]
         /\ Published' \subseteq Seqs
<1>1. stream \in Seq(Messages) /\ Len(stream) \in Nat /\ Len(stream) < MaxSeq
  BY LenProperties DEF TypeOK, Publish
<1> QED
  BY <1>1, AppendProperties DEF Publish, Published, Seqs, SinkAssumption

LEMMA InitEstablishes == SinkAssumption /\ Init => SinkInv
<1> SUFFICES ASSUME SinkAssumption, Init PROVE SinkInv
  OBVIOUS
<1>1. Range(<<>>) = {}
  BY RangeOfEmpty
<1>2. /\ inbox = <<>> /\ batch = <<>> /\ toAck = <<>> /\ commits = <<>>
      /\ stream = <<>> /\ lost = {} /\ Stored = {}
  BY <1>1 DEF Init, Stored
<1>3. TypeOK
  <2>1. /\ <<>> \in Seq(Messages) /\ <<>> \in Seq(Seqs)
        /\ <<>> \in Seq(SUBSET Seqs) /\ Len(<<>>) = 0
    BY EmptySeq
  <2>2. synced \in 0..Len(commits) /\ faults \in 0..MaxFaults
        /\ powerLosses \in 0..MaxPowerLosses /\ Len(stream) <= MaxSeq
    BY <1>2, <2>1 DEF Init, SinkAssumption
  <2> QED
    BY <1>2, <2>1, <2>2 DEF Init, TypeOK, ConsumerStates
<1>4. HeldIsPublished
  BY <1>1, <1>2 DEF Init, HeldIsPublished, Published
<1>5. KeptIsWellFormed /\ AckFollowsCommit
  BY <1>1, <1>2 DEF Init, KeptIsWellFormed, AckFollowsCommit
<1>6. TermedIsMalformed /\ AckedIsStored
  BY DEF Init, TermedIsMalformed, AckedIsStored
<1> QED
  BY <1>3, <1>4, <1>5, <1>6 DEF SinkInv

LEMMA StepPreserves == SinkAssumption /\ SinkInv /\ [Next]_vars => SinkInv'
<1> SUFFICES ASSUME SinkAssumption, SinkInv, [Next]_vars
             PROVE  SinkInv'
  OBVIOUS
<1> USE SinkAssumption DEF SinkInv, SinkAssumption
<1>1. /\ Len(stream) \in Nat /\ Published \subseteq Seqs
      /\ Range(<<>>) = {} /\ <<>> \in Seq(Seqs)
  BY LenProperties, RangeOfEmpty, EmptySeq DEF TypeOK, Published, Seqs
(* The local queues are emptied whenever Consume is left. *)
<1>2. ASSUME Leave, UNCHANGED <<jetstream, database, lost>>,
             faults' \in 0..MaxFaults, powerLosses' \in 0..MaxPowerLosses
      PROVE  SinkInv'
  BY <1>1, <1>2
  DEF Leave, jetstream, database, TypeOK, ConsumerStates, HeldIsPublished,
      KeptIsWellFormed, AckFollowsCommit, TermedIsMalformed, AckedIsStored,
      WellFormed, Published, Stored, Seqs
(* A step that only moves the program counter, the fault count or one of   *)
(* the unread variables. *)
<1>3. ASSUME pc' \in {"down", "loop", "fetch", "parse"},
             cancelled' \in BOOLEAN,
             UNCHANGED <<jetstream, inbox, batch, toAck, commits, lost,
                         powerLosses>>,
             synced' \in 0..Len(commits),
             faults' \in 0..MaxFaults
      PROVE  SinkInv'
  BY <1>1, <1>3
  DEF jetstream, TypeOK, ConsumerStates, HeldIsPublished,
      KeptIsWellFormed, AckFollowsCommit, TermedIsMalformed, AckedIsStored,
      WellFormed, Published, Stored, Seqs
<1>4. ASSUME NEW m \in Messages, Publish(m) PROVE SinkInv'
  <2>1. /\ stream' \in Seq(Messages) /\ Len(stream') <= MaxSeq
        /\ Len(stream') = Len(stream) + 1
        /\ Published \subseteq Published'
        /\ \A s \in Published : stream'[s] = stream[s]
        /\ Published' \subseteq Seqs
    BY <1>4, PublishKeeps
  <2>2. Len(stream) + 1 \in Published' /\ Len(stream) + 1 \notin Published
    BY <1>1, <2>1 DEF Published
  <2>3. \A s \in Seqs : s # Len(stream) + 1 => cons'[s] = cons[s]
    BY <1>4 DEF Publish, TypeOK
  <2>4. cons' \in [Seqs -> ConsumerStates] /\ cons'[Len(stream) + 1] = "new"
    BY <1>4, <2>1, <2>2 DEF Publish, TypeOK, ConsumerStates
  <2>5. UNCHANGED <<deliveries, exists, client, database, history, Stored>>
    BY <1>4 DEF Publish, database, Stored
  <2>6. TypeOK'
    BY <2>1, <2>4, <2>5
    DEF TypeOK, client, database, history, ConsumerStates, Seqs
  <2>7. \A s \in Published : WellFormed(s)' <=> WellFormed(s)
    BY <2>1 DEF WellFormed
  <2>8. HeldIsPublished'
    BY <2>1, <2>2, <2>3, <2>5 DEF HeldIsPublished, client
  <2>9. KeptIsWellFormed'
    BY <2>5, <2>7 DEF KeptIsWellFormed, client, history, WellFormed
  <2>10. TermedIsMalformed'
    BY <2>3, <2>4, <2>7 DEF TermedIsMalformed, HeldIsPublished
  <2>11. AckFollowsCommit' /\ AckedIsStored'
    BY <2>3, <2>4, <2>5
    DEF AckFollowsCommit, AckedIsStored, client, history
  <2> QED BY <2>6, <2>8, <2>9, <2>10, <2>11
<1>5. ASSUME NEW s \in Seqs, Deliver(s) PROVE SinkInv'
  <2>1. /\ inbox' \in Seq(Seqs) /\ Range(inbox') = Range(inbox) \cup {s}
    BY <1>5, RangeOfAppend DEF Deliver, TypeOK
  <2>2. s \in Published
    BY <1>5 DEF Deliver, HeldIsPublished
  <2>3. /\ cons' \in [Seqs -> ConsumerStates] /\ cons'[s] = "pending"
        /\ \A t \in Seqs : t # s => cons'[t] = cons[t]
    BY <1>5 DEF Deliver, TypeOK, ConsumerStates
  <2>4. deliveries' \in [Seqs -> Nat]
    BY <1>5 DEF Deliver, TypeOK
  <2>5. UNCHANGED <<stream, exists, pc, cancelled, batch, toAck, commits,
                    synced, history, Stored>>
    BY <1>5 DEF Deliver, database, Stored
  <2>6. TypeOK'
    BY <2>1, <2>3, <2>4, <2>5 DEF TypeOK, ConsumerStates, history, Seqs
  <2>7. HeldIsPublished'
    BY <2>1, <2>2, <2>3, <2>5 DEF HeldIsPublished, Published
  <2>8. KeptIsWellFormed' /\ AckFollowsCommit'
    BY <1>5, <2>5
    DEF KeptIsWellFormed, AckFollowsCommit, WellFormed, Published, history
  <2>9. TermedIsMalformed' /\ AckedIsStored'
    BY <2>3, <2>5
    DEF TermedIsMalformed, AckedIsStored, WellFormed, Published, history
  <2> QED BY <2>6, <2>7, <2>8, <2>9
<1>6. ASSUME NEW s \in Seqs, AckExpire(s) PROVE SinkInv'
  <2>1. /\ cons' \in [Seqs -> ConsumerStates]
        /\ cons'[s] \in {"redeliver", "exhausted"} /\ cons[s] = "pending"
        /\ \A t \in Seqs : t # s => cons'[t] = cons[t]
    BY <1>6 DEF AckExpire, TypeOK, ConsumerStates
  <2>2. UNCHANGED <<stream, deliveries, exists, client, database, history,
                    Stored>>
    BY <1>6 DEF AckExpire, database, Stored
  <2>3. TypeOK' /\ AckFollowsCommit'
    BY <2>1, <2>2
    DEF TypeOK, ConsumerStates, AckFollowsCommit, client, database, history,
        Seqs
  <2>4. HeldIsPublished' /\ KeptIsWellFormed'
    BY <2>1, <2>2
    DEF HeldIsPublished, KeptIsWellFormed, WellFormed, Published, client,
        history
  <2>5. TermedIsMalformed' /\ AckedIsStored'
    BY <2>1, <2>2
    DEF TermedIsMalformed, AckedIsStored, WellFormed, Published, history
  <2> QED BY <2>3, <2>4, <2>5
<1>7. CASE Start \/ BeginFetch \/ FetchTimeout \/ InsertNothing \/ AckDone
  BY <1>3, <1>7
  DEF Start, BeginFetch, FetchTimeout, InsertNothing, AckDone, Goto, TypeOK,
      database, history
<1>8. CASE LoopDone \/ FetchError \/ InsertError \/ InsertCancelled \/ Crash
  <2>1. /\ Leave /\ UNCHANGED <<jetstream, database, lost, powerLosses>>
        /\ \/ Fault
           \/ UNCHANGED faults
    BY <1>8 DEF LoopDone, FetchError, InsertError, InsertCancelled, Crash,
                history
  <2>2. faults' \in 0..MaxFaults /\ powerLosses' \in 0..MaxPowerLosses
    BY <2>1 DEF Fault, TypeOK
  <2> QED
    BY <1>2, <2>1, <2>2
<1>9. CASE Checkpoint
  <2>1. Len(commits) \in Nat
    BY LenProperties DEF TypeOK
  <2>2. TypeOK' /\ UNCHANGED <<jetstream, client, commits, history, Stored>>
    BY <1>9, <2>1 DEF Checkpoint, TypeOK, ConsumerStates, jetstream, client,
                      history, Stored, Seqs
  <2> QED
    BY <2>2
    DEF jetstream, client, history, HeldIsPublished, KeptIsWellFormed,
        AckFollowsCommit, TermedIsMalformed, AckedIsStored, WellFormed,
        Published
<1>10. CASE FetchReturn
  <2>1. PICK k \in 1..Len(inbox) :
          /\ batch' = SubSeq(inbox, 1, k)
          /\ inbox' = SubSeq(inbox, k + 1, Len(inbox))
    BY <1>10 DEF FetchReturn
  <2>2. Len(inbox) \in Nat
    BY LenProperties DEF TypeOK
  <2>3. /\ batch' \in Seq(Seqs) /\ Range(batch') \subseteq Range(inbox)
        /\ inbox' \in Seq(Seqs) /\ Range(inbox') \subseteq Range(inbox)
    <3>1. 1 \in 1..Len(inbox) + 1 /\ k \in 0..Len(inbox)
      BY <2>2
    <3>2. k + 1 \in 1..Len(inbox) + 1 /\ Len(inbox) \in 0..Len(inbox)
      BY <2>2
    <3> QED
      BY <2>1, <3>1, <3>2, RangeOfSubSeq DEF TypeOK
  <2>4. /\ UNCHANGED <<jetstream, cancelled, toAck, database, history, Stored>>
        /\ pc' = "parse"
    BY <1>10 DEF FetchReturn, Goto, database, Stored
  <2> QED
    BY <2>3, <2>4
    DEF jetstream, database, history, TypeOK, ConsumerStates, HeldIsPublished,
        KeptIsWellFormed, AckFollowsCommit, TermedIsMalformed, AckedIsStored,
        WellFormed, Published, Seqs
<1>11. CASE KeepMessage
  <2>1. /\ batch' \in Seq(Seqs) /\ Range(batch') \subseteq Range(batch)
        /\ Head(batch) \in Range(batch) /\ Range(batch) \subseteq Seqs
    BY <1>11, RangeOfTail, RangeOfSeq DEF KeepMessage, TypeOK
  <2>2. WellFormed(Head(batch))
    BY <1>11, <2>1
    DEF KeepMessage, CanParse, WellFormed, HeldIsPublished
  <2>3. /\ toAck' \in Seq(Seqs)
        /\ Range(toAck') = Range(toAck) \cup {Head(batch)}
    BY <1>11, <2>1, RangeOfAppend DEF KeepMessage, TypeOK
  <2>4. /\ UNCHANGED <<jetstream, pc, cancelled, inbox, database, history,
                       Stored>>
        /\ pc = "parse"
    BY <1>11 DEF KeepMessage, database, Stored
  <2> QED
    BY <2>1, <2>2, <2>3, <2>4
    DEF jetstream, database, history, TypeOK, ConsumerStates, HeldIsPublished,
        KeptIsWellFormed, AckFollowsCommit, TermedIsMalformed, AckedIsStored,
        WellFormed, Published, Seqs
<1>12. CASE TermMessage
  <2>1. /\ batch' \in Seq(Seqs) /\ Range(batch') \subseteq Range(batch)
        /\ Head(batch) \in Range(batch) /\ Range(batch) \subseteq Seqs
    BY <1>12, RangeOfTail, RangeOfSeq DEF TermMessage, TypeOK
  <2>2. ~WellFormed(Head(batch))
    BY <1>12 DEF TermMessage, CanParse, WellFormed
  <2>3. /\ cons' \in [Seqs -> ConsumerStates]
        /\ \A s \in Seqs : \/ cons'[s] = cons[s]
                           \/ /\ s = Head(batch) /\ cons'[s] = "termed"
                              /\ cons[s] # "none"
    BY <1>12, <2>1 DEF TermMessage, Settle, TypeOK, ConsumerStates
  <2>4. /\ UNCHANGED <<stream, deliveries, exists, pc, cancelled, inbox, toAck,
                       database, lost, powerLosses, Stored>>
        /\ pc = "parse" /\ faults' \in 0..MaxFaults
    BY <1>12, SMTT(60) DEF TermMessage, Fault, TypeOK, database, Stored
  <2>5. TypeOK'
    BY <2>1, <2>3, <2>4 DEF TypeOK, ConsumerStates, database, Seqs
  <2>6. HeldIsPublished' /\ KeptIsWellFormed' /\ AckFollowsCommit'
    BY <2>1, <2>3, <2>4
    DEF HeldIsPublished, KeptIsWellFormed, AckFollowsCommit, WellFormed,
        Published
  <2>7. TermedIsMalformed' /\ AckedIsStored'
    BY <2>2, <2>3, <2>4
    DEF TermedIsMalformed, AckedIsStored, WellFormed, Published
  <2> QED BY <2>5, <2>6, <2>7
<1>13. CASE InsertBatch
  <2>1. Range(toAck) \subseteq Seqs
    BY RangeOfSeq DEF TypeOK
  <2>2. /\ commits' \in Seq(SUBSET Seqs)
        /\ Range(commits') = Range(commits) \cup {NewRows(toAck)}
        /\ Len(commits') = Len(commits) + 1
    <3>1. NewRows(toAck) \in SUBSET Seqs /\ commits \in Seq(SUBSET Seqs)
      BY <2>1 DEF NewRows, TypeOK
    <3>2. commits' = Append(commits, NewRows(toAck))
      BY <1>13 DEF InsertBatch
    <3>3. commits' \in Seq(SUBSET Seqs) /\ Len(commits') = Len(commits) + 1
      BY <3>1, <3>2, AppendProperties
    <3>4. Range(commits') = Range(commits) \cup {NewRows(toAck)}
      BY <3>1, <3>2, RangeOfAppend
    <3> QED BY <3>3, <3>4
  <2>3. Stored' = Stored \cup Range(toAck)
    BY <2>2 DEF Stored, NewRows
  <2>4. /\ UNCHANGED <<jetstream, cancelled, inbox, batch, toAck, synced,
                       history>>
        /\ pc' = "ack"
    BY <1>13 DEF InsertBatch
  <2>5. TypeOK'
    BY <2>2, <2>4, LenProperties
    DEF TypeOK, ConsumerStates, jetstream, history, Seqs
  <2> QED
    BY <2>3, <2>4, <2>5
    DEF jetstream, history, HeldIsPublished, KeptIsWellFormed,
        AckFollowsCommit, TermedIsMalformed, AckedIsStored, WellFormed,
        Published
<1>14. CASE AckMessage
  <2>1. /\ toAck' \in Seq(Seqs) /\ Range(toAck') \subseteq Range(toAck)
        /\ Head(toAck) \in Range(toAck) /\ Range(toAck) \subseteq Seqs
    BY <1>14, RangeOfTail, RangeOfSeq DEF AckMessage, TypeOK
  <2>2. Head(toAck) \in Stored
    BY <1>14, <2>1 DEF AckMessage, AckFollowsCommit
  <2>3. /\ cons' \in [Seqs -> ConsumerStates]
        /\ \A s \in Seqs : \/ cons'[s] = cons[s]
                           \/ /\ s = Head(toAck) /\ cons'[s] = "acked"
                              /\ cons[s] # "none"
    BY <1>14, <2>1 DEF AckMessage, Settle, TypeOK, ConsumerStates
  <2>4. /\ UNCHANGED <<stream, deliveries, exists, pc, cancelled, inbox, batch,
                       database, lost, powerLosses, Stored>>
        /\ faults' \in 0..MaxFaults
    BY <1>14, SMTT(60) DEF AckMessage, Fault, TypeOK, database, Stored
  <2>5. TypeOK'
    BY <2>1, <2>3, <2>4 DEF TypeOK, ConsumerStates, database, Seqs
  <2>6. HeldIsPublished' /\ KeptIsWellFormed' /\ AckFollowsCommit'
    BY <2>1, <2>3, <2>4
    DEF HeldIsPublished, KeptIsWellFormed, AckFollowsCommit, WellFormed,
        Published
  <2>7. TermedIsMalformed' /\ AckedIsStored'
    BY <2>2, <2>3, <2>4
    DEF TermedIsMalformed, AckedIsStored, WellFormed, Published
  <2> QED BY <2>5, <2>6, <2>7
<1>15. CASE Cancel
  <2>1. /\ UNCHANGED <<jetstream, pc, inbox, batch, toAck, database, lost,
                       powerLosses, Stored>>
        /\ cancelled' \in BOOLEAN /\ faults' \in 0..MaxFaults
    BY <1>15 DEF Cancel, Fault, TypeOK, database, Stored
  <2> QED
    BY <2>1
    DEF jetstream, database, TypeOK, ConsumerStates, HeldIsPublished,
        KeptIsWellFormed, AckFollowsCommit, TermedIsMalformed, AckedIsStored,
        WellFormed, Published, Seqs
<1>16. CASE PowerLoss
  <2>1. PICK k \in synced..Len(commits) : commits' = SubSeq(commits, 1, k)
    BY <1>16 DEF PowerLoss
  <2>2. /\ Len(commits) \in Nat /\ synced \in Nat /\ k \in 0..Len(commits)
        /\ synced <= k /\ 1 \in 1..Len(commits) + 1
    BY <2>1, LenProperties DEF TypeOK
  <2>3. /\ commits' \in Seq(SUBSET Seqs)
        /\ Range(commits') \subseteq Range(commits)
    BY <2>1, <2>2, RangeOfSubSeq DEF TypeOK
  <2>4. Len(commits') = k
    BY <2>1, <2>2, SubSeqProperties, ElementOfSeq DEF TypeOK
  <2>5. Stored' \subseteq Stored /\ Stored \subseteq Seqs
    BY <2>3, RangeOfSeq DEF Stored, TypeOK
  <2>6. /\ UNCHANGED <<jetstream, synced, faults>> /\ Leave
        /\ lost' = (lost \cup Stored) \ Stored'
        /\ powerLosses' \in 0..MaxPowerLosses
    BY <1>16 DEF PowerLoss, TypeOK
  <2>7. lost' \cup Stored' = lost \cup Stored
    BY <2>5, <2>6
  <2>8. TypeOK'
    <3>1. synced' \in 0..Len(commits') /\ lost' \subseteq Seqs
      BY <2>2, <2>4, <2>5, <2>6 DEF TypeOK
    <3> QED
      BY <1>1, <2>3, <2>6, <3>1
      DEF TypeOK, ConsumerStates, jetstream, Leave, Seqs
  <2> QED
    BY <1>1, <2>6, <2>7, <2>8
    DEF jetstream, Leave, HeldIsPublished, KeptIsWellFormed, AckFollowsCommit,
        TermedIsMalformed, AckedIsStored, WellFormed, Published
<1>17. CASE DeleteInactive
  <2>1. exists' \in BOOLEAN
    BY <1>17 DEF DeleteInactive
  <2>2. UNCHANGED <<stream, cons, deliveries, client, database, history,
                    Stored>>
    BY <1>17 DEF DeleteInactive, database, Stored
  <2> QED
    BY <2>1, <2>2
    DEF client, database, history, TypeOK, ConsumerStates, HeldIsPublished,
        KeptIsWellFormed, AckFollowsCommit, TermedIsMalformed, AckedIsStored,
        WellFormed, Published, Seqs
<1>18. CASE UNCHANGED vars
  BY <1>18
  DEF vars, jetstream, client, database, history, TypeOK, ConsumerStates,
      HeldIsPublished, KeptIsWellFormed, AckFollowsCommit, TermedIsMalformed,
      AckedIsStored, WellFormed, Published, Stored, Seqs
<1> QED
  BY <1>4, <1>5, <1>6, <1>7, <1>8, <1>9, <1>10, <1>11, <1>12, <1>13, <1>14,
     <1>15, <1>16, <1>17, <1>18 DEF Next

(* The inductive invariant holds in every behaviour of the sink. *)
THEOREM SinkInvariant == Spec => []SinkInv
<1>1. SinkAssumption BY SinkAssumption
<1>2. Init => SinkInv BY <1>1, InitEstablishes
<1>3. SinkInv /\ [Next]_vars => SinkInv' BY <1>1, StepPreserves
<1> QED BY <1>2, <1>3, PTL DEF Spec

(* The type invariant of the sink. *)
THEOREM SinkTypeCorrect == Spec => []TypeOK
BY SinkInvariant, PTL DEF SinkInv

(* Whatever the batching, the redeliveries and the faults, a result is     *)
(* acknowledged only when its row is in the table.                         *)
THEOREM SinkAckedIsStored == Spec => []AckedIsStored
BY SinkInvariant, PTL DEF SinkInv

(* The sink never drops or acknowledges the wrong kind of message. *)
THEOREM SinkOnlyMalformedDropped == Spec => []OnlyMalformedDropped
<1>1. SinkInv => OnlyMalformedDropped
  BY DEF SinkInv, KeptIsWellFormed, TermedIsMalformed, AckedIsStored,
         OnlyMalformedDropped
<1> QED BY <1>1, SinkInvariant, PTL

-----------------------------------------------------------------------------
(* The table is only ever extended by rows it lacks, and cut at the end. *)
LEMMA StepKeepsRowsDistinct ==
  TypeOK /\ NoDoubleCount /\ [Next]_vars => NoDoubleCount'
<1> SUFFICES ASSUME TypeOK, NoDoubleCount, [Next]_vars PROVE NoDoubleCount'
  OBVIOUS
<1>1. Len(commits) \in Nat /\ DOMAIN commits = 1..Len(commits)
  BY LenProperties DEF TypeOK
<1>2. CASE UNCHANGED commits
  BY <1>2 DEF NoDoubleCount
<1>3. CASE InsertBatch
  <2>1. NewRows(toAck) \in SUBSET Seqs /\ commits \in Seq(SUBSET Seqs)
    BY RangeOfSeq DEF NewRows, TypeOK
  <2>2. commits' = Append(commits, NewRows(toAck))
    BY <1>3 DEF InsertBatch
  <2>3. /\ DOMAIN commits' = 1..Len(commits) + 1
        /\ \A i \in 1..Len(commits) : commits'[i] = commits[i]
        /\ commits'[Len(commits) + 1] = NewRows(toAck)
    BY <2>1, <2>2, AppendProperties, LenProperties
  <2>4. \A i \in 1..Len(commits) : commits[i] \subseteq Stored
    BY <1>1 DEF Stored, Range
  <2>5. \A i \in 1..Len(commits) : commits'[i] \cap NewRows(toAck) = {}
    BY <2>3, <2>4 DEF NewRows
  <2>6. \A i \in DOMAIN commits' : i \in 1..Len(commits)
                                   \/ i = Len(commits) + 1
    BY <1>1, <2>3
  <2>7. \A i, j \in 1..Len(commits) :
          i # j => commits'[i] \cap commits'[j] = {}
    BY <1>1, <2>3 DEF NoDoubleCount
  <2> QED
    BY <2>3, <2>5, <2>6, <2>7 DEF NoDoubleCount
<1>4. CASE PowerLoss
  <2>1. PICK k \in synced..Len(commits) : commits' = SubSeq(commits, 1, k)
    BY <1>4 DEF PowerLoss
  <2>2. k \in 0..Len(commits)
    BY <1>1, <2>1 DEF TypeOK
  <2>3. \A i \in 1..k : i \in 1..Len(commits) /\ commits[i] \in SUBSET Seqs
    BY <1>1, <2>2, ElementOfSeq DEF TypeOK
  <2>4. /\ commits' \in Seq(SUBSET Seqs) /\ Len(commits') = k
        /\ \A i \in 1..k : commits'[i] = commits[i]
    BY <2>1, <2>2, <2>3, SubSeqProperties
  <2>5. DOMAIN commits' = 1..k
    BY <2>4, LenProperties
  <2> QED
    BY <1>1, <2>3, <2>4, <2>5 DEF NoDoubleCount
<1> QED
  BY <1>2, <1>3, <1>4
  DEF Next, vars, Publish, Deliver, AckExpire, Start, BeginFetch, LoopDone,
      FetchReturn, FetchTimeout, FetchError, KeepMessage, TermMessage,
      InsertNothing, InsertError, InsertCancelled, AckMessage, AckDone,
      Cancel, Crash, Checkpoint, DeleteInactive, database

(* No stream sequence number is ever inserted twice. *)
THEOREM SinkNoDoubleCount == Spec => []NoDoubleCount
<1>1. Init => NoDoubleCount
  BY DEF Init, NoDoubleCount
<1> QED
  BY <1>1, StepKeepsRowsDistinct, SinkTypeCorrect, PTL DEF Spec

-----------------------------------------------------------------------------
(* What excuses a loss; only faults cancel the context of Consume. *)
Excused == faults > 0 \/ powerLosses > 0 \/ ~exists

(* What was delivered and not settled is in the hands of Consume.  The     *)
(* batch is empty when Fetch replaces it.                                  *)
OwedIsHeld ==
  /\ cancelled => faults > 0
  /\ pc # "parse" => batch = <<>>
  /\ \A s \in Seqs :
       cons[s] \in {"pending", "redeliver", "exhausted"} /\ WellFormed(s)
         => s \in Stored \/ s \in InHand \/ Excused

LEMMA StepKeepsOwed ==
  ASSUME SinkAssumption, SinkInv, SinkInv', OwedIsHeld, [Next]_vars
  PROVE  OwedIsHeld'
<1>. TypeOK /\ TypeOK'
  BY DEF SinkInv
<1>. Range(<<>>) = {}
  BY RangeOfEmpty
<1>. /\ faults \in Nat /\ faults' \in Nat
     /\ powerLosses \in Nat /\ powerLosses' \in Nat
  BY DEF TypeOK, SinkAssumption
<1>1. (pc # "parse" => batch = <<>>)'
  BY DEF OwedIsHeld, Next, vars, jetstream, client, database, history,
         Publish, Deliver, AckExpire, DeleteInactive, Start, BeginFetch, LoopDone, FetchReturn,
        FetchTimeout, FetchError, KeepMessage, TermMessage, InsertBatch,
        InsertNothing, InsertError, InsertCancelled, AckMessage, AckDone,
        Cancel, Crash, Checkpoint, PowerLoss, Leave, Fault, Goto
<1>2. (cancelled => faults > 0)'
  <2>1. \/ faults' = faults + 1
        \/ cancelled' = FALSE
        \/ cancelled' = cancelled /\ faults' = faults
    BY ZenonT(60) DEF Next, vars, jetstream, client, database, history, Publish,
        Deliver, AckExpire, DeleteInactive, Start, BeginFetch, LoopDone, FetchReturn,
        FetchTimeout, FetchError, KeepMessage, TermMessage, InsertBatch,
        InsertNothing, InsertError, InsertCancelled, AckMessage, AckDone,
        Cancel, Crash, Checkpoint, PowerLoss, Leave, Fault, Goto
  <2>2. CASE faults' = faults + 1
    BY <2>2
  <2>3. CASE cancelled' = FALSE
    BY <2>3
  <2>4. CASE cancelled' = cancelled /\ faults' = faults
    BY <2>4 DEF OwedIsHeld
  <2> QED
    BY <2>1, <2>2, <2>3, <2>4
<1>3. Excused => Excused'
  <2>1. exists' => exists
    BY ZenonT(60) DEF Next, vars, jetstream, client, database, history, Publish,
        Deliver, AckExpire, DeleteInactive, Start, BeginFetch, LoopDone, FetchReturn,
        FetchTimeout, FetchError, KeepMessage, TermMessage, InsertBatch,
        InsertNothing, InsertError, InsertCancelled, AckMessage, AckDone,
        Cancel, Crash, Checkpoint, PowerLoss, Leave, Fault, Goto
  <2>2. faults' = faults \/ faults' = faults + 1
    BY ZenonT(60) DEF Next, vars, jetstream, client, database, history, Publish,
        Deliver, AckExpire, DeleteInactive, Start, BeginFetch, LoopDone, FetchReturn,
        FetchTimeout, FetchError, KeepMessage, TermMessage, InsertBatch,
        InsertNothing, InsertError, InsertCancelled, AckMessage, AckDone,
        Cancel, Crash, Checkpoint, PowerLoss, Leave, Fault, Goto
  <2>3. powerLosses' = powerLosses \/ powerLosses' = powerLosses + 1
    BY ZenonT(60) DEF Next, vars, jetstream, client, database, history, Publish,
        Deliver, AckExpire, DeleteInactive, Start, BeginFetch, LoopDone, FetchReturn,
        FetchTimeout, FetchError, KeepMessage, TermMessage, InsertBatch,
        InsertNothing, InsertError, InsertCancelled, AckMessage, AckDone,
        Cancel, Crash, Checkpoint, PowerLoss, Leave, Fault, Goto
  <2> QED
    BY <2>1, <2>2, <2>3 DEF Excused
<1>4. SUFFICES ASSUME ~Excused', NEW s \in Seqs, WellFormed(s)',
                      cons'[s] \in {"pending", "redeliver", "exhausted"}
               PROVE  s \in Stored' \/ s \in InHand'
  BY <1>1, <1>2 DEF OwedIsHeld
<1>5. /\ exists /\ exists' /\ ~Excused
      /\ faults' # faults + 1 /\ powerLosses' # powerLosses + 1
      /\ cancelled = FALSE
  <2>1. exists' /\ faults' = 0 /\ powerLosses' = 0 /\ ~Excused
    BY <1>3, <1>4 DEF Excused
  <2>2. faults' # faults + 1 /\ powerLosses' # powerLosses + 1
    BY <2>1
  <2>3. cancelled = FALSE
    BY <2>1, ZenonT(60) DEF Excused, OwedIsHeld, TypeOK
  <2>4. exists
    BY <2>1, ZenonT(60) DEF Excused
  <2> QED
    BY <2>1, <2>2, <2>3, <2>4
(* What was held before is still held if the queues and the table are. *)
<1>6. ASSUME cons[s] \in {"pending", "redeliver", "exhausted"},
             WellFormed(s), Stored \subseteq Stored',
             s \in Stored \/ s \in InHand => s \in Stored' \/ s \in InHand'
      PROVE  s \in Stored' \/ s \in InHand'
  BY <1>5, <1>6 DEF OwedIsHeld
<1>7. CASE UNCHANGED <<stream, cons, inbox, batch, toAck, commits>>
  BY <1>4, <1>6, <1>7 DEF WellFormed, Published, Stored, InHand
<1>8. ASSUME NEW m \in Messages, Publish(m)
      PROVE  s \in Stored' \/ s \in InHand'
  <2>1. /\ Len(stream') = Len(stream) + 1
        /\ \A t \in Published : stream'[t] = stream[t]
    BY <1>8, PublishKeeps
  <2>2. s # Len(stream) + 1 /\ cons'[s] = cons[s]
    BY <1>4, <1>8 DEF Publish, TypeOK
  <2>3. WellFormed(s)
    <3>1. Len(stream) \in Nat
      BY LenProperties DEF TypeOK
    <3>2. s \in Published
      BY <1>4, <2>1, <2>2, <3>1 DEF WellFormed, Published
    <3> QED
      BY <1>4, <2>1, <3>2 DEF WellFormed
  <2>4. UNCHANGED <<Stored, InHand>>
    BY <1>8 DEF Publish, client, database, Stored, InHand
  <2> QED
    BY <1>4, <1>6, <2>2, <2>3, <2>4
<1>9. ASSUME NEW t \in Seqs, Deliver(t)
      PROVE  s \in Stored' \/ s \in InHand'
  <2>1. /\ Range(inbox') = Range(inbox) \cup {t}
        /\ UNCHANGED <<stream, batch, toAck, commits>>
    BY <1>9, RangeOfAppend DEF Deliver, database, TypeOK
  <2>2. CASE s = t
    BY <2>1, <2>2 DEF InHand
  <2>3. CASE s # t
    <3>1. cons'[s] = cons[s]
      BY <1>9, <2>3 DEF Deliver, TypeOK
    <3> QED
      BY <1>4, <1>6, <2>1, <3>1 DEF WellFormed, Published, Stored, InHand
  <2> QED
    BY <2>2, <2>3
<1>10. ASSUME NEW t \in Seqs, AckExpire(t)
       PROVE  s \in Stored' \/ s \in InHand'
  <2>1. cons[s] \in {"pending", "redeliver", "exhausted"}
    BY <1>4, <1>10 DEF AckExpire, TypeOK
  <2>2. UNCHANGED <<stream, Stored, InHand>>
    BY <1>10 DEF AckExpire, client, database, Stored, InHand
  <2> QED
    BY <1>4, <1>6, <2>1, <2>2 DEF WellFormed, Published
<1>11. CASE FetchReturn
  <2>1. PICK k \in 1..Len(inbox) : /\ batch' = SubSeq(inbox, 1, k)
                                   /\ inbox' = SubSeq(inbox, k + 1, Len(inbox))
    BY <1>11 DEF FetchReturn
  <2>2. k \in 0..Len(inbox)
    BY <2>1
  <2>3. Range(inbox) \subseteq Range(batch') \cup Range(inbox')
    BY <2>1, <2>2, RangeOfParts DEF TypeOK
  <2>4. batch = <<>> /\ UNCHANGED <<stream, cons, toAck, Stored>>
    BY <1>11 DEF FetchReturn, Goto, OwedIsHeld, jetstream, database, Stored
  <2> QED
    BY <1>4, <1>6, <2>3, <2>4 DEF WellFormed, Published, InHand
<1>12. CASE KeepMessage
  <2>1. /\ Range(batch) = {Head(batch)} \cup Range(batch')
        /\ Head(batch) \in Seqs
    BY <1>12, RangeOfHeadTail, RangeOfTail, RangeOfSeq DEF KeepMessage, TypeOK
  <2>2. Range(toAck') = Range(toAck) \cup {Head(batch)}
    <3>1. toAck \in Seq(Seqs) /\ toAck' = Append(toAck, Head(batch))
      BY <1>12 DEF KeepMessage, TypeOK
    <3> QED
      BY <2>1, <3>1, RangeOfAppend
  <2>3. UNCHANGED <<stream, cons, inbox, Stored>>
    BY <1>12 DEF KeepMessage, jetstream, database, Stored
  <2> QED
    BY <1>4, <1>6, <2>1, <2>2, <2>3 DEF WellFormed, Published, InHand
<1>13. CASE TermMessage
  <2>1. Range(batch) = {Head(batch)} \cup Range(batch')
    BY <1>13, RangeOfHeadTail DEF TermMessage, TypeOK
  <2>2. /\ UNCHANGED <<stream, inbox, toAck, Stored>>
        /\ Settle(Head(batch), "termed")
        /\ ~CanParse(Head(batch))
    BY <1>13, <1>5, ZenonT(60) DEF TermMessage, Fault, database, Stored
  <2>3. cons'[s] = cons[s]
    BY <1>4, <2>2 DEF Settle, TypeOK
  <2>4. WellFormed(s) /\ s # Head(batch)
    BY <1>4, <2>2 DEF WellFormed, Published, CanParse
  <2> QED
    BY <1>4, <1>6, <2>1, <2>2, <2>3, <2>4 DEF InHand
<1>14. CASE InsertBatch
  <2>1. NewRows(toAck) \in SUBSET Seqs /\ commits \in Seq(SUBSET Seqs)
    BY RangeOfSeq DEF NewRows, TypeOK
  <2>2. Range(commits') = Range(commits) \cup {NewRows(toAck)}
    BY <1>14, <2>1, RangeOfAppend DEF InsertBatch
  <2>3. UNCHANGED <<stream, cons, InHand>>
    BY <1>14 DEF InsertBatch, jetstream, InHand
  <2> QED
    BY <1>4, <1>6, <2>2, <2>3 DEF WellFormed, Published, Stored
<1>15. CASE AckMessage
  <2>1. Range(toAck) = {Head(toAck)} \cup Range(toAck')
    BY <1>15, RangeOfHeadTail DEF AckMessage, TypeOK
  <2>2. /\ UNCHANGED <<stream, inbox, batch, Stored>>
        /\ Settle(Head(toAck), "acked")
    BY <1>15, <1>5, ZenonT(60) DEF AckMessage, Fault, database, Stored
  <2>3. cons'[s] = cons[s]
    BY <1>4, <2>2 DEF Settle, TypeOK
  <2>4. Head(toAck) \in Stored
    BY <1>15, <2>1 DEF AckMessage, SinkInv, AckFollowsCommit
  <2> QED
    BY <1>4, <1>6, <2>1, <2>2, <2>3, <2>4 DEF WellFormed, Published, InHand
<1>16. CASE \/ DeleteInactive \/ Start \/ BeginFetch \/ LoopDone
            \/ FetchTimeout \/ FetchError \/ InsertNothing \/ InsertError
            \/ InsertCancelled \/ AckDone \/ Cancel \/ Crash \/ Checkpoint
            \/ PowerLoss \/ UNCHANGED vars
  BY <1>5, <1>7, <1>16, ZenonT(60)
  DEF DeleteInactive, Start, BeginFetch, LoopDone, FetchTimeout, FetchError,
      InsertNothing, InsertError, InsertCancelled, AckDone, Cancel, Crash,
      Checkpoint, PowerLoss, Fault, vars, jetstream, client, database
<1> QED
  BY <1>8, <1>9, <1>10, <1>11, <1>12, <1>13, <1>14, <1>15, <1>16 DEF Next

(* Without a fault, and while the consumer is there, whatever JetStream    *)
(* gives up is in the table or in the hands of Consume, for any number of  *)
(* messages and any limits.                                                *)
THEOREM SinkNoSilentLoss == Spec => []NoSilentLoss
<1>1. Init => OwedIsHeld
  BY DEF Init, OwedIsHeld
<1>2. SinkInv /\ SinkInv' /\ OwedIsHeld /\ [Next]_vars => OwedIsHeld'
  BY StepKeepsOwed, SinkAssumption
<1>3. OwedIsHeld => NoSilentLoss
  BY DEF OwedIsHeld, NoSilentLoss, Excused
<1> QED
  BY <1>1, <1>2, <1>3, SinkInvariant, PTL DEF Spec

-----------------------------------------------------------------------------
(* The ledger is unmoved by a step that changes neither the stream, nor    *)
(* the table, nor the set of settled messages.                             *)
LEMMA StepRefines ==
  ASSUME SinkAssumption, SinkInv, SinkInv', [Next]_vars
  PROVE  [Ledger!LedgerNext]_(Ledger!ledgerVars)
<1> USE DEF SinkInv
<1>1. CASE UNCHANGED <<stream, Stored, Settled, lost>>
  BY <1>1 DEF Ledger!ledgerVars
<1>2. ASSUME UNCHANGED <<stream, cons, commits, lost>>
      PROVE  UNCHANGED <<stream, Stored, Settled, lost>>
  BY <1>2 DEF Stored, Settled
<1>3. ASSUME NEW m \in Messages, Publish(m)
      PROVE  Ledger!Publish
  <2>1. /\ Len(stream') = Len(stream) + 1
        /\ Published' \subseteq Seqs
    BY <1>3, PublishKeeps
  <2>2. \A s \in Seqs : cons'[s] = cons[s]
                         \/ (s = Len(stream) + 1 /\ cons'[s] = "new")
    BY <1>3 DEF Publish, TypeOK
  <2>3. Len(stream) \in Nat
    BY LenProperties DEF TypeOK
  <2>4. Len(stream) + 1 \notin Published
    BY <2>3 DEF Published
  <2>5. Settled' = Settled
    BY <2>2, <2>4 DEF Settled, HeldIsPublished
  <2>6. Stored' = Stored /\ lost' = lost /\ stream' = Append(stream, m)
    BY <1>3 DEF Publish, database, history, Stored
  <2> QED
    BY <2>5, <2>6 DEF Ledger!Publish
<1>4. ASSUME NEW s \in Seqs,
             cons' \in [Seqs -> ConsumerStates],
             \A t \in Seqs : t # s => cons'[t] = cons[t],
             cons[s] \notin {"acked", "termed"},
             cons'[s] \notin {"acked", "termed"},
             UNCHANGED <<stream, commits, lost>>
      PROVE  UNCHANGED <<stream, Stored, Settled, lost>>
  BY <1>4 DEF Stored, Settled
<1>5. ASSUME NEW s \in Seqs, Deliver(s) \/ AckExpire(s)
      PROVE  UNCHANGED <<stream, Stored, Settled, lost>>
  <2>1. /\ \A t \in Seqs : t # s => cons'[t] = cons[t]
        /\ cons[s] \notin {"acked", "termed"}
        /\ cons'[s] \notin {"acked", "termed"}
        /\ cons' \in [Seqs -> ConsumerStates]
    BY <1>5 DEF Deliver, AckExpire, TypeOK, ConsumerStates
  <2>2. UNCHANGED <<stream, commits, lost>>
    BY <1>5 DEF Deliver, AckExpire, database, history
  <2> QED BY <2>1, <2>2, <1>4
<1>6. ASSUME NEW s \in Seqs, s \in Published,
             s \in Stored \cup lost \/ ~WellFormed(s),
             cons' = cons \/ (\E o \in {"acked", "termed"} : Settle(s, o)),
             UNCHANGED <<stream, commits, lost>>
      PROVE  Ledger!Settle \/ UNCHANGED <<stream, Stored, Settled, lost>>
  <2>1. UNCHANGED <<stream, Stored, lost>>
    BY <1>6 DEF Stored
  <2>2. CASE Settled' = Settled
    BY <2>1, <2>2
  <2>3. CASE Settled' # Settled
    <3>1. PICK o \in {"acked", "termed"} : Settle(s, o)
      BY <1>6, <2>3 DEF Settled
    <3>2. \A t \in Seqs : \/ cons'[t] = cons[t]
                           \/ (t = s /\ cons'[s] = o
                                 /\ cons[s] \in {"pending", "redeliver"})
      BY <3>1 DEF Settle, TypeOK
    <3>3. Settled' = Settled \cup {s}
      BY <2>3, <3>2 DEF Settled
    <3> QED
      BY <1>6, <2>1, <3>3
      DEF Ledger!Settle, Ledger!Recordable, Published, WellFormed
  <2> QED BY <2>2, <2>3
<1>7. CASE TermMessage
  <2>1. Head(batch) \in Published /\ Head(batch) \in Seqs
    BY <1>7, RangeOfTail, RangeOfSeq DEF TermMessage, HeldIsPublished, TypeOK
  <2>2. ~WellFormed(Head(batch))
    BY <1>7 DEF TermMessage, CanParse, WellFormed
  <2>3. /\ UNCHANGED <<stream, commits, lost>>
        /\ cons' = cons \/ Settle(Head(batch), "termed")
    BY <1>7 DEF TermMessage, database
  <2> QED
    BY <1>1, <1>6, <2>1, <2>2, <2>3 DEF Ledger!LedgerNext
<1>8. CASE AckMessage
  <2>1. Head(toAck) \in Range(toAck) /\ Head(toAck) \in Seqs
    BY <1>8, RangeOfTail, RangeOfSeq DEF AckMessage, TypeOK
  <2>2. Head(toAck) \in Stored /\ Head(toAck) \in Published
    BY <1>8, <2>1
    DEF AckMessage, AckFollowsCommit, KeptIsWellFormed, WellFormed
  <2>3. /\ UNCHANGED <<stream, commits, lost>>
        /\ cons' = cons \/ Settle(Head(toAck), "acked")
    BY <1>8 DEF AckMessage, database
  <2> QED
    BY <1>1, <1>6, <2>1, <2>2, <2>3 DEF Ledger!LedgerNext
<1>9. CASE InsertBatch
  <2>1. Range(toAck) \subseteq Ledger!Recordable
    BY DEF KeptIsWellFormed, WellFormed, Published, Ledger!Recordable
  <2>2. NewRows(toAck) \in SUBSET (Ledger!Recordable \ Stored)
    BY <2>1 DEF NewRows
  <2>3. Range(commits') = Range(commits) \cup {NewRows(toAck)}
    <3>1. NewRows(toAck) \in SUBSET Seqs /\ commits \in Seq(SUBSET Seqs)
      BY RangeOfSeq DEF NewRows, TypeOK
    <3>2. commits' = Append(commits, NewRows(toAck))
      BY <1>9 DEF InsertBatch
    <3> QED BY <3>1, <3>2, RangeOfAppend
  <2>4. Stored' = Stored \cup NewRows(toAck)
    BY <2>3 DEF Stored
  <2>5. UNCHANGED <<stream, Settled, lost>>
    BY <1>9 DEF InsertBatch, jetstream, history, Settled
  <2>6. Ledger!Record
    BY <2>2, <2>4, <2>5 DEF Ledger!Record
  <2> QED BY <2>6 DEF Ledger!LedgerNext
<1>10. CASE PowerLoss
  <2>1. PICK k \in synced..Len(commits) : commits' = SubSeq(commits, 1, k)
    BY <1>10 DEF PowerLoss
  <2>2. /\ Len(commits) \in Nat /\ k \in 0..Len(commits)
        /\ 1 \in 1..Len(commits) + 1
    BY <2>1, LenProperties DEF TypeOK
  <2>3. Range(commits') \subseteq Range(commits)
    BY <2>1, <2>2, RangeOfSubSeq DEF TypeOK
  <2>4. Stored' \subseteq Stored
    BY <2>3 DEF Stored
  <2>5. /\ UNCHANGED <<stream,
                       Settled>> /\ lost' = (lost \cup Stored) \ Stored'
        /\ MaxPowerLosses > 0
    BY <1>10 DEF PowerLoss, jetstream, Settled, TypeOK, SinkAssumption
  <2>6. Ledger!Lose
    BY <2>4, <2>5 DEF Ledger!Lose
  <2> QED BY <2>6 DEF Ledger!LedgerNext
<1>11. CASE \/ DeleteInactive \/ Start \/ BeginFetch \/ LoopDone \/ FetchReturn
            \/ FetchTimeout \/ FetchError
  BY <1>1, <1>2, <1>11
  DEF DeleteInactive, Start, BeginFetch, LoopDone, FetchReturn, FetchTimeout,
      FetchError, jetstream, database, history
<1>12. CASE \/ KeepMessage \/ InsertNothing \/ InsertError \/ InsertCancelled
            \/ AckDone \/ Cancel \/ Crash \/ Checkpoint
  BY <1>1, <1>2, <1>12
  DEF KeepMessage, InsertNothing, InsertError, InsertCancelled, AckDone,
      Cancel, Crash, Checkpoint, jetstream, database, history
<1>13. CASE UNCHANGED vars
  BY <1>1, <1>2, <1>13 DEF vars, jetstream, database, history
<1> QED
  BY <1>1, <1>3, <1>5, <1>7, <1>8, <1>9, <1>10, <1>11, <1>12, <1>13
  DEF Next, Ledger!LedgerNext

(* The sink implements the ledger for every instance of its constants. *)
THEOREM SinkImplementsLedger == Spec => ImplementsLedger
<1>1. SinkAssumption BY SinkAssumption
<1>2. Init => Ledger!LedgerInit
  BY RangeOfEmpty DEF Init, Ledger!LedgerInit, Stored, Settled
<1>3. SinkInv /\ SinkInv' /\ [Next]_vars
        => [Ledger!LedgerNext]_(Ledger!ledgerVars)
  BY <1>1, StepRefines
<1> QED
  BY <1>2, <1>3, SinkInvariant, PTL
  DEF Spec, ImplementsLedger, Ledger!LedgerSpec
=============================================================================
