---------------------------- MODULE StartProofs -----------------------------
(***************************************************************************)
(* What the containers start from, for any values: the list of an agent's  *)
(* teams is what was written, what is scheduled or was validated is what   *)
(* the agents load, overrides change what they may, and an agent that runs *)
(* can do its work.                                                        *)
(***************************************************************************)
EXTENDS StartUp, SequenceFacts, FiniteSetTheorems

-----------------------------------------------------------------------------
(* The list of teams. *)

(* The teams that the first k parts name. *)
Named(k) == UNION {List!TeamsOf(input[i]) : i \in 1..k}

(* The parts left are those after the first k, which were well formed. *)
Consumed(k) ==
  /\ Len(parts) = Len(input) - k
  /\ \A i \in 1..Len(parts) : parts[i] = input[k + i]
  /\ \A i \in 1..k : List!WellFormed(input[i])

(* The result has the teams of the first k, and of a range as far as it is *)
(* read.                                                                   *)
ReadUpTo(k) ==
  /\ Consumed(k)
  /\ parsing \in {"part", "done"} => Range(result) = Named(k)
  /\ parsing = "range" =>
       /\ parts # <<>> /\ parts[1].kind = "range"
       /\ List!WellFormed(parts[1])
       /\ number >= parts[1].lo /\ number <= parts[1].hi + 1
       /\ Range(result) = Named(k) \cup parts[1].lo..(number - 1)
  /\ parsing = "done" => parts = <<>>

ListInv ==
  /\ List!TypeOK
  /\ \E k \in 0..Len(input) : ReadUpTo(k)
  /\ List!IsInjective(result)
  /\ parsing = "error" =>
       \/ Named(Len(input)) = {}
       \/ \E i \in 1..Len(input) : ~List!WellFormed(input[i])

LEMMA RangeIs == \A s : List!Range(s) = Range(s)
BY DEF List!Range, Range

LEMMA PartTypes ==
  ASSUME List!TeamListAssumption, NEW p \in List!Part
  PROVE  /\ p.kind \in {"blank", "bad", "range", "team"}
         /\ p.lo \in Nat /\ p.hi \in Nat
         /\ p.kind \in {"blank", "bad"} => p.lo = 0 /\ p.hi = 0
         /\ p.kind = "team" => p.lo = p.hi
         /\ p.kind = "blank" => List!TeamsOf(p) = {}
         /\ p.kind = "team" => List!TeamsOf(p) = {p.lo}
         /\ p.kind = "range" => List!TeamsOf(p) = p.lo..p.hi
BY DEF List!TeamListAssumption, List!Part, List!TeamsOf

LEMMA NamedNext ==
  ASSUME NEW k \in Nat
  PROVE  /\ Named(0) = {}
         /\ Named(k + 1) = Named(k) \cup List!TeamsOf(input[k + 1])
<1>1. 1..(k + 1) = 1..k \cup {k + 1} /\ 1..0 = {}
  OBVIOUS
<1>2. Named(0) = {}
  BY <1>1 DEF Named
<1>3. Named(k + 1) = Named(k) \cup List!TeamsOf(input[k + 1])
  BY <1>1 DEF Named
<1> QED
  BY <1>2, <1>3

LEMMA ConsumedStays ==
  ASSUME NEW k, Consumed(k), UNCHANGED <<input, parts>>
  PROVE  Consumed(k)' /\ Named(k)' = Named(k)
BY DEF Consumed, Named, List!WellFormed, List!IsTeam

LEMMA ListInitially ==
  ASSUME List!TeamListAssumption, List!Init
  PROVE  ListInv
<1>1. PICK j \in 0..MaxParts : input \in [1..j -> List!Part]
  BY DEF List!Init
<1>2. /\ input \in Seq(List!Part) /\ Len(input) \in Nat
      /\ parts = input /\ number = 0 /\ result = <<>> /\ parsing = "part"
  <2>1. j \in Nat
    BY DEF List!TeamListAssumption
  <2>2. input \in Seq(List!Part)
    BY <1>1, <2>1, SeqDef
  <2> QED
    BY <2>2, LenProperties DEF List!Init
<1>3. List!TypeOK
  <2>1. number \in 0..(MaxTeam + 1)
    BY <1>2 DEF List!TeamListAssumption
  <2>2. result \in Seq(0..MaxTeam)
    BY <1>2, EmptySeq
  <2> QED
    BY <1>2, <2>1, <2>2 DEF List!TypeOK
<1>4. Range(result) = {} /\ Len(result) = 0
  BY <1>2, RangeOfEmpty
<1>5. ReadUpTo(0)
  <2>1. Named(0) = {} /\ 1..0 = {}
    BY NamedNext
  <2>2. Len(parts) = Len(input) - 0
    BY <1>2
  <2>3. \A i \in 1..Len(parts) : parts[i] = input[0 + i]
    BY <1>2
  <2> QED
    BY <1>2, <1>4, <2>1, <2>2, <2>3 DEF ReadUpTo, Consumed
<1> QED
  BY <1>2, <1>3, <1>4, <1>5 DEF ListInv, List!IsInjective

(* A part is in hand while there are parts. *)
LEMMA InHand ==
  ASSUME List!TeamListAssumption, List!TypeOK, NEW k \in 0..Len(input),
         ReadUpTo(k), parts # <<>>
  PROVE  /\ k + 1 \in 1..Len(input) /\ parts[1] = input[k + 1]
         /\ Head(parts) = parts[1] /\ parts[1] \in List!Part
         /\ Tail(parts) \in Seq(List!Part)
         /\ Len(Tail(parts)) = Len(input) - (k + 1)
         /\ \A i \in 1..Len(Tail(parts)) : Tail(parts)[i] = input[k + 1 + i]
<1>1. /\ parts \in Seq(List!Part) /\ input \in Seq(List!Part)
      /\ Len(parts) \in Nat /\ Len(input) \in Nat
      /\ parts \in [1..Len(parts) -> List!Part]
  BY LenProperties DEF List!TypeOK
<1>2. Len(parts) # 0
  BY <1>1, EmptySeq
<1>3. /\ Tail(parts) \in Seq(List!Part) /\ Len(Tail(parts)) = Len(parts) - 1
      /\ \A i \in 1..Len(Tail(parts)) : Tail(parts)[i] = parts[i + 1]
  BY <1>1, HeadTailProperties
<1>4. k + 1 \in 1..Len(input) /\ parts[1] = input[k + 1]
  BY <1>1, <1>2 DEF ReadUpTo, Consumed
<1>5. Head(parts) = parts[1] /\ parts[1] \in List!Part
  BY <1>1, <1>2
<1>6. Len(Tail(parts)) = Len(input) - (k + 1)
  BY <1>1, <1>3 DEF ReadUpTo, Consumed
<1>7. ASSUME NEW i \in 1..Len(Tail(parts))
      PROVE  Tail(parts)[i] = input[k + 1 + i]
  <2>1. i + 1 \in 1..Len(parts) /\ k + (i + 1) = k + 1 + i
    BY <1>1, <1>3
  <2> QED
    BY <1>3, <2>1 DEF ReadUpTo, Consumed
<1> QED
  BY <1>3, <1>4, <1>5, <1>6, <1>7

(* A team is added once. *)
LEMMA AddsOnce ==
  ASSUME List!TypeOK, NEW t \in 0..MaxTeam, List!AddTeam(t),
         List!IsInjective(result)
  PROVE  /\ result' \in Seq(0..MaxTeam)
         /\ Range(result') = Range(result) \cup {t}
         /\ List!IsInjective(result')
<1>1. result \in Seq(0..MaxTeam)
  BY DEF List!TypeOK
<1>2. CASE t \in Range(result)
  BY <1>1, <1>2, RangeIs DEF List!AddTeam
<1>3. CASE t \notin Range(result)
  <2>1. result' = Append(result, t)
    BY <1>3, RangeIs DEF List!AddTeam
  <2>2. /\ result' \in Seq(0..MaxTeam) /\ Len(result') = Len(result) + 1
    BY <1>1, <2>1, AppendProperties
  <2>7. Range(result') = Range(result) \cup {t}
    <3> DEFINE S == 0..MaxTeam
    <3>1. result \in Seq(S) /\ t \in S
      BY <1>1
    <3> HIDE DEF S
    <3>2. Range(Append(result, t)) = Range(result) \cup {t}
      BY <3>1, RangeOfAppend
    <3> QED
      BY <2>1, <3>2
  <2>3. \A i \in 1..Len(result) :
          result'[i] = result[i] /\ result[i] \in Range(result)
    BY <1>1, <2>1, AppendProperties, RangeEquality
  <2>4. result'[Len(result) + 1] = t
    BY <1>1, <2>1, AppendProperties
  <2>5. /\ Len(result) \in Nat /\ DOMAIN result = 1..Len(result)
        /\ DOMAIN result' = 1..(Len(result) + 1)
    BY <1>1, <2>2, LenProperties
  <2>6. List!IsInjective(result')
    BY <1>3, <2>3, <2>4, <2>5 DEF List!IsInjective
  <2> QED
    BY <2>2, <2>6, <2>7
<1> QED
  BY <1>2, <1>3

LEMMA SkipAndTeam ==
  ASSUME List!TeamListAssumption, ListInv, List!SkipBlank \/ List!ReadTeam
  PROVE  ListInv'
<1>1. PICK k \in 0..Len(input) : ReadUpTo(k)
  BY DEF ListInv
<1>2. /\ parsing = "part" /\ parts # <<>> /\ input' = input
      /\ Head(parts).kind \in {"blank", "team"}
  BY DEF List!SkipBlank, List!ReadTeam, List!Read
<1>3. /\ List!TypeOK /\ input \in Seq(List!Part) /\ Len(input) \in Nat
      /\ List!IsInjective(result)
      /\ MaxTeam \in Nat
  BY LenProperties DEF ListInv, List!TypeOK, List!TeamListAssumption
<1> DEFINE p == input[k + 1]
<1>4. /\ k + 1 \in 1..Len(input) /\ Head(parts) = p /\ p \in List!Part
      /\ Tail(parts) \in Seq(List!Part)
      /\ Len(Tail(parts)) = Len(input) - (k + 1)
      /\ \A i \in 1..Len(Tail(parts)) : Tail(parts)[i] = input[k + 1 + i]
  BY <1>1, <1>2, <1>3, InHand
<1>5. /\ k \in Nat /\ Named(k + 1) = Named(k) \cup List!TeamsOf(p)
      /\ 1..(k + 1) = 1..k \cup {k + 1}
  BY <1>3, <1>4, NamedNext, SMTT(60)
<1> HIDE DEF p
<1>6. ASSUME List!WellFormed(p), parts' = Tail(parts),
             UNCHANGED <<number, parsing>>,
             result' \in Seq(0..MaxTeam),
             Range(result') = Range(result) \cup List!TeamsOf(p),
             List!IsInjective(result')
      PROVE  ListInv'
  <2>1. List!TypeOK'
    BY <1>2, <1>3, <1>4, <1>6 DEF List!TypeOK
  <2>2. ReadUpTo(k + 1)'
    <3>1. Range(result) = Named(k)
      BY <1>1, <1>2 DEF ReadUpTo, Consumed
    <3>2. Range(result') = Named(k + 1)
      BY <1>5, <1>6, <3>1
    <3>3. Named(k + 1)' = Named(k + 1)
      BY <1>2 DEF Named
    <3>4. \A i \in 1..(k + 1) : List!WellFormed(input[i])
      BY <1>1, <1>5, <1>6 DEF ReadUpTo, Consumed, p
    <3> QED
      BY <1>2, <1>4, <1>6, <3>2, <3>3, <3>4 DEF ReadUpTo, Consumed,
        List!WellFormed,
        List!IsTeam
  <2>3. k + 1 \in 0..Len(input')
    BY <1>2, <1>4, <1>3
  <2> QED
    BY <1>2, <1>6, <2>1, <2>2, <2>3 DEF ListInv
<1>7. CASE List!SkipBlank
  <2>1. p.kind = "blank"
    BY <1>4, <1>7 DEF List!SkipBlank, List!Read
  <2>2. List!WellFormed(p) /\ List!TeamsOf(p) = {}
    BY <1>3, <1>4, <2>1, PartTypes DEF List!WellFormed, List!IsTeam
  <2>3. parts' = Tail(parts) /\ UNCHANGED <<number, result, parsing>>
    BY <1>7 DEF List!SkipBlank
  <2> QED
    BY <1>3, <1>6, <2>2, <2>3 DEF List!TypeOK
<1>8. CASE List!ReadTeam /\ List!IsTeam(p.lo)
  <2>1. p.kind = "team"
    BY <1>4, <1>8 DEF List!ReadTeam, List!Read
  <2>2. /\ List!WellFormed(p) /\ List!TeamsOf(p) = {p.lo} /\ p.lo \in 0..MaxTeam
    BY <1>3, <1>4, <1>8, <2>1, PartTypes DEF List!WellFormed, List!IsTeam
  <2>3. /\ List!AddTeam(p.lo) /\ parts' = Tail(parts)
        /\ UNCHANGED <<number, parsing>>
    BY <1>4, <1>8 DEF List!ReadTeam
  <2> QED
    BY <1>3, <1>6, <2>2, <2>3, AddsOnce
<1>9. CASE List!ReadTeam /\ ~List!IsTeam(p.lo)
  <2>1. p.kind = "team" /\ parsing' = "error"
        /\ UNCHANGED <<parts, number, result>>
    BY <1>4, <1>9 DEF List!ReadTeam, List!Read, List!Fail
  <2>2. ~List!WellFormed(p)
    BY <1>4, <1>9, <2>1, PartTypes DEF List!WellFormed
  <2>3. ReadUpTo(k)'
    BY <1>1, <1>2, <2>1 DEF ReadUpTo, Consumed, Named, List!WellFormed,
      List!IsTeam
  <2>4. List!TypeOK'
    BY <1>2, <1>3, <2>1 DEF List!TypeOK
  <2>5. \E i \in 1..Len(input) : ~List!WellFormed(input[i])'
    BY <1>2, <1>4, <2>2 DEF List!WellFormed, List!IsTeam, p
  <2> QED
    BY <1>2, <1>3, <2>1, <2>3, <2>4, <2>5 DEF ListInv
<1> QED
  BY <1>7, <1>8, <1>9

(* A range that begins, a part that is refused, and the end. *)
LEMMA BeginAndEnd ==
  ASSUME List!TeamListAssumption, ListInv,
         List!BeginRange \/ List!ReadBad \/ List!Finish
  PROVE  ListInv'
<1>1. PICK k \in 0..Len(input) : ReadUpTo(k)
  BY DEF ListInv
<1>2. /\ parsing = "part" /\ UNCHANGED <<input, parts, result>>
  BY DEF List!BeginRange, List!ReadBad, List!Finish, List!Read, List!Fail
<1>3. /\ List!TypeOK /\ input \in Seq(List!Part) /\ Len(input) \in Nat
      /\ List!IsInjective(result) /\ MaxTeam \in Nat
      /\ parts \in Seq(List!Part) /\ Len(parts) \in Nat
  BY LenProperties DEF ListInv, List!TypeOK, List!TeamListAssumption
<1>4. ASSUME number' \in 0..(MaxTeam + 1),
             parsing' \in {"part", "range", "done", "error"}
      PROVE  List!TypeOK'
  BY <1>2, <1>3, <1>4 DEF List!TypeOK
<1>5. ASSUME number' = number, parsing' = "error",
             \/ Named(Len(input)) = {}
             \/ \E i \in 1..Len(input) : ~List!WellFormed(input[i])
      PROVE  ListInv'
  <2>1. ReadUpTo(k)'
    BY <1>1, <1>2, <1>5 DEF ReadUpTo, Consumed, Named, List!WellFormed,
      List!IsTeam
  <2>2. \/ Named(Len(input))' = {}
        \/ \E i \in 1..Len(input) : ~List!WellFormed(input[i])'
    BY <1>2, <1>5 DEF Named, List!WellFormed, List!IsTeam
  <2>3. List!TypeOK'
    BY <1>3, <1>4, <1>5 DEF List!TypeOK
  <2> QED
    BY <1>2, <1>3, <2>1, <2>2, <2>3 DEF ListInv
<1>6. ASSUME List!BeginRange \/ List!ReadBad PROVE parts # <<>>
  BY <1>6 DEF List!BeginRange, List!ReadBad, List!Read
<1> DEFINE p == input[k + 1]
<1>7. ASSUME parts # <<>>
      PROVE  /\ k + 1 \in 1..Len(input) /\ Head(parts) = p /\ parts[1] = p
             /\ p \in List!Part
  BY <1>1, <1>3, <1>7, InHand
<1> HIDE DEF p
<1>8. CASE List!ReadBad
  <2>1. p.kind = "bad" /\ parsing' = "error" /\ number' = number
    BY <1>6, <1>7, <1>8 DEF List!ReadBad, List!Read, List!Fail
  <2> QED
    BY <1>5, <1>6, <1>7, <1>8, <2>1 DEF List!WellFormed, p
<1>9. CASE List!BeginRange
  <2>1. /\ k + 1 \in 1..Len(input) /\ Head(parts) = p /\ parts[1] = p
        /\ p \in List!Part /\ parts # <<>>
    BY <1>6, <1>7, <1>9
  <2>2. p.kind = "range" /\ p.lo \in Nat /\ p.hi \in Nat
    BY <1>9, <2>1, PartTypes DEF List!BeginRange, List!Read
  <2>3. CASE List!IsTeam(p.lo) /\ List!IsTeam(p.hi) /\ p.lo <= p.hi
    <3>1. number' = p.lo /\ parsing' = "range"
      BY <1>9, <2>1, <2>3 DEF List!BeginRange
    <3>2. p.lo <= MaxTeam /\ p.hi <= MaxTeam
      BY <2>3 DEF List!IsTeam
    <3>3. List!TypeOK'
      BY <1>3, <1>4, <2>2, <3>1, <3>2
    <3>4. List!WellFormed(p)
      BY <2>2, <2>3 DEF List!WellFormed
    <3>5. Range(result) = Named(k) \cup p.lo..(p.lo - 1)
      BY <1>1, <1>2, <2>2 DEF ReadUpTo, Consumed
    <3>6. p.lo <= p.hi + 1
      BY <2>2, <2>3
    <3>7. Consumed(k)' /\ Named(k)' = Named(k)
      BY <1>1, <1>2, ConsumedStays DEF ReadUpTo
    <3>8. List!WellFormed(p)' /\ p' = p
      BY <1>2, <3>4 DEF List!WellFormed, List!IsTeam, p
    <3>9. ReadUpTo(k)'
      BY <1>2, <2>1, <2>2, <3>1, <3>5, <3>6, <3>7, <3>8 DEF ReadUpTo
    <3> QED
      BY <1>2, <1>3, <3>1, <3>3, <3>9 DEF ListInv
  <2>4. CASE ~(List!IsTeam(p.lo) /\ List!IsTeam(p.hi) /\ p.lo <= p.hi)
    <3>1. number' = number /\ parsing' = "error"
      BY <1>9, <2>1, <2>4 DEF List!BeginRange, List!Fail
    <3>2. ~List!WellFormed(p)
      BY <1>3, <2>2, <2>4 DEF List!WellFormed, List!IsTeam
    <3> QED
      BY <1>5, <2>1, <3>1, <3>2 DEF p
  <2> QED
    BY <2>3, <2>4
<1>10. CASE List!Finish
  <2>1. /\ parts = <<>> /\ number' = number
        /\ parsing' = IF result = <<>> THEN "error" ELSE "done"
    BY <1>10 DEF List!Finish
  <2>2. k = Len(input)
    BY <1>1, <1>3, <2>1 DEF ReadUpTo, Consumed
  <2>3. CASE result = <<>>
    <3>1. Named(Len(input)) = {}
      BY <1>1, <1>2, <2>2, <2>3, RangeOfEmpty DEF ReadUpTo, Consumed
    <3> QED
      BY <1>5, <2>1, <2>3, <3>1
  <2>4. CASE result # <<>>
    <3>1. List!TypeOK' /\ parsing' = "done"
      BY <1>3, <1>4, <2>1, <2>4 DEF List!TypeOK
    <3>2. ReadUpTo(k)'
      BY <1>1, <1>2, <2>1, <3>1
      DEF ReadUpTo, Consumed, Named, List!WellFormed, List!IsTeam
    <3> QED
      BY <1>2, <1>3, <3>1, <3>2 DEF ListInv
  <2> QED
    BY <2>3, <2>4
<1> QED
  BY <1>8, <1>9, <1>10

LEMMA RangeSteps ==
  ASSUME List!TeamListAssumption, ListInv,
         List!NextInRange \/ List!EndRange
  PROVE  ListInv'
<1>1. PICK k \in 0..Len(input) : ReadUpTo(k)
  BY DEF ListInv
<1>2. parsing = "range" /\ input' = input /\ parts # <<>>
  BY <1>1 DEF List!NextInRange, List!EndRange, ReadUpTo
<1>3. /\ List!TypeOK /\ input \in Seq(List!Part) /\ Len(input) \in Nat
      /\ List!IsInjective(result) /\ MaxTeam \in Nat /\ number \in Nat
      /\ result \in Seq(0..MaxTeam)
  BY LenProperties DEF ListInv, List!TypeOK, List!TeamListAssumption
<1> DEFINE p == input[k + 1]
<1>4. /\ k + 1 \in 1..Len(input) /\ Head(parts) = p /\ parts[1] = p
      /\ p \in List!Part /\ Tail(parts) \in Seq(List!Part)
      /\ Len(Tail(parts)) = Len(input) - (k + 1)
      /\ \A i \in 1..Len(Tail(parts)) : Tail(parts)[i] = input[k + 1 + i]
  BY <1>1, <1>2, <1>3, InHand
<1>5. /\ k \in Nat /\ Named(k + 1) = Named(k) \cup List!TeamsOf(p)
      /\ 1..(k + 1) = 1..k \cup {k + 1}
  <2>1. k \in Nat
    BY <1>3
  <2> QED
    BY <2>1, NamedNext
<1> HIDE DEF p
<1>6. /\ p.kind = "range" /\ List!WellFormed(p) /\ p.lo \in Nat /\ p.hi \in Nat
      /\ number >= p.lo /\ number <= p.hi + 1 /\ List!TeamsOf(p) = p.lo..p.hi
      /\ Range(result) = Named(k) \cup p.lo..(number - 1)
      /\ p.hi <= MaxTeam
  BY <1>1, <1>2, <1>4, PartTypes DEF ReadUpTo, Consumed, List!WellFormed,
    List!IsTeam
<1>7. CASE List!NextInRange
  <2>1. /\ number <= p.hi /\ List!AddTeam(number) /\ number' = number + 1
        /\ UNCHANGED <<parts, parsing>>
    BY <1>4, <1>7 DEF List!NextInRange
  <2>2. number \in 0..MaxTeam /\ number' \in 0..(MaxTeam + 1)
    BY <1>3, <1>6, <2>1
  <2>3. /\ result' \in Seq(0..MaxTeam) /\ List!IsInjective(result')
        /\ Range(result') = Range(result) \cup {number}
    BY <1>3, <2>1, <2>2, AddsOnce
  <2>4. List!TypeOK'
    BY <1>2, <1>3, <2>1, <2>2, <2>3 DEF List!TypeOK
  <2>5. p.lo..(number + 1 - 1) = p.lo..(number - 1) \cup {number}
    BY <1>3, <1>6
  <2>6. Range(result') = Named(k) \cup p.lo..(number' - 1)
    BY <1>6, <2>1, <2>3, <2>5
  <2>7. number' >= p.lo /\ number' <= p.hi + 1
    BY <1>3, <1>6, <2>1
  <2>8. Consumed(k)' /\ Named(k)' = Named(k)
    BY <1>1, <1>2, <2>1, ConsumedStays DEF ReadUpTo
  <2>9. List!WellFormed(p)' /\ p' = p
    BY <1>2, <1>6 DEF List!WellFormed, List!IsTeam, p
  <2>10. ReadUpTo(k)'
    BY <1>2, <1>4, <1>6, <2>1, <2>6, <2>7, <2>8, <2>9 DEF ReadUpTo
  <2> QED
    BY <1>2, <1>3, <2>1, <2>3, <2>4, <2>10 DEF ListInv
<1>8. CASE List!EndRange
  <2>1. /\ number > p.hi /\ parts' = Tail(parts) /\ parsing' = "part"
        /\ number' = 0 /\ result' = result
    BY <1>4, <1>8 DEF List!EndRange
  <2>2. List!TypeOK'
    BY <1>2, <1>3, <1>4, <2>1 DEF List!TypeOK
  <2>3. number - 1 = p.hi
    BY <1>3, <1>6, <2>1
  <2>4. Range(result') = Named(k + 1)
    BY <1>5, <1>6, <2>1, <2>3
  <2>5. Named(k + 1)' = Named(k + 1)
    BY <1>2 DEF Named
  <2>6. \A i \in 1..(k + 1) : List!WellFormed(input[i])
    BY <1>1, <1>5, <1>6 DEF ReadUpTo, Consumed, p
  <2>7. ReadUpTo(k + 1)'
    BY <1>2, <1>4, <2>1, <2>4, <2>5, <2>6
    DEF ReadUpTo, Consumed, List!WellFormed, List!IsTeam
  <2>8. k + 1 \in 0..Len(input')
    BY <1>2, <1>3, <1>4
  <2> QED
    BY <1>2, <1>3, <2>1, <2>2, <2>7, <2>8 DEF ListInv
<1> QED
  BY <1>7, <1>8

LEMMA ListKeeps ==
  ASSUME List!TeamListAssumption, ListInv, [List!ParseStep]_List!vars
  PROVE  ListInv'
<1>1. CASE UNCHANGED List!vars
  <2>1. UNCHANGED <<input, parts, number, result, parsing>>
    BY <1>1 DEF List!vars
  <2>2. PICK k \in 0..Len(input) : ReadUpTo(k)
    BY DEF ListInv
  <2>3. Consumed(k)' /\ Named(k)' = Named(k)
    BY <2>1, <2>2, ConsumedStays DEF ReadUpTo
  <2>4. ReadUpTo(k)'
    BY <2>1, <2>2, <2>3 DEF ReadUpTo, List!WellFormed, List!IsTeam
  <2>5. List!TypeOK'
    BY <2>1 DEF ListInv, List!TypeOK
  <2>6. parsing = "error" =>
          \/ Named(Len(input))' = {}
          \/ \E i \in 1..Len(input) : ~List!WellFormed(input[i])'
    BY <2>1 DEF ListInv, Named, List!WellFormed, List!IsTeam
  <2> QED
    BY <2>1, <2>4, <2>5, <2>6 DEF ListInv
<1>2. CASE List!ParseStep
  BY <1>2, SkipAndTeam, BeginAndEnd, RangeSteps DEF List!ParseStep
<1> QED
  BY <1>1, <1>2

LEMMA ListTells ==
  ASSUME ListInv
  PROVE  List!TypeOK /\ List!ListIsExact
<1>1. PICK k \in 0..Len(input) : ReadUpTo(k)
  BY DEF ListInv
<1>2. /\ input \in Seq(List!Part) /\ Len(input) \in Nat
      /\ List!Range(input) = {input[i] : i \in 1..Len(input)}
  BY LenProperties, RangeEquality, RangeIs DEF ListInv, List!TypeOK
<1>3. UNION {List!TeamsOf(p) : p \in List!Range(input)} = Named(Len(input))
  BY <1>2 DEF Named
<1>4. parsing = "done" => /\ \A p \in List!Range(input) : List!WellFormed(p)
                          /\ List!Range(result) = Named(Len(input))
  <2> SUFFICES ASSUME parsing = "done"
               PROVE  /\ \A p \in List!Range(input) : List!WellFormed(p)
                      /\ List!Range(result) = Named(Len(input))
    OBVIOUS
  <2>1. k = Len(input)
    BY <1>1, <1>2 DEF ReadUpTo, Consumed
  <2>2. List!Range(result) = Named(Len(input))
    BY <1>1, <2>1, RangeIs DEF ReadUpTo, Consumed
  <2>3. \A p \in List!Range(input) : List!WellFormed(p)
    BY <1>1, <1>2, <2>1 DEF ReadUpTo, Consumed
  <2> QED
    BY <2>2, <2>3
<1>5. parsing = "error" => \/ Named(Len(input)) = {}
                           \/ \E p \in List!Range(input) : ~List!WellFormed(p)
  BY <1>2 DEF ListInv
<1> QED
  BY <1>3, <1>4, <1>5 DEF ListInv, List!ListIsExact

(* Whatever is written after --teams: the agent has exactly the teams that *)
(* are named, each once, or ParseTeams refuses the argument for a reason.  *)
THEOREM ListIsAlwaysExact == Spec => []ListIsExact
<1>1. Init => (part = "list" => ListInv)
  BY StartAssumption, ListInitially DEF Init, StartAssumption
<1>2. (part = "list" => ListInv) /\ [Next]_vars => (part = "list" => ListInv)'
  <2> SUFFICES ASSUME part = "list" => ListInv, [Next]_vars, part' = "list"
               PROVE  ListInv'
    OBVIOUS
  <2>1. part = "list" /\ [List!ParseStep]_List!vars
    BY DEF Next, StartStep, ListStep, IntakeStep, FitStep, StartUnchanged,
      vars, listVars, List!vars
  <2> QED
    BY <2>1, StartAssumption, ListKeeps DEF StartAssumption
<1>3. (part = "list" => ListInv) => ListIsExact
  BY ListTells DEF ListIsExact
<1> QED
  BY <1>1, <1>2, <1>3, PTL DEF Spec

-----------------------------------------------------------------------------
(* The checks on their way. *)

Write == [name : Names, file : Files \cup {None}]

Decodable(r) == log[r].file # None /\ Intake!UnmarshalJSON(log[r].file)
Deletes(d, name) == log[d].name = name /\ log[d].file = None

(* A job is of a revision the server has read and could decode; since then *)
(* it has read no deletion of its name.                                    *)
JobFits(j) ==
  /\ j.name \in OneToken
  /\ j.rev \in 1..cursor["server"]
  /\ log[j.rev].name = j.name /\ Decodable(j.rev)
  /\ \A d \in (j.rev + 1)..cursor["server"] : ~Deletes(d, j.name)

(* The agent has loaded a revision of the name, and one not older than any *)
(* that it has read and could decode, unless a deletion came after that.   *)
CacheFits(name) ==
  /\ checks[name] # 0 =>
       checks[name] <= cursor["agent"] /\ log[checks[name]].name = name
  /\ \A r \in 1..cursor["agent"] :
       name \in OneToken /\ log[r].name = name /\ Decodable(r) =>
         \/ checks[name] >= r
         \/ \E d \in (r + 1)..cursor["agent"] : Deletes(d, name)

(* A verdict is about a revision of its name. *)
VerdictFits ==
  verdict # None =>
    /\ log[verdict.rev].name = verdict.name
    /\ log[verdict.rev].file # None
    /\ verdict.passed = Intake!Validate(log[verdict.rev].file)

IntakeInv ==
  /\ Intake!TypeOK /\ log \in Seq(Write)
  /\ \A j \in jobs : JobFits(j)
  /\ \A name \in Names : CacheFits(name)
  /\ VerdictFits

LEMMA IntakeTypes ==
  ASSUME IntakeInv
  PROVE  /\ Len(log) \in Nat /\ DOMAIN log = 1..Len(log)
         /\ \A r \in 1..Len(log) : log[r] \in Write
         /\ cursor["server"] \in 0..Len(log) /\ cursor["agent"] \in 0..Len(log)
         /\ \A j \in jobs : j.rev \in 1..Len(log) /\ j.name \in Names
         /\ \A name \in Names : checks[name] \in 0..Len(log)
         /\ verdict # None => verdict.rev \in 1..Len(log)
                              /\ verdict.name \in Names
<1>1. Len(log) \in Nat /\ DOMAIN log = 1..Len(log)
      /\ \A r \in 1..Len(log) : log[r] \in Write
  BY LenProperties DEF IntakeInv
<1> QED
  BY <1>1 DEF IntakeInv, Intake!TypeOK, Intake!Readers

LEMMA IntakeInitially ==
  ASSUME Intake!IntakeAssumption, Intake!Init
  PROVE  IntakeInv
<1>1. log = <<>> /\ Len(log) = 0 /\ log \in Seq(Write) /\ 1..0 = {}
  BY EmptySeq DEF Intake!Init
<1>2. Intake!TypeOK
  BY <1>1 DEF Intake!Init, Intake!TypeOK
<1>3. \A name \in Names : CacheFits(name)
  BY <1>1 DEF Intake!Init, CacheFits, Intake!Readers
<1>4. VerdictFits /\ \A j \in jobs : JobFits(j)
  BY DEF Intake!Init, VerdictFits
<1> QED
  BY <1>1, <1>2, <1>3, <1>4 DEF IntakeInv

(* The last write of a name. *)
LEMMA LastWriteIs ==
  ASSUME IntakeInv, NEW name, NEW n \in 0..Len(log)
  PROVE  /\ Intake!LastWrite(name, n) \in 0..n
         /\ Intake!LastWrite(name, n) # 0 =>
              log[Intake!LastWrite(name, n)].name = name
         /\ \A q \in 1..n :
              log[q].name = name => q <= Intake!LastWrite(name, n)
<1> DEFINE S == {0} \cup {r \in 1..n : log[r].name = name}
<1>1. n \in Nat /\ S \in SUBSET (0..n) /\ S # {}
  BY IntakeTypes
<1>2. PICK m \in S : \A y \in S : y <= m
  BY <1>1, LargestExists
<1>3. \A x \in S : (\A y \in S : x >= y) => x = m
  BY <1>1, <1>2
<1>4. \A y \in S : m >= y
  BY <1>1, <1>2
<1>5. (CHOOSE x \in S : \A y \in S : x >= y) = m
  BY <1>3, <1>4
<1>6. Intake!LastWrite(name, n) = m
  BY <1>5 DEF Intake!LastWrite, Intake!Max
<1> QED
  BY <1>1, <1>2, <1>6

(* A write leaves what was written before. *)
LEMMA WriteKeeps ==
  ASSUME Intake!IntakeAssumption, IntakeInv, NEW w \in Write,
         w.file \in {f \in Files : f.json} \cup {None},
         log' = Append(log, w), UNCHANGED <<cursor, jobs, checks, verdict>>
  PROVE  IntakeInv'
<1> DEFINE n == Len(log)
<1>1. n \in Nat /\ log \in Seq(Write) /\ Intake!TypeOK
  BY IntakeTypes DEF IntakeInv
<1>2. /\ log' \in Seq(Write) /\ Len(log') = n + 1
      /\ \A r \in 1..n : log'[r] = log[r]
      /\ log'[n + 1] = w
  BY <1>1, AppendProperties
<1>3. /\ cursor["server"] \in 0..n /\ cursor["agent"] \in 0..n
      /\ \A j \in jobs : j.rev \in 1..n /\ j.name \in Names
      /\ \A name \in Names : checks[name] \in 0..n
      /\ verdict # None => verdict.rev \in 1..n
  BY IntakeTypes
<1>4. Intake!TypeOK'
  <2>1. 0..n \subseteq 0..(n + 1) /\ 1..n \subseteq 1..(n + 1)
    BY <1>1
  <2>2. \A r \in 1..(n + 1) :
          /\ log'[r].name \in Names
          /\ log'[r].file \in {f \in Files : f.json} \cup {None}
    <3> TAKE r \in 1..(n + 1)
    <3>1. r \in 1..n \/ r = n + 1
      BY <1>1
    <3> QED
      BY <1>1, <1>2, <3>1 DEF Intake!TypeOK, Write
  <2> QED
    BY <1>1, <1>2, <2>1, <2>2 DEF Intake!TypeOK
<1> HIDE DEF n
<1>5. \A r \in 1..n : Decodable(r)' = Decodable(r)
  BY <1>2 DEF Decodable, Intake!UnmarshalJSON, Intake!FieldsFit,
    Intake!KnownDefinition
<1>6. \A r \in 1..n : \A name : Deletes(r, name)' = Deletes(r, name)
  BY <1>2 DEF Deletes
<1>7. ASSUME NEW j \in jobs PROVE JobFits(j)'
  <2>1. JobFits(j)
    BY DEF IntakeInv
  <2>2. /\ j.rev \in 1..n
        /\ \A d \in (j.rev + 1)..cursor["server"] : d \in 1..n
    BY <1>1, <1>3
  <2> QED
    BY <1>2, <1>5, <1>6, <2>1, <2>2 DEF JobFits
<1>8. ASSUME NEW name \in Names PROVE CacheFits(name)'
  <2>1. CacheFits(name)
    BY DEF IntakeInv
  <2>2. /\ \A r \in 1..cursor["agent"] :
             /\ r \in 1..n
             /\ \A d \in (r + 1)..cursor["agent"] : d \in 1..n
        /\ checks[name] # 0 => checks[name] \in 1..n
    BY <1>1, <1>3
  <2> QED
    BY <1>2, <1>5, <1>6, <2>1, <2>2 DEF CacheFits
<1>9. VerdictFits'
  BY <1>2, <1>3 DEF IntakeInv, VerdictFits, Intake!Validate, Intake!FieldsFit,
    Intake!KnownDefinition
<1> QED
  BY <1>2, <1>4, <1>7, <1>8, <1>9 DEF IntakeInv

(* What a reader receives is the next write to a name that it watches. *)
LEMMA ReceivesNext ==
  ASSUME Intake!IntakeAssumption, IntakeInv, NEW reader \in {"server", "agent"},
         NEW r, Intake!Receives(reader, r)
  PROVE  /\ r \in 1..Len(log) /\ r > cursor[reader]
         /\ cursor[reader] \in 0..Len(log)
         /\ log[r].name \in OneToken /\ log[r].name \in Names
         /\ \A k \in (cursor[reader] + 1)..(r - 1) : log[k].name \notin OneToken
<1>1. cursor[reader] \in 0..Len(log) /\ Len(log) \in Nat
  BY IntakeTypes
<1>2. r \in 1..Len(log) /\ r > cursor[reader]
  BY <1>1 DEF Intake!Receives
<1> QED
  BY <1>1, <1>2 DEF Intake!Receives, Intake!Watched, Intake!IntakeAssumption

(* The server reads a put or a deletion. *)
LEMMA ScheduleKeeps ==
  ASSUME Intake!IntakeAssumption, IntakeInv, NEW r \in 1..Len(log),
         Intake!SchedulePut(r) \/ Intake!ScheduleRemove(r)
  PROVE  IntakeInv'
<1> DEFINE c == cursor["server"]
<1>1. /\ r > c /\ c \in 0..Len(log) /\ log[r].name \in OneToken
      /\ log[r].name \in Names /\ Len(log) \in Nat
      /\ \A k \in (c + 1)..(r - 1) : log[k].name \notin OneToken
  BY ReceivesNext, IntakeTypes DEF Intake!SchedulePut, Intake!ScheduleRemove
<1>2. /\ cursor' = [cursor EXCEPT !["server"] = r]
      /\ UNCHANGED <<log, checks, verdict>>
  BY DEF Intake!SchedulePut, Intake!ScheduleRemove, Intake!Advance
<1>3. Intake!TypeOK
  BY DEF IntakeInv
<1>4. /\ cursor' \in [Intake!Readers -> 0..Len(log)]
      /\ cursor'["server"] = r /\ cursor'["agent"] = cursor["agent"]
  BY <1>1, <1>2, <1>3 DEF Intake!TypeOK, Intake!Readers
<1>5. /\ \A name \in Names : CacheFits(name)'
      /\ VerdictFits'
  <2>1. \A name \in Names : CacheFits(name)'
    BY <1>2, <1>4 DEF IntakeInv, CacheFits, Decodable, Deletes,
      Intake!UnmarshalJSON, Intake!FieldsFit, Intake!KnownDefinition
  <2>2. VerdictFits'
    BY <1>2 DEF IntakeInv, VerdictFits, Intake!Validate, Intake!FieldsFit,
      Intake!KnownDefinition
  <2> QED
    BY <2>1, <2>2
<1>6. ASSUME jobs' \subseteq [rev : 1..Len(log), name : Names],
             \A j \in jobs' : JobFits(j)'
      PROVE  IntakeInv'
  BY <1>2, <1>3, <1>4, <1>5, <1>6 DEF IntakeInv, Intake!TypeOK
<1>7. \A q : Decodable(q)' = Decodable(q)
  BY <1>2 DEF Decodable, Intake!UnmarshalJSON, Intake!FieldsFit,
    Intake!KnownDefinition
<1> HIDE DEF c
(* A job that stays was not deleted by what has been read meanwhile. *)
<1>8. ASSUME NEW j \in jobs, ~Deletes(r, j.name) PROVE JobFits(j)'
  <2>1. JobFits(j) /\ j.rev \in 1..Len(log)
    BY IntakeTypes DEF IntakeInv
  <2>2. j.rev \in 1..r /\ j.name \in OneToken /\ j.rev \in 1..c
    BY <1>1, <2>1 DEF JobFits, c
  <2>3. ASSUME NEW d \in (j.rev + 1)..r PROVE ~Deletes(d, j.name)
    <3>1. d \in (j.rev + 1)..c \/ d \in (c + 1)..(r - 1) \/ d = r
      BY <1>1, <2>2
    <3>2. CASE d \in (j.rev + 1)..c
      BY <2>1, <3>2 DEF JobFits, c
    <3>3. CASE d \in (c + 1)..(r - 1)
      BY <1>1, <2>2, <3>3 DEF Deletes
    <3> QED
      BY <1>8, <3>1, <3>2, <3>3
  <2> QED
    BY <1>2, <1>4, <1>7, <2>1, <2>2, <2>3 DEF JobFits, Deletes
<1>9. CASE Intake!SchedulePut(r)
  <2> DEFINE job == [rev |-> r, name |-> log[r].name]
  <2>1. /\ log[r].file # None
        /\ \/ jobs' = jobs
           \/ jobs' = jobs \cup {job} /\ Intake!UnmarshalJSON(log[r].file)
    BY <1>9 DEF Intake!SchedulePut
  <2>2. \A j \in jobs : JobFits(j)'
    BY <1>8, <2>1 DEF Deletes
  <2>3. job \in [rev : 1..Len(log), name : Names]
    BY <1>1
  <2>4. ASSUME Intake!UnmarshalJSON(log[r].file) PROVE JobFits(job)'
    <3>1. job.rev = r /\ job.name = log[r].name /\ job' = job
      BY <1>2
    <3> HIDE DEF job
    <3>2. r \in 1..r /\ (r + 1)..r = {}
      BY <1>1
    <3>3. Decodable(r)'
      BY <1>7, <2>1, <2>4 DEF Decodable
    <3>4. r \in 1..cursor'["server"]
          /\ (r + 1)..cursor'["server"] = {}
      BY <1>4, <3>2
    <3>5. log'[r].name = log[r].name
      BY <1>2
    <3> QED
      BY <1>1, <3>1, <3>3, <3>4, <3>5 DEF JobFits
  <2> HIDE DEF job
  <2>5. CASE jobs' = jobs
    BY <1>3, <1>6, <2>2, <2>5 DEF Intake!TypeOK
  <2>6. CASE jobs' = jobs \cup {job} /\ Intake!UnmarshalJSON(log[r].file)
    <3>1. \A j \in jobs' : j \in jobs \/ j = job
      BY <2>6
    <3>2. jobs' \subseteq [rev : 1..Len(log), name : Names]
      BY <1>3, <2>3, <3>1 DEF Intake!TypeOK
    <3>3. JobFits(job)'
      BY <2>4, <2>6
    <3>4. \A j \in jobs' : JobFits(j)'
      <4> TAKE j \in jobs'
      <4>1. CASE j \in jobs
        BY <2>2, <4>1
      <4>2. CASE j = job
        <5>1. job' = job
          BY <1>2 DEF job
        <5> QED
          BY <3>3, <4>2, <5>1 DEF JobFits
      <4> QED
        BY <3>1, <4>1, <4>2
    <3> QED
      BY <1>6, <3>2, <3>4
  <2> QED
    BY <2>1, <2>5, <2>6
<1>10. CASE Intake!ScheduleRemove(r)
  <2>1. jobs' = {j \in jobs : j.name # log[r].name}
    BY <1>10 DEF Intake!ScheduleRemove
  <2>2. \A j \in jobs' : j \in jobs /\ ~Deletes(r, j.name)
    BY <2>1 DEF Deletes
  <2> QED
    BY <1>3, <1>6, <1>8, <2>2 DEF Intake!TypeOK
<1> QED
  BY <1>9, <1>10

(* The agent reads a put or a deletion. *)
LEMMA LoadKeeps ==
  ASSUME Intake!IntakeAssumption, IntakeInv, NEW r \in 1..Len(log),
         Intake!LoadPut(r) \/ Intake!LoadRemove(r)
  PROVE  IntakeInv'
<1> DEFINE c == cursor["agent"]
           name == log[r].name
<1>1. /\ r > c /\ c \in 0..Len(log) /\ name \in OneToken
      /\ name \in Names /\ Len(log) \in Nat
      /\ \A k \in (c + 1)..(r - 1) : log[k].name \notin OneToken
  BY ReceivesNext, IntakeTypes DEF Intake!LoadPut, Intake!LoadRemove
<1>2. /\ cursor' = [cursor EXCEPT !["agent"] = r]
      /\ UNCHANGED <<log, jobs, verdict>>
  BY DEF Intake!LoadPut, Intake!LoadRemove, Intake!Advance
<1>3. Intake!TypeOK /\ checks \in [Names -> 0..Len(log)]
  BY DEF IntakeInv, Intake!TypeOK
<1>4. /\ cursor' \in [Intake!Readers -> 0..Len(log)]
      /\ cursor'["agent"] = r /\ cursor'["server"] = cursor["server"]
  BY <1>1, <1>2, <1>3 DEF Intake!TypeOK, Intake!Readers
<1>5. /\ \A j \in jobs : JobFits(j)'
      /\ VerdictFits'
  <2>1. \A j \in jobs : JobFits(j)'
    BY <1>2, <1>4 DEF IntakeInv, JobFits, Decodable, Deletes,
      Intake!UnmarshalJSON, Intake!FieldsFit, Intake!KnownDefinition
  <2>2. VerdictFits'
    BY <1>2 DEF IntakeInv, VerdictFits, Intake!Validate, Intake!FieldsFit,
      Intake!KnownDefinition
  <2> QED
    BY <2>1, <2>2
<1>6. \A q : Decodable(q)' = Decodable(q)
  BY <1>2 DEF Decodable, Intake!UnmarshalJSON, Intake!FieldsFit,
    Intake!KnownDefinition
<1>7. ASSUME checks' \in [Names -> 0..Len(log)],
             \A n \in Names : CacheFits(n)'
      PROVE  IntakeInv'
  BY <1>2, <1>3, <1>4, <1>5, <1>7 DEF IntakeInv, Intake!TypeOK
<1> HIDE DEF c, name
(* The entry of a name after the agent has read r. *)
<1>8. ASSUME NEW n \in Names,
             \/ checks'[n] = checks[n]
             \/ n = name /\ checks'[n] = r
             \/ n = name /\ checks'[n] = 0 /\ Deletes(r, n),
             n = name /\ Decodable(r) => checks'[n] = r
      PROVE  CacheFits(n)'
  <2>1. CacheFits(n) /\ checks[n] \in 0..Len(log)
    BY IntakeTypes DEF IntakeInv
  <2>2. checks'[n] # 0 => checks'[n] <= r /\ log[checks'[n]].name = n
    BY <1>1, <1>8, <2>1 DEF CacheFits, c, name
  <2>3. ASSUME NEW q \in 1..r, n \in OneToken, log[q].name = n, Decodable(q)
        PROVE  checks'[n] >= q \/ \E d \in (q + 1)..r : Deletes(d, n)
    <3>1. q \in 1..c \/ q \in (c + 1)..(r - 1) \/ q = r
      BY <1>1
    <3>2. CASE q \in 1..c
      <4>1. checks[n] >= q \/ \E d \in (q + 1)..c : Deletes(d, n)
        BY <2>1, <2>3, <3>2 DEF CacheFits, c
      <4>2. (q + 1)..c \subseteq (q + 1)..r /\ r \in (q + 1)..r
        BY <1>1, <3>2
      <4>3. CASE checks[n] >= q
        BY <1>1, <1>8, <3>2, <4>2, <4>3
      <4> QED
        BY <4>1, <4>2, <4>3
    <3>3. CASE q \in (c + 1)..(r - 1)
      BY <1>1, <2>3, <3>3
    <3>4. CASE q = r
      BY <1>1, <1>8, <2>3, <3>4 DEF name
    <3> QED
      BY <3>1, <3>2, <3>3, <3>4
  <2> QED
    BY <1>2, <1>4, <1>6, <2>2, <2>3 DEF CacheFits, Deletes
<1>9. CASE Intake!LoadPut(r)
  <2>1. /\ log[r].file # None
        /\ checks' = IF Intake!UnmarshalJSON(log[r].file)
                     THEN [checks EXCEPT ![name] = r] ELSE checks
    BY <1>9 DEF Intake!LoadPut, name
  <2>2. checks' \in [Names -> 0..Len(log)]
    BY <1>1, <1>3, <2>1
  <2>3. ASSUME NEW n \in Names
        PROVE  /\ checks'[n] = checks[n] \/ (n = name /\ checks'[n] = r)
               /\ n = name /\ Decodable(r) => checks'[n] = r
    BY <1>1, <1>3, <2>1 DEF Decodable
  <2> QED
    BY <1>7, <1>8, <2>2, <2>3
<1>10. CASE Intake!LoadRemove(r)
  <2>1. log[r].file = None /\ checks' = [checks EXCEPT ![name] = 0]
    BY <1>10 DEF Intake!LoadRemove, name
  <2>2. checks' \in [Names -> 0..Len(log)]
    BY <1>1, <1>3, <2>1
  <2>3. ~Decodable(r) /\ Deletes(r, name)
    BY <2>1 DEF Decodable, Deletes, name
  <2>4. ASSUME NEW n \in Names
        PROVE  checks'[n] = checks[n] \/ (n = name /\ checks'[n] = 0)
    BY <1>1, <1>3, <2>1
  <2> QED
    BY <1>7, <1>8, <2>2, <2>3, <2>4
<1> QED
  BY <1>9, <1>10

LEMMA ValidateKeeps ==
  ASSUME Intake!IntakeAssumption, IntakeInv, NEW name \in Names,
         Intake!RunValidate(name)
  PROVE  IntakeInv'
<1> DEFINE r == Intake!LastWrite(name, Len(log))
<1>1. /\ Intake!Stored(name) # None
      /\ verdict' = [name |-> name, rev |-> r,
                     passed |-> Intake!Validate(Intake!Stored(name))]
      /\ UNCHANGED <<log, cursor, jobs, checks>>
  BY DEF Intake!RunValidate
<1>2. /\ r \in 0..Len(log) /\ (r # 0 => log[r].name = name)
      /\ Len(log) \in Nat
  BY LastWriteIs, IntakeTypes
<1>3. Intake!Stored(name) = IF r = 0 THEN None ELSE log[r].file
  BY DEF Intake!Stored
<1> HIDE DEF r
<1>4. /\ r \in 1..Len(log) /\ log[r].name = name /\ log[r].file # None
      /\ verdict' = [name |-> name, rev |-> r,
                     passed |-> Intake!Validate(log[r].file)]
  BY <1>1, <1>2, <1>3
<1>5. Intake!Validate(log[r].file) \in BOOLEAN
  <2>1. log[r].file \in {f \in Files : f.json}
    BY <1>4 DEF IntakeInv, Intake!TypeOK
  <2>2. log[r].file.json \in BOOLEAN
    BY <2>1 DEF Intake!IntakeAssumption, Intake!File
  <2> QED
    BY <2>2 DEF Intake!Validate, Intake!FieldsFit, Intake!KnownDefinition
<1>6. verdict' \in [name : Names, rev : 1..Len(log), passed : BOOLEAN]
  BY <1>4, <1>5
<1>7. VerdictFits'
  BY <1>1, <1>4 DEF VerdictFits, Intake!Validate, Intake!FieldsFit,
    Intake!KnownDefinition
<1>8. Intake!TypeOK'
  BY <1>1, <1>6 DEF IntakeInv, Intake!TypeOK
<1>9. /\ \A j \in jobs' : JobFits(j)'
      /\ \A n \in Names : CacheFits(n)'
  BY <1>1 DEF IntakeInv, JobFits, CacheFits, Decodable, Deletes,
    Intake!UnmarshalJSON, Intake!FieldsFit, Intake!KnownDefinition
<1> QED
  BY <1>1, <1>7, <1>8, <1>9 DEF IntakeInv

LEMMA IntakeKeeps ==
  ASSUME Intake!IntakeAssumption, IntakeInv, [Intake!Next]_Intake!vars
  PROVE  IntakeInv'
<1>1. CASE UNCHANGED Intake!vars
  <2>1. UNCHANGED <<log, cursor, jobs, checks, verdict>>
    BY <1>1 DEF Intake!vars
  <2>2. Intake!TypeOK' /\ VerdictFits'
    BY <2>1 DEF IntakeInv, Intake!TypeOK, VerdictFits, Intake!Validate,
      Intake!FieldsFit, Intake!KnownDefinition
  <2>3. /\ \A j \in jobs' : JobFits(j)'
        /\ \A name \in Names : CacheFits(name)'
    BY <2>1 DEF IntakeInv, JobFits, CacheFits, Decodable, Deletes,
      Intake!UnmarshalJSON, Intake!FieldsFit, Intake!KnownDefinition
  <2> QED
    BY <2>1, <2>2, <2>3 DEF IntakeInv
<1>2. ASSUME NEW name \in Names, NEW f \in Files, Intake!Import(name, f)
      PROVE  IntakeInv'
  <2>1. [name |-> name, file |-> f] \in Write
    BY DEF Write
  <2> QED
    BY <1>2, <2>1, WriteKeeps DEF Intake!Import
<1>3. ASSUME NEW name \in Names, Intake!Remove(name) PROVE IntakeInv'
  <2>1. [name |-> name, file |-> None] \in Write
    BY DEF Write
  <2> QED
    BY <1>3, <2>1, WriteKeeps DEF Intake!Remove
<1> QED
  BY <1>1, <1>2, <1>3, ScheduleKeeps, LoadKeeps, ValidateKeeps DEF Intake!Next

(* The agent cannot have passed a deletion that the server has not. *)
LEMMA JobsAreLoaded ==
  ASSUME IntakeInv
  PROVE  Intake!ScheduledIsLoaded
<1> SUFFICES ASSUME NEW j \in jobs, Intake!UpToDate("server", j.name),
                    Intake!UpToDate("agent", j.name)
             PROVE  checks[j.name] # 0
  BY DEF Intake!ScheduledIsLoaded
<1>1. /\ JobFits(j) /\ CacheFits(j.name) /\ j.rev \in 1..Len(log)
      /\ checks[j.name] \in 0..Len(log) /\ Len(log) \in Nat
      /\ cursor["server"] \in 0..Len(log) /\ cursor["agent"] \in 0..Len(log)
  BY IntakeTypes DEF IntakeInv
<1>2. j.rev \in 1..cursor["agent"]
  BY <1>1 DEF JobFits, Intake!UpToDate
<1>3. ASSUME NEW d \in (j.rev + 1)..cursor["agent"] PROVE ~Deletes(d, j.name)
  <2>1. d \in 1..Len(log) /\ d > j.rev
    BY <1>1, <1>2
  <2>2. log[d].name = j.name => d \in (j.rev + 1)..cursor["server"]
    BY <1>1, <2>1 DEF Intake!UpToDate
  <2> QED
    BY <1>1, <2>2 DEF JobFits, Deletes
<1>4. checks[j.name] >= j.rev
  BY <1>1, <1>2, <1>3 DEF JobFits, CacheFits
<1> QED
  BY <1>1, <1>4

(* What Validate accepts UnmarshalJSON can decode, and the last write of   *)
(* its name is not followed by a deletion.                                 *)
LEMMA AcceptedIsLoaded ==
  ASSUME IntakeInv
  PROVE  Intake!ValidatedIsLoaded
<1> DEFINE r == verdict.rev
           name == verdict.name
           f == log[r].file
<1> SUFFICES ASSUME verdict # None, verdict.passed, name \in OneToken,
                    Intake!LastWrite(name, Len(log)) = r,
                    cursor["agent"] >= r
             PROVE  /\ checks[name] = r
                    /\ \/ f.definition = "zero"
                       \/ Intake!Definition(f) = Intake!ValidatedDefinition(f)
  BY DEF Intake!ValidatedIsLoaded
<1>1. /\ r \in 1..Len(log) /\ name \in Names /\ Len(log) \in Nat
      /\ cursor["agent"] \in 0..Len(log) /\ checks[name] \in 0..Len(log)
      /\ CacheFits(name)
  BY IntakeTypes DEF IntakeInv
<1>2. log[r].name = name /\ f # None /\ Intake!Validate(f)
  BY DEF IntakeInv, VerdictFits
<1>3. Decodable(r)
  BY <1>2 DEF Decodable, Intake!Validate, Intake!UnmarshalJSON
<1>4. \A q \in 1..Len(log) : log[q].name = name => q <= r
  BY <1>1, LastWriteIs
<1> HIDE DEF r, name
<1>5. \A d \in (r + 1)..cursor["agent"] : ~Deletes(d, name)
  <2> SUFFICES ASSUME NEW d \in (r + 1)..cursor["agent"]
               PROVE  log[d].name # name
    BY DEF Deletes
  <2>1. d \in 1..Len(log) /\ ~(d <= r)
    BY <1>1
  <2> QED
    BY <1>4, <2>1
<1>6. checks[name] >= r
  <2>1. r \in 1..cursor["agent"]
    BY <1>1
  <2> QED
    BY <1>1, <1>2, <1>3, <1>5, <2>1 DEF CacheFits
<1>7. checks[name] \in 1..Len(log) /\ log[checks[name]].name = name
  BY <1>1, <1>6 DEF CacheFits
<1>8. checks[name] = r
  BY <1>1, <1>4, <1>6, <1>7
<1>9. f.definition = "zero" \/ Intake!Definition(f) = Intake!ValidatedDefinition(f)
  BY <1>2 DEF Intake!Validate, Intake!KnownDefinition, Intake!Definition,
    Intake!ValidatedDefinition
<1> QED
  BY <1>8, <1>9 

LEMMA IntakeStays == Spec => [](part = "intake" => IntakeInv)
<1>1. Init => (part = "intake" => IntakeInv)
  BY StartAssumption, IntakeInitially DEF Init, StartAssumption
<1>2. (part = "intake" => IntakeInv) /\ [Next]_vars
        => (part = "intake" => IntakeInv)'
  <2> SUFFICES ASSUME part = "intake" => IntakeInv, [Next]_vars,
                      part' = "intake"
               PROVE  IntakeInv'
    OBVIOUS
  <2>1. part = "intake" /\ [Intake!Next]_Intake!vars
    BY DEF Next, StartStep, ListStep, IntakeStep, FitStep, StartUnchanged,
      vars, intakeVars, Intake!vars
  <2> QED
    BY <2>1, StartAssumption, IntakeKeeps DEF StartAssumption
<1> QED
  BY <1>1, <1>2, PTL DEF Spec

(* Whatever is imported and removed, and however far the readers are       *)
(* apart: what the server triggers the agents have loaded.                 *)
THEOREM ScheduledIsAlwaysLoaded == Spec => []ScheduledIsLoaded
<1>1. (part = "intake" => IntakeInv) => ScheduledIsLoaded
  BY JobsAreLoaded DEF ScheduledIsLoaded, IntakeInv
<1> QED
  BY <1>1, IntakeStays, PTL

(* Whatever "checks validate" accepts is loaded as it was validated. *)
THEOREM ValidatedIsAlwaysLoaded == Spec => []ValidatedIsLoaded
<1>1. (part = "intake" => IntakeInv) => ValidatedIsLoaded
  BY AcceptedIsLoaded DEF ValidatedIsLoaded
<1> QED
  BY <1>1, IntakeStays, PTL

-----------------------------------------------------------------------------
(* A team's overrides. *)

Allowed == DOMAIN attributes \cap mutableFields
Cleaned(a) == Fit!cleanTemplateString(attributes[a])
FitsField(a) == FieldOf[a] # None => Fit!Fits(a, Cleaned(a))

(* The overrides that are no longer to be done were allowed ones that fit; *)
(* a field has the value of one of its own among them, or its first.       *)
Progress ==
  /\ DOMAIN todo \subseteq Allowed
  /\ \A a \in DOMAIN todo : todo[a] = Cleaned(a)
  /\ \A a \in Allowed \ DOMAIN todo : FitsField(a)
  /\ \A f \in Fields :
       \/ definition[f] = Initial /\ Fit!Given(f) \subseteq DOMAIN todo
       \/ \E a \in Fit!Given(f) \ DOMAIN todo : definition[f] = Cleaned(a)

FitInv ==
  /\ Fit!TypeOK
  /\ DOMAIN definition = Fields /\ definition = [f \in Fields |-> definition[f]]
  /\ IF status = "filter" THEN \A f \in Fields : definition[f] = Initial
     ELSE Progress
  /\ status = "done" => DOMAIN todo = {}
  /\ status = "failed" => \E a \in Allowed : ~FitsField(a)

LEMMA FitInitially ==
  ASSUME Fit!Init
  PROVE  FitInv
<1>1. /\ definition = [f \in Fields |-> Initial]
      /\ todo = <<>> /\ status = "filter" /\ DOMAIN todo = {}
  BY DEF Fit!Init
<1>2. Fit!TypeOK
  BY <1>1 DEF Fit!Init, Fit!TypeOK
<1> QED
  BY <1>1, <1>2 DEF FitInv

(* An override is dealt with: its name is out of the list. *)
LEMMA WithoutIs ==
  ASSUME NEW name \in DOMAIN todo, todo' = Fit!Without(name)
  PROVE  /\ DOMAIN todo' = DOMAIN todo \ {name}
         /\ \A a \in DOMAIN todo' : todo'[a] = todo[a]
  BY DEF Fit!Without

LEMMA FilterKeeps ==
  ASSUME FitInv, Fit!Filter
  PROVE  FitInv'
<1>1. /\ todo' = [a \in Allowed |-> Cleaned(a)]
      /\ status' = "apply" /\ status = "filter"
      /\ UNCHANGED <<attributes, mutableFields, definition>>
  BY DEF Fit!Filter, Fit!allowedArgumentOverrides, Allowed, Cleaned
<1>2. DOMAIN todo' = Allowed /\ \A a \in Allowed : todo'[a] = Cleaned(a)
  BY <1>1
<1>3. /\ Allowed' = Allowed /\ \A a : Cleaned(a)' = Cleaned(a)
      /\ \A f : Fit!Given(f)' = Fit!Given(f)
  BY <1>1 DEF Allowed, Cleaned, Fit!Given
<1>4. Fit!TypeOK'
  BY <1>1, <1>2 DEF FitInv, Fit!TypeOK, Allowed
<1>5. \A f : Fit!Given(f) \subseteq Allowed
  BY DEF Fit!Given, Allowed
<1>6. Progress'
  BY <1>1, <1>2, <1>3, <1>5 DEF FitInv, Progress
<1> QED
  BY <1>1, <1>4, <1>6 DEF FitInv

LEMMA SkipKeeps ==
  ASSUME Fit!OverridesAssumption, FitInv, NEW name \in Attributes, Fit!SkipUnknown(name)
  PROVE  FitInv'
<1>1. /\ status = "apply" /\ name \in DOMAIN todo /\ FieldOf[name] = None
      /\ todo' = Fit!Without(name)
      /\ UNCHANGED <<attributes, mutableFields, definition, status>>
  BY DEF Fit!SkipUnknown
<1>2. /\ DOMAIN todo' = DOMAIN todo \ {name}
      /\ \A a \in DOMAIN todo' : todo'[a] = todo[a]
  BY <1>1, WithoutIs
<1>3. /\ Allowed' = Allowed /\ \A a : Cleaned(a)' = Cleaned(a)
      /\ \A f : Fit!Given(f)' = Fit!Given(f)
      /\ \A a : FitsField(a)' = FitsField(a)
  BY <1>1 DEF Allowed, Cleaned, Fit!Given, FitsField
<1>4. Fit!TypeOK'
  BY <1>1, <1>2 DEF FitInv, Fit!TypeOK
<1>5. FitsField(name) /\ \A f \in Fields : name \notin Fit!Given(f)
  BY <1>1 DEF FitsField, Fit!Given, Fit!OverridesAssumption
<1>6. Progress'
  BY <1>1, <1>2, <1>3, <1>5 DEF FitInv, Progress
<1> QED
  BY <1>1, <1>4, <1>6 DEF FitInv

LEMMA SetKeeps ==
  ASSUME Fit!OverridesAssumption, FitInv, NEW name \in Attributes,
         Fit!SetField(name)
  PROVE  FitInv'
<1> DEFINE g == FieldOf[name]
<1>1. /\ status = "apply" /\ name \in DOMAIN todo /\ g # None
      /\ Fit!Fits(name, todo[name]) /\ todo' = Fit!Without(name)
      /\ definition' = [definition EXCEPT ![g] = todo[name]]
      /\ UNCHANGED <<attributes, mutableFields, status>>
  BY DEF Fit!SetField
<1>2. /\ DOMAIN todo' = DOMAIN todo \ {name}
      /\ \A a \in DOMAIN todo' : todo'[a] = todo[a]
  BY <1>1, WithoutIs
<1>3. /\ Allowed' = Allowed /\ \A a : Cleaned(a)' = Cleaned(a)
      /\ \A f : Fit!Given(f)' = Fit!Given(f)
      /\ \A a : FitsField(a)' = FitsField(a)
  BY <1>1 DEF Allowed, Cleaned, Fit!Given, FitsField
<1>4. g \in Fields
  BY <1>1 DEF Fit!OverridesAssumption
<1>5. Progress /\ todo[name] = Cleaned(name) /\ name \in Allowed
  BY <1>1 DEF FitInv, Progress
<1>6. /\ DOMAIN definition' = Fields
      /\ definition' = [f \in Fields |-> definition'[f]]
      /\ definition'[g] = todo[name]
      /\ \A f \in Fields \ {g} : definition'[f] = definition[f]
  BY <1>1, <1>4 DEF FitInv
<1>7. \/ KindOf[g] = "string"
      \/ KindOf[g] \in DOMAIN Parses /\ todo[name] \in Parses[KindOf[g]]
  BY <1>1 DEF Fit!Fits
<1>8. FitsField(name) /\ name \in Fit!Given(g)
  BY <1>1, <1>5 DEF FitsField, Fit!Given, Allowed
<1>9. \A f \in Fields \ {g} : name \notin Fit!Given(f)
  BY DEF Fit!Given
<1> HIDE DEF g
<1>10. Fit!TypeOK'
  <2>1. \A f \in Fields :
          \/ definition'[f] = Initial
          \/ KindOf[f] = "string"
          \/ KindOf[f] \in DOMAIN Parses /\ definition'[f] \in Parses[KindOf[f]]
    <3> TAKE f \in Fields
    <3>1. CASE f = g
      BY <1>6, <1>7, <3>1
    <3>2. CASE f # g
      BY <1>6, <3>2 DEF FitInv, Fit!TypeOK
    <3> QED
      BY <3>1, <3>2
  <2> QED
    BY <1>1, <1>2, <2>1 DEF FitInv, Fit!TypeOK
<1>11. ASSUME NEW f \in Fields
       PROVE  \/ /\ definition'[f] = Initial
                 /\ Fit!Given(f) \subseteq DOMAIN todo'
              \/ \E a \in Fit!Given(f) \ DOMAIN todo' :
                   definition'[f] = Cleaned(a)
  <2>1. CASE f = g
    BY <1>2, <1>5, <1>6, <1>8, <2>1
  <2>2. CASE f # g
    BY <1>2, <1>5, <1>6, <1>9, <2>2 DEF Progress
  <2> QED
    BY <2>1, <2>2
<1>12. Progress'
  BY <1>1, <1>2, <1>3, <1>5, <1>8, <1>11 DEF Progress
<1> QED
  BY <1>1, <1>6, <1>10, <1>12 DEF FitInv

LEMMA EndKeeps ==
  ASSUME FitInv,
         Fit!Finish \/ \E name \in Attributes : Fit!Reject(name)
  PROVE  FitInv'
<1>1. /\ status = "apply" /\ status' \in {"done", "failed"}
      /\ UNCHANGED <<attributes, mutableFields, todo, definition>>
  BY DEF Fit!Finish, Fit!Reject
<1>2. /\ Allowed' = Allowed /\ \A a : Cleaned(a)' = Cleaned(a)
      /\ \A f : Fit!Given(f)' = Fit!Given(f)
      /\ \A a : FitsField(a)' = FitsField(a)
  BY <1>1 DEF Allowed, Cleaned, Fit!Given, FitsField
<1>3. Fit!TypeOK'
  BY <1>1 DEF FitInv, Fit!TypeOK
<1>4. Progress'
  BY <1>1, <1>2 DEF FitInv, Progress
<1>5. CASE Fit!Finish
  <2>1. todo = <<>> /\ status' = "done"
    BY <1>5 DEF Fit!Finish
  <2> QED
    BY <1>1, <1>3, <1>4, <2>1 DEF FitInv
<1>6. ASSUME NEW name \in Attributes, Fit!Reject(name) PROVE FitInv'
  <2>1. /\ status' = "failed" /\ name \in DOMAIN todo
        /\ FieldOf[name] # None /\ ~Fit!Fits(name, todo[name])
    BY <1>6 DEF Fit!Reject
  <2>2. name \in Allowed /\ todo[name] = Cleaned(name)
    BY <1>1, <2>1 DEF FitInv, Progress
  <2>3. ~FitsField(name)
    BY <2>1, <2>2 DEF FitsField
  <2> QED
    BY <1>1, <1>2, <1>3, <1>4, <2>1, <2>2, <2>3 DEF FitInv
<1> QED
  BY <1>5, <1>6

LEMMA FitKeeps ==
  ASSUME Fit!OverridesAssumption, FitInv, [Fit!Next]_Fit!vars
  PROVE  FitInv'
<1>1. CASE UNCHANGED Fit!vars
  <2>1. UNCHANGED <<attributes, mutableFields, todo, definition, status>>
    BY <1>1 DEF Fit!vars
  <2>2. /\ Allowed' = Allowed /\ \A a : Cleaned(a)' = Cleaned(a)
        /\ \A f : Fit!Given(f)' = Fit!Given(f)
        /\ \A a : FitsField(a)' = FitsField(a)
    BY <2>1 DEF Allowed, Cleaned, Fit!Given, FitsField
  <2>3. Fit!TypeOK' /\ (Progress => Progress')
    BY <2>1, <2>2 DEF FitInv, Fit!TypeOK, Progress
  <2> QED
    BY <2>1, <2>2, <2>3 DEF FitInv
<1> QED
  BY <1>1, FilterKeeps, SkipKeeps, SetKeeps, EndKeeps DEF Fit!Next

LEMMA FitTells ==
  ASSUME Fit!OverridesAssumption, FitInv
  PROVE  Fit!TypeOK /\ Fit!OnlyMutableChange /\ Fit!OutcomeIsRight
<1>1. Fit!OnlyMutableChange
  BY DEF FitInv, Progress, Fit!OnlyMutableChange, Cleaned
<1> DEFINE unfit == {a \in Allowed : ~FitsField(a)}
<1>2. status = "failed" => unfit # {}
  BY DEF FitInv
<1>3. status = "done" =>
        /\ unfit = {}
        /\ \A f \in Fields : Fit!Given(f) # {} =>
             \E a \in Fit!Given(f) : definition[f] = Cleaned(a)
  BY DEF FitInv, Progress
<1>4. Fit!OutcomeIsRight
  BY <1>2, <1>3 DEF Fit!OutcomeIsRight, FitsField, Cleaned, Allowed
<1> QED
  BY <1>1, <1>4 DEF FitInv

(* Whatever a team writes, in whatever order the map is walked: a field    *)
(* changes only as the check allows, every allowed value that fits takes   *)
(* effect unless one does not fit.                                         *)
THEOREM OutcomeIsAlwaysRight == Spec => []OutcomeIsRight
<1>1. Init => (part = "fit" => FitInv)
  BY FitInitially DEF Init
<1>2. (part = "fit" => FitInv) /\ [Next]_vars => (part = "fit" => FitInv)'
  <2> SUFFICES ASSUME part = "fit" => FitInv, [Next]_vars, part' = "fit"
               PROVE  FitInv'
    OBVIOUS
  <2>1. part = "fit" /\ [Fit!Next]_Fit!vars
    BY DEF Next, StartStep, ListStep, IntakeStep, FitStep, StartUnchanged,
      vars, overrideVars, Fit!vars
  <2> QED
    BY <2>1, StartAssumption, FitKeeps DEF StartAssumption
<1>3. (part = "fit" => FitInv) => OutcomeIsRight
  BY StartAssumption, FitTells DEF OutcomeIsRight, StartAssumption
<1> QED
  BY <1>1, <1>2, <1>3, PTL DEF Spec

-----------------------------------------------------------------------------
(* The setup and the agent. *)

AddSteps == {"dial", "settings?", "users?", "exists", "put"}
Steps == AddSteps \cup {"connect", "settings", "users", "stream", "consumer",
                        "checks", "sign"}

(* The steps left of a command: an account is added after the question for *)
(* its bucket, and its put ends the command.                               *)
StepsFit(name, s) ==
  /\ s \in Seq(Steps) /\ s # <<>>
  /\ \A i \in 1..Len(s) :
       /\ s[i] = "put" => i = Len(s) /\ name \in {"init", "add"}
       /\ s[i] = "sign" => name = "auth"
       /\ i + 1 \in 1..Len(s) =>
            /\ s[i + 1] = "users?" => s[i] = "settings?"
            /\ s[i + 1] = "exists" => s[i] = "users?"
            /\ s[i + 1] = "put" => s[i] = "exists"
  /\ name = "add" => s[Len(s)] = "put" /\ \A i \in 1..Len(s) : s[i] \in AddSteps
  /\ name = "auth" => s = <<"sign">>

(* A command that is still to come starts with its first step. *)
ScriptFits(sc) ==
  /\ sc \in Seq([name : {"init", "add", "import", "auth"}, steps : Seq(Steps)])
  /\ Len(sc) \in 1..4
  /\ \A i \in 1..Len(sc) :
       /\ StepsFit(sc[i].name, sc[i].steps)
       /\ Len(sc) - i = 3 => sc[i].name = "init"
       /\ Len(sc) - i = 2 => sc[i].name = "add"
       /\ Len(sc) - i = 1 => sc[i].name = "import"
       /\ Len(sc) - i = 0 => sc[i].name = "auth"
       /\ i > 1 => sc[i].steps[1] \in {"connect", "dial", "sign"}

LEMMA Joined ==
  ASSUME NEW S, NEW s \in Seq(S), NEW t \in Seq(S), NEW u \in Seq(S),
         Len(u) = Len(s) + Len(t),
         \A i \in 1..Len(s) : u[i] = s[i],
         \A i \in 1..Len(t) : u[Len(s) + i] = t[i]
  PROVE  s \o t = u
<1>1. /\ s \o t \in Seq(S) /\ Len(s \o t) = Len(s) + Len(t)
      /\ \A i \in 1..Len(s) + Len(t) :
           (s \o t)[i] = IF i <= Len(s) THEN s[i] ELSE t[i - Len(s)]
  BY ConcatProperties
<1>2. Len(s) \in Nat /\ Len(t) \in Nat
  BY LenProperties
<1>3. ASSUME NEW i \in 1..Len(u) PROVE (s \o t)[i] = u[i]
  <2>1. CASE i <= Len(s)
    BY <1>1, <1>2, <2>1
  <2>2. CASE ~(i <= Len(s))
    <3>1. i - Len(s) \in 1..Len(t) /\ Len(s) + (i - Len(s)) = i
      BY <1>2, <2>2
    <3>2. u[i] = t[i - Len(s)]
      BY <3>1
    <3> QED
      BY <1>1, <1>2, <2>2, <3>2
  <2> QED
    BY <2>1, <2>2
<1> QED
  BY <1>1, <1>3, SeqEqual

LEMMA Commands ==
  /\ StepsFit("init", Start!Initialize) /\ Start!Initialize[1] = "connect"
  /\ StepsFit("add", Start!Add) /\ Start!Add[1] = "dial"
  /\ StepsFit("import", Start!SetupConnection \o <<"checks">>)
  /\ (Start!SetupConnection \o <<"checks">>)[1] = "dial"
  /\ StepsFit("auth", <<"sign">>)
<1>1. StepsFit("auth", <<"sign">>)
  BY DEF StepsFit, Steps
<1>2. Start!Add = <<"dial", "settings?", "users?", "exists", "put">>
  <2> DEFINE s == <<"dial", "settings?">>
             t == <<"users?", "exists", "put">>
             u == <<"dial", "settings?", "users?", "exists", "put">>
  <2>1. /\ s \in Seq(Steps) /\ t \in Seq(Steps) /\ u \in Seq(Steps)
        /\ Len(s) = 2 /\ Len(t) = 3 /\ Len(u) = 5
        /\ s[1] = u[1] /\ s[2] = u[2]
        /\ t[1] = u[3] /\ t[2] = u[4] /\ t[3] = u[5]
    BY DEF Steps, AddSteps
  <2> HIDE DEF s, t, u
  <2>2. \A i \in 1..Len(s) : u[i] = s[i]
    BY <2>1
  <2>3. \A i \in 1..Len(t) : u[Len(s) + i] = t[i]
    BY <2>1
  <2>4. /\ s \in Seq(Steps) /\ t \in Seq(Steps) /\ u \in Seq(Steps)
        /\ Len(u) = Len(s) + Len(t)
    BY <2>1
  <2>5. s \o t = u
    BY <2>2, <2>3, <2>4, Joined, ZenonT(60)
  <2> QED
    BY <2>5 DEF Start!Add, Start!SetupConnection, s, t, u
<1>3. Start!SetupConnection \o <<"checks">> = <<"dial", "settings?", "checks">>
  <2> DEFINE s == <<"dial", "settings?">>
             t == <<"checks">>
             u == <<"dial", "settings?", "checks">>
  <2>1. /\ s \in Seq(Steps) /\ t \in Seq(Steps) /\ u \in Seq(Steps)
        /\ Len(s) = 2 /\ Len(t) = 1 /\ Len(u) = 3
        /\ s[1] = u[1] /\ s[2] = u[2] /\ t[1] = u[3]
    BY DEF Steps, AddSteps
  <2> HIDE DEF s, t, u
  <2>2. \A i \in 1..Len(s) : u[i] = s[i]
    BY <2>1
  <2>3. \A i \in 1..Len(t) : u[Len(s) + i] = t[i]
    BY <2>1
  <2>4. /\ s \in Seq(Steps) /\ t \in Seq(Steps) /\ u \in Seq(Steps)
        /\ Len(u) = Len(s) + Len(t)
    BY <2>1
  <2>5. s \o t = u
    BY <2>2, <2>3, <2>4, Joined, ZenonT(60)
  <2> QED
    BY <2>5 DEF Start!SetupConnection, s, t, u
<1>4. Start!Initialize = <<"connect", "settings", "users", "stream", "consumer",
                    "dial", "settings?", "users?", "exists", "put">>
  <2> DEFINE s == <<"connect", "settings", "users", "stream", "consumer">>
             t == <<"dial", "settings?", "users?", "exists", "put">>
             u == <<"connect", "settings", "users", "stream", "consumer",
                    "dial", "settings?", "users?", "exists", "put">>
  <2>1. /\ s \in Seq(Steps) /\ t \in Seq(Steps) /\ u \in Seq(Steps)
        /\ Len(s) = 5 /\ Len(t) = 5 /\ Len(u) = 10
        /\ s[1] = u[1] /\ s[2] = u[2] /\ s[3] = u[3] /\ s[4] = u[4]
        /\ s[5] = u[5] /\ t[1] = u[6] /\ t[2] = u[7] /\ t[3] = u[8]
        /\ t[4] = u[9] /\ t[5] = u[10]
    BY DEF Steps, AddSteps
  <2> HIDE DEF s, t, u
  <2>2. \A i \in 1..Len(s) : u[i] = s[i]
    BY <2>1
  <2>3. \A i \in 1..Len(t) : u[Len(s) + i] = t[i]
    BY <2>1
  <2>4. /\ s \in Seq(Steps) /\ t \in Seq(Steps) /\ u \in Seq(Steps)
        /\ Len(u) = Len(s) + Len(t)
    BY <2>1
  <2>5. s \o t = u
    BY <2>2, <2>3, <2>4, Joined, ZenonT(60)
  <2> QED
    BY <1>2, <2>5 DEF Start!Initialize, s, t, u
<1>5. StepsFit("import", <<"dial", "settings?", "checks">>)
  BY DEF StepsFit, Steps, AddSteps
<1>6. StepsFit("add", <<"dial", "settings?", "users?", "exists", "put">>)
  BY DEF StepsFit, Steps, AddSteps
<1>7. StepsFit("init", <<"connect", "settings", "users", "stream", "consumer",
                  "dial", "settings?", "users?", "exists", "put">>)
  BY DEF StepsFit, Steps, AddSteps
<1>8. StepsFit("init", Start!Initialize) /\ Start!Initialize[1] = "connect"
  BY <1>4, <1>7
<1>9. StepsFit("add", Start!Add) /\ Start!Add[1] = "dial"
  BY <1>2, <1>6
<1>10. /\ StepsFit("import", Start!SetupConnection \o <<"checks">>)
       /\ (Start!SetupConnection \o <<"checks">>)[1] = "dial"
  <2> DEFINE import == <<"dial", "settings?", "checks">>
  <2>1. import[1] = "dial"
    OBVIOUS
  <2> HIDE DEF import
  <2> QED
    BY <1>3, <1>5, <2>1, ZenonT(60) DEF import
<1> QED
  BY <1>1, <1>8, <1>9, <1>10

LEMMA ScriptIsOrdered ==
  ScriptFits(Start!Script) /\ Head(Head(Start!Script).steps) = "connect"
<1> DEFINE sc == Start!Script
<1> DEFINE import == Start!SetupConnection \o <<"checks">>
<1>1. /\ Len(sc) = 4
      /\ sc[1] = [name |-> "init", steps |-> Start!Initialize]
      /\ sc[2] = [name |-> "add", steps |-> Start!Add]
      /\ sc[3] = [name |-> "import", steps |-> import]
      /\ sc[4] = [name |-> "auth", steps |-> <<"sign">>]
  BY DEF Start!Script
<1> DEFINE R == [name : {"init", "add", "import", "auth"}, steps : Seq(Steps)]
<1>0. /\ StepsFit("import", import) /\ import[1] = "dial"
      /\ import \in Seq(Steps)
  BY Commands DEF StepsFit
<1>2. \A i \in 1..4 : sc[i] \in R
  <2> HIDE DEF import
  <2> TAKE i \in 1..4
  <2>1. /\ Start!Initialize \in Seq(Steps) /\ Start!Add \in Seq(Steps)
        /\ import \in Seq(Steps) /\ <<"sign">> \in Seq(Steps)
    BY <1>0, Commands DEF StepsFit
  <2>2. sc[1] \in R /\ sc[2] \in R /\ sc[3] \in R
    BY <1>1, <2>1
  <2>3. sc[4] \in R
    BY <1>1, <2>1
  <2> HIDE DEF R
  <2> QED
    BY <2>2, <2>3
<1>3. sc \in Seq(R)
  BY <1>1, <1>2 DEF Start!Script
<1>4. ASSUME NEW i \in 1..4
      PROVE  /\ StepsFit(sc[i].name, sc[i].steps)
             /\ 4 - i = 3 => sc[i].name = "init"
             /\ 4 - i = 2 => sc[i].name = "add"
             /\ 4 - i = 1 => sc[i].name = "import"
             /\ 4 - i = 0 => sc[i].name = "auth"
             /\ i > 1 => sc[i].steps[1] \in {"connect", "dial", "sign"}
  <2>1. /\ sc[1].name = "init" /\ sc[1].steps = Start!Initialize
        /\ sc[2].name = "add" /\ sc[2].steps = Start!Add
        /\ sc[3].name = "import" /\ sc[3].steps = import
        /\ sc[4].name = "auth" /\ sc[4].steps = <<"sign">>
    BY <1>1
  <2>2. <<"sign">>[1] = "sign"
    OBVIOUS
  <2>3. CASE i = 1
    BY <2>1, <2>3, Commands
  <2>4. CASE i = 2
    BY <2>1, <2>4, Commands
  <2>5. CASE i = 3
    <3> HIDE DEF import
    <3> QED
      BY <1>0, <2>1, <2>5
  <2>6. CASE i = 4
    <3>1. sc[i].name = "auth" /\ sc[i].steps = <<"sign">>
      BY <2>1, <2>6
    <3> QED
      BY <2>2, <2>6, <3>1, Commands
  <2> QED
    BY <2>3, <2>4, <2>5, <2>6
<1>5. Head(Head(sc).steps) = "connect"
  <2>1. Head(sc) = sc[1]
    BY <1>1, <1>3
  <2>2. /\ sc[1].steps = Start!Initialize /\ Start!Initialize[1] = "connect"
        /\ Start!Initialize \in Seq(Steps) /\ Start!Initialize # <<>>
    BY <1>1, Commands DEF StepsFit
  <2> QED
    BY <2>1, <2>2
<1> QED
  BY <1>1, <1>3, <1>4, <1>5 DEF ScriptFits

(* An account is put only where its bucket is.  If the password of admin   *)
(* is lost, the one fault was in initialize, and the script's add is about *)
(* to set another: nothing it needs is missing.                            *)
SetupFits ==
  /\ 0 \in told
  /\ Start!Step \in {"users?", "exists", "put"} => up /\ "settings" \in made
  /\ Start!Step \in {"exists", "put"} => "users" \in made
  /\ admin # None /\ admin \notin told /\ faults <= 1 =>
       /\ setup = "running" /\ Start!Command.name = "add" /\ faults = 1
       /\ up /\ {"settings", "users"} \subseteq made

(* The agent's watchers are open only while it needs them, and what it has *)
(* asked for so far was granted.                                           *)
AgentFits ==
  /\ agent = "dial" => agentTries < AgentRetries
  /\ agent \in {"idle", "dial", "bucket", "ended"} => watchers = {}
  /\ agent # "running" => ~subscribed
  /\ IsFiniteSet(watchers) /\ orphans <= excused
  /\ agent = "running" => watchers = Start!Rights!watchList(teams)
  /\ agent \in {"watch", "running"} =>
       /\ Start!Granted(Start!Rights!Inbox(Start!Rights!inboxPrefix(teams)))
       /\ Start!Granted(Start!Rights!BucketInfo)
       /\ \A k \in watchers : Start!Granted(Start!Rights!Watch(k))

AgentState ==
  <<agent, agentTries, watchers, subscribed, orphans, excused, teams, cred>>

StartInv ==
  Start!TypeOK /\ ScriptFits(script) /\ SetupFits /\ AgentFits /\ teams # {}

(* The command in hand and its next step. *)
LEMMA InHandIs ==
  ASSUME ScriptFits(script)
  PROVE  /\ Start!Command = script[1] /\ Len(script) \in 1..4
         /\ StepsFit(script[1].name, script[1].steps)
         /\ script[1].steps \in Seq(Steps)
         /\ script[1].name \in {"init", "add", "import", "auth"}
         /\ Len(script[1].steps) \in Nat \ {0}
         /\ Start!Step = script[1].steps[1] /\ Start!Step \in Steps
<1>1. script # <<>>
  BY DEF ScriptFits
<1>2. Start!Command = script[1] /\ Len(script) \in 1..4 /\ 1 \in 1..Len(script)
  BY <1>1 DEF ScriptFits, Start!Command
<1>3. /\ StepsFit(script[1].name, script[1].steps)
      /\ script[1].name \in {"init", "add", "import", "auth"}
  <2>1. script[1] \in [name : {"init", "add", "import", "auth"}, steps : Seq(Steps)]
    BY <1>2, ElementOfSeq DEF ScriptFits
  <2> QED
    BY <1>2, <2>1 DEF ScriptFits
<1>4. script[1].steps \in Seq(Steps) /\ script[1].steps # <<>>
  BY <1>3 DEF StepsFit
<1>5. Len(script[1].steps) \in Nat \ {0}
  BY <1>4, EmptySeq
<1>6. Start!Step = script[1].steps[1]
  BY <1>2, <1>4 DEF Start!Step
<1> QED
  BY <1>2, <1>3, <1>4, <1>5, <1>6, ElementOfSeq

(* Whatever ended a command, the next one begins. *)
LEMMA NextCommandFits ==
  ASSUME ScriptFits(script), Start!Step # "sign", Start!NextCommand
  PROVE  /\ ScriptFits(script')
         /\ Start!Step' \in {"connect", "dial", "sign"}
         /\ Start!Command.name = "init" => Start!Command'.name = "add"
<1> DEFINE R == [name : {"init", "add", "import", "auth"}, steps : Seq(Steps)]
<1>1. /\ script \in Seq(R) /\ Len(script) \in 1..4 /\ script' = Tail(script)
  BY DEF ScriptFits, Start!NextCommand
<1>2. Len(script) # 1
  <2> SUFFICES ASSUME Len(script) = 1 PROVE FALSE
    OBVIOUS
  <2>1. script[1].name = "auth"
    BY DEF ScriptFits
  <2>2. script[1].steps = <<"sign">>
    BY <2>1, InHandIs DEF StepsFit
  <2> QED
    BY <2>2, InHandIs
<1>3. /\ script' \in Seq(R) /\ Len(script') = Len(script) - 1
      /\ \A i \in 1..Len(script') : script'[i] = script[i + 1]
  BY <1>1, <1>2, HeadTailProperties
<1> HIDE DEF R
<1>4. Len(script') \in 1..4
  BY <1>1, <1>2, <1>3
<1>5. ASSUME NEW i \in 1..Len(script')
      PROVE  /\ StepsFit(script'[i].name, script'[i].steps)
             /\ Len(script') - i = 3 => script'[i].name = "init"
             /\ Len(script') - i = 2 => script'[i].name = "add"
             /\ Len(script') - i = 1 => script'[i].name = "import"
             /\ Len(script') - i = 0 => script'[i].name = "auth"
             /\ script'[i].steps[1] \in {"connect", "dial", "sign"}
  <2>1. /\ i + 1 \in 1..Len(script) /\ i + 1 > 1
        /\ Len(script') - i = Len(script) - (i + 1)
    BY <1>1, <1>3, <1>4
  <2>2. script'[i] = script[i + 1]
    BY <1>3
  <2> QED
    BY <2>1, <2>2 DEF ScriptFits
<1>6. ScriptFits(script')
  BY <1>3, <1>4, <1>5 DEF ScriptFits, R
<1>7. Start!Step' \in {"connect", "dial", "sign"}
  <2>1. script' # <<>> /\ 1 \in 1..Len(script')
    BY <1>4
  <2>2. StepsFit(script'[1].name, script'[1].steps)
    BY <1>5, <2>1
  <2>3. script'[1].steps # <<>>
    BY <2>2 DEF StepsFit
  <2> QED
    BY <1>5, <2>1, <2>3 DEF Start!Step, Start!Command
<1>8. ASSUME Start!Command.name = "init" PROVE Start!Command'.name = "add"
  <2>1. script[1].name = "init" /\ 1 \in 1..Len(script)
    BY <1>1, <1>8, InHandIs
  <2>2. Len(script) = 4
    BY <1>1, <2>1, SMTT(60) DEF ScriptFits
  <2>3. Len(script') - 1 = 2 /\ 1 \in 1..Len(script')
    BY <1>3, <2>2
  <2>4. script'[1].name = "add"
    BY <1>5, <2>3
  <2>5. Head(script') = script'[1]
    BY <1>3, <2>3
  <2> QED
    BY <2>4, <2>5 DEF Start!Command
<1> QED
  BY <1>6, <1>7, <1>8

(* A command goes on. *)
LEMMA NextStepFits ==
  ASSUME ScriptFits(script), Start!NextStep, Len(Start!Command.steps) # 1
  PROVE  /\ ScriptFits(script') /\ Start!Command'.name = Start!Command.name
         /\ Start!Step' = "users?" => Start!Step = "settings?"
         /\ Start!Step' = "exists" => Start!Step = "users?"
         /\ Start!Step' = "put" => Start!Step = "exists"
<1> DEFINE R == [name : {"init", "add", "import", "auth"}, steps : Seq(Steps)]
           s == script[1].steps
           name == script[1].name
           t == Tail(s)
<1>1. /\ StepsFit(name, s) /\ s \in Seq(Steps) /\ Start!Command = script[1]
      /\ Start!Step = s[1] /\ Len(s) \in Nat \ {0} /\ Len(script) \in 1..4
      /\ name \in {"init", "add", "import", "auth"} /\ s # <<>>
  BY InHandIs DEF StepsFit
<1>13. Len(s) > 1
  <2>1. Start!Command.steps = s /\ Len(s) \in Nat \ {0}
    BY <1>1
  <2> HIDE DEF s
  <2>2. Len(s) # 1
    BY <2>1, ZenonT(60)
  <2> DEFINE n == Len(s)
  <2>3. n \in Nat \ {0} /\ n # 1
    BY <2>1, <2>2, ZenonT(60)
  <2> HIDE DEF n
  <2>4. n > 1
    BY <2>3
  <2> QED
    BY <2>4 DEF n
<1>14. script' = Start!WithoutStep
  BY DEF Start!NextStep
<1>2. Len(s) > 1 /\ script' = Start!WithoutStep
  BY <1>13, <1>14
<1>3. /\ t \in Seq(Steps) /\ Len(t) = Len(s) - 1
      /\ \A i \in 1..Len(t) : t[i] = s[i + 1]
  BY <1>1, HeadTailProperties
<1>4. script \in Seq(R) /\ script[1] \in R
  <2>1. script \in Seq(R) /\ 1 \in 1..Len(script)
    BY <1>1 DEF ScriptFits
  <2> HIDE DEF R
  <2> QED
    BY <2>1, ElementOfSeq
<1> DEFINE c == [script[1] EXCEPT !.steps = t]
<1>5. c \in R /\ c.steps = t /\ c.name = name
  BY <1>3, <1>4
<1>12. script' = [script EXCEPT ![1] = c]
  BY <1>2 DEF Start!WithoutStep
<1>6. /\ script' \in Seq(R) /\ Len(script') = Len(script)
      /\ script'[1].steps = t /\ script'[1].name = name
      /\ \A i \in 1..Len(script) : i # 1 => script'[i] = script[i]
  <2> HIDE DEF c, R
  <2>1. 1 \in 1..Len(script)
    BY <1>1
  <2>2. /\ [script EXCEPT ![1] = c] \in Seq(R)
        /\ Len([script EXCEPT ![1] = c]) = Len(script)
        /\ \A j \in 1..Len(script) :
             [script EXCEPT ![1] = c][j] = IF j = 1 THEN c ELSE script[j]
    BY <1>4, <1>5, <2>1, ExceptSeq
  <2> QED
    BY <1>5, <1>12, <2>1, <2>2
<1> HIDE DEF R, s, t, name
<1>7. StepsFit(name, t)
  <2>1. t # <<>> /\ Len(t) \in Nat /\ Len(t) \in 1..Len(t)
    BY <1>1, <1>2, <1>3
  <2>2. \A i \in 1..Len(t) : i + 1 \in 1..Len(s) /\ t[i] = s[i + 1]
    BY <1>1, <1>3
  <2>3. name # "auth"
    BY <1>1, <1>2 DEF StepsFit
  <2>4. ASSUME NEW i \in 1..Len(t)
        PROVE  /\ t[i] = "put" => i = Len(t) /\ name \in {"init", "add"}
               /\ t[i] # "sign"
               /\ i + 1 \in 1..Len(t) =>
                    /\ t[i + 1] = "users?" => t[i] = "settings?"
                    /\ t[i + 1] = "exists" => t[i] = "users?"
                    /\ t[i + 1] = "put" => t[i] = "exists"
               /\ name = "add" => t[i] \in AddSteps
    BY <1>1, <1>3, <2>2, <2>3 DEF StepsFit
  <2>5. name = "add" => t[Len(t)] = "put"
    BY <1>1, <1>3, <2>1, <2>2 DEF StepsFit
  <2> QED
    BY <1>3, <2>1, <2>3, <2>4, <2>5 DEF StepsFit
<1>8. ScriptFits(script')
  <2>1. ASSUME NEW i \in 1..Len(script')
        PROVE  /\ StepsFit(script'[i].name, script'[i].steps)
               /\ script'[i].name = script[i].name
               /\ i > 1 => script'[i].steps = script[i].steps
    <3>1. CASE i = 1
      BY <1>6, <1>7, <3>1 DEF name
    <3>2. CASE i # 1
      BY <1>6, <3>2 DEF ScriptFits
    <3> QED
      BY <3>1, <3>2
  <2>2. Len(script') \in 1..4 /\ script' \in Seq(R)
    BY <1>1, <1>6
  <2>3. ASSUME NEW i \in 1..Len(script')
        PROVE  /\ Len(script') - i = 3 => script'[i].name = "init"
               /\ Len(script') - i = 2 => script'[i].name = "add"
               /\ Len(script') - i = 1 => script'[i].name = "import"
               /\ Len(script') - i = 0 => script'[i].name = "auth"
               /\ i > 1 => script'[i].steps[1] \in {"connect", "dial", "sign"}
    BY <1>6, <2>1 DEF ScriptFits
  <2> QED
    BY <2>1, <2>2, <2>3 DEF ScriptFits, R
<1>11. Start!Command' = script'[1]
  BY <1>1, <1>6 DEF Start!Command
<1>9. Start!Command'.name = Start!Command.name
  BY <1>1, <1>6, <1>11 DEF name
<1>10. Start!Step' = s[2] /\ 1 + 1 \in 1..Len(s) /\ 1 \in 1..Len(s)
  <2>1. t # <<>> /\ 1 \in 1..Len(t)
    BY <1>1, <1>2, <1>3
  <2>2. Start!Step' = Head(t)
    BY <1>6, <1>11 DEF Start!Step
  <2>3. Head(t) = t[1] /\ t[1] = s[2]
    BY <1>3, <2>1
  <2> QED
    BY <1>1, <1>2, <2>2, <2>3
<1> QED
  BY <1>1, <1>8, <1>9, <1>10 DEF StepsFit

(* The password of admin is one that nobody knows, after one fault. *)
Lost == admin # None /\ admin \notin told /\ faults <= 1

LEMMA AgentStays ==
  ASSUME AgentFits,
         UNCHANGED AgentState
  PROVE  AgentFits'
BY DEF AgentState, AgentFits, Start!Granted

(* A move of the setup leaves the agent alone. *)
LEMMA SetupMoves ==
  ASSUME StartInv, ScriptFits(script'), SetupFits',
         UNCHANGED AgentState,
         up' \in BOOLEAN, made' \subseteq Start!Objects,
         admin' \in 0..MaxRuns \cup {None}, told' \subseteq 0..MaxRuns,
         setup' \in {"new", "running", "completed", "failed"},
         tries' \in 0..(Retries - 1), faults' \in 0..MaxFaults,
         runs' \in 0..MaxRuns
  PROVE  StartInv'
<1>1. AgentFits'
  BY AgentStays DEF StartInv
<1>2. Start!TypeOK'
  BY DEF AgentState, StartInv, Start!TypeOK, ScriptFits
<1> QED
  BY <1>1, <1>2 DEF AgentState, StartInv

LEMMA StepDoneKeeps ==
  ASSUME Start!BootstrapAssumption, StartInv, Start!StepDone
  PROVE  StartInv'
<1>1. /\ setup = "running" /\ Start!Step \notin {"put", "sign"} /\ up
      /\ Start!Needs(Start!Step) \subseteq made
      /\ made' = made \cup ({Start!Step} \cap Start!Objects)
      /\ Start!NextStep
      /\ UNCHANGED <<up, admin, told, AgentState, faults, runs>>
  BY DEF Start!StepDone, Start!Possible, Start!agentVars, Start!consumers,
    AgentState
<1>2. Start!TypeOK /\ ScriptFits(script) /\ SetupFits
  BY DEF StartInv
<1>3. made \subseteq made' /\ made' \subseteq Start!Objects
  BY <1>1, <1>2 DEF Start!TypeOK
<1>4. setup' = setup /\ tries' = 0
  BY <1>1 DEF Start!NextStep, Start!NextCommand
<1>5. CASE Len(Start!Command.steps) = 1
  <2>1. Start!NextCommand
    BY <1>1, <1>5 DEF Start!NextStep
  <2>2. ScriptFits(script') /\ Start!Step' \in {"connect", "dial", "sign"}
    BY <1>1, <1>2, <2>1, NextCommandFits
  <2>3. Start!Command.name # "add"
    BY <1>1, <1>2, <1>5, InHandIs DEF StepsFit
  <2>4. SetupFits'
    BY <1>1, <1>2, <2>2, <2>3 DEF SetupFits
  <2> QED
    BY <1>1, <1>2, <1>3, <1>4, <2>2, <2>4, SetupMoves
    DEF Start!TypeOK, Start!BootstrapAssumption
<1>6. CASE Len(Start!Command.steps) # 1
  <2>1. /\ ScriptFits(script') /\ Start!Command'.name = Start!Command.name
        /\ Start!Step' = "users?" => Start!Step = "settings?"
        /\ Start!Step' = "exists" => Start!Step = "users?"
        /\ Start!Step' = "put" => Start!Step = "exists"
    BY <1>1, <1>2, <1>6, NextStepFits
  <2>2. /\ Start!Step = "settings?" => "settings" \in made
        /\ Start!Step = "users?" => "users" \in made
    BY <1>1 DEF Start!Needs
  <2>3. SetupFits'
    BY <1>1, <1>2, <1>3, <1>4, <2>1, <2>2 DEF SetupFits
  <2> QED
    BY <1>1, <1>2, <1>3, <1>4, <2>1, <2>3, SetupMoves
    DEF Start!TypeOK, Start!BootstrapAssumption
<1> QED
  BY <1>5, <1>6

LEMMA PutKeeps ==
  ASSUME Start!BootstrapAssumption, StartInv, Start!Put
  PROVE  StartInv'
<1>1. /\ setup = "running" /\ Start!Step = "put"
      /\ admin' = Start!Password /\ told' = told \cup {Start!Password}
      /\ Start!NextStep
      /\ UNCHANGED <<up, made, AgentState, faults, runs>>
  BY DEF Start!Put, Start!At, Start!agentVars, Start!consumers, AgentState
<1>2. Start!TypeOK /\ ScriptFits(script) /\ SetupFits
  BY DEF StartInv
<1>3. Len(Start!Command.steps) = 1
  <2> DEFINE s == script[1].steps
  <2>1. /\ Start!Command.steps = s /\ s[1] = "put"
        /\ StepsFit(script[1].name, s) /\ Len(s) \in Nat \ {0}
    BY <1>1, <1>2, InHandIs
  <2> HIDE DEF s
  <2>2. 1 \in 1..Len(s)
    BY <2>1
  <2>3. 1 = Len(s)
    BY <2>1, <2>2 DEF StepsFit
  <2> QED
    BY <2>1, <2>3
<1>4. Start!NextCommand /\ setup' = setup /\ tries' = 0
  BY <1>1, <1>3 DEF Start!NextStep, Start!NextCommand
<1>5. ScriptFits(script') /\ Start!Step' \in {"connect", "dial", "sign"}
  BY <1>1, <1>2, <1>4, NextCommandFits
<1>6. Start!Password \in 0..MaxRuns
  BY <1>2 DEF Start!Password, Start!TypeOK, Start!BootstrapAssumption
<1>7. SetupFits'
  BY <1>1, <1>2, <1>5 DEF SetupFits
<1> QED
  BY <1>1, <1>2, <1>4, <1>5, <1>6, <1>7, SetupMoves
  DEF Start!TypeOK, Start!BootstrapAssumption

LEMMA NoServerKeeps ==
  ASSUME Start!BootstrapAssumption, StartInv, Start!NoServer
  PROVE  StartInv'
<1>1. /\ setup = "running" /\ ~up /\ Start!Step \in {"connect", "dial"}
      /\ UNCHANGED <<up, made, admin, told, AgentState, faults, runs>>
  BY DEF Start!NoServer, Start!agentVars, Start!consumers, AgentState
<1>2. \/ tries + 1 < Retries /\ tries' = tries + 1 /\ UNCHANGED <<setup, script>>
      \/ Start!NextCommand
  BY DEF Start!NoServer
<1>3. Start!TypeOK /\ ScriptFits(script) /\ SetupFits
  BY DEF StartInv
<1>4. ~Lost
  BY <1>1, <1>3 DEF SetupFits, Lost
<1>5. CASE tries + 1 < Retries /\ tries' = tries + 1 /\ UNCHANGED <<setup, script>>
  <2>1. Start!Step' = Start!Step
    BY <1>5 DEF Start!Step, Start!Command
  <2>2. SetupFits'
    BY <1>1, <1>3, <1>4, <2>1 DEF SetupFits, Lost
  <2>3. tries' \in 0..(Retries - 1)
    BY <1>3, <1>5 DEF Start!TypeOK, Start!BootstrapAssumption
  <2> QED
    BY <1>1, <1>3, <1>5, <2>2, <2>3, SetupMoves DEF Start!TypeOK
<1>6. CASE Start!NextCommand
  <2>1. ScriptFits(script') /\ Start!Step' \in {"connect", "dial", "sign"}
    BY <1>1, <1>3, <1>6, NextCommandFits
  <2>2. SetupFits'
    BY <1>1, <1>3, <1>4, <2>1 DEF SetupFits, Lost
  <2> QED
    BY <1>1, <1>3, <1>6, <2>1, <2>2, SetupMoves
    DEF Start!TypeOK, Start!BootstrapAssumption, Start!NextCommand
<1> QED
  BY <1>2, <1>5, <1>6

LEMMA RefusedKeeps ==
  ASSUME Start!BootstrapAssumption, StartInv, Start!Refused
  PROVE  StartInv'
<1>1. /\ setup = "running" /\ up /\ ~Start!Possible /\ Start!NextCommand
      /\ UNCHANGED <<up, made, admin, told, AgentState, faults, runs>>
  BY DEF Start!Refused, Start!agentVars, Start!consumers, AgentState
<1>2. Start!TypeOK /\ ScriptFits(script) /\ SetupFits
  BY DEF StartInv
<1>3. ~Lost
  <2> SUFFICES ASSUME Lost PROVE FALSE
    OBVIOUS
  <2>1. Start!Command.name = "add" /\ {"settings", "users"} \subseteq made
    BY <1>2 DEF SetupFits, Lost
  <2>2. Start!Step \in AddSteps
    BY <1>2, <2>1, InHandIs DEF StepsFit
  <2>3. Start!Needs(Start!Step) \subseteq {"settings", "users"}
    BY <2>2 DEF Start!Needs, AddSteps
  <2> QED
    BY <1>1, <2>1, <2>3 DEF Start!Possible
<1>4. Start!Step # "sign"
  BY <1>1 DEF Start!Possible, Start!Needs
<1>5. ScriptFits(script') /\ Start!Step' \in {"connect", "dial", "sign"}
  BY <1>1, <1>2, <1>4, NextCommandFits
<1>6. SetupFits'
  BY <1>1, <1>2, <1>3, <1>5 DEF SetupFits, Lost
<1> QED
  BY <1>1, <1>2, <1>5, <1>6, SetupMoves
  DEF Start!TypeOK, Start!BootstrapAssumption, Start!NextCommand

(* The one fault that loses the password is in the put of initialize. *)
LEMMA CommandFailsKeeps ==
  ASSUME Start!BootstrapAssumption, StartInv, Start!CommandFails
  PROVE  StartInv'
<1>1. /\ setup = "running" /\ up /\ Start!Step # "sign" /\ Start!NextCommand
      /\ faults < MaxFaults /\ faults' = faults + 1
      /\ \/ admin' = admin
         \/ Start!Step = "put" /\ admin' = Start!Password
      /\ made \subseteq made' /\ made' \subseteq made \cup Start!Objects
      /\ UNCHANGED <<up, told, AgentState, runs>>
  BY DEF Start!CommandFails, Start!Fault, Start!agentVars, Start!consumers,
    AgentState
<1>2. Start!TypeOK /\ ScriptFits(script) /\ SetupFits
  BY DEF StartInv
<1>3. /\ ScriptFits(script') /\ Start!Step' \in {"connect", "dial", "sign"}
      /\ Start!Command.name = "init" => Start!Command'.name = "add"
  BY <1>1, <1>2, NextCommandFits
<1>4. faults \in Nat /\ MaxFaults \in Nat
  BY <1>2 DEF Start!TypeOK, Start!BootstrapAssumption
<1>5. ASSUME Lost'
      PROVE  /\ setup' = "running" /\ Start!Command'.name = "add"
             /\ faults' = 1 /\ {"settings", "users"} \subseteq made'
  <2>1. faults = 0
    BY <1>1, <1>4, <1>5 DEF Lost
  <2>2. ~Lost
    BY <1>2, <2>1 DEF SetupFits, Lost
  <2>3. Start!Step = "put" /\ admin' = Start!Password
    BY <1>1, <1>5, <2>1, <2>2 DEF Lost
  <2>4. Start!Password # 0
    BY <1>1, <1>2, <1>5, <2>3 DEF SetupFits, Lost
  <2>5. Start!Command.name = "init"
    BY <2>4 DEF Start!Password
  <2> QED
    BY <1>1, <1>2, <1>3, <2>1, <2>3, <2>5 DEF SetupFits, Start!NextCommand
<1>6. SetupFits'
  BY <1>1, <1>2, <1>3, <1>5 DEF SetupFits, Lost
<1>7. admin' \in 0..MaxRuns \cup {None}
  BY <1>1, <1>2 DEF Start!Password, Start!TypeOK, Start!BootstrapAssumption
<1>8. faults' \in 0..MaxFaults
  BY <1>1, <1>4
<1> QED
  BY <1>1, <1>2, <1>3, <1>6, <1>7, <1>8, SetupMoves
  DEF Start!TypeOK, Start!BootstrapAssumption, Start!NextCommand

(* The setup starts, or ends, or the server comes up. *)
LEMMA SetupEndsKeep ==
  ASSUME Start!BootstrapAssumption, StartInv,
         Start!Sign \/ Start!SetupStarts \/ Start!ServerUp
  PROVE  StartInv'
<1>1. UNCHANGED <<made, admin, told, AgentState, faults>>
  BY DEF Start!Sign, Start!SetupStarts, Start!ServerUp, Start!agentVars,
    Start!consumers, AgentState, Start!setupVars
<1>2. Start!TypeOK /\ ScriptFits(script) /\ SetupFits
  BY DEF StartInv
<1>3. CASE Start!Sign
  <2>1. /\ Start!Step = "sign" /\ setup' \in {"completed", "failed"}
        /\ UNCHANGED <<up, script, tries, runs>>
    BY <1>3 DEF Start!Sign, Start!At
  <2>2. Start!Command.name = "auth"
    BY <1>2, <2>1, InHandIs DEF StepsFit
  <2>3. Start!Step' = Start!Step /\ ScriptFits(script')
    BY <1>2, <2>1 DEF Start!Step, Start!Command
  <2>4. SetupFits'
    BY <1>1, <1>2, <2>1, <2>2, <2>3 DEF SetupFits
  <2> QED
    BY <1>1, <1>2, <2>1, <2>3, <2>4, SetupMoves DEF Start!TypeOK
<1>4. CASE Start!SetupStarts
  <2>1. /\ runs < MaxRuns /\ setup # "running" /\ runs' = runs + 1
        /\ setup' = "running" /\ script' = Start!Script /\ tries' = 0 /\ up' = up
    BY <1>4 DEF Start!SetupStarts
  <2>2. ScriptFits(script') /\ Start!Step' = "connect"
    BY <2>1, ScriptIsOrdered DEF Start!Step, Start!Command
  <2>3. SetupFits'
    BY <1>1, <1>2, <2>1, <2>2 DEF SetupFits
  <2>4. runs' \in 0..MaxRuns /\ tries' \in 0..(Retries - 1)
    BY <1>2, <2>1 DEF Start!TypeOK, Start!BootstrapAssumption
  <2> QED
    BY <1>1, <1>2, <2>1, <2>2, <2>3, <2>4, SetupMoves DEF Start!TypeOK
<1>5. CASE Start!ServerUp
  <2>1. up' = TRUE /\ UNCHANGED <<setup, script, tries, runs>>
    BY <1>5 DEF Start!ServerUp, Start!setupVars
  <2>2. /\ Start!Step' = Start!Step /\ Start!Command' = Start!Command
        /\ ScriptFits(script')
    BY <1>2, <2>1 DEF Start!Step, Start!Command
  <2>3. SetupFits'
    BY <1>1, <1>2, <2>1, <2>2 DEF SetupFits
  <2> QED
    BY <1>1, <1>2, <2>1, <2>2, <2>3, SetupMoves DEF Start!TypeOK
<1> QED
  BY <1>3, <1>4, <1>5

(* A move of the agent leaves the setup alone, but for a fault. *)
LEMMA AgentMoves ==
  ASSUME Start!BootstrapAssumption, StartInv, AgentFits',
         UNCHANGED <<up, made, admin, told, setup, script, tries, teams,
                     cred>>,
         agent' \in {"idle", "dial", "bucket", "watch", "running", "ended"},
         agentTries' \in 0..AgentRetries, subscribed' \in BOOLEAN,
         watchers' \subseteq Start!Rights!watchList(teams),
         orphans' \in Nat, excused' \in Nat, faults' \in faults..MaxFaults,
         runs' \in 0..MaxRuns
  PROVE  StartInv'
<1>1. Start!TypeOK /\ ScriptFits(script) /\ SetupFits
  BY DEF StartInv
<1>2. faults \in Nat /\ MaxFaults \in Nat /\ faults \in 0..MaxFaults
  BY <1>1 DEF Start!TypeOK, Start!BootstrapAssumption
<1>3. Start!Step' = Start!Step /\ Start!Command' = Start!Command
  BY DEF Start!Step, Start!Command
<1>4. Lost' => Lost /\ faults' = faults
  <2> SUFFICES ASSUME Lost' PROVE Lost /\ faults' = faults
    OBVIOUS
  <2>1. Lost
    BY <1>2 DEF Lost
  <2>2. faults = 1
    BY <1>1, <2>1 DEF SetupFits, Lost
  <2> QED
    BY <1>2, <2>1, <2>2 DEF Lost
<1>5. SetupFits'
  BY <1>1, <1>3, <1>4 DEF SetupFits, Lost
<1>6. faults' \in 0..MaxFaults
  BY <1>2
<1>7. Start!TypeOK'
  BY <1>1, <1>6 DEF Start!TypeOK
<1> QED
  BY <1>1, <1>5, <1>7 DEF StartInv

(* Bootstrap counts as the library does. *)
LEMMA CountIs == \A S : Start!Cardinality(S) = Cardinality(S)
BY DEF Start!Cardinality, Cardinality, Start!IsFiniteSet, IsFiniteSet

(* Any credentials let the agent remove its consumers. *)
LEMMA UnwatchIsGranted == Start!Granted(Start!Rights!Unwatch)
BY DEF Start!Granted, Start!Rights!Grants,
  Start!Rights!createAgentCredentials, Start!Rights!Unwatch,
  Start!Rights!Sub, Start!Rights!Pub, Start!Rights!Matches

(* An agent with watchers gets the answers to its requests; when it stops  *)
(* the watchers, no more consumers are left than requests failed.          *)
LEMMA StopAllFits ==
  ASSUME Start!BootstrapAssumption, StartInv, agent \in {"watch", "running"},
         NEW n \in 0..1, NEW more \in 0..n, Start!StopAll(n, more)
  PROVE  /\ watchers' = {} /\ faults' \in faults..MaxFaults
         /\ orphans' \in Nat /\ excused' \in Nat /\ orphans' <= excused'
<1>1. Start!Answered(Start!Rights!Unwatch)
  BY UnwatchIsGranted DEF Start!Answered, StartInv, AgentFits
<1>2. Cardinality(watchers) \in Nat
  BY FS_CardinalityType DEF StartInv, AgentFits
<1>3. PICK failed \in 0..Cardinality(watchers),
           left \in 0..Cardinality(watchers) :
        /\ left <= failed /\ faults + n + failed <= MaxFaults
        /\ faults' = faults + n + failed /\ excused' = excused + n + failed
        /\ orphans' = orphans + more + left
        /\ watchers' = {}
  BY <1>1, CountIs DEF Start!StopAll
<1>4. /\ faults \in Nat /\ MaxFaults \in Nat
      /\ orphans \in Nat /\ excused \in Nat /\ orphans <= excused
  BY DEF StartInv, AgentFits, Start!TypeOK, Start!BootstrapAssumption
<1> QED
  BY <1>2, <1>3, <1>4

LEMMA AgentStepsKeep ==
  ASSUME Start!BootstrapAssumption, StartInv,
         \/ Start!AgentStarts \/ Start!natsConnect \/ Start!keyValueConnect
         \/ Start!SubjectSubscribe
         \/ \E k \in Start!Rights!watchList(teams) : Start!KVWatcher(k)
  PROVE  StartInv'
<1>1. UNCHANGED <<up, made, admin, told, setup, script, tries, teams, cred>>
  BY DEF Start!AgentStarts, Start!natsConnect, Start!keyValueConnect,
    Start!SubjectSubscribe, Start!KVWatcher, Start!setupVars
<1>2. /\ Start!TypeOK /\ AgentFits
      /\ AgentRetries \in Nat \ {0} /\ runs \in 0..MaxRuns /\ MaxRuns \in Nat
      /\ agentTries \in 0..AgentRetries /\ subscribed \in BOOLEAN
      /\ watchers \subseteq Start!Rights!watchList(teams)
      /\ orphans \in Nat /\ excused \in Nat
      /\ faults \in faults..MaxFaults
  BY DEF StartInv, Start!TypeOK, Start!BootstrapAssumption
<1>3. \A r : Start!Granted(r)' = Start!Granted(r)
  BY <1>1 DEF Start!Granted
<1>4. CASE Start!AgentStarts
  <2>1. /\ runs < MaxRuns /\ agent \in {"idle", "ended"} /\ runs' = runs + 1
        /\ agent' = "dial" /\ agentTries' = 0
        /\ UNCHANGED <<watchers, orphans, excused, subscribed, faults>>
    BY <1>4 DEF Start!AgentStarts, Start!consumers
  <2>2. AgentFits'
    BY <1>2, <2>1 DEF AgentFits
  <2>3. runs' \in 0..MaxRuns /\ agentTries' \in 0..AgentRetries
    BY <1>2, <2>1
  <2> QED
    BY <1>1, <1>2, <2>1, <2>2, <2>3, AgentMoves
<1>5. CASE Start!natsConnect
  <2>1. /\ agent = "dial"
        /\ UNCHANGED <<watchers, orphans, excused, subscribed, faults, runs>>
        /\ \/ agent' = "bucket" /\ agentTries' = agentTries
           \/ /\ agentTries' = agentTries + 1
              /\ agent' = IF agentTries' = AgentRetries THEN "ended" ELSE agent
    BY <1>5 DEF Start!natsConnect, Start!consumers
  <2>2. /\ agentTries' \in 0..AgentRetries
        /\ agent' \in {"dial", "bucket", "ended"}
        /\ agent' = "dial" => agentTries' < AgentRetries
    BY <1>2, <2>1 DEF AgentFits
  <2>3. AgentFits'
    BY <1>2, <2>1, <2>2 DEF AgentFits
  <2> QED
    BY <1>1, <1>2, <2>1, <2>2, <2>3, AgentMoves
<1>6. CASE Start!keyValueConnect
  <2>1. /\ agent = "bucket"
        /\ UNCHANGED <<agentTries, watchers, orphans, excused, subscribed,
                       runs>>
        /\ \/ faults' = faults
           \/ faults < MaxFaults /\ faults' = faults + 1
        /\ \/ agent' = "ended"
           \/ agent' = "watch" /\ Start!Answered(Start!Rights!BucketInfo)
    BY <1>6 DEF Start!keyValueConnect, Start!Fault, Start!consumers
  <2>2. watchers = {} /\ ~subscribed
    BY <1>2, <2>1 DEF AgentFits
  <2>3. AgentFits'
    BY <1>1, <1>2, <1>3, <2>1, <2>2 DEF AgentFits, Start!Answered
  <2>4. faults' \in faults..MaxFaults
    BY <1>2, <2>1 DEF Start!TypeOK, Start!BootstrapAssumption
  <2> QED
    BY <1>1, <1>2, <2>1, <2>3, <2>4, AgentMoves
<1>7. ASSUME NEW k \in Start!Rights!watchList(teams), Start!KVWatcher(k)
      PROVE  StartInv'
  <2>1. /\ agent = "watch" /\ Start!Answered(Start!Rights!Watch(k))
        /\ watchers' = watchers \cup {k}
        /\ UNCHANGED <<agent, agentTries, subscribed, orphans, excused, faults,
                       runs>>
    BY <1>7 DEF Start!KVWatcher
  <2>2. IsFiniteSet(watchers')
    BY <1>2, <2>1, FS_AddElement DEF AgentFits
  <2>3. AgentFits'
    BY <1>1, <1>2, <1>3, <2>1, <2>2 DEF AgentFits, Start!Answered
  <2> QED
    BY <1>1, <1>2, <2>1, <2>3, AgentMoves
<1>8. CASE Start!SubjectSubscribe
  <2>1. /\ agent = "watch" /\ watchers = Start!Rights!watchList(teams)
        /\ subscribed' = TRUE /\ agent' = "running"
        /\ UNCHANGED <<agentTries, watchers, orphans, excused, faults, runs>>
    BY <1>8 DEF Start!SubjectSubscribe, Start!consumers
  <2>2. AgentFits'
    BY <1>1, <1>2, <1>3, <2>1 DEF AgentFits
  <2> QED
    BY <1>1, <1>2, <2>1, <2>2, AgentMoves
<1> QED
  BY <1>4, <1>5, <1>6, <1>7, <1>8

(* An agent that ends leaves only what its failed requests, or its killing,*)
(* account for.                                                            *)
LEMMA AgentEndsKeep ==
  ASSUME Start!BootstrapAssumption, StartInv,
         \/ \E k \in Start!Rights!watchList(teams) : Start!KVWatcherFails(k)
         \/ Start!SubscribeFails \/ Start!AgentStops \/ Start!AgentKilled
         \/ Start!Expire
  PROVE  StartInv'
<1>1. UNCHANGED <<up, made, admin, told, setup, script, tries, teams, cred,
                  agentTries, runs>>
  BY DEF Start!KVWatcherFails, Start!SubscribeFails, Start!AgentStops,
    Start!AgentKilled, Start!Expire, Start!setupVars
<1>2. /\ Start!TypeOK /\ AgentFits /\ runs \in 0..MaxRuns
      /\ agentTries \in 0..AgentRetries /\ subscribed \in BOOLEAN
      /\ orphans \in Nat /\ excused \in Nat /\ orphans <= excused
      /\ faults \in faults..MaxFaults
  BY DEF StartInv, AgentFits, Start!TypeOK, Start!BootstrapAssumption
<1>3. IsFiniteSet({})
  BY FS_EmptySet
<1>4. ASSUME agent' = "ended", watchers' = {}, ~subscribed',
             subscribed' \in BOOLEAN, faults' \in faults..MaxFaults,
             orphans' \in Nat, excused' \in Nat, orphans' <= excused'
      PROVE  StartInv'
  <2>1. AgentFits'
    BY <1>3, <1>4 DEF AgentFits
  <2> QED
    BY <1>1, <1>2, <1>4, <2>1, AgentMoves
<1>5. ASSUME NEW k \in Start!Rights!watchList(teams), Start!KVWatcherFails(k)
      PROVE  StartInv'
  <2>1. /\ agent = "watch" /\ agent' = "ended" /\ subscribed' = subscribed
        /\ \E n \in 0..1 : \E more \in 0..n : Start!StopAll(n, more)
    BY <1>5 DEF Start!KVWatcherFails
  <2>2. ~subscribed
    BY <1>2, <2>1 DEF AgentFits
  <2> QED
    BY <1>2, <1>4, <2>1, <2>2, StopAllFits
<1>6. CASE Start!SubscribeFails
  <2>1. /\ agent = "watch" /\ agent' = "ended" /\ subscribed' = subscribed
        /\ Start!StopAll(1, 0)
    BY <1>6 DEF Start!SubscribeFails
  <2>2. ~subscribed
    BY <1>2, <2>1 DEF AgentFits
  <2> QED
    BY <1>2, <1>4, <2>1, <2>2, StopAllFits
<1>7. CASE Start!AgentStops
  <2>1. /\ agent = "running" /\ agent' = "ended" /\ subscribed' = FALSE
        /\ Start!StopAll(0, 0)
    BY <1>7 DEF Start!AgentStops
  <2>2. ~subscribed' /\ subscribed' \in BOOLEAN
    BY <2>1
  <2>3. 0 \in 0..1 /\ 0 \in 0..0
    OBVIOUS
  <2> QED
    BY <1>4, <2>1, <2>2, <2>3, StopAllFits
<1>8. CASE Start!AgentKilled
  <2>1. PICK more \in 0..1 :
          /\ agent' = "ended" /\ watchers' = {} /\ subscribed' = FALSE
          /\ orphans' = orphans + Cardinality(watchers) + more
          /\ excused' = excused + Cardinality(watchers) + more
          /\ faults' = faults
    BY <1>8, CountIs DEF Start!AgentKilled
  <2>2. Cardinality(watchers) \in Nat
    BY <1>2, FS_CardinalityType DEF AgentFits
  <2>3. /\ orphans' \in Nat /\ excused' \in Nat /\ orphans' <= excused'
    BY <1>2, <2>1, <2>2
  <2> QED
    BY <1>2, <1>4, <2>1, <2>3
<1>9. CASE Start!Expire
  <2>1. /\ orphans > 0 /\ orphans' = orphans - 1
        /\ UNCHANGED <<agent, watchers, subscribed, excused, faults>>
    BY <1>9 DEF Start!Expire
  <2>2. orphans' \in Nat /\ orphans' <= excused'
    BY <1>2, <2>1
  <2>3. AgentFits'
    BY <1>1, <1>2, <2>1, <2>2 DEF AgentFits, Start!Granted
  <2> QED
    BY <1>1, <1>2, <2>1, <2>2, <2>3, AgentMoves DEF Start!TypeOK
<1> QED
  BY <1>5, <1>6, <1>7, <1>8, <1>9

LEMMA StartKeeps ==
  ASSUME Start!BootstrapAssumption, StartInv, [Start!Next]_Start!vars
  PROVE  StartInv'
<1>1. CASE UNCHANGED Start!vars
  <2>1. /\ UNCHANGED AgentState
        /\ UNCHANGED <<up, made, admin, told, setup, script, tries, faults,
                       runs>>
    BY <1>1 DEF Start!vars, Start!setupVars, Start!agentVars, Start!consumers,
      AgentState
  <2>2. AgentFits'
    BY <2>1, AgentStays DEF StartInv
  <2> QED
    BY <2>1, <2>2, AgentMoves DEF AgentState, StartInv, Start!TypeOK,
      Start!BootstrapAssumption
<1> QED
  BY <1>1, StepDoneKeeps, PutKeeps, NoServerKeeps, RefusedKeeps,
    CommandFailsKeeps, SetupEndsKeep, AgentStepsKeep, AgentEndsKeep
  DEF Start!Next, Start!SetupSteps, Start!AgentSteps

LEMMA StartInitially ==
  ASSUME Start!BootstrapAssumption, Start!Init
  PROVE  StartInv
<1>1. ScriptFits(script) /\ Start!Step = "connect"
  BY ScriptIsOrdered DEF Start!Init, Start!Step, Start!Command
<1>2. SetupFits
  BY <1>1 DEF Start!Init, SetupFits
<1>3. /\ agent = "idle" /\ agentTries = 0 /\ watchers = {} /\ subscribed = FALSE
      /\ up = FALSE /\ made = {} /\ admin = None /\ told = {0}
      /\ setup = "new" /\ tries = 0 /\ faults = 0 /\ runs = 0
      /\ orphans = 0 /\ excused = 0
      /\ teams \subseteq Teams /\ teams # {} /\ cred \in Teams \cup {"*"}
  BY DEF Start!Init
<1>4. AgentFits
  <2>1. IsFiniteSet(watchers) /\ orphans <= excused
    BY <1>3, FS_EmptySet
  <2> QED
    BY <1>3, <2>1 DEF AgentFits
<1>5. /\ 0 \in 0..(Retries - 1) /\ 0 \in 0..AgentRetries
      /\ 0 \in 0..MaxFaults /\ 0 \in 0..MaxRuns
  BY DEF Start!BootstrapAssumption
<1>6. Start!TypeOK
  BY <1>1, <1>3, <1>5 DEF Start!TypeOK, ScriptFits
<1> QED
  BY <1>1, <1>2, <1>3, <1>4, <1>6 DEF StartInv

(* The credentials of a team are for no other team's settings. *)
LEMMA WatchesOwn ==
  ASSUME Start!BootstrapAssumption, cred \in Teams, NEW n \in Teams,
         Start!Granted(Start!Rights!Watch(<<n, "settings">>))
  PROVE  n = cred
<1> DEFINE s == Start!Rights!SettingsKV("id", <<n, "settings">>)
<1>1. cred # "*" /\ n # "check"
  BY DEF Start!BootstrapAssumption, Start!Rights!CredentialsAssumption
<1>2. /\ Len(s) = 7 /\ s[1] = "CONSUMER.CREATE" /\ s[2] = "KV_settings"
      /\ s[6] = n
  BY DEF Start!Rights!SettingsKV
<1> HIDE DEF s
<1>3. PICK p \in Start!Rights!createAgentCredentials(cred) :
        p.op = "pub" /\ Start!Rights!Matches(p.subject, s)
  BY DEF Start!Granted, Start!Rights!Grants, Start!Rights!Watch,
    Start!Rights!Pub, s
<1>4. p.subject \in {Start!Rights!ConsumerRule(cred),
        Start!Rights!SettingsKV("*", <<"check", "*">>),
        <<"results", cred, ">">>, <<"STREAM.INFO", "KV_settings">>,
        <<"CONSUMER.DELETE", "KV_settings", "*">>}
  BY <1>3 DEF Start!Rights!createAgentCredentials, Start!Rights!Pub,
    Start!Rights!Sub
<1>5. CASE p.subject = Start!Rights!ConsumerRule(cred)
  <2> DEFINE w == Start!Rights!ConsumerRule(cred)
  <2>1. Len(w) = 7 /\ w[6] = cred /\ w[7] = "settings"
    BY <1>1 DEF Start!Rights!ConsumerRule, Start!Rights!SettingsKV
  <2> HIDE DEF w
  <2>2. Start!Rights!Matches(w, s)
    BY <1>3, <1>5 DEF w
  <2> QED
    BY <1>1, <1>2, <2>1, <2>2 DEF Start!Rights!Matches
<1>6. CASE p.subject = Start!Rights!SettingsKV("*", <<"check", "*">>)
  <2> DEFINE w == Start!Rights!SettingsKV("*", <<"check", "*">>)
  <2>1. Len(w) = 7 /\ w[6] = "check" /\ w[7] = "*"
    BY DEF Start!Rights!SettingsKV
  <2> HIDE DEF w
  <2>2. Start!Rights!Matches(w, s)
    BY <1>3, <1>6 DEF w
  <2> QED
    BY <1>1, <1>2, <2>1, <2>2 DEF Start!Rights!Matches
<1>7. CASE p.subject = <<"results", cred, ">">>
  BY <1>2, <1>3, <1>7 DEF Start!Rights!Matches
<1>8. CASE p.subject = <<"STREAM.INFO", "KV_settings">>
  BY <1>2, <1>3, <1>8 DEF Start!Rights!Matches
<1>9. CASE p.subject = <<"CONSUMER.DELETE", "KV_settings", "*">>
  BY <1>2, <1>3, <1>9 DEF Start!Rights!Matches
<1> QED
  BY <1>4, <1>5, <1>6, <1>7, <1>8, <1>9

LEMMA ResultsAreGranted ==
  ASSUME Start!BootstrapAssumption, NEW n \in Teams, cred \in {"*", n},
         NEW x \in {"0", "1"}
  PROVE  Start!Granted(Start!Rights!Result(n, <<"dns">>, x))
<1> DEFINE s == <<"results", n>> \o <<"dns">> \o <<x>>
<1>1. n \in STRING
  BY DEF Start!BootstrapAssumption, Start!Rights!CredentialsAssumption
<1>2. Len(s) = 4 /\ s[1] = "results" /\ s[2] = n
  BY <1>1
<1> HIDE DEF s
<1>3. Start!Rights!Matches(<<"results", cred, ">">>, s)
  BY <1>2 DEF Start!Rights!Matches
<1>4. Start!Rights!Pub(<<"results", cred, ">">>)
        \in Start!Rights!createAgentCredentials(cred)
  BY DEF Start!Rights!createAgentCredentials
<1> QED
  BY <1>3, <1>4 DEF Start!Granted, Start!Rights!Grants, Start!Rights!Result,
    Start!Rights!Pub, s

LEMMA RunningIsGranted ==
  ASSUME Start!BootstrapAssumption, StartInv
  PROVE  Start!RunningAgentFits
<1> SUFFICES ASSUME subscribed
             PROVE  /\ watchers = Start!Rights!watchList(teams)
                    /\ \A r \in Start!Rights!AgentRequests(teams) :
                         Start!Granted(r)
  BY DEF Start!RunningAgentFits
<1>1. /\ agent = "running" /\ watchers = Start!Rights!watchList(teams)
      /\ Start!Granted(Start!Rights!Inbox(Start!Rights!inboxPrefix(teams)))
      /\ Start!Granted(Start!Rights!BucketInfo)
      /\ \A k \in watchers : Start!Granted(Start!Rights!Watch(k))
  BY DEF StartInv, AgentFits
<1>2. teams \subseteq Teams /\ cred \in Teams \cup {"*"}
  BY DEF StartInv, Start!TypeOK
<1>3. \A n \in teams : cred \in {"*", n}
  <2> TAKE n \in teams
  <2>1. <<n, "settings">> \in watchers
    BY <1>1 DEF Start!Rights!watchList
  <2> QED
    BY <1>1, <1>2, <2>1, WatchesOwn
<1>4. Start!Granted(Start!Rights!Triggers)
  BY DEF Start!Granted, Start!Rights!Grants,
    Start!Rights!createAgentCredentials, Start!Rights!Triggers,
    Start!Rights!Sub, Start!Rights!Pub, Start!Rights!Matches
<1>5. \A n \in teams, c \in {<<"dns">>}, x \in {"0", "1"} :
        Start!Granted(Start!Rights!Result(n, c, x))
  BY <1>2, <1>3, ResultsAreGranted
<1> QED
  BY <1>1, <1>4, <1>5, UnwatchIsGranted DEF Start!Rights!AgentRequests

(* Whatever fails at whichever step of the setup: one failure leaves an    *)
(* administrator's password that somebody knows; an agent runs only with   *)
(* credentials for all its teams, and its end leaves no consumer but for   *)
(* requests of its own that failed, unless it was killed.                  *)
THEOREM StartUpIsAlwaysSound == Spec => []StartUpIsSound
<1>1. Init => (part = "start" => StartInv)
  BY StartAssumption, StartInitially DEF Init, StartAssumption
<1>2. (part = "start" => StartInv) /\ [Next]_vars
        => (part = "start" => StartInv)'
  <2> SUFFICES ASSUME part = "start" => StartInv, [Next]_vars, part' = "start"
               PROVE  StartInv'
    OBVIOUS
  <2>1. part = "start" /\ [Start!Next]_Start!vars
    BY DEF Next, StartStep, ListStep, IntakeStep, FitStep, StartUnchanged,
      vars, startVars, Start!vars, Start!setupVars, Start!agentVars,
      Start!consumers
  <2> QED
    BY <2>1, StartAssumption, StartKeeps DEF StartAssumption
<1>3. (part = "start" => StartInv) => StartUpIsSound
  <2> SUFFICES ASSUME part = "start", StartInv
               PROVE  /\ Start!TypeOK /\ Start!AdminIsKnown
                      /\ Start!RunningAgentFits /\ Start!NoWatcherLeft
    BY DEF StartUpIsSound
  <2>1. Start!AdminIsKnown
    BY DEF StartInv, SetupFits, Start!AdminIsKnown
  <2>2. Start!NoWatcherLeft
    BY DEF StartInv, AgentFits, Start!NoWatcherLeft
  <2>3. Start!RunningAgentFits
    BY StartAssumption, RunningIsGranted DEF StartAssumption
  <2> QED
    BY <2>1, <2>2, <2>3 DEF StartInv
<1> QED
  BY <1>1, <1>2, <1>3, PTL DEF Spec
=============================================================================
