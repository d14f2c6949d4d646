------------------------------ MODULE TeamList ------------------------------
(***************************************************************************)
(* ParseTeams: the value of --teams, e.g. "1,3,5-8,10", into a list of     *)
(* team numbers.  The argument is taken as the sequence of its comma       *)
(* separated parts; a number in it may be too large for a team number.     *)
(***************************************************************************)
EXTENDS Naturals, Sequences, Functions

CONSTANTS
  MaxTeam,   \* the largest uint16
  Numbers,   \* the numbers that may be written
  MaxParts   \* bound: parts of the argument

TeamListAssumption ==
  /\ MaxTeam \in Nat
  /\ Numbers \subseteq Nat
  /\ MaxParts \in Nat

VARIABLES
  parts,   \* the parts still to be read, and the one being read
  n,       \* the counter of the range being read, a uint64
  result,
  status,  \* part, range, done or error
  input    \* history: the argument

vars == <<parts, n, result, status, input>>

(* blank: nothing but spaces; bad: not a number (a sign, a letter, a third *)
(* number); a single number is not a range of length 1.                    *)
Part == [kind : {"blank", "bad"}, lo : {0}, hi : {0}]
          \cup [kind : {"range"}, lo : Numbers, hi : Numbers]
          \cup {[kind |-> "team", lo |-> k, hi |-> k] : k \in Numbers}

Read(kind) == status = "part" /\ parts # <<>> /\ Head(parts).kind = kind

IsTeam(k) == k <= MaxTeam

Fail == status' = "error" /\ UNCHANGED <<parts, n, result>>

(* Mutant: numbers may be listed twice. *)
AddTeam_Always(t) == result' = Append(result, t)

AddTeam(t) ==
  result' = IF t \in Range(result) THEN result ELSE Append(result, t)

SkipBlank ==
  /\ Read("blank")
  /\ parts' = Tail(parts)
  /\ UNCHANGED <<n, result, status, input>>

ReadTeam ==
  /\ Read("team")
  /\ IF IsTeam(Head(parts).lo)
     THEN /\ AddTeam(Head(parts).lo)
          /\ parts' = Tail(parts)
          /\ UNCHANGED <<n, status>>
     ELSE Fail
  /\ UNCHANGED input

BeginRange ==
  /\ Read("range")
  /\ IF /\ IsTeam(Head(parts).lo) /\ IsTeam(Head(parts).hi)
        /\ Head(parts).lo <= Head(parts).hi
     THEN /\ n' = Head(parts).lo /\ status' = "range"
          /\ UNCHANGED <<parts, result>>
     ELSE Fail
  /\ UNCHANGED input

(* Mutant: the counter of the range has the width of a team number. *)
NextInRange_Narrow ==
  /\ status = "range" /\ n <= Head(parts).hi
  /\ AddTeam(n)
  /\ n' = (n + 1) % (MaxTeam + 1)
  /\ UNCHANGED <<parts, status, input>>

(* n is wider than a team number and passes the largest one. *)
NextInRange ==
  /\ status = "range" /\ n <= Head(parts).hi
  /\ AddTeam(n)
  /\ n' = n + 1
  /\ UNCHANGED <<parts, status, input>>

EndRange ==
  /\ status = "range" /\ n > Head(parts).hi
  /\ parts' = Tail(parts) /\ status' = "part" /\ n' = 0
  /\ UNCHANGED <<result, input>>

ReadBad ==
  /\ Read("bad")
  /\ Fail
  /\ UNCHANGED input

(* An argument that names no team is an error as well. *)
Finish ==
  /\ status = "part" /\ parts = <<>>
  /\ status' = IF result = <<>> THEN "error" ELSE "done"
  /\ UNCHANGED <<parts, n, result, input>>

ParseStep ==
  \/ SkipBlank \/ ReadTeam \/ ReadBad
  \/ BeginRange \/ NextInRange \/ EndRange \/ Finish

Init ==
  /\ input \in UNION {[1..k -> Part] : k \in 0..MaxParts}
  /\ parts = input
  /\ n = 0 /\ result = <<>> /\ status = "part"

Spec == Init /\ [][ParseStep]_vars
FairSpec == Spec /\ WF_vars(ParseStep)

-----------------------------------------------------------------------------
TypeOK ==
  /\ input \in Seq(Part) /\ parts \in Seq(Part)
  /\ n \in 0..(MaxTeam + 1)
  /\ result \in Seq(0..MaxTeam)
  /\ status \in {"part", "range", "done", "error"}

(* The reference: the teams a part names, none if it is not well formed. *)
TeamsOf(p) == CASE p.kind = "blank" -> {}
                [] p.kind = "team" -> {p.lo}
                [] p.kind = "range" -> p.lo..p.hi
                [] OTHER -> {}

WellFormed(p) ==
  /\ p.kind # "bad"
  /\ p.lo <= p.hi /\ IsTeam(p.hi)

(* A list is returned if and only if every part is well formed and names a *)
(* team somewhere; it has each team of each part, once.                    *)
ListIsExact ==
  LET named == UNION {TeamsOf(p) : p \in Range(input)} IN
  /\ status = "done" =>
       /\ \A p \in Range(input) : WellFormed(p)
       /\ Range(result) = named /\ IsInjective(result)
  /\ status = "error" =>
       named = {} \/ \E p \in Range(input) : ~WellFormed(p)
=============================================================================
