---------------------------- MODULE ScoreQuery -----------------------------
(***************************************************************************)
(* "score query": the points of each team over a range of time, read from  *)
(* the table the sink fills.  The table is the ledger that the sink was    *)
(* shown to implement.  A row has the timestamp that the agent put in the  *)
(* result, which need not follow the order of the stream; the query        *)
(* compares whole seconds.                                                 *)
(***************************************************************************)
EXTENDS ResultsLedger, FiniteSets

CONSTANTS
  Teams, Checks,
  TeamOf, CheckOf, Points,   \* the row a parseable message makes
  PerSecond,                 \* instants in a second
  Day,                       \* how far back a query goes by default
  None,
  MaxTime,                   \* bound: instants
  MaxResults                 \* bound: published results

QueryAssumption ==
  /\ Parseable \subseteq Messages
  /\ None \notin Teams \cup Checks
  /\ TeamOf \in [Parseable -> Teams] /\ CheckOf \in [Parseable -> Checks]
  /\ Points \in [Parseable -> 0..255]
  /\ PerSecond \in Nat \ {0} /\ Day \in Nat
  /\ MaxTime \in Nat /\ MaxResults \in Nat

VARIABLES
  time,     \* the timestamp in each result of the stream
  now,      \* the clock of whoever asks
  answer    \* what the last query printed: team -> points

queryVars == <<time, now, answer>>
vars == <<ledgerVars, queryVars>>

Instant == 0..MaxTime
Flags == [start : Instant \cup {None}, end : Instant \cup {None},
          team : Teams \cup {None}, check : Checks \cup {None}]

Second(t) == t \div PerSecond

(* Mutant: the end is part of the range. *)
InRange_Closed(t, q) ==
  Second(q.start) <= Second(t) /\ Second(t) <= Second(q.end)

(* datetime(timestamp) >= datetime(?) AND datetime(timestamp) < datetime(?) *)
InRange(t, q) == Second(q.start) <= Second(t) /\ Second(t) < Second(q.end)

filterClause(m, q) ==
  q.team \in {None, TeamOf[m]} /\ q.check \in {None, CheckOf[m]}

Selected(q) ==
  {s \in recorded : InRange(time[s], q) /\ filterClause(stream[s], q)}

(* The sum of the values of f: each is counted out, one by one. *)
Units(f) == UNION {{x} \X (1..f[x]) : x \in DOMAIN f}
Total(f) == Cardinality(Units(f))

(* SUM(points) *)
Sum(rows) == Total([s \in rows |-> Points[stream[s]]])

RowsOf(team, rows) == {s \in rows : TeamOf[stream[s]] = team}

(* A team has a line if it has a row, even one of no points. *)
TeamScores(q) ==
  [t \in {TeamOf[stream[s]] : s \in Selected(q)} |-> Sum(RowsOf(t, Selected(q)))]

(* An option that is not given: the last day up to now. *)
buildScoreQuery(f) ==
  [f EXCEPT !.start = IF @ # None THEN @ ELSE IF now > Day THEN now - Day ELSE 0,
            !.end = IF @ # None THEN @ ELSE now]

List(f) ==
  /\ answer' = TeamScores(buildScoreQuery(f))
  /\ UNCHANGED <<ledgerVars, time, now>>

(* External: an agent's clock is its own, and it may publish late. *)
PublishResult ==
  /\ Len(stream) < MaxResults
  /\ Publish
  /\ \E t \in Instant : time' = Append(time, t)
  /\ UNCHANGED <<now, answer>>

Tick ==
  /\ now < MaxTime
  /\ now' = now + 1
  /\ UNCHANGED <<ledgerVars, time, answer>>

(* The rest of what the sink does leaves the table alone. *)
InsertBatch == Record /\ UNCHANGED queryVars

Next == PublishResult \/ Tick \/ InsertBatch \/ \E f \in Flags : List(f)

Init ==
  /\ LedgerInit
  /\ time = <<>> /\ now = 0
  /\ answer = << >>

Spec == Init /\ [][Next]_vars

-----------------------------------------------------------------------------
TypeOK ==
  /\ stream \in Seq(Messages) /\ recorded \subseteq Recordable
  /\ time \in Seq(Instant) /\ Len(time) = Len(stream)
  /\ now \in Instant
  /\ DOMAIN answer \subseteq Teams /\ \A t \in DOMAIN answer : answer[t] \in Nat

Score(team, q) == IF team \in DOMAIN TeamScores(q) THEN TeamScores(q)[team] ELSE 0
Query(t1, t2, team, check) ==
  [start |-> t1, end |-> t2, team |-> team, check |-> check]

(* A competition scored in pieces comes out as in one: two ranges that     *)
(* meet, even in the middle of a second, count every row of the whole once. *)
RangesAddUp ==
  \A t1, t2, t3 \in Instant : t1 <= t2 /\ t2 <= t3 =>
    \A team \in Teams, check \in Checks \cup {None} :
      Score(team, Query(t1, t2, None, check))
        + Score(team, Query(t2, t3, None, check))
      = Score(team, Query(t1, t3, None, check))

(* What --team and --check leave out is only what they name: the line of a *)
(* team is the same with or without the others, and the checks of a team   *)
(* add up to its line.                                                     *)
FiltersProject ==
  \A t1, t2 \in Instant, team \in Teams :
    LET all == Score(team, Query(t1, t2, None, None)) IN
    /\ Score(team, Query(t1, t2, team, None)) = all
    /\ Total([c \in Checks |-> Score(team, Query(t1, t2, team, c))]) = all

(* With a sink that has caught up, a query between whole seconds gives     *)
(* exactly the points published for that time, late and equal results      *)
(* included.                                                               *)
CaughtUpIsExact ==
  recorded = Recordable =>
    \A t1, t2 \in {t \in Instant : t % PerSecond = 0}, team \in Teams :
      Score(team, Query(t1, t2, None, None)) =
        Sum({s \in Recordable :
               TeamOf[stream[s]] = team /\ time[s] \in t1..(t2 - 1)})
=============================================================================
