------------------------------ MODULE Readings ------------------------------
(***************************************************************************)
(* build_readings and what it calls (readings.py), for the rows of one     *)
(* statistic.  Slots are five-minute intervals as in ImportService; a row  *)
(* is the recorder's cumulative sum at the end of a slot.  The state of a  *)
(* row is not asked for (home_assistant.py, "types": ["sum"]), so the      *)
(* value sent is the sum.  Units and the text of numbers are left out;     *)
(* sums are integers in some unit of which Scale make one in the sixth     *)
(* decimal that is sent.                                                   *)
(***************************************************************************)
EXTENDS Integers, Sequences, FiniteSets

CONSTANTS
  None,       \* no sum, no delta, or no start
  Scale       \* DECIMAL_PLACES times the factor of _normalization

ASSUME ReadingsAssumption == Scale \in Nat \ {0} /\ None \notin Int

Row(start, sum) == [start |-> start, sum |-> sum]

\* The rows at some of their places, each where its rank says.
Ranked(rows, places, rank) ==
  [n \in 1 .. Cardinality(places) |-> rows[CHOOSE i \in places : rank[i] = n]]

\* Mutant: rows are taken in the order they came.
RowsAsTheyCome(rows) ==
  LET dated == {i \in DOMAIN rows : rows[i].start # None}
  IN Ranked(rows, dated, [i \in dated |-> Cardinality({j \in dated : j <= i})])

\* Rows without a start are skipped, the others taken in the order of time.  The
\* code sorts by the text of the start, which is that order for what Home
\* Assistant sends (epoch milliseconds of one width, or texts in one UTC offset).
InOrder(rows) ==
  LET dated == {i \in DOMAIN rows : rows[i].start # None}
      NoLater(i) == {j \in dated : \/ rows[j].start < rows[i].start
                                   \/ rows[j].start = rows[i].start /\ j <= i}
  IN Ranked(rows, dated, [i \in dated |-> Cardinality(NoLater(i))])

\* ROUND_HALF_UP, to the sixth decimal.
Quantized(n) ==
  LET Half(m) == (2 * m + Scale) \div (2 * Scale)
  IN IF n >= 0 THEN Half(n) ELSE -Half(-n)

Payload(n) == IF n = None THEN None ELSE Quantized(n)

\* Mutant: a sum that falls is sent as a negative delta.
SignedDelta(previous, current) ==
  CASE current = None -> None
    [] current # None /\ previous = None -> 0
    [] OTHER -> current - previous

\* What was added since the previous row: nothing after a gap or a reset.
Delta(previous, current) ==
  CASE current = None -> None
    [] current # None /\ (previous = None \/ current < previous) -> 0
    [] OTHER -> current - previous

\* Mutant: only a row inside the window becomes the previous one.
ReadWindowOnly(start, end, done, row) ==
  IF row.start < start \/ row.start + 1 > end
  THEN done
  ELSE [previous |-> row.sum,
        readings |-> Append(done.readings,
                            [slot |-> row.start, value |-> Payload(row.sum),
                             delta |-> Payload(Delta(done.previous, row.sum))])]

\* The body of the loop; "done" is what the rows before this one left.
ReadRow(start, end, done, row) ==
  CASE row.start < start -> [done EXCEPT !.previous = row.sum]
    [] row.start >= start /\ row.start + 1 > end -> done
    [] OTHER ->
         [previous |-> row.sum,
          readings |-> Append(done.readings,
                              [slot |-> row.start, value |-> Payload(row.sum),
                               delta |-> Payload(Delta(done.previous, row.sum))])]

\* What the loop has come to after each row.
Loop(rows, start, end) ==
  LET after[n \in 0 .. Len(rows)] ==
        IF n = 0
        THEN [previous |-> None, readings |-> <<>>]
        ELSE ReadRow(start, end, after[n - 1], rows[n])
  IN after

BuildReadings(rows, start, end) ==
  LET ordered == InOrder(rows)
  IN Loop(ordered, start, end)[Len(ordered)].readings

\* Mutant: the window is asked for without the slot before it.
FetchedExactly(rows, start, end) ==
  LET asked == {i \in DOMAIN rows :
                  rows[i].start = None \/ (start <= rows[i].start /\ rows[i].start < end)}
  IN Ranked(rows, asked, [i \in asked |-> Cardinality({j \in asked : j <= i})])

\* What run_cycle asks the recorder for: the window and the slot before it.
Fetched(rows, start, end) ==
  LET asked == {i \in DOMAIN rows :
                  rows[i].start = None \/ (start - 1 <= rows[i].start /\ rows[i].start < end)}
  IN Ranked(rows, asked, [i \in asked |-> Cardinality({j \in asked : j <= i})])

Imported(rows, start, end) == BuildReadings(Fetched(rows, start, end), start, end)

=============================================================================
