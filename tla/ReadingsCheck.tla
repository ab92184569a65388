---------------------------- MODULE ReadingsCheck ----------------------------
(***************************************************************************)
(* Readings against a definition by neighbours, for every table of a       *)
(* recorder, in whatever order its rows are listed, and every window.      *)
(***************************************************************************)
EXTENDS Readings

CONSTANTS
  LastSlot,   \* bound: the slots are 0 .. LastSlot
  Sums        \* the sums a row may have

ASSUME ReadingsCheckAssumption == LastSlot \in Nat /\ Sums \subseteq Int

\* Two that differ by a fraction of Scale, and one of them below zero.
SomeSums == {-1, 2}

VARIABLE rows   \* the recorder's answer, as a list

Slots == 0 .. LastSlot

Init == rows = <<>>

\* A slot has at most one row, a row may lack its sum, one may lack its start.
AddRow ==
  \E start \in Slots \cup {None}, sum \in Sums \cup {None} :
    /\ \A i \in DOMAIN rows : rows[i].start # start
    /\ rows' = Append(rows, Row(start, sum))

Next == AddRow

Spec == Init /\ [][Next]_rows

-----------------------------------------------------------------------------
RowSlots == {rows[i].start : i \in DOMAIN rows} \ {None}

SumAt(s) == rows[CHOOSE i \in DOMAIN rows : rows[i].start = s].sum

\* The sum of the last row before s that is at or after first.
SumBefore(first, s) ==
  LET before == {q \in RowSlots : first <= q /\ q < s}
  IN IF before = {} THEN None ELSE SumAt(CHOOSE q \in before : \A o \in before : o <= q)

Windows == {w \in (1 .. LastSlot + 1) \X (1 .. LastSlot + 1) : w[1] < w[2]}

\* What is sent for any window is made of whole numbers, and no delta is negative.
TypeOK ==
  /\ rows \in Seq([start : Slots \cup {None}, sum : Sums \cup {None}])
  /\ \A w \in Windows :
       Imported(rows, w[1], w[2]) \in
         Seq([slot : Slots, value : Int \cup {None}, delta : Nat \cup {None}])

\* Growth from one row to the next, 0 where there is nothing to compare.
Growth(first, s) ==
  IF SumAt(s) = None \/ SumBefore(first, s) = None \/ SumAt(s) < SumBefore(first, s)
  THEN 0
  ELSE SumAt(s) - SumBefore(first, s)

(***************************************************************************)
(* An import sends one reading per row of its window, in the order of      *)
(* time, and its delta is taken from the row just before it, be that the   *)
(* one the window does not include, however the recorder listed them.      *)
(***************************************************************************)
DeltasAreBetweenNeighbours ==
  \A w \in Windows :
    LET readings == Imported(rows, w[1], w[2])
        slots == {s \in RowSlots : w[1] <= s /\ s < w[2]}
    IN /\ Len(readings) = Cardinality(slots)
       /\ {readings[i].slot : i \in DOMAIN readings} = slots
       /\ \A i, j \in DOMAIN readings : i < j => readings[i].slot < readings[j].slot
       /\ \A i \in DOMAIN readings :
            LET s == readings[i].slot
            IN readings[i].delta = IF SumAt(s) = None THEN None
                                   ELSE Quantized(Growth(w[1] - 1, s))

(***************************************************************************)
(* Two imports of adjoining windows send what one import of both would,    *)
(* provided the last slot of the first has a row, or there is nothing      *)
(* before it to count from.                                                *)
(***************************************************************************)
WindowsCompose ==
  \A w \in Windows : \A mid \in w[1] + 1 .. w[2] - 1 :
    mid - 1 \in RowSlots \/ RowSlots \cap (w[1] - 1 .. mid - 1) = {}
      => Imported(rows, w[1], mid) \o Imported(rows, mid, w[2]) = Imported(rows, w[1], w[2])

\* What the first n deltas add up to, for each n.
Totals(readings) ==
  LET total[n \in 0 .. Len(readings)] ==
        IF n = 0 THEN 0 ELSE total[n - 1] + readings[n].delta
  IN total

(***************************************************************************)
(* Over a window without missing sums the deltas add up to at least what   *)
(* the sum grew, up to the rounding of each to the sixth decimal, and to   *)
(* no more unless the sum fell in between.                                 *)
(***************************************************************************)
DeltasAddUp ==
  \A w \in Windows :
    LET readings == Imported(rows, w[1], w[2])
        used == RowSlots \cap (w[1] - 1 .. w[2] - 1)
        first == CHOOSE s \in used : \A o \in used : s <= o
        last == CHOOSE s \in used : \A o \in used : o <= s
        total == Totals(readings)[Len(readings)]
        slack == Len(readings) * Scale
    IN used # {} /\ (\A s \in used : SumAt(s) # None) =>
         /\ 2 * (Scale * total - (SumAt(last) - SumAt(first))) >= -slack
         /\ (\A s, t \in used : s < t => SumAt(s) <= SumAt(t)) =>
              2 * (Scale * total - (SumAt(last) - SumAt(first))) <= slack

=============================================================================
