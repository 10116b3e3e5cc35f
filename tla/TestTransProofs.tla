--------------------------- MODULE TestTransProofs ---------------------------
(***************************************************************************)
(* Theorems about the transposes and the programs that evaluate them, for  *)
(* every shape up to 256 x 256, every session, every place of the arrays   *)
(* and every moment at which a child may be killed: which shapes each      *)
(* function transposes, that the trace simulated is that of the function   *)
(* alone, and that the results are those of the submitted function.        *)
(*                                                                         *)
(* The cells a function copies are determined loop by loop, from the       *)
(* innermost (a row, a pair of rows, a block) to the grid of its blocks;   *)
(* then what this leaves in B; then what the filter keeps of the trace;    *)
(* then what a cache of one way counts; then what test-trans records.      *)
(***************************************************************************)
EXTENDS TestTrans, DataLemmas, FiniteSetTheorems

(* A function on 1 .. n is a sequence of length n.                         *)
LEMMA FunctionIsSeq ==
  ASSUME NEW S, NEW n \in Nat, NEW x \in [1 .. n -> S]
  PROVE  x \in Seq(S) /\ Len(x) = n /\ DOMAIN x = 1 .. n
<1>1. x \in Seq(S)
  BY SeqDef
<1>2. DOMAIN x = 1 .. Len(x) /\ DOMAIN x = 1 .. n /\ Len(x) \in Nat
  BY <1>1, LenProperties
<1> QED BY <1>1, <1>2

(* A for loop whose bounds leave n rounds.                                 *)
Leave(from, below, step, n) ==
  /\ below <= from + n * step
  /\ IF n = 0 THEN below = from ELSE from + (n - 1) * step < below

(* Round r of it.                                                          *)
Start(from, r, step) == from + (r - 1) * step
Rounds(from, step, n) == [r \in 1 .. n |-> Start(from, r, step)]

(* Steps gives the values a for loop takes, one for each of its n rounds.  *)
LEMMA StepsFacts ==
  ASSUME NEW from \in Int, NEW below \in Int, NEW n \in Nat, NEW step \in {1, 2, 4, 8, 16},
         Leave(from, below, step, n)
  PROVE  Steps(from, below, step) = Rounds(from, step, n)
<1> USE DEF Leave
<1>1. (below - from + step - 1) \div step = n
  <2>1. CASE step = 1
    BY <2>1
  <2>2. CASE step = 2
    BY <2>2
  <2>3. CASE step = 4
    BY <2>3
  <2>4. CASE step = 8
    BY <2>4
  <2>5. CASE step = 16
    BY <2>5
  <2> QED BY <2>1, <2>2, <2>3, <2>4, <2>5
<1>2. Max({0, n}) = n
  <2>1. {0, n} \in SUBSET Nat /\ {0, n} # {} /\ \A x \in {0, n} : x <= n
    OBVIOUS
  <2>2. Max({0, n}) \in {0, n} /\ \A x \in {0, n} : x <= Max({0, n})
    BY <2>1, MaxOfNats
  <2> QED BY <2>2
<1> QED BY <1>1, <1>2 DEF Steps, Rounds, Start

(* Cells, and loops of copies.                                             *)
Coords == Nat \X Nat

(* What one innermost loop copies: it loads the cells it stores.           *)
Moves == {c \in [loads : Seq(Coords), stores : Seq(Coords)] : ToSet(c.loads) = ToSet(c.stores)}
Lines == Seq(Moves)

(* The cells a line stores; bands and rectangles of cells.                 *)
CellsOf(copies) == UNION {ToSet(copies[n].stores) : n \in DOMAIN copies}
Band(from, length) == from .. from + length - 1
Rect(rows, columns) == rows \X columns

(* A record of loads and stores of the same cells is a move.               *)
LEMMA MoveFacts ==
  ASSUME NEW q \in Seq(Coords), NEW u \in Seq(Coords), ToSet(q) = ToSet(u),
         NEW x, x = [loads |-> q, stores |-> u]
  PROVE  x \in Moves /\ x.loads = q /\ x.stores = u
  BY DEF Moves

(* Copy loads and stores the cells it is given.                            *)
LEMMA CopyFacts ==
  ASSUME NEW x \in Seq(Coords)
  PROVE  Copy(x) \in Moves /\ Copy(x).stores = x /\ Copy(x).loads = x
  BY DEF Copy, Moves

(* Cell copies one cell.                                                   *)
LEMMA CellFacts ==
  ASSUME NEW r \in Nat, NEW c \in Nat
  PROVE  Cell(r, c) \in Moves /\ ToSet(Cell(r, c).stores) = {<<r, c>>}
<1>1. PICK x : x = <<<<r, c>>>>
  OBVIOUS
<1>2. x \in Seq(Coords) /\ ToSet(x) = {<<r, c>>}
  BY <1>1 DEF Coords, ToSet
<1>3. Cell(r, c) = Copy(x)
  BY <1>1 DEF Cell
<1> QED BY <1>2, <1>3, CopyFacts

(* Bands of w values side by side.                                         *)
InBands(v, a, n, w) == \E p \in 1 .. n : v \in Band(Start(a, p, w), w)

(* n bands of width w side by side are one band of width n * w.            *)
LEMMA BandFacts ==
  ASSUME NEW a \in Nat, NEW n \in Nat, NEW w \in {1, 2, 4, 8, 16}, NEW v
  PROVE  v \in Band(a, n * w) <=> InBands(v, a, n, w)
<1>1. ASSUME v \in Band(a, n * w)
      PROVE  \E p \in 1 .. n : v \in Band(Start(a, p, w), w)
  <2> USE <1>1 DEF Band, Start
  <2>1. PICK p \in Int : p = (v - a) \div w + 1
    OBVIOUS
  <2>2. p \in 1 .. n /\ v \in Band(Start(a, p, w), w)
    <3>1. CASE w = 1
      BY <2>1, <3>1
    <3>2. CASE w = 2
      BY <2>1, <3>2
    <3>3. CASE w = 4
      BY <2>1, <3>3
    <3>4. CASE w = 8
      BY <2>1, <3>4
    <3>5. CASE w = 16
      BY <2>1, <3>5
    <3> QED BY <3>1, <3>2, <3>3, <3>4, <3>5
  <2> QED BY <2>2
<1>2. ASSUME NEW p \in 1 .. n, v \in Band(Start(a, p, w), w)
      PROVE  v \in Band(a, n * w)
  <2> USE <1>2 DEF Band, Start
  <2>1. CASE w = 1
    BY <2>1
  <2>2. CASE w = 2
    BY <2>2
  <2>3. CASE w = 4
    BY <2>3
  <2>4. CASE w = 8
    BY <2>4
  <2>5. CASE w = 16
    BY <2>5
  <2> QED BY <2>1, <2>2, <2>3, <2>4, <2>5
<1> QED BY <1>1, <1>2 DEF InBands

(* The same of cells.                                                      *)
InRowBands(y, a, n, w, columns) == \E p \in 1 .. n : y \in Rect(Band(Start(a, p, w), w), columns)
InColumnBands(y, rows, a, n, w) == \E p \in 1 .. n : y \in Rect(rows, Band(Start(a, p, w), w))

(* Bands of rows, one below the other, make a rectangle.                   *)
LEMMA RowBands ==
  ASSUME NEW a \in Nat, NEW n \in Nat, NEW w \in {1, 2, 4, 8, 16}, NEW columns, NEW y
  PROVE  y \in Rect(Band(a, n * w), columns) <=> InRowBands(y, a, n, w, columns)
<1>1. ASSUME NEW v
      PROVE  v \in Band(a, n * w) <=> \E p \in 1 .. n : v \in Band(Start(a, p, w), w)
  BY BandFacts, ZenonT(60) DEF InBands
<1>2. \A S : y \in Rect(S, columns) <=> \E v \in S : \E c \in columns : y = <<v, c>>
  BY DEF Rect
<1> QED BY <1>1, <1>2 DEF InRowBands

(* Bands of columns, side by side, make a rectangle.                       *)
LEMMA ColumnBands ==
  ASSUME NEW a \in Nat, NEW n \in Nat, NEW w \in {1, 2, 4, 8, 16}, NEW rows, NEW y
  PROVE  y \in Rect(rows, Band(a, n * w)) <=> InColumnBands(y, rows, a, n, w)
<1>1. ASSUME NEW v
      PROVE  v \in Band(a, n * w) <=> \E p \in 1 .. n : v \in Band(Start(a, p, w), w)
  BY BandFacts, ZenonT(60) DEF InBands
<1>2. \A S : y \in Rect(rows, S) <=> \E v \in S : \E c \in rows : y = <<c, v>>
  BY DEF Rect
<1> QED BY <1>1, <1>2 DEF InColumnBands

(* Members of a band by their number.                                      *)
RoundOf(v, from, n) == \E p \in 1 .. n : v = from + (p - 1)
OnRow(y, r, from, n) == \E p \in 1 .. n : y = <<r, from + (p - 1)>>
OnColumn(y, c, from, n) == \E p \in 1 .. n : y = <<from + (p - 1), c>>

(* The members of a band, numbered from 1.                                 *)
LEMMA BandIff ==
  ASSUME NEW from \in Nat, NEW n \in Nat, NEW v
  PROVE  v \in Band(from, n) <=> RoundOf(v, from, n)
<1>1. ASSUME v \in Band(from, n)
      PROVE  v - from + 1 \in 1 .. n /\ v = from + ((v - from + 1) - 1)
  BY <1>1 DEF Band
<1>2. ASSUME NEW p \in 1 .. n
      PROVE  from + (p - 1) \in Band(from, n)
  BY DEF Band
<1> QED BY <1>1, <1>2 DEF RoundOf

(* The cells of a part of a row, numbered from 1.                          *)
LEMMA RowCells ==
  ASSUME NEW from \in Nat, NEW n \in Nat, NEW z, NEW y
  PROVE  y \in Rect({z}, Band(from, n)) <=> OnRow(y, z, from, n)
<1>1. y \in Rect({z}, Band(from, n)) <=> \E v \in Band(from, n) : y = <<z, v>>
  BY DEF Rect
<1>2. \A v : v \in Band(from, n) <=> RoundOf(v, from, n)
  BY BandIff
<1> QED BY <1>1, <1>2 DEF RoundOf, OnRow

(* The cells of a part of a column, numbered from 1.                       *)
LEMMA ColumnCells ==
  ASSUME NEW from \in Nat, NEW n \in Nat, NEW z, NEW y
  PROVE  y \in Rect(Band(from, n), {z}) <=> OnColumn(y, z, from, n)
<1>1. y \in Rect(Band(from, n), {z}) <=> \E v \in Band(from, n) : y = <<v, z>>
  BY DEF Rect
<1>2. \A v : v \in Band(from, n) <=> RoundOf(v, from, n)
  BY BandIff
<1> QED BY <1>1, <1>2 DEF RoundOf, OnColumn

(* The cells of a line are those of its copies, and those of loops are     *)
(* those of their lines.                                                   *)
LEMMA LineFacts ==
  ASSUME NEW n \in Nat, NEW x, x = [p \in 1 .. n |-> x[p]], \A p \in 1 .. n : x[p] \in Moves
  PROVE  /\ x \in Lines
         /\ \A y : y \in CellsOf(x) <=> \E p \in 1 .. n : y \in ToSet(x[p].stores)
<1>1. x \in [1 .. n -> Moves]
  OBVIOUS
<1>2. x \in Lines /\ DOMAIN x = 1 .. n
  BY <1>1, FunctionIsSeq DEF Lines
<1> QED BY <1>2 DEF CellsOf

Cells(loops) == UNION {CellsOf(loops[n]) : n \in DOMAIN loops}

(* A function from 1 .. n to lines is a sequence of loops, whose cells are *)
(* those of its lines.                                                     *)
LEMMA LoopsFacts ==
  ASSUME NEW n \in Nat, NEW x, x = [p \in 1 .. n |-> x[p]], \A p \in 1 .. n : x[p] \in Lines
  PROVE  /\ x \in Seq(Lines) /\ Len(x) = n
         /\ \A y : y \in Cells(x) <=> \E p \in 1 .. n : y \in CellsOf(x[p])
<1>1. x \in [1 .. n -> Lines]
  OBVIOUS
<1>2. x \in Seq(Lines) /\ DOMAIN x = 1 .. n /\ Len(x) = n
  BY <1>1, FunctionIsSeq
<1> QED BY <1>2 DEF Cells

(* An innermost loop of cell by cell copies.                               *)
RowLine(r, from, n) == Each(Steps(from, from + n, 1), LAMBDA c : Cell(r, c))
ColumnLine(c, from, n) == Each(Steps(from, from + n, 1), LAMBDA r : Cell(r, c))

(* An innermost loop along a row stores exactly a part of that row.        *)
LEMMA AlongRow ==
  ASSUME NEW r \in Nat, NEW from \in Nat, NEW n \in Nat,
         NEW x, x = RowLine(r, from, n)
  PROVE  x \in Lines /\ CellsOf(x) = Rect({r}, Band(from, n))
<1>1. Steps(from, from + n, 1) = Rounds(from, 1, n)
  <2>1. /\ from \in Int /\ from + n \in Int /\ 1 \in {1, 2, 4, 8, 16}
        /\ Leave(from, from + n, 1, n)
    BY DEF Leave
  <2> QED BY <2>1, StepsFacts
<1>2. x = [p \in 1 .. n |-> Cell(r, from + (p - 1) * 1)]
  BY <1>1 DEF Each, Rounds, Start, RowLine
<1>3. \A p \in 1 .. n : x[p] \in Moves /\ ToSet(x[p].stores) = {<<r, from + (p - 1)>>}
  <2> SUFFICES ASSUME NEW p \in 1 .. n
               PROVE  x[p] \in Moves /\ ToSet(x[p].stores) = {<<r, from + (p - 1)>>}
    OBVIOUS
  <2>1. PICK c \in Nat : c = from + (p - 1) /\ c = from + (p - 1) * 1
    OBVIOUS
  <2>2. x[p] = Cell(r, c)
    BY <1>2, <2>1
  <2>3. Cell(r, c) \in Moves /\ ToSet(Cell(r, c).stores) = {<<r, c>>}
    BY CellFacts
  <2> QED BY <2>1, <2>2, <2>3
<1>4. x \in Lines /\ \A y : y \in CellsOf(x) <=> \E p \in 1 .. n : y \in ToSet(x[p].stores)
  <2>1. x = [p \in 1 .. n |-> x[p]]
    BY <1>2
  <2> QED BY <1>3, <2>1, LineFacts, ZenonT(60)
<1>5. ASSUME NEW y
      PROVE  y \in CellsOf(x) <=> y \in Rect({r}, Band(from, n))
  <2>1. y \in CellsOf(x) <=> OnRow(y, r, from, n)
    <3>1. \A p \in 1 .. n : y \in ToSet(x[p].stores) <=> y = <<r, from + (p - 1)>>
      BY <1>3
    <3> QED BY <1>4, <3>1 DEF OnRow
  <2> QED BY <2>1, RowCells
<1> QED BY <1>4, <1>5

(* An innermost loop along a column stores exactly a part of that column.  *)
LEMMA AlongColumn ==
  ASSUME NEW c \in Nat, NEW from \in Nat, NEW n \in Nat,
         NEW x, x = ColumnLine(c, from, n)
  PROVE  x \in Lines /\ CellsOf(x) = Rect(Band(from, n), {c})
<1>1. Steps(from, from + n, 1) = Rounds(from, 1, n)
  <2>1. /\ from \in Int /\ from + n \in Int /\ 1 \in {1, 2, 4, 8, 16}
        /\ Leave(from, from + n, 1, n)
    BY DEF Leave
  <2> QED BY <2>1, StepsFacts
<1>2. x = [p \in 1 .. n |-> Cell(from + (p - 1) * 1, c)]
  BY <1>1 DEF Each, Rounds, Start, ColumnLine
<1>3. \A p \in 1 .. n : x[p] \in Moves /\ ToSet(x[p].stores) = {<<from + (p - 1), c>>}
  <2> SUFFICES ASSUME NEW p \in 1 .. n
               PROVE  x[p] \in Moves /\ ToSet(x[p].stores) = {<<from + (p - 1), c>>}
    OBVIOUS
  <2>1. PICK r \in Nat : r = from + (p - 1) /\ r = from + (p - 1) * 1
    OBVIOUS
  <2>2. x[p] = Cell(r, c)
    BY <1>2, <2>1
  <2>3. Cell(r, c) \in Moves /\ ToSet(Cell(r, c).stores) = {<<r, c>>}
    BY CellFacts
  <2> QED BY <2>1, <2>2, <2>3
<1>4. x \in Lines /\ \A y : y \in CellsOf(x) <=> \E p \in 1 .. n : y \in ToSet(x[p].stores)
  <2>1. x = [p \in 1 .. n |-> x[p]]
    BY <1>2
  <2> QED BY <1>3, <2>1, LineFacts, ZenonT(60)
<1>5. ASSUME NEW y
      PROVE  y \in CellsOf(x) <=> y \in Rect(Band(from, n), {c})
  <2>1. y \in CellsOf(x) <=> OnColumn(y, c, from, n)
    <3>1. \A p \in 1 .. n : y \in ToSet(x[p].stores) <=> y = <<from + (p - 1), c>>
      BY <1>3
    <3> QED BY <1>4, <3>1 DEF OnColumn
  <2> QED BY <2>1, ColumnCells
<1> QED BY <1>4, <1>5

(* Eight, or four, values of a row that are all loaded before they are     *)
(* stored; the stores of two such rows in turns.                           *)
LEMMA RowFacts ==
  ASSUME NEW r \in Nat, NEW from \in Nat, NEW n \in Nat
  PROVE  /\ Row(r, from, n) \in Moves
         /\ Row(r, from, n).loads \in Seq(Coords)
         /\ ToSet(Row(r, from, n).loads) = Rect({r}, Band(from, n))
         /\ ToSet(Row(r, from, n).stores) = Rect({r}, Band(from, n))
<1>1. PICK x : x = [p \in 1 .. n |-> <<r, from + p - 1>>]
  OBVIOUS
<1>2. \A p \in 1 .. n : x[p] = <<r, from + (p - 1)>> /\ x[p] \in Coords
  BY <1>1 DEF Coords
<1>3. x \in [1 .. n -> Coords]
  BY <1>1, <1>2
<1>4. x \in Seq(Coords) /\ DOMAIN x = 1 .. n
  BY <1>3, FunctionIsSeq
<1>5. ASSUME NEW y
      PROVE  y \in ToSet(x) <=> y \in Rect({r}, Band(from, n))
  <2>1. y \in ToSet(x) <=> OnRow(y, r, from, n)
    BY <1>2, <1>4 DEF ToSet, OnRow
  <2> QED BY <2>1, RowCells
<1>6. ToSet(x) = Rect({r}, Band(from, n))
  BY <1>5
<1>7. Row(r, from, n) = Copy(x)
  BY <1>1 DEF Row
<1> QED BY <1>4, <1>6, <1>7, CopyFacts

PairOf(r, from) ==
  [loads  |-> Row(r, from, 4).loads \o Row(r + 1, from, 4).loads,
   stores |-> Nested(Steps(from, from + 4, 1), LAMBDA c : <<<<r, c>>, <<r + 1, c>>>>)]

(* The two rows of a pair, value after value in turns.                     *)
LEMMA TurnsFacts ==
  ASSUME NEW r \in Nat, NEW from \in Nat
  PROVE  LET y == Nested(Steps(from, from + 4, 1), LAMBDA c : <<<<r, c>>, <<r + 1, c>>>>)
         IN  /\ y \in Seq(Coords)
             /\ ToSet(y) = (Rect({r}, Band(from, 4))) \cup (Rect({r + 1}, Band(from, 4)))
<1>1. r + 1 \in Nat /\ 4 \in Nat
  OBVIOUS
<1>2. Steps(from, from + 4, 1) = Rounds(from, 1, 4)
  <2>1. /\ from \in Int /\ from + 4 \in Int /\ 1 \in {1, 2, 4, 8, 16}
        /\ Leave(from, from + 4, 1, 4)
    BY DEF Leave
  <2> QED BY <1>1, <2>1, StepsFacts
<1>3. PICK z : /\ z = [p \in 1 .. 4 |-> <<<<r, Start(from, p, 1)>>, <<r + 1, Start(from, p, 1)>>>>]
               /\ Nested(Steps(from, from + 4, 1), LAMBDA c : <<<<r, c>>, <<r + 1, c>>>>) = FlattenSeq(z)
  BY <1>2 DEF Nested, Each, Rounds
<1>4. ASSUME NEW p \in 1 .. 4
      PROVE  /\ z[p] \in Seq(Coords)
             /\ ToSet(z[p]) = {<<r, from + (p - 1)>>, <<r + 1, from + (p - 1)>>}
  <2>1. PICK c \in Nat : c = Start(from, p, 1) /\ c = from + (p - 1)
    BY DEF Start
  <2>2. PICK u : u = z[p] /\ u = <<<<r, c>>, <<r + 1, c>>>>
    BY <1>3, <2>1
  <2>3. <<r, c>> \in Coords /\ <<r + 1, c>> \in Coords
    BY DEF Coords
  <2>4. u \in Seq(Coords) /\ ToSet(u) = {<<r, c>>, <<r + 1, c>>}
    BY <2>2, <2>3 DEF ToSet
  <2> QED BY <2>1, <2>2, <2>4
<1>5. z \in Seq(Seq(Coords)) /\ Len(z) = 4
  <2>1. z \in [1 .. 4 -> Seq(Coords)]
    BY <1>3, <1>4
  <2> QED BY <1>1, <2>1, FunctionIsSeq, ZenonT(60)
<1>6. /\ FlattenSeq(z) \in Seq(Coords)
      /\ \A y : y \in ToSet(FlattenSeq(z)) <=> \E p \in 1 .. Len(z) : y \in ToSet(z[p])
  BY <1>5, FlattenMembers
<1>7. ASSUME NEW y
      PROVE  y \in ToSet(FlattenSeq(z)) <=> OnRow(y, r, from, 4) \/ OnRow(y, r + 1, from, 4)
  <2>1. \A p \in 1 .. 4 : y \in ToSet(z[p]) <=> y = <<r, from + (p - 1)>> \/ y = <<r + 1, from + (p - 1)>>
    BY <1>4
  <2>2. y \in ToSet(FlattenSeq(z)) <=> \E p \in 1 .. 4 : y \in ToSet(z[p])
    BY <1>5, <1>6
  <2> QED BY <2>1, <2>2 DEF OnRow
<1>8. \A y : /\ y \in Rect({r}, Band(from, 4)) <=> OnRow(y, r, from, 4)
             /\ y \in Rect({r + 1}, Band(from, 4)) <=> OnRow(y, r + 1, from, 4)
  BY <1>1, RowCells
<1>9. ToSet(FlattenSeq(z)) = (Rect({r}, Band(from, 4))) \cup (Rect({r + 1}, Band(from, 4)))
  BY <1>7, <1>8
<1> QED BY <1>3, <1>6, <1>9

(* The eight values of PairOf are loaded row by row and stored in turns:   *)
(* the same cells, two rows of four.                                       *)
LEMMA PairFacts ==
  ASSUME NEW r \in Nat, NEW from \in Nat
  PROVE  /\ PairOf(r, from) \in Moves
         /\ ToSet(PairOf(r, from).stores) = Rect(Band(r, 2), Band(from, 4))
<1>1. r + 1 \in Nat /\ 4 \in Nat /\ Band(r, 2) = {r, r + 1}
  BY DEF Band
<1>2. PICK q, u \in Seq(Coords) : /\ q = Row(r, from, 4).loads /\ u = Row(r + 1, from, 4).loads
                                  /\ ToSet(q) = Rect({r}, Band(from, 4))
                                  /\ ToSet(u) = Rect({r + 1}, Band(from, 4))
  <2>1. PICK n, s \in Nat : n = 4 /\ s = r + 1
    BY <1>1
  <2>2. /\ Row(r, from, n).loads \in Seq(Coords) /\ Row(s, from, n).loads \in Seq(Coords)
        /\ ToSet(Row(r, from, n).loads) = Rect({r}, Band(from, n))
        /\ ToSet(Row(s, from, n).loads) = Rect({s}, Band(from, n))
    BY RowFacts
  <2> QED BY <2>1, <2>2
<1>3. PICK v \in Seq(Coords) : /\ v = q \o u
                               /\ \A y : y \in ToSet(v) <=> y \in ToSet(q) \/ y \in ToSet(u)
  BY ConcatPlaces, ConcatMembers
<1>4. PICK w \in Seq(Coords) :
        /\ w = Nested(Steps(from, from + 4, 1), LAMBDA c : <<<<r, c>>, <<r + 1, c>>>>)
        /\ ToSet(w) = Rect({r}, Band(from, 4)) \cup Rect({r + 1}, Band(from, 4))
  BY TurnsFacts
<1>5. PICK x : x = PairOf(r, from) /\ x = [loads |-> v, stores |-> w]
  BY <1>2, <1>3, <1>4 DEF PairOf
<1>6. ToSet(w) = Rect(Band(r, 2), Band(from, 4))
  BY <1>1, <1>4 DEF Rect
<1>7. ToSet(v) = ToSet(w)
  BY <1>2, <1>3, <1>4, ZenonT(60)
<1>8. x \in Moves /\ x.stores = w
  BY <1>5, <1>7, MoveFacts
<1> QED BY <1>5, <1>6, <1>8

(* Lines one after the other fill a rectangle.                             *)
LEMMA LinesOfRows ==
  ASSUME NEW a \in Nat, NEW n \in Nat, NEW w \in {1, 2, 4, 8, 16}, NEW columns,
         NEW x, x = [p \in 1 .. n |-> x[p]],
         \A p \in 1 .. n : x[p] \in Lines /\ CellsOf(x[p]) = Rect(Band(Start(a, p, w), w), columns)
  PROVE  x \in Seq(Lines) /\ Len(x) = n /\ Cells(x) = Rect(Band(a, n * w), columns)
<1>1. x \in Seq(Lines) /\ Len(x) = n /\ \A y : y \in Cells(x) <=> \E p \in 1 .. n : y \in CellsOf(x[p])
  BY LoopsFacts
<1>2. ASSUME NEW y
      PROVE  y \in Cells(x) <=> InRowBands(y, a, n, w, columns)
  BY <1>1 DEF InRowBands
<1> QED BY <1>1, <1>2, RowBands, ZenonT(60)

(* Lines side by side fill a rectangle.                                    *)
LEMMA LinesOfColumns ==
  ASSUME NEW a \in Nat, NEW n \in Nat, NEW w \in {1, 2, 4, 8, 16}, NEW rows,
         NEW x, x = [p \in 1 .. n |-> x[p]],
         \A p \in 1 .. n : x[p] \in Lines /\ CellsOf(x[p]) = Rect(rows, Band(Start(a, p, w), w))
  PROVE  x \in Seq(Lines) /\ Len(x) = n /\ Cells(x) = Rect(rows, Band(a, n * w))
<1>1. x \in Seq(Lines) /\ Len(x) = n /\ \A y : y \in Cells(x) <=> \E p \in 1 .. n : y \in CellsOf(x[p])
  BY LoopsFacts
<1>2. ASSUME NEW y
      PROVE  y \in Cells(x) <=> InColumnBands(y, rows, a, n, w)
  BY <1>1 DEF InColumnBands
<1> QED BY <1>1, <1>2, ColumnBands, ZenonT(60)

(* The copies of transBlock and trans, in the loops i and j of each.       *)
CellsByRow(a, n, c, m) ==
  Each(Steps(a, a + n, 1), LAMBDA u : RowLine(u, c, m))
CellsByColumn(a, n, c, m) ==
  Each(Steps(a, a + n, 1), LAMBDA u : ColumnLine(u, c, m))

(* A loop with i++ takes every value of its band once.                     *)
LEMMA SingleSteps ==
  ASSUME NEW a \in Nat, NEW n \in Nat
  PROVE  /\ Steps(a, a + n, 1) = [p \in 1 .. n |-> Start(a, p, 1)]
         /\ \A p \in 1 .. n : Start(a, p, 1) \in Nat /\ Band(Start(a, p, 1), 1) = {Start(a, p, 1)}
<1>1. Steps(a, a + n, 1) = Rounds(a, 1, n)
  <2>1. /\ a \in Int /\ a + n \in Int /\ 1 \in {1, 2, 4, 8, 16}
        /\ Leave(a, a + n, 1, n)
    BY DEF Leave
  <2> QED BY <2>1, StepsFacts
<1>2. \A p \in 1 .. n : Start(a, p, 1) \in Nat /\ Band(Start(a, p, 1), 1) = {Start(a, p, 1)}
  BY DEF Start, Band
<1> QED BY <1>1, <1>2 DEF Rounds

(* Row after row the copies of a rectangle store all of it.                *)
LEMMA ByRowFacts ==
  ASSUME NEW a \in Nat, NEW n \in Nat, NEW c \in Nat, NEW m \in Nat
  PROVE  /\ CellsByRow(a, n, c, m) \in Seq(Lines)
         /\ Len(CellsByRow(a, n, c, m)) = n
         /\ Cells(CellsByRow(a, n, c, m)) = Rect(Band(a, n), Band(c, m))
<1>1. PICK x : /\ x = CellsByRow(a, n, c, m)
               /\ x = [p \in 1 .. n |-> RowLine(Start(a, p, 1), c, m)]
  <2>1. Steps(a, a + n, 1) = [p \in 1 .. n |-> Start(a, p, 1)]
    BY SingleSteps
  <2> QED BY <2>1 DEF CellsByRow, Each
<1>2. ASSUME NEW p \in 1 .. n
      PROVE  x[p] \in Lines /\ CellsOf(x[p]) = Rect(Band(Start(a, p, 1), 1), Band(c, m))
  <2>1. PICK r \in Nat : r = Start(a, p, 1) /\ Band(Start(a, p, 1), 1) = {r}
    BY SingleSteps
  <2>2. x[p] = RowLine(r, c, m)
    BY <1>1, <2>1
  <2>3. x[p] \in Lines /\ CellsOf(x[p]) = Rect({r}, Band(c, m))
    BY <2>2, AlongRow
  <2> QED BY <2>1, <2>3
<1>3. PICK w \in {1, 2, 4, 8, 16} : w = 1 /\ n * w = n
  OBVIOUS
<1>4. x = [p \in 1 .. n |-> x[p]]
  BY <1>1
<1>5. x \in Seq(Lines) /\ Len(x) = n /\ Cells(x) = Rect(Band(a, n * w), Band(c, m))
  BY <1>2, <1>3, <1>4, LinesOfRows
<1> QED BY <1>1, <1>3, <1>5

(* Column after column the copies of a rectangle store all of it.          *)
LEMMA ByColumnFacts ==
  ASSUME NEW a \in Nat, NEW n \in Nat, NEW c \in Nat, NEW m \in Nat
  PROVE  /\ CellsByColumn(a, n, c, m) \in Seq(Lines)
         /\ Len(CellsByColumn(a, n, c, m)) = n
         /\ Cells(CellsByColumn(a, n, c, m)) = Rect(Band(c, m), Band(a, n))
<1>1. PICK x : /\ x = CellsByColumn(a, n, c, m)
               /\ x = [p \in 1 .. n |-> ColumnLine(Start(a, p, 1), c, m)]
  <2>1. Steps(a, a + n, 1) = [p \in 1 .. n |-> Start(a, p, 1)]
    BY SingleSteps
  <2> QED BY <2>1 DEF CellsByColumn, Each
<1>2. ASSUME NEW p \in 1 .. n
      PROVE  x[p] \in Lines /\ CellsOf(x[p]) = Rect(Band(c, m), Band(Start(a, p, 1), 1))
  <2>1. PICK r \in Nat : r = Start(a, p, 1) /\ Band(Start(a, p, 1), 1) = {r}
    BY SingleSteps
  <2>2. x[p] = ColumnLine(r, c, m)
    BY <1>1, <2>1
  <2>3. x[p] \in Lines /\ CellsOf(x[p]) = Rect(Band(c, m), {r})
    BY <2>2, AlongColumn
  <2> QED BY <2>1, <2>3
<1>3. PICK w \in {1, 2, 4, 8, 16} : w = 1 /\ n * w = n
  OBVIOUS
<1>4. x = [p \in 1 .. n |-> x[p]]
  BY <1>1
<1>5. x \in Seq(Lines) /\ Len(x) = n /\ Cells(x) = Rect(Band(c, m), Band(a, n * w))
  BY <1>2, <1>3, <1>4, LinesOfColumns
<1> QED BY <1>1, <1>3, <1>5

(* The cells of a line of one move.                                        *)
LEMMA OneMove ==
  ASSUME NEW v \in Moves
  PROVE  <<v>> \in Lines /\ CellsOf(<<v>>) = ToSet(v.stores)
<1>1. PICK x : x = <<v>>
  OBVIOUS
<1>2. x \in Seq(Moves) /\ DOMAIN x = {1} /\ x[1] = v
  BY <1>1
<1> QED BY <1>1, <1>2 DEF Lines, CellsOf

(* The cells of a line of two moves.                                       *)
LEMMA TwoMoves ==
  ASSUME NEW u \in Moves, NEW v \in Moves
  PROVE  <<u, v>> \in Lines /\ CellsOf(<<u, v>>) = ToSet(u.stores) \cup ToSet(v.stores)
<1>1. PICK x : x = <<u, v>>
  OBVIOUS
<1>2. x \in Seq(Moves) /\ DOMAIN x = {1, 2} /\ x[1] = u /\ x[2] = v
  BY <1>1
<1> QED BY <1>1, <1>2 DEF Lines, CellsOf

(* The blocks of transBlockSpaceConsuming, transBlockSpaceConsuming64 and  *)
(* trans_5.                                                                *)
RowBlock(ii, jj) == Each(Steps(ii, ii + 8, 1), LAMBDA u : <<Row(u, jj, 8)>>)
PairBlock(ii, jj) == Each(Steps(ii, ii + 8, 2), LAMBDA u : <<PairOf(u, jj)>>)
WideBlock(r, c) == Each(Steps(r, r + 16, 1), LAMBDA u : <<Row(u, c, 8), Row(u, c + 8, 8)>>)

(* The block of transBlockSpaceConsuming stores 8 x 8 cells.               *)
LEMMA RowBlockFacts ==
  ASSUME NEW ii \in Nat, NEW jj \in Nat
  PROVE  /\ RowBlock(ii, jj) \in Seq(Lines)
         /\ Cells(RowBlock(ii, jj)) = Rect(Band(ii, 8), Band(jj, 8))
<1>1. PICK n \in Nat : n = 8
  OBVIOUS
<1>2. PICK x : /\ x = RowBlock(ii, jj)
               /\ x = [p \in 1 .. n |-> <<Row(Start(ii, p, 1), jj, n)>>]
  <2>1. Steps(ii, ii + n, 1) = [p \in 1 .. n |-> Start(ii, p, 1)]
    BY SingleSteps
  <2> QED BY <1>1, <2>1 DEF RowBlock, Each
<1>3. ASSUME NEW p \in 1 .. n
      PROVE  x[p] \in Lines /\ CellsOf(x[p]) = Rect(Band(Start(ii, p, 1), 1), Band(jj, n))
  <2>1. PICK r \in Nat : r = Start(ii, p, 1) /\ Band(Start(ii, p, 1), 1) = {r}
    BY SingleSteps
  <2>2. x[p] = <<Row(r, jj, n)>>
    BY <1>2, <2>1
  <2>3. Row(r, jj, n) \in Moves /\ ToSet(Row(r, jj, n).stores) = Rect({r}, Band(jj, n))
    BY RowFacts
  <2> QED BY <2>1, <2>2, <2>3, OneMove
<1>4. PICK w \in {1, 2, 4, 8, 16} : w = 1 /\ n * w = n
  OBVIOUS
<1>5. x = [p \in 1 .. n |-> x[p]]
  BY <1>2
<1>6. x \in Seq(Lines) /\ Cells(x) = Rect(Band(ii, n * w), Band(jj, n))
  BY <1>3, <1>4, <1>5, LinesOfRows
<1> QED BY <1>1, <1>2, <1>4, <1>6

(* The block of trans_5 stores 16 x 16 cells, in two halves of its rows.   *)
LEMMA WideBlockFacts ==
  ASSUME NEW ii \in Nat, NEW jj \in Nat
  PROVE  /\ WideBlock(ii, jj) \in Seq(Lines)
         /\ Cells(WideBlock(ii, jj)) = Rect(Band(ii, 16), Band(jj, 16))
<1>1. PICK n, m, k8 \in Nat : n = 16 /\ m = 8 /\ k8 = jj + 8
  OBVIOUS
<1>2. PICK x : /\ x = WideBlock(ii, jj)
               /\ x = [p \in 1 .. n |-> <<Row(Start(ii, p, 1), jj, m), Row(Start(ii, p, 1), k8, m)>>]
  <2>1. Steps(ii, ii + n, 1) = [p \in 1 .. n |-> Start(ii, p, 1)]
    BY SingleSteps
  <2> QED BY <1>1, <2>1 DEF WideBlock, Each
<1>3. Band(jj, 16) = Band(jj, m) \cup Band(k8, m)
  BY <1>1 DEF Band
<1>4. ASSUME NEW p \in 1 .. n
      PROVE  x[p] \in Lines /\ CellsOf(x[p]) = Rect(Band(Start(ii, p, 1), 1), Band(jj, 16))
  <2>1. PICK r \in Nat : r = Start(ii, p, 1) /\ Band(Start(ii, p, 1), 1) = {r}
    BY SingleSteps
  <2>2. x[p] = <<Row(r, jj, m), Row(r, k8, m)>>
    BY <1>2, <2>1
  <2>3. /\ Row(r, jj, m) \in Moves /\ ToSet(Row(r, jj, m).stores) = Rect({r}, Band(jj, m))
        /\ Row(r, k8, m) \in Moves /\ ToSet(Row(r, k8, m).stores) = Rect({r}, Band(k8, m))
    BY RowFacts, ZenonT(60)
  <2>4. x[p] \in Lines /\ CellsOf(x[p]) = Rect({r}, Band(jj, m)) \cup Rect({r}, Band(k8, m))
    BY <2>2, <2>3, TwoMoves
  <2>5. Rect({r}, Band(jj, m)) \cup Rect({r}, Band(k8, m)) = Rect({r}, Band(jj, m) \cup Band(k8, m))
    BY DEF Rect
  <2> QED BY <1>3, <2>1, <2>4, <2>5
<1>5. PICK w \in {1, 2, 4, 8, 16} : w = 1 /\ n * w = n
  OBVIOUS
<1>6. x = [p \in 1 .. n |-> x[p]]
  BY <1>2
<1>7. x \in Seq(Lines) /\ Cells(x) = Rect(Band(ii, n * w), Band(jj, 16))
  BY <1>4, <1>5, <1>6, LinesOfRows, SMTT(60)
<1> QED BY <1>1, <1>2, <1>5, <1>7

(* The block of transBlockSpaceConsuming64 stores 8 x 4 cells, two rows at *)
(* a time.                                                                 *)
LEMMA PairBlockFacts ==
  ASSUME NEW ii \in Nat, NEW jj \in Nat
  PROVE  /\ PairBlock(ii, jj) \in Seq(Lines)
         /\ Cells(PairBlock(ii, jj)) = Rect(Band(ii, 8), Band(jj, 4))
<1>1. PICK n \in Nat, w \in {1, 2, 4, 8, 16} : n = 4 /\ w = 2
  OBVIOUS
<1>2. PICK x : /\ x = PairBlock(ii, jj)
               /\ x = [p \in 1 .. n |-> <<PairOf(Start(ii, p, w), jj)>>]
  <2>1. Steps(ii, ii + 8, w) = Rounds(ii, w, n)
    <3>1. ii \in Int /\ ii + 8 \in Int /\ Leave(ii, ii + 8, w, n)
      BY <1>1 DEF Leave
    <3> QED BY <3>1, StepsFacts
  <2> QED BY <1>1, <2>1 DEF PairBlock, Each, Rounds
<1>3. ASSUME NEW p \in 1 .. n
      PROVE  x[p] \in Lines /\ CellsOf(x[p]) = Rect(Band(Start(ii, p, w), w), Band(jj, 4))
  <2>1. PICK r \in Nat : r = Start(ii, p, w)
    BY <1>1 DEF Start
  <2>2. x[p] = <<PairOf(r, jj)>>
    BY <1>2, <2>1
  <2>3. PairOf(r, jj) \in Moves /\ ToSet(PairOf(r, jj).stores) = Rect(Band(r, w), Band(jj, 4))
    BY <1>1, PairFacts
  <2> QED BY <2>1, <2>2, <2>3, OneMove
<1>4. x = [p \in 1 .. n |-> x[p]]
  BY <1>2
<1>5. x \in Seq(Lines) /\ Cells(x) = Rect(Band(ii, n * w), Band(jj, 4))
  BY <1>3, <1>4, LinesOfRows, SMTT(60)
<1> QED BY <1>1, <1>2, <1>5
-----------------------------------------------------------------------------
(* Blocks one after the other, in the order of two nested loops: the whole *)
(* holds their cells, and only other blocks follow the first.              *)
LEMMA CellsOfMembers ==
  ASSUME NEW x \in Seq(Lines)
  PROVE  \A y : y \in Cells(x) <=> \E l \in ToSet(x) : y \in CellsOf(l)
BY DEF Cells, ToSet

GridOf(n, m, G) == FlattenSeq([p \in 1 .. n |-> FlattenSeq([q \in 1 .. m |-> G[p][q]])])

GridParts(x, n, m, G) ==
  /\ x \in Seq(Lines)
  /\ \A y : y \in Cells(x) <=> \E p \in 1 .. n, q \in 1 .. m : y \in Cells(G[p][q])
  /\ n # 0 /\ m # 0 => \A l \in 1 .. Len(x) :
       IF l \in 1 .. Len(G[1][1]) THEN x[l] = G[1][1][l]
       ELSE \E p \in 1 .. n, q \in 1 .. m :
              (p # 1 \/ q # 1) /\ x[l] \in ToSet(G[p][q])

(* What a grid of blocks holds, and that its first block comes first.      *)
LEMMA GridMembers ==
  ASSUME NEW n \in Nat, NEW m \in Nat, NEW G \in [1 .. n -> [1 .. m -> Seq(Lines)]],
         NEW x, x = GridOf(n, m, G)
  PROVE  GridParts(x, n, m, G)
<1> DEFINE Inner(p) == FlattenSeq(G[p])
<1>1. ASSUME NEW p \in 1 .. n
      PROVE  /\ G[p] \in Seq(Seq(Lines)) /\ Len(G[p]) = m
             /\ G[p] = [q \in 1 .. m |-> G[p][q]]
             /\ Inner(p) \in Seq(Lines)
             /\ \A v : v \in ToSet(Inner(p)) <=> \E q \in 1 .. m : v \in ToSet(G[p][q])
             /\ m # 0 => Len(G[p][1]) <= Len(Inner(p))
             /\ m # 0 => \A l \in 1 .. Len(Inner(p)) :
                  IF l \in 1 .. Len(G[p][1]) THEN Inner(p)[l] = G[p][1][l]
                  ELSE \E q \in 2 .. m : Inner(p)[l] \in ToSet(G[p][q])
  <2>1. PICK g : g = G[p] /\ g \in [1 .. m -> Seq(Lines)]
    OBVIOUS
  <2>2. g \in Seq(Seq(Lines)) /\ Len(g) = m /\ g = [q \in 1 .. m |-> g[q]]
    BY <2>1, FunctionIsSeq
  <2>3. m # 0 => g # <<>>
    BY <2>2
  <2>4. /\ FlattenSeq(g) \in Seq(Lines)
        /\ g # <<>> => Len(g[1]) <= Len(FlattenSeq(g))
        /\ \A v : v \in ToSet(FlattenSeq(g)) <=> \E q \in 1 .. Len(g) : v \in ToSet(g[q])
        /\ g # <<>> => \A l \in 1 .. Len(FlattenSeq(g)) :
              IF l \in 1 .. Len(g[1]) THEN FlattenSeq(g)[l] = g[1][l]
              ELSE \E q \in 2 .. Len(g) : FlattenSeq(g)[l] \in ToSet(g[q])
    BY <2>2, FlattenMembers
  <2> QED BY <2>1, <2>2, <2>3, <2>4
<1>2. PICK z : z = [p \in 1 .. n |-> Inner(p)]
  OBVIOUS
<1>3. z \in Seq(Seq(Lines)) /\ Len(z) = n
  <2>1. z \in [1 .. n -> Seq(Lines)]
    <3> HIDE DEF Inner
    <3> QED BY <1>1, <1>2
  <2> QED BY <2>1, FunctionIsSeq
<1>4. x = FlattenSeq(z)
  <2>1. \A p \in 1 .. n : Inner(p) = FlattenSeq([q \in 1 .. m |-> G[p][q]])
    BY <1>1
  <2> QED BY <1>2, <2>1 DEF GridOf
<1> HIDE DEF Inner
<1>5. /\ x \in Seq(Lines)
      /\ \A v : v \in ToSet(x) <=> \E p \in 1 .. n : v \in ToSet(z[p])
      /\ z # <<>> => \A l \in 1 .. Len(x) :
            IF l \in 1 .. Len(z[1]) THEN x[l] = z[1][l]
            ELSE \E p \in 2 .. n : x[l] \in ToSet(z[p])
  <2>1. /\ FlattenSeq(z) \in Seq(Lines)
        /\ \A v : v \in ToSet(FlattenSeq(z)) <=> \E p \in 1 .. Len(z) : v \in ToSet(z[p])
        /\ z # <<>> => \A l \in 1 .. Len(FlattenSeq(z)) :
              IF l \in 1 .. Len(z[1]) THEN FlattenSeq(z)[l] = z[1][l]
              ELSE \E p \in 2 .. Len(z) : FlattenSeq(z)[l] \in ToSet(z[p])
    BY <1>3, FlattenMembers
  <2> QED BY <1>3, <1>4, <2>1
<1>6. \A v : v \in ToSet(x) <=> \E p \in 1 .. n, q \in 1 .. m : v \in ToSet(G[p][q])
  BY <1>1, <1>2, <1>5
<1>7. ASSUME NEW y
      PROVE  y \in Cells(x) <=> \E p \in 1 .. n, q \in 1 .. m : y \in Cells(G[p][q])
  <2>1. y \in Cells(x) <=> \E l \in ToSet(x) : y \in CellsOf(l)
    BY <1>5, CellsOfMembers
  <2>2. \A p \in 1 .. n, q \in 1 .. m :
          y \in Cells(G[p][q]) <=> \E l \in ToSet(G[p][q]) : y \in CellsOf(l)
    BY CellsOfMembers
  <2> QED BY <1>6, <2>1, <2>2
<1>8. ASSUME n # 0, m # 0, NEW l \in 1 .. Len(x)
      PROVE  IF l \in 1 .. Len(G[1][1]) THEN x[l] = G[1][1][l]
             ELSE \E p \in 1 .. n, q \in 1 .. m : (p # 1 \/ q # 1) /\ x[l] \in ToSet(G[p][q])
  <2>1. z # <<>> /\ 1 \in 1 .. n /\ z[1] = Inner(1)
    <3>1. 1 \in 1 .. n
      BY <1>8
    <3>2. z[1] = Inner(1)
      BY <1>2, <3>1
    <3>3. z # <<>>
      BY <1>3, <1>8
    <3> QED BY <3>1, <3>2, <3>3
  <2>0. /\ Len(G[1][1]) <= Len(Inner(1)) /\ Len(Inner(1)) \in Nat /\ Len(G[1][1]) \in Nat
        /\ 1 \in 1 .. m
    <3>1. Inner(1) \in Seq(Lines) /\ 1 \in 1 .. m
      BY <1>1, <1>8, <2>1
    <3>2. G[1][1] \in Seq(Lines)
      BY <2>1, <3>1
    <3> QED BY <1>1, <1>8, <2>1, <3>1, <3>2, LenProperties
  <2>2. CASE l \notin 1 .. Len(Inner(1))
    <3>0. \A p \in 2 .. n : p \in 1 .. n /\ p # 1 /\ z[p] = Inner(p)
      BY <1>2
    <3>1. PICK p \in 2 .. n : x[l] \in ToSet(Inner(p)) /\ p \in 1 .. n /\ p # 1
      BY <1>5, <2>1, <2>2, <3>0
    <3>2. PICK q \in 1 .. m : x[l] \in ToSet(G[p][q])
      BY <1>1, <3>1
    <3>3. l \notin 1 .. Len(G[1][1])
      BY <2>0, <2>2
    <3> QED BY <3>1, <3>2, <3>3
  <2>3. CASE l \in 1 .. Len(Inner(1))
    <3>1. x[l] = Inner(1)[l]
      BY <1>5, <2>1, <2>3
    <3>2. IF l \in 1 .. Len(G[1][1]) THEN Inner(1)[l] = G[1][1][l]
          ELSE \E q \in 2 .. m : Inner(1)[l] \in ToSet(G[1][q])
      BY <1>1, <1>8, <2>1, <2>3
    <3>3. \A q \in 2 .. m : q \in 1 .. m /\ q # 1
      OBVIOUS
    <3> QED BY <2>1, <3>1, <3>2, <3>3
  <2> QED BY <2>2, <2>3
<1> QED BY <1>5, <1>7, <1>8 DEF GridParts

(* Loops store the cells of a rectangle and no others.                     *)
Covers(loops, rows, columns) ==
  loops \in Seq(Lines) /\ Cells(loops) = Rect(Band(0, rows), Band(0, columns))

(* Cell <<N, 0>>, below the matrix, shares its place in B with <<0, 1>>:   *)
(* it is stored after it.                                                  *)
Overtaken(loops, N) ==
  \E cut \in Nat : \A l \in 1 .. Len(loops) :
    IF l <= cut THEN <<N, 0>> \notin CellsOf(loops[l]) ELSE <<0, 1>> \notin CellsOf(loops[l])

(* A line of the loops is one of them, and its cells are theirs.           *)
LEMMA LineWithin ==
  ASSUME NEW x \in Seq(Lines)
  PROVE  /\ \A l \in 1 .. Len(x) : x[l] \in ToSet(x)
         /\ \A v \in ToSet(x) : \A y \in CellsOf(v) : y \in Cells(x)
<1>1. DOMAIN x = 1 .. Len(x)
  BY LenProperties
<1> QED BY <1>1 DEF Cells, ToSet

(* Row 0, and row 1 if bands are wider than 1, are in the first band, and  *)
(* a row from h on is not.                                                 *)
LEMMA FirstBands ==
  ASSUME NEW h \in {1, 2, 4, 8, 16}
  PROVE  /\ Start(0, 1, h) = 0
         /\ \A N \in Nat : N >= h => N \notin Band(0, h)
         /\ \A p \in Nat : p > 1 => 0 \notin Band(Start(0, p, h), h)
         /\ \A p \in Nat : p > 1 /\ h > 1 => 1 \notin Band(Start(0, p, h), h)
<1> USE DEF Start, Band
<1>1. CASE h = 1
  BY <1>1
<1>2. CASE h = 2
  BY <1>2
<1>3. CASE h = 4
  BY <1>3
<1>4. CASE h = 8
  BY <1>4
<1>5. CASE h = 16
  BY <1>5
<1> QED BY <1>1, <1>2, <1>3, <1>4, <1>5

(* The outer of two nested loops goes down, or across.                     *)
GridCells(n, m, G, h, w, down) ==
  \A p \in 1 .. n, q \in 1 .. m : Cells(G[p][q]) =
    IF down THEN Rect(Band(Start(0, p, h), h), Band(Start(0, q, w), w))
    ELSE Rect(Band(Start(0, q, w), w), Band(Start(0, p, h), h))

(* What it stores, and in what order.                                      *)
GridCovers(x, n, m, h, w, down) ==
  /\ Covers(x, IF down THEN n * h ELSE m * w, IF down THEN m * w ELSE n * h)
  /\ \A N \in Nat :
       /\ n # 0 /\ m # 0 /\ h > 1 /\ w > 1
       /\ N >= (IF down THEN h ELSE w)
       => Overtaken(x, N)

(* If each block of a grid stores its own rectangle, the grid stores the   *)
(* whole one, and <<0, 1>>, in the first block, before <<N, 0>>, which is  *)
(* in another one.                                                         *)
LEMMA GridFacts ==
  ASSUME NEW n \in Nat, NEW m \in Nat, NEW G \in [1 .. n -> [1 .. m -> Seq(Lines)]],
         NEW h \in {1, 2, 4, 8, 16}, NEW w \in {1, 2, 4, 8, 16}, NEW down \in BOOLEAN,
         GridCells(n, m, G, h, w, down)
  PROVE  GridCovers(GridOf(n, m, G), n, m, h, w, down)
<1> USE DEF GridCells
<1>1. PICK x : x = GridOf(n, m, G)
  OBVIOUS
<1>2. /\ x \in Seq(Lines)
      /\ \A y : y \in Cells(x) <=> \E p \in 1 .. n, q \in 1 .. m : y \in Cells(G[p][q])
      /\ n # 0 /\ m # 0 => \A l \in 1 .. Len(x) :
           IF l \in 1 .. Len(G[1][1]) THEN x[l] = G[1][1][l]
           ELSE \E p \in 1 .. n, q \in 1 .. m :
                  (p # 1 \/ q # 1) /\ x[l] \in ToSet(G[p][q])
  <2>1. GridParts(x, n, m, G)
    BY <1>1, GridMembers
  <2> QED BY <2>1 DEF GridParts
<1>3. /\ \A v : v \in Band(0, n * h) <=> \E p \in 1 .. n : v \in Band(Start(0, p, h), h)
      /\ \A v : v \in Band(0, m * w) <=> \E q \in 1 .. m : v \in Band(Start(0, q, w), w)
  <2>1. \A v : /\ v \in Band(0, n * h) <=> InBands(v, 0, n, h)
               /\ v \in Band(0, m * w) <=> InBands(v, 0, m, w)
    BY BandFacts
  <2> QED BY <2>1 DEF InBands
<1>4. Cells(x) = Rect(Band(0, IF down THEN n * h ELSE m * w), Band(0, IF down THEN m * w ELSE n * h))
  <2>1. PICK H, W : H = n * h /\ W = m * w
    OBVIOUS
  <2>2. CASE down
    <3>1. \A y : y \in Cells(x) <=> \E p \in 1 .. n, q \in 1 .. m :
                   y \in Rect(Band(Start(0, p, h), h), Band(Start(0, q, w), w))
      BY <1>2, <2>2
    <3>2. \A y : y \in Cells(x) <=> \E p \in 1 .. n, q \in 1 .. m :
                   \E u \in Band(Start(0, p, h), h), v \in Band(Start(0, q, w), w) : y = <<u, v>>
      BY <3>1 DEF Rect
    <3>3. \A y : y \in Rect(Band(0, H), Band(0, W)) <=>
                   \E u \in Band(0, H), v \in Band(0, W) : y = <<u, v>>
      BY DEF Rect
    <3>4. \A y : y \in Cells(x) <=> y \in Rect(Band(0, H), Band(0, W))
      BY <1>3, <2>1, <3>2, <3>3, ZenonT(60)
    <3> QED BY <2>1, <2>2, <3>4
  <2>3. CASE ~down
    <3>1. \A y : y \in Cells(x) <=> \E p \in 1 .. n, q \in 1 .. m :
                   y \in Rect(Band(Start(0, q, w), w), Band(Start(0, p, h), h))
      BY <1>2, <2>3
    <3>2. \A y : y \in Cells(x) <=> \E p \in 1 .. n, q \in 1 .. m :
                   \E u \in Band(Start(0, q, w), w), v \in Band(Start(0, p, h), h) : y = <<u, v>>
      BY <3>1 DEF Rect
    <3>3. \A y : y \in Rect(Band(0, W), Band(0, H)) <=>
                   \E u \in Band(0, W), v \in Band(0, H) : y = <<u, v>>
      BY DEF Rect
    <3>4. \A y : y \in Cells(x) <=> y \in Rect(Band(0, W), Band(0, H))
      BY <1>3, <2>1, <3>2, <3>3, ZenonT(60)
    <3> QED BY <2>1, <2>3, <3>4
  <2> QED BY <2>2, <2>3
<1>5. ASSUME NEW N \in Nat, n # 0, m # 0, h > 1, w > 1, N >= (IF down THEN h ELSE w)
      PROVE  Overtaken(x, N)
  <2>1. 1 \in 1 .. n /\ 1 \in 1 .. m
    BY <1>5
  <2>2. PICK g \in Seq(Lines) : g = G[1][1]
    BY <2>1
  <2>3. PICK cut \in Nat : cut = Len(g)
    BY LenProperties
  <2>4. ASSUME NEW l \in 1 .. Len(x), l <= cut
        PROVE  <<N, 0>> \notin CellsOf(x[l])
    <3>1. l \in 1 .. Len(g)
      BY <2>3, <2>4
    <3>2. x[l] = g[l]
      BY <1>2, <1>5, <2>2, <3>1
    <3>3. \A y \in CellsOf(x[l]) : y \in Cells(g)
      BY <3>1, <3>2, LineWithin
    <3>4. N \notin (IF down THEN Band(Start(0, 1, h), h) ELSE Band(Start(0, 1, w), w))
      BY <1>5, FirstBands
    <3>5. Cells(g) = IF down THEN Rect(Band(Start(0, 1, h), h), Band(Start(0, 1, w), w))
                     ELSE Rect(Band(Start(0, 1, w), w), Band(Start(0, 1, h), h))
      BY <2>1, <2>2
    <3>6. <<N, 0>> \notin Cells(g)
      BY <3>4, <3>5 DEF Rect
    <3> QED BY <3>3, <3>6
  <2>5. ASSUME NEW l \in 1 .. Len(x), ~ (l <= cut)
        PROVE  <<0, 1>> \notin CellsOf(x[l])
    <3>1. l \notin 1 .. Len(G[1][1])
      BY <2>2, <2>3, <2>5
    <3>2. PICK p \in 1 .. n, q \in 1 .. m : (p # 1 \/ q # 1) /\ x[l] \in ToSet(G[p][q])
      BY <1>2, <1>5, <3>1
    <3>3. G[p][q] \in Seq(Lines)
      OBVIOUS
    <3>4. \A y \in CellsOf(x[l]) : y \in Cells(G[p][q])
      BY <3>2, <3>3, LineWithin
    <3>5. /\ p # 1 => 0 \notin Band(Start(0, p, h), h) /\ 1 \notin Band(Start(0, p, h), h)
          /\ q # 1 => 0 \notin Band(Start(0, q, w), w) /\ 1 \notin Band(Start(0, q, w), w)
      <4>1. p \in Nat /\ q \in Nat /\ (p # 1 => p > 1) /\ (q # 1 => q > 1)
        OBVIOUS
      <4> QED BY <1>5, <4>1, FirstBands
    <3>6. \A R, C : <<0, 1>> \in Rect(R, C) => 0 \in R /\ 1 \in C
      BY DEF Rect
    <3>7. <<0, 1>> \notin Cells(G[p][q])
      <4>1. PICK U, V : U = Band(Start(0, p, h), h) /\ V = Band(Start(0, q, w), w)
        OBVIOUS
      <4>3. 0 \in U /\ 1 \in V => FALSE
        BY <3>2, <3>5, <4>1
      <4>4. 0 \in V /\ 1 \in U => FALSE
        BY <3>2, <3>5, <4>1
      <4>5. CASE down
        <5>1. Cells(G[p][q]) = Rect(U, V)
          BY <4>1, <4>5
        <5> QED BY <3>6, <4>3, <5>1
      <4>6. CASE ~down
        <5>1. Cells(G[p][q]) = Rect(V, U)
          BY <4>1, <4>6
        <5> QED BY <3>6, <4>4, <5>1
      <4> QED BY <4>5, <4>6
    <3> QED BY <3>4, <3>7
  <2> QED BY <2>4, <2>5 DEF Overtaken
<1> QED BY <1>1, <1>2, <1>4, <1>5 DEF Covers, GridCovers

(* The start of a block is a natural number.                               *)
LEMMA BlockStarts ==
  ASSUME NEW h \in {1, 2, 4, 8, 16}, NEW p \in Nat \ {0}
  PROVE  Start(0, p, h) \in Nat
<1> USE DEF Start
<1>1. CASE h = 1
  BY <1>1
<1>2. CASE h = 2
  BY <1>2
<1>3. CASE h = 4
  BY <1>3
<1>4. CASE h = 8
  BY <1>4
<1>5. CASE h = 16
  BY <1>5
<1> QED BY <1>1, <1>2, <1>3, <1>4, <1>5

(* Two nested loops over the starts of blocks.                             *)
LEMMA TransFacts ==
  ASSUME NEW M \in Nat, NEW N \in Nat
  PROVE  Covers(trans(M, N), N, M)
<1>1. PICK z \in Nat : z = 0 /\ z + N = N /\ z + M = M
  OBVIOUS
<1>2. trans(M, N) = CellsByRow(z, N, z, M)
  <2>1. CellsByRow(z, N, z, M) =
          Each(Steps(z, z + N, 1), LAMBDA u : Each(Steps(z, z + M, 1), LAMBDA v : Cell(u, v)))
    BY DEF CellsByRow, RowLine
  <2>2. PICK x, y : x = Steps(z, z + N, 1) /\ y = Steps(z, z + M, 1)
    OBVIOUS
  <2>3. x = Steps(0, N, 1) /\ y = Steps(0, M, 1)
    BY <1>1, <2>2
  <2>4. CellsByRow(z, N, z, M) = Each(x, LAMBDA u : Each(y, LAMBDA v : Cell(u, v)))
    BY <2>1, <2>2
  <2>5. trans(M, N) = Each(x, LAMBDA u : Each(y, LAMBDA v : Cell(u, v)))
    BY <2>3 DEF trans
  <2> QED BY <2>4, <2>5
<1> QED BY <1>1, <1>2, ByRowFacts DEF Covers

(* transBlock covers 32 x 32 cells, whatever the matrix.                   *)
LEMMA TransBlockFacts ==
  ASSUME NEW M, NEW N
  PROVE  /\ Covers(transBlock(M, N), 32, 32)
         /\ \A R \in Nat : R >= 8 => Overtaken(transBlock(M, N), R)
<1>1. PICK n \in Nat, h \in {1, 2, 4, 8, 16}, m \in Nat :
        n = 4 /\ h = 8 /\ m = 8 /\ n * h = 32 /\ n # 0 /\ h > 1
  OBVIOUS
<1>2. PICK G : G = [p \in 1 .. n |-> [q \in 1 .. n |-> CellsByColumn(Start(0, q, h), m, Start(0, p, h), m)]]
  OBVIOUS
<1>3. Steps(0, 32, h) = Rounds(0, h, n)
  <2>1. 0 \in Int /\ 32 \in Int /\ Leave(0, 32, h, n)
    BY <1>1 DEF Leave
  <2> QED BY <2>1, StepsFacts
<1>4. transBlock(M, N) = GridOf(n, n, G)
  <2>1. PICK x : /\ x = Rounds(0, h, n) /\ DOMAIN x = 1 .. n
              /\ \A p \in 1 .. n : x[p] = Start(0, p, h)
    <3>1. PICK x : x = Rounds(0, h, n)
      OBVIOUS
    <3>2. x = [r \in 1 .. n |-> Start(0, r, h)]
      BY <3>1 DEF Rounds
    <3> QED BY <3>1, <3>2
  <2>2. transBlock(M, N) = Nested(x, LAMBDA jj : Nested(x, LAMBDA ii : CellsByColumn(ii, 8, jj, 8)))
    <3>1. x = Steps(0, 32, 8)
      BY <1>1, <1>3, <2>1
    <3>2. transBlock(M, N) =
            Nested(Steps(0, 32, 8), LAMBDA jj :
              Nested(Steps(0, 32, 8), LAMBDA ii : CellsByColumn(ii, 8, jj, 8)))
      BY DEF transBlock, CellsByColumn, ColumnLine
    <3> QED BY <3>1, <3>2
  <2>3. transBlock(M, N) =
          FlattenSeq([p \in 1 .. n |-> FlattenSeq([q \in 1 .. n |-> CellsByColumn(x[q], 8, x[p], 8)])])
    BY <2>1, <2>2 DEF Nested, Each
  <2>4. \A p \in 1 .. n : [q \in 1 .. n |-> CellsByColumn(x[q], 8, x[p], 8)] = [q \in 1 .. n |-> G[p][q]]
    BY <1>1, <1>2, <2>1
  <2> QED BY <2>3, <2>4 DEF GridOf
<1>5. ASSUME NEW p \in 1 .. n, NEW q \in 1 .. n
      PROVE  /\ G[p][q] \in Seq(Lines)
             /\ Cells(G[p][q]) = Rect(Band(Start(0, p, h), h), Band(Start(0, q, h), h))
  <2>1. PICK r, c \in Nat : r = Start(0, p, h) /\ c = Start(0, q, h)
    BY BlockStarts
  <2>2. G[p][q] = CellsByColumn(c, m, r, m)
    BY <1>2, <2>1
  <2> QED BY <1>1, <2>1, <2>2, ByColumnFacts, SMTT(60)
<1>6. G \in [1 .. n -> [1 .. n -> Seq(Lines)]]
  BY <1>2, <1>5
<1>7. PICK down \in BOOLEAN : down = TRUE
  OBVIOUS
<1>8. \A p \in 1 .. n, q \in 1 .. n : Cells(G[p][q]) =
        IF down THEN Rect(Band(Start(0, p, h), h), Band(Start(0, q, h), h))
        ELSE Rect(Band(Start(0, q, h), h), Band(Start(0, p, h), h))
  BY <1>5, <1>7
<1>9. /\ Covers(GridOf(n, n, G), n * h, n * h)
      /\ \A R \in Nat : n # 0 /\ h > 1 /\ R >= h => Overtaken(GridOf(n, n, G), R)
  <2>1. GridCells(n, n, G, h, h, down)
    BY <1>8 DEF GridCells
  <2>2. GridCovers(GridOf(n, n, G), n, n, h, h, down)
    BY <1>6, <2>1, GridFacts, ZenonT(60)
  <2> QED BY <1>7, <2>2 DEF GridCovers
<1> QED BY <1>1, <1>4, <1>9

(* So does transBlockSpaceConsuming.                                       *)
LEMMA SpaceConsumingFacts ==
  ASSUME NEW M, NEW N
  PROVE  /\ Covers(transBlockSpaceConsuming(M, N), 32, 32)
         /\ \A R \in Nat : R >= 8 => Overtaken(transBlockSpaceConsuming(M, N), R)
<1>1. PICK n \in Nat, h \in {1, 2, 4, 8, 16} :
        n = 4 /\ h = 8 /\ n * h = 32 /\ n # 0 /\ h > 1
  OBVIOUS
<1>2. PICK G : G = [p \in 1 .. n |-> [q \in 1 .. n |-> RowBlock(Start(0, q, h), Start(0, p, h))]]
  OBVIOUS
<1>3. Steps(0, 32, h) = Rounds(0, h, n)
  <2>1. 0 \in Int /\ 32 \in Int /\ Leave(0, 32, h, n)
    BY <1>1 DEF Leave
  <2> QED BY <2>1, StepsFacts
<1>4. transBlockSpaceConsuming(M, N) = GridOf(n, n, G)
  <2>1. PICK x : /\ x = Rounds(0, h, n) /\ DOMAIN x = 1 .. n
              /\ \A p \in 1 .. n : x[p] = Start(0, p, h)
    <3>1. PICK x : x = Rounds(0, h, n)
      OBVIOUS
    <3>2. x = [r \in 1 .. n |-> Start(0, r, h)]
      BY <3>1 DEF Rounds
    <3> QED BY <3>1, <3>2
  <2>2. transBlockSpaceConsuming(M, N) = Nested(x, LAMBDA jj : Nested(x, LAMBDA ii : RowBlock(ii, jj)))
    <3>1. x = Steps(0, 32, 8)
      BY <1>1, <1>3, <2>1
    <3>2. transBlockSpaceConsuming(M, N)
            = Nested(Steps(0, 32, 8), LAMBDA jj : Nested(Steps(0, 32, 8), LAMBDA ii : RowBlock(ii, jj)))
      BY DEF transBlockSpaceConsuming, RowBlock
    <3> QED BY <3>1, <3>2
  <2>3. transBlockSpaceConsuming(M, N)
          = FlattenSeq([p \in 1 .. n |-> FlattenSeq([q \in 1 .. n |-> RowBlock(x[q], x[p])])])
    BY <2>1, <2>2 DEF Nested, Each
  <2>4. \A p \in 1 .. n : [q \in 1 .. n |-> RowBlock(x[q], x[p])] = [q \in 1 .. n |-> G[p][q]]
    BY <1>1, <1>2, <2>1
  <2> QED BY <2>3, <2>4 DEF GridOf
<1>5. ASSUME NEW p \in 1 .. n, NEW q \in 1 .. n
      PROVE  /\ G[p][q] \in Seq(Lines)
             /\ Cells(G[p][q]) = Rect(Band(Start(0, q, h), h), Band(Start(0, p, h), h))
  <2>1. PICK r, c \in Nat : r = Start(0, q, h) /\ c = Start(0, p, h)
    BY BlockStarts, SMTT(60)
  <2>2. G[p][q] = RowBlock(r, c)
    BY <1>2, <2>1
  <2> QED BY <1>1, <2>1, <2>2, RowBlockFacts
<1>6. G \in [1 .. n -> [1 .. n -> Seq(Lines)]]
  BY <1>2, <1>5
<1>7. PICK down \in BOOLEAN : down = FALSE
  OBVIOUS
<1>8. \A p \in 1 .. n, q \in 1 .. n : Cells(G[p][q]) =
        IF down THEN Rect(Band(Start(0, p, h), h), Band(Start(0, q, h), h))
        ELSE Rect(Band(Start(0, q, h), h), Band(Start(0, p, h), h))
  BY <1>5, <1>7
<1>9. /\ Covers(GridOf(n, n, G), n * h, n * h)
      /\ \A R \in Nat : n # 0 /\ h > 1 /\ R >= h => Overtaken(GridOf(n, n, G), R)
  <2>1. GridCells(n, n, G, h, h, down)
    BY <1>8 DEF GridCells
  <2>2. GridCovers(GridOf(n, n, G), n, n, h, h, down)
    BY <1>6, <2>1, GridFacts, ZenonT(60)
  <2> QED BY <1>7, <2>2 DEF GridCovers
<1> QED BY <1>1, <1>4, <1>9

(* transBlockSpaceConsuming64 covers M rounded up to 8 by N rounded up to  *)
(* 4 cells.                                                                *)
LEMMA SpaceConsuming64Facts ==
  ASSUME NEW M \in Nat \ {0}, NEW N \in Nat \ {0}
  PROVE  /\ Covers(transBlockSpaceConsuming64(M, N), 8 * ((M + 7) \div 8), 4 * ((N + 3) \div 4))
         /\ \A R \in Nat : R >= 8 => Overtaken(transBlockSpaceConsuming64(M, N), R)
<1>1. PICK n \in Nat, m \in Nat, h \in {1, 2, 4, 8, 16}, w \in {1, 2, 4, 8, 16} :
        /\ n = (N + 3) \div 4 /\ m = (M + 7) \div 8 /\ h = 4 /\ w = 8
        /\ n # 0 /\ m # 0 /\ h > 1 /\ w > 1
  OBVIOUS
<1>2. PICK G : G = [p \in 1 .. n |-> [q \in 1 .. m |-> PairBlock(Start(0, q, w), Start(0, p, h))]]
  OBVIOUS
<1>3. Steps(0, N, h) = Rounds(0, h, n) /\ Steps(0, M, w) = Rounds(0, w, m)
  <2>1. Leave(0, N, h, n)
    BY <1>1 DEF Leave
  <2>2. Leave(0, M, w, m)
    BY <1>1 DEF Leave
  <2> QED BY <2>1, <2>2, StepsFacts
<1>4. transBlockSpaceConsuming64(M, N) = GridOf(n, m, G)
  <2>1. PICK x : /\ x = Rounds(0, h, n) /\ DOMAIN x = 1 .. n
              /\ \A p \in 1 .. n : x[p] = Start(0, p, h)
    <3>1. PICK x : x = Rounds(0, h, n)
      OBVIOUS
    <3>2. x = [r \in 1 .. n |-> Start(0, r, h)]
      BY <3>1 DEF Rounds
    <3> QED BY <3>1, <3>2
  <2>2. PICK y : /\ y = Rounds(0, w, m) /\ DOMAIN y = 1 .. m
              /\ \A q \in 1 .. m : y[q] = Start(0, q, w)
    <3>1. PICK y : y = Rounds(0, w, m)
      OBVIOUS
    <3>2. y = [r \in 1 .. m |-> Start(0, r, w)]
      BY <3>1 DEF Rounds
    <3> QED BY <3>1, <3>2
  <2>3. transBlockSpaceConsuming64(M, N) = Nested(x, LAMBDA jj : Nested(y, LAMBDA ii : PairBlock(ii, jj)))
    <3>1. x = Steps(0, N, 4) /\ y = Steps(0, M, 8)
      BY <1>1, <1>3, <2>1, <2>2
    <3>2. transBlockSpaceConsuming64(M, N)
            = Nested(Steps(0, N, 4), LAMBDA jj : Nested(Steps(0, M, 8), LAMBDA ii : PairBlock(ii, jj)))
      BY DEF transBlockSpaceConsuming64, PairBlock, PairOf
    <3> QED BY <3>1, <3>2
  <2>4. transBlockSpaceConsuming64(M, N)
          = FlattenSeq([p \in 1 .. n |-> FlattenSeq([q \in 1 .. m |-> PairBlock(y[q], x[p])])])
    BY <2>1, <2>2, <2>3 DEF Nested, Each
  <2>5. \A p \in 1 .. n : [q \in 1 .. m |-> PairBlock(y[q], x[p])] = [q \in 1 .. m |-> G[p][q]]
    BY <1>2, <2>1, <2>2
  <2> QED BY <2>4, <2>5 DEF GridOf
<1>5. ASSUME NEW p \in 1 .. n, NEW q \in 1 .. m
      PROVE  /\ G[p][q] \in Seq(Lines)
             /\ Cells(G[p][q]) = Rect(Band(Start(0, q, w), w), Band(Start(0, p, h), h))
  <2>1. PICK r, c \in Nat : r = Start(0, q, w) /\ c = Start(0, p, h)
    BY BlockStarts
  <2>2. G[p][q] = PairBlock(r, c)
    BY <1>2, <2>1
  <2> QED BY <1>1, <2>1, <2>2, PairBlockFacts
<1>6. G \in [1 .. n -> [1 .. m -> Seq(Lines)]]
  BY <1>2, <1>5
<1>7. PICK down \in BOOLEAN : down = FALSE
  OBVIOUS
<1>8. \A p \in 1 .. n, q \in 1 .. m : Cells(G[p][q]) =
        IF down THEN Rect(Band(Start(0, p, h), h), Band(Start(0, q, w), w))
        ELSE Rect(Band(Start(0, q, w), w), Band(Start(0, p, h), h))
  BY <1>5, <1>7
<1>9. /\ Covers(GridOf(n, m, G), m * w, n * h)
      /\ \A R \in Nat : n # 0 /\ m # 0 /\ h > 1 /\ w > 1 /\ R >= w => Overtaken(GridOf(n, m, G), R)
  <2>1. GridCells(n, m, G, h, w, down)
    BY <1>8 DEF GridCells
  <2>2. GridCovers(GridOf(n, m, G), n, m, h, w, down)
    <3>1. n \in Nat /\ m \in Nat /\ h \in {1, 2, 4, 8, 16} /\ w \in {1, 2, 4, 8, 16} /\ down \in BOOLEAN
      OBVIOUS
    <3> QED BY <1>6, <2>1, <3>1, GridFacts, SMTT(90)
  <2> QED BY <1>7, <2>2 DEF GridCovers
<1>10. m * w = 8 * m /\ n * h = 4 * n
  BY <1>1
<1> QED BY <1>1, <1>4, <1>9, <1>10

(* Loops one after the other cover what both cover.                        *)
LEMMA CellsOfBoth ==
  ASSUME NEW x \in Seq(Lines), NEW y \in Seq(Lines), NEW z, z = x \o y
  PROVE  z \in Seq(Lines) /\ Cells(z) = Cells(x) \cup Cells(y)
<1>1. z \in Seq(Lines)
  BY ConcatPlaces
<1>2. \A l : l \in ToSet(z) <=> l \in ToSet(x) \/ l \in ToSet(y)
  BY ConcatMembers
<1>3. ASSUME NEW c
      PROVE  c \in Cells(z) <=> c \in Cells(x) \/ c \in Cells(y)
  BY <1>1, <1>2, CellsOfMembers
<1> QED BY <1>1, <1>3

(* The three parts of trans_5.                                             *)
Blocks(ii, jj) ==
  Nested(Steps(0, ii, 16), LAMBDA r : Nested(Steps(0, jj, 16), LAMBDA d : WideBlock(r, d)))
CellsFrom(a, b, c, d) == Each(Steps(a, b, 1), LAMBDA u : Each(Steps(c, d, 1), LAMBDA v : Cell(u, v)))

(* The edges of trans_5 are copied cell by cell.                           *)
LEMMA CellsFromFacts ==
  ASSUME NEW a \in Nat, NEW n \in Nat, NEW c \in Nat, NEW m \in Nat
  PROVE  /\ CellsFrom(a, a + n, c, c + m) \in Seq(Lines)
         /\ Cells(CellsFrom(a, a + n, c, c + m)) = Rect(Band(a, n), Band(c, m))
<1>1. CellsFrom(a, a + n, c, c + m) = CellsByRow(a, n, c, m)
  BY DEF CellsFrom, CellsByRow, RowLine
<1> QED BY <1>1, ByRowFacts

(* The blocks of 16 x 16 of trans_5 cover a rectangle.                     *)
LEMMA BlocksFacts ==
  ASSUME NEW n \in Nat, NEW m \in Nat
  PROVE  Covers(Blocks(16 * n, 16 * m), 16 * n, 16 * m)
<1>1. PICK h \in {1, 2, 4, 8, 16} : h = 16
  OBVIOUS
<1>2. PICK ii, jj \in Nat : ii = 16 * n /\ jj = 16 * m /\ ii = n * h /\ jj = m * h
  <2>1. 16 * n \in Nat /\ 16 * m \in Nat /\ n * h = 16 * n /\ m * h = 16 * m
    BY <1>1
  <2> QED BY <2>1
<1>3. PICK G : G = [p \in 1 .. n |-> [q \in 1 .. m |-> WideBlock(Start(0, p, h), Start(0, q, h))]]
  OBVIOUS
<1>4. Blocks(ii, jj) = GridOf(n, m, G)
  <2>1. Steps(0, ii, h) = Rounds(0, h, n) /\ Steps(0, jj, h) = Rounds(0, h, m)
    <3>1. Leave(0, ii, h, n) /\ Leave(0, jj, h, m)
      BY <1>1, <1>2 DEF Leave
    <3>2. 0 \in Int /\ ii \in Int /\ jj \in Int
      OBVIOUS
    <3> QED BY <3>1, <3>2, StepsFacts
  <2>2. PICK x, y : x = Rounds(0, h, n) /\ y = Rounds(0, h, m)
    OBVIOUS
  <2>3. x = [p \in 1 .. n |-> Start(0, p, h)] /\ y = [p \in 1 .. m |-> Start(0, p, h)]
    BY <2>2 DEF Rounds
  <2>4. /\ DOMAIN x = 1 .. n /\ \A p \in 1 .. n : x[p] = Start(0, p, h)
        /\ DOMAIN y = 1 .. m /\ \A p \in 1 .. m : y[p] = Start(0, p, h)
    BY <2>3
  <2>5. x = Steps(0, ii, 16) /\ y = Steps(0, jj, 16)
    BY <1>1, <2>1, <2>2
  <2>6. Nested(x, LAMBDA r : Nested(y, LAMBDA d : WideBlock(r, d)))
          = FlattenSeq([p \in 1 .. n |-> FlattenSeq([q \in 1 .. m |-> WideBlock(x[p], y[q])])])
    BY <2>4 DEF Nested, Each
  <2>7. \A p \in 1 .. n : [q \in 1 .. m |-> WideBlock(x[p], y[q])] = [q \in 1 .. m |-> G[p][q]]
    BY <1>3, <2>4
  <2>8. Blocks(ii, jj) = Nested(x, LAMBDA r : Nested(y, LAMBDA d : WideBlock(r, d)))
    BY <2>5 DEF Blocks
  <2> QED BY <2>6, <2>7, <2>8 DEF GridOf
<1>5. ASSUME NEW p \in 1 .. n, NEW q \in 1 .. m
      PROVE  /\ G[p][q] \in Seq(Lines)
             /\ Cells(G[p][q]) = Rect(Band(Start(0, p, h), h), Band(Start(0, q, h), h))
  <2>1. PICK r, d \in Nat : r = Start(0, p, h) /\ d = Start(0, q, h)
    BY BlockStarts
  <2>2. G[p][q] = WideBlock(r, d)
    BY <1>3, <2>1
  <2> QED BY <1>1, <2>1, <2>2, WideBlockFacts
<1>6. G \in [1 .. n -> [1 .. m -> Seq(Lines)]]
  BY <1>3, <1>5
<1>7. PICK down \in BOOLEAN : down = TRUE
  OBVIOUS
<1>8. \A p \in 1 .. n, q \in 1 .. m : Cells(G[p][q]) =
        IF down THEN Rect(Band(Start(0, p, h), h), Band(Start(0, q, h), h))
        ELSE Rect(Band(Start(0, q, h), h), Band(Start(0, p, h), h))
  BY <1>5, <1>7
<1>9. Covers(GridOf(n, m, G), ii, jj)
  <2>1. GridCells(n, m, G, h, h, down)
    BY <1>8 DEF GridCells
  <2>2. GridCovers(GridOf(n, m, G), n, m, h, h, down)
    <3>1. n \in Nat /\ m \in Nat /\ h \in {1, 2, 4, 8, 16} /\ down \in BOOLEAN
      OBVIOUS
    <3> QED BY <1>6, <2>1, <3>1, GridFacts, SMTT(90)
  <2> QED BY <1>2, <1>7, <2>2 DEF GridCovers
<1> QED BY <1>2, <1>4, <1>9

(* M and N rounded down to 16.                                             *)
Down16(N) == 16 * ((N - 1) \div 16)

(* trans_5 is its blocks, then the rows left over, then the columns left   *)
(* over.                                                                   *)
LEMMA Trans5Parts ==
  ASSUME NEW M, NEW N
  PROVE  trans_5(M, N) = (Blocks(Down16(N), Down16(M)) \o CellsFrom(Down16(N), N, 0, M))
                           \o CellsFrom(0, Down16(N), Down16(M), M)
BY DEF trans_5, Blocks, CellsFrom, WideBlock, Down16

(* How they cover the matrix.                                              *)
Tiled(ii, a, jj, c, M, N) ==
  Rect(Band(0, ii), Band(0, jj)) \cup Rect(Band(ii, a), Band(0, M))
    \cup Rect(Band(0, ii), Band(jj, c)) = Rect(Band(0, N), Band(0, M))

(* These three rectangles make the matrix.                                 *)
LEMMA Tiles ==
  ASSUME NEW ii \in Nat, NEW a \in Nat, NEW jj \in Nat, NEW c \in Nat,
         NEW M, NEW N, N = ii + a, M = jj + c
  PROVE  Tiled(ii, a, jj, c, M, N)
<1>1. /\ \A v : v \in Band(0, N) <=> v \in Band(0, ii) \/ v \in Band(ii, a)
      /\ \A v : v \in Band(0, M) <=> v \in Band(0, jj) \/ v \in Band(jj, c)
  BY DEF Band
<1>2. PICK R0, R1, R2, C0, C1, C2 :
        /\ R0 = Band(0, N) /\ R1 = Band(0, ii) /\ R2 = Band(ii, a)
        /\ C0 = Band(0, M) /\ C1 = Band(0, jj) /\ C2 = Band(jj, c)
  OBVIOUS
<1>3. /\ \A v : v \in R0 <=> v \in R1 \/ v \in R2
      /\ \A v : v \in C0 <=> v \in C1 \/ v \in C2
  BY <1>1, <1>2
<1>4. Rect(R1, C1) \cup Rect(R2, C0) \cup Rect(R1, C2) = Rect(R0, C0)
  BY <1>3 DEF Rect
<1> QED BY <1>2, <1>4 DEF Tiled

(* trans_5 covers the matrix and nothing else, for every shape.            *)
LEMMA Trans5Facts ==
  ASSUME NEW M \in Nat \ {0}, NEW N \in Nat \ {0}
  PROVE  Covers(trans_5(M, N), N, M)
<1>1. PICK n, m \in Nat : n = (N - 1) \div 16 /\ m = (M - 1) \div 16
  OBVIOUS
<1>2. PICK ii, jj, a, c, z \in Nat :
        ii = 16 * n /\ jj = 16 * m /\ ii + a = N /\ jj + c = M /\ z = 0 /\ z + M = M /\ z + ii = ii
  <2>1. /\ 16 * n \in Nat /\ 16 * m \in Nat /\ N - 16 * n \in Nat /\ M - 16 * m \in Nat
        /\ 16 * n + (N - 16 * n) = N /\ 16 * m + (M - 16 * m) = M
    BY <1>1
  <2> QED BY <2>1
<1>3. PICK x, y, w \in Seq(Lines) :
        /\ x = Blocks(ii, jj) /\ y = CellsFrom(ii, N, 0, M) /\ w = CellsFrom(0, ii, jj, M)
        /\ Cells(x) = Rect(Band(0, ii), Band(0, jj))
        /\ Cells(y) = Rect(Band(ii, a), Band(0, M))
        /\ Cells(w) = Rect(Band(0, ii), Band(jj, c))
  <2>1. Blocks(ii, jj) \in Seq(Lines) /\ Cells(Blocks(ii, jj)) = Rect(Band(0, ii), Band(0, jj))
    BY <1>2, BlocksFacts DEF Covers
  <2>2. /\ CellsFrom(ii, ii + a, z, z + M) \in Seq(Lines)
        /\ Cells(CellsFrom(ii, ii + a, z, z + M)) = Rect(Band(ii, a), Band(z, M))
    BY CellsFromFacts
  <2>3. /\ CellsFrom(z, z + ii, jj, jj + c) \in Seq(Lines)
        /\ Cells(CellsFrom(z, z + ii, jj, jj + c)) = Rect(Band(z, ii), Band(jj, c))
    BY CellsFromFacts
  <2> QED BY <1>2, <2>1, <2>2, <2>3, ZenonT(60)
<1>4. trans_5(M, N) = (x \o y) \o w
  <2>1. ii = Down16(N) /\ jj = Down16(M)
    BY <1>1, <1>2 DEF Down16
  <2> QED BY <1>3, <2>1, Trans5Parts
<1>5. PICK xy \in Seq(Lines) : xy = x \o y /\ Cells(xy) = Cells(x) \cup Cells(y)
  BY CellsOfBoth
<1>6. trans_5(M, N) \in Seq(Lines) /\ Cells(trans_5(M, N)) = Cells(xy) \cup Cells(w)
  <2>1. trans_5(M, N) = xy \o w
    BY <1>4, <1>5
  <2> QED BY <2>1, CellsOfBoth
<1>7. Cells(trans_5(M, N)) = Rect(Band(0, N), Band(0, M))
  <2>1. Cells(trans_5(M, N)) = Rect(Band(0, ii), Band(0, jj)) \cup Rect(Band(ii, a), Band(0, M))
                                 \cup Rect(Band(0, ii), Band(jj, c))
    BY <1>2, <1>3, <1>5, <1>6
  <2>2. Tiled(ii, a, jj, c, M, N)
    BY <1>2, Tiles
  <2> QED BY <2>1, <2>2 DEF Tiled
<1> QED BY <1>6, <1>7 DEF Covers

\* The rows and columns of A that a function reads.
RowsRead(f, M, N) ==
  CASE f \in {"trans", "transpose_submit"} -> N
    [] f \in {"transBlock", "transBlockSpaceConsuming"} -> 32
    [] f = "transBlockSpaceConsuming64" -> 8 * ((M + 7) \div 8)
ColumnsRead(f, M, N) ==
  CASE f \in {"trans", "transpose_submit"} -> M
    [] f \in {"transBlock", "transBlockSpaceConsuming"} -> 32
    [] f = "transBlockSpaceConsuming64" -> 4 * ((N + 3) \div 4)

Reads(f, M, N) ==
  /\ Covers(Transposed(f, M, N), RowsRead(f, M, N), ColumnsRead(f, M, N))
  /\ RowsRead(f, M, N) \in Nat \ {0} /\ ColumnsRead(f, M, N) \in Nat \ {0}
  /\ N >= 8 /\ RowsRead(f, M, N) > N => Overtaken(Transposed(f, M, N), N)

(* What each registered function covers, for every shape.                  *)
LEMMA TransposedFacts ==
  ASSUME NEW f \in Registered, NEW M \in Nat \ {0}, NEW N \in Nat \ {0}
  PROVE  Reads(f, M, N)
<1>1. CASE f = "transpose_submit"
  <2>1. Transposed(f, M, N) = trans_5(M, N) /\ RowsRead(f, M, N) = N /\ ColumnsRead(f, M, N) = M
    BY <1>1 DEF Transposed, transpose_submit, RowsRead, ColumnsRead
  <2> QED BY <2>1, Trans5Facts DEF Reads
<1>2. CASE f = "trans"
  <2>1. Transposed(f, M, N) = trans(M, N) /\ RowsRead(f, M, N) = N /\ ColumnsRead(f, M, N) = M
    BY <1>2 DEF Transposed, RowsRead, ColumnsRead
  <2> QED BY <2>1, TransFacts DEF Reads
<1>3. CASE f = "transBlock"
  <2>1. Transposed(f, M, N) = transBlock(M, N) /\ RowsRead(f, M, N) = 32 /\ ColumnsRead(f, M, N) = 32
    BY <1>3 DEF Transposed, RowsRead, ColumnsRead
  <2> QED BY <2>1, TransBlockFacts DEF Reads
<1>4. CASE f = "transBlockSpaceConsuming"
  <2>1. /\ Transposed(f, M, N) = transBlockSpaceConsuming(M, N)
        /\ RowsRead(f, M, N) = 32 /\ ColumnsRead(f, M, N) = 32
    BY <1>4 DEF Transposed, RowsRead, ColumnsRead
  <2> QED BY <2>1, SpaceConsumingFacts DEF Reads
<1>5. CASE f = "transBlockSpaceConsuming64"
  <2>1. /\ Transposed(f, M, N) = transBlockSpaceConsuming64(M, N)
        /\ RowsRead(f, M, N) = 8 * ((M + 7) \div 8) /\ ColumnsRead(f, M, N) = 4 * ((N + 3) \div 4)
    BY <1>5 DEF Transposed, RowsRead, ColumnsRead
  <2>2. 8 * ((M + 7) \div 8) \in Nat \ {0} /\ 4 * ((N + 3) \div 4) \in Nat \ {0}
    OBVIOUS
  <2> QED BY <2>1, <2>2, SpaceConsuming64Facts DEF Reads
<1> QED BY <1>1, <1>2, <1>3, <1>4, <1>5 DEF Registered

-----------------------------------------------------------------------------
\* What a loop stores at a place, or leaves there.
StoredAt(new, old, copies, M, N, p) ==
  IF \E c \in CellsOf(copies) : InB(N, c) = p
  THEN \E c \in CellsOf(copies) : InB(N, c) = p /\ new[p] = InA(M, c)
  ELSE new[p] = old[p]

(* The cells a line stores, in order.                                      *)
StoresOf(copies) == FlattenSeq([k \in DOMAIN copies |-> copies[k].stores])

(* The stores of a line in order: its cells, each at least once.           *)
LEMMA StoresOfCopies ==
  ASSUME NEW copies \in Lines, NEW x, x = StoresOf(copies)
  PROVE  /\ x \in Seq(Coords) /\ DOMAIN x = 1 .. Len(x) /\ Len(x) \in Nat
         /\ \A c : c \in CellsOf(copies) <=> \E n \in DOMAIN x : c = x[n]
<1>1. PICK z : z = [n \in 1 .. Len(copies) |-> copies[n].stores]
  OBVIOUS
<1>2. DOMAIN copies = 1 .. Len(copies) /\ Len(copies) \in Nat /\ \A n \in 1 .. Len(copies) : copies[n] \in Moves
  BY LenProperties, ElementOfSeq DEF Lines
<1>3. x = FlattenSeq(z)
  BY <1>1, <1>2 DEF StoresOf
<1>4. z \in Seq(Seq(Coords)) /\ Len(z) = Len(copies)
  <2>1. \A n \in 1 .. Len(copies) : copies[n].stores \in Seq(Coords)
    BY <1>2 DEF Moves
  <2>2. z \in [1 .. Len(copies) -> Seq(Coords)]
    BY <1>1, <2>1
  <2> QED BY <1>2, <2>2, FunctionIsSeq
<1>5. x \in Seq(Coords) /\ \A c : c \in ToSet(x) <=> \E n \in 1 .. Len(copies) : c \in ToSet(z[n])
  BY <1>3, <1>4, FlattenMembers
<1>6. DOMAIN x = 1 .. Len(x) /\ Len(x) \in Nat
  BY <1>5, LenProperties
<1>7. \A n \in 1 .. Len(copies) : z[n] = copies[n].stores
  BY <1>1
<1>8. \A c : c \in CellsOf(copies) <=> \E n \in 1 .. Len(copies) : c \in ToSet(copies[n].stores)
  BY <1>2 DEF CellsOf
<1>9. \A c : c \in ToSet(x) <=> \E n \in DOMAIN x : c = x[n]
  BY DEF ToSet
<1>10. \A c : c \in ToSet(x) <=> \E n \in 1 .. Len(copies) : c \in ToSet(copies[n].stores)
  BY <1>5, <1>7
<1>11. \A c : c \in CellsOf(copies) <=> \E n \in DOMAIN x : c = x[n]
  BY <1>8, <1>9, <1>10
<1> QED BY <1>5, <1>6, <1>11

(* What a line does to B.                                                  *)
StoredIn(D, new, old, copies, M, N) ==
  DOMAIN new = D /\ new = [p \in D |-> new[p]] /\ \A p \in D : StoredAt(new, old, copies, M, N, p)

(* After a line a place of B holds a cell of the line that is stored       *)
(* there, or what it held before.                                          *)
LEMMA StoredFacts ==
  ASSUME NEW M \in Nat, NEW N \in Nat, NEW copies \in Lines, NEW D, NEW S, NEW old \in [D -> S],
         NEW new, new = Stored(old, copies, M, N)
  PROVE  StoredIn(D, new, old, copies, M, N)
<1>1. PICK x : x = StoresOf(copies)
  OBVIOUS
<1>2. /\ x \in Seq(Coords) /\ DOMAIN x = 1 .. Len(x) /\ Len(x) \in Nat
      /\ \A c : c \in CellsOf(copies) <=> \E n \in DOMAIN x : c = x[n]
  BY <1>1, StoresOfCopies
<1>3. PICK place : place = [n \in DOMAIN x |-> InB(N, x[n])]
  OBVIOUS
<1> DEFINE Latest(p) == Max({n \in DOMAIN x : place[n] = p})
<1>4. new = [p \in D |-> IF p \in ToSet(place) THEN InA(M, x[Latest(p)]) ELSE old[p]]
  BY <1>1, <1>3 DEF Stored, StoresOf
<1>5. \A p : p \in ToSet(place) <=> \E n \in DOMAIN x : place[n] = p
  BY <1>3 DEF ToSet
<1>6. ASSUME NEW p, p \in ToSet(place)
      PROVE  Latest(p) \in DOMAIN x /\ place[Latest(p)] = p
  <2>1. PICK Q : Q = {n \in DOMAIN x : place[n] = p}
    OBVIOUS
  <2>2. Q # {} /\ Q \in SUBSET Nat /\ \A n \in Q : n <= Len(x)
    BY <1>2, <1>5, <1>6, <2>1
  <2>3. Max(Q) \in Q
    BY <1>2, <2>2, MaxOfNats
  <2> QED BY <2>1, <2>3
<1> HIDE DEF Last
<1>7. DOMAIN new = D /\ new = [p \in D |-> new[p]]
  BY <1>4
<1>8. ASSUME NEW p \in D
      PROVE  new[p] = IF p \in ToSet(place) THEN InA(M, x[Latest(p)]) ELSE old[p]
  BY <1>4
<1>9. ASSUME NEW p \in D
      PROVE  StoredAt(new, old, copies, M, N, p)
  <2>1. p \in ToSet(place) <=> \E c \in CellsOf(copies) : InB(N, c) = p
    BY <1>2, <1>3, <1>5
  <2>2. CASE p \in ToSet(place)
    <3>1. Latest(p) \in DOMAIN x /\ InB(N, x[Latest(p)]) = p
      BY <1>3, <1>6, <2>2
    <3>2. x[Latest(p)] \in CellsOf(copies) /\ new[p] = InA(M, x[Latest(p)])
      BY <1>2, <1>8, <2>2, <3>1
    <3> QED BY <2>1, <2>2, <3>1, <3>2 DEF StoredAt
  <2>3. CASE p \notin ToSet(place)
    BY <1>8, <2>1, <2>3 DEF StoredAt
  <2> QED BY <2>2, <2>3
<1> QED BY <1>7, <1>9 DEF StoredIn

(* Multiplication by a natural number is monotonic.                        *)
LEMMA TimesGrows ==
  ASSUME NEW a \in Nat, NEW b \in Nat, NEW n \in Nat
  PROVE  /\ a * n \in Nat /\ b * n \in Nat
         /\ a <= b => a * n <= b * n
         /\ a < b => a * n + n <= b * n
<1>1. a * n \in Nat /\ b * n \in Nat
  OBVIOUS
<1>2. ASSUME a <= b
      PROVE  a * n <= b * n
  BY <1>2
<1>3. ASSUME a < b
      PROVE  a * n + n <= b * n
  <2>1. a + 1 <= b /\ (a + 1) * n = a * n + n
    BY <1>3
  <2>2. (a + 1) * n <= b * n
    BY <2>1
  <2> QED BY <2>1, <2>2
<1> QED BY <1>1, <1>2, <1>3

(* Within the first N rows no two cells share a place of B.                *)
LEMMA PlacesDiffer ==
  ASSUME NEW N \in Nat, NEW u \in 0 .. N - 1, NEW j \in Nat, NEW k \in 0 .. N - 1, NEW l \in Nat,
         j * N + u = l * N + k
  PROVE  u = k /\ j = l
<1>1. j * N \in Nat /\ l * N \in Nat
  OBVIOUS
<1>2. ~ (j < l)
  <2>1. j < l => j * N + N <= l * N
    BY TimesGrows
  <2> QED BY <1>1, <2>1
<1>3. ~ (l < j)
  <2>1. l < j => l * N + N <= j * N
    BY TimesGrows
  <2> QED BY <1>1, <2>1
<1>4. j = l
  BY <1>2, <1>3
<1> QED BY <1>1, <1>4

(* The cells of a line are pairs of naturals, and so are their places.     *)
LEMMA CellNumbers ==
  ASSUME NEW M \in Nat, NEW N \in Nat, NEW loops \in Seq(Lines),
         NEW n \in 1 .. Len(loops), NEW c \in CellsOf(loops[n])
  PROVE  /\ c = <<c[1], c[2]>> /\ c[1] \in Nat /\ c[2] \in Nat
         /\ InA(M, c) \in Nat /\ InB(N, c) \in Nat /\ c \in Cells(loops)
<1>1. loops[n] \in Lines /\ n \in DOMAIN loops
  BY ElementOfSeq, LenProperties
<1>2. PICK m \in DOMAIN loops[n] : c \in ToSet(loops[n][m].stores)
  BY DEF CellsOf
<1>3. loops[n][m] \in Moves
  BY <1>1, <1>2, ElementOfSeq, LenProperties DEF Lines
<1>4. loops[n][m].stores \in Seq(Coords)
  BY <1>3 DEF Moves
<1>5. c \in Coords
  BY <1>2, <1>4, ElementOfSeq, LenProperties DEF ToSet
<1>6. c = <<c[1], c[2]>> /\ c[1] \in Nat /\ c[2] \in Nat
  BY <1>5 DEF Coords
<1>7. InA(M, c) \in Nat /\ InB(N, c) \in Nat
  BY <1>6, SMTT(60) DEF InA, InB
<1> QED BY <1>1, <1>6, <1>7 DEF Cells
-----------------------------------------------------------------------------
(* B after the first d loops.                                              *)
IsFrom(loops, d, v, M, N, p) ==
  \E n \in 1 .. d : \E c \in CellsOf(loops[n]) : InB(N, c) = p /\ v = InA(M, c)

Memory(loops, d, mem, M, N) ==
  /\ mem \in [0 .. M * N - 1 -> Int]
  /\ \A p \in 0 .. M * N - 1 : mem[p] = -1 \/ IsFrom(loops, d, mem[p], M, N, p)
  /\ \A n \in 1 .. d : \A c \in CellsOf(loops[n]) :
       InB(N, c) \in 0 .. M * N - 1 => mem[InB(N, c)] # -1
  /\ Overtaken(loops, N) /\ M > 1 /\ N > 1 =>
       \A n \in 1 .. d : <<N, 0>> \in CellsOf(loops[n]) => mem[N] # 1

(* Before the first loop nothing is stored.                                *)
LEMMA MemoryStarts ==
  ASSUME NEW M \in Nat, NEW N \in Nat, NEW loops, NEW mem, mem = [p \in 0 .. M * N - 1 |-> -1]
  PROVE  Memory(loops, 0, mem, M, N)
BY DEF Memory

(* One more loop.                                                          *)
LEMMA MemoryGoesOn ==
  ASSUME NEW M \in Nat, NEW N \in Nat, NEW loops \in Seq(Lines), NEW d \in Nat,
         NEW e \in 1 .. Len(loops), e = d + 1,
         NEW old, Memory(loops, d, old, M, N), NEW new, new = Stored(old, loops[e], M, N)
  PROVE  Memory(loops, e, new, M, N)
<1>1. PICK D : D = 0 .. M * N - 1
  OBVIOUS
<1>2. /\ old \in [D -> Int]
      /\ \A p \in D : old[p] = -1 \/ IsFrom(loops, d, old[p], M, N, p)
      /\ \A n \in 1 .. d : \A c \in CellsOf(loops[n]) : InB(N, c) \in D => old[InB(N, c)] # -1
      /\ Overtaken(loops, N) /\ M > 1 /\ N > 1 =>
           \A n \in 1 .. d : <<N, 0>> \in CellsOf(loops[n]) => old[N] # 1
  BY <1>1 DEF Memory
<1>3. loops[e] \in Lines
  BY ElementOfSeq
<1>4. DOMAIN new = D /\ new = [p \in D |-> new[p]] /\ \A p \in D : StoredAt(new, old, loops[e], M, N, p)
  <2>0. PICK S : S = Int
    OBVIOUS
  <2>1. PICK copies \in Lines : copies = loops[e]
    BY <1>3
  <2>2. old \in [D -> S] /\ new = Stored(old, copies, M, N)
    BY <1>2, <2>0, <2>1
  <2>3. StoredIn(D, new, old, copies, M, N)
    BY <2>2, StoredFacts
  <2> QED BY <2>1, <2>3 DEF StoredIn
<1>5. \A c \in CellsOf(loops[e]) :
        /\ c = <<c[1], c[2]>> /\ c[1] \in Nat /\ c[2] \in Nat
        /\ InA(M, c) \in Nat /\ InB(N, c) \in Nat /\ c \in Cells(loops)
  BY CellNumbers
<1>6. ASSUME NEW p \in D
      PROVE  \/ /\ \E c \in CellsOf(loops[e]) : InB(N, c) = p /\ new[p] = InA(M, c)
             \/ /\ \A c \in CellsOf(loops[e]) : InB(N, c) # p
                /\ new[p] = old[p]
  BY <1>4 DEF StoredAt
<1>7. \A n : n \in 1 .. e <=> n \in 1 .. d \/ n = e
  OBVIOUS
<1>8. ASSUME NEW p \in D
      PROVE  new[p] \in Int /\ (new[p] = -1 \/ IsFrom(loops, e, new[p], M, N, p))
  <2>1. CASE \E c \in CellsOf(loops[e]) : InB(N, c) = p /\ new[p] = InA(M, c)
    BY <1>5, <1>7, <2>1 DEF IsFrom
  <2>2. CASE new[p] = old[p]
    BY <1>2, <1>7, <2>2 DEF IsFrom
  <2> QED BY <1>6, <2>1, <2>2
<1>9. ASSUME NEW n \in 1 .. e, NEW c \in CellsOf(loops[n]), InB(N, c) \in D
      PROVE  new[InB(N, c)] # -1
  <2>1. PICK p \in D : p = InB(N, c)
    BY <1>9
  <2>2. CASE \E b \in CellsOf(loops[e]) : InB(N, b) = p /\ new[p] = InA(M, b)
    BY <1>5, <2>1, <2>2
  <2>3. CASE (\A b \in CellsOf(loops[e]) : InB(N, b) # p) /\ new[p] = old[p]
    <3>1. n \in 1 .. d
      BY <1>7, <2>1, <2>3
    <3> QED BY <1>2, <2>1, <2>3, <3>1
  <2> QED BY <1>6, <2>2, <2>3
<1>10. ASSUME Overtaken(loops, N), M > 1, N > 1, NEW n \in 1 .. e, <<N, 0>> \in CellsOf(loops[n])
       PROVE  new[N] # 1
  <2>1. PICK cut \in Nat : \A l \in 1 .. Len(loops) :
          IF l <= cut THEN <<N, 0>> \notin CellsOf(loops[l]) ELSE <<0, 1>> \notin CellsOf(loops[l])
    BY <1>10 DEF Overtaken
  <2>2. n \in 1 .. Len(loops) /\ n <= e /\ n \in Nat
    OBVIOUS
  <2>3. n > cut /\ e > cut
    <3>1. ~ (n <= cut)
      <4>1. IF n <= cut THEN <<N, 0>> \notin CellsOf(loops[n]) ELSE <<0, 1>> \notin CellsOf(loops[n])
        BY <2>1, <2>2
      <4> QED BY <1>10, <4>1
    <3> QED BY <2>2, <3>1
  <2>4. <<0, 1>> \notin CellsOf(loops[e])
    BY <2>1, <2>3
  <2>5. N \in D
    <3>1. 1 * N + N <= M * N
      BY <1>10, TimesGrows
    <3> QED BY <1>1, <1>10, <3>1
  <2>6. ASSUME NEW c \in CellsOf(loops[e]), InB(N, c) = N
        PROVE  InA(M, c) # 1
    <3>1. PICK x, y \in Nat : c = <<x, y>> /\ c[1] = x /\ c[2] = y
      BY <1>5
    <3>2. y * N + x = N /\ InA(M, c) = x * M + y
      BY <2>6, <3>1 DEF InA, InB
    <3>3. ~ (y > 1)
      <4>1. y > 1 => 1 * N + N <= y * N
        BY TimesGrows
      <4> QED BY <1>10, <3>2, <4>1, SMTT(60)
    <3>4. y # 1
      <4>1. y = 1 => x = 0
        BY <3>2
      <4> QED BY <2>4, <3>1, <4>1
    <3>5. y = 0 /\ x = N
      <4>1. y = 0
        BY <3>3, <3>4
      <4> QED BY <3>2, <4>1
    <3>6. 1 * M + M <= N * M
      BY <1>10, TimesGrows
    <3> QED BY <1>10, <3>2, <3>5, <3>6
  <2>7. CASE \E c \in CellsOf(loops[e]) : InB(N, c) = N /\ new[N] = InA(M, c)
    BY <2>6, <2>7
  <2>8. CASE (\A c \in CellsOf(loops[e]) : InB(N, c) # N) /\ new[N] = old[N]
    <3>1. InB(N, <<N, 0>>) = N
      BY DEF InB
    <3>2. n # e
      BY <1>10, <2>8, <3>1
    <3>3. n \in 1 .. d
      BY <1>7, <3>2
    <3> QED BY <1>2, <1>10, <2>8, <3>3
  <2> QED BY <1>6, <2>5, <2>7, <2>8
<1> QED BY <1>1, <1>4, <1>8, <1>9, <1>10 DEF Memory

(* Every cell of the loops is a cell of one of their lines.                *)
LEMMA CellLine ==
  ASSUME NEW loops \in Seq(Lines)
  PROVE  \A c \in Cells(loops) : \E n \in 1 .. Len(loops) : c \in CellsOf(loops[n])
BY LenProperties DEF Cells

(* Where a place gets its value from when all loops are done.              *)
LEMMA MemoryEnds ==
  ASSUME NEW M \in Nat, NEW N \in Nat, M >= 1, N >= 1, NEW R \in Nat \ {0}, NEW C \in Nat \ {0},
         NEW loops, Covers(loops, R, C), R > N => M > 1 /\ N > 1, R > N => Overtaken(loops, N),
         NEW mem, Memory(loops, Len(loops), mem, M, N)
  PROVE  validate(mem, M, N) <=> R = N /\ C >= M
<1>1. loops \in Seq(Lines) /\ Len(loops) \in Nat
  BY LenProperties DEF Covers
<1>2. /\ \A c \in Cells(loops) : \E x \in 0 .. R - 1, y \in 0 .. C - 1 : c = <<x, y>>
      /\ \A x \in 0 .. R - 1, y \in 0 .. C - 1 : <<x, y>> \in Cells(loops)
  BY SMTT(60) DEF Covers, Rect, Band
<1>3. PICK D : D = 0 .. M * N - 1
  OBVIOUS
<1>4. /\ \A p \in D : mem[p] = -1 \/ IsFrom(loops, Len(loops), mem[p], M, N, p)
      /\ \A n \in 1 .. Len(loops) : \A c \in CellsOf(loops[n]) : InB(N, c) \in D => mem[InB(N, c)] # -1
      /\ Overtaken(loops, N) /\ M > 1 /\ N > 1 =>
           \A n \in 1 .. Len(loops) : <<N, 0>> \in CellsOf(loops[n]) => mem[N] # 1
  <2>1. Memory(loops, Len(loops), mem, M, N)
    OBVIOUS
  <2>2. \A p \in 0 .. M * N - 1 : mem[p] = -1 \/ IsFrom(loops, Len(loops), mem[p], M, N, p)
    BY <2>1, Zenon DEF Memory
  <2>3. \A n \in 1 .. Len(loops) :
          \A c \in CellsOf(loops[n]) : InB(N, c) \in 0 .. M * N - 1 => mem[InB(N, c)] # -1
    BY <2>1, Zenon DEF Memory
  <2>4. Overtaken(loops, N) /\ M > 1 /\ N > 1 =>
          \A n \in 1 .. Len(loops) : <<N, 0>> \in CellsOf(loops[n]) => mem[N] # 1
    BY <2>1, Zenon DEF Memory
  <2> QED BY <1>3, <2>2, <2>3, <2>4, Zenon
<1>5. ASSUME NEW p \in D
      PROVE  mem[p] = -1 \/ \E x \in 0 .. R - 1, y \in 0 .. C - 1 : y * N + x = p /\ mem[p] = x * M + y
  <2>1. CASE IsFrom(loops, Len(loops), mem[p], M, N, p)
    <3>1. PICK n \in 1 .. Len(loops) : \E c \in CellsOf(loops[n]) : InB(N, c) = p /\ mem[p] = InA(M, c)
      BY <2>1 DEF IsFrom
    <3>2. PICK c \in CellsOf(loops[n]) : InB(N, c) = p /\ mem[p] = InA(M, c)
      BY <3>1
    <3>3. c \in Cells(loops)
      BY <1>1, CellNumbers
    <3>4. PICK x \in 0 .. R - 1, y \in 0 .. C - 1 : c = <<x, y>>
      BY <1>2, <3>3
    <3> QED BY <3>2, <3>4 DEF InA, InB
  <2> QED BY <1>4, <2>1
<1>6. ASSUME NEW x \in 0 .. R - 1, NEW y \in 0 .. C - 1, y * N + x \in D
      PROVE  mem[y * N + x] # -1
  <2>1. PICK c : c = <<x, y>>
    OBVIOUS
  <2>2. PICK n \in 1 .. Len(loops) : c \in CellsOf(loops[n])
    BY <1>1, <1>2, <2>1, CellLine
  <2>3. InB(N, c) = y * N + x
    BY <2>1 DEF InB
  <2> QED BY <1>4, <1>6, <2>2, <2>3
<1>7. ASSUME NEW x \in 0 .. N - 1, NEW y \in 0 .. M - 1
      PROVE  y * N + x \in D
  <2>1. y \in Nat /\ y < M
    OBVIOUS
  <2>2. y * N + N <= M * N /\ y * N \in Nat /\ M * N \in Nat
    BY <2>1, TimesGrows
  <2> QED BY <1>3, <2>2
<1>8. validate(mem, M, N) <=> \A x \in 0 .. N - 1, y \in 0 .. M - 1 : mem[y * N + x] = x * M + y
  BY DEF validate, InA, InB
<1>9. CASE R = N /\ C >= M
  <2>1. ASSUME NEW x \in 0 .. N - 1, NEW y \in 0 .. M - 1
        PROVE  mem[y * N + x] = x * M + y
    <3>1. PICK p \in D : p = y * N + x
      BY <1>7
    <3>2. mem[p] # -1
      <4>1. x \in 0 .. R - 1 /\ y \in 0 .. C - 1
        BY <1>9
      <4> QED BY <1>6, <3>1, <4>1
    <3>3. PICK u \in 0 .. R - 1, v \in 0 .. C - 1 : v * N + u = p /\ mem[p] = u * M + v
      BY <1>5, <3>2
    <3>4. u = x /\ v = y
      <4>1. u \in 0 .. N - 1 /\ v \in Nat /\ y \in Nat
        BY <1>9
      <4> QED BY <3>1, <3>3, <4>1, PlacesDiffer
    <3> QED BY <3>1, <3>3, <3>4
  <2> QED BY <1>8, <1>9, <2>1
<1>10. CASE R = N /\ C < M
  <2>1. PICK p \in D : p = C * N + 0 /\ p = C * N
    <3>1. 0 \in 0 .. N - 1 /\ C \in 0 .. M - 1
      BY <1>10
    <3>2. C * N + 0 \in D
      BY <1>7, <3>1
    <3>3. C * N \in Nat
      OBVIOUS
    <3>4. C * N + 0 = C * N
      BY <3>3
    <3> QED BY <3>2, <3>4
  <2>2. mem[p] = -1
    <3>1. ASSUME NEW u \in 0 .. R - 1, NEW v \in 0 .. C - 1, v * N + u = p
          PROVE  FALSE
      <4>1. v \in Nat /\ v < C /\ u < N
        BY <1>10
      <4>2. v * N + N <= C * N /\ v * N \in Nat /\ C * N \in Nat
        BY <4>1, TimesGrows
      <4> QED BY <2>1, <3>1, <4>1, <4>2
    <3> QED BY <1>5, <3>1
  <2>3. ~ validate(mem, M, N)
    <3>1. 0 \in 0 .. N - 1 /\ C \in 0 .. M - 1 /\ 0 * M + C \in Nat /\ p = C * N + 0
      BY <1>10, <2>1
    <3>2. 0 * M + C # -1
      BY <3>1
    <3> QED BY <1>8, <2>2, <3>1, <3>2
  <2> QED BY <1>10, <2>3
<1>11. CASE R < N
  <2>1. PICK p \in D : p = 0 * N + R /\ p = R
    <3>1. R \in 0 .. N - 1 /\ 0 \in 0 .. M - 1 /\ 0 * N + R = R
      BY <1>11
    <3> QED BY <1>7, <3>1
  <2>2. mem[p] = -1
    <3>1. ASSUME NEW u \in 0 .. R - 1, NEW v \in 0 .. C - 1, v * N + u = p
          PROVE  FALSE
      <4>1. v \in Nat /\ u < R
        BY <1>11
      <4>2. v = 0 \/ 1 * N <= v * N
        BY <4>1, TimesGrows
      <4>3. v * N \in Nat /\ 1 * N = N
        BY <4>1
      <4>4. v # 0
        <5>1. v = 0 => v * N = 0
          OBVIOUS
        <5> QED BY <2>1, <3>1, <4>1, <5>1
      <4>5. N <= v * N
        BY <4>2, <4>3, <4>4
      <4> QED BY <1>11, <2>1, <3>1, <4>3, <4>5
    <3> QED BY <1>5, <3>1
  <2>3. ~ validate(mem, M, N)
    <3>1. R \in 0 .. N - 1 /\ 0 \in 0 .. M - 1 /\ R * M + 0 \in Nat /\ p = 0 * N + R
      BY <1>11, <2>1
    <3>2. R * M + 0 # -1
      BY <3>1
    <3> QED BY <1>8, <2>2, <3>1, <3>2
  <2> QED BY <1>11, <2>3
<1>12. CASE R > N
  <2>1. PICK n \in 1 .. Len(loops) : <<N, 0>> \in CellsOf(loops[n])
    <3>1. N \in 0 .. R - 1 /\ 0 \in 0 .. C - 1
      BY <1>12
    <3>2. PICK c : c = <<N, 0>> /\ c \in Cells(loops)
      BY <1>2, <3>1
    <3> QED BY <1>1, <3>2, CellLine
  <2>2. mem[N] # 1
    BY <1>4, <1>12, <2>1
  <2>3. 0 \in 0 .. N - 1 /\ 1 \in 0 .. M - 1 /\ 1 * N + 0 = N /\ 0 * M + 1 = 1
    BY <1>12
  <2>4. ~ validate(mem, M, N)
    BY <1>8, <2>2, <2>3
  <2> QED BY <1>12, <2>4
<1> QED BY <1>9, <1>10, <1>11, <1>12

(* A function suits a shape exactly when it covers as many rows as the     *)
(* matrix has, and no fewer columns.                                       *)
LEMMA SuitsFacts ==
  ASSUME NEW f \in Registered, NEW m \in Nat \ {0}, NEW n \in Nat \ {0}
  PROVE  Suits(f, m, n) <=> RowsRead(f, m, n) = n /\ ColumnsRead(f, m, n) >= m
<1>1. CASE f \in {"trans", "transpose_submit"}
  <2>1. Suits(f, m, n) /\ RowsRead(f, m, n) = n /\ ColumnsRead(f, m, n) = m
    BY <1>1 DEF Suits, RowsRead, ColumnsRead
  <2> QED BY <2>1
<1>2. CASE f \in {"transBlock", "transBlockSpaceConsuming"}
  BY <1>2 DEF Suits, RowsRead, ColumnsRead
<1>3. CASE f = "transBlockSpaceConsuming64"
  <2>1. /\ Suits(f, m, n) <=> n % 8 = 0 /\ m \in n - 7 .. n
        /\ RowsRead(f, m, n) = 8 * ((m + 7) \div 8)
        /\ ColumnsRead(f, m, n) = 4 * ((n + 3) \div 4)
    BY <1>3 DEF Suits, RowsRead, ColumnsRead
  <2>2. n % 8 = 0 /\ m \in n - 7 .. n <=> 8 * ((m + 7) \div 8) = n /\ 4 * ((n + 3) \div 4) >= m
    OBVIOUS
  <2> QED BY <2>1, <2>2
<1> QED BY <1>1, <1>2, <1>3 DEF Registered
-----------------------------------------------------------------------------
(* Where the session is.                                                   *)
Running == {"next", "trace", "filter", "simulate", "collect"}

(* The current test and the current function exist, and the shape has been *)
(* checked.                                                                *)
Course ==
  /\ session \in Sessions
  /\ t \in 1 .. Len(session.tests)
  /\ i \in Nat \ {0}
  /\ phase \in Running => test.M \in 1 .. MAXN /\ test.N \in 1 .. MAXN
  /\ phase \in Running \ {"next"} => i \in 1 .. Len(session.func_list)

(* Course holds at first.                                                  *)
LEMMA CourseBegins == TestTransInit => Course
<1> SUFFICES ASSUME TestTransInit PROVE Course
  OBVIOUS
<1>1. session \in Sessions /\ t = 1 /\ i = 1 /\ phase = "begin"
  BY DEF TestTransInit
<1>2. Len(session.tests) \in Nat \ {0}
  BY <1>1, SessionAssumption, LenProperties, EmptySeq
<1> QED BY <1>1, <1>2 DEF Course, Running

(* The parts of a session that runs have their types.                      *)
LEMMA SessionFacts ==
  ASSUME Course
  PROVE  /\ session.tests \in Seq(Test) /\ Len(session.tests) \in Nat
         /\ test \in Test /\ test.M \in Nat /\ test.N \in Nat
         /\ session.func_list \in Seq([func : Registered, description : STRING])
         /\ Len(session.func_list) \in Nat
<1>1. /\ session.tests \in Seq(Test)
      /\ session.func_list \in Seq([func : Registered, description : STRING])
  BY SessionAssumption DEF Course
<1>2. test \in Test
  BY <1>1, ElementOfSeq DEF Course, test
<1> QED BY <1>1, <1>2, LenProperties DEF Test

(* Course survives the end of a test.                                      *)
LEMMA PrintedCourse ==
  ASSUME Course, NEW output, Printed(output), i' \in Nat \ {0}
  PROVE  Course'
<1>1. session' = session /\ t' \in 1 .. Len(session.tests) /\ phase' \in {"score", "begin"}
  BY SessionFacts DEF Course, Printed
<1> QED BY <1>1 DEF Course, Running

(* Every step keeps Course.                                                *)
LEMMA CourseGoesOn == Course /\ [TestTransNext]_harness_vars => Course'
<1> SUFFICES ASSUME Course, [TestTransNext]_harness_vars PROVE Course'
  OBVIOUS
<1>0. test.M \in Nat /\ test.N \in Nat /\ MAXN = 256 /\ Len(session.func_list) \in Nat
  BY SessionFacts DEF MAXN
<1>1. CASE UNCHANGED <<session, t, i, phase>>
  BY <1>1 DEF Course, test
<1>2. ASSUME UNCHANGED <<session, t>>, i' \in Nat \ {0},
             phase' \notin Running
      PROVE  Course'
  BY <1>2 DEF Course, test
<1>3. ASSUME UNCHANGED <<session, t>>, phase' = "next", i' \in Nat \ {0},
             test.M \in 1 .. MAXN, test.N \in 1 .. MAXN
      PROVE  Course'
  BY <1>3 DEF Course, test, Running
<1>4. ASSUME UNCHANGED <<session, t, i>>, phase \in Running, i <= Len(session.func_list)
      PROVE  Course'
  <2>1. test.M \in 1 .. MAXN /\ test.N \in 1 .. MAXN
    BY <1>4 DEF Course
  <2>2. i \in 1 .. Len(session.func_list)
    BY <1>0, <1>4 DEF Course
  <2> QED BY <1>4, <2>1, <2>2 DEF Course, test
<1>5. \A x \in Nat : x > 0 => x \in 1 .. x
  OBVIOUS
<1> USE DEF driver_vars, fault_vars, file_vars
<1>6. CASE StartTest
  <2>2. CASE test.M = 0 \/ test.N = 0 \/ test.M > MAXN \/ test.N > MAXN
    BY <1>6, <2>2, PrintedCourse DEF StartTest
  <2>3. CASE ~ (test.M = 0 \/ test.N = 0 \/ test.M > MAXN \/ test.N > MAXN)
    <3>1. test.M \in 1 .. MAXN /\ test.N \in 1 .. MAXN
      <4>1. \A x \in Nat : ~ (x = 0 \/ x > 256) => x \in 1 .. 256
        OBVIOUS
      <4> QED BY <1>0, <2>3, <4>1, ZenonT(60)
    <3> QED BY <1>3, <1>6, <2>3, <3>1 DEF StartTest
  <2> QED BY <2>2, <2>3
<1>7. CASE StartTracegen
  BY <1>4, <1>7 DEF StartTracegen, Running
<1>8. CASE Tracegen
  BY <1>1, <1>8 DEF Tracegen
<1>9. ASSUME phase = "trace", NEW code, Evaluate(code)
      PROVE  Course'
  <2>1. i \in 1 .. Len(session.func_list) /\ test.M \in 1 .. MAXN /\ test.N \in 1 .. MAXN
    BY <1>9 DEF Course, Running
  <2>2. UNCHANGED <<session, t>> /\ i + 1 \in Nat \ {0}
    BY <1>9, <2>1 DEF Evaluate
  <2> QED BY <1>3, <1>4, <1>9, <2>1, <2>2 DEF Evaluate, Running
<1>10. CASE TracegenExits
  BY <1>9, <1>10 DEF TracegenExits
<1>11. CASE TracegenKilled
  BY <1>9, <1>11 DEF TracegenKilled
<1>12. CASE Filter
  <2>1. UNCHANGED <<session, t, i>> /\ phase = "filter"
    BY <1>12 DEF Filter
  <2>2. i \in 1 .. Len(session.func_list)
    BY <2>1 DEF Course, Running
  <2> QED BY <1>0, <1>4, <2>1, <2>2 DEF Running
<1>13. CASE Simulate
  <2>1. UNCHANGED <<session, t, i>> /\ phase = "simulate"
    BY <1>13 DEF Simulate
  <2>2. i \in 1 .. Len(session.func_list)
    BY <2>1 DEF Course, Running
  <2> QED BY <1>0, <1>4, <2>1, <2>2 DEF Running
<1>14. CASE CsimFails
  <2>1. UNCHANGED <<session, t, i>> /\ phase = "simulate"
    BY <1>14 DEF CsimFails
  <2>2. i \in 1 .. Len(session.func_list)
    BY <2>1 DEF Course, Running
  <2> QED BY <1>0, <1>4, <2>1, <2>2 DEF Running
<1>15. CASE Collect
  <2>1. phase = "collect" /\ i \in Nat \ {0} /\ i + 1 \in Nat \ {0}
    BY <1>15 DEF Collect, Course
  <2>2. test.M \in 1 .. MAXN /\ test.N \in 1 .. MAXN
    BY <2>1 DEF Course, Running
  <2>3. CASE csim_results = Nothing
    BY <1>15, <2>1, <2>3, PrintedCourse DEF Collect
  <2>4. CASE csim_results # Nothing
    BY <1>3, <1>15, <2>1, <2>2, <2>4 DEF Collect
  <2> QED BY <2>3, <2>4
<1>16. CASE PrintResults
  <2>1. i' = i /\ i \in Nat \ {0}
    BY <1>16 DEF PrintResults, Course
  <2>2. PICK output : Printed(output)
    BY <1>16 DEF PrintResults
  <2> QED BY <2>1, <2>2, PrintedCourse
<1>17. CASE Alarm
  BY <1>17, PrintedCourse DEF Alarm
<1>18. CASE Score
  BY <1>2, <1>18 DEF Score, Running, Course
<1>19. CASE OrphanEnds
  BY <1>1, <1>19 DEF OrphanEnds
<1>20. CASE UNCHANGED harness_vars
  BY <1>1, <1>20 DEF harness_vars
<1> QED BY <1>6, <1>7, <1>8, <1>10, <1>11, <1>12, <1>13, <1>14, <1>15, <1>16, <1>17, <1>18, <1>19, <1>20
        DEF TestTransNext

(* How many of the loops the parts of the trace stand for.                 *)
LoopsDone(parts, n) == IF parts <= 2 THEN 0 ELSE IF parts <= n + 2 THEN parts - 2 ELSE n

(* The inductive invariant of RightShapes: B holds what the loops written  *)
(* so far have stored.                                                     *)
MemoryKept ==
  phase = "trace" =>
    /\ traced \in 0 .. TraceLength
    /\ Memory(loops_now, LoopsDone(traced, Len(loops_now)), memory, test.M, test.N)

(* The loops of the current function are those of Transposed, for the      *)
(* shape of the current test.                                              *)
LEMMA LoopsOf ==
  ASSUME Course, test.M \in 1 .. MAXN, test.N \in 1 .. MAXN, i \in 1 .. Len(session.func_list)
  PROVE  /\ func \in Registered /\ test.M \in Nat \ {0} /\ test.N \in Nat \ {0}
         /\ test.M <= 256 /\ test.N <= 256
         /\ loops_now = Transposed(func, test.M, test.N)
         /\ loops_now \in Seq(Lines) /\ Len(loops_now) \in Nat
         /\ Reads(func, test.M, test.N)
<1>1. session \in Sessions /\ t \in 1 .. Len(session.tests)
  BY DEF Course
<1>2. test.M \in Nat \ {0} /\ test.N \in Nat \ {0} /\ test.M <= 256 /\ test.N <= 256
  <2>1. \A x \in 1 .. 256 : x \in Nat \ {0} /\ x <= 256
    OBVIOUS
  <2> QED BY <2>1, ZenonT(60) DEF MAXN
<1>3. /\ session.func_list \in Seq([func : Registered, description : STRING])
      /\ session.tests \in Seq(Test)
  BY SessionFacts
<1>4. func \in Registered
  <2>1. session.func_list[i] \in [func : Registered, description : STRING]
    BY <1>1, <1>3, ElementOfSeq
  <2> QED BY <2>1 DEF func
<1>5. loops_now = Transposed(func, test.M, test.N)
  <2>1. i \in DOMAIN session.func_list /\ t \in DOMAIN session.tests
    BY <1>1, <1>3, LenProperties
  <2>2. PICK p : p = <<func, test.M, test.N>>
    OBVIOUS
  <2>3. p \in Programs
    BY <1>1, <2>1, <2>2 DEF Programs, func, test
  <2>4. loops_now = Transposed(p[1], p[2], p[3])
    BY <2>2, <2>3 DEF loops_now, Loops
  <2> QED BY <2>2, <2>4
<1>6. Reads(func, test.M, test.N)
  BY <1>2, <1>4, TransposedFacts
<1>7. loops_now \in Seq(Lines) /\ Len(loops_now) \in Nat
  BY <1>5, <1>6, LenProperties DEF Reads, Covers
<1> QED BY <1>2, <1>4, <1>5, <1>6, <1>7

(* So it is from StartTracegen to Collect.                                 *)
LEMMA NowFacts ==
  ASSUME Course, phase \in Running \ {"next"}
  PROVE  /\ func \in Registered /\ test.M \in Nat \ {0} /\ test.N \in Nat \ {0}
         /\ test.M <= 256 /\ test.N <= 256
         /\ loops_now = Transposed(func, test.M, test.N)
         /\ loops_now \in Seq(Lines) /\ Len(loops_now) \in Nat
         /\ Reads(func, test.M, test.N)
BY LoopsOf DEF Course

(* Every step keeps MemoryKept.                                            *)
LEMMA MemoryStaysKept == Course /\ MemoryKept /\ [TestTransNext]_harness_vars => MemoryKept'
<1> SUFFICES ASSUME Course, MemoryKept, [TestTransNext]_harness_vars PROVE MemoryKept'
  OBVIOUS
<1> USE DEF driver_vars, fault_vars, file_vars
<1>1. CASE UNCHANGED <<session, t, i, phase, traced, memory>>
  <2>1. loops_now' = loops_now /\ test' = test
    BY <1>1 DEF loops_now, func, test
  <2> QED BY <1>1, <2>1 DEF MemoryKept, TraceLength
<1>2. CASE phase' # "trace"
  BY <1>2 DEF MemoryKept
<1>3. CASE StartTracegen
  <2>1. CASE phase' = "trace"
    <3>1. /\ UNCHANGED <<session, t, i>> /\ phase' = "trace" /\ traced' = 0
          /\ memory' = [p \in 0 .. test.M * test.N - 1 |-> -1]
      BY <1>3, <2>1 DEF StartTracegen, Nothing
    <3>2. test' = test
      BY <3>1 DEF test
    <3>3. Course' /\ phase' \in Running \ {"next"}
      BY <3>1, CourseGoesOn DEF Running
    <3>4. Len(loops_now') \in Nat
      <4>1. phase \in Running
        BY <1>3 DEF StartTracegen, Running
      <4>2. /\ test.M \in 1 .. MAXN /\ test.N \in 1 .. MAXN
        BY <4>1 DEF Course
      <4>3. i \in 1 .. Len(session.func_list)
        BY <3>1, <3>3 DEF Course, Running
      <4>4. Len(loops_now) \in Nat
        BY <4>2, <4>3, LoopsOf
      <4>5. loops_now' = loops_now
        BY <3>1 DEF loops_now, func, test
      <4> QED BY <4>4, <4>5
    <3>5. test.M \in Nat /\ test.N \in Nat
      BY SessionFacts
    <3>6. Memory(loops_now', 0, memory', test.M, test.N)
      BY <3>1, <3>5, MemoryStarts
    <3>7. LoopsDone(0, Len(loops_now')) = 0
      BY DEF LoopsDone
    <3> QED BY <3>1, <3>2, <3>4, <3>6, <3>7 DEF MemoryKept, TraceLength
  <2> QED BY <1>2, <2>1
<1>4. CASE Tracegen
  <2>1. /\ UNCHANGED <<session, t, i>> /\ phase = "trace" /\ phase' = "trace"
        /\ traced < TraceLength /\ traced' = traced + 1
        /\ memory' = IF traced' \in 3 .. Len(loops_now) + 2
                     THEN Stored(memory, loops_now[traced' - 2], test.M, test.N) ELSE memory
    BY <1>4 DEF Tracegen
  <2>2. loops_now' = loops_now /\ test' = test
    BY <2>1 DEF loops_now, func, test
  <2>3. /\ test.M \in Nat /\ test.N \in Nat /\ loops_now \in Seq(Lines) /\ Len(loops_now) \in Nat
    BY <2>1, NowFacts DEF Running
  <2>4. PICK L, T \in Nat : L = Len(loops_now) /\ T = traced
    BY <2>1, <2>3 DEF MemoryKept
  <2>5. TraceLength = L + 4 /\ traced' = T + 1
    BY <2>1, <2>4 DEF TraceLength
  <2>6. Memory(loops_now, LoopsDone(T, L), memory, test.M, test.N)
    BY <2>1, <2>4 DEF MemoryKept
  <2>7. Memory(loops_now, LoopsDone(T + 1, L), memory', test.M, test.N)
    <3>1. CASE T + 1 \in 3 .. L + 2
      <4>1. PICK d \in Nat : d = T - 2 /\ LoopsDone(T, L) = d
        BY <3>1 DEF LoopsDone
      <4>2. PICK e \in 1 .. L : e = d + 1 /\ e = (T + 1) - 2 /\ LoopsDone(T + 1, L) = e
        BY <3>1, <4>1 DEF LoopsDone
      <4>3. memory' = Stored(memory, loops_now[e], test.M, test.N)
        BY <2>1, <2>4, <2>5, <3>1, <4>2
      <4> QED BY <2>3, <2>4, <2>6, <4>1, <4>2, <4>3, MemoryGoesOn, SMTT(60)
    <3>2. CASE T + 1 \notin 3 .. L + 2
      <4>1. memory' = memory
        BY <2>1, <2>4, <2>5, <3>2
      <4>2. LoopsDone(T + 1, L) = LoopsDone(T, L)
        BY <3>2 DEF LoopsDone
      <4> QED BY <2>6, <4>1, <4>2
    <3> QED BY <3>1, <3>2
  <2>8. traced' \in 0 .. L + 4
    BY <2>1, <2>4, <2>5
  <2>9. TraceLength' = L + 4 /\ Len(loops_now') = L
    BY <2>2, <2>4 DEF TraceLength
  <2> QED BY <2>2, <2>5, <2>7, <2>8, <2>9 DEF MemoryKept
<1>5. CASE StartTest
  BY <1>2, <1>5 DEF StartTest, Printed
<1>6. CASE TracegenExits
  BY <1>2, <1>6 DEF TracegenExits, Evaluate
<1>7. CASE TracegenKilled
  BY <1>2, <1>7 DEF TracegenKilled, Evaluate
<1>8. CASE Filter
  BY <1>2, <1>8 DEF Filter
<1>9. CASE Simulate
  BY <1>2, <1>9 DEF Simulate
<1>10. CASE CsimFails
  BY <1>2, <1>10 DEF CsimFails
<1>11. CASE Collect
  BY <1>2, <1>11 DEF Collect, Printed
<1>12. CASE PrintResults
  BY <1>2, <1>12 DEF PrintResults, Printed
<1>13. CASE Alarm
  BY <1>2, <1>13 DEF Alarm, Printed
<1>14. CASE Score
  BY <1>2, <1>14 DEF Score
<1>15. CASE OrphanEnds
  BY <1>1, <1>15 DEF OrphanEnds
<1>16. CASE UNCHANGED harness_vars
  BY <1>1, <1>16 DEF harness_vars
<1> QED BY <1>3, <1>4, <1>5, <1>6, <1>7, <1>8, <1>9, <1>10, <1>11, <1>12, <1>13, <1>14, <1>15, <1>16
        DEF TestTransNext

(* Once the whole trace is written, what is in B decides validate.         *)
LEMMA MemoryDecides ==
  ASSUME Course, MemoryKept
  PROVE  RightShapes
<1> SUFFICES ASSUME phase = "trace", traced = TraceLength, Judged(func, test.M, test.N)
             PROVE  validate(memory, test.M, test.N) <=> Suits(func, test.M, test.N)
  BY DEF RightShapes
<1>1. /\ func \in Registered /\ test.M \in Nat \ {0} /\ test.N \in Nat \ {0}
      /\ loops_now = Transposed(func, test.M, test.N)
      /\ Len(loops_now) \in Nat
      /\ Reads(func, test.M, test.N)
  BY NowFacts DEF Running
<1>2. PICK R, C \in Nat \ {0} : R = RowsRead(func, test.M, test.N) /\ C = ColumnsRead(func, test.M, test.N)
  BY <1>1 DEF Reads
<1>3. R > test.N => test.M > 1 /\ test.N >= 8
  <2>1. CASE func \in {"trans", "transpose_submit"}
    <3>1. R = test.N
      BY <1>2, <2>1 DEF RowsRead
    <3> QED BY <1>1, <3>1
  <2>2. CASE func \notin {"trans", "transpose_submit"}
    BY <2>2 DEF Judged
  <2> QED BY <2>1, <2>2
<1>4. /\ Covers(loops_now, R, C)
      /\ R > test.N => Overtaken(loops_now, test.N) /\ test.M > 1 /\ test.N > 1
  BY <1>1, <1>2, <1>3 DEF Reads
<1>5. Memory(loops_now, Len(loops_now), memory, test.M, test.N)
  <2>1. LoopsDone(traced, Len(loops_now)) = Len(loops_now)
    <3>1. PICK L \in Nat : L = Len(loops_now) /\ traced = L + 4
      BY <1>1 DEF TraceLength
    <3> QED BY <3>1 DEF LoopsDone
  <2> QED BY <2>1 DEF MemoryKept
<1>6. validate(memory, test.M, test.N) <=> R = test.N /\ C >= test.M
  <2>1. PICK m, n \in Nat : m = test.M /\ n = test.N /\ m >= 1 /\ n >= 1
    BY <1>1
  <2>2. Memory(loops_now, Len(loops_now), memory, m, n)
    BY <1>5, <2>1
  <2>3. Covers(loops_now, R, C) /\ (R > n => m > 1 /\ n > 1) /\ (R > n => Overtaken(loops_now, n))
    BY <1>4, <2>1
  <2>4. validate(memory, m, n) <=> R = n /\ C >= m
    BY <2>1, <2>2, <2>3, MemoryEnds
  <2> QED BY <2>1, <2>4
<1>7. Suits(func, test.M, test.N) <=> R = test.N /\ C >= test.M
  BY <1>1, <1>2, SuitsFacts
<1> QED BY <1>6, <1>7

(* Each function transposes the shapes it suits and no others.             *)
THEOREM TransposesWhatItSuits == TestTransSpec => []RightShapes
<1>1. TestTransInit => MemoryKept
  BY DEF TestTransInit, MemoryKept
<1>2. Course /\ MemoryKept => RightShapes
  BY MemoryDecides
<1> QED BY CourseBegins, CourseGoesOn, MemoryStaysKept, <1>1, <1>2, PTL DEF TestTransSpec
-----------------------------------------------------------------------------
(* The trace.                                                              *)
Arrays == Array(A) \cup Array(B)

(* Where the objects in memory are.                                        *)
LEMMA AddressFacts ==
  /\ A \in Nat /\ B \in Nat /\ Arrays \subseteq Nat /\ Stack = -1
  /\ \A x \in {M_addr, N_addr, func_list_addr, MARKER_START, MARKER_END} : x \in Nat /\ x \notin Arrays
  /\ \A x \in {M_addr, N_addr, func_list_addr} : x # MARKER_START /\ x # MARKER_END
  /\ MARKER_START # MARKER_END
  /\ A \in Arrays /\ B \in Arrays
<1>1. A \in Nat /\ B \in Nat
  BY AddressAssumption
<1>2. A \in Array(A) /\ B \in Array(B) /\ Array(A) \subseteq Nat /\ Array(B) \subseteq Nat
  BY <1>1 DEF Array, MAXN
<1> QED BY <1>1, <1>2, AddressAssumption DEF Arrays, Stack

(* A cell of an array of 256 x 256.                                        *)
LEMMA InArray ==
  ASSUME NEW x \in Nat, NEW y \in Nat, NEW m \in Nat, x <= 255, y <= 255, m <= 256, NEW base \in Nat
  PROVE  base + 4 * (x * m + y) \in Array(base)
<1>1. x * m \in Nat /\ x * m <= 255 * m
  BY TimesGrows
<1>2. x * m + y <= 65535 /\ x * m + y \in Nat
  BY <1>1
<1> QED BY <1>2 DEF Array, MAXN

(* No function leaves the arrays of 256 x 256, however far it leaves the   *)
(* matrix in them.                                                         *)
LEMMA CellsInArrays ==
  ASSUME NEW loops, NEW R \in Nat, NEW C \in Nat, R <= 256, C <= 256, Covers(loops, R, C),
         NEW M \in Nat, NEW N \in Nat, M <= 256, N <= 256, NEW c \in Cells(loops)
  PROVE  AddrA(M, c) \in Arrays /\ AddrB(N, c) \in Arrays
<1>1. PICK x, y \in Nat : c = <<x, y>> /\ x <= 255 /\ y <= 255
  <2>1. c \in Rect(Band(0, R), Band(0, C))
    BY DEF Covers
  <2>2. PICK x \in Band(0, R), y \in Band(0, C) : c = <<x, y>>
    BY <2>1 DEF Rect
  <2>3. x \in Nat /\ y \in Nat /\ x <= 255 /\ y <= 255
    BY DEF Band
  <2> QED BY <2>2, <2>3
<1>2. c[1] = x /\ c[2] = y
  BY <1>1
<1>3. AddrA(M, c) \in Array(A)
  <2>1. A + 4 * (x * M + y) \in Array(A)
    BY <1>1, AddressFacts, InArray
  <2> QED BY <1>2, <2>1 DEF AddrA, InA
<1>4. AddrB(N, c) \in Array(B)
  <2>1. B + 4 * (y * N + x) \in Array(B)
    BY <1>1, AddressFacts, InArray
  <2> QED BY <1>2, <2>1 DEF AddrB, InB
<1> QED BY <1>3, <1>4 DEF Arrays

(* The accesses of a move.                                                 *)
OfCopy(c, M, N) == Each(c.loads, LAMBDA x : AddrA(M, x)) \o Each(c.stores, LAMBDA x : AddrB(N, x))

(* The accesses of one move are in the arrays if its cells are.            *)
LEMMA CopyAddresses ==
  ASSUME NEW c \in Moves, NEW M, NEW N,
         \A x \in ToSet(c.stores) : AddrA(M, x) \in Arrays /\ AddrB(N, x) \in Arrays
  PROVE  OfCopy(c, M, N) \in Seq(Arrays)
<1>1. /\ c.loads \in Seq(Coords) /\ c.stores \in Seq(Coords)
      /\ \A x \in ToSet(c.loads) : x \in ToSet(c.stores)
  BY DEF Moves
<1>2. PICK m, n \in Nat : /\ DOMAIN c.loads = 1 .. m /\ DOMAIN c.stores = 1 .. n
  BY <1>1, LenProperties
<1>3. PICK p, q : /\ p = [k \in 1 .. m |-> AddrA(M, c.loads[k])]
                  /\ q = [k \in 1 .. n |-> AddrB(N, c.stores[k])]
  OBVIOUS
<1>4. OfCopy(c, M, N) = p \o q
  BY <1>2, <1>3 DEF OfCopy, Each
<1>5. p \in Seq(Arrays)
  <2>1. \A k \in 1 .. m : AddrA(M, c.loads[k]) \in Arrays
    BY <1>1, <1>2 DEF ToSet
  <2>2. p \in [1 .. m -> Arrays]
    BY <1>3, <2>1
  <2> QED BY <2>2, FunctionIsSeq
<1>6. q \in Seq(Arrays)
  <2>1. \A k \in 1 .. n : AddrB(N, c.stores[k]) \in Arrays
    BY <1>2 DEF ToSet
  <2>2. q \in [1 .. n -> Arrays]
    BY <1>3, <2>1
  <2> QED BY <2>2, FunctionIsSeq
<1> QED BY <1>4, <1>5, <1>6, ConcatProperties

(* So are those of a line.                                                 *)
LEMMA LineAddresses ==
  ASSUME NEW copies \in Lines, NEW M, NEW N,
         \A x \in CellsOf(copies) : AddrA(M, x) \in Arrays /\ AddrB(N, x) \in Arrays
  PROVE  Accesses(M, N, copies) \in Seq(Arrays)
<1>1. PICK n \in Nat : DOMAIN copies = 1 .. n /\ \A k \in 1 .. n : copies[k] \in Moves
  BY LenProperties, ElementOfSeq DEF Lines
<1>2. PICK z : z = [k \in 1 .. n |-> OfCopy(copies[k], M, N)]
  OBVIOUS
<1>3. Accesses(M, N, copies) = FlattenSeq(z)
  BY <1>1, <1>2 DEF Accesses, Nested, Each, OfCopy
<1>4. \A k \in 1 .. n : OfCopy(copies[k], M, N) \in Seq(Arrays)
  <2>1. \A k \in 1 .. n : \A x \in ToSet(copies[k].stores) : x \in CellsOf(copies)
    BY <1>1 DEF CellsOf
  <2> QED BY <1>1, <2>1, CopyAddresses
<1>5. z \in Seq(Seq(Arrays))
  <2>1. z \in [1 .. n -> Seq(Arrays)]
    BY <1>2, <1>4
  <2> QED BY <2>1, FunctionIsSeq
<1> QED BY <1>3, <1>5, FlattenMembers

(* No function covers more than 256 rows or columns.                       *)
LEMMA SmallReads ==
  ASSUME NEW f \in Registered, NEW m \in Nat \ {0}, NEW n \in Nat \ {0}, m <= 256, n <= 256
  PROVE  RowsRead(f, m, n) <= 256 /\ ColumnsRead(f, m, n) <= 256
<1>1. CASE f \in {"trans", "transpose_submit"}
  <2>1. RowsRead(f, m, n) = n /\ ColumnsRead(f, m, n) = m
    BY <1>1 DEF RowsRead, ColumnsRead
  <2> QED BY <2>1
<1>2. CASE f \in {"transBlock", "transBlockSpaceConsuming"}
  <2>1. RowsRead(f, m, n) = 32 /\ ColumnsRead(f, m, n) = 32
    BY <1>2 DEF RowsRead, ColumnsRead
  <2> QED BY <2>1
<1>3. CASE f = "transBlockSpaceConsuming64"
  <2>1. RowsRead(f, m, n) = 8 * ((m + 7) \div 8) /\ ColumnsRead(f, m, n) = 4 * ((n + 3) \div 4)
    BY <1>3 DEF RowsRead, ColumnsRead
  <2>2. 8 * ((m + 7) \div 8) <= 256 /\ 4 * ((n + 3) \div 4) <= 256
    OBVIOUS
  <2> QED BY <2>1, <2>2
<1> QED BY <1>1, <1>2, <1>3 DEF Registered

(* No registered function reads or writes outside of the two arrays of     *)
(* 256 x 256, for any shape that test-trans accepts: the functions that    *)
(* leave the matrix do so within the arrays.                               *)
THEOREM StaysInArrays ==
  ASSUME NEW f \in Registered, NEW M \in Nat \ {0}, NEW N \in Nat \ {0}, M <= 256, N <= 256,
         NEW n \in 1 .. Len(Transposed(f, M, N))
  PROVE  Accesses(M, N, Transposed(f, M, N)[n]) \in Seq(Arrays)
<1>1. PICK loops : loops = Transposed(f, M, N)
  OBVIOUS
<1>2. PICK R, C \in Nat : R <= 256 /\ C <= 256 /\ Covers(loops, R, C)
  BY <1>1, TransposedFacts, SmallReads, ZenonT(60) DEF Reads
<1>3. loops \in Seq(Lines) /\ n \in 1 .. Len(loops) /\ loops[n] \in Lines
  BY <1>1, <1>2, ElementOfSeq DEF Covers
<1>4. \A c \in CellsOf(loops[n]) : c \in Cells(loops)
  BY <1>3, LenProperties DEF Cells
<1>5. \A c \in CellsOf(loops[n]) : AddrA(M, c) \in Arrays /\ AddrB(N, c) \in Arrays
  BY <1>2, <1>4, CellsInArrays
<1> QED BY <1>1, <1>3, <1>5, LineAddresses

(* The stack is taken out line by line.                                    *)
Chain(f, z) ==
  /\ f \in [0 .. Len(z) -> Seq(Int)] /\ f[0] = <<>> /\ f[Len(z)] = FlattenSeq(z)
  /\ \A j \in 1 .. Len(z) : f[j] = f[j - 1] \o z[j]

(* The stack is taken out line by line.                                    *)
StackOut(f, ls) ==
  /\ f \in [0 .. Len(ls) -> Seq(Int)] /\ f[0] = <<>> /\ f[Len(ls)] = WithoutStack(ls)
  /\ \A j \in 1 .. Len(ls) : f[j] = IF ls[j] = Stack THEN f[j - 1] ELSE Append(f[j - 1], ls[j])

(* FlattenSeq goes through a chain of concatenations.                      *)
LEMMA ChainExists ==
  ASSUME NEW z \in Seq(Seq(Int))
  PROVE  \E f : Chain(f, z)
<1>1. PICK S : S = Int
  OBVIOUS
<1>2. z \in Seq(Seq(S))
  BY <1>1
<1>3. \E f \in [0 .. Len(z) -> Seq(S)] :
        /\ f[0] = <<>> /\ f[Len(z)] = FlattenSeq(z)
        /\ \A j \in 1 .. Len(z) : f[j] = f[j - 1] \o z[j]
  BY <1>2, FlattenChain
<1> QED BY <1>1, <1>3 DEF Chain

(* WithoutStack goes through the lines one by one.                         *)
LEMMA StackOutExists ==
  ASSUME NEW ls \in Seq(Int)
  PROVE  \E f : StackOut(f, ls)
<1>1. PICK n \in Nat : n = Len(ls) /\ DOMAIN ls = 1 .. n
  BY LenProperties
<1>2. PICK z : z = [j \in 1 .. n |-> IF ls[j] = Stack THEN <<>> ELSE <<ls[j]>>]
  OBVIOUS
<1>3. WithoutStack(ls) = FlattenSeq(z)
  BY <1>1, <1>2 DEF WithoutStack
<1>4. z \in Seq(Seq(Int)) /\ Len(z) = n
  <2>1. \A j \in 1 .. n : ls[j] \in Int
    BY <1>1, ElementOfSeq
  <2>2. z \in [1 .. n -> Seq(Int)]
    BY <1>2, <2>1
  <2> QED BY <2>2, FunctionIsSeq
<1>5. PICK f : Chain(f, z)
  BY <1>4, ChainExists
<1>6. ASSUME NEW j \in 1 .. n
      PROVE  f[j] = IF ls[j] = Stack THEN f[j - 1] ELSE Append(f[j - 1], ls[j])
  <2>1. f[j] = f[j - 1] \o z[j] /\ z[j] = IF ls[j] = Stack THEN <<>> ELSE <<ls[j]>>
    BY <1>2, <1>4, <1>5 DEF Chain
  <2>2. f[j - 1] \in Seq(Int) /\ ls[j] \in Int
    <3>1. ls[j] \in Int
      BY <1>1, ElementOfSeq
    <3>2. j - 1 \in 0 .. n
      OBVIOUS
    <3>3. f \in [0 .. n -> Seq(Int)]
      BY <1>4, <1>5 DEF Chain
    <3> QED BY <3>1, <3>2, <3>3
  <2>3. f[j - 1] \o <<>> = f[j - 1]
    BY <2>2, ConcatEmptySeq
  <2>4. f[j - 1] \o <<ls[j]>> = Append(f[j - 1], ls[j])
    BY <2>2, AppendIsConcat
  <2> QED BY <2>1, <2>3, <2>4
<1> QED BY <1>1, <1>3, <1>4, <1>5, <1>6 DEF Chain, StackOut

(* WithoutStack undoes WithStack.                                          *)
LEMMA StackComesOut ==
  ASSUME NEW addrs \in Seq(Arrays)
  PROVE  WithStack(addrs) \in Seq(Arrays \cup {Stack}) /\ WithoutStack(WithStack(addrs)) = addrs
<1>1. PICK n \in Nat : n = Len(addrs) /\ DOMAIN addrs = 1 .. n
  BY LenProperties
<1>2. \A m \in 1 .. n : addrs[m] \in Arrays /\ addrs[m] # Stack /\ addrs[m] \in Int
  <2>1. \A m \in 1 .. n : addrs[m] \in Arrays
    BY <1>1, ElementOfSeq
  <2>2. \A x \in Arrays : x # Stack /\ x \in Int
    BY AddressFacts
  <2> QED BY <2>1, <2>2
<1>3. PICK ls : ls = WithStack(addrs)
  OBVIOUS
<1>4. PICK w \in Nat : w = 2 * n
  OBVIOUS
<1>5. ls = [m \in 1 .. w |-> IF m % 2 = 1 THEN Stack ELSE addrs[m \div 2]]
  BY <1>1, <1>3, <1>4 DEF WithStack
<1>6. \A m \in 1 .. n : ls[2 * m - 1] = Stack /\ ls[2 * m] = addrs[m]
                        /\ 2 * m - 1 \in 1 .. w /\ 2 * m \in 1 .. w
  BY <1>4, <1>5
<1>7. \A m \in 1 .. w : ls[m] \in Arrays \cup {Stack}
  <2>1. \A m \in 1 .. w : m % 2 = 1 \/ m \div 2 \in 1 .. n
    BY <1>4
  <2> QED BY <1>2, <1>5, <2>1
<1>8. ls \in Seq(Arrays \cup {Stack}) /\ Len(ls) = w
  <2>1. ls \in [1 .. w -> Arrays \cup {Stack}]
    BY <1>5, <1>7
  <2> QED BY <2>1, FunctionIsSeq
<1>9. ls \in Seq(Int)
  <2>1. Arrays \cup {Stack} \subseteq Int
    BY AddressFacts
  <2>2. ls \in [1 .. w -> Int]
    BY <1>5, <1>7, <2>1
  <2> QED BY <2>2, FunctionIsSeq
<1>10. PICK f : StackOut(f, ls)
  BY <1>9, StackOutExists
<1>11. /\ f \in [0 .. w -> Seq(Int)] /\ f[0] = <<>> /\ f[w] = WithoutStack(ls)
       /\ \A j \in 1 .. w : f[j] = IF ls[j] = Stack THEN f[j - 1] ELSE Append(f[j - 1], ls[j])
  BY <1>8, <1>10 DEF StackOut
<1> DEFINE First(j) == Len(f[2 * j]) = j /\ \A m \in 1 .. j : f[2 * j][m] = addrs[m]
           Bad == {j \in 0 .. n : ~ First(j)}
<1>12. Bad = {}
  <2>1. SUFFICES ASSUME Bad # {} PROVE FALSE
    OBVIOUS
  <2>2. PICK j \in Bad : \A k \in Bad : j <= k
    <3>1. Bad \in SUBSET Nat
      OBVIOUS
    <3> HIDE DEF Bad
    <3> QED BY <2>1, <3>1, LeastNat
  <2>3. j # 0
    <3>1. First(0)
      BY <1>11
    <3> QED BY <3>1
  <2>4. PICK k \in 0 .. n : k = j - 1 /\ j = k + 1 /\ First(k)
    <3>1. j \in 0 .. n /\ j - 1 \in 0 .. n /\ j = (j - 1) + 1
      BY <2>2, <2>3 DEF Bad
    <3>2. j - 1 \notin Bad
      <4> HIDE DEF Bad
      <4> QED BY <2>2, <3>1
    <3>3. First(j - 1)
      <4> HIDE DEF First
      <4> QED BY <3>1, <3>2 DEF Bad
    <3> HIDE DEF First
    <3> QED BY <3>1, <3>3
  <2>5. f[2 * j - 1] = f[2 * k]
    <3>1. 2 * j - 1 \in 1 .. w /\ ls[2 * j - 1] = Stack /\ (2 * j - 1) - 1 = 2 * k
      BY <1>6, <2>3, <2>4
    <3> QED BY <1>11, <3>1
  <2>6. f[2 * j] = Append(f[2 * k], addrs[j])
    <3>1. 2 * j \in 1 .. w /\ ls[2 * j] = addrs[j] /\ addrs[j] # Stack
      BY <1>2, <1>6, <2>3
    <3>2. f[2 * j] = Append(f[2 * j - 1], addrs[j])
      BY <1>11, <3>1
    <3> QED BY <2>5, <3>2
  <2>7. PICK g \in Seq(Int) : g = f[2 * k]
    <3>1. 2 * k \in 0 .. w
      BY <1>4
    <3> QED BY <1>11, <3>1
  <2>8. Len(g) = k /\ \A m \in 1 .. k : g[m] = addrs[m]
    BY <2>4, <2>7
  <2>9. addrs[j] \in Int
    BY <1>2, <2>3
  <2>10. Len(Append(g, addrs[j])) = j /\ \A m \in 1 .. j : Append(g, addrs[j])[m] = addrs[m]
    BY <2>4, <2>8, <2>9, AppendProperties
  <2>11. First(j)
    BY <2>6, <2>7, <2>10
  <2> QED BY <2>11
<1>13. First(n)
  <2>1. n \in 0 .. n
    OBVIOUS
  <2> HIDE DEF First
  <2> QED BY <1>12, <2>1 DEF Bad
<1>14. f[w] \in Seq(Int) /\ Len(f[w]) = n /\ \A m \in 1 .. n : f[w][m] = addrs[m]
  BY <1>4, <1>11, <1>13
<1>15. f[w] = addrs
  BY <1>1, <1>14, SeqEqual, SMTT(60)
<1> QED BY <1>3, <1>8, <1>11, <1>15

(* What is left of the call, and lines with a marker.                      *)
Header == <<MARKER_START, func_list_addr, N_addr, M_addr>>

Marked(lines) == \E m \in DOMAIN lines : lines[m] \in {MARKER_START, MARKER_END}

(* Between the markers everything is kept but the stack, and before them   *)
(* nothing.                                                                *)
LEMMA Unmarked ==
  ASSUME NEW lines \in Seq(Int), ~ Marked(lines)
  PROVE  /\ Kept(lines, TRUE) = WithoutStack(lines) /\ Kept(lines, FALSE) = <<>>
         /\ MARKER_START \notin ToSet(lines) /\ MARKER_END \notin ToSet(lines)
<1>1. PICK n \in Nat : n = Len(lines) /\ DOMAIN lines = 1 .. n
  BY LenProperties
<1>2. /\ {m \in DOMAIN lines : lines[m] = MARKER_START} = {}
      /\ {m \in DOMAIN lines : lines[m] = MARKER_END} = {}
  BY DEF Marked
<1>3. Min({} \cup {n}) = n /\ Min({} \cup {n + 1}) = n + 1
  <2>1. \A x \in Nat : Min({} \cup {x}) = x
    <3> SUFFICES ASSUME NEW x \in Nat PROVE Min({} \cup {x}) = x
      OBVIOUS
    <3>1. {x} \in SUBSET Nat /\ {x} # {} /\ {} \cup {x} = {x}
      OBVIOUS
    <3>2. Min({x}) \in {x}
      BY <3>1, MinOfNats
    <3> QED BY <3>1, <3>2
  <2> QED BY <2>1
<1>4. SubSeq(lines, 1, n) = lines /\ SubSeq(lines, n + 1, n) = <<>>
  BY <1>1, SubSeqProperties, EmptySeq
<1>5. WithoutStack(<<>>) = <<>>
  <2>1. <<>> \in Seq(Int) /\ Len(<<>>) = 0
    BY EmptySeq
  <2>2. PICK f : StackOut(f, <<>>)
    BY <2>1, StackOutExists
  <2> QED BY <2>1, <2>2 DEF StackOut
<1>6. Kept(lines, TRUE) = WithoutStack(SubSeq(lines, 1, n))
  BY <1>1, <1>2, <1>3 DEF Kept
<1>7. Kept(lines, FALSE) = WithoutStack(SubSeq(lines, n + 1, n))
  BY <1>1, <1>2, <1>3 DEF Kept
<1> QED BY <1>4, <1>5, <1>6, <1>7 DEF Marked, ToSet

(* A sequence of four, built by Append.                                    *)
LEMMA FourLines ==
  ASSUME NEW p \in Int, NEW q \in Int, NEW r \in Int, NEW u \in Int
  PROVE  Append(Append(Append(Append(<<>>, p), q), r), u) = <<p, q, r, u>>
<1>1. PICK s0, s1, s2, s3, s4 : /\ s0 = <<>> /\ s1 = Append(s0, p) /\ s2 = Append(s1, q)
                                /\ s3 = Append(s2, r) /\ s4 = Append(s3, u)
  OBVIOUS
<1>2. s0 \in Seq(Int) /\ Len(s0) = 0
  BY <1>1
<1>3. s1 \in Seq(Int) /\ Len(s1) = 1 /\ s1[1] = p
  BY <1>1, <1>2, AppendProperties
<1>4. s2 \in Seq(Int) /\ Len(s2) = 2 /\ s2[1] = p /\ s2[2] = q
  BY <1>1, <1>3, AppendProperties
<1>5. s3 \in Seq(Int) /\ Len(s3) = 3 /\ s3[1] = p /\ s3[2] = q /\ s3[3] = r
  BY <1>1, <1>4, AppendProperties
<1>6. s4 \in Seq(Int) /\ Len(s4) = 4 /\ s4[1] = p /\ s4[2] = q /\ s4[3] = r /\ s4[4] = u
  BY <1>1, <1>5, AppendProperties
<1>7. PICK h : h = <<p, q, r, u>>
  OBVIOUS
<1>8. h \in Seq(Int) /\ Len(h) = 4 /\ h[1] = p /\ h[2] = q /\ h[3] = r /\ h[4] = u
  BY <1>7
<1>9. \A m \in 1 .. 4 : s4[m] = h[m]
  BY <1>6, <1>8, SMTT(60)
<1>10. s4 = h
  BY <1>6, <1>8, <1>9, SeqEqual
<1> QED BY <1>1, <1>7, <1>10

(* Of the lines of the call, those from the start marker on are kept,      *)
(* without the stack.                                                      *)
LEMMA CallKept ==
  Call \in Seq(Int) /\ Kept(Call, FALSE) = Header
  /\ MARKER_START \in ToSet(Call) /\ MARKER_END \notin ToSet(Call)
<1>1. /\ MARKER_START \in Nat /\ func_list_addr \in Nat /\ N_addr \in Nat /\ M_addr \in Nat /\ MARKER_END \in Nat
      /\ func_list_addr # MARKER_START /\ N_addr # MARKER_START /\ M_addr # MARKER_START
      /\ func_list_addr # MARKER_END /\ N_addr # MARKER_END /\ M_addr # MARKER_END
      /\ Stack = -1 /\ MARKER_START # MARKER_END
  BY AddressFacts
<1>2. PICK ls : ls = Call
  OBVIOUS
<1>3. /\ ls \in Seq(Int) /\ Len(ls) = 5 /\ DOMAIN ls = 1 .. 5
      /\ ls[1] = MARKER_START /\ ls[2] = func_list_addr /\ ls[3] = N_addr /\ ls[4] = M_addr /\ ls[5] = Stack
  BY <1>1, <1>2 DEF Call
<1>4. {m \in DOMAIN ls : ls[m] = MARKER_START} = {1} /\ {m \in DOMAIN ls : ls[m] = MARKER_END} = {}
  BY <1>1, <1>3
<1>5. Min({1} \cup {5 + 1}) = 1 /\ Min({} \cup {5}) = 5
  <2>1. {1, 6} \in SUBSET Nat /\ {1, 6} # {} /\ {5} \in SUBSET Nat /\ {5} # {}
        /\ {1} \cup {5 + 1} = {1, 6} /\ {} \cup {5} = {5}
    OBVIOUS
  <2>2. Min({1, 6}) \in {1, 6} /\ Min({5}) \in {5}
    BY <2>1, MinOfNats
  <2>3. \A x \in {1, 6} : Min({1, 6}) <= x
    BY <2>1, MinOfNats
  <2> QED BY <2>1, <2>2, <2>3
<1>6. Kept(ls, FALSE) = WithoutStack(SubSeq(ls, 1, 5))
  BY <1>3, <1>4, <1>5 DEF Kept
<1>7. SubSeq(ls, 1, 5) = ls
  BY <1>3, SubSeqProperties
<1>8. PICK f : StackOut(f, ls)
  BY <1>3, StackOutExists
<1>9. /\ f \in [0 .. 5 -> Seq(Int)] /\ f[0] = <<>> /\ f[5] = WithoutStack(ls)
      /\ \A j \in 1 .. 5 : f[j] = IF ls[j] = Stack THEN f[j - 1] ELSE Append(f[j - 1], ls[j])
  BY <1>3, <1>8 DEF StackOut
<1>10. /\ f[1] = Append(f[0], MARKER_START) /\ f[2] = Append(f[1], func_list_addr)
       /\ f[3] = Append(f[2], N_addr) /\ f[4] = Append(f[3], M_addr) /\ f[5] = f[4]
  <2>1. \A j \in 1 .. 5 : ls[j] # Stack => f[j] = Append(f[j - 1], ls[j])
    BY <1>9
  <2>2. 1 \in 1 .. 5 /\ 2 \in 1 .. 5 /\ 3 \in 1 .. 5 /\ 4 \in 1 .. 5 /\ 5 \in 1 .. 5
        /\ 1 - 1 = 0 /\ 2 - 1 = 1 /\ 3 - 1 = 2 /\ 4 - 1 = 3 /\ 5 - 1 = 4
    OBVIOUS
  <2>3. f[5] = f[4]
    BY <1>3, <1>9, <2>2
  <2>4. ls[1] # Stack /\ ls[2] # Stack /\ ls[3] # Stack /\ ls[4] # Stack
    BY <1>1, <1>3
  <2> QED BY <1>3, <2>1, <2>2, <2>3, <2>4
<1>11. f[4] = Header
  <2>1. f[4] = Append(Append(Append(Append(<<>>, MARKER_START), func_list_addr), N_addr), M_addr)
    BY <1>9, <1>10
  <2>2. MARKER_START \in Int /\ func_list_addr \in Int /\ N_addr \in Int /\ M_addr \in Int
    BY <1>1
  <2> HIDE <1>10
  <2> QED BY <2>1, <2>2, FourLines DEF Header
<1>15. MARKER_START \in ToSet(ls) /\ MARKER_END \notin ToSet(ls)
  BY <1>1, <1>3 DEF ToSet
<1> QED BY <1>2, <1>3, <1>6, <1>7, <1>9, <1>10, <1>11, <1>15

(* Of the lines of the return, the end marker is kept.                     *)
LEMMA ReturnKept ==
  Return \in Seq(Int) /\ Kept(Return, TRUE) = <<MARKER_END>> /\ MARKER_END \in ToSet(Return)
<1>1. MARKER_END \in Nat /\ Stack = -1 /\ MARKER_START # MARKER_END /\ MARKER_START \in Nat
  BY AddressFacts
<1>2. PICK ls : ls = Return
  OBVIOUS
<1>3. /\ ls \in Seq(Int) /\ Len(ls) = 2 /\ DOMAIN ls = 1 .. 2
      /\ ls[1] = Stack /\ ls[2] = MARKER_END
  BY <1>1, <1>2 DEF Return
<1>4. {m \in DOMAIN ls : ls[m] = MARKER_END} = {2}
  BY <1>1, <1>3
<1>5. Min({2} \cup {2}) = 2
  <2>1. {2} \in SUBSET Nat /\ {2} # {} /\ {2} \cup {2} = {2}
    OBVIOUS
  <2>2. Min({2}) \in {2}
    BY <2>1, MinOfNats
  <2> QED BY <2>1, <2>2
<1>6. Kept(ls, TRUE) = WithoutStack(SubSeq(ls, 1, 2))
  BY <1>3, <1>4, <1>5 DEF Kept
<1>7. SubSeq(ls, 1, 2) = ls
  BY <1>3, SubSeqProperties
<1>8. PICK f : StackOut(f, ls)
  BY <1>3, StackOutExists
<1>9. /\ f \in [0 .. 2 -> Seq(Int)] /\ f[0] = <<>> /\ f[2] = WithoutStack(ls)
      /\ \A j \in 1 .. 2 : f[j] = IF ls[j] = Stack THEN f[j - 1] ELSE Append(f[j - 1], ls[j])
  BY <1>3, <1>8 DEF StackOut
<1>10. f[1] = f[0] /\ f[2] = Append(f[1], MARKER_END)
  <2>1. 1 \in 1 .. 2 /\ 2 \in 1 .. 2 /\ 1 - 1 = 0 /\ 2 - 1 = 1 /\ ls[2] # Stack
    BY <1>1, <1>3
  <2> QED BY <1>3, <1>9, <2>1
<1>11. f[2] = <<MARKER_END>>
  BY <1>9, <1>10
<1>12. MARKER_END \in ToSet(ls)
  BY <1>3 DEF ToSet
<1> QED BY <1>2, <1>3, <1>6, <1>7, <1>9, <1>11, <1>12

(* No marker in the set up.                                                *)
LEMMA PrologueKept ==
  Prologue \in Seq(Int) /\ ~ Marked(Prologue)
<1>1. /\ A \in Nat /\ B \in Nat /\ A \in Arrays /\ B \in Arrays /\ Stack = -1
      /\ MARKER_START \in Nat /\ MARKER_END \in Nat /\ MARKER_START \notin Arrays /\ MARKER_END \notin Arrays
  BY AddressFacts
<1>2. DOMAIN Prologue = 1 .. 4 /\ Prologue \in Seq(Int)
      /\ Prologue[1] = Stack /\ Prologue[2] = A /\ Prologue[3] = Stack /\ Prologue[4] = B
  BY <1>1 DEF Prologue
<1>3. \A m \in 1 .. 4 : Prologue[m] \in {A, B, Stack}
  BY <1>2
<1> QED BY <1>1, <1>2, <1>3 DEF Marked

(* Of the lines of a loop, all but the stack are kept.                     *)
LEMMA LoopKept ==
  ASSUME NEW addrs \in Seq(Arrays)
  PROVE  LET lines == WithStack(addrs)
         IN  Kept(lines, TRUE) = addrs /\ MARKER_START \notin ToSet(lines) /\ MARKER_END \notin ToSet(lines)
<1>1. PICK lines : lines = WithStack(addrs)
  OBVIOUS
<1>2. lines \in Seq(Arrays \cup {Stack}) /\ WithoutStack(lines) = addrs
  BY <1>1, StackComesOut
<1>3. PICK n \in Nat : n = Len(lines) /\ DOMAIN lines = 1 .. n
  BY <1>2, LenProperties
<1>4. \A m \in 1 .. n : lines[m] \in Arrays \cup {Stack}
  BY <1>2, <1>3, ElementOfSeq
<1>5. lines \in Seq(Int)
  <2>1. Arrays \cup {Stack} \subseteq Int
    BY AddressFacts
  <2>2. lines = [m \in 1 .. n |-> lines[m]]
    BY <1>2, <1>3
  <2>3. lines \in [1 .. n -> Int]
    BY <1>4, <2>1, <2>2
  <2> QED BY <2>3, FunctionIsSeq
<1>6. ~ Marked(lines)
  <2>1. \A x \in Arrays \cup {Stack} : x \notin {MARKER_START, MARKER_END}
    BY AddressFacts
  <2> QED BY <1>3, <1>4, <2>1 DEF Marked
<1>7. /\ Kept(lines, TRUE) = WithoutStack(lines)
      /\ MARKER_START \notin ToSet(lines) /\ MARKER_END \notin ToSet(lines)
  BY <1>5, <1>6, Unmarked
<1> QED BY <1>1, <1>2, <1>7

(* The accesses of the function that runs now, loop by loop.               *)
LoopTraces == [n \in DOMAIN loops_now |-> Accesses(test.M, test.N, loops_now[n])]

(* What trace.f<i> holds when some parts have been read, and the flag of   *)
(* the filter.                                                             *)
PartIs(parts, p) ==
  IF parts <= 1 THEN p = <<>>
  ELSE \E f : Chain(f, LoopTraces) /\ p = Header \o f[parts - 2]

FlagIs(parts, on) == IF parts >= 2 THEN on = TRUE ELSE on = FALSE

(* The inductive invariant of TraceIsExact: the filter has kept the header *)
(* and the accesses of the loops read so far, of a trace that is complete  *)
(* unless its tracegen was killed.                                         *)
FilterKept ==
  /\ phase = "filter" => /\ <<"kill", i>> \notin wrong => traced = TraceLength
                         /\ read \in 0 .. Len(loops_now) + 2
                         /\ FlagIs(read, flag) /\ PartIs(read, part)
  /\ phase = "simulate" =>
       IF <<"kill", i>> \in wrong THEN IsPrefix(part, ExactTrace(func, test.M, test.N))
       ELSE part = ExactTrace(func, test.M, test.N)

(* The accesses of each loop of the current function are in the arrays.    *)
LEMMA LoopTracesFacts ==
  ASSUME Course, phase \in Running \ {"next"}
  PROVE  /\ LoopTraces \in Seq(Seq(Arrays)) /\ LoopTraces \in Seq(Seq(Int))
         /\ Len(LoopTraces) = Len(loops_now) /\ Len(loops_now) \in Nat
         /\ \A n \in 1 .. Len(loops_now) : LoopTraces[n] = Accesses(test.M, test.N, loops_now[n])
<1>1. /\ func \in Registered /\ test.M \in Nat \ {0} /\ test.N \in Nat \ {0}
      /\ test.M <= 256 /\ test.N <= 256
      /\ loops_now = Transposed(func, test.M, test.N)
      /\ loops_now \in Seq(Lines) /\ Len(loops_now) \in Nat
  BY NowFacts
<1>2. PICK L \in Nat : L = Len(loops_now) /\ DOMAIN loops_now = 1 .. L
  BY <1>1, LenProperties
<1>3. \A n \in 1 .. L : Accesses(test.M, test.N, loops_now[n]) \in Seq(Arrays)
  BY <1>1, <1>2, StaysInArrays
<1>4. LoopTraces \in [1 .. L -> Seq(Arrays)]
  BY <1>2, <1>3 DEF LoopTraces
<1>5. Seq(Arrays) \subseteq Seq(Int)
  <2>1. Arrays \subseteq Int
    BY AddressFacts
  <2>2. ASSUME NEW s \in Seq(Arrays) PROVE s \in Seq(Int)
    <3>1. PICK n \in Nat : n = Len(s) /\ s \in [1 .. n -> Arrays]
      BY LenProperties
    <3>2. s \in [1 .. n -> Int]
      BY <2>1, <3>1
    <3> QED BY <3>2, FunctionIsSeq
  <2> QED BY <2>2
<1>6. LoopTraces \in [1 .. L -> Seq(Int)]
  BY <1>4, <1>5
<1>7. LoopTraces \in Seq(Seq(Arrays)) /\ LoopTraces \in Seq(Seq(Int)) /\ Len(LoopTraces) = L
  BY <1>4, <1>6, FunctionIsSeq
<1> QED BY <1>2, <1>7 DEF LoopTraces

(* ExactTrace by its parts.                                                *)
LEMMA ExactTraceFacts ==
  ExactTrace(func, test.M, test.N) = Header \o FlattenSeq(LoopTraces) \o <<MARKER_END>>
BY DEF ExactTrace, Header, Nested, Each, LoopTraces, loops_now

(* All addresses of the trace are naturals.                                *)
LEMMA ExactTraceLines ==
  ASSUME Course, phase \in Running \ {"next"}
  PROVE  ExactTrace(func, test.M, test.N) \in Seq(Nat)
<1>1. PICK z : z = FlattenSeq(LoopTraces)
  OBVIOUS
<1>2. z \in Seq(Arrays)
  BY <1>1, LoopTracesFacts, FlattenMembers
<1>3. z \in Seq(Nat)
  <2>1. PICK n \in Nat : n = Len(z) /\ z \in [1 .. n -> Arrays]
    BY <1>2, LenProperties
  <2>2. z \in [1 .. n -> Nat]
    BY <2>1, AddressFacts
  <2> QED BY <2>2, FunctionIsSeq
<1>4. Header \in Seq(Nat) /\ <<MARKER_END>> \in Seq(Nat)
  BY AddressFacts DEF Header
<1>5. (Header \o z) \o <<MARKER_END>> \in Seq(Nat)
  BY <1>3, <1>4, ConcatProperties
<1> QED BY <1>1, <1>5, ExactTraceFacts

(* Two sequences of lines one after the other: the provers need to know    *)
(* only the two facts below of it.                                         *)
Joined(a, b) == a \o b

(* They are a sequence of lines.                                           *)
LEMMA JoinedLines ==
  ASSUME NEW a, NEW b, a \in Seq(Int), b \in Seq(Int)
  PROVE  Joined(a, b) \in Seq(Int)
BY ConcatProperties DEF Joined

(* Three are put together in either order.                                 *)
LEMMA JoinsAssociate ==
  ASSUME NEW a, NEW b, NEW c, a \in Seq(Int), b \in Seq(Int), c \in Seq(Int)
  PROVE  Joined(Joined(a, b), c) = Joined(a, Joined(b, c))
BY ConcatAssociative, SMTT(60) DEF Joined

(* A header and what the chain has so far begin the header, all of the     *)
(* chain and what comes after it.                                          *)
LEMMA BeginsWith ==
  ASSUME NEW h, NEW g, NEW r, NEW end,
         h \in Seq(Int), g \in Seq(Int), r \in Seq(Int), end \in Seq(Int)
  PROVE  /\ Joined(h, g) \in Seq(Int) /\ Joined(r, end) \in Seq(Int)
         /\ Joined(Joined(h, Joined(g, r)), end) = Joined(Joined(h, g), Joined(r, end))
<1>1. PICK p : p = Joined(h, g)
  OBVIOUS
<1>2. p \in Seq(Int)
  BY <1>1, JoinedLines
<1>3. Joined(h, Joined(g, r)) = Joined(p, r)
  BY <1>1, JoinsAssociate
<1>4. Joined(Joined(p, r), end) = Joined(p, Joined(r, end))
  BY <1>2, JoinsAssociate
<1>5. Joined(r, end) \in Seq(Int)
  BY JoinedLines
<1> QED BY <1>1, <1>2, <1>3, <1>4, <1>5

(* The chain only grows.                                                   *)
LEMMA ChainGrows ==
  ASSUME NEW z \in Seq(Seq(Int)), NEW f, Chain(f, z), NEW n \in 0 .. Len(z)
  PROVE  \E r \in Seq(Int) : FlattenSeq(z) = Joined(f[n], r)
<1>1. PICK L \in Nat : L = Len(z) /\ n <= L
  BY LenProperties
<1>2. /\ f \in [0 .. L -> Seq(Int)] /\ f[L] = FlattenSeq(z)
      /\ \A j \in 1 .. L : f[j] = f[j - 1] \o z[j]
  BY <1>1 DEF Chain
<1> DEFINE Reached(k) == \E r \in Seq(Int) : f[k] = Joined(f[n], r)
           Bad == {k \in n .. L : ~ Reached(k)}
<1>3. ASSUME Bad # {} PROVE FALSE
  <2>1. PICK m \in Bad : \A k \in Bad : m <= k
    <3>1. Bad \in SUBSET Nat
      BY <1>1
    <3> QED BY <1>3, <3>1, LeastNat
  <2>2. m \in n .. L /\ ~ Reached(m)
    OBVIOUS
  <2>3. m # n
    <3>1. f[n] \in Seq(Int) /\ <<>> \in Seq(Int)
      BY <1>1, <1>2, EmptySeq
    <3>2. f[n] = Joined(f[n], <<>>)
      BY <3>1, ConcatEmptySeq DEF Joined
    <3> QED BY <2>2, <3>1, <3>2
  <2>4. PICK k \in n .. L : k = m - 1 /\ ~ (m <= k)
    BY <1>1, <2>2, <2>3
  <2>5. Reached(k)
    BY <2>1, <2>4
  <2>6. PICK r : r \in Seq(Int) /\ f[k] = Joined(f[n], r)
    BY <2>5
  <2>7. f[m] = Joined(f[k], z[m]) /\ z[m] \in Seq(Int)
    <3>1. m \in 1 .. L
      BY <1>1, <2>2, <2>4
    <3>2. z[m] \in Seq(Int)
      BY <1>1, <3>1, ElementOfSeq
    <3> QED BY <1>2, <2>4, <3>1, <3>2 DEF Joined
  <2>8. PICK a, b : a = f[n] /\ b = z[m]
    OBVIOUS
  <2>9. a \in Seq(Int) /\ b \in Seq(Int) /\ f[m] = Joined(Joined(a, r), b)
    BY <1>1, <1>2, <2>6, <2>7, <2>8
  <2>10. Joined(Joined(a, r), b) = Joined(a, Joined(r, b))
    BY <2>6, <2>9, JoinsAssociate
  <2>11. Joined(r, b) \in Seq(Int)
    BY <2>6, <2>9, JoinedLines
  <2>12. f[m] = Joined(f[n], Joined(r, b))
    BY <2>8, <2>9, <2>10
  <2>13. Reached(m)
    BY <2>11, <2>12
  <2> QED BY <2>2, <2>13
<1>4. L \in n .. L
  BY <1>1
<1>5. Reached(L)
  BY <1>3, <1>4
<1> QED BY <1>2, <1>5

(* Some lines at the start of a sequence are a prefix of all that begins   *)
(* with it.                                                                *)
LEMMA CutIsPrefix ==
  ASSUME NEW p \in Seq(Int), NEW q \in Seq(Int), NEW k \in 0 .. Len(p)
  PROVE  IsPrefix(SubSeq(p, 1, k), p \o q)
<1>1. PICK c : c = p \o q
  OBVIOUS
<1>2. /\ c \in Seq(Int) /\ Len(c) = Len(p) + Len(q)
      /\ \A m \in 1 .. Len(p) : c[m] = p[m]
  BY <1>1, ConcatPlaces
<1>3. Len(p) \in Nat /\ Len(q) \in Nat /\ k \in Nat /\ k <= Len(p)
  BY LenProperties
<1>4. PICK x, y : x = SubSeq(p, 1, k) /\ y = SubSeq(c, 1, k)
  OBVIOUS
<1>5. /\ x \in Seq(Int) /\ Len(x) = k /\ \A m \in 1 .. k : x[m] = p[m]
      /\ y \in Seq(Int) /\ Len(y) = k /\ \A m \in 1 .. k : y[m] = c[m]
  <2>1. \A m \in 1 .. k : p[m] \in Int /\ c[m] \in Int
    BY <1>2, <1>3, ElementOfSeq
  <2>2. /\ k - 1 + 1 = k /\ (IF 1 <= k THEN k - 1 + 1 ELSE 0) = k
        /\ \A m \in 1 .. k : 1 + m - 1 = m
    BY <1>3
  <2>3. /\ x \in Seq(Int) /\ Len(x) = IF 1 <= k THEN k - 1 + 1 ELSE 0
        /\ \A m \in 1 .. k - 1 + 1 : x[m] = p[1 + m - 1]
    BY <1>3, <1>4, <2>1, SubSeqProperties
  <2>4. /\ y \in Seq(Int) /\ Len(y) = IF 1 <= k THEN k - 1 + 1 ELSE 0
        /\ \A m \in 1 .. k - 1 + 1 : y[m] = c[1 + m - 1]
    BY <1>3, <1>4, <2>1, SubSeqProperties
  <2>5. Len(x) = k /\ \A m \in 1 .. k : x[m] = p[m]
    BY <2>2, <2>3
  <2>6. Len(y) = k /\ \A m \in 1 .. k : y[m] = c[m]
    BY <2>2, <2>4
  <2> QED BY <2>3, <2>4, <2>5, <2>6
<1>6. x = y
  <2>1. \A m \in 1 .. k : m \in 1 .. Len(p)
    BY <1>3
  <2>2. \A m \in 1 .. k : x[m] = p[m] /\ y[m] = c[m] /\ c[m] = p[m]
    BY <1>2, <1>5, <2>1
  <2>3. \A m \in 1 .. Len(x) : x[m] = y[m]
    BY <1>5, <2>2
  <2> QED BY <1>5, <2>3, SeqEqual
<1>7. SubSeq(x, 1, k) = x
  BY <1>5, SubSeqFull
<1>8. Len(x) <= Len(c)
  BY <1>2, <1>3, <1>5
<1> QED BY <1>1, <1>4, <1>5, <1>6, <1>7, <1>8 DEF IsPrefix

(* What the filter has kept before the end marker begins the exact trace.  *)
LEMMA PartBegins ==
  ASSUME Course, phase \in Running \ {"next"}, NEW parts \in Nat, parts <= Len(loops_now) + 2,
         NEW p, PartIs(parts, p)
  PROVE  p \in Seq(Int) /\ \E q \in Seq(Int) : ExactTrace(func, test.M, test.N) = p \o q
<1>1. PICK z : z = LoopTraces
  OBVIOUS
<1>2. PICK L \in Nat : L = Len(loops_now) /\ z \in Seq(Seq(Int)) /\ Len(z) = L
  BY <1>1, LoopTracesFacts
<1>3. Header \in Seq(Int) /\ <<MARKER_END>> \in Seq(Int) /\ <<>> \in Seq(Int)
  BY AddressFacts, EmptySeq DEF Header
<1>4. PICK e : e = ExactTrace(func, test.M, test.N)
  OBVIOUS
<1>5. FlattenSeq(z) \in Seq(Int)
  BY <1>2, FlattenMembers
<1>6. e = (Header \o FlattenSeq(z)) \o <<MARKER_END>>
  BY <1>1, <1>4, ExactTraceFacts
<1>7. e \in Seq(Int)
  BY <1>3, <1>5, <1>6, ConcatProperties
<1>8. CASE parts <= 1
  <2>1. p = <<>>
    BY <1>8 DEF PartIs
  <2>2. e = <<>> \o e
    BY <1>7, ConcatEmptySeq
  <2> QED BY <1>3, <1>4, <1>7, <2>1, <2>2
<1>9. CASE ~ (parts <= 1)
  <2>1. PICK f : Chain(f, z) /\ p = Header \o f[parts - 2]
    BY <1>1, <1>9 DEF PartIs
  <2>2. PICK n \in 0 .. L : n = parts - 2
    BY <1>2, <1>9
  <2>3. PICK c : c = FlattenSeq(z) /\ c \in Seq(Int)
    BY <1>5
  <2>4. \E r \in Seq(Int) : c = Joined(f[n], r)
    <3>1. n \in 0 .. Len(z)
      BY <1>2
    <3> QED BY <1>2, <2>1, <2>3, <3>1, ChainGrows
  <2>5. PICK g : g = f[n] /\ g \in Seq(Int)
    BY <1>2, <2>1 DEF Chain
  <2>6. PICK h, end : h = Header /\ h \in Seq(Int) /\ end = <<MARKER_END>> /\ end \in Seq(Int)
    BY <1>3
  <2>7. p = Joined(h, g) /\ e = Joined(Joined(h, c), end)
    BY <1>6, <2>1, <2>2, <2>3, <2>5, <2>6 DEF Joined
  <2>8. PICK r : r \in Seq(Int) /\ c = Joined(g, r)
    BY <2>4, <2>5
  <2>9. /\ Joined(h, g) \in Seq(Int) /\ Joined(r, end) \in Seq(Int)
        /\ Joined(Joined(h, Joined(g, r)), end) = Joined(Joined(h, g), Joined(r, end))
    <3>1. h \in Seq(Int) /\ g \in Seq(Int) /\ r \in Seq(Int) /\ end \in Seq(Int)
      BY <2>5, <2>6, <2>8
    <3> QED BY <3>1, BeginsWith
  <2>10. PICK q : q = Joined(r, end)
    OBVIOUS
  <2>11. p \in Seq(Int) /\ q \in Seq(Int) /\ e = p \o q
    BY <2>7, <2>8, <2>9, <2>10 DEF Joined
  <2> QED BY <1>4, <2>11
<1> QED BY <1>8, <1>9

(* One part of the trace is filtered.                                      *)
LEMMA FilterStep ==
  ASSUME Course, FilterKept, Filter
  PROVE  FilterKept'
<1>1. PICK M, N : M = test.M /\ N = test.N
  OBVIOUS
<1>2. PICK L \in Nat, R \in Nat :
        /\ L = Len(loops_now) /\ R = read /\ R <= L + 2
        /\ <<"kill", i>> \notin wrong => traced = L + 4
  BY LoopTracesFacts DEF Filter, FilterKept, Running, TraceLength
<1>3. phase = "filter" /\ FlagIs(R, flag) /\ PartIs(R, part)
  BY <1>2 DEF Filter, FilterKept
<1>4. PICK z : z = LoopTraces
  OBVIOUS
<1>5. /\ z \in Seq(Seq(Arrays)) /\ z \in Seq(Seq(Int)) /\ Len(z) = L
      /\ \A n \in 1 .. L : z[n] = Accesses(test.M, test.N, loops_now[n])
  BY <1>2, <1>3, <1>4, LoopTracesFacts DEF Running
<1>6. UNCHANGED <<session, t, i, traced, wrong>> /\ read' = R + 1
  BY <1>2 DEF Filter, driver_vars, fault_vars
<1>7. /\ loops_now' = loops_now /\ LoopTraces' = LoopTraces /\ test' = test /\ func' = func
      /\ TraceLength' = TraceLength
  BY <1>6 DEF loops_now, LoopTraces, func, test, TraceLength
<1>8. PICK lines : lines = TracePart(test.M, test.N, loops_now, R + 1)
  OBVIOUS
<1>9. PICK all : all = part \o Kept(lines, flag)
  OBVIOUS
<1>10. /\ flag' = ((flag \/ MARKER_START \in ToSet(lines)) /\ MARKER_END \notin ToSet(lines))
       /\ IF MARKER_END \in ToSet(lines) THEN part' = all /\ phase' = "simulate"
          ELSE IF read' < traced THEN part' = all /\ UNCHANGED phase
          ELSE part' = SubSeq(all, 1, Buffer * (Len(all) \div Buffer)) /\ phase' = "simulate"
  BY <1>2, <1>8, <1>9 DEF Filter
<1>11. ASSUME MARKER_END \notin ToSet(lines), R + 1 <= L + 2,
              FlagIs(R + 1, flag'), PartIs(R + 1, all)
       PROVE  FilterKept'
  <2>1. CASE read' < traced
    <3>1. part' = all /\ phase' = "filter"
      BY <1>3, <1>10, <1>11, <2>1
    <3>2. PartIs(R + 1, all)'
      BY <1>7, <1>9, <1>11 DEF PartIs
    <3> QED BY <1>2, <1>6, <1>7, <1>11, <3>1, <3>2 DEF FilterKept, TraceLength
  <2>2. CASE ~ (read' < traced)
    <3>1. <<"kill", i>> \in wrong
      BY <1>2, <1>6, <1>11, <2>2
    <3>2. PICK k : k = Buffer * (Len(all) \div Buffer)
      OBVIOUS
    <3>3. part' = SubSeq(all, 1, k) /\ phase' = "simulate"
      BY <1>10, <1>11, <2>2, <3>2
    <3>4. PICK q \in Seq(Int) : all \in Seq(Int) /\ ExactTrace(func, test.M, test.N) = all \o q
      BY <1>2, <1>3, <1>11, PartBegins, SMTT(60) DEF Running
    <3>5. k \in 0 .. Len(all)
      <4>1. PICK n \in Nat, d \in Nat \ {0} : n = Len(all) /\ d = Buffer /\ k = d * (n \div d)
        BY <3>2, <3>4, LenProperties, SessionAssumption
      <4>2. n \div d \in Nat /\ d * (n \div d) <= n
        BY <4>1, SMT
      <4>3. d * (n \div d) \in Nat
        BY <4>2
      <4> QED BY <4>1, <4>2, <4>3
    <3>6. IsPrefix(part', ExactTrace(func, test.M, test.N))
      BY <3>3, <3>4, <3>5, CutIsPrefix
    <3>7. ExactTrace(func, test.M, test.N)' = ExactTrace(func, test.M, test.N)
      BY <1>7
    <3> QED BY <1>6, <3>1, <3>3, <3>6, <3>7 DEF FilterKept
  <2> QED BY <2>1, <2>2
<1>12. Header \in Seq(Int)
  BY AddressFacts DEF Header
<1>13. CASE R = 0
  <2>1. lines = Prologue
    BY <1>8, <1>13 DEF TracePart
  <2>2. part = <<>> /\ flag = FALSE
    <3>1. R <= 1 /\ ~ (R >= 2)
      BY <1>13
    <3>2. part = <<>>
      BY <1>3, <3>1 DEF PartIs
    <3>3. flag = FALSE
      BY <1>3, <3>1 DEF FlagIs
    <3> QED BY <3>2, <3>3
  <2>3. /\ Kept(lines, FALSE) = <<>>
        /\ MARKER_START \notin ToSet(lines) /\ MARKER_END \notin ToSet(lines)
    BY <2>1, PrologueKept, Unmarked
  <2>4. all = <<>>
    <3>1. <<>> \o <<>> = <<>>
      BY EmptySeq, ConcatEmptySeq
    <3> QED BY <1>9, <2>2, <2>3, <3>1
  <2>5. PartIs(R + 1, all)
    BY <1>13, <2>4 DEF PartIs
  <2>6. flag' = FALSE
    BY <1>10, <2>2, <2>3
  <2>7. FlagIs(R + 1, flag')
    BY <1>13, <2>6 DEF FlagIs
  <2> QED BY <1>11, <1>13, <2>3, <2>5, <2>7
<1>14. CASE R = 1
  <2>1. lines = Call
    BY <1>8, <1>14 DEF TracePart
  <2>2. part = <<>> /\ flag = FALSE
    <3>1. R <= 1 /\ ~ (R >= 2)
      BY <1>14
    <3>2. part = <<>>
      BY <1>3, <3>1 DEF PartIs
    <3>3. flag = FALSE
      BY <1>3, <3>1 DEF FlagIs
    <3> QED BY <3>2, <3>3
  <2>3. all = Header
    BY <1>9, <1>12, <2>1, <2>2, CallKept, ConcatEmptySeq
  <2>4. PICK f : Chain(f, z)
    BY <1>5, ChainExists
  <2>5. all = Header \o f[0]
    BY <1>12, <2>3, <2>4, ConcatEmptySeq DEF Chain
  <2>6. PartIs(R + 1, all)
    BY <1>4, <1>14, <2>4, <2>5 DEF PartIs
  <2>7. flag' = TRUE
    BY <1>10, <2>1, CallKept
  <2>8. FlagIs(R + 1, flag')
    BY <1>14, <2>7 DEF FlagIs
  <2> QED BY <1>11, <1>14, <2>1, <2>6, <2>8, CallKept
<1>15. CASE R \in 2 .. L + 1
  <2>1. PICK n \in 1 .. L : n = R - 1
    BY <1>15
  <2>2. lines = WithStack(z[n])
    <3>1. R + 1 # 1 /\ R + 1 # 2 /\ R + 1 <= L + 2 /\ (R + 1) - 2 = n
      BY <1>15, <2>1
    <3> QED BY <1>2, <1>5, <1>8, <3>1 DEF TracePart
  <2>3. z[n] \in Seq(Arrays) /\ z[n] \in Seq(Int)
    BY <1>5, ElementOfSeq
  <2>4. Kept(lines, TRUE) = z[n] /\ MARKER_START \notin ToSet(lines) /\ MARKER_END \notin ToSet(lines)
    BY <2>2, <2>3, LoopKept
  <2>5. flag = TRUE
    <3>1. R >= 2
      BY <1>15
    <3> QED BY <1>3, <3>1 DEF FlagIs
  <2>6. PICK f : Chain(f, z) /\ part = Header \o f[R - 2]
    BY <1>3, <1>4, <1>15 DEF PartIs
  <2>7. f[n] = f[n - 1] \o z[n] /\ f[n - 1] \in Seq(Int)
    <3>1. n - 1 \in 0 .. L
      OBVIOUS
    <3> QED BY <1>5, <2>6, <3>1 DEF Chain
  <2>8. all = Header \o f[n]
    <3>1. PICK g, h : g = f[n - 1] /\ h = z[n]
      OBVIOUS
    <3>2. n - 1 = R - 2
      BY <2>1
    <3>3. part = Header \o g
      BY <2>6, <3>1, <3>2
    <3>4. all = (Header \o g) \o h
      BY <1>9, <2>4, <2>5, <3>1, <3>3
    <3>5. g \in Seq(Int) /\ h \in Seq(Int) /\ f[n] = g \o h
      BY <2>3, <2>7, <3>1
    <3>6. (Header \o g) \o h = Header \o (g \o h)
      BY <1>12, <3>5, ConcatAssociative, SMTT(60)
    <3> QED BY <3>4, <3>5, <3>6
  <2>9. PartIs(R + 1, all)
    <3>1. ~ (R + 1 <= 1) /\ (R + 1) - 2 = n
      BY <1>15, <2>1
    <3> QED BY <1>4, <2>6, <2>8, <3>1 DEF PartIs
  <2>10. flag' = TRUE
    BY <1>10, <2>4, <2>5
  <2>11. FlagIs(R + 1, flag')
    BY <1>15, <2>10 DEF FlagIs
  <2> QED BY <1>11, <1>15, <2>4, <2>9, <2>11
<1>16. CASE R = L + 2
  <2>1. lines = Return
    BY <1>2, <1>8, <1>16 DEF TracePart
  <2>2. flag = TRUE
    <3>1. R >= 2
      BY <1>16
    <3> QED BY <1>3, <3>1 DEF FlagIs
  <2>3. PICK f : Chain(f, z) /\ part = Header \o f[R - 2]
    BY <1>3, <1>4, <1>16 DEF PartIs
  <2>4. f[R - 2] = FlattenSeq(z)
    BY <1>5, <1>16, <2>3 DEF Chain
  <2>5. all = Header \o FlattenSeq(z) \o <<MARKER_END>>
    BY <1>9, <2>1, <2>2, <2>3, <2>4, ReturnKept
  <2>6. part' = all /\ phase' = "simulate"
    BY <1>10, <2>1, ReturnKept
  <2>7. part' = ExactTrace(func, test.M, test.N)
    BY <1>4, <2>5, <2>6, ExactTraceFacts
  <2>8. ExactTrace(func, test.M, test.N)' = ExactTrace(func, test.M, test.N)
    BY <1>7
  <2>9. IsPrefix(part', part')
    <3>1. part' \in Seq(Nat)
      BY <1>3, <2>7, ExactTraceLines DEF Running
    <3>2. Len(part') \in Nat
      BY <3>1, LenProperties
    <3> QED BY <3>2 DEF IsPrefix
  <2> QED BY <1>6, <2>6, <2>7, <2>8, <2>9 DEF FilterKept
<1> QED BY <1>2, <1>13, <1>14, <1>15, <1>16

(* Every step keeps FilterKept.                                            *)
LEMMA FilterGoesOn == Course /\ FilterKept /\ [TestTransNext]_harness_vars => FilterKept'
<1> SUFFICES ASSUME Course, FilterKept, [TestTransNext]_harness_vars PROVE FilterKept'
  OBVIOUS
<1> USE DEF driver_vars, fault_vars, file_vars
<1>1. CASE phase' \notin {"filter", "simulate"}
  BY <1>1 DEF FilterKept
<1>2. CASE /\ UNCHANGED <<session, t, i, phase, traced, read, flag, part>>
           /\ phase \in {"filter", "simulate"} => UNCHANGED wrong
  <2>1. /\ loops_now' = loops_now /\ LoopTraces' = LoopTraces /\ test' = test /\ func' = func
        /\ TraceLength' = TraceLength
    BY <1>2 DEF loops_now, LoopTraces, func, test, TraceLength
  <2>2. PartIs(read, part)' = PartIs(read, part)
    BY <1>2, <2>1 DEF PartIs
  <2>3. ExactTrace(func, test.M, test.N)' = ExactTrace(func, test.M, test.N)
    BY <2>1
  <2> QED BY <1>2, <2>1, <2>2, <2>3 DEF FilterKept
<1>3. CASE StartTest
  BY <1>1, <1>3 DEF StartTest, Printed
<1>4. CASE StartTracegen
  BY <1>1, <1>4 DEF StartTracegen
<1>5. CASE Tracegen
  BY <1>1, <1>5 DEF Tracegen
<1>6. ASSUME NEW code, Evaluate(code), phase = "trace", <<"kill", i>> \notin wrong' => traced = TraceLength
      PROVE  FilterKept'
  <2>1. CASE code # 0
    BY <1>1, <1>6, <2>1 DEF Evaluate
  <2>2. CASE code = 0
    <3>1. /\ UNCHANGED <<session, t, i, traced>> /\ phase' = "filter"
          /\ read' = 0 /\ flag' = FALSE /\ part' = <<>>
      BY <1>6, <2>2 DEF Evaluate
    <3>2. loops_now' = loops_now /\ TraceLength' = TraceLength
      BY <3>1 DEF loops_now, func, test, TraceLength
    <3>3. Len(loops_now) \in Nat
      BY <1>6, NowFacts DEF Running
    <3>4. PartIs(0, part)'
      BY <3>1 DEF PartIs
    <3>5. FlagIs(0, flag')
      BY <3>1 DEF FlagIs
    <3> QED BY <1>6, <3>1, <3>2, <3>3, <3>4, <3>5 DEF FilterKept
  <2> QED BY <2>1, <2>2
<1>7. CASE TracegenExits
  BY <1>6, <1>7 DEF TracegenExits
<1>8. CASE TracegenKilled
  <2>1. PICK code : Evaluate(code) /\ phase = "trace" /\ <<"kill", i>> \in wrong'
    BY <1>8 DEF TracegenKilled
  <2> QED BY <1>6, <2>1
<1>9. CASE Filter
  BY <1>9, FilterStep
<1>10. CASE Simulate
  <2>1. CASE phase' = "simulate"
    <3>1. UNCHANGED <<session, t, i, phase, part, wrong>>
      BY <1>10, <2>1 DEF Simulate
    <3>2. ExactTrace(func, test.M, test.N)' = ExactTrace(func, test.M, test.N)
      BY <3>1 DEF func, test
    <3> QED BY <2>1, <3>1, <3>2 DEF FilterKept
  <2>2. CASE phase' # "simulate"
    BY <1>1, <1>10, <2>2 DEF Simulate
  <2> QED BY <2>1, <2>2
<1>11. CASE CsimFails
  BY <1>1, <1>11 DEF CsimFails
<1>12. CASE Collect
  BY <1>1, <1>12 DEF Collect, Printed
<1>13. CASE PrintResults
  BY <1>1, <1>13 DEF PrintResults, Printed
<1>14. CASE Alarm
  BY <1>1, <1>14 DEF Alarm, Printed
<1>15. CASE Score
  BY <1>1, <1>15 DEF Score
<1>16. CASE OrphanEnds
  BY <1>2, <1>16 DEF OrphanEnds
<1>17. CASE UNCHANGED harness_vars
  BY <1>2, <1>17 DEF harness_vars
<1> QED BY <1>3, <1>4, <1>5, <1>7, <1>8, <1>9, <1>10, <1>11, <1>12, <1>13, <1>14, <1>15, <1>16, <1>17
        DEF TestTransNext

(* The misses counted are those of the function alone: csim-ref reads from *)
(* marker to marker all the accesses of the function, in order, or, of one *)
(* that was killed, the first of them, and nothing else.                   *)
THEOREM TraceIsThatOfTheFunction == TestTransSpec => []TraceIsExact
<1>1. TestTransInit => FilterKept
  BY DEF TestTransInit, FilterKept
<1>2. FilterKept => TraceIsExact
  BY DEF FilterKept, TraceIsExact
<1> QED BY CourseBegins, CourseGoesOn, FilterGoesOn, <1>1, <1>2, PTL DEF TestTransSpec
-----------------------------------------------------------------------------
(* csim-ref has 32 sets of one line; every address has a set and a tag.    *)
LEMMA RefFacts ==
  /\ Ref!Ways = {0}
  /\ \A a \in Nat : Ref!SetOf(a) \in Ref!Sets /\ Ref!TagOf(a) \in Nat
<1>1. Ref!Ways = {0}
  BY DEF Ref!Ways
<1>2. \A a \in Nat : Ref!SetOf(a) \in Ref!Sets /\ Ref!TagOf(a) \in Nat
  BY DEF Ref!SetOf, Ref!Sets, Ref!Read, Ref!TagOf
<1> QED BY <1>1, <1>2

(* Its lines, caches and states.                                           *)
RefLine == [valid_bit : BOOLEAN, tag : Int, stamp : Int]
RefCaches == [Ref!Sets -> [{0} -> RefLine]]
RefStates == [cache : RefCaches, hits : Int, miss : Int, eviction : Int]

(* Line n has the one before it in its set with the same tag.              *)
HeldAt(p, n) ==
  \E m \in 1 .. n - 1 :
    /\ Ref!SetOf(p[m]) = Ref!SetOf(p[n]) /\ Ref!TagOf(p[m]) = Ref!TagOf(p[n])
    /\ \A k \in 1 .. n - 1 : Ref!SetOf(p[k]) = Ref!SetOf(p[n]) => k <= m

(* The line of a set is the last one used, if any.                         *)
LastOf(line, p, n, x) ==
  \/ /\ line.tag = -1 /\ ~ line.valid_bit
     /\ \A k \in 1 .. n : Ref!SetOf(p[k]) # x
  \/ /\ line.valid_bit
     /\ \E m \in 1 .. n :
          /\ Ref!SetOf(p[m]) = x /\ line.tag = Ref!TagOf(p[m])
          /\ \A k \in 1 .. n : Ref!SetOf(p[k]) = x => k <= m

(* The cache and the misses after n lines.                                 *)
HoldsLast(c, p, n) == \A x \in Ref!Sets : LastOf(c.cache[x][0], p, n, x)

Missed(p, n) == {m \in 1 .. n : ~ HeldAt(p, m)}

After(c, p, n) ==
  c \in RefStates /\ HoldsLast(c, p, n) /\ c.miss = Cardinality(Missed(p, n))

(* One line: what update and update_time do to a cache of one way.         *)
LEMMA TraceLineIs ==
  ASSUME NEW c, NEW a
  PROVE  TraceLine(c, a) = [Ref!update(c, a) EXCEPT !.cache = Ref!update_time(Ref!update(c, a).cache)]
<1> DEFINE timed(u) == [u EXCEPT !.cache = Ref!update_time(u.cache)]
<1>1. PICK w : w = Ref!update(c, a)
  OBVIOUS
<1>2. {Ref!update(x, a) : x \in {c}} = {w}
  BY <1>1
<1>3. {timed(u) : u \in {w}} = {timed(w)}
  <2> HIDE DEF timed
  <2> QED OBVIOUS
<1>4. TraceLine(c, a) = CHOOSE v \in {timed(u) : u \in {Ref!update(x, a) : x \in {c}}} : TRUE
  BY DEF TraceLine
<1>5. TraceLine(c, a) = CHOOSE v \in {timed(w)} : TRUE
  BY <1>2, <1>3, <1>4
<1>6. \A y : (CHOOSE v \in {y} : TRUE) = y
  OBVIOUS
<1>7. TraceLine(c, a) = timed(w)
  <2> HIDE DEF timed
  <2> QED BY <1>5, <1>6
<1> QED BY <1>1, <1>7

(* A hit, and what update does.                                            *)
Hit(c, a) == c.cache[Ref!SetOf(a)][0].tag = Ref!TagOf(a)

Updated(c, u, a, set) ==
  /\ u \in RefStates
  /\ \A x \in Ref!Sets : x # set => u.cache[x][0] = c.cache[x][0]
  /\ u.cache[set][0].tag = Ref!TagOf(a)
  /\ Hit(c, a) => u.cache[set][0].valid_bit = c.cache[set][0].valid_bit /\ u.miss = c.miss
  /\ ~ Hit(c, a) => u.cache[set][0].valid_bit = TRUE /\ u.miss = c.miss + 1

(* What update does to a cache of one way: one set changes, and a miss is  *)
(* counted unless the set holds the tag.                                   *)
LEMMA UpdateIs ==
  ASSUME NEW c \in RefStates, NEW a \in Nat, NEW u, u = Ref!update(c, a)
  PROVE  Updated(c, u, a, Ref!SetOf(a))
<1>1. PICK set, tag : set = Ref!SetOf(a) /\ tag = Ref!TagOf(a)
  OBVIOUS
<1>2. set \in Ref!Sets /\ tag \in Nat /\ Ref!Ways = {0}
  BY <1>1, RefFacts
<1>3. /\ c.cache \in [Ref!Sets -> [{0} -> RefLine]] /\ c.hits \in Int /\ c.miss \in Int /\ c.eviction \in Int
      /\ c.cache[set] \in [{0} -> RefLine] /\ c.cache[set][0] \in RefLine
  BY <1>2 DEF RefStates, RefCaches
<1>4. Ref!Min({0}) = 0
  <2>1. {0} \in SUBSET Nat /\ {0} # {}
    OBVIOUS
  <2>2. Min({0}) \in {0}
    BY <2>1, MinOfNats
  <2>3. Ref!Min({0}) = Min({0})
    BY DEF Ref!Min, Min
  <2> QED BY <2>2, <2>3
<1>5. PICK hit : hit = Ref!Matching(c.cache[set], tag)
  OBVIOUS
<1>6. hit = IF Hit(c, a) THEN {0} ELSE {}
  BY <1>1, <1>2, <1>5 DEF Ref!Matching, Hit
<1>7. u = IF hit # {}
          THEN Ref!State([c.cache EXCEPT ![set][Ref!Min(hit)].stamp = 0], c.hits + 1, c.miss, c.eviction)
          ELSE Ref!Miss(c, set, tag)
  <2>1. Ref!update(c, a) =
          IF Ref!Matching(c.cache[Ref!SetOf(a)], Ref!TagOf(a)) # {}
          THEN Ref!State([c.cache EXCEPT ![Ref!SetOf(a)][Ref!Min(Ref!Matching(c.cache[Ref!SetOf(a)], Ref!TagOf(a)))].stamp = 0],
                         c.hits + 1, c.miss, c.eviction)
          ELSE Ref!Miss(c, Ref!SetOf(a), Ref!TagOf(a))
    BY DEF Ref!update
  <2> QED BY <1>1, <1>5, <2>1, Zenon
<1>8. CASE Hit(c, a)
  <2>1. u = Ref!State([c.cache EXCEPT ![set][0].stamp = 0], c.hits + 1, c.miss, c.eviction)
    BY <1>4, <1>6, <1>7, <1>8
  <2>2. PICK d : d = [c.cache EXCEPT ![set][0].stamp = 0]
    OBVIOUS
  <2>3. /\ d \in [Ref!Sets -> [{0} -> RefLine]]
        /\ \A x \in Ref!Sets : x # set => d[x] = c.cache[x]
        /\ d[set][0].tag = c.cache[set][0].tag
        /\ d[set][0].valid_bit = c.cache[set][0].valid_bit
    BY <1>2, <1>3, <2>2 DEF RefLine
  <2>4. u = [cache |-> d, hits |-> c.hits + 1, miss |-> c.miss, eviction |-> c.eviction]
    BY <2>1, <2>2 DEF Ref!State
  <2> QED BY <1>1, <1>3, <1>8, <2>3, <2>4 DEF RefStates, RefCaches, Hit, Updated
<1>9. CASE ~ Hit(c, a)
  <2>1. u = Ref!Miss(c, set, tag)
    BY <1>6, <1>7, <1>9
  <2>2. PICK empty, oldest : empty = Ref!Empty(c.cache[set]) /\ oldest = Ref!Oldest(c.cache[set])
    OBVIOUS
  <2>3. (IF empty # {} THEN empty ELSE oldest) = {0}
    <3>1. empty \subseteq {0}
      BY <1>2, <2>2 DEF Ref!Empty
    <3>2. oldest = {0}
      <4>1. c.cache[set][0].stamp <= c.cache[set][0].stamp
        BY <1>3 DEF RefLine
      <4> QED BY <1>2, <2>2, <4>1 DEF Ref!Oldest
    <3> QED BY <3>1, <3>2
  <2>4. PICK d, ev : /\ d = [c.cache EXCEPT ![set][0] = Ref!Fresh(tag)]
                     /\ ev = IF empty # {} THEN c.eviction ELSE c.eviction + 1
    OBVIOUS
  <2>5. u = [cache |-> d, hits |-> c.hits, miss |-> c.miss + 1, eviction |-> ev]
    <3>1. Ref!Miss(c, set, tag) =
            Ref!State([c.cache EXCEPT ![set][Ref!Min(IF Ref!Empty(c.cache[set]) # {} THEN Ref!Empty(c.cache[set])
                                                 ELSE Ref!Oldest(c.cache[set]))] = Ref!Fresh(tag)],
                      c.hits, c.miss + 1,
                      IF Ref!Empty(c.cache[set]) # {} THEN c.eviction ELSE c.eviction + 1)
      BY DEF Ref!Miss
    <3>2. PICK way : way = Ref!Min(IF empty # {} THEN empty ELSE oldest)
      OBVIOUS
    <3>3. way = 0
      BY <1>4, <2>3, <3>2
    <3>4. Ref!Miss(c, set, tag) = Ref!State([c.cache EXCEPT ![set][way] = Ref!Fresh(tag)], c.hits, c.miss + 1, ev)
      BY <2>2, <2>4, <3>1, <3>2, Zenon
    <3>5. Ref!Miss(c, set, tag) = Ref!State(d, c.hits, c.miss + 1, ev)
      BY <2>4, <3>3, <3>4, Zenon
    <3> QED BY <2>1, <3>5 DEF Ref!State
  <2>6. /\ Ref!Fresh(tag) \in RefLine /\ Ref!Fresh(tag).tag = tag /\ Ref!Fresh(tag).valid_bit = TRUE
    BY <1>2 DEF Ref!Fresh, RefLine
  <2>7. /\ d \in [Ref!Sets -> [{0} -> RefLine]]
        /\ \A x \in Ref!Sets : x # set => d[x] = c.cache[x]
        /\ d[set][0] = Ref!Fresh(tag)
    BY <1>2, <1>3, <2>4, <2>6
  <2>8. ev \in Int
    BY <1>3, <2>4
  <2> QED BY <1>1, <1>3, <1>9, <2>5, <2>6, <2>7, <2>8 DEF RefStates, RefCaches, Updated
<1> QED BY <1>8, <1>9

(* update_time changes no tag and no count.                                *)
LEMMA TimeIs ==
  ASSUME NEW u \in RefStates, NEW d, d = [u EXCEPT !.cache = Ref!update_time(u.cache)]
  PROVE  /\ d \in RefStates /\ d.miss = u.miss
         /\ \A x \in Ref!Sets : /\ d.cache[x][0].tag = u.cache[x][0].tag
                                /\ d.cache[x][0].valid_bit = u.cache[x][0].valid_bit
<1>1. Ref!Ways = {0}
  BY RefFacts
<1>2. PICK h, g : h = u.cache /\ g = Ref!update_time(h)
  OBVIOUS
<1>3. h \in [Ref!Sets -> [{0} -> RefLine]]
  BY <1>2 DEF RefStates, RefCaches
<1>4. g = [x \in Ref!Sets |-> [y \in {0} |->
             IF h[x][y].valid_bit THEN [h[x][y] EXCEPT !.stamp = @ + 1] ELSE h[x][y]]]
  BY <1>1, <1>2 DEF Ref!update_time
<1>5. ASSUME NEW l \in RefLine
      PROVE  /\ [l EXCEPT !.stamp = @ + 1] \in RefLine
             /\ [l EXCEPT !.stamp = @ + 1].tag = l.tag
             /\ [l EXCEPT !.stamp = @ + 1].valid_bit = l.valid_bit
  BY DEF RefLine
<1>6. ASSUME NEW x \in Ref!Sets, NEW y \in {0}
      PROVE  g[x][y] \in RefLine /\ g[x][y].tag = h[x][y].tag /\ g[x][y].valid_bit = h[x][y].valid_bit
  <2>1. h[x][y] \in RefLine
    BY <1>3
  <2>2. g[x][y] = IF h[x][y].valid_bit THEN [h[x][y] EXCEPT !.stamp = @ + 1] ELSE h[x][y]
    BY <1>4
  <2>3. PICK l \in RefLine : l = h[x][y]
    BY <2>1
  <2> QED BY <1>5, <2>2, <2>3
<1>7. g \in [Ref!Sets -> [{0} -> RefLine]]
  <2>1. \A x \in Ref!Sets : g[x] \in [{0} -> RefLine]
    BY <1>4, <1>6
  <2> QED BY <1>4, <2>1
<1>8. d.cache = g /\ d \in RefStates /\ d.miss = u.miss
  BY <1>2, <1>7 DEF RefStates, RefCaches
<1> QED BY <1>2, <1>6, <1>8

(* The cache is empty before the first line.                               *)
LEMMA AfterNone ==
  ASSUME NEW p,
         NEW c, c = Ref!State([x \in Ref!Sets |-> [y \in Ref!Ways |->
                       [valid_bit |-> FALSE, tag |-> -1, stamp |-> -1]]], 0, 0, 0)
  PROVE  After(c, p, 0)
<1>1. PICK h : h = [x \in Ref!Sets |-> [y \in {0} |-> [valid_bit |-> FALSE, tag |-> -1, stamp |-> -1]]]
  OBVIOUS
<1>2. c = [cache |-> h, hits |-> 0, miss |-> 0, eviction |-> 0]
  BY <1>1, RefFacts DEF Ref!State
<1>3. h \in RefCaches
  BY <1>1 DEF RefCaches, RefLine
<1>4. \A x \in Ref!Sets : h[x][0].tag = -1 /\ h[x][0].valid_bit = FALSE
  BY <1>1
<1>5. HoldsLast(c, p, 0)
  BY <1>2, <1>4 DEF HoldsLast, LastOf
<1>6. Missed(p, 0) = {}
  BY DEF Missed
<1>7. c.miss = Cardinality(Missed(p, 0))
  <2>1. Cardinality({}) = 0
    BY FS_EmptySet
  <2>2. c.miss = 0
    BY <1>2
  <2> QED BY <1>6, <2>1, <2>2
<1> QED BY <1>2, <1>3, <1>5, <1>7 DEF After, RefStates

(* One more line is one more miss, or none.                                *)
LEMMA MissedCount ==
  ASSUME NEW p, NEW n \in Nat
  PROVE  /\ IsFiniteSet(Missed(p, n)) /\ Cardinality(Missed(p, n)) \in Nat
         /\ Cardinality(Missed(p, n + 1)) = IF HeldAt(p, n + 1) THEN Cardinality(Missed(p, n))
                                            ELSE Cardinality(Missed(p, n)) + 1
<1>1. IsFiniteSet(1 .. n)
  BY FS_Interval
<1>2. Missed(p, n) \subseteq 1 .. n
  BY DEF Missed
<1>3. IsFiniteSet(Missed(p, n))
  BY <1>1, <1>2, FS_Subset
<1>4. Missed(p, n + 1) = IF HeldAt(p, n + 1) THEN Missed(p, n) ELSE Missed(p, n) \cup {n + 1}
  <2>1. \A m : m \in 1 .. n + 1 <=> m \in 1 .. n \/ m = n + 1
    OBVIOUS
  <2> QED BY <2>1 DEF Missed
<1>5. n + 1 \notin Missed(p, n)
  BY <1>2
<1> QED BY <1>3, <1>4, <1>5, FS_AddElement, FS_CardinalityType

(* A line is hit if it is held.                                            *)
LEMMA HitIfHeld ==
  ASSUME NEW p, NEW n \in Nat, NEW c, After(c, p, n), NEW a \in Nat, a = p[n + 1],
         \A m \in 1 .. n : p[m] \in Nat
  PROVE  Hit(c, a) <=> HeldAt(p, n + 1)
<1>1. PICK x, tag : x = Ref!SetOf(a) /\ tag = Ref!TagOf(a)
  OBVIOUS
<1>2. x \in Ref!Sets /\ tag \in Nat
  BY <1>1, RefFacts
<1>3. LastOf(c.cache[x][0], p, n, x)
  BY <1>2 DEF After, HoldsLast
<1>4. HeldAt(p, n + 1) <=>
        \E m \in 1 .. n : /\ Ref!SetOf(p[m]) = x /\ Ref!TagOf(p[m]) = tag
                          /\ \A k \in 1 .. n : Ref!SetOf(p[k]) = x => k <= m
  <2>1. (n + 1) - 1 = n
    OBVIOUS
  <2> QED BY <1>1, <2>1 DEF HeldAt
<1>5. Hit(c, a) <=> c.cache[x][0].tag = tag
  BY <1>1 DEF Hit
<1>6. CASE c.cache[x][0].tag = -1 /\ \A k \in 1 .. n : Ref!SetOf(p[k]) # x
  <2>1. ~ Hit(c, a)
    BY <1>2, <1>5, <1>6
  <2>2. ~ HeldAt(p, n + 1)
    BY <1>4, <1>6
  <2> QED BY <2>1, <2>2
<1>7. CASE \E m \in 1 .. n :
             /\ Ref!SetOf(p[m]) = x /\ c.cache[x][0].tag = Ref!TagOf(p[m])
             /\ \A k \in 1 .. n : Ref!SetOf(p[k]) = x => k <= m
  <2>1. PICK m \in 1 .. n : /\ Ref!SetOf(p[m]) = x /\ c.cache[x][0].tag = Ref!TagOf(p[m])
                            /\ \A k \in 1 .. n : Ref!SetOf(p[k]) = x => k <= m
    BY <1>7
  <2>2. \A l \in 1 .. n : Ref!SetOf(p[l]) = x /\ (\A k \in 1 .. n : Ref!SetOf(p[k]) = x => k <= l) => l = m
    BY <2>1
  <2>3. HeldAt(p, n + 1) <=> Ref!TagOf(p[m]) = tag
    BY <1>4, <2>1, <2>2
  <2> QED BY <1>5, <2>1, <2>3
<1> QED BY <1>3, <1>6, <1>7 DEF LastOf

(* A line keeps the correspondence of the cache with the trace.            *)
LEMMA AfterOneMore ==
  ASSUME NEW p, NEW n \in Nat, NEW c, After(c, p, n), NEW a \in Nat, a = p[n + 1],
         \A m \in 1 .. n : p[m] \in Nat
  PROVE  After(TraceLine(c, a), p, n + 1)
<1>1. PICK u, d : u = Ref!update(c, a) /\ d = TraceLine(c, a)
  OBVIOUS
<1>2. c \in RefStates /\ HoldsLast(c, p, n) /\ c.miss = Cardinality(Missed(p, n))
  BY DEF After
<1>3. PICK x : x = Ref!SetOf(a) /\ x \in Ref!Sets
  BY RefFacts
<1>4. d = [u EXCEPT !.cache = Ref!update_time(u.cache)]
  BY <1>1, TraceLineIs
<1>5. /\ u \in RefStates
      /\ \A y \in Ref!Sets : y # x => u.cache[y][0] = c.cache[y][0]
      /\ u.cache[x][0].tag = Ref!TagOf(a)
      /\ Hit(c, a) => u.cache[x][0].valid_bit = c.cache[x][0].valid_bit /\ u.miss = c.miss
      /\ ~ Hit(c, a) => u.cache[x][0].valid_bit = TRUE /\ u.miss = c.miss + 1
  <2>1. Updated(c, u, a, Ref!SetOf(a))
    BY <1>1, <1>2, UpdateIs
  <2>2. Updated(c, u, a, x)
    BY <1>3, <2>1
  <2> QED BY <2>2 DEF Updated
<1>6. /\ d \in RefStates /\ d.miss = u.miss
      /\ \A y \in Ref!Sets : /\ d.cache[y][0].tag = u.cache[y][0].tag
                             /\ d.cache[y][0].valid_bit = u.cache[y][0].valid_bit
  BY <1>4, <1>5, TimeIs, ZenonT(60)
<1>7. Hit(c, a) <=> HeldAt(p, n + 1)
  BY HitIfHeld
<1>8. d.miss = Cardinality(Missed(p, n + 1))
  BY <1>2, <1>5, <1>6, <1>7, MissedCount
<1>9. ASSUME NEW y \in Ref!Sets
      PROVE  LastOf(d.cache[y][0], p, n + 1, y)
  <2>1. LastOf(c.cache[y][0], p, n, y)
    BY <1>2 DEF HoldsLast
  <2>2. \A k : k \in 1 .. n + 1 <=> k \in 1 .. n \/ k = n + 1
    OBVIOUS
  <2>3. CASE y # x
    <3>1. d.cache[y][0].tag = c.cache[y][0].tag /\ d.cache[y][0].valid_bit = c.cache[y][0].valid_bit
      BY <1>5, <1>6, <2>3
    <3>2. Ref!SetOf(p[n + 1]) # y
      BY <1>3, <2>3
    <3> QED BY <2>1, <2>2, <3>1, <3>2 DEF LastOf
  <2>4. CASE y = x
    <3>1. d.cache[y][0].tag = Ref!TagOf(p[n + 1]) /\ Ref!SetOf(p[n + 1]) = y
      BY <1>3, <1>5, <1>6, <2>4
    <3>2. d.cache[y][0].valid_bit
      <4>1. CASE Hit(c, a)
        <5>1. Ref!TagOf(a) \in Nat /\ c.cache[y][0].tag = Ref!TagOf(a)
          BY <1>3, <2>4, <4>1, RefFacts DEF Hit
        <5>2. c.cache[y][0].valid_bit
          BY <2>1, <5>1 DEF LastOf
        <5> QED BY <1>3, <1>5, <1>6, <2>4, <4>1, <5>2
      <4>2. CASE ~ Hit(c, a)
        BY <1>3, <1>5, <1>6, <2>4, <4>2
      <4> QED BY <4>1, <4>2
    <3>3. \A k \in 1 .. n + 1 : k <= n + 1
      OBVIOUS
    <3>4. n + 1 \in 1 .. n + 1
      OBVIOUS
    <3> QED BY <3>1, <3>2, <3>3, <3>4 DEF LastOf
  <2> QED BY <2>3, <2>4
<1>10. HoldsLast(d, p, n + 1)
  BY <1>9 DEF HoldsLast
<1> QED BY <1>1, <1>6, <1>8, <1>10 DEF After

(* The function inside Simulate exists.                                    *)
Lined(f, lo, hi, c, p) ==
  f = [n \in lo .. hi |-> IF n = lo THEN c ELSE TraceLine(f[n - 1], p[n])]

(* By induction on its upper bound.                                        *)
LEMMA LinedExists ==
  ASSUME NEW lo \in Nat, NEW hi \in Nat, lo <= hi, NEW c, NEW p
  PROVE  \E f : Lined(f, lo, hi, c, p)
<1> DEFINE Bad == {m \in Nat : lo <= m /\ m <= hi /\ ~ \E f : Lined(f, lo, m, c, p)}
<1>1. SUFFICES ASSUME Bad # {} PROVE FALSE
  OBVIOUS
<1>2. PICK l \in Bad : \A k \in Bad : l <= k
  <2>1. Bad \in SUBSET Nat
    OBVIOUS
  <2> HIDE DEF Bad
  <2> QED BY <1>1, <2>1, LeastNat
<1>3. l \in Nat /\ lo <= l /\ l <= hi
  OBVIOUS
<1>4. l # lo
  <2>1. Lined([n \in lo .. lo |-> c], lo, lo, c, p)
    <3>1. PICK f : f = [n \in lo .. lo |-> c]
      OBVIOUS
    <3>2. \A n \in lo .. lo : n = lo
      OBVIOUS
    <3> QED BY <3>1, <3>2 DEF Lined
  <2> QED BY <2>1
<1>5. PICK f : Lined(f, lo, l - 1, c, p)
  <2>1. l - 1 \in Nat /\ lo <= l - 1 /\ l - 1 <= hi /\ ~ (l <= l - 1)
    BY <1>3, <1>4
  <2>2. l - 1 \notin Bad
    <3> HIDE DEF Bad
    <3> QED BY <1>2, <2>1
  <2> QED BY <2>1, <2>2
<1>6. \A n \in lo .. l - 1 : f[n] = IF n = lo THEN c ELSE TraceLine(f[n - 1], p[n])
  BY <1>5, Zenon DEF Lined
<1>7. PICK g : g = [n \in lo .. l |-> IF n = l THEN TraceLine(f[n - 1], p[n]) ELSE f[n]]
  OBVIOUS
<1>8. ASSUME NEW n \in lo .. l
      PROVE  g[n] = IF n = lo THEN c ELSE TraceLine(g[n - 1], p[n])
  <2>1. CASE n = lo
    <3>1. n \in lo .. l - 1 /\ n # l
      BY <1>3, <1>4, <2>1
    <3> QED BY <1>6, <1>7, <2>1, <3>1
  <2>2. CASE n # lo
    <3>1. n - 1 \in lo .. l /\ n - 1 # l
      BY <1>3, <2>2
    <3>2. g[n - 1] = f[n - 1]
      BY <1>7, <3>1
    <3>3. CASE n = l
      BY <1>7, <2>2, <3>2, <3>3
    <3>4. CASE n # l
      <4>1. n \in lo .. l - 1
        BY <1>3, <3>4
      <4>2. g[n] = f[n] /\ f[n] = TraceLine(f[n - 1], p[n])
        BY <1>6, <1>7, <2>2, <3>4, <4>1
      <4> QED BY <2>2, <3>2, <4>2
    <3> QED BY <3>3, <3>4
  <2> QED BY <2>1, <2>2
<1>9. Lined(g, lo, l, c, p)
  <2>1. g = [n \in lo .. l |-> g[n]]
    BY <1>7
  <2> QED BY <1>8, <2>1 DEF Lined
<1> QED BY <1>2, <1>9

(* The reference of CreditIsEarned counts the lines that are not held.     *)
LEMMA DirectMissesIs ==
  ASSUME NEW p \in Seq(Nat)
  PROVE  DirectMisses(p) = Cardinality(Missed(p, Len(p)))
<1>1. PICK n \in Nat : n = Len(p) /\ DOMAIN p = 1 .. n
  BY LenProperties
<1>2. \A m \in 1 .. n : p[m] \in Nat
  BY <1>1, ElementOfSeq
<1> DEFINE own(x) == {m \in 1 .. n : Ref!SetOf(p[m]) = x}
           missed(w) == {m \in w : ~\E l \in w : /\ l < m /\ \A k \in w : k <= l \/ k >= m
                                               /\ Ref!TagOf(p[l]) = Ref!TagOf(p[m])}
<1>3. DirectMisses(p) = Cardinality(UNION {missed(own(x)) : x \in Ref!Sets})
  BY <1>1 DEF DirectMisses
<1>4. ASSUME NEW m \in 1 .. n
      PROVE  m \in missed(own(Ref!SetOf(p[m]))) <=> ~ HeldAt(p, m)
  <2>1. PICK w : w = own(Ref!SetOf(p[m]))
    OBVIOUS
  <2>2. m \in w
    BY <2>1
  <2>3. \A l : l \in w <=> l \in 1 .. n /\ Ref!SetOf(p[l]) = Ref!SetOf(p[m])
    BY <2>1
  <2>4. (\E l \in w : /\ l < m /\ \A k \in w : k <= l \/ k >= m
                      /\ Ref!TagOf(p[l]) = Ref!TagOf(p[m])) <=> HeldAt(p, m)
    <3>1. \A l : l \in 1 .. m - 1 <=> l \in 1 .. n /\ l < m
      OBVIOUS
    <3>2. ASSUME NEW l \in w, l < m
          PROVE  (\A k \in w : k <= l \/ k >= m)
                   <=> (\A k \in 1 .. m - 1 : Ref!SetOf(p[k]) = Ref!SetOf(p[m]) => k <= l)
      <4>1. \A k \in 1 .. n : k >= m <=> k \notin 1 .. m - 1
        OBVIOUS
      <4>2. \A k : k \in w /\ ~ (k >= m) <=> k \in 1 .. m - 1 /\ Ref!SetOf(p[k]) = Ref!SetOf(p[m])
        <5> HIDE DEF own, missed
        <5> QED BY <2>3, <3>1, <4>1
      <4> HIDE DEF own, missed
      <4> QED BY <4>2, Zenon
    <3>3. HeldAt(p, m) <=>
            \E l \in w : l < m /\ Ref!TagOf(p[l]) = Ref!TagOf(p[m])
                         /\ \A k \in 1 .. m - 1 : Ref!SetOf(p[k]) = Ref!SetOf(p[m]) => k <= l
      BY <2>3, <3>1 DEF HeldAt
    <3> QED BY <3>2, <3>3
  <2>5. m \in missed(w) <=> ~ HeldAt(p, m)
    BY <2>2, <2>4
  <2> QED BY <2>1, <2>5
<1>5. \A m, x : m \in missed(own(x)) => m \in 1 .. n /\ Ref!SetOf(p[m]) = x
  OBVIOUS
<1>6. \A m \in 1 .. n : Ref!SetOf(p[m]) \in Ref!Sets
  BY <1>2, RefFacts
<1>7. UNION {missed(own(x)) : x \in Ref!Sets} = Missed(p, n)
  <2> HIDE DEF missed, own
  <2>1. ASSUME NEW m \in UNION {missed(own(x)) : x \in Ref!Sets}
        PROVE  m \in Missed(p, n)
    <3>1. PICK x \in Ref!Sets : m \in missed(own(x))
      OBVIOUS
    <3>2. m \in 1 .. n /\ Ref!SetOf(p[m]) = x
      BY <1>5, <3>1
    <3> QED BY <1>4, <3>1, <3>2 DEF Missed
  <2>2. ASSUME NEW m \in Missed(p, n)
        PROVE  m \in UNION {missed(own(x)) : x \in Ref!Sets}
    <3>1. m \in 1 .. n /\ ~ HeldAt(p, m)
      BY DEF Missed
    <3>2. PICK x \in Ref!Sets : x = Ref!SetOf(p[m])
      BY <1>6, <3>1
    <3>3. m \in missed(own(x))
      BY <1>4, <3>1, <3>2
    <3> QED BY <3>3
  <2> QED BY <2>1, <2>2
<1> QED BY <1>1, <1>3, <1>7

(* csim-ref goes on from line to line.                                     *)
LEMMA LinedAfter ==
  ASSUME NEW p \in Seq(Nat), NEW lo \in Nat, NEW hi \in Nat, lo <= hi, hi <= Len(p),
         NEW c, After(c, p, lo), NEW f, Lined(f, lo, hi, c, p)
  PROVE  After(f[hi], p, hi)
<1>1. \A n \in lo .. hi : f[n] = IF n = lo THEN c ELSE TraceLine(f[n - 1], p[n])
  BY Zenon DEF Lined
<1> DEFINE Bad == {m \in Nat : lo <= m /\ m <= hi /\ ~ After(f[m], p, m)}
<1>2. SUFFICES ASSUME Bad # {} PROVE FALSE
  OBVIOUS
<1>3. PICK l \in Bad : \A k \in Bad : l <= k
  <2>1. Bad \in SUBSET Nat
    OBVIOUS
  <2> HIDE DEF Bad
  <2> QED BY <1>2, <2>1, LeastNat
<1>4. l \in Nat /\ lo <= l /\ l <= hi /\ ~ After(f[l], p, l)
  OBVIOUS
<1>5. l # lo
  <2>1. lo \in lo .. hi /\ f[lo] = c
    BY <1>1
  <2> QED BY <1>4, <2>1
<1>6. PICK n \in Nat : n = l - 1 /\ l = n + 1 /\ lo <= n /\ n <= hi /\ n < Len(p)
  <2>1. Len(p) \in Nat
    BY LenProperties
  <2> QED BY <1>4, <1>5, <2>1
<1>7. After(f[n], p, n)
  <2>1. n \notin Bad
    <3>1. ~ (l <= n)
      BY <1>6
    <3> HIDE DEF Bad
    <3> QED BY <1>3, <3>1
  <2> QED BY <1>6, <2>1
<1>8. p[n + 1] \in Nat /\ \A m \in 1 .. n : p[m] \in Nat
  <2>1. Len(p) \in Nat /\ \A m \in 1 .. Len(p) : p[m] \in Nat
    BY LenProperties, ElementOfSeq
  <2>2. n + 1 \in 1 .. Len(p) /\ \A m \in 1 .. n : m \in 1 .. Len(p)
    BY <1>6, <2>1
  <2> QED BY <2>1, <2>2
<1>9. After(TraceLine(f[n], p[n + 1]), p, n + 1)
  BY <1>7, <1>8, AfterOneMore
<1>10. f[l] = TraceLine(f[n], p[n + 1])
  <2>1. l \in lo .. hi
    BY <1>4
  <2> QED BY <1>1, <1>5, <1>6, <2>1
<1> QED BY <1>4, <1>6, <1>9, <1>10

(* A step of csim-ref is some lines, and its summary counts the lines that *)
(* are not held.                                                           *)
LEMMA SimulatedAfter ==
  ASSUME NEW c, After(c, part, pos), c = sim, Simulate, part \in Seq(Nat), pos \in 0 .. Len(part)
  PROVE  /\ pos' \in 0 .. Len(part) /\ After(sim', part, pos')
         /\ IF pos' = Len(part) THEN phase' = "collect" /\ csim_results' = DirectMisses(part)
            ELSE phase' = "simulate"
<1>1. PICK n \in Nat : n = Len(part)
  BY LenProperties
<1>2. PICK upto : upto = Min({pos + Chunk, n})
  OBVIOUS
<1>3. upto \in pos .. n /\ upto \in Nat /\ pos \in Nat /\ pos <= n
  <2>1. {pos + Chunk, n} \in SUBSET Nat /\ {pos + Chunk, n} # {} /\ pos \in Nat /\ pos <= n
    BY <1>1 DEF Chunk
  <2>2. upto \in {pos + Chunk, n}
    BY <1>2, <2>1, MinOfNats
  <2>3. upto <= n
    BY <1>2, <2>1, MinOfNats
  <2> QED BY <2>1, <2>2, <2>3 DEF Chunk
<1>4. PICK f : f = CHOOSE g : Lined(g, pos, upto, sim, part)
  OBVIOUS
<1>5. Lined(f, pos, upto, sim, part)
  BY <1>3, <1>4, LinedExists
<1>6. /\ sim' = f[upto] /\ pos' = upto
      /\ IF upto = n THEN phase' = "collect" /\ csim_results' = sim'.miss
         ELSE UNCHANGED <<phase, csim_results>>
      /\ phase = "simulate"
  BY <1>1, <1>2, <1>4 DEF Simulate, Lined
<1>7. After(f[upto], part, upto)
  BY <1>1, <1>3, <1>5, LinedAfter
<1>8. upto = n => sim'.miss = DirectMisses(part)
  BY <1>1, <1>6, <1>7, DirectMissesIs DEF After
<1> QED BY <1>1, <1>3, <1>6, <1>7, <1>8

(* No fault met the function that runs now.                                *)
Unharmed == \A w \in wrong : w[2] # i

(* The inductive invariant of csim-ref: its cache and counters are those   *)
(* after pos lines of the trace, and at its end .csim_results has the      *)
(* misses of the function.                                                 *)
SimulateKept ==
  /\ phase = "simulate" /\ <<"kill", i>> \notin wrong =>
       pos \in 0 .. Len(part) /\ After(sim, part, pos)
  /\ phase = "collect" /\ Unharmed => csim_results = DirectMisses(ExactTrace(func, test.M, test.N))

(* Every step keeps SimulateKept.                                          *)
LEMMA SimulateGoesOn ==
  Course /\ FilterKept /\ SimulateKept /\ [TestTransNext]_harness_vars => SimulateKept'
<1> SUFFICES ASSUME Course, FilterKept, SimulateKept, [TestTransNext]_harness_vars PROVE SimulateKept'
  OBVIOUS
<1> USE DEF driver_vars, fault_vars, file_vars
<1>0. FilterKept'
  BY FilterGoesOn
<1>1. ASSUME phase' \notin {"simulate", "collect"}
      PROVE  SimulateKept'
  BY <1>1 DEF SimulateKept
<1>2. CASE StartTest
  BY <1>1, <1>2 DEF StartTest, Printed
<1>3. CASE StartTracegen
  BY <1>1, <1>3 DEF StartTracegen
<1>4. CASE Tracegen
  BY <1>1, <1>4 DEF Tracegen
<1>5. CASE TracegenExits
  BY <1>1, <1>5 DEF TracegenExits, Evaluate
<1>6. CASE TracegenKilled
  BY <1>1, <1>6 DEF TracegenKilled, Evaluate
<1>7. CASE Filter
  <2>1. CASE phase' = "simulate"
    <3>1. /\ UNCHANGED <<session, t, i, wrong>> /\ phase = "filter" /\ pos' = 0
          /\ sim' = Ref!State([x \in Ref!Sets |-> [y \in Ref!Ways |->
                       [valid_bit |-> FALSE, tag |-> -1, stamp |-> -1]]], 0, 0, 0)
      BY <1>7, <2>1 DEF Filter
    <3>2. After(sim', part', pos')
      BY <3>1, AfterNone
    <3>3. ASSUME <<"kill", i>> \notin wrong
          PROVE  pos' \in 0 .. Len(part')
      <4>1. part' = ExactTrace(func', test'.M, test'.N)
        BY <1>0, <2>1, <3>1, <3>3 DEF FilterKept
      <4>2. part' = ExactTrace(func, test.M, test.N)
        BY <3>1, <4>1 DEF func, test
      <4>3. part' \in Seq(Nat)
        BY <3>1, <4>2, ExactTraceLines DEF Running
      <4>4. Len(part') \in Nat
        BY <4>3, LenProperties
      <4> QED BY <3>1, <4>4
    <3> QED BY <2>1, <3>1, <3>2, <3>3 DEF SimulateKept
  <2>2. CASE phase' # "simulate"
    BY <1>1, <1>7, <2>2 DEF Filter
  <2> QED BY <2>1, <2>2
<1>8. CASE Simulate
  <2>1. UNCHANGED <<session, t, i, part, wrong>> /\ phase = "simulate"
    BY <1>8 DEF Simulate
  <2>2. Unharmed' = Unharmed /\ func' = func /\ test' = test
    BY <2>1 DEF Unharmed, func, test
  <2>3. ASSUME <<"kill", i>> \notin wrong
        PROVE  IF phase' = "collect" THEN csim_results' = DirectMisses(ExactTrace(func, test.M, test.N))
               ELSE pos' \in 0 .. Len(part) /\ After(sim', part, pos')
    <3>1. part = ExactTrace(func, test.M, test.N)
      BY <2>1, <2>3 DEF FilterKept
    <3>2. part \in Seq(Nat)
      BY <2>1, <3>1, ExactTraceLines DEF Running
    <3>3. pos \in 0 .. Len(part) /\ After(sim, part, pos)
      BY <2>1, <2>3 DEF SimulateKept
    <3>4. /\ pos' \in 0 .. Len(part) /\ After(sim', part, pos')
          /\ IF pos' = Len(part) THEN phase' = "collect" /\ csim_results' = DirectMisses(part)
             ELSE phase' = "simulate"
      BY <1>8, <3>2, <3>3, SimulatedAfter
    <3> QED BY <3>1, <3>4
  <2>4. ExactTrace(func', test'.M, test'.N) = ExactTrace(func, test.M, test.N)
    BY <2>2
  <2>5. Unharmed => <<"kill", i>> \notin wrong
    BY DEF Unharmed
  <2>6. phase' = "simulate" => phase' # "collect"
    OBVIOUS
  <2> QED BY <2>1, <2>2, <2>3, <2>4, <2>5, <2>6 DEF SimulateKept
<1>9. CASE CsimFails
  <2>1. <<"csim", i>> \in wrong' /\ i' = i /\ phase' = "collect"
    BY <1>9 DEF CsimFails
  <2>2. ~ Unharmed'
    BY <2>1 DEF Unharmed
  <2> QED BY <2>1, <2>2 DEF SimulateKept
<1>10. CASE Collect
  BY <1>1, <1>10 DEF Collect, Printed
<1>11. CASE PrintResults
  BY <1>1, <1>11 DEF PrintResults, Printed
<1>12. CASE Alarm
  BY <1>1, <1>12 DEF Alarm, Printed
<1>13. CASE Score
  BY <1>1, <1>13 DEF Score
<1>14. ASSUME UNCHANGED <<session, t, i, phase, part, pos, sim, wrong>>,
              phase = "collect" => UNCHANGED csim_results
       PROVE  SimulateKept'
  <2>1. Unharmed' = Unharmed /\ func' = func /\ test' = test
    BY <1>14 DEF Unharmed, func, test
  <2> QED BY <1>14, <2>1 DEF SimulateKept
<1>15. CASE OrphanEnds
  <2>1. CASE orphan = "csim" /\ phase = "collect"
    <3>1. <<"orphan", i>> \in wrong' /\ i' = i /\ phase' = "collect"
      BY <1>15, <2>1 DEF OrphanEnds
    <3>2. ~ Unharmed'
      BY <3>1 DEF Unharmed
    <3> QED BY <3>1, <3>2 DEF SimulateKept
  <2>2. CASE ~ (orphan = "csim" /\ phase = "collect")
    BY <1>14, <1>15, <2>2 DEF OrphanEnds
  <2> QED BY <2>1, <2>2
<1>16. CASE UNCHANGED harness_vars
  BY <1>14, <1>16 DEF harness_vars
<1> QED BY <1>2, <1>3, <1>4, <1>5, <1>6, <1>7, <1>8, <1>9, <1>10, <1>11, <1>12, <1>13, <1>15, <1>16
        DEF TestTransNext
-----------------------------------------------------------------------------
(* Submitted functions among the first n; whether function f is right; its *)
(* misses.                                                                 *)
Submitted(x, n) ==
  {f \in 1 .. n : f \in 1 .. Len(x.func_list) /\ x.func_list[f].description = SUBMIT_DESCRIPTION}

RightFor(x, f, M, N) == Suits(x.func_list[f].func, M, N)

CountedMisses(x, f, M, N) == DirectMisses(ExactTrace(x.func_list[f].func, M, N))

(* Those of the first n that count as correct, given the faults of the     *)
(* test.                                                                   *)
Accepted(x, M, N, w, n) ==
  {f \in Submitted(x, n) : IF <<"kill", f>> \in w THEN x.shell_execs ELSE RightFor(x, f, M, N)}

(* The last function submitted among those seen.                           *)
LastSubmitted(x, seen, id) ==
  IF Submitted(x, seen) = {} THEN id = Nothing
  ELSE id \in Submitted(x, seen) /\ \A f \in Submitted(x, seen) : f <= id

(* The misses are those of the last function accepted among those counted. *)
MissesAre(x, M, N, w, counted, m) ==
  /\ Accepted(x, M, N, w, counted) = {} => m = INT_MAX
  /\ \A f \in Accepted(x, M, N, w, counted) :
       (\A g \in Accepted(x, M, N, w, counted) : g <= f) /\ (\A y \in w : y[2] # f) =>
         m = CountedMisses(x, f, M, N)

(* The shapes and functions that RightShapes is about.                     *)
AllJudged(x, M, N) ==
  \A f \in Submitted(x, Len(x.func_list)) : Judged(x.func_list[f].func, M, N)

(* The results once some functions have been seen, some of them decided    *)
(* upon and the misses of some of these counted.                           *)
ResultsAre(x, M, N, w, seen, decided, counted, id, correct, misses) ==
  /\ LastSubmitted(x, seen, id)
  /\ \A y \in w : y[2] \in 1 .. decided
  /\ AllJudged(x, M, N) =>
       /\ decided > counted /\ decided \in Submitted(x, decided) =>
            decided \in Accepted(x, M, N, w, decided)
       /\ correct = IF Accepted(x, M, N, w, decided) = {} THEN 0 ELSE 1
       /\ MissesAre(x, M, N, w, counted, misses)

(* The results at the start of a test.                                     *)
LEMMA ResultsStart ==
  ASSUME NEW x, NEW M, NEW N
  PROVE  ResultsAre(x, M, N, {}, 0, 0, 0, Nothing, 0, INT_MAX)
<1>1. Submitted(x, 0) = {}
  BY DEF Submitted
<1>2. Accepted(x, M, N, {}, 0) = {}
  BY <1>1 DEF Accepted
<1> QED BY <1>1, <1>2 DEF ResultsAre, LastSubmitted, MissesAre

(* One more function seen.                                                 *)
LEMMA OneMoreSubmitted ==
  ASSUME NEW x, NEW n \in Nat, Len(x.func_list) \in Nat, n + 1 <= Len(x.func_list)
  PROVE  Submitted(x, n + 1) = IF x.func_list[n + 1].description = SUBMIT_DESCRIPTION
                               THEN Submitted(x, n) \cup {n + 1} ELSE Submitted(x, n)
<1>1. \A f : f \in 1 .. n + 1 <=> f \in 1 .. n \/ f = n + 1
  OBVIOUS
<1>2. n + 1 \in 1 .. Len(x.func_list)
  OBVIOUS
<1> QED BY <1>1, <1>2 DEF Submitted

(* A fault of function n + 1 says nothing of those before it.              *)
LEMMA FaultsAreLocal ==
  ASSUME NEW x, NEW M, NEW N, NEW n \in Nat, NEW w, NEW w2, w \subseteq w2,
         \A y \in w2 \ w : y[2] = n + 1
  PROVE  /\ Accepted(x, M, N, w2, n) = Accepted(x, M, N, w, n)
         /\ \A m : MissesAre(x, M, N, w, n, m) => MissesAre(x, M, N, w2, n, m)
<1>1. \A f \in Submitted(x, n) : f \in Nat /\ f # n + 1
  BY DEF Submitted
<1>2. \A f \in Submitted(x, n) : <<"kill", f>> \in w2 <=> <<"kill", f>> \in w
  <2>1. \A f \in Submitted(x, n) : <<"kill", f>>[2] # n + 1
    BY <1>1
  <2> QED BY <2>1
<1>3. Accepted(x, M, N, w2, n) = Accepted(x, M, N, w, n)
  BY <1>2 DEF Accepted
<1> QED BY <1>3 DEF MissesAre

(* One more function accepted, or not.                                     *)
LEMMA OneMoreAccepted ==
  ASSUME NEW x, NEW M, NEW N, NEW n \in Nat, Len(x.func_list) \in Nat, n + 1 <= Len(x.func_list), NEW w
  PROVE  /\ n + 1 \in Accepted(x, M, N, w, n + 1) =>
              Accepted(x, M, N, w, n + 1) = Accepted(x, M, N, w, n) \cup {n + 1}
         /\ n + 1 \notin Accepted(x, M, N, w, n + 1) =>
              Accepted(x, M, N, w, n + 1) = Accepted(x, M, N, w, n)
         /\ \A f \in Accepted(x, M, N, w, n) : f \in Nat /\ f < n + 1
<1>1. \A f : f # n + 1 => (f \in Submitted(x, n + 1) <=> f \in Submitted(x, n))
  BY OneMoreSubmitted
<1>2. n + 1 \notin Submitted(x, n) /\ \A f \in Submitted(x, n) : f \in Nat /\ f < n + 1
  BY DEF Submitted
<1>3. \A f : f # n + 1 => (f \in Accepted(x, M, N, w, n + 1) <=> f \in Accepted(x, M, N, w, n))
  BY <1>1 DEF Accepted
<1>4. n + 1 \notin Accepted(x, M, N, w, n)
  BY <1>2 DEF Accepted
<1>5. \A f \in Accepted(x, M, N, w, n) : f \in Nat /\ f < n + 1
  BY <1>2 DEF Accepted
<1> QED BY <1>3, <1>4, <1>5

(* StartTracegen: one more function is seen.                               *)
LEMMA ResultsSeen ==
  ASSUME NEW x, NEW M, NEW N, NEW w, NEW n \in Nat, Len(x.func_list) \in Nat, n + 1 <= Len(x.func_list),
         NEW id, NEW c, NEW m, ResultsAre(x, M, N, w, n, n, n, id, c, m), NEW id2,
         id2 = IF x.func_list[n + 1].description = SUBMIT_DESCRIPTION THEN n + 1 ELSE id
  PROVE  ResultsAre(x, M, N, w, n + 1, n, n, id2, c, m)
<1>1. LastSubmitted(x, n, id)
  BY DEF ResultsAre
<1>2. LastSubmitted(x, n + 1, id2)
  <2>1. CASE x.func_list[n + 1].description = SUBMIT_DESCRIPTION
    <3>1. Submitted(x, n + 1) = Submitted(x, n) \cup {n + 1} /\ id2 = n + 1
      BY <2>1, OneMoreSubmitted
    <3>2. \A f \in Submitted(x, n) : f <= n + 1
      BY DEF Submitted
    <3> QED BY <3>1, <3>2, SMTT(60) DEF LastSubmitted
  <2>2. CASE x.func_list[n + 1].description # SUBMIT_DESCRIPTION
    <3>1. Submitted(x, n + 1) = Submitted(x, n) /\ id2 = id
      BY <2>2, OneMoreSubmitted
    <3> QED BY <1>1, <3>1 DEF LastSubmitted
  <2> QED BY <2>1, <2>2
<1> QED BY <1>2 DEF ResultsAre

(* The function running is the one results are kept of if it is submitted. *)
LEMMA IsRecorded ==
  ASSUME NEW x, NEW n \in Nat, Len(x.func_list) \in Nat, n + 1 <= Len(x.func_list),
         NEW id, LastSubmitted(x, n + 1, id)
  PROVE  id = n + 1 <=> n + 1 \in Submitted(x, n + 1)
<1>1. n + 1 \notin Submitted(x, n) /\ n + 1 # Nothing /\ \A f \in Submitted(x, n + 1) : f \in Nat /\ f <= n + 1
  BY DEF Submitted, Nothing
<1> QED BY <1>1 DEF LastSubmitted

(* TracegenExits or TracegenKilled with code 0: the function is accepted   *)
(* if it is a submitted one, and its misses are still to be counted.       *)
LEMMA ResultsRight ==
  ASSUME NEW x, NEW M, NEW N, NEW w, NEW n \in Nat, Len(x.func_list) \in Nat, n + 1 <= Len(x.func_list),
         NEW id, NEW c, NEW m, ResultsAre(x, M, N, w, n + 1, n, n, id, c, m), NEW c2,
         c2 = IF id = n + 1 THEN 1 ELSE c,
         NEW w2, w \subseteq w2, \A y \in w2 \ w : y[2] = n + 1,
         AllJudged(x, M, N) /\ n + 1 \in Submitted(x, n + 1) => n + 1 \in Accepted(x, M, N, w2, n + 1)
  PROVE  ResultsAre(x, M, N, w2, n + 1, n + 1, n, id, c2, m)
<1>1. LastSubmitted(x, n + 1, id)
  BY DEF ResultsAre
<1>2. id = n + 1 <=> n + 1 \in Submitted(x, n + 1)
  BY <1>1, IsRecorded
<1>3. \A y \in w2 : y[2] \in 1 .. n + 1
  <2>1. \A y \in w : y[2] \in 1 .. n
    BY DEF ResultsAre
  <2>2. n + 1 \in 1 .. n + 1 /\ \A f \in 1 .. n : f \in 1 .. n + 1
    OBVIOUS
  <2> QED BY <2>1, <2>2
<1>4. ASSUME AllJudged(x, M, N)
      PROVE  c2 = IF Accepted(x, M, N, w2, n + 1) = {} THEN 0 ELSE 1
  <2>1. CASE id = n + 1
    BY <1>2, <1>4, <2>1
  <2>2. CASE id # n + 1
    <3>1. n + 1 \notin Accepted(x, M, N, w2, n + 1)
      BY <1>2, <2>2 DEF Accepted
    <3>2. Accepted(x, M, N, w2, n + 1) = Accepted(x, M, N, w2, n)
      BY <3>1, OneMoreAccepted, SMTT(60)
    <3>3. Accepted(x, M, N, w2, n) = Accepted(x, M, N, w, n)
      BY FaultsAreLocal
    <3> QED BY <1>4, <2>2, <3>2, <3>3 DEF ResultsAre
  <2> QED BY <2>1, <2>2
<1>5. ASSUME AllJudged(x, M, N)
      PROVE  MissesAre(x, M, N, w2, n, m)
  BY <1>5, FaultsAreLocal DEF ResultsAre
<1> QED BY <1>1, <1>3, <1>4, <1>5 DEF ResultsAre

(* TracegenExits or TracegenKilled with another code: there is nothing to  *)
(* count.                                                                  *)
LEMMA ResultsWrong ==
  ASSUME NEW x, NEW M, NEW N, NEW w, NEW n \in Nat, Len(x.func_list) \in Nat, n + 1 <= Len(x.func_list),
         NEW id, NEW c, NEW m, ResultsAre(x, M, N, w, n + 1, n, n, id, c, m),
         NEW w2, w \subseteq w2, \A y \in w2 \ w : y[2] = n + 1,
         AllJudged(x, M, N) => n + 1 \notin Accepted(x, M, N, w2, n + 1)
  PROVE  ResultsAre(x, M, N, w2, n + 1, n + 1, n + 1, id, c, m)
<1>1. LastSubmitted(x, n + 1, id)
  BY DEF ResultsAre
<1>2. \A y \in w2 : y[2] \in 1 .. n + 1
  <2>1. \A y \in w : y[2] \in 1 .. n
    BY DEF ResultsAre
  <2>2. n + 1 \in 1 .. n + 1 /\ \A f \in 1 .. n : f \in 1 .. n + 1
    OBVIOUS
  <2> QED BY <2>1, <2>2
<1>3. ASSUME AllJudged(x, M, N)
      PROVE  /\ c = IF Accepted(x, M, N, w2, n + 1) = {} THEN 0 ELSE 1
             /\ MissesAre(x, M, N, w2, n + 1, m)
  <2>1. Accepted(x, M, N, w2, n + 1) = Accepted(x, M, N, w, n)
    <3>1. Accepted(x, M, N, w2, n + 1) = Accepted(x, M, N, w2, n)
      BY <1>3, OneMoreAccepted
    <3>2. Accepted(x, M, N, w2, n) = Accepted(x, M, N, w, n)
      BY FaultsAreLocal, ZenonT(60)
    <3> QED BY <3>1, <3>2
  <2>2. MissesAre(x, M, N, w2, n, m)
    BY <1>3, FaultsAreLocal DEF ResultsAre
  <2>3. c = IF Accepted(x, M, N, w, n) = {} THEN 0 ELSE 1
    BY <1>3 DEF ResultsAre
  <2>4. Accepted(x, M, N, w2, n) = Accepted(x, M, N, w, n)
    BY FaultsAreLocal
  <2> QED BY <2>1, <2>2, <2>3, <2>4 DEF MissesAre
<1>4. ~ (n + 1 > n + 1)
  OBVIOUS
<1> QED BY <1>1, <1>2, <1>3, <1>4 DEF ResultsAre

(* CsimFails and OrphanEnds: a fault meets a function not yet counted.     *)
LEMMA ResultsMet ==
  ASSUME NEW x, NEW M, NEW N, NEW w, NEW n \in Nat,
         NEW id, NEW c, NEW m, ResultsAre(x, M, N, w, n + 1, n + 1, n, id, c, m),
         NEW kind, kind # "kill", NEW w2, w2 = w \cup {<<kind, n + 1>>}
  PROVE  ResultsAre(x, M, N, w2, n + 1, n + 1, n, id, c, m)
<1>1. \A y \in w2 \ w : y[2] = n + 1
  OBVIOUS
<1>2. \A y \in w2 : y[2] \in 1 .. n + 1
  BY <1>1 DEF ResultsAre
<1>3. \A f : <<"kill", f>> \in w2 <=> <<"kill", f>> \in w
  OBVIOUS
<1>4. Accepted(x, M, N, w2, n + 1) = Accepted(x, M, N, w, n + 1)
  BY <1>3 DEF Accepted
<1>5. AllJudged(x, M, N) => MissesAre(x, M, N, w2, n, m)
  BY <1>1, FaultsAreLocal DEF ResultsAre
<1> QED BY <1>2, <1>4, <1>5 DEF ResultsAre

(* Collect: its misses are counted.                                        *)
LEMMA ResultsCounted ==
  ASSUME NEW x, NEW M, NEW N, NEW w, NEW n \in Nat, Len(x.func_list) \in Nat, n + 1 <= Len(x.func_list),
         NEW id, NEW c, NEW m, ResultsAre(x, M, N, w, n + 1, n + 1, n, id, c, m), NEW r, NEW m2,
         m2 = IF id = n + 1 THEN r ELSE m,
         (\A y \in w : y[2] # n + 1) => r = CountedMisses(x, n + 1, M, N)
  PROVE  ResultsAre(x, M, N, w, n + 1, n + 1, n + 1, id, c, m2)
<1>1. LastSubmitted(x, n + 1, id)
  BY DEF ResultsAre
<1>2. id = n + 1 <=> n + 1 \in Submitted(x, n + 1)
  BY <1>1, IsRecorded
<1>3. ASSUME AllJudged(x, M, N)
      PROVE  MissesAre(x, M, N, w, n + 1, m2)
  <2>1. CASE id = n + 1
    <3>1. n + 1 > n
      OBVIOUS
    <3>2. n + 1 \in Accepted(x, M, N, w, n + 1)
      BY <1>2, <1>3, <2>1, <3>1 DEF ResultsAre
    <3>3. /\ Accepted(x, M, N, w, n + 1) = Accepted(x, M, N, w, n) \cup {n + 1}
          /\ \A f \in Accepted(x, M, N, w, n) : f \in Nat /\ f < n + 1
      BY <3>2, OneMoreAccepted
    <3>4. \A f \in Nat : f < n + 1 => ~ (n + 1 <= f)
      OBVIOUS
    <3>5. \A f \in Accepted(x, M, N, w, n + 1) : n + 1 <= f => f = n + 1
      BY <3>3, <3>4
    <3> QED BY <2>1, <3>2, <3>5 DEF MissesAre
  <2>2. CASE id # n + 1
    <3>1. n + 1 \notin Accepted(x, M, N, w, n + 1)
      BY <1>2, <2>2 DEF Accepted
    <3>2. Accepted(x, M, N, w, n + 1) = Accepted(x, M, N, w, n)
      BY <3>1, OneMoreAccepted, SMTT(60)
    <3>3. MissesAre(x, M, N, w, n, m)
      BY <1>3 DEF ResultsAre
    <3> QED BY <2>2, <3>2, <3>3 DEF MissesAre
  <2> QED BY <2>1, <2>2
<1>4. ~ (n + 1 > n + 1)
  OBVIOUS
<1> QED BY <1>1, <1>3, <1>4 DEF ResultsAre

(* The results, once `seen' functions have been looked at, `decided' of    *)
(* them decided upon and the misses of `counted' of them counted.          *)
ResultsStand(seen, decided, counted) ==
  ResultsAre(session, test.M, test.N, wrong, seen, decided, counted,
             results.funcid, results.correct, results.misses)

(* The inductive invariant of CreditIsEarned.                              *)
ResultsKept ==
  phase \in Running =>
    /\ results = [funcid |-> results.funcid, correct |-> results.correct, misses |-> results.misses]
    /\ phase = "next" => ResultsStand(i - 1, i - 1, i - 1)
    /\ phase = "trace" => ResultsStand(i, i - 1, i - 1)
    /\ phase \in {"filter", "simulate", "collect"} => ResultsStand(i, i, i - 1)

(* Every step keeps ResultsKept.                                           *)
LEMMA ResultsGoOn ==
  Course /\ MemoryKept /\ SimulateKept /\ ResultsKept /\ [TestTransNext]_harness_vars => ResultsKept'
<1> SUFFICES ASSUME Course, MemoryKept, SimulateKept, ResultsKept, [TestTransNext]_harness_vars,
                    phase' \in Running
             PROVE  ResultsKept'
  BY DEF ResultsKept
<1> USE DEF driver_vars, fault_vars, file_vars
<1>0. /\ i \in Nat \ {0} /\ Len(session.func_list) \in Nat
      /\ phase \in Running \ {"next"} => i \in 1 .. Len(session.func_list)
  BY SessionFacts DEF Course
<1>n. PICK n \in Nat : i = n + 1 /\ i - 1 = n
  BY <1>0
<1>1. ASSUME UNCHANGED <<session, t, i, results, wrong>>, phase \in Running, phase' \in Running,
             phase' = phase \/ {phase, phase'} \subseteq {"filter", "simulate", "collect"}
      PROVE  ResultsKept'
  <2>1. test' = test
    BY <1>1 DEF test
  <2>2. /\ ResultsStand(i, i, i - 1)' = ResultsStand(i, i, i - 1)
        /\ ResultsStand(i, i - 1, i - 1)' = ResultsStand(i, i - 1, i - 1)
        /\ ResultsStand(i - 1, i - 1, i - 1)' = ResultsStand(i - 1, i - 1, i - 1)
    BY <1>1, <2>1 DEF ResultsStand
  <2> QED BY <1>1, <2>1, <2>2 DEF ResultsKept
<1>2. CASE StartTest
  <2>1. /\ i' = 1 /\ results' = [funcid |-> Nothing, correct |-> 0, misses |-> INT_MAX]
        /\ phase' = "next" /\ wrong' = {}
    BY <1>2 DEF StartTest, Printed, Running
  <2>2. ResultsAre(session', test'.M, test'.N, {}, 0, 0, 0, Nothing, 0, INT_MAX)
    BY ResultsStart
  <2>3. i' - 1 = 0
    BY <2>1
  <2>4. ResultsStand(i - 1, i - 1, i - 1)'
    BY <2>1, <2>2, <2>3 DEF ResultsStand
  <2> QED BY <2>1, <2>4 DEF ResultsKept
<1>3. CASE StartTracegen
  <2>1. /\ UNCHANGED <<session, t, i, wrong>> /\ phase = "next" /\ phase' = "trace"
        /\ i <= Len(session.func_list)
        /\ results' = IF session.func_list[i].description = SUBMIT_DESCRIPTION
                      THEN [results EXCEPT !.funcid = i] ELSE results
    BY <1>3 DEF StartTracegen, Running
  <2>2. test' = test
    BY <2>1 DEF test
  <2>3. /\ results = [funcid |-> results.funcid, correct |-> results.correct, misses |-> results.misses]
        /\ ResultsStand(n, n, n)
    BY <1>n, <2>1 DEF ResultsKept, Running
  <2>4. /\ results'.funcid = IF session.func_list[i].description = SUBMIT_DESCRIPTION
                             THEN i ELSE results.funcid
        /\ results'.correct = results.correct /\ results'.misses = results.misses
        /\ results' = [funcid |-> results'.funcid, correct |-> results'.correct,
                       misses |-> results'.misses]
    BY <2>1, <2>3
  <2>5. ResultsAre(session, test.M, test.N, wrong, n + 1, n, n, results'.funcid, results.correct,
                   results.misses)
    BY <1>0, <1>n, <2>1, <2>3, <2>4, ResultsSeen DEF ResultsStand
  <2>6. ResultsStand(i, i - 1, i - 1)'
    BY <1>n, <2>1, <2>2, <2>4, <2>5 DEF ResultsStand
  <2> QED BY <2>1, <2>4, <2>6 DEF ResultsKept
<1>4. CASE Tracegen
  BY <1>1, <1>4 DEF Tracegen, Running
<1>5. ASSUME phase = "trace", NEW code, Evaluate(code),
             wrong \subseteq wrong', \A y \in wrong' \ wrong : y[2] = n + 1,
             AllJudged(session, test.M, test.N) /\ n + 1 \in Submitted(session, n + 1) =>
               (code = 0 <=> n + 1 \in Accepted(session, test.M, test.N, wrong', n + 1))
      PROVE  ResultsKept'
  <2>1. UNCHANGED <<session, t>> /\ test' = test /\ n + 1 <= Len(session.func_list)
    BY <1>0, <1>n, <1>5 DEF test, Running, Evaluate
  <2>2. /\ results = [funcid |-> results.funcid, correct |-> results.correct, misses |-> results.misses]
        /\ ResultsStand(n + 1, n, n)
    BY <1>n, <1>5 DEF ResultsKept, Running
  <2>3. CASE code = 0
    <3>1. /\ phase' = "filter" /\ i' = i
          /\ results' = IF results.funcid = i THEN [results EXCEPT !.correct = 1] ELSE results
      BY <1>5, <2>3 DEF Evaluate
    <3>2. /\ results'.correct = IF results.funcid = n + 1 THEN 1 ELSE results.correct
          /\ results'.funcid = results.funcid /\ results'.misses = results.misses
          /\ results' = [funcid |-> results'.funcid, correct |-> results'.correct,
                         misses |-> results'.misses]
      BY <1>n, <2>2, <3>1
    <3>3. ResultsAre(session, test.M, test.N, wrong', n + 1, n + 1, n, results.funcid, results'.correct,
                     results.misses)
      BY <1>0, <1>5, <2>1, <2>2, <2>3, <3>2, ResultsRight DEF ResultsStand
    <3>4. ResultsStand(i, i, i - 1)'
      BY <1>n, <2>1, <3>1, <3>2, <3>3 DEF ResultsStand
    <3> QED BY <3>1, <3>2, <3>4 DEF ResultsKept
  <2>4. CASE code # 0
    <3>1. phase' = "next" /\ i' = i + 1 /\ results' = results
      BY <1>5, <2>4 DEF Evaluate
    <3>2. AllJudged(session, test.M, test.N) =>
            n + 1 \notin Accepted(session, test.M, test.N, wrong', n + 1)
      BY <1>5, <2>4 DEF Accepted
    <3>3. ResultsAre(session, test.M, test.N, wrong', n + 1, n + 1, n + 1, results.funcid,
                     results.correct, results.misses)
      BY <1>0, <1>5, <2>1, <2>2, <3>2, ResultsWrong DEF ResultsStand
    <3>4. i' - 1 = n + 1
      BY <1>n, <3>1
    <3>5. ResultsStand(i - 1, i - 1, i - 1)'
      BY <2>1, <3>1, <3>3, <3>4 DEF ResultsStand
    <3> QED BY <2>2, <3>1, <3>5 DEF ResultsKept
  <2> QED BY <2>3, <2>4
<1>6. CASE TracegenExits
  <2>1. /\ phase = "trace" /\ traced = TraceLength /\ UNCHANGED wrong
        /\ Evaluate(IF validate(memory, test.M, test.N) THEN 0 ELSE i)
    BY <1>6 DEF TracegenExits
  <2>2. PICK code : code = IF validate(memory, test.M, test.N) THEN 0 ELSE i
    OBVIOUS
  <2>3. Evaluate(code)
    BY <2>1, <2>2
  <2>4. code = 0 <=> validate(memory, test.M, test.N)
    BY <1>0, <2>2
  <2>5. <<"kill", n + 1>> \notin wrong
    <3>1. \A y \in wrong : y[2] \in 1 .. n
      BY <1>n, <2>1 DEF ResultsKept, ResultsStand, ResultsAre, Running
    <3>2. <<"kill", n + 1>>[2] \notin 1 .. n
      OBVIOUS
    <3> QED BY <3>1, <3>2
  <2>6. ASSUME AllJudged(session, test.M, test.N), n + 1 \in Submitted(session, n + 1)
        PROVE  code = 0 <=> n + 1 \in Accepted(session, test.M, test.N, wrong', n + 1)
    <3>1. n + 1 \in Submitted(session, Len(session.func_list))
      BY <2>6 DEF Submitted
    <3>2. Judged(func, test.M, test.N)
      BY <1>n, <2>6, <3>1 DEF AllJudged, func
    <3>3. validate(memory, test.M, test.N) <=> RightFor(session, n + 1, test.M, test.N)
      BY <1>n, <2>1, <3>2, MemoryDecides DEF RightShapes, RightFor, func
    <3> QED BY <2>1, <2>4, <2>5, <2>6, <3>3 DEF Accepted
  <2> QED BY <1>5, <2>1, <2>3, <2>6
<1>7. CASE TracegenKilled
  <2>1. /\ phase = "trace" /\ wrong' = wrong \cup {<<"kill", n + 1>>}
        /\ Evaluate(IF session.shell_execs THEN 0 ELSE 139)
    BY <1>n, <1>7 DEF TracegenKilled
  <2>2. PICK code : code = IF session.shell_execs THEN 0 ELSE 139
    OBVIOUS
  <2>3. Evaluate(code) /\ (code = 0 <=> session.shell_execs)
    BY <2>1, <2>2
  <2>4. ASSUME n + 1 \in Submitted(session, n + 1)
        PROVE  code = 0 <=> n + 1 \in Accepted(session, test.M, test.N, wrong', n + 1)
    BY <2>1, <2>3, <2>4 DEF Accepted
  <2> QED BY <1>5, <2>1, <2>3, <2>4
<1>8. CASE Filter
  BY <1>1, <1>8 DEF Filter, Running
<1>9. CASE Simulate
  BY <1>1, <1>9 DEF Simulate, Running
<1>10. ASSUME phase \in {"simulate", "collect"}, phase' = "collect",
              UNCHANGED <<session, t, i, results>>,
              NEW kind, kind # "kill", wrong' = wrong \cup {<<kind, i>>}
       PROVE  ResultsKept'
  <2>1. test' = test
    BY <1>10 DEF test
  <2>2. /\ results = [funcid |-> results.funcid, correct |-> results.correct, misses |-> results.misses]
        /\ ResultsStand(n + 1, n + 1, n)
    BY <1>n, <1>10 DEF ResultsKept, Running
  <2>3. ResultsAre(session, test.M, test.N, wrong', n + 1, n + 1, n, results.funcid, results.correct,
                   results.misses)
    BY <1>n, <1>10, <2>2, ResultsMet DEF ResultsStand
  <2>4. ResultsStand(i, i, i - 1)'
    BY <1>n, <1>10, <2>1, <2>3 DEF ResultsStand
  <2> QED BY <1>10, <2>2, <2>4 DEF ResultsKept
<1>11. CASE CsimFails
  <2>1. /\ phase = "simulate" /\ phase' = "collect" /\ UNCHANGED <<session, t, i, results>>
        /\ wrong' = wrong \cup {<<"csim", i>>}
    BY <1>11 DEF CsimFails
  <2> QED BY <1>10, <2>1
<1>12. CASE Collect
  <2>1. /\ UNCHANGED <<session, t, wrong>> /\ phase = "collect" /\ phase' = "next" /\ i' = i + 1
        /\ results' = IF results.funcid = i THEN [results EXCEPT !.misses = csim_results] ELSE results
    BY <1>12 DEF Collect, Printed, Running
  <2>2. test' = test /\ n + 1 <= Len(session.func_list)
    BY <1>0, <1>n, <2>1 DEF test, Running
  <2>3. /\ results = [funcid |-> results.funcid, correct |-> results.correct, misses |-> results.misses]
        /\ ResultsStand(n + 1, n + 1, n)
    BY <1>n, <2>1 DEF ResultsKept, Running
  <2>4. (\A y \in wrong : y[2] # n + 1) => csim_results = CountedMisses(session, n + 1, test.M, test.N)
    BY <1>n, <2>1 DEF SimulateKept, Unharmed, CountedMisses, func
  <2>5. /\ results'.misses = IF results.funcid = n + 1 THEN csim_results ELSE results.misses
        /\ results'.funcid = results.funcid /\ results'.correct = results.correct
        /\ results' = [funcid |-> results'.funcid, correct |-> results'.correct,
                       misses |-> results'.misses]
    BY <1>n, <2>1, <2>3
  <2>6. ResultsAre(session, test.M, test.N, wrong, n + 1, n + 1, n + 1, results.funcid, results.correct,
                   results'.misses)
    BY <1>0, <2>2, <2>3, <2>4, <2>5, ResultsCounted DEF ResultsStand
  <2>7. i' - 1 = n + 1
    BY <1>n, <2>1
  <2>8. ResultsStand(i - 1, i - 1, i - 1)'
    BY <2>1, <2>2, <2>5, <2>6, <2>7 DEF ResultsStand
  <2> QED BY <2>1, <2>5, <2>8 DEF ResultsKept
<1>13. CASE PrintResults
  BY <1>13 DEF PrintResults, Printed, Running
<1>14. CASE Alarm
  BY <1>14 DEF Alarm, Printed, Running
<1>15. CASE Score
  BY <1>15 DEF Score, Running
<1>16. CASE OrphanEnds
  <2>1. UNCHANGED <<session, t, i, phase, results>>
    BY <1>16 DEF OrphanEnds
  <2>2. CASE orphan = "csim" /\ phase = "collect"
    <3>1. wrong' = wrong \cup {<<"orphan", i>>}
      BY <1>16, <2>2 DEF OrphanEnds
    <3> QED BY <1>10, <2>1, <2>2, <3>1
  <2>3. CASE ~ (orphan = "csim" /\ phase = "collect")
    <3>1. wrong' = wrong
      BY <1>16, <2>3 DEF OrphanEnds
    <3> QED BY <1>1, <2>1, <3>1
  <2> QED BY <2>2, <2>3
<1>17. CASE UNCHANGED harness_vars
  BY <1>1, <1>17 DEF harness_vars
<1> QED BY <1>2, <1>3, <1>4, <1>6, <1>7, <1>8, <1>9, <1>11, <1>12, <1>13, <1>14, <1>15, <1>16, <1>17
        DEF TestTransNext

(* When every function has been seen, the results are those of the         *)
(* submitted ones.                                                         *)
LEMMA ResultsDecide ==
  ASSUME Course, ResultsKept
  PROVE  CreditIsEarned
<1> DEFINE name(f)   == session.func_list[f].func
           submitted == {f \in DOMAIN session.func_list :
                           session.func_list[f].description = SUBMIT_DESCRIPTION}
           accepted  == {f \in submitted : IF <<"kill", f>> \in wrong THEN session.shell_execs
                                           ELSE Suits(name(f), test.M, test.N)}
<1> SUFFICES ASSUME phase = "next", i > Len(session.func_list),
                    \A f \in submitted : Judged(name(f), test.M, test.N)
             PROVE  /\ results.funcid = IF submitted = {} THEN Nothing ELSE Max(submitted)
                    /\ results.correct = IF accepted = {} THEN 0 ELSE 1
                    /\ accepted = {} => results.misses = INT_MAX
                    /\ accepted # {} /\ (\A w \in wrong : w[2] # Max(accepted)) =>
                         results.misses =
                           DirectMisses(ExactTrace(name(Max(accepted)), test.M, test.N))
  BY DEF CreditIsEarned
<1>0. PICK L \in Nat : L = Len(session.func_list) /\ DOMAIN session.func_list = 1 .. L
  BY SessionFacts, LenProperties
<1>1. PICK n \in Nat : i = n + 1 /\ i - 1 = n /\ n >= L
  BY <1>0 DEF Course
<1>2. ResultsStand(n, n, n)
  BY <1>1 DEF ResultsKept, Running
<1>3. Submitted(session, n) = submitted /\ Submitted(session, L) = submitted
  <2>1. \A f \in 1 .. L : f \in 1 .. n
    BY <1>1
  <2> QED BY <1>0, <2>1 DEF Submitted
<1>4. Accepted(session, test.M, test.N, wrong, n) = accepted
  BY <1>3 DEF Accepted, RightFor
<1>5. AllJudged(session, test.M, test.N)
  BY <1>0, <1>3 DEF AllJudged
<1>6. submitted \subseteq 1 .. L /\ accepted \subseteq submitted
  BY <1>0
<1> HIDE DEF submitted, accepted
<1>7. ASSUME NEW S, S \subseteq submitted, S # {}
      PROVE  Max(S) \in S /\ \A f \in S : f <= Max(S)
  <2>1. \A f \in S : f \in 1 .. L
    BY <1>6, <1>7
  <2>2. \A f \in 1 .. L : f \in Nat /\ f <= L
    OBVIOUS
  <2>3. S \in SUBSET Nat /\ \A f \in S : f <= L
    BY <2>1, <2>2
  <2> QED BY <1>7, <2>3, MaxOfNats
<1>8. results.funcid = IF submitted = {} THEN Nothing ELSE Max(submitted)
  <2>1. LastSubmitted(session, n, results.funcid)
    BY <1>2 DEF ResultsStand, ResultsAre
  <2>2. CASE submitted = {}
    BY <1>3, <2>1, <2>2 DEF LastSubmitted
  <2>3. CASE submitted # {}
    <3>1. results.funcid \in submitted /\ \A f \in submitted : f <= results.funcid
      BY <1>3, <2>1, <2>3 DEF LastSubmitted
    <3>2. Max(submitted) \in submitted /\ \A f \in submitted : f <= Max(submitted)
      BY <1>7, <2>3
    <3>3. \A f \in submitted : f \in Nat
      BY <1>6
    <3>4. PICK a, b : a = results.funcid /\ b = Max(submitted)
      OBVIOUS
    <3>5. a \in Nat /\ b \in Nat /\ a <= b /\ b <= a
      BY <3>1, <3>2, <3>3, <3>4
    <3> QED BY <2>3, <3>4, <3>5
  <2> QED BY <2>2, <2>3
<1>9. results.correct = IF accepted = {} THEN 0 ELSE 1
  BY <1>2, <1>4, <1>5 DEF ResultsStand, ResultsAre
<1>10. MissesAre(session, test.M, test.N, wrong, n, results.misses)
  BY <1>2, <1>5 DEF ResultsStand, ResultsAre
<1>11. accepted = {} => results.misses = INT_MAX
  BY <1>4, <1>10 DEF MissesAre
<1>12. ASSUME accepted # {}, \A w \in wrong : w[2] # Max(accepted)
       PROVE  results.misses = DirectMisses(ExactTrace(name(Max(accepted)), test.M, test.N))
  <2>1. Max(accepted) \in accepted /\ \A f \in accepted : f <= Max(accepted)
    BY <1>6, <1>7, <1>12
  <2> QED BY <1>4, <1>10, <1>12, <2>1 DEF MissesAre, CountedMisses
<1> QED BY <1>8, <1>9, <1>11, <1>12

(* Credit is earned: the results of a test are those of the functions      *)
(* submitted on its own shape, whatever the other functions and tests met. *)
THEOREM CreditIsThatOfTheSubmission == TestTransSpec => []CreditIsEarned
<1>1. TestTransInit => MemoryKept /\ FilterKept /\ SimulateKept /\ ResultsKept
  BY DEF TestTransInit, MemoryKept, FilterKept, SimulateKept, ResultsKept, Running
<1>2. Course /\ ResultsKept => CreditIsEarned
  BY ResultsDecide
<1> QED BY CourseBegins, CourseGoesOn, MemoryStaysKept, FilterGoesOn, SimulateGoesOn, ResultsGoOn,
           <1>1, <1>2, PTL DEF TestTransSpec
=============================================================================
