------------------------- MODULE GuestServicesProofs -------------------------
(***************************************************************************)
(* Proofs about what else serves a guest in module GuestDevices, beside    *)
(* the devices of GuestDevicesProofs: the console of module Console, for   *)
(* any size of the screen, any scrollback and any number of processes; the *)
(* TAP driver of module TapDriver, for any number of senders, any size of  *)
(* its queues, and any number of reads, packets and openings; and the      *)
(* debug log of module DebugLog, for any finite number of writers and of   *)
(* sections, any pointers they write through, and any sizes.               *)
(***************************************************************************)
EXTENDS Console, TapDriver, DebugLog, FiniteSetTheorems, SequenceTheorems, NaturalSets, TLAPS

-----------------------------------------------------------------------------
(* The console.                                                            *)

(* Arithmetic with a product, which the provers need in small pieces. *)
LEMMA ProductAdds ==
  ASSUME NEW x \in Nat, NEW a \in Int, NEW b \in Int
  PROVE  x * (a + b) = x * a + x * b /\ x * (a - b) = x * a - x * b /\ a * x = x * a
         /\ x * (a + 1) = x * a + x /\ x * a \in Int
BY Z3

LEMMA ProductGrows ==
  ASSUME NEW x \in Nat, NEW a \in Int, NEW b \in Int, a <= b
  PROVE  x * a <= x * b
<1>1. b - a \in Nat /\ x * (b - a) \in Int
  OBVIOUS
<1>2. \A c \in Nat : x * c \in Nat
  BY Z3
<1>3. x * (b - a) >= 0
  BY <1>1, <1>2
<1>4. x * (b - a) = x * b - x * a /\ x * a \in Int /\ x * b \in Int
  BY ProductAdds
<1> QED
  BY <1>3, <1>4

ConsoleOf(x, y, h, C, V) == [x : {x}, y : {y}, max_y : {h}, buffer : [C -> V], cursor : {0, 1}]
Cells == 0..(ConX * ConMaxY - 1)
ConsoleRecord == ConsoleOf(ConX, ConY, ConMaxY, Cells, ConCell \union {0})

LEMMA ConsoleSizes ==
  /\ ConX \in Nat /\ ConX > 0 /\ ConY \in Nat /\ ConY > 0 /\ ConMaxY \in Nat /\ ConMaxY >= ConY
  /\ ConX * ConY \in Nat /\ ConX * ConMaxY \in Nat /\ ConX * (ConMaxY - ConY) \in Nat
  /\ (ConMaxY - ConY) * ConX = ConX * (ConMaxY - ConY)
  /\ ConX * (ConMaxY - ConY) = ConX * ConMaxY - ConX * ConY
<1>1. /\ ConX \in Nat /\ ConX > 0 /\ ConY \in Nat /\ ConY > 0 /\ ConMaxY \in Nat /\ ConMaxY >= ConY
  BY ConsoleAssumption
<1>2. \A c \in Nat : ConX * c \in Nat
  BY <1>1, Z3
<1>3. ConMaxY - ConY \in Nat
  BY <1>1
<1>4. (ConMaxY - ConY) * ConX = ConX * (ConMaxY - ConY)
  BY <1>1, <1>3, ProductAdds
<1>5. ConX * (ConMaxY - ConY) = ConX * ConMaxY - ConX * ConY
  BY <1>1, ProductAdds
<1> QED
  BY <1>1, <1>2, <1>3, <1>4, <1>5

LEMMA MemmoveIs ==
  ASSUME NEW x, NEW y, NEW h, NEW C \in SUBSET Int, NEW V, NEW con \in ConsoleOf(x, y, h, C, V),
         NEW dest \in Int, NEW from \in Int, NEW count \in Int,
         \A i \in C : dest <= i /\ i < dest + count => from + i - dest \in C
  PROVE  /\ memmove(con, dest, from, count) \in ConsoleOf(x, y, h, C, V)
         /\ memmove(con, dest, from, count).cursor = con.cursor
         /\ \A i \in C : memmove(con, dest, from, count).buffer[i] =
              IF dest <= i /\ i < dest + count THEN con.buffer[from + i - dest] ELSE con.buffer[i]
<1> DEFINE b == [i \in C |-> IF dest <= i /\ i < dest + count THEN con.buffer[from + i - dest] ELSE con.buffer[i]]
<1>1. con.buffer \in [C -> V] /\ DOMAIN con.buffer = C
  BY DEF ConsoleOf
<1>2. b \in [C -> V]
  BY <1>1
<1>3. memmove(con, dest, from, count) = [con EXCEPT !.buffer = b]
  BY <1>1 DEF memmove
<1>4. \A i \in C : b[i] = IF dest <= i /\ i < dest + count THEN con.buffer[from + i - dest] ELSE con.buffer[i]
  OBVIOUS
<1> HIDE DEF b
<1>5. [con EXCEPT !.buffer = b] \in ConsoleOf(x, y, h, C, V) /\ [con EXCEPT !.buffer = b].cursor = con.cursor
      /\ [con EXCEPT !.buffer = b].buffer = b
  BY <1>2 DEF ConsoleOf
<1> QED
  BY <1>3, <1>4, <1>5

LEMMA FilledIs ==
  ASSUME NEW x, NEW y, NEW h, NEW C \in SUBSET Int, NEW V, NEW con \in ConsoleOf(x, y, h, C, V),
         NEW cells, NEW cell \in V
  PROVE  /\ Filled(con, cells, cell) \in ConsoleOf(x, y, h, C, V)
         /\ Filled(con, cells, cell).cursor = con.cursor
         /\ \A i \in C : Filled(con, cells, cell).buffer[i] = IF i \in cells THEN cell ELSE con.buffer[i]
<1> DEFINE b == [i \in C |-> IF i \in cells THEN cell ELSE con.buffer[i]]
<1>1. con.buffer \in [C -> V] /\ DOMAIN con.buffer = C
  BY DEF ConsoleOf
<1>2. b \in [C -> V]
  BY <1>1
<1>3. Filled(con, cells, cell) = [con EXCEPT !.buffer = b]
  BY <1>1 DEF Filled
<1>4. \A i \in C : b[i] = IF i \in cells THEN cell ELSE con.buffer[i]
  OBVIOUS
<1> HIDE DEF b
<1>5. [con EXCEPT !.buffer = b] \in ConsoleOf(x, y, h, C, V) /\ [con EXCEPT !.buffer = b].cursor = con.cursor
      /\ [con EXCEPT !.buffer = b].buffer = b
  BY <1>2 DEF ConsoleOf
<1> QED
  BY <1>3, <1>4, <1>5

(* Two pictures that show the same in the cells S. *)
Alike(S, p, q) == \A i \in S : p.buffer[i] = q.buffer[i]
AllSent == {i \in Cells : i >= FirstSent}

LEMMA MemmoveAlike ==
  ASSUME NEW x, NEW y, NEW h, NEW C \in SUBSET Int, NEW V,
         NEW p \in ConsoleOf(x, y, h, C, V), NEW q \in ConsoleOf(x, y, h, C, V),
         NEW S \in SUBSET C, Alike(S, p, q),
         NEW dest \in Int, NEW from \in Int, NEW count \in Int,
         \A i \in C : dest <= i /\ i < dest + count => from + i - dest \in C,
         \A i \in S : dest <= i /\ i < dest + count => from + i - dest \in S
  PROVE  Alike(S, memmove(p, dest, from, count), memmove(q, dest, from, count))
<1>1. ASSUME NEW i \in S PROVE memmove(p, dest, from, count).buffer[i] = memmove(q, dest, from, count).buffer[i]
  <2>1. i \in C
    OBVIOUS
  <2>2. CASE dest <= i /\ i < dest + count
    <3>1. from + i - dest \in S
      BY <2>2
    <3>2. p.buffer[from + i - dest] = q.buffer[from + i - dest]
      BY <3>1 DEF Alike
    <3> QED
      BY <2>1, <2>2, <3>2, MemmoveIs
  <2>3. CASE ~(dest <= i /\ i < dest + count)
    <3>1. p.buffer[i] = q.buffer[i]
      BY DEF Alike
    <3> QED
      BY <2>1, <2>3, <3>1, MemmoveIs
  <2> QED
    BY <2>2, <2>3
<1> QED
  BY <1>1 DEF Alike

LEMMA FilledAlike ==
  ASSUME NEW x, NEW y, NEW h, NEW C \in SUBSET Int, NEW V,
         NEW p \in ConsoleOf(x, y, h, C, V), NEW q \in ConsoleOf(x, y, h, C, V),
         NEW S \in SUBSET C, Alike(S, p, q), NEW cells, NEW cell \in V
  PROVE  Alike(S, Filled(p, cells, cell), Filled(q, cells, cell))
<1>1. ASSUME NEW i \in S PROVE Filled(p, cells, cell).buffer[i] = Filled(q, cells, cell).buffer[i]
  <2>1. i \in C /\ p.buffer[i] = q.buffer[i]
    BY DEF Alike
  <2> QED
    BY <2>1, FilledIs
<1> QED
  BY <1>1 DEF Alike

LEMMA AllSentIs ==
  /\ FirstSent \in Nat /\ FirstSent <= ConX * (ConMaxY - ConY) /\ FirstSent <= ConX * ConY
  /\ FirstSent = ConX * (ConMaxY - ConY) \/ FirstSent = ConX * ConY
<1>1. CASE ConY < ConMaxY - ConY
  <2>1. FirstSent = ConX * ConY
    BY <1>1 DEF FirstSent
  <2>2. ConX * ConY <= ConX * (ConMaxY - ConY)
    BY <1>1, ConsoleSizes, ProductGrows
  <2> QED
    BY <2>1, <2>2, ConsoleSizes
<1>2. CASE ~(ConY < ConMaxY - ConY)
  <2>1. FirstSent = ConX * (ConMaxY - ConY)
    BY <1>2 DEF FirstSent
  <2>2. ConX * (ConMaxY - ConY) <= ConX * ConY
    BY <1>2, ConsoleSizes, ProductGrows
  <2> QED
    BY <2>1, <2>2, ConsoleSizes
<1> QED
  BY <1>1, <1>2

(* A region of the screen, in cells. *)
LEMMA Regions ==
  ASSUME NEW t \in 0..ConY, NEW b \in 0..ConY, NEW n \in Nat, n <= b - t
  PROVE  /\ ConX * t \in Nat /\ ConX * b \in Nat /\ ConX * n \in Nat
         /\ ConX * t + ConX * n <= ConX * b /\ ConX * b <= ConX * ConY
<1>0. t \in Nat /\ b \in Nat /\ t <= ConY /\ b <= ConY /\ 0 <= t /\ 0 <= b /\ 0 <= n /\ ConX * 0 = 0
  BY ConsoleSizes
<1>1. ConX * t \in Int /\ ConX * b \in Int /\ ConX * n \in Int /\ ConX * (b - t) \in Int
  BY <1>0, ConsoleSizes
<1>2. ConX * 0 <= ConX * t /\ ConX * 0 <= ConX * b /\ ConX * 0 <= ConX * n
  BY <1>0, ConsoleSizes, ProductGrows
<1>3. ConX * n <= ConX * (b - t)
  BY <1>0, ConsoleSizes, ProductGrows
<1>4. ConX * (b - t) = ConX * b - ConX * t
  BY <1>0, ConsoleSizes, ProductAdds
<1>5. ConX * b <= ConX * ConY
  BY <1>0, ConsoleSizes, ProductGrows
<1> QED
  BY <1>0, <1>1, <1>2, <1>3, <1>4, <1>5

LEMMA ScrollsAlike ==
  ASSUME NEW p \in ConsoleRecord, NEW q \in ConsoleRecord, Alike(AllSent, p, q),
         NEW m \in Scrolls(p, {0})
  PROVE  /\ scroll_up(p, m) \in ConsoleRecord /\ scroll_down(p, m) \in ConsoleRecord
         /\ scroll_up(p, m).cursor = p.cursor /\ scroll_down(p, m).cursor = p.cursor
         /\ Alike(AllSent, scroll_up(p, m), scroll_up(q, m))
         /\ Alike(AllSent, scroll_down(p, m), scroll_down(q, m))
<1> DEFINE Top == ConX * (ConMaxY - ConY)
           N   == ConX * ConMaxY
           s   == ConX * m.lines
           to  == Top + ConX * m.b
           at  == Top + ConX * m.t
           V   == ConCell \union {0}
<1>1. /\ p.x = ConX /\ p.y = ConY /\ p.max_y = ConMaxY /\ q.x = ConX /\ q.y = ConY /\ q.max_y = ConMaxY
      /\ screen(p) = Top /\ screen(q) = Top
  BY ConsoleSizes DEF ConsoleRecord, ConsoleOf, screen
<1>2. /\ m.t \in 0..ConY /\ m.b \in 0..ConY /\ m.lines \in Nat /\ m.lines <= m.b - m.t /\ m.cell = 0
  BY <1>1, ConsoleSizes DEF Scrolls
<1>3. /\ at \in Nat /\ to \in Nat /\ s \in Nat /\ at + s <= to /\ to <= N /\ Top \in Nat /\ Top <= at
      /\ N \in Nat
  BY <1>2, Regions, ConsoleSizes
<1>4. AllSent \in SUBSET Cells /\ Cells \in SUBSET Int /\ \A i : i \in Cells <=> i \in Nat /\ i < N
  BY <1>3 DEF AllSent, Cells
<1>5. \A i : i \in AllSent <=> i \in Cells /\ i >= FirstSent
  BY DEF AllSent
<1>6. FirstSent \in Nat /\ FirstSent <= Top
  BY AllSentIs
<1>7. ASSUME NEW dest \in Nat, NEW from \in Nat, NEW count \in Int,
             from + count <= N, from >= dest \/ from >= Top,
             NEW cells
      PROVE  /\ Filled(memmove(p, dest, from, count), cells, 0) \in ConsoleRecord
             /\ Filled(memmove(p, dest, from, count), cells, 0).cursor = p.cursor
             /\ Alike(AllSent, Filled(memmove(p, dest, from, count), cells, 0),
                      Filled(memmove(q, dest, from, count), cells, 0))
  <2>1. \A i \in Cells : dest <= i /\ i < dest + count => from + i - dest \in Cells
    BY <1>3, <1>4, <1>7
  <2>2. \A i \in AllSent : dest <= i /\ i < dest + count => from + i - dest \in AllSent
    BY <1>3, <1>4, <1>5, <1>6, <1>7, <2>1
  <2> HIDE DEF V
  <2>3. p \in ConsoleOf(ConX, ConY, ConMaxY, Cells, V) /\ q \in ConsoleOf(ConX, ConY, ConMaxY, Cells, V)
    BY DEF ConsoleRecord, V
  <2>4. /\ memmove(p, dest, from, count) \in ConsoleOf(ConX, ConY, ConMaxY, Cells, V)
        /\ memmove(q, dest, from, count) \in ConsoleOf(ConX, ConY, ConMaxY, Cells, V)
        /\ memmove(p, dest, from, count).cursor = p.cursor
    BY <1>4, <1>7, <2>1, <2>3, MemmoveIs
  <2>5. Alike(AllSent, memmove(p, dest, from, count), memmove(q, dest, from, count))
    BY <1>4, <1>7, <2>1, <2>2, <2>3, MemmoveAlike
  <2>6. 0 \in V
    BY DEF V
  <2>7. Filled(memmove(p, dest, from, count), cells, 0) \in ConsoleOf(ConX, ConY, ConMaxY, Cells, V)
        /\ Filled(memmove(p, dest, from, count), cells, 0).cursor = p.cursor
    BY <1>4, <2>4, <2>6, FilledIs
  <2>8. Alike(AllSent, Filled(memmove(p, dest, from, count), cells, 0),
                      Filled(memmove(q, dest, from, count), cells, 0))
    BY <1>4, <2>4, <2>5, <2>6, FilledAlike
  <2> QED
    BY <2>7, <2>8 DEF ConsoleRecord, V
<1>8. /\ scroll_up(p, m) \in ConsoleRecord /\ scroll_up(p, m).cursor = p.cursor
      /\ Alike(AllSent, scroll_up(p, m), scroll_up(q, m))
  <2> DEFINE from == IF WholeScreen(p, m) THEN 0 ELSE at
  <2>1. from \in Nat /\ from <= at
    BY <1>3
  <2>2. scroll_up(p, m) = Filled(memmove(p, from, from + s, to - from - s), (to - s)..(to - 1), 0)
    BY <1>1, <1>2 DEF scroll_up
  <2>3. scroll_up(q, m) = Filled(memmove(q, from, from + s, to - from - s), (to - s)..(to - 1), 0)
    BY <1>1, <1>2 DEF scroll_up, WholeScreen
  <2> HIDE DEF from, at, to, s, N, Top
  <2>4. /\ from + s \in Nat /\ to - from - s \in Int /\ (from + s) + (to - from - s) <= N
        /\ from + s >= from
    BY <1>3, <2>1
  <2> QED
    BY <1>7, <2>1, <2>2, <2>3, <2>4
<1>9. /\ scroll_down(p, m) \in ConsoleRecord /\ scroll_down(p, m).cursor = p.cursor
      /\ Alike(AllSent, scroll_down(p, m), scroll_down(q, m))
  <2>2. scroll_down(p, m) = Filled(memmove(p, at + s, at, to - at - s), at..(at + s - 1), 0)
    BY <1>1, <1>2 DEF scroll_down
  <2>3. scroll_down(q, m) = Filled(memmove(q, at + s, at, to - at - s), at..(at + s - 1), 0)
    BY <1>1, <1>2 DEF scroll_down
  <2> HIDE DEF at, to, s, N, Top
  <2>4. /\ at + s \in Nat /\ to - at - s \in Int /\ at + (to - at - s) <= N /\ at >= Top /\ at \in Nat
    BY <1>3
  <2> QED
    BY <1>7, <2>2, <2>3, <2>4
<1> QED
  BY <1>8, <1>9

(* What a cell shows after putcs, which cuts the characters off at the end of the row. *)
PutCell(con, base, m, i) ==
  IF base + ConX * m.y + m.x <= i
       /\ i < base + ConX * m.y + m.x + (IF Len(m.data) > ConX - m.x THEN ConX - m.x ELSE Len(m.data))
  THEN m.data[i - (base + ConX * m.y + m.x) + 1] ELSE con.buffer[i]

LEMMA PutsIs ==
  ASSUME NEW con \in ConsoleRecord, NEW base \in Int, NEW rows \in Int, NEW m,
         m.y \in Nat, m.x \in Nat, m.data \in Seq(ConCell \union {0})
  PROVE  /\ putcs(con, base, rows, m) \in ConsoleRecord
         /\ putcs(con, base, rows, m).cursor = con.cursor
         /\ m.y >= rows \/ m.x >= ConX => putcs(con, base, rows, m) = con
         /\ ~(m.y >= rows \/ m.x >= ConX) =>
              \A i \in Cells : putcs(con, base, rows, m).buffer[i] = PutCell(con, base, m, i)
<1> DEFINE V == ConCell \union {0}
           count == IF Len(m.data) > ConX - m.x THEN ConX - m.x ELSE Len(m.data)
           dest == base + ConX * m.y + m.x
           b == [i \in Cells |-> IF dest <= i /\ i < dest + count THEN m.data[i - dest + 1] ELSE con.buffer[i]]
<1>1. con.x = ConX /\ con.buffer \in [Cells -> V] /\ DOMAIN con.buffer = Cells
  BY DEF ConsoleRecord, ConsoleOf
<1>2. ConX * m.y \in Int /\ dest \in Int /\ Len(m.data) \in Nat /\ ConX \in Nat
  BY ConsoleSizes
<1>3. count \in Int /\ count <= Len(m.data)
  BY <1>2
<1>4. CASE m.y >= rows \/ m.x >= ConX
  BY <1>1, <1>4 DEF putcs
<1>5. CASE ~(m.y >= rows \/ m.x >= ConX)
  <2>1. putcs(con, base, rows, m) = [con EXCEPT !.buffer = b]
    BY <1>1, <1>5 DEF putcs
  <2>2. b \in [Cells -> V]
    <3> HIDE DEF count, dest, V
    <3>1. ASSUME NEW i \in Cells, dest <= i, i < dest + count PROVE m.data[i - dest + 1] \in V
      <4>1. i \in Int
        BY DEF Cells
      <4>2. i - dest + 1 \in 1..Len(m.data)
        BY <1>2, <1>3, <3>1, <4>1
      <4> QED
        BY <4>2 DEF V
    <3> QED
      BY <1>1, <3>1
  <2>3. \A i \in Cells : b[i] = PutCell(con, base, m, i)
    BY DEF PutCell
  <2> HIDE DEF b
  <2>4. [con EXCEPT !.buffer = b] \in ConsoleRecord /\ [con EXCEPT !.buffer = b].cursor = con.cursor
        /\ [con EXCEPT !.buffer = b].buffer = b
    BY <2>2 DEF ConsoleRecord, ConsoleOf
  <2> QED
    BY <1>5, <2>1, <2>3, <2>4
<1> QED
  BY <1>4, <1>5

LEMMA PutsAlike ==
  ASSUME NEW p \in ConsoleRecord, NEW q \in ConsoleRecord, NEW S \in SUBSET Cells, Alike(S, p, q),
         NEW base \in Int, NEW rows \in Int, NEW m,
         m.y \in Nat, m.x \in Nat, m.data \in Seq(ConCell \union {0})
  PROVE  Alike(S, putcs(p, base, rows, m), putcs(q, base, rows, m))
<1>1. CASE m.y >= rows \/ m.x >= ConX
  BY <1>1, PutsIs
<1>2. CASE ~(m.y >= rows \/ m.x >= ConX)
  <2>1. ASSUME NEW i \in S PROVE putcs(p, base, rows, m).buffer[i] = putcs(q, base, rows, m).buffer[i]
    <3>1. i \in Cells /\ p.buffer[i] = q.buffer[i]
      BY DEF Alike
    <3>2. PutCell(p, base, m, i) = PutCell(q, base, m, i)
      BY <3>1 DEF PutCell
    <3> QED
      BY <1>2, <3>1, <3>2, PutsIs
  <2> QED
    BY <2>1 DEF Alike
<1> QED
  BY <1>1, <1>2

(* Row by row: what bmove has done after k rows. *)
MovedRow(m, n, k) == IF m.y < m.t THEN k - 1 ELSE n - k
MoveRow(con, m, n, f, k) ==
  IF k = 0 THEN con
  ELSE memmove(f[k - 1], screen(con) + con.x * (m.y + MovedRow(m, n, k)) + m.x,
               screen(con) + con.x * (m.t + MovedRow(m, n, k)) + m.l, m.r - m.l + 1)
Moved(con, m, n) == CHOOSE f : f = [k \in 0..n |-> MoveRow(con, m, n, f, k)]

LEMMA BmoveIs ==
  ASSUME NEW con, NEW m
  PROVE  bmove(con, m) = Moved(con, m, m.b - m.t + 1)[m.b - m.t + 1]
BY DEF bmove, Moved, MoveRow, MovedRow

LEMMA MovedExists ==
  ASSUME NEW con, NEW m, NEW n \in Nat
  PROVE  Moved(con, m, n) = [k \in 0..n |-> MoveRow(con, m, n, Moved(con, m, n), k)]
<1> DEFINE Upto(k) == \E f : f = [j \in 0..k |-> MoveRow(con, m, n, f, j)]
           T == {k \in Nat : Upto(k)}
<1>1. Upto(0)
  <2> DEFINE g == [j \in 0..0 |-> con]
  <2>1. \A f : [j \in 0..0 |-> MoveRow(con, m, n, f, j)] = g
    BY DEF MoveRow
  <2> QED
    BY <2>1
<1>2. ASSUME NEW k \in Nat, Upto(k) PROVE Upto(k + 1)
  <2>1. PICK f : f = [j \in 0..k |-> MoveRow(con, m, n, f, j)]
    BY <1>2
  <2> DEFINE g == [j \in 0..(k + 1) |-> IF j <= k THEN f[j] ELSE MoveRow(con, m, n, f, j)]
  <2>2. ASSUME NEW j \in 0..(k + 1) PROVE g[j] = MoveRow(con, m, n, g, j)
    <3>1. CASE j = 0
      <4>1. 0 \in 0..k /\ 0 \in 0..(k + 1)
        OBVIOUS
      <4>2. f[0] = con
        BY <2>1, <4>1 DEF MoveRow
      <4> QED
        BY <3>1, <4>1, <4>2 DEF MoveRow
    <3>2. CASE j # 0
      <4>1. j - 1 \in 0..(k + 1) /\ j - 1 \in 0..k /\ j - 1 <= k
        BY <3>2
      <4>2. g[j - 1] = f[j - 1]
        BY <4>1
      <4>3. MoveRow(con, m, n, g, j) = MoveRow(con, m, n, f, j)
        <5> HIDE DEF g
        <5> QED
          BY <3>2, <4>2 DEF MoveRow
      <4>4. CASE j <= k
        <5>1. j \in 0..k
          BY <4>4
        <5>2. f[j] = MoveRow(con, m, n, f, j)
          BY <2>1, <5>1
        <5> QED
          BY <4>3, <4>4, <5>2
      <4>5. CASE ~(j <= k)
        BY <4>3, <4>5
      <4> QED
        BY <4>4, <4>5
    <3> QED
      BY <3>1, <3>2
  <2>3. g = [j \in 0..(k + 1) |-> g[j]]
    OBVIOUS
  <2> HIDE DEF g
  <2>4. g = [j \in 0..(k + 1) |-> MoveRow(con, m, n, g, j)]
    BY <2>2, <2>3
  <2> QED
    BY <2>4
<1> HIDE DEF Upto
<1>3. 0 \in T /\ \A k \in Nat : k \in T => k + 1 \in T
  <2>1. \A k \in Nat : k + 1 \in Nat
    OBVIOUS
  <2> QED
    BY <1>1, <1>2, <2>1, Zenon
<1>4. Nat \subseteq T
  <2> HIDE DEF T
  <2> QED
    BY <1>3, ByInduction
<1>5. Upto(n)
  BY <1>4
<1> QED
  BY <1>5 DEF Upto, Moved

LEMMA BmoveAlike ==
  ASSUME NEW p \in ConsoleRecord, NEW q \in ConsoleRecord, Alike(AllSent, p, q), NEW m \in Moves(p)
  PROVE  /\ bmove(p, m) \in ConsoleRecord /\ bmove(p, m).cursor = p.cursor
         /\ Alike(AllSent, bmove(p, m), bmove(q, m))
<1> DEFINE Top == ConX * (ConMaxY - ConY)
           N   == ConX * ConMaxY
           n   == m.b - m.t + 1
           V   == ConCell \union {0}
           f   == Moved(p, m, n)
           g   == Moved(q, m, n)
           Done(k) == k <= n => /\ f[k] \in ConsoleRecord /\ g[k] \in ConsoleRecord
                                /\ f[k].cursor = p.cursor /\ Alike(AllSent, f[k], g[k])
           T == {k \in Nat : Done(k)}
<1>1. /\ p.x = ConX /\ p.y = ConY /\ p.max_y = ConMaxY /\ q.x = ConX /\ q.y = ConY /\ q.max_y = ConMaxY
      /\ screen(p) = Top /\ screen(q) = Top
  BY ConsoleSizes DEF ConsoleRecord, ConsoleOf, screen
<1>2. /\ m.y \in Nat /\ m.x \in Nat /\ m.t \in Nat /\ m.l \in Nat /\ m.b \in Nat /\ m.r \in Nat
      /\ m.b < ConY /\ m.r < ConX /\ m.t <= m.b /\ m.l <= m.r
      /\ m.y + m.b - m.t < ConY /\ m.x + m.r - m.l < ConX
  BY <1>1, ConsoleSizes DEF Moves
<1>3. n \in Nat /\ n > 0 /\ Top \in Nat /\ N \in Nat /\ Top + ConX * ConY = N /\ ConX * ConY \in Nat /\ ConY \in Nat
  BY <1>2, ConsoleSizes
<1>4. AllSent \in SUBSET Cells /\ Cells \in SUBSET Int /\ \A i : i \in Cells <=> i \in Nat /\ i < N
  BY <1>3 DEF AllSent, Cells
<1>5. \A i : i \in AllSent <=> i \in Cells /\ i >= FirstSent
  BY DEF AllSent
<1>6. FirstSent \in Nat /\ FirstSent <= Top
  BY AllSentIs
<1>7. /\ f = [k \in 0..n |-> MoveRow(p, m, n, f, k)]
      /\ g = [k \in 0..n |-> MoveRow(q, m, n, g, k)]
  BY <1>3, MovedExists
<1>8. /\ \A k \in 0..n : f[k] = MoveRow(p, m, n, f, k)
      /\ \A k \in 0..n : g[k] = MoveRow(q, m, n, g, k)
  <2> HIDE DEF f, g, n
  <2> QED
    BY <1>7
<1>9. bmove(p, m) = f[n] /\ bmove(q, m) = g[n]
  BY BmoveIs
<1> HIDE DEF f, g
<1>10. Done(0)
  <2>1. 0 \in 0..n
    BY <1>3
  <2>2. f[0] = p /\ g[0] = q
    BY <1>8, <2>1 DEF MoveRow
  <2> QED
    BY <2>2
<1>11. ASSUME NEW k \in Nat, Done(k) PROVE Done(k + 1)
  <2> SUFFICES ASSUME k + 1 <= n
               PROVE  /\ f[k + 1] \in ConsoleRecord /\ g[k + 1] \in ConsoleRecord
                      /\ f[k + 1].cursor = p.cursor /\ Alike(AllSent, f[k + 1], g[k + 1])
    OBVIOUS
  <2> DEFINE row  == MovedRow(m, n, k + 1)
             dest == Top + ConX * (m.y + row) + m.x
             from == Top + ConX * (m.t + row) + m.l
             count == m.r - m.l + 1
  <2>1. /\ f[k] \in ConsoleRecord /\ g[k] \in ConsoleRecord
        /\ f[k].cursor = p.cursor /\ Alike(AllSent, f[k], g[k])
    BY <1>3, <1>11
  <2>2. row \in Nat /\ row < n
    BY <1>2, <1>3 DEF MovedRow
  <2>3. f[k + 1] = memmove(f[k], dest, from, count) /\ g[k + 1] = memmove(g[k], dest, from, count)
    <3>1. k + 1 \in 0..n /\ k + 1 # 0 /\ (k + 1) - 1 = k
      BY <1>3
    <3> QED
      BY <1>1, <1>8, <3>1 DEF MoveRow
  <2>4. /\ ConX * (m.y + row) \in Nat /\ ConX * (m.t + row) \in Nat
        /\ ConX * (m.t + row) + ConX <= ConX * ConY
    <3>1. /\ m.y + row \in 0..ConY /\ m.t + row \in 0..ConY /\ (m.t + row) + 1 \in 0..ConY
      BY <1>2, <1>3, <2>2
    <3> HIDE DEF row
    <3>2. ConX * (m.y + row) \in Nat /\ ConX * (m.t + row) \in Nat
      BY <3>1, Regions, 0 \in Nat, 0 <= (m.y + row) - (m.y + row), 0 <= (m.t + row) - (m.t + row)
    <3>3. ConX * ((m.t + row) + 1) <= ConX * ConY
      BY <3>1, ConsoleSizes, ProductGrows
    <3>4. ConX * ((m.t + row) + 1) = ConX * (m.t + row) + ConX
      BY <3>1, ConsoleSizes, ProductAdds
    <3> QED
      BY <3>2, <3>3, <3>4
  <2>5. /\ dest \in Nat /\ from \in Nat /\ count \in Int /\ from >= Top /\ from + count <= N
    <3> HIDE DEF row, Top, N
    <3> QED
      BY <1>2, <1>3, <2>4, ConsoleSizes
  <2> HIDE DEF dest, from, count, Top, N, row, V
  <2>6. \A i \in Cells : dest <= i /\ i < dest + count => from + i - dest \in Cells
    BY <1>3, <1>4, <2>5
  <2>7. \A i \in AllSent : dest <= i /\ i < dest + count => from + i - dest \in AllSent
    BY <1>3, <1>4, <1>5, <1>6, <2>5, <2>6
  <2>8. f[k] \in ConsoleOf(ConX, ConY, ConMaxY, Cells, V) /\ g[k] \in ConsoleOf(ConX, ConY, ConMaxY, Cells, V)
    BY <2>1 DEF ConsoleRecord, V
  <2>9. /\ memmove(f[k], dest, from, count) \in ConsoleOf(ConX, ConY, ConMaxY, Cells, V)
        /\ memmove(g[k], dest, from, count) \in ConsoleOf(ConX, ConY, ConMaxY, Cells, V)
        /\ memmove(f[k], dest, from, count).cursor = f[k].cursor
    BY <1>4, <2>5, <2>6, <2>8, MemmoveIs
  <2>10. Alike(AllSent, memmove(f[k], dest, from, count), memmove(g[k], dest, from, count))
    BY <1>4, <2>1, <2>5, <2>6, <2>7, <2>8, MemmoveAlike
  <2> QED
    BY <2>1, <2>3, <2>9, <2>10 DEF ConsoleRecord, V
<1> HIDE DEF Done
<1>12. 0 \in T /\ \A k \in Nat : k \in T => k + 1 \in T
  <2>1. \A k \in Nat : k + 1 \in Nat
    OBVIOUS
  <2> QED
    BY <1>10, <1>11, <2>1, Zenon
<1>13. Nat \subseteq T
  <2> HIDE DEF T
  <2> QED
    BY <1>12, ByInduction
<1>14. Done(n)
  <2> HIDE DEF n
  <2> QED
    BY <1>3, <1>13
<1>15. n <= n
  BY <1>3
<1> QED
  BY <1>9, <1>14, <1>15 DEF Done

LEMMA PutsTyped ==
  ASSUME NEW p, p.x = ConX, p.y = ConY, NEW m \in Puts(p, ConCell)
  PROVE  m.type = "PUTCS" /\ m.y \in Nat /\ m.x \in Nat /\ m.data \in Seq(ConCell \union {0})
<1>1. m.type = "PUTCS" /\ m.y \in 0..(ConY - 1) /\ m.x \in 0..(ConX - 1) /\ m.data \in {<<c>> : c \in ConCell}
  BY DEF Puts
<1>2. PICK c \in ConCell : m.data = <<c>>
  BY <1>1
<1>3. <<c>> \in Seq(ConCell \union {0})
  OBVIOUS
<1> QED
  BY <1>1, <1>2, <1>3, ConsoleSizes

LEMMA OpKeeps ==
  ASSUME NEW p \in ConsoleRecord, NEW m \in GuestOp(p)
  PROVE  co_console_op(p, m) \in ConsoleRecord
<1>1. p.x = ConX /\ p.y = ConY /\ p.max_y = ConMaxY /\ p.cursor \in {0, 1}
  BY DEF ConsoleRecord, ConsoleOf
<1>2. Alike(AllSent, p, p)
  BY DEF Alike
<1>3. CASE m \in Scrolls(p, {0})
  <2>1. m.type \in {"SCROLL_UP", "SCROLL_DOWN"}
    BY <1>3 DEF Scrolls
  <2>2. scroll_up(p, m) \in ConsoleRecord /\ scroll_down(p, m) \in ConsoleRecord
    BY <1>2, <1>3, ScrollsAlike
  <2> QED
    BY <2>1, <2>2 DEF co_console_op
<1>4. CASE m \in Rectangles(p, "CLEAR", {0}) \/ m \in [type : {"SWITCH"}]
  <2> DEFINE V == ConCell \union {0}
  <2>1. p \in ConsoleOf(ConX, ConY, ConMaxY, Cells, V) /\ Cells \in SUBSET Int /\ 0 \in V
    BY DEF ConsoleRecord, Cells
  <2> HIDE DEF V
  <2>2. \A cells : Filled(p, cells, 0) \in ConsoleRecord
    BY <2>1, FilledIs DEF ConsoleRecord, V
  <2>3. CASE m \in Rectangles(p, "CLEAR", {0})
    <3>1. m.type = "CLEAR" /\ m.cell = 0
      BY <2>3 DEF Rectangles
    <3> QED
      BY <2>2, <3>1 DEF co_console_op, clear
  <2>4. CASE m \in [type : {"SWITCH"}]
    <3>1. m.type = "SWITCH"
      BY <2>4
    <3> QED
      BY <2>2, <3>1 DEF co_console_op
  <2> QED
    BY <1>4, <2>3, <2>4
<1>5. CASE m \in Moves(p)
  <2>1. m.type = "BMOVE"
    BY <1>5 DEF Moves
  <2> QED
    BY <1>2, <1>5, <2>1, BmoveAlike DEF co_console_op
<1>6. CASE m \in Puts(p, ConCell)
  <2>1. /\ m.type = "PUTCS" /\ m.y \in Nat /\ m.x \in Nat /\ m.data \in Seq(ConCell \union {0})
    BY <1>1, <1>6, PutsTyped
  <2>2. screen(p) \in Int
    BY <1>1, ConsoleSizes DEF screen
  <2>3. co_console_op(p, m) = putcs(p, screen(p), ConY, m)
    BY <1>1, <2>1 DEF co_console_op
  <2> QED
    BY <2>1, <2>2, <2>3, PutsIs, ConsoleSizes
<1>7. CASE m \in [type : {"CURSOR"}, cursor : {0, 1}]
  <2>1. m.type = "CURSOR" /\ m.cursor \in {0, 1}
    BY <1>7
  <2>2. [p EXCEPT !.cursor = m.cursor] \in ConsoleRecord
    BY <2>1 DEF ConsoleRecord, ConsoleOf
  <2> QED
    BY <2>1, <2>2 DEF co_console_op
<1> QED
  BY <1>3, <1>4, <1>5, <1>6, <1>7 DEF GuestOp

(* Every operation of the guest does to two pictures that are alike what leaves them alike:
   in the cells that a process is sent as a whole, and in any cells at all if it moves no row. *)
LEMMA OpAlike ==
  ASSUME NEW p \in ConsoleRecord, NEW q \in ConsoleRecord, NEW m \in GuestOp(p),
         NEW S \in SUBSET Cells, Alike(S, p, q), S = AllSent \/ m.type \notin MovesRows
  PROVE  /\ Alike(S, co_console_op(p, m), co_console_op(q, m))
         /\ p.cursor = q.cursor => co_console_op(p, m).cursor = co_console_op(q, m).cursor
<1>1. /\ p.x = ConX /\ p.y = ConY /\ p.max_y = ConMaxY /\ q.x = ConX /\ q.y = ConY /\ q.max_y = ConMaxY
      /\ screen(p) = screen(q) /\ screen(p) \in Int
  BY ConsoleSizes DEF ConsoleRecord, ConsoleOf, screen
<1>0. /\ Scrolls(p, {0}) = Scrolls(q, {0}) /\ Moves(p) = Moves(q)
      /\ OutOfBounds(p, m) <=> OutOfBounds(q, m)
      /\ Alike(AllSent, q, q) /\ Alike(AllSent, p, p)
  BY <1>1 DEF Scrolls, Moves, OutOfBounds, WholeScreen, Alike
<1>3. CASE m \in Scrolls(p, {0})
  <2>1. m.type \in {"SCROLL_UP", "SCROLL_DOWN"} /\ m.type \in MovesRows
    BY <1>3 DEF Scrolls, MovesRows
  <2>2. S = AllSent
    BY <2>1
  <2>3. Alike(AllSent, scroll_up(p, m), scroll_up(q, m)) /\ Alike(AllSent, scroll_down(p, m), scroll_down(q, m))
    BY <1>3, <2>2, ScrollsAlike
  <2>4. /\ scroll_up(p, m).cursor = p.cursor /\ scroll_down(p, m).cursor = p.cursor
        /\ scroll_up(q, m).cursor = q.cursor /\ scroll_down(q, m).cursor = q.cursor
    BY <1>0, <1>3, ScrollsAlike
  <2> QED
    BY <1>0, <2>1, <2>2, <2>3, <2>4 DEF co_console_op
<1>4. CASE m \in Rectangles(p, "CLEAR", {0}) \/ m \in [type : {"SWITCH"}]
  <2> DEFINE V == ConCell \union {0}
  <2>1. /\ p \in ConsoleOf(ConX, ConY, ConMaxY, Cells, V) /\ Cells \in SUBSET Int /\ 0 \in V
        /\ q \in ConsoleOf(ConX, ConY, ConMaxY, Cells, V)
    BY DEF ConsoleRecord, Cells
  <2> HIDE DEF V
  <2>2. \A cells : /\ Alike(S, Filled(p, cells, 0), Filled(q, cells, 0))
                   /\ Filled(p, cells, 0).cursor = p.cursor /\ Filled(q, cells, 0).cursor = q.cursor
    <3> SUFFICES ASSUME NEW cells
                 PROVE  /\ Alike(S, Filled(p, cells, 0), Filled(q, cells, 0))
                        /\ Filled(p, cells, 0).cursor = p.cursor /\ Filled(q, cells, 0).cursor = q.cursor
      OBVIOUS
    <3>1. Filled(p, cells, 0).cursor = p.cursor /\ Filled(q, cells, 0).cursor = q.cursor
      BY <2>1, FilledIs
    <3>2. S \in SUBSET Cells /\ Alike(S, p, q)
      OBVIOUS
    <3>3. Alike(S, Filled(p, cells, 0), Filled(q, cells, 0))
      BY <2>1, <3>2, FilledAlike
    <3> QED
      BY <3>1, <3>3
  <2>3. CASE m \in Rectangles(p, "CLEAR", {0})
    <3>1. m.type = "CLEAR" /\ m.cell = 0
      BY <2>3 DEF Rectangles
    <3> DEFINE cells == {screen(p) + p.x * t + l : t \in m.t..m.b, l \in m.l..m.r}
    <3>3. co_console_op(p, m) = Filled(p, cells, 0) /\ co_console_op(q, m) = Filled(q, cells, 0)
      BY <1>1, <3>1 DEF co_console_op, clear
    <3> HIDE DEF cells
    <3> QED
      BY <2>2, <3>3
  <2>4. CASE m \in [type : {"SWITCH"}]
    <3>1. m.type = "SWITCH"
      BY <2>4
    <3>2. co_console_op(p, m) = Filled(p, 0..(screen(p) - 1), 0) /\ co_console_op(q, m) = Filled(q, 0..(screen(p) - 1), 0)
      BY <1>1, <3>1 DEF co_console_op
    <3> QED
      BY <2>2, <3>2
  <2> QED
    BY <1>4, <2>3, <2>4
<1>5. CASE m \in Moves(p)
  <2>1. m.type = "BMOVE" /\ m.type \in MovesRows
    BY <1>5 DEF Moves, MovesRows
  <2>2. S = AllSent
    BY <2>1
  <2>3. Alike(AllSent, bmove(p, m), bmove(q, m)) /\ bmove(p, m).cursor = p.cursor /\ bmove(q, m).cursor = q.cursor
    BY <1>0, <1>5, <2>2, BmoveAlike
  <2> QED
    BY <2>1, <2>2, <2>3 DEF co_console_op
<1>6. CASE m \in Puts(p, ConCell)
  <2>1. /\ m.type = "PUTCS" /\ m.y \in Nat /\ m.x \in Nat /\ m.data \in Seq(ConCell \union {0})
    BY <1>1, <1>6, PutsTyped
  <2>2. /\ co_console_op(p, m) = putcs(p, screen(p), ConY, m)
        /\ co_console_op(q, m) = putcs(q, screen(p), ConY, m)
    BY <1>1, <2>1 DEF co_console_op
  <2> QED
    BY <1>1, <2>1, <2>2, PutsAlike, PutsIs, ConsoleSizes
<1>7. CASE m \in [type : {"CURSOR"}, cursor : {0, 1}]
  <2>1. m.type = "CURSOR" /\ m.cursor \in {0, 1}
    BY <1>7
  <2>2. /\ co_console_op(p, m) = [p EXCEPT !.cursor = m.cursor]
        /\ co_console_op(q, m) = [q EXCEPT !.cursor = m.cursor]
    BY <2>1 DEF co_console_op
  <2>3. /\ [p EXCEPT !.cursor = m.cursor].buffer = p.buffer /\ [q EXCEPT !.cursor = m.cursor].buffer = q.buffer
        /\ [p EXCEPT !.cursor = m.cursor].cursor = m.cursor /\ [q EXCEPT !.cursor = m.cursor].cursor = m.cursor
    BY DEF ConsoleRecord, ConsoleOf
  <2> QED
    BY <2>2, <2>3 DEF Alike
<1> QED
  BY <1>3, <1>4, <1>5, <1>6, <1>7 DEF GuestOp

(* The cells that a process was sent with the first n messages of its GET_CONSOLE: rows of the
   scrollback from row config.y on, and rows of the screen. *)
SentCells(n) ==
  {i \in Cells : \/ ConX * ConY <= i /\ i < ConX * (ConY + n)
                 \/ ConX * (ConMaxY - ConY) <= i /\ i < ConX * n}

LEMMA SentFirst == SentCells(0) = {}
<1>1. ConX * (ConY + 0) = ConX * ConY /\ ConX * 0 = 0 /\ ConX * ConY \in Nat /\ ConX * (ConMaxY - ConY) \in Nat
  BY ConsoleSizes
<1> SUFFICES ASSUME NEW i \in SentCells(0) PROVE FALSE
  OBVIOUS
<1>2. i \in Int
  BY DEF SentCells, Cells
<1>3. \/ ConX * ConY <= i /\ i < ConX * (ConY + 0)
      \/ ConX * (ConMaxY - ConY) <= i /\ i < ConX * 0
  BY DEF SentCells
<1> QED
  BY <1>1, <1>2, <1>3

LEMMA SentLast == SentCells(GetMessages) = AllSent /\ GetMessages = ConMaxY + 1
<1>1. ConX * ConMaxY <= ConX * (ConY + GetMessages) /\ ConX * ConMaxY <= ConX * GetMessages
      /\ ConX * (ConY + GetMessages) \in Int /\ ConX * GetMessages \in Int
  BY ConsoleSizes, ProductGrows DEF GetMessages
<1>2. Cells \in SUBSET Int /\ \A i \in Cells : i < ConX * ConMaxY
  BY ConsoleSizes DEF Cells
<1>3. ASSUME NEW i \in Cells PROVE i \in SentCells(GetMessages) <=> i >= FirstSent
  <2>1. i < ConX * (ConY + GetMessages) /\ i < ConX * GetMessages /\ i \in Int
    BY <1>1, <1>2, ConsoleSizes
  <2>2. i \in SentCells(GetMessages) <=> (ConX * ConY <= i \/ ConX * (ConMaxY - ConY) <= i)
    BY <2>1 DEF SentCells
  <2>3. /\ FirstSent \in Nat /\ ConX * (ConMaxY - ConY) \in Nat /\ ConX * ConY \in Nat
        /\ FirstSent <= ConX * (ConMaxY - ConY) /\ FirstSent <= ConX * ConY
        /\ FirstSent = ConX * (ConMaxY - ConY) \/ FirstSent = ConX * ConY
    BY AllSentIs, ConsoleSizes
  <2> QED
    BY <2>1, <2>2, <2>3
<1> QED
  BY <1>3 DEF AllSent, SentCells, GetMessages

LEMMA SentMore ==
  ASSUME NEW n \in Nat, NEW i \in SentCells(n + 1)
  PROVE  /\ n < ConMaxY - ConY =>
              i \in SentCells(n) \/ (ConX * (ConY + n) <= i /\ i < ConX * (ConY + n) + ConX)
         /\ n >= ConMaxY - ConY => i \in SentCells(n) \/ (ConX * n <= i /\ i < ConX * n + ConX)
         /\ n >= ConMaxY => i \in SentCells(n)
<1>1. i \in Cells /\ i \in Int /\ i < ConX * ConMaxY
  BY ConsoleSizes DEF SentCells, Cells
<1>2. /\ (ConX * ConY <= i /\ i < ConX * (ConY + (n + 1)))
         \/ (ConX * (ConMaxY - ConY) <= i /\ i < ConX * (n + 1))
  BY DEF SentCells
<1>3. /\ ConX * (ConY + (n + 1)) = ConX * (ConY + n) + ConX /\ ConX * (n + 1) = ConX * n + ConX
      /\ ConX * (ConY + n) \in Int /\ ConX * n \in Int
  <2>1. ConY + (n + 1) = (ConY + n) + 1 /\ ConY + n \in Int
    BY ConsoleSizes
  <2> QED
    BY <2>1, ConsoleSizes, ProductAdds
<1>4. n < ConMaxY - ConY => ConX * (n + 1) <= ConX * (ConMaxY - ConY)
  BY ConsoleSizes, ProductGrows
<1>5. n >= ConMaxY - ConY => ConX * ConMaxY <= ConX * (ConY + n)
  BY ConsoleSizes, ProductGrows
<1>6. n >= ConMaxY => ConX * ConMaxY <= ConX * n
  BY ConsoleSizes, ProductGrows
<1>7. i \in SentCells(n) <=> (ConX * ConY <= i /\ i < ConX * (ConY + n))
                             \/ (ConX * (ConMaxY - ConY) <= i /\ i < ConX * n)
  BY <1>1 DEF SentCells
<1>8. ConX * ConY \in Int /\ ConX * (ConMaxY - ConY) \in Int /\ ConX * ConMaxY \in Int /\ ConX \in Int
      /\ ConX * (n + 1) \in Int /\ ConX * (ConY + (n + 1)) \in Int
  BY <1>3, ConsoleSizes
<1>9. n >= ConMaxY => n >= ConMaxY - ConY
  BY ConsoleSizes
<1> QED
  BY <1>1, <1>2, <1>3, <1>4, <1>5, <1>6, <1>7, <1>8, <1>9, ConsoleSizes

LEMMA RowIs ==
  ASSUME NEW con \in ConsoleRecord, NEW p \in ConsoleRecord, NEW r \in 0..(ConMaxY - 1),
         NEW base \in Int, NEW rows \in Int, NEW m,
         m.y \in Nat, m.y < rows, m.x = 0, m.data = RowOf(con, r), base + ConX * m.y = ConX * r
  PROVE  /\ putcs(p, base, rows, m) \in ConsoleRecord
         /\ putcs(p, base, rows, m).cursor = p.cursor
         /\ \A i \in Cells : putcs(p, base, rows, m).buffer[i] =
              IF ConX * r <= i /\ i < ConX * r + ConX THEN con.buffer[i] ELSE p.buffer[i]
<1> DEFINE V == ConCell \union {0}
<1>1. con.x = ConX /\ con.buffer \in [Cells -> V]
  BY DEF ConsoleRecord, ConsoleOf
<1>2. /\ ConX * r \in Nat /\ ConX * r + ConX <= ConX * ConMaxY /\ ConX \in Nat /\ ConX > 0 /\ r \in Nat
      /\ ConX * ConMaxY \in Nat
  <2>1. r \in Int /\ r + 1 <= ConMaxY /\ 0 <= r
    BY ConsoleSizes
  <2>2. ConX * (r + 1) <= ConX * ConMaxY /\ ConX * 0 <= ConX * r
    BY <2>1, ConsoleSizes, ProductGrows
  <2>3. ConX * (r + 1) = ConX * r + ConX /\ ConX * r \in Int /\ ConX * 0 = 0
    BY <2>1, ConsoleSizes, ProductAdds
  <2> QED
    BY <2>1, <2>2, <2>3, ConsoleSizes
<1>3. m.data = [k \in 1..ConX |-> con.buffer[ConX * r + k - 1]]
  BY <1>1 DEF RowOf
<1>4. ASSUME NEW k \in 1..ConX PROVE ConX * r + k - 1 \in Cells
  BY <1>2 DEF Cells
<1>5. m.data \in Seq(V) /\ Len(m.data) = ConX
  <2> HIDE DEF V
  <2>1. m.data \in [1..ConX -> V]
    BY <1>1, <1>3, <1>4
  <2>2. \A n \in Nat : \A f \in [1..n -> V] : f \in Seq(V) /\ Len(f) = n
    OBVIOUS
  <2>3. ConX \in Nat
    BY <1>2
  <2> QED
    BY <2>1, <2>2, <2>3, Zenon
<1>6. m.x \in Nat /\ ~(m.y >= rows \/ m.x >= ConX)
  BY <1>2
<1>7. base + ConX * m.y + m.x = ConX * r
  BY <1>2
<1>8. (IF Len(m.data) > ConX - m.x THEN ConX - m.x ELSE Len(m.data)) = ConX
  BY <1>2, <1>5
<1>9. \A i \in Cells : putcs(p, base, rows, m).buffer[i] =
        IF ConX * r <= i /\ i < ConX * r + ConX THEN m.data[i - ConX * r + 1] ELSE p.buffer[i]
  <2> HIDE DEF V
  <2>1. m.data \in Seq(ConCell \union {0})
    BY <1>5 DEF V
  <2>2. \A i \in Cells : putcs(p, base, rows, m).buffer[i] = PutCell(p, base, m, i)
    BY <1>6, <2>1, PutsIs
  <2>3. \A i \in Cells : PutCell(p, base, m, i) =
          IF ConX * r <= i /\ i < ConX * r + ConX THEN m.data[i - ConX * r + 1] ELSE p.buffer[i]
    BY <1>7, <1>8 DEF PutCell
  <2> QED
    BY <2>2, <2>3
<1>10. ASSUME NEW i \in Cells, ConX * r <= i, i < ConX * r + ConX PROVE m.data[i - ConX * r + 1] = con.buffer[i]
  <2>1. i \in Int
    BY DEF Cells
  <2>2. i - ConX * r + 1 \in 1..ConX /\ ConX * r + (i - ConX * r + 1) - 1 = i
    BY <1>2, <1>10, <2>1
  <2> QED
    BY <1>3, <2>2
<1>11. putcs(p, base, rows, m) \in ConsoleRecord /\ putcs(p, base, rows, m).cursor = p.cursor
  BY <1>5, <1>6, PutsIs
<1> QED
  BY <1>9, <1>10, <1>11

(* A message of GET_CONSOLE brings to a picture what the shadow shows in the cells of the message,
   and changes no other. *)
LEMMA MessageShows ==
  ASSUME NEW con \in ConsoleRecord, NEW p \in ConsoleRecord, NEW n \in 0..ConMaxY
  PROVE  /\ co_console_op(p, GetMessage(con, n)) \in ConsoleRecord
         /\ \A S \in SUBSET Cells : Alike(S, p, con) => Alike(S, co_console_op(p, GetMessage(con, n)), con)
         /\ Alike(SentCells(n), p, con) => Alike(SentCells(n + 1), co_console_op(p, GetMessage(con, n)), con)
         /\ n = ConMaxY \/ p.cursor = con.cursor => co_console_op(p, GetMessage(con, n)).cursor = con.cursor
<1> DEFINE m == GetMessage(con, n)
           q == co_console_op(p, m)
<1>1. /\ con.x = ConX /\ con.y = ConY /\ con.max_y = ConMaxY /\ p.y = ConY /\ p.max_y = ConMaxY
      /\ screen(p) = ConX * (ConMaxY - ConY) /\ con.cursor \in {0, 1}
  BY ConsoleSizes DEF ConsoleRecord, ConsoleOf, screen
<1>2. n \in Nat /\ n <= ConMaxY
  BY ConsoleSizes
<1>3. Cells \in SUBSET Int /\ SentCells(n + 1) \in SUBSET Cells
  BY DEF Cells, SentCells
<1>4. ASSUME NEW r \in Int, q \in ConsoleRecord, q.cursor = p.cursor, n # ConMaxY,
             \A i \in Cells : q.buffer[i] =
               IF ConX * r <= i /\ i < ConX * r + ConX THEN con.buffer[i] ELSE p.buffer[i],
             \A i \in SentCells(n + 1) : i \in SentCells(n) \/ (ConX * r <= i /\ i < ConX * r + ConX)
      PROVE  /\ q \in ConsoleRecord
             /\ \A S \in SUBSET Cells : Alike(S, p, con) => Alike(S, q, con)
             /\ Alike(SentCells(n), p, con) => Alike(SentCells(n + 1), q, con)
             /\ n = ConMaxY \/ p.cursor = con.cursor => q.cursor = con.cursor
  <2> HIDE DEF q
  <2>1. ASSUME NEW S \in SUBSET Cells, Alike(S, p, con) PROVE Alike(S, q, con)
    BY <1>4, <2>1 DEF Alike
  <2>2. ASSUME Alike(SentCells(n), p, con) PROVE Alike(SentCells(n + 1), q, con)
    BY <1>3, <1>4, <2>2 DEF Alike
  <2> QED
    BY <1>4, <2>1, <2>2
<1>5. CASE n < ConMaxY - ConY
  <2> DEFINE r == ConY + n
  <2>1. r \in 0..(ConMaxY - 1) /\ r \in Nat /\ r < ConMaxY /\ 0 + ConX * r = ConX * r
    BY <1>2, <1>5, ConsoleSizes
  <2>2. m = [type |-> "INIT_SCROLLBUFFER", y |-> r, x |-> 0, data |-> RowOf(con, r)]
    <3>1. n \notin (ConMaxY - ConY)..(ConMaxY - 1)
      BY <1>5, ConsoleSizes
    <3> QED
      BY <1>1, <1>5, <3>1 DEF GetMessage
  <2>3. m.type = "INIT_SCROLLBUFFER" /\ m.y = r /\ m.x = 0 /\ m.data = RowOf(con, r)
    BY <2>2
  <2>4. q = putcs(p, 0, ConMaxY, m)
    BY <1>1, <2>3 DEF co_console_op
  <2>5. /\ q \in ConsoleRecord /\ q.cursor = p.cursor
        /\ \A i \in Cells : q.buffer[i] =
             IF ConX * r <= i /\ i < ConX * r + ConX THEN con.buffer[i] ELSE p.buffer[i]
    <3> HIDE DEF m, q, r
    <3> QED
      BY <2>1, <2>3, <2>4, RowIs, ConsoleSizes
  <2>6. \A i \in SentCells(n + 1) : i \in SentCells(n) \/ (ConX * r <= i /\ i < ConX * r + ConX)
    BY <1>2, <1>5, SentMore
  <2>7. n # ConMaxY /\ r \in Int
    BY <1>2, <1>5, ConsoleSizes
  <2> QED
    BY <1>4, <2>5, <2>6, <2>7
<1>6. CASE n >= ConMaxY - ConY /\ n < ConMaxY
  <2> DEFINE y == n - (ConMaxY - ConY)
  <2>1. n \in 0..(ConMaxY - 1) /\ y \in Nat /\ y < ConY /\ ~(n < ConMaxY - ConY)
        /\ n \in (ConMaxY - ConY)..(ConMaxY - 1)
    BY <1>2, <1>6, ConsoleSizes
  <2>2. m = [type |-> "PUTCS", y |-> y, x |-> 0, data |-> RowOf(con, n)]
    BY <1>1, <2>1 DEF GetMessage
  <2>3. m.type = "PUTCS" /\ m.y = y /\ m.x = 0 /\ m.data = RowOf(con, n)
    BY <2>2
  <2>4. q = putcs(p, ConX * (ConMaxY - ConY), ConY, m)
    BY <1>1, <2>3 DEF co_console_op
  <2>5. ConX * (ConMaxY - ConY) + ConX * y = ConX * n
    <3>1. ConMaxY - ConY \in Int /\ n = (ConMaxY - ConY) + y
      BY <1>2, ConsoleSizes
    <3> HIDE DEF y
    <3> QED
      BY <2>1, <3>1, ConsoleSizes, ProductAdds
  <2>6. /\ q \in ConsoleRecord /\ q.cursor = p.cursor
        /\ \A i \in Cells : q.buffer[i] =
             IF ConX * n <= i /\ i < ConX * n + ConX THEN con.buffer[i] ELSE p.buffer[i]
    <3> HIDE DEF m, q, y
    <3> QED
      BY <2>1, <2>3, <2>4, <2>5, RowIs, ConsoleSizes
  <2>7. \A i \in SentCells(n + 1) : i \in SentCells(n) \/ (ConX * n <= i /\ i < ConX * n + ConX)
    BY <1>2, <1>6, SentMore
  <2>8. n # ConMaxY /\ n \in Int
    BY <1>2, <1>6, ConsoleSizes
  <2> QED
    BY <1>4, <2>6, <2>7, <2>8
<1>7. CASE n = ConMaxY
  <2>1. m = [type |-> "CURSOR", cursor |-> con.cursor]
    BY <1>1, <1>7, ConsoleSizes DEF GetMessage
  <2>2. m.type = "CURSOR" /\ m.cursor = con.cursor
    BY <2>1
  <2>3. q = [p EXCEPT !.cursor = con.cursor]
    BY <2>2 DEF co_console_op
  <2>4. q \in ConsoleRecord /\ q.cursor = con.cursor /\ q.buffer = p.buffer
    BY <1>1, <2>3 DEF ConsoleRecord, ConsoleOf
  <2>5. \A i \in SentCells(n + 1) : i \in SentCells(n)
    BY <1>2, <1>7, SentMore, ConsoleSizes
  <2> HIDE DEF q
  <2>6. \A S \in SUBSET Cells : Alike(S, p, con) => Alike(S, q, con)
    BY <2>4 DEF Alike
  <2>7. Alike(SentCells(n), p, con) => Alike(SentCells(n + 1), q, con)
    BY <2>4, <2>5 DEF Alike
  <2> QED
    BY <2>4, <2>6, <2>7 DEF q
<1> QED
  BY <1>2, <1>5, <1>6, <1>7, ConsoleSizes

(* What the shadow will show when it has caught up with what the process was sent. *)
Truth == IF conPending = NoOp THEN shadow ELSE co_console_op(shadow, conPending)

Made == {NoOp} \union {GetMessage(con, n) : con \in ConsoleRecord, n \in 0..ConMaxY}
GetRecord == [sent : 0..GetMessages, made : Made, stale : BOOLEAN]
ConsoleTyped ==
  /\ shadow \in ConsoleRecord /\ picture \in ConsoleRecord
  /\ conModule \in ConClient \union {"none"} /\ conGet \in [ConClient -> GetRecord]
  /\ conPending = NoOp \/ conPending \in GuestOp(shadow)
  /\ conOps \in 0..MaxConOps /\ torn \in BOOLEAN

(* A message that a GET_CONSOLE has made is the one that is due, of some earlier shadow; and of
   the present one, which no operation is about to change, unless it is stale. *)
MadeRight(c) ==
  conGet[c].made # NoOp =>
    /\ conGet[c].sent \in 0..ConMaxY
    /\ \E con \in ConsoleRecord : conGet[c].made = GetMessage(con, conGet[c].sent)
    /\ ~conGet[c].stale => conPending = NoOp /\ conGet[c].made = GetMessage(shadow, conGet[c].sent)

PictureRight ==
  conModule # "none" /\ ~torn =>
    /\ Alike(SentCells(conGet[conModule].sent), picture, Truth)
    /\ ~Getting(conModule) => picture.cursor = Truth.cursor

ConsoleInv == ConsoleTyped /\ (\A c \in ConClient : MadeRight(c)) /\ PictureRight

LEMMA GuestOpSame ==
  ASSUME NEW p \in ConsoleRecord, NEW q \in ConsoleRecord
  PROVE  GuestOp(p) = GuestOp(q)
<1>1. p.x = q.x /\ p.y = q.y
  BY DEF ConsoleRecord, ConsoleOf
<1>2. /\ Scrolls(p, {0}) = Scrolls(q, {0}) /\ Rectangles(p, "CLEAR", {0}) = Rectangles(q, "CLEAR", {0})
      /\ Moves(p) = Moves(q) /\ Puts(p, ConCell) = Puts(q, ConCell)
  BY <1>1 DEF Scrolls, Rectangles, Moves, Puts
<1> QED
  BY <1>2 DEF GuestOp

LEMMA ConsoleNew == NewConsole(ConX, ConY, ConMaxY) \in ConsoleRecord
<1>1. [i \in 0..(ConX * ConMaxY - 1) |-> 0] \in [Cells -> ConCell \union {0}]
  BY DEF Cells
<1> QED
  BY <1>1 DEF NewConsole, ConsoleRecord, ConsoleOf

LEMMA OpIsSome == \A con : \A m \in GuestOp(con) : m # NoOp
<1> SUFFICES ASSUME NEW con, NEW m \in GuestOp(con) PROVE m # NoOp
  OBVIOUS
<1>1. m.type \in {"SCROLL_UP", "SCROLL_DOWN", "CLEAR", "BMOVE", "PUTCS", "CURSOR", "SWITCH"}
  BY DEF GuestOp, Scrolls, Rectangles, Moves, Puts
<1>2. NoOp.type = "none"
  BY DEF NoOp
<1> QED
  BY <1>1, <1>2

LEMMA TruthTyped == ASSUME ConsoleTyped PROVE Truth \in ConsoleRecord
<1>1. CASE conPending = NoOp
  BY <1>1 DEF Truth, ConsoleTyped
<1>2. CASE conPending # NoOp
  <2>1. shadow \in ConsoleRecord /\ conPending \in GuestOp(shadow)
    BY <1>2 DEF ConsoleTyped
  <2>2. Truth = co_console_op(shadow, conPending)
    BY <1>2 DEF Truth
  <2> QED
    BY <2>1, <2>2, OpKeeps
<1> QED
  BY <1>1, <1>2

LEMMA ConsoleStart == ConsoleInit => ConsoleInv
<1> SUFFICES ASSUME ConsoleInit PROVE ConsoleInv
  OBVIOUS
<1>1. GetOver \in GetRecord /\ GetOver.made = NoOp
  <2>1. GetMessages \in 0..GetMessages
    BY ConsoleSizes DEF GetMessages
  <2>2. NoOp \in Made
    BY DEF Made
  <2> QED
    BY <2>1, <2>2 DEF GetRecord, GetOver
<1>2. ConsoleTyped
  <2>1. 0 \in 0..MaxConOps
    BY ConsoleAssumption
  <2> QED
    BY <1>1, <2>1, ConsoleNew DEF ConsoleInit, ConsoleTyped
<1>3. \A c \in ConClient : MadeRight(c)
  BY <1>1 DEF ConsoleInit, MadeRight
<1>4. PictureRight
  BY DEF ConsoleInit, PictureRight
<1> QED
  BY <1>2, <1>3, <1>4 DEF ConsoleInv

LEMMA AttachStep ==
  ASSUME ConsoleInv, NEW c \in ConClient, ConAttach(c) \/ ConDetach(c)
  PROVE  ConsoleInv'
<1>1. ConsoleTyped /\ (\A d \in ConClient : MadeRight(d)) /\ c # "none"
  BY ConsoleAssumption DEF ConsoleInv
<1>2. UNCHANGED <<shadow, conPending, conOps>> /\ torn' = FALSE /\ picture' = NewConsole(ConX, ConY, ConMaxY)
      /\ conModule' \in {c, "none"}
  BY DEF ConAttach, ConDetach
<1>3. /\ conGet' \in [ConClient -> GetRecord]
      /\ \A d \in ConClient : conGet'[d] = conGet[d] \/ conGet'[d].made = NoOp
      /\ conModule' = c => conGet'[c].sent = 0
  <2> DEFINE r == [sent |-> 0, made |-> NoOp, stale |-> FALSE]
  <2>1. r \in GetRecord /\ r.made = NoOp /\ r.sent = 0
    BY ConsoleSizes DEF GetRecord, Made, GetMessages
  <2> HIDE DEF r
  <2>2. CASE conGet' = [conGet EXCEPT ![c] = r] /\ conModule' = c
    BY <1>1, <2>1, <2>2 DEF ConsoleTyped
  <2>3. CASE conGet' = conGet /\ conModule' = "none"
    BY <1>1, <2>3 DEF ConsoleTyped
  <2> QED
    BY <2>2, <2>3 DEF ConAttach, ConDetach, r
<1>4. ConsoleTyped'
  <2>1. conModule' \in ConClient \union {"none"} /\ torn' \in BOOLEAN
    BY <1>2
  <2> QED
    BY <1>1, <1>2, <1>3, <2>1, ConsoleNew DEF ConsoleTyped
<1>5. ASSUME NEW d \in ConClient PROVE MadeRight(d)'
  BY <1>1, <1>2, <1>3 DEF MadeRight
<1>6. PictureRight'
  <2> SUFFICES ASSUME conModule' # "none"
               PROVE  /\ Alike(SentCells(conGet'[conModule'].sent), picture', Truth')
                      /\ conGet'[conModule'].sent < GetMessages
    BY DEF PictureRight, Getting
  <2>1. conModule' = c /\ conGet'[c].sent = 0
    BY <1>2, <1>3
  <2>2. 0 < GetMessages
    BY ConsoleSizes DEF GetMessages
  <2>3. Alike(SentCells(0), picture', Truth')
    BY SentFirst DEF Alike
  <2> QED
    BY <2>1, <2>2, <2>3
<1> QED
  BY <1>4, <1>5, <1>6 DEF ConsoleInv

LEMMA CopiesStep ==
  ASSUME ConsoleInv, NEW c \in ConClient, GetCopies(c)
  PROVE  ConsoleInv'
<1>1. ConsoleTyped /\ (\A d \in ConClient : MadeRight(d)) /\ PictureRight
  BY DEF ConsoleInv
<1>2. UNCHANGED <<shadow, picture, conModule, conPending, conOps, torn>> /\ Getting(c)
  BY DEF GetCopies
<1>3. conGet[c].sent \in 0..ConMaxY
  BY <1>1, <1>2, ConsoleSizes DEF ConsoleTyped, GetRecord, Getting, GetMessages
<1>4. /\ conGet' \in [ConClient -> GetRecord]
      /\ \A d \in ConClient : d # c => conGet'[d] = conGet[d]
      /\ \A d \in ConClient : conGet'[d].sent = conGet[d].sent
      /\ conGet'[c].made = GetMessage(shadow, conGet[c].sent)
      /\ ~conGet'[c].stale => conPending = NoOp
  <2>0. PICK m : m = GetMessage(shadow, conGet[c].sent)
    OBVIOUS
  <2>1. m \in Made
    BY <1>1, <1>3, <2>0 DEF Made, ConsoleTyped
  <2>2. PICK b \in BOOLEAN : b <=> (conPending # NoOp)
    OBVIOUS
  <2>3. conGet' = [conGet EXCEPT ![c].made = m, ![c].stale = b]
    BY <2>0, <2>2 DEF GetCopies
  <2>4. conGet \in [ConClient -> GetRecord]
    BY <1>1 DEF ConsoleTyped
  <2>5. /\ conGet' \in [ConClient -> GetRecord]
        /\ \A d \in ConClient : d # c => conGet'[d] = conGet[d]
        /\ \A d \in ConClient : conGet'[d].sent = conGet[d].sent
        /\ conGet'[c].made = m /\ (conGet'[c].stale <=> b)
    BY <2>1, <2>3, <2>4 DEF GetRecord
  <2> QED
    BY <2>0, <2>2, <2>5
<1>5. ConsoleTyped'
  BY <1>1, <1>2, <1>4 DEF ConsoleTyped
<1>6. ASSUME NEW d \in ConClient PROVE MadeRight(d)'
  <2>1. CASE d = c
    <3>1. shadow \in ConsoleRecord
      BY <1>1 DEF ConsoleTyped
    <3> QED
      BY <1>2, <1>3, <1>4, <2>1, <3>1 DEF MadeRight
  <2>2. CASE d # c
    BY <1>1, <1>2, <1>4, <2>2 DEF MadeRight
  <2> QED
    BY <2>1, <2>2
<1>7. PictureRight'
  <2>1. Truth' = Truth
    BY <1>2 DEF Truth
  <2>2. conModule # "none" => conModule \in ConClient
    BY <1>1 DEF ConsoleTyped
  <2> QED
    BY <1>1, <1>2, <1>4, <2>1, <2>2 DEF PictureRight, Getting, GetMessages
<1> QED
  BY <1>5, <1>6, <1>7 DEF ConsoleInv

LEMMA SendsStep ==
  ASSUME ConsoleInv, NEW c \in ConClient, GetSends(c)
  PROVE  ConsoleInv'
<1>1. ConsoleTyped /\ (\A d \in ConClient : MadeRight(d)) /\ PictureRight
  BY DEF ConsoleInv
<1>2. /\ UNCHANGED <<shadow, conModule, conPending, conOps>> /\ conGet[c].made # NoOp
      /\ picture' = IF conModule = "none" THEN picture ELSE co_console_op(picture, conGet[c].made)
      /\ torn' = (torn \/ (conGet[c].stale /\ conModule # "none"))
  BY DEF GetSends, Sent
<1>3. PICK n \in 0..ConMaxY, con \in ConsoleRecord : conGet[c].sent = n /\ conGet[c].made = GetMessage(con, n)
  BY <1>1, <1>2 DEF MadeRight
<1>4. shadow \in ConsoleRecord /\ picture \in ConsoleRecord /\ conGet \in [ConClient -> GetRecord]
  BY <1>1 DEF ConsoleTyped
<1>5. /\ conGet' \in [ConClient -> GetRecord]
      /\ \A d \in ConClient : d # c => conGet'[d] = conGet[d]
      /\ conGet'[c].made = NoOp /\ conGet'[c].sent = n + 1
  <2> DEFINE r == [sent |-> n + 1, made |-> NoOp, stale |-> FALSE]
  <2>1. r \in GetRecord /\ r.made = NoOp /\ r.sent = n + 1
    BY ConsoleSizes DEF GetRecord, Made, GetMessages
  <2>2. conGet' = [conGet EXCEPT ![c] = r]
    BY <1>3, <1>4 DEF GetSends
  <2> HIDE DEF r
  <2> QED
    BY <1>4, <2>1, <2>2
<1>6. picture' \in ConsoleRecord
  BY <1>2, <1>3, <1>4, MessageShows
<1>7. torn' \in BOOLEAN
  BY <1>2
<1>8. ConsoleTyped'
  BY <1>1, <1>2, <1>5, <1>6, <1>7 DEF ConsoleTyped
<1>9. ASSUME NEW d \in ConClient PROVE MadeRight(d)'
  <2>1. CASE d = c
    BY <1>5, <2>1 DEF MadeRight
  <2>2. CASE d # c
    BY <1>1, <1>2, <1>5, <2>2 DEF MadeRight
  <2> QED
    BY <2>1, <2>2
<1>10. PictureRight'
  <2> SUFFICES ASSUME conModule # "none", ~torn'
               PROVE  /\ Alike(SentCells(conGet'[conModule].sent), picture', shadow)
                      /\ ~(conGet'[conModule].sent < GetMessages) => picture'.cursor = shadow.cursor
                      /\ conPending = NoOp
    BY <1>2 DEF PictureRight, Truth, Getting
  <2>1. ~torn /\ ~conGet[c].stale
    BY <1>2
  <2>2. conPending = NoOp /\ conGet[c].made = GetMessage(shadow, n)
    BY <1>1, <1>2, <1>3, <2>1 DEF MadeRight
  <2>3. Alike(SentCells(conGet[conModule].sent), picture, shadow)
        /\ (~(conGet[conModule].sent < GetMessages) => picture.cursor = shadow.cursor)
    BY <1>1, <2>1, <2>2 DEF PictureRight, Truth, Getting
  <2>4. picture' = co_console_op(picture, GetMessage(shadow, n))
    BY <1>2, <2>2
  <2>5. /\ \A S \in SUBSET Cells : Alike(S, picture, shadow) => Alike(S, picture', shadow)
        /\ Alike(SentCells(n), picture, shadow) => Alike(SentCells(n + 1), picture', shadow)
        /\ n = ConMaxY \/ picture.cursor = shadow.cursor => picture'.cursor = shadow.cursor
    BY <1>4, <2>4, MessageShows
  <2>6. CASE conModule = c
    <3>1. ~(n + 1 < GetMessages) => n = ConMaxY
      BY ConsoleSizes DEF GetMessages
    <3> QED
      BY <1>3, <1>5, <2>2, <2>3, <2>5, <2>6, <3>1
  <2>7. CASE conModule # c
    <3>1. conModule \in ConClient
      BY <1>1 DEF ConsoleTyped
    <3>2. conGet'[conModule] = conGet[conModule]
      BY <1>5, <2>7, <3>1
    <3>3. SentCells(conGet[conModule].sent) \in SUBSET Cells
      BY DEF SentCells
    <3> QED
      BY <2>2, <2>3, <2>5, <3>2, <3>3
  <2> QED
    BY <2>6, <2>7
<1> QED
  BY <1>8, <1>9, <1>10 DEF ConsoleInv

LEMMA StaledIs ==
  ASSUME conGet \in [ConClient -> GetRecord]
  PROVE  /\ Staled \in [ConClient -> GetRecord]
         /\ \A c \in ConClient : /\ Staled[c].sent = conGet[c].sent /\ Staled[c].made = conGet[c].made
                                 /\ conGet[c].made # NoOp => Staled[c].stale
<1>1. ASSUME NEW c \in ConClient
      PROVE  /\ [conGet[c] EXCEPT !.stale = @ \/ conGet[c].made # NoOp] \in GetRecord
             /\ [conGet[c] EXCEPT !.stale = @ \/ conGet[c].made # NoOp].sent = conGet[c].sent
             /\ [conGet[c] EXCEPT !.stale = @ \/ conGet[c].made # NoOp].made = conGet[c].made
             /\ conGet[c].made # NoOp => [conGet[c] EXCEPT !.stale = @ \/ conGet[c].made # NoOp].stale
  <2>1. conGet[c] \in GetRecord
    OBVIOUS
  <2>2. PICK b \in BOOLEAN : b = (conGet[c].stale \/ conGet[c].made # NoOp)
    OBVIOUS
  <2>3. [conGet[c] EXCEPT !.stale = @ \/ conGet[c].made # NoOp] = [conGet[c] EXCEPT !.stale = b]
    BY <2>1, <2>2 DEF GetRecord
  <2>4. /\ [conGet[c] EXCEPT !.stale = b] \in GetRecord /\ [conGet[c] EXCEPT !.stale = b].sent = conGet[c].sent
        /\ [conGet[c] EXCEPT !.stale = b].made = conGet[c].made /\ [conGet[c] EXCEPT !.stale = b].stale = b
    BY <2>1 DEF GetRecord
  <2> QED
    BY <2>2, <2>3, <2>4
<1> QED
  BY <1>1 DEF Staled

LEMMA WritesStep ==
  ASSUME ConsoleInv, NEW m \in GuestOp(shadow), GuestWrites(m)
  PROVE  ConsoleInv'
<1>1. ConsoleTyped /\ (\A d \in ConClient : MadeRight(d)) /\ PictureRight
  BY DEF ConsoleInv
<1>2. /\ UNCHANGED <<shadow, conModule>> /\ conPending = NoOp /\ conPending' = m /\ conGet' = Staled
      /\ conOps' = conOps + 1 /\ conOps < MaxConOps
      /\ picture' = IF conModule = "none" THEN picture ELSE co_console_op(picture, m)
      /\ torn' = (torn \/ (m.type \in MovesRows /\ \E c \in ConClient : c = conModule /\ Getting(c)))
  BY DEF GuestWrites, Sent
<1>3. shadow \in ConsoleRecord /\ picture \in ConsoleRecord /\ conGet \in [ConClient -> GetRecord]
  BY <1>1 DEF ConsoleTyped
<1>4. /\ conGet' \in [ConClient -> GetRecord]
      /\ \A d \in ConClient : /\ conGet'[d].sent = conGet[d].sent /\ conGet'[d].made = conGet[d].made
                              /\ conGet[d].made # NoOp => conGet'[d].stale
  BY <1>2, <1>3, StaledIs
<1>5. m \in GuestOp(picture)
  BY <1>3, GuestOpSame
<1>6. ConsoleTyped'
  <2>1. picture' \in ConsoleRecord
    BY <1>2, <1>3, <1>5, OpKeeps
  <2>2. conOps' \in 0..MaxConOps /\ torn' \in BOOLEAN
    BY <1>1, <1>2, ConsoleAssumption DEF ConsoleTyped
  <2> QED
    BY <1>1, <1>2, <1>4, <2>1, <2>2 DEF ConsoleTyped
<1>7. ASSUME NEW d \in ConClient PROVE MadeRight(d)'
  BY <1>1, <1>2, <1>4 DEF MadeRight
<1>8. PictureRight'
  <2>1. Truth = shadow /\ Truth' = co_console_op(shadow, m)
    BY <1>2, OpIsSome DEF Truth
  <2> SUFFICES ASSUME conModule # "none", ~torn'
               PROVE  /\ Alike(SentCells(conGet[conModule].sent), picture', co_console_op(shadow, m))
                      /\ ~(conGet[conModule].sent < GetMessages) =>
                           picture'.cursor = co_console_op(shadow, m).cursor
    <3>1. conModule # "none" => conGet'[conModule].sent = conGet[conModule].sent
      BY <1>1, <1>4 DEF ConsoleTyped
    <3> QED
      BY <1>2, <2>1, <3>1 DEF PictureRight, Getting
  <2>2. conModule \in ConClient /\ ~torn
    BY <1>1, <1>2 DEF ConsoleTyped
  <2>3. Alike(SentCells(conGet[conModule].sent), picture, shadow)
        /\ (~(conGet[conModule].sent < GetMessages) => picture.cursor = shadow.cursor)
    BY <1>1, <2>1, <2>2 DEF PictureRight, Getting
  <2>4. SentCells(conGet[conModule].sent) = AllSent \/ m.type \notin MovesRows
    <3>1. CASE m.type \in MovesRows
      <4>1. ~Getting(conModule)
        BY <1>2, <2>2, <3>1
      <4>2. conGet[conModule].sent = GetMessages
        BY <1>3, <2>2, <4>1, ConsoleSizes DEF Getting, GetRecord, GetMessages
      <4> QED
        BY <4>2, SentLast
    <3> QED
      BY <3>1
  <2>5. SentCells(conGet[conModule].sent) \in SUBSET Cells /\ picture' = co_console_op(picture, m)
    BY <1>2 DEF SentCells
  <2> QED
    BY <1>3, <1>5, <2>3, <2>4, <2>5, OpAlike
<1> QED
  BY <1>6, <1>7, <1>8 DEF ConsoleInv

LEMMA FollowsStep ==
  ASSUME ConsoleInv, ShadowFollows
  PROVE  ConsoleInv'
<1>1. ConsoleTyped /\ (\A d \in ConClient : MadeRight(d)) /\ PictureRight
  BY DEF ConsoleInv
<1>2. /\ UNCHANGED <<picture, conModule, conOps, torn>> /\ conPending # NoOp /\ conPending' = NoOp
      /\ conGet' = Staled /\ shadow' = co_console_op(shadow, conPending)
  BY DEF ShadowFollows
<1>3. shadow \in ConsoleRecord /\ conGet \in [ConClient -> GetRecord] /\ conPending \in GuestOp(shadow)
  BY <1>1, <1>2 DEF ConsoleTyped
<1>4. /\ conGet' \in [ConClient -> GetRecord]
      /\ \A d \in ConClient : /\ conGet'[d].sent = conGet[d].sent /\ conGet'[d].made = conGet[d].made
                              /\ conGet[d].made # NoOp => conGet'[d].stale
  BY <1>2, <1>3, StaledIs
<1>5. Truth' = Truth /\ shadow' \in ConsoleRecord
  BY <1>2, <1>3, OpKeeps DEF Truth
<1>6. ConsoleTyped'
  BY <1>1, <1>2, <1>4, <1>5 DEF ConsoleTyped
<1>7. ASSUME NEW d \in ConClient PROVE MadeRight(d)'
  BY <1>1, <1>2, <1>4 DEF MadeRight
<1>8. PictureRight'
  <2>1. conModule # "none" => conGet'[conModule].sent = conGet[conModule].sent
    BY <1>1, <1>4 DEF ConsoleTyped
  <2> QED
    BY <1>1, <1>2, <1>5, <2>1 DEF PictureRight, Getting
<1> QED
  BY <1>6, <1>7, <1>8 DEF ConsoleInv

LEMMA ConsoleInvariant == ConsoleSpec => []ConsoleInv
<1>1. ConsoleInv /\ [ConsoleNext]_consoleVars => ConsoleInv'
  <2> SUFFICES ASSUME ConsoleInv, [ConsoleNext]_consoleVars PROVE ConsoleInv'
    OBVIOUS
  <2>1. CASE UNCHANGED consoleVars
    <3>1. ConsoleTyped' /\ (\A c \in ConClient : MadeRight(c))'
      BY <2>1 DEF ConsoleInv, ConsoleTyped, MadeRight, consoleVars
    <3>2. PictureRight'
      BY <2>1 DEF ConsoleInv, PictureRight, Truth, Getting, consoleVars
    <3> QED
      BY <3>1, <3>2 DEF ConsoleInv
  <2> QED
    BY <2>1, AttachStep, CopiesStep, SendsStep, WritesStep, FollowsStep DEF ConsoleNext
<1> QED
  BY <1>1, ConsoleStart, PTL DEF ConsoleSpec

(* The operations on Probe, cell by cell. *)
ProbeCells == 0..9
ProbeRecord == ConsoleOf(2, 3, 5, ProbeCells, Nat)

LEMMA ProbeIs ==
  /\ Probe \in ProbeRecord /\ Row(Probe) = (-2)..2 /\ Column(Probe) = 0..1
  /\ Probe.x = 2 /\ Probe.y = 3 /\ Probe.max_y = 5 /\ screen(Probe) = 4 /\ ProbeCells \in SUBSET Int
<1>1. [i \in 0..9 |-> i + 1] \in [ProbeCells -> Nat] /\ ProbeCells \in SUBSET Int
  BY DEF ProbeCells
<1>2. Probe \in ProbeRecord
  BY <1>1 DEF Probe, ProbeRecord, NewConsole, ConsoleOf
<1>3. Probe.x = 2 /\ Probe.y = 3 /\ Probe.max_y = 5
  BY <1>2 DEF ProbeRecord, ConsoleOf
<1> QED
  BY <1>1, <1>2, <1>3 DEF Row, Column, screen

LEMMA ProbeShows ==
  ASSUME NEW con \in ProbeRecord, NEW r \in (-2)..2, NEW k \in 0..1
  PROVE  Shows(con, r, k) = con.buffer[4 + 2 * r + k] /\ 4 + 2 * r + k \in ProbeCells
<1>1. con.x = 2 /\ con.y = 3 /\ con.max_y = 5
  BY DEF ProbeRecord, ConsoleOf
<1>2. screen(con) = 4
  BY <1>1 DEF screen
<1> QED
  BY <1>1, <1>2 DEF Shows, ProbeCells

LEMMA ProbeMoves ==
  ASSUME NEW dest \in ProbeCells, NEW from \in ProbeCells, NEW count \in Int,
         \A i \in ProbeCells : dest <= i /\ i < dest + count => from + i - dest \in ProbeCells
  PROVE  /\ memmove(Probe, dest, from, count) \in ProbeRecord
         /\ \A j \in ProbeCells : memmove(Probe, dest, from, count).buffer[j] =
              IF dest <= j /\ j < dest + count THEN Probe.buffer[from + j - dest] ELSE Probe.buffer[j]
<1>1. Probe \in ConsoleOf(2, 3, 5, ProbeCells, Nat) /\ ProbeCells \in SUBSET Int
  BY ProbeIs DEF ProbeRecord
<1>2. dest \in Int /\ from \in Int
  BY DEF ProbeCells
<1>3. /\ memmove(Probe, dest, from, count) \in ConsoleOf(2, 3, 5, ProbeCells, Nat)
      /\ \A j \in ProbeCells : memmove(Probe, dest, from, count).buffer[j] =
           IF dest <= j /\ j < dest + count THEN Probe.buffer[from + j - dest] ELSE Probe.buffer[j]
  BY <1>1, <1>2, MemmoveIs
<1> QED
  BY <1>3 DEF ProbeRecord

LEMMA ScrollExact ==
  ASSUME NEW m \in Scrolls(Probe, {0}), NEW r \in Row(Probe), NEW k \in Column(Probe)
  PROVE  LET up    == m.type = "SCROLL_UP"
             first == IF up /\ m.t = 0 /\ m.b = Probe.y THEN Probe.y - Probe.max_y ELSE m.t
             from  == IF up THEN r + m.lines ELSE r - m.lines
         IN Shows(co_console_op(Probe, m), r, k) =
              IF r \notin first..(m.b - 1) THEN Shows(Probe, r, k)
              ELSE IF from \in first..(m.b - 1) THEN Shows(Probe, from, k) ELSE 0
<1> DEFINE i == 4 + 2 * r + k
<1>1. /\ m.type \in {"SCROLL_UP", "SCROLL_DOWN"} /\ m.t \in 0..2 /\ m.b \in 1..3 /\ m.lines \in 1..2
      /\ m.cell = 0 /\ m.t < m.b /\ m.lines < m.b - m.t
  BY ProbeIs DEF Scrolls
<1>0. /\ m.t \in Int /\ m.b \in Int /\ m.lines \in Int /\ r \in Int /\ k \in Int
      /\ 0 <= m.t /\ m.b <= 3 /\ 1 <= m.lines /\ m.t + m.lines < m.b /\ -2 <= r /\ r <= 2 /\ 0 <= k /\ k <= 1
  BY <1>1, ProbeIs
<1>2. r \in (-2)..2 /\ k \in 0..1 /\ i \in ProbeCells /\ Shows(Probe, r, k) = Probe.buffer[i]
  BY ProbeIs, ProbeShows
<1>3. ~OutOfBounds(Probe, m)
  BY <1>1, ProbeIs DEF OutOfBounds
<1>4. ASSUME NEW dest \in ProbeCells, NEW from \in ProbeCells, NEW count \in Int,
             dest + count <= 10, from + count <= 10, NEW lo \in Int, NEW hi \in Int,
             co_console_op(Probe, m) = Filled(memmove(Probe, dest, from, count), lo..hi, 0)
      PROVE  Shows(co_console_op(Probe, m), r, k) =
               IF lo <= i /\ i <= hi THEN 0
               ELSE IF dest <= i /\ i < dest + count THEN Probe.buffer[from + i - dest] ELSE Probe.buffer[i]
  <2>1. \A j \in ProbeCells : dest <= j /\ j < dest + count => from + j - dest \in ProbeCells
    BY <1>4 DEF ProbeCells
  <2>2. /\ memmove(Probe, dest, from, count) \in ProbeRecord
        /\ \A j \in ProbeCells : memmove(Probe, dest, from, count).buffer[j] =
             IF dest <= j /\ j < dest + count THEN Probe.buffer[from + j - dest] ELSE Probe.buffer[j]
    BY <1>4, <2>1, ProbeMoves
  <2>3. /\ co_console_op(Probe, m) \in ProbeRecord
        /\ \A j \in ProbeCells : co_console_op(Probe, m).buffer[j] =
             IF j \in lo..hi THEN 0 ELSE memmove(Probe, dest, from, count).buffer[j]
    <3>1. 0 \in Nat
      OBVIOUS
    <3> QED
      BY <1>4, <2>2, <3>1, ProbeIs, FilledIs DEF ProbeRecord
  <2>4. Shows(co_console_op(Probe, m), r, k) = co_console_op(Probe, m).buffer[i]
    BY <1>2, <2>3, ProbeShows
  <2>5. i \in lo..hi <=> lo <= i /\ i <= hi
    BY <1>2 DEF ProbeCells
  <2> HIDE DEF i
  <2> QED
    BY <1>2, <2>2, <2>3, <2>4, <2>5
<1>5. CASE m.type = "SCROLL_UP"
  <2> DEFINE whole == m.t = 0 /\ m.b = 3
             from == IF whole THEN 0 ELSE 4 + 2 * m.t
             to == 4 + 2 * m.b
             s == 2 * m.lines
  <2>1. co_console_op(Probe, m) = Filled(memmove(Probe, from, from + s, to - from - s), (to - s)..(to - 1), 0)
    BY <1>1, <1>3, <1>5, ProbeIs DEF co_console_op, scroll_up, WholeScreen
  <2>2. /\ from \in ProbeCells /\ from + s \in ProbeCells /\ to - from - s \in Int /\ to - s \in Int /\ to - 1 \in Int
        /\ from + (to - from - s) <= 10 /\ (from + s) + (to - from - s) <= 10
    <3>1. from \in Int /\ 0 <= from /\ from <= 4 + 2 * m.t /\ to \in Int /\ s \in Int
      BY <1>0
    <3>2. 4 + 2 * m.t + s < to /\ 0 < s /\ to <= 10
      BY <1>0
    <3>3. 4 + 2 * m.t \in Int
      BY <1>0
    <3> HIDE DEF from, to, s
    <3> QED
      BY <3>1, <3>2, <3>3 DEF ProbeCells
  <2>3. Shows(co_console_op(Probe, m), r, k) =
          IF to - s <= i /\ i <= to - 1 THEN 0
          ELSE IF from <= i /\ i < from + (to - from - s) THEN Probe.buffer[(from + s) + i - from] ELSE Probe.buffer[i]
    <3> HIDE DEF from, to, s, i
    <3> QED
      BY <1>4, <2>1, <2>2
  <2>4. \A q \in (-2)..2 : Shows(Probe, q, k) = Probe.buffer[4 + 2 * q + k]
    BY <1>2, ProbeIs, ProbeShows
  <2> DEFINE first == IF whole THEN -2 ELSE m.t
  <2>5. /\ r \notin first..(m.b - 1) => ~(to - s <= i /\ i <= to - 1) /\ ~(from <= i /\ i < from + (to - from - s))
        /\ r \in first..(m.b - 1) /\ r + m.lines \in first..(m.b - 1) =>
             /\ ~(to - s <= i /\ i <= to - 1) /\ from <= i /\ i < from + (to - from - s)
             /\ (from + s) + i - from = 4 + 2 * (r + m.lines) + k /\ r + m.lines \in (-2)..2
        /\ r \in first..(m.b - 1) /\ r + m.lines \notin first..(m.b - 1) => to - s <= i /\ i <= to - 1
    <3>1. \A q \in Int : q \in first..(m.b - 1) <=> first <= q /\ q <= m.b - 1
      BY <1>0
    <3>2. /\ r <= m.b - 1 - m.lines <=> i < to - s
          /\ r <= m.b - 1 <=> i < to
          /\ first <= r <=> from <= i
          /\ first <= r => first <= r + m.lines
          /\ r + m.lines \in Int /\ i \in Int /\ from \in Int /\ to \in Int /\ s \in Int /\ first \in Int
          /\ s + i = 4 + 2 * (r + m.lines) + k
      BY <1>0
    <3>3. first <= r /\ r + m.lines <= m.b - 1 => r + m.lines \in (-2)..2
      BY <1>0
    <3>4. r + m.lines <= m.b - 1 <=> r <= m.b - 1 - m.lines
      BY <1>0
    <3>5. (r + m.lines <= m.b - 1 => r <= m.b - 1) /\ from + s < to /\ s > 0
      BY <1>0
    <3> HIDE DEF from, to, s, i, first
    <3>6. r + m.lines \in Int /\ r \in Int
      BY <1>0
    <3>7. /\ (from + s) + i - from = s + i /\ from + (to - from - s) = to - s
          /\ i <= to - 1 <=> i < to
          /\ to - s <= i <=> ~(i < to - s)
          /\ i < from => i < to - s
          /\ i < to - s => i < to
      BY <3>2, <3>5
    <3> QED
      BY <3>1, <3>2, <3>3, <3>4, <3>5, <3>6, <3>7
  <2>6. first = IF m.t = 0 /\ m.b = Probe.y THEN Probe.y - Probe.max_y ELSE m.t
    BY ProbeIs
  <2> HIDE DEF from, to, s, i, first
  <2> QED
    BY <1>2, <1>5, <2>3, <2>4, <2>5, <2>6
<1>6. CASE m.type = "SCROLL_DOWN"
  <2> DEFINE from == 4 + 2 * m.t
             to == 4 + 2 * m.b
             s == 2 * m.lines
  <2>1. co_console_op(Probe, m) = Filled(memmove(Probe, from + s, from, to - from - s), from..(from + s - 1), 0)
    BY <1>1, <1>3, <1>6, ProbeIs DEF co_console_op, scroll_down
  <2>2. /\ from \in ProbeCells /\ from + s \in ProbeCells /\ to - from - s \in Int /\ from + s - 1 \in Int /\ from \in Int
        /\ from + (to - from - s) <= 10 /\ (from + s) + (to - from - s) <= 10
    <3>1. from \in Int /\ 0 <= from /\ to \in Int /\ s \in Int /\ from + s < to /\ 0 < s /\ to <= 10
      BY <1>0
    <3> HIDE DEF from, to, s
    <3> QED
      BY <3>1 DEF ProbeCells
  <2>3. Shows(co_console_op(Probe, m), r, k) =
          IF from <= i /\ i <= from + s - 1 THEN 0
          ELSE IF from + s <= i /\ i < (from + s) + (to - from - s) THEN Probe.buffer[from + i - (from + s)] ELSE Probe.buffer[i]
    <3> HIDE DEF from, to, s, i
    <3> QED
      BY <1>4, <2>1, <2>2
  <2>4. \A q \in (-2)..2 : Shows(Probe, q, k) = Probe.buffer[4 + 2 * q + k]
    BY <1>2, ProbeIs, ProbeShows
  <2>5. /\ r \notin m.t..(m.b - 1) => ~(from <= i /\ i <= from + s - 1) /\ ~(from + s <= i /\ i < (from + s) + (to - from - s))
        /\ r \in m.t..(m.b - 1) /\ r - m.lines \in m.t..(m.b - 1) =>
             /\ ~(from <= i /\ i <= from + s - 1) /\ from + s <= i /\ i < (from + s) + (to - from - s)
             /\ from + i - (from + s) = 4 + 2 * (r - m.lines) + k /\ r - m.lines \in (-2)..2
        /\ r \in m.t..(m.b - 1) /\ r - m.lines \notin m.t..(m.b - 1) => from <= i /\ i <= from + s - 1
    <3>1. \A q \in Int : q \in m.t..(m.b - 1) <=> m.t <= q /\ q <= m.b - 1
      BY <1>0
    <3>2. /\ r <= m.b - 1 <=> i < to
          /\ m.t <= r <=> from <= i
          /\ m.t <= r - m.lines <=> from + s <= i
          /\ i \in Int /\ from \in Int /\ to \in Int /\ s \in Int
          /\ i - s = 4 + 2 * (r - m.lines) + k
      BY <1>0
    <3>3. m.t <= r - m.lines /\ r <= m.b - 1 => r - m.lines \in (-2)..2 /\ r - m.lines <= m.b - 1 /\ m.t <= r
      BY <1>0
    <3>4. r <= m.b - 1 => r - m.lines <= m.b - 1
      BY <1>0
    <3>5. m.t <= r - m.lines => m.t <= r
      BY <1>0
    <3>8. r <= m.b - 1 /\ m.t <= r /\ ~(m.t <= r - m.lines) => from <= i /\ i <= from + s - 1
      BY <1>0
    <3>9. from + s < to /\ s > 0
      BY <1>0
    <3> HIDE DEF from, to, s, i
    <3>6. r - m.lines \in Int /\ r \in Int
      BY <1>0
    <3>7. /\ from + i - (from + s) = i - s /\ (from + s) + (to - from - s) = to
          /\ i <= from + s - 1 <=> ~(from + s <= i)
          /\ i <= from + s - 1 => i < to
          /\ from + s <= i => from <= i
      BY <3>2, <3>9
    <3> QED
      BY <3>1, <3>2, <3>3, <3>4, <3>5, <3>6, <3>7, <3>8
  <2>6. m.type # "SCROLL_UP"
    BY <1>6
  <2> HIDE DEF from, to, s, i
  <2> QED
    BY <1>2, <2>3, <2>4, <2>5, <2>6
<1> QED
  BY <1>1, <1>5, <1>6

LEMMA ClearExact ==
  ASSUME NEW m \in Rectangles(Probe, "CLEAR", {0}), NEW r \in Row(Probe), NEW k \in Column(Probe)
  PROVE  Shows(co_console_op(Probe, m), r, k) =
           IF r \in m.t..m.b /\ k \in m.l..m.r THEN 0 ELSE Shows(Probe, r, k)
<1> DEFINE i == 4 + 2 * r + k
           cells == {4 + 2 * t + l : t \in m.t..m.b, l \in m.l..m.r}
<1>1. /\ m.type = "CLEAR" /\ m.t \in 0..2 /\ m.b \in 0..2 /\ m.l \in 0..1 /\ m.r \in 0..1 /\ m.cell = 0
  BY ProbeIs DEF Rectangles
<1>2. r \in (-2)..2 /\ k \in 0..1 /\ i \in ProbeCells /\ Shows(Probe, r, k) = Probe.buffer[i]
  BY ProbeIs, ProbeShows
<1>3. co_console_op(Probe, m) = Filled(Probe, cells, 0)
  BY <1>1, ProbeIs DEF co_console_op, clear
<1>4. i \in cells <=> r \in m.t..m.b /\ k \in m.l..m.r
  <2>1. ASSUME i \in cells PROVE r \in m.t..m.b /\ k \in m.l..m.r
    <3>1. PICK t \in m.t..m.b, l \in m.l..m.r : i = 4 + 2 * t + l
      BY <2>1
    <3>2. r = t /\ k = l
      BY <1>1, <1>2, <3>1
    <3> QED
      BY <3>2
  <2> QED
    BY <2>1
<1>5. /\ co_console_op(Probe, m) \in ProbeRecord
      /\ \A j \in ProbeCells : co_console_op(Probe, m).buffer[j] = IF j \in cells THEN 0 ELSE Probe.buffer[j]
  <2>1. 0 \in Nat
    OBVIOUS
  <2> HIDE DEF cells
  <2> QED
    BY <1>3, <2>1, ProbeIs, FilledIs DEF ProbeRecord
<1>6. Shows(co_console_op(Probe, m), r, k) = co_console_op(Probe, m).buffer[i]
  BY <1>2, <1>5, ProbeShows
<1> HIDE DEF i, cells
<1> QED
  BY <1>2, <1>4, <1>5, <1>6

(* The rows that bmove has written after k of its n rows, and none of them is read later. *)
Written(m, n, k, q) ==
  IF m.y < m.t THEN m.y <= q /\ q < m.y + k ELSE m.y + n - k <= q /\ q < m.y + n

LEMMA WrittenMore ==
  ASSUME NEW m, m.y \in Nat, m.t \in Nat, NEW n \in Nat, NEW k \in Nat, k < n, NEW q \in Int
  PROVE  LET row == MovedRow(m, n, k + 1)
         IN /\ row \in Nat /\ row < n
            /\ Written(m, n, k + 1, q) <=> Written(m, n, k, q) \/ q = m.y + row
            /\ ~Written(m, n, k, m.t + row)
            /\ ~Written(m, n, 0, q)
            /\ Written(m, n, n, q) <=> m.y <= q /\ q < m.y + n
<1>1. CASE m.y < m.t
  <2>1. MovedRow(m, n, k + 1) = k
    BY <1>1 DEF MovedRow
  <2> QED
    BY <1>1, <2>1 DEF Written
<1>2. CASE ~(m.y < m.t)
  <2>1. MovedRow(m, n, k + 1) = n - k - 1
    BY <1>2 DEF MovedRow
  <2> QED
    BY <1>2, <2>1 DEF Written
<1> QED
  BY <1>1, <1>2

LEMMA MoveExact ==
  ASSUME NEW m \in Moves(Probe), NEW r \in Row(Probe), NEW k \in Column(Probe)
  PROVE  Shows(co_console_op(Probe, m), r, k) =
           IF r \in m.y..(m.y + m.b - m.t) /\ k \in m.x..(m.x + m.r - m.l)
           THEN Shows(Probe, m.t + r - m.y, m.l + k - m.x) ELSE Shows(Probe, r, k)
<1> DEFINE n == m.b - m.t + 1
           f == Moved(Probe, m, n)
           Was(q, c) == Shows(Probe, q, c)
           Now(j, q, c) == IF Written(m, n, j, q) /\ m.x <= c /\ c <= m.x + m.r - m.l
                           THEN Was(m.t + q - m.y, m.l + c - m.x) ELSE Was(q, c)
           Done(j) == j <= n => /\ f[j] \in ProbeRecord
                                /\ \A q \in (-2)..2, c \in 0..1 : Shows(f[j], q, c) = Now(j, q, c)
           T == {j \in Nat : Done(j)}
<1>1. /\ m.y \in Nat /\ m.x \in Nat /\ m.t \in Nat /\ m.l \in Nat /\ m.b \in Nat /\ m.r \in Nat
      /\ m.b < 3 /\ m.r < 2 /\ m.t <= m.b /\ m.l <= m.r
      /\ m.y + m.b - m.t < 3 /\ m.x + m.r - m.l < 2 /\ m.type = "BMOVE"
  <2>1. /\ m.y \in 0..2 /\ m.x \in 0..1 /\ m.t \in 0..2 /\ m.l \in 0..1 /\ m.b \in 0..2 /\ m.r \in 0..1
        /\ m.t <= m.b /\ m.l <= m.r /\ m.type = "BMOVE"
        /\ m.y + m.b - m.t < 3 /\ m.x + m.r - m.l < 2
    <3>1. (3 - 1 = 2) /\ (2 - 1 = 1)
      OBVIOUS
    <3> QED
      BY <3>1, ProbeIs DEF Moves
  <2> QED
    BY <2>1, SMTT(60)
<1>2. n \in Nat /\ n > 0 /\ m.y + n <= 3 /\ m.t + n <= 3 /\ n - 1 = m.b - m.t
  BY <1>1
<1>3. \A j \in 0..n : f[j] = MoveRow(Probe, m, n, f, j)
  <2>1. f = [j \in 0..n |-> MoveRow(Probe, m, n, f, j)]
    BY <1>2, MovedExists
  <2> HIDE DEF f, n
  <2> QED
    BY <2>1
<1>4. co_console_op(Probe, m) = f[n]
  BY <1>1, BmoveIs DEF co_console_op
<1> HIDE DEF f
<1>5. Done(0)
  <2>1. 0 \in 0..n /\ 0 < n /\ 0 \in Nat
    BY <1>2
  <2>2. f[0] = Probe
    BY <1>3, <2>1 DEF MoveRow
  <2>3. \A q \in (-2)..2 : ~Written(m, n, 0, q)
    BY <1>1, <1>2, <2>1, WrittenMore
  <2> QED
    BY <2>2, <2>3, ProbeIs
<1>6. ASSUME NEW j \in Nat, Done(j) PROVE Done(j + 1)
  <2> SUFFICES ASSUME j + 1 <= n
               PROVE  /\ f[j + 1] \in ProbeRecord
                      /\ \A q \in (-2)..2, c \in 0..1 : Shows(f[j + 1], q, c) = Now(j + 1, q, c)
    OBVIOUS
  <2>0. j < n /\ j <= n
    BY <1>2
  <2>1. PICK row : row = MovedRow(m, n, j + 1)
    OBVIOUS
  <2>2. /\ row \in Nat /\ row < n /\ ~Written(m, n, j, m.t + row)
        /\ \A q \in Int : Written(m, n, j + 1, q) <=> Written(m, n, j, q) \/ q = m.y + row
    <3> HIDE DEF n
    <3> QED
      BY <1>1, <1>2, <2>0, <2>1, WrittenMore
  <2>3. f[j] \in ProbeRecord /\ \A q \in (-2)..2, c \in 0..1 : Shows(f[j], q, c) = Now(j, q, c)
    BY <1>6, <2>0
  <2> DEFINE dest == 4 + 2 * (m.y + row) + m.x
             from == 4 + 2 * (m.t + row) + m.l
             count == m.r - m.l + 1
  <2>4. f[j + 1] = memmove(f[j], dest, from, count)
    <3>1. j + 1 \in 0..n /\ j + 1 # 0 /\ (j + 1) - 1 = j
      BY <1>2
    <3> QED
      BY <1>3, <2>1, <3>1, ProbeIs DEF MoveRow
  <2>5. /\ dest \in Int /\ from \in Int /\ count \in Int /\ from >= 4 /\ from + count <= 10
    <3>1. m.t + row <= 2 /\ m.y + row \in Nat /\ m.t + row \in Nat
      BY <1>1, <1>2, <2>2
    <3>2. from + count = 4 + 2 * (m.t + row) + m.r + 1 /\ m.r + 1 <= 2
      BY <1>1, <3>1
    <3> QED
      BY <1>1, <3>1, <3>2
  <2>6. \A i \in ProbeCells : dest <= i /\ i < dest + count => from + i - dest \in ProbeCells
    <3> HIDE DEF dest, from, count
    <3> QED
      BY <2>5 DEF ProbeCells
  <2>7. /\ f[j + 1] \in ProbeRecord
        /\ \A i \in ProbeCells : f[j + 1].buffer[i] =
             IF dest <= i /\ i < dest + count THEN f[j].buffer[from + i - dest] ELSE f[j].buffer[i]
    <3> HIDE DEF dest, from, count
    <3> QED
      BY <2>3, <2>4, <2>5, <2>6, ProbeIs, MemmoveIs DEF ProbeRecord
  <2>8. ASSUME NEW q \in (-2)..2, NEW c \in 0..1 PROVE Shows(f[j + 1], q, c) = Now(j + 1, q, c)
    <3> DEFINE i == 4 + 2 * q + c
    <3>1. i \in ProbeCells /\ Shows(f[j + 1], q, c) = f[j + 1].buffer[i] /\ Shows(f[j], q, c) = f[j].buffer[i]
      BY <2>3, <2>7, ProbeShows
    <3>2. (dest <= i /\ i < dest + count) <=> (q = m.y + row /\ m.x <= c /\ c <= m.x + m.r - m.l)
      <4>1. /\ m.x + m.r - m.l <= 1 /\ dest + count = 4 + 2 * (m.y + row) + (m.x + m.r - m.l) + 1
            /\ m.y + row \in Nat /\ q \in Int /\ c \in Int /\ 0 <= c /\ c <= 1
            /\ m.x + m.r - m.l \in Nat
        BY <1>1, <2>2
      <4>2. PICK d \in Nat : d = m.y + row
        BY <4>1
      <4>3. PICK e \in Nat : e = m.x + m.r - m.l
        BY <4>1
      <4>4. dest = 4 + 2 * d + m.x /\ dest + count = 4 + 2 * d + e + 1 /\ e <= 1
        BY <4>1, <4>2, <4>3
      <4> HIDE DEF dest, count
      <4>5. (dest <= i /\ i < dest + count) <=> (q = d /\ m.x <= c /\ c <= e)
        BY <1>1, <4>1, <4>4
      <4> QED
        BY <4>2, <4>3, <4>5
    <3>3. CASE dest <= i /\ i < dest + count
      <4>1. q = m.y + row /\ m.x <= c /\ c <= m.x + m.r - m.l
        BY <3>2, <3>3
      <4>2. m.t + row \in (-2)..2 /\ m.l + c - m.x \in 0..1 /\ m.t + q - m.y = m.t + row /\ q \in Int
        <5>1. m.t + row \in 0..2
          <6>1. m.t + row < 3 /\ m.t + row \in Nat
            BY <1>1, <1>2, <2>2
          <6> QED
            BY <6>1
        <5>2. c \in Int /\ q \in Int
          OBVIOUS
        <5>3. m.l + c - m.x \in 0..1
          <6>1. 0 <= m.l + c - m.x /\ m.l + c - m.x <= m.r /\ m.l + c - m.x \in Int
            BY <1>1, <4>1, <5>2
          <6>2. m.r \in Int /\ m.r <= 1
            BY <1>1
          <6> QED
            BY <6>1, <6>2
        <5>4. m.t + q - m.y = m.t + row
          BY <1>1, <2>2, <4>1
        <5> QED
          BY <5>1, <5>2, <5>3, <5>4
      <4>3. from + i - dest = 4 + 2 * (m.t + row) + (m.l + c - m.x)
        BY <1>1, <2>2, <4>1
      <4>4. Shows(f[j], m.t + row, m.l + c - m.x) = f[j].buffer[from + i - dest]
        <5>1. f[j] \in ProbeRecord
          BY <2>3
        <5>2. PICK a \in (-2)..2 : a = m.t + row
          BY <4>2
        <5>3. PICK b \in 0..1 : b = m.l + c - m.x
          BY <4>2
        <5>4. Shows(f[j], a, b) = f[j].buffer[4 + 2 * a + b]
          BY <5>1, ProbeShows
        <5> HIDE DEF dest, from, i
        <5>5. from + i - dest = 4 + 2 * a + b
          BY <4>3, <5>2, <5>3
        <5> QED
          BY <5>2, <5>3, <5>4, <5>5
      <4>5. Shows(f[j], m.t + row, m.l + c - m.x) = Was(m.t + row, m.l + c - m.x)
        <5> HIDE DEF Was
        <5> QED
          BY <2>2, <2>3, <4>2
      <4>6. Written(m, n, j + 1, q)
        BY <2>2, <4>1, <4>2
      <4>7. Now(j + 1, q, c) = Was(m.t + row, m.l + c - m.x)
        <5> HIDE DEF Was, n
        <5> QED
          BY <4>1, <4>2, <4>6
      <4> HIDE DEF i, dest, from, count, Was, Now
      <4> QED
        BY <2>7, <3>1, <3>3, <4>4, <4>5, <4>7
    <3>4. CASE ~(dest <= i /\ i < dest + count)
      <4>1. Shows(f[j + 1], q, c) = Shows(f[j], q, c)
        BY <2>7, <3>1, <3>4
      <4>2. Shows(f[j], q, c) = Now(j, q, c)
        BY <2>3
      <4>3. q \in Int /\ ~(q = m.y + row /\ m.x <= c /\ c <= m.x + m.r - m.l)
        BY <3>2, <3>4
      <4>4. Now(j + 1, q, c) = Now(j, q, c)
        <5> HIDE DEF Was, n
        <5> QED
          BY <2>2, <4>3
      <4> QED
        BY <4>1, <4>2, <4>4
    <3> QED
      BY <3>3, <3>4
  <2> QED
    BY <2>7, <2>8
<1> HIDE DEF Done
<1>7. 0 \in T /\ \A j \in Nat : j \in T => j + 1 \in T
  <2>1. \A j \in Nat : j + 1 \in Nat
    OBVIOUS
  <2> QED
    BY <1>5, <1>6, <2>1, Zenon
<1>8. Nat \subseteq T
  <2> HIDE DEF T
  <2> QED
    BY <1>7, ByInduction
<1>9. Done(n)
  <2> HIDE DEF n
  <2> QED
    BY <1>2, <1>8
<1>10. r \in (-2)..2 /\ k \in 0..1 /\ n <= n
  BY <1>2, ProbeIs
<1>11. Shows(f[n], r, k) = Now(n, r, k)
  BY <1>9, <1>10 DEF Done
<1>12. /\ Written(m, n, n, r) <=> r \in m.y..(m.y + m.b - m.t)
       /\ m.x <= k /\ k <= m.x + m.r - m.l <=> k \in m.x..(m.x + m.r - m.l)
  <2>1. Written(m, n, n, r) <=> m.y <= r /\ r < m.y + n
    BY <1>1, <1>2, <1>10 DEF Written
  <2> QED
    BY <1>1, <1>10, <2>1
<1> HIDE DEF n, Was
<1> QED
  BY <1>4, <1>11, <1>12 DEF Was

(* What process and driver show agrees, and the operations do to the cells what the guest means:
   ConsoleAgrees, whatever the size of the screen and of the scrollback, for any number of
   processes that attach, evict each other and detach in the middle of a GET_CONSOLE. *)
THEOREM PicturesAgree == ConsoleSpec => []ConsoleAgrees
<1>1. OpsExact
  BY ScrollExact, MoveExact, ClearExact DEF OpsExact
<1>2. ConsoleInv => ConsoleAgrees
  <2> SUFFICES ASSUME ConsoleInv, NEW c \in ConClient, conModule = c, ~Getting(c), conPending = NoOp, ~torn
               PROVE  /\ \A i \in FirstSent..(ConX * ConMaxY - 1) : picture.buffer[i] = shadow.buffer[i]
                      /\ picture.cursor = shadow.cursor
    BY <1>1 DEF ConsoleAgrees
  <2>1. c # "none" /\ Truth = shadow /\ conGet[c].sent = GetMessages
    BY ConsoleAssumption, ConsoleSizes DEF ConsoleInv, ConsoleTyped, Truth, GetRecord, Getting, GetMessages
  <2>2. Alike(AllSent, picture, shadow) /\ picture.cursor = shadow.cursor
    BY <2>1, SentLast DEF ConsoleInv, PictureRight
  <2>3. \A i \in FirstSent..(ConX * ConMaxY - 1) : i \in AllSent
    BY AllSentIs, ConsoleSizes DEF AllSent, Cells
  <2> QED
    BY <2>2, <2>3 DEF Alike
<1> QED
  BY <1>2, ConsoleInvariant, PTL

(* Shadow and picture stay consoles of the configured size, whatever the guest writes, and a
   GET_CONSOLE sends no more than its messages (ConsoleTypeOK). *)
THEOREM ConsoleTyping == ConsoleSpec => []ConsoleTypeOK
<1>1. ConsoleInv => ConsoleTypeOK
  <2> SUFFICES ASSUME ConsoleInv PROVE ConsoleTypeOK
    OBVIOUS
  <2>1. ConsoleTyped
    BY DEF ConsoleInv
  <2>2. \A con \in {shadow, picture} :
          con.buffer \in [0..(ConX * ConMaxY - 1) -> ConCell \union {0}] /\ con.cursor \in {0, 1}
    BY <2>1 DEF ConsoleTyped, ConsoleRecord, ConsoleOf, Cells
  <2>3. \A c \in ConClient : conGet[c].sent \in 0..GetMessages /\ conGet[c].stale \in BOOLEAN
    BY <2>1 DEF ConsoleTyped, GetRecord
  <2> QED
    BY <2>1, <2>2, <2>3 DEF ConsoleTyped, ConsoleTypeOK
<1> QED
  BY <1>1, ConsoleInvariant, PTL

-----------------------------------------------------------------------------
(* The TAP driver: its two queues and the reads, senders, cancellations, closes and halts
   that meet in them. *)

(* Queues of numbers that grow, and of packets whose numbers grow. *)
Growing(s) == \A i, j \in 1..Len(s) : i < j => s[i] < s[j]
PacketsGrow(s) == \A i, j \in 1..Len(s) : i < j => s[i].no < s[j].no

(* The items of a queue, as a set. *)
LEMMA SetOf ==
  ASSUME NEW S, NEW s \in Seq(S)
  PROVE  /\ ToSet(s) \in SUBSET S /\ Len(s) \in Nat
         /\ \A x : x \in ToSet(s) <=> \E i \in 1..Len(s) : s[i] = x
         /\ s = <<>> <=> ToSet(s) = {}
         /\ s # <<>> => 1 \in 1..Len(s)
BY DEF ToSet

(* The head of a queue and what is left. *)
LEMMA HeadIs ==
  ASSUME NEW S, NEW s \in Seq(S), s # <<>>
  PROVE  /\ Head(s) \in ToSet(s) /\ Head(s) = s[1] /\ Tail(s) \in Seq(S) /\ Len(Tail(s)) = Len(s) - 1
         /\ \A i \in 1..Len(Tail(s)) : Tail(s)[i] = s[i + 1]
         /\ \A x : x \in ToSet(s) <=> x = Head(s) \/ x \in ToSet(Tail(s))
<1>1. /\ Head(s) = s[1] /\ Tail(s) \in Seq(S) /\ Len(Tail(s)) = Len(s) - 1 /\ Len(s) \in Nat /\ Len(s) > 0
      /\ \A i \in 1..Len(Tail(s)) : Tail(s)[i] = s[i + 1]
  OBVIOUS
<1>2. 1 \in 1..Len(s)
  BY <1>1
<1>3. Head(s) \in ToSet(s)
  BY <1>1, <1>2, SetOf
<1>4. ASSUME NEW x \in ToSet(Tail(s)) PROVE x \in ToSet(s)
  <2>1. PICK i \in 1..Len(Tail(s)) : Tail(s)[i] = x
    BY <1>1, SetOf
  <2>2. i + 1 \in 1..Len(s) /\ s[i + 1] = x
    BY <1>1, <2>1
  <2> QED
    BY <2>2, SetOf
<1>5. ASSUME NEW x \in ToSet(s), x # Head(s) PROVE x \in ToSet(Tail(s))
  <2>1. PICK i \in 1..Len(s) : s[i] = x
    BY SetOf
  <2>2. i # 1
    BY <1>1, <1>5, <2>1
  <2>3. i - 1 \in 1..Len(Tail(s)) /\ Tail(s)[i - 1] = x
    BY <1>1, <2>1, <2>2
  <2>4. \E k \in 1..Len(Tail(s)) : Tail(s)[k] = x
    BY <2>3
  <2>5. Tail(s) \in Seq(S)
    BY <1>1
  <2> HIDE <1>1
  <2> QED
    BY <2>4, <2>5, SetOf, Zenon
<1> QED
  BY <1>1, <1>3, <1>4, <1>5

(* The head of a queue of growing numbers is the least of them. *)
LEMMA HeadLeast ==
  ASSUME NEW s \in Seq(Nat), s # <<>>, Growing(s)
  PROVE  Growing(Tail(s)) /\ \A x \in ToSet(Tail(s)) : Head(s) < x
<1>1. /\ Head(s) = s[1] /\ Tail(s) \in Seq(Nat) /\ Len(Tail(s)) = Len(s) - 1 /\ Len(s) \in Nat /\ Len(s) > 0
      /\ \A i \in 1..Len(Tail(s)) : Tail(s)[i] = s[i + 1]
  BY HeadIs
<1>2. ASSUME NEW i \in 1..Len(Tail(s)), NEW j \in 1..Len(Tail(s)), i < j PROVE Tail(s)[i] < Tail(s)[j]
  <2>1. i + 1 \in 1..Len(s) /\ j + 1 \in 1..Len(s) /\ i + 1 < j + 1
    BY <1>1, <1>2
  <2>2. s[i + 1] < s[j + 1]
    BY <2>1 DEF Growing
  <2> QED
    BY <1>1, <2>2
<1>3. ASSUME NEW x \in ToSet(Tail(s)) PROVE Head(s) < x
  <2>1. PICK i \in 1..Len(Tail(s)) : Tail(s)[i] = x
    BY <1>1, SetOf
  <2>2. i + 1 \in 1..Len(s) /\ 1 \in 1..Len(s) /\ 1 < i + 1 /\ s[i + 1] = x
    BY <1>1, <2>1
  <2>3. s[1] < s[i + 1]
    BY <2>2 DEF Growing
  <2> QED
    BY <1>1, <2>2, <2>3
<1> QED
  BY <1>2, <1>3 DEF Growing

(* The first packet of a queue in order is the oldest. *)
LEMMA FirstPacket ==
  ASSUME NEW S, NEW s \in Seq([no : Nat, session : S]), s # <<>>, PacketsGrow(s)
  PROVE  PacketsGrow(Tail(s)) /\ \A x \in ToSet(Tail(s)) : Head(s).no < x.no
<1>1. /\ Head(s) = s[1] /\ Tail(s) \in Seq([no : Nat, session : S]) /\ Len(Tail(s)) = Len(s) - 1
      /\ Len(s) \in Nat /\ Len(s) > 0
      /\ \A i \in 1..Len(Tail(s)) : Tail(s)[i] = s[i + 1]
  BY HeadIs
<1>2. ASSUME NEW i \in 1..Len(Tail(s)), NEW j \in 1..Len(Tail(s)), i < j PROVE Tail(s)[i].no < Tail(s)[j].no
  <2>1. i + 1 \in 1..Len(s) /\ j + 1 \in 1..Len(s) /\ i + 1 < j + 1
    BY <1>1, <1>2
  <2>2. s[i + 1].no < s[j + 1].no
    BY <2>1 DEF PacketsGrow
  <2> QED
    BY <1>1, <2>2
<1>3. ASSUME NEW x \in ToSet(Tail(s)) PROVE Head(s).no < x.no
  <2>0. Tail(s) \in Seq([no : Nat, session : S])
    BY <1>1
  <2>1. PICK i \in 1..Len(Tail(s)) : Tail(s)[i] = x
    BY <2>0, SetOf, ZenonT(30)
  <2>2. i + 1 \in 1..Len(s) /\ 1 \in 1..Len(s) /\ 1 < i + 1 /\ s[i + 1] = x
    BY <1>1, <2>1
  <2>3. s[1].no < s[i + 1].no
    BY <2>2 DEF PacketsGrow
  <2> QED
    BY <1>1, <2>2, <2>3
<1> QED
  BY <1>2, <1>3 DEF PacketsGrow

(* What is put at the end of a queue. *)
LEMMA PutLast ==
  ASSUME NEW S, NEW s \in Seq(S), NEW x \in S
  PROVE  /\ Append(s, x) \in Seq(S) /\ Len(Append(s, x)) = Len(s) + 1 /\ Append(s, x)[Len(s) + 1] = x
         /\ \A i \in 1..Len(s) : Append(s, x)[i] = s[i]
         /\ \A y : y \in ToSet(Append(s, x)) <=> y = x \/ y \in ToSet(s)
         /\ Append(s, x) # <<>>
<1>1. /\ Append(s, x) \in Seq(S) /\ Len(Append(s, x)) = Len(s) + 1 /\ Append(s, x)[Len(s) + 1] = x
      /\ Len(s) \in Nat
      /\ \A i \in 1..Len(s) : Append(s, x)[i] = s[i]
  OBVIOUS
<1>2. ASSUME NEW y PROVE y \in ToSet(Append(s, x)) <=> y = x \/ y \in ToSet(s)
  <2>1. y \in ToSet(Append(s, x)) <=> \E i \in 1..(Len(s) + 1) : Append(s, x)[i] = y
    BY <1>1, SetOf
  <2>2. y \in ToSet(s) <=> \E i \in 1..Len(s) : s[i] = y
    BY SetOf
  <2>3. \A i : i \in 1..(Len(s) + 1) <=> i \in 1..Len(s) \/ i = Len(s) + 1
    BY <1>1
  <2> QED
    BY <1>1, <2>1, <2>2, <2>3
<1>3. Append(s, x) # <<>>
  BY <1>1
<1> QED
  BY <1>1, <1>2, <1>3

(* A number that is greater than all goes to the end. *)
LEMMA GrowingLast ==
  ASSUME NEW s \in Seq(Nat), NEW x \in Nat, Growing(s), \A y \in ToSet(s) : y < x
  PROVE  Growing(Append(s, x))
<1>1. Len(Append(s, x)) = Len(s) + 1 /\ Len(s) \in Nat /\ Append(s, x)[Len(s) + 1] = x
      /\ \A i \in 1..Len(s) : Append(s, x)[i] = s[i]
  BY PutLast
<1>2. \A i \in 1..Len(s) : s[i] < x
  BY SetOf
<1> SUFFICES ASSUME NEW i \in 1..(Len(s) + 1), NEW j \in 1..(Len(s) + 1), i < j
             PROVE  Append(s, x)[i] < Append(s, x)[j]
  BY <1>1 DEF Growing
<1>3. i \in 1..Len(s)
  BY <1>1
<1>4. CASE j = Len(s) + 1
  BY <1>1, <1>2, <1>3, <1>4
<1>5. CASE j # Len(s) + 1
  <2>1. j \in 1..Len(s)
    BY <1>1, <1>5
  <2> QED
    BY <1>1, <1>3, <2>1 DEF Growing
<1> QED
  BY <1>4, <1>5

(* So does a packet that is newer than all. *)
LEMMA PacketLast ==
  ASSUME NEW S, NEW s \in Seq([no : Nat, session : S]), NEW x \in [no : Nat, session : S], PacketsGrow(s),
         \A y \in ToSet(s) : y.no < x.no
  PROVE  PacketsGrow(Append(s, x))
<1>1. Len(Append(s, x)) = Len(s) + 1 /\ Len(s) \in Nat /\ Append(s, x)[Len(s) + 1] = x
      /\ \A i \in 1..Len(s) : Append(s, x)[i] = s[i]
  BY PutLast
<1>2. \A i \in 1..Len(s) : s[i].no < x.no
  BY SetOf
<1> SUFFICES ASSUME NEW i \in 1..(Len(s) + 1), NEW j \in 1..(Len(s) + 1), i < j
             PROVE  Append(s, x)[i].no < Append(s, x)[j].no
  BY <1>1 DEF PacketsGrow
<1>3. i \in 1..Len(s)
  BY <1>1
<1>4. CASE j = Len(s) + 1
  BY <1>1, <1>2, <1>3, <1>4
<1>5. CASE j # Len(s) + 1
  <2>1. PICK n \in Nat : n = Len(s)
    BY <1>1
  <2>2. j \in 1..(n + 1) /\ j # n + 1
    BY <1>5, <2>1
  <2>3. j \in 1..n
    BY <2>2
  <2> QED
    BY <1>1, <1>3, <2>1, <2>3 DEF PacketsGrow
<1> QED
  BY <1>4, <1>5

(* Slot by slot: what the queue keeps when an item is taken out of it. *)
KeptStep(q, item, f, i) ==
  IF i = 0 THEN <<>> ELSE IF q[i] = item THEN f[i - 1] ELSE Append(f[i - 1], q[i])
Kept(q, item, n) == CHOOSE f : f = [i \in 0..n |-> KeptStep(q, item, f, i)]

(* The slots of QueueExtract are well defined. *)
LEMMA KeptExists ==
  ASSUME NEW q, NEW item, NEW n \in Nat
  PROVE  Kept(q, item, n) = [i \in 0..n |-> KeptStep(q, item, Kept(q, item, n), i)]
<1> DEFINE Upto(k) == \E f : f = [i \in 0..k |-> KeptStep(q, item, f, i)]
           T == {k \in Nat : Upto(k)}
<1>1. Upto(0)
  <2> DEFINE g == [i \in 0..0 |-> <<>>]
  <2>1. \A f : [i \in 0..0 |-> KeptStep(q, item, f, i)] = g
    BY DEF KeptStep
  <2> QED
    BY <2>1
<1>2. ASSUME NEW k \in Nat, Upto(k) PROVE Upto(k + 1)
  <2>1. PICK f : f = [i \in 0..k |-> KeptStep(q, item, f, i)]
    BY <1>2
  <2> DEFINE g == [i \in 0..(k + 1) |-> IF i <= k THEN f[i] ELSE KeptStep(q, item, f, i)]
  <2>2. ASSUME NEW i \in 0..(k + 1) PROVE g[i] = KeptStep(q, item, g, i)
    <3>1. CASE i = 0
      <4>1. 0 \in 0..k /\ 0 \in 0..(k + 1)
        OBVIOUS
      <4>2. f[0] = <<>>
        BY <2>1, <4>1 DEF KeptStep
      <4> QED
        BY <3>1, <4>1, <4>2 DEF KeptStep
    <3>2. CASE i # 0
      <4>1. i - 1 \in 0..(k + 1) /\ i - 1 \in 0..k /\ i - 1 <= k
        BY <3>2
      <4>2. g[i - 1] = f[i - 1]
        BY <4>1
      <4>3. KeptStep(q, item, g, i) = KeptStep(q, item, f, i)
        <5> HIDE DEF g
        <5> QED
          BY <3>2, <4>2 DEF KeptStep
      <4>4. CASE i <= k
        <5>1. i \in 0..k
          BY <4>4
        <5>2. f[i] = KeptStep(q, item, f, i)
          BY <2>1, <5>1
        <5> QED
          BY <4>3, <4>4, <5>2
      <4>5. CASE ~(i <= k)
        BY <4>3, <4>5
      <4> QED
        BY <4>4, <4>5
    <3> QED
      BY <3>1, <3>2
  <2>3. g = [i \in 0..(k + 1) |-> g[i]]
    OBVIOUS
  <2> HIDE DEF g
  <2>4. g = [i \in 0..(k + 1) |-> KeptStep(q, item, g, i)]
    BY <2>2, <2>3
  <2> QED
    BY <2>4
<1> HIDE DEF Upto
<1>3. 0 \in T /\ \A k \in Nat : k \in T => k + 1 \in T
  <2>1. \A k \in Nat : k + 1 \in Nat
    OBVIOUS
  <2> QED
    BY <1>1, <1>2, <2>1, Zenon
<1>4. Nat \subseteq T
  <2> HIDE DEF T
  <2> QED
    BY <1>3, ByInduction
<1>5. Upto(n)
  BY <1>4
<1> QED
  BY <1>5 DEF Upto, Kept

(* An item is taken out of a queue of growing numbers, and nothing else. *)
LEMMA ExtractIs ==
  ASSUME NEW q \in Seq(Nat), NEW item, Growing(q)
  PROVE  /\ QueueExtract(q, item) \in Seq(Nat) /\ Len(QueueExtract(q, item)) <= Len(q)
         /\ Growing(QueueExtract(q, item))
         /\ \A x : x \in ToSet(QueueExtract(q, item)) <=> x \in ToSet(q) /\ x # item
<1>0. PICK n : n = Len(q)
  OBVIOUS
<1>1. n \in Nat /\ \A i \in 1..n : q[i] \in Nat
  BY <1>0
<1>2. PICK f : f = Kept(q, item, n)
  OBVIOUS
<1>3. QueueExtract(q, item) = f[n]
  BY <1>0, <1>2 DEF QueueExtract, Kept, KeptStep
<1>4. f = [i \in 0..n |-> KeptStep(q, item, f, i)]
  BY <1>1, <1>2, KeptExists
<1>5. \A i \in 0..n : f[i] = KeptStep(q, item, f, i)
  <2> SUFFICES ASSUME NEW i \in 0..n PROVE f[i] = KeptStep(q, item, f, i)
    OBVIOUS
  <2>1. [j \in 0..n |-> KeptStep(q, item, f, j)][i] = KeptStep(q, item, f, i)
    OBVIOUS
  <2> QED
    BY <1>4, <2>1, Zenon
<1> DEFINE Done(k) == k <= n =>
             /\ f[k] \in Seq(Nat) /\ Len(f[k]) <= k /\ Growing(f[k])
             /\ \A x : x \in ToSet(f[k]) <=> x # item /\ \E i \in 1..k : q[i] = x
           T == {k \in Nat : Done(k)}
<1>6. Done(0)
  <2>1. 0 \in 0..n
    BY <1>1
  <2>2. f[0] = <<>>
    BY <1>5, <2>1 DEF KeptStep
  <2>3. <<>> \in Seq(Nat) /\ Len(<<>>) = 0 /\ ToSet(<<>>) = {} /\ Growing(<<>>)
    BY DEF ToSet, Growing
  <2> QED
    BY <2>2, <2>3
<1>7. ASSUME NEW k \in Nat, Done(k) PROVE Done(k + 1)
  <2> SUFFICES ASSUME k + 1 <= n
               PROVE  /\ f[k + 1] \in Seq(Nat) /\ Len(f[k + 1]) <= k + 1 /\ Growing(f[k + 1])
                      /\ \A x : x \in ToSet(f[k + 1]) <=> x # item /\ \E i \in 1..(k + 1) : q[i] = x
    OBVIOUS
  <2>1. /\ f[k] \in Seq(Nat) /\ Len(f[k]) <= k /\ Growing(f[k])
        /\ \A x : x \in ToSet(f[k]) <=> x # item /\ \E i \in 1..k : q[i] = x
    BY <1>1, <1>7
  <2>2. k + 1 \in 0..n /\ k + 1 \in 1..n /\ k + 1 # 0 /\ (k + 1) - 1 = k
    BY <1>1
  <2>3. f[k + 1] = IF q[k + 1] = item THEN f[k] ELSE Append(f[k], q[k + 1])
    <3>1. f[k + 1] = KeptStep(q, item, f, k + 1)
      BY <1>5, <2>2
    <3> QED
      BY <2>2, <3>1 DEF KeptStep
  <2>4. \A x : (\E i \in 1..(k + 1) : q[i] = x) <=> (\E i \in 1..k : q[i] = x) \/ q[k + 1] = x
    OBVIOUS
  <2> HIDE DEF Done
  <2>5. CASE q[k + 1] = item
    BY <2>1, <2>3, <2>4, <2>5
  <2>6. CASE q[k + 1] # item
    <3>1. q[k + 1] \in Nat
      BY <1>1, <2>2
    <3>2. ASSUME NEW y \in ToSet(f[k]) PROVE y < q[k + 1]
      <4>1. PICK i \in 1..k : q[i] = y
        BY <2>1
      <4>2. i \in 1..Len(q) /\ k + 1 \in 1..Len(q) /\ i < k + 1
        BY <1>0, <1>1, <2>2, <4>1
      <4> QED
        BY <4>1, <4>2 DEF Growing
    <3>3. Growing(Append(f[k], q[k + 1]))
      BY <2>1, <3>1, <3>2, GrowingLast
    <3>4. /\ Append(f[k], q[k + 1]) \in Seq(Nat) /\ Len(Append(f[k], q[k + 1])) = Len(f[k]) + 1
          /\ \A y : y \in ToSet(Append(f[k], q[k + 1])) <=> y = q[k + 1] \/ y \in ToSet(f[k])
      BY <2>1, <3>1, PutLast
    <3>5. f[k + 1] = Append(f[k], q[k + 1])
      BY <2>3, <2>6
    <3>6. \A x : x \in ToSet(f[k + 1]) <=> x # item /\ \E i \in 1..(k + 1) : q[i] = x
      BY <2>1, <2>4, <2>6, <3>4, <3>5
    <3>7. Len(f[k]) \in Nat
      BY <2>1
    <3> QED
      BY <2>1, <3>3, <3>4, <3>5, <3>6, <3>7
  <2> QED
    BY <2>5, <2>6
<1> HIDE DEF Done
<1>8. 0 \in T /\ \A k \in Nat : k \in T => k + 1 \in T
  <2>1. \A k \in Nat : k + 1 \in Nat
    OBVIOUS
  <2> QED
    BY <1>6, <1>7, <2>1, Zenon
<1>9. Nat \subseteq T
  <2> HIDE DEF T
  <2> QED
    BY <1>8, ByInduction
<1>10. n \in T
  BY <1>1, <1>9
<1>11. Done(n)
  BY <1>10
<1>12. /\ f[n] \in Seq(Nat) /\ Len(f[n]) <= n /\ Growing(f[n])
       /\ \A x : x \in ToSet(f[n]) <=> x # item /\ \E i \in 1..n : q[i] = x
  BY <1>1, <1>11 DEF Done
<1> QED
  BY <1>0, <1>3, <1>12, SetOf

-----------------------------------------------------------------------------
Places == {"new", "reading", "queued", "popped", "done"}
Packet == [no : Nat, session : Nat]
ReadOf == [at : Places, routine : BOOLEAN, packet : Packet, session : Nat, ended : Nat]

TapTyped ==
  /\ tapHeld \subseteq ToSet(TapSteps)
  /\ tap \in [interface : BOOLEAN, running : BOOLEAN, opens : BOOLEAN, media : BOOLEAN,
              always : BOOLEAN, halt : BOOLEAN]
  /\ tapPackets \in Seq(Packet) /\ Len(tapPackets) <= PacketQueueSize
  /\ tapIrps \in Seq(Nat) /\ Len(tapIrps) <= IrpQueueSize
  /\ tapRead \in [1..MaxReads -> ReadOf]
  /\ tapReads \in 0..MaxReads /\ tapSession \in Nat /\ tapSent \in Nat
  /\ tapHandle \in {"none", "open", "closing"} /\ tapCancel \in 0..MaxReads
  /\ tapSender \in [TapSender -> [at : {"idle", "checked", "pairs", "completes"},
                                  session : Nat, read : Nat]]
  /\ tapClose \in {"no", "irps", "packets", "flushed"}
  /\ tapHalt \in {"not created", "failed", "no", "irps", "packets", "flushed", "freed", "gone"}
  /\ tapMishaps \subseteq {"beside", "late packet", "lookup", "late call"}

(* A read that has been issued and is past its second section. *)
Past(r) == r \in 1..tapReads /\ tapRead[r].at \notin {"new", "reading"}

ReadsRight ==
  \A r \in 1..MaxReads :
    /\ r > tapReads => tapRead[r] = NewRead
    /\ r <= tapReads => tapRead[r].at # "new"
    /\ tapRead[r].at = "reading" =>
         /\ r = tapReads /\ tapRead[r].ended = 0 /\ tapRead[r].packet = NoPacket
         /\ ~tapRead[r].routine /\ tapRead[r].session = tapSession /\ tapHandle = "open"
    /\ tapRead[r].routine => Past(r)

ElsewhereRight ==
  /\ tapCancel # 0 => Past(tapCancel)
  /\ \A t \in TapSender : tapSender[t].at = "completes" => Past(tapSender[t].read)

IrpsRight ==
  /\ Growing(tapIrps)
  /\ \A r \in ToSet(tapIrps) :
       Past(r) /\ tapRead[r].packet = NoPacket /\ tapRead[r].session = tapSession

OrderRight ==
  /\ PacketsGrow(tapPackets)
  /\ \A p \in ToSet(tapPackets) : 1 <= p.no /\ p.no <= tapSent
  /\ \A r \in 1..MaxReads : tapRead[r].packet # NoPacket =>
       /\ 1 <= tapRead[r].packet.no /\ tapRead[r].packet.no <= tapSent
       /\ \A i \in ToSet(tapIrps) : r < i
       /\ \A p \in ToSet(tapPackets) : tapRead[r].packet.no < p.no
       /\ \A s \in 1..MaxReads : r < s /\ tapRead[s].packet # NoPacket =>
            tapRead[r].packet.no < tapRead[s].packet.no

CardRight ==
  /\ tap.halt <=> tapHalt \in {"irps", "packets", "flushed", "freed", "gone"}
  /\ tap.halt => ~tap.interface /\ ~tap.running
  /\ ~tap.halt => (tap.opens <=> tapHandle # "none")
  /\ tapClose # "no" => ~tap.opens
  /\ ~tap.opens /\ tapClose = "no" /\ ~tap.halt => (tap.media => tap.always)
  /\ tapHalt \in {"freed", "gone"} => tapHeld \subseteq {"adapter", "instance"}
  /\ tapHalt = "gone" => tapHeld = {}
  /\ tapHalt = "failed" => tapHeld \subseteq {"adapter"}

EmptiedRight ==
  /\ tapHandle = "none" /\ tapClose # "irps" /\ ~tap.halt => tapIrps = <<>>
  /\ tapHalt \in {"packets", "flushed", "freed", "gone"} => tapIrps = <<>>
  /\ tapHalt \in {"flushed", "freed", "gone"} => tapPackets = <<>>

(* While no cancellation failed to find its adapter. *)
OnceRight ==
  "lookup" \notin tapMishaps =>
    /\ \A r \in 1..MaxReads :
         /\ tapRead[r].at = "queued" <=> r \in ToSet(tapIrps)
         /\ tapRead[r].ended = (IF tapRead[r].at = "done" THEN 1 ELSE 0)
    /\ \A t \in TapSender : tapSender[t].at = "completes" =>
         /\ tapRead[tapSender[t].read].at = "popped"
         /\ \A u \in TapSender : u # t /\ tapSender[u].at = "completes" =>
              tapSender[u].read # tapSender[t].read

BesideRight ==
  tapPackets # <<>> /\ tapIrps # <<>> /\ "beside" \notin tapMishaps =>
    \E t \in TapSender : tapSender[t].at \in {"pairs", "completes"}

LateRight ==
  "late packet" \notin tapMishaps =>
    /\ \A p \in ToSet(tapPackets) : p.session = tapSession
    /\ ~tap.opens /\ tapClose = "no" /\ ~tap.halt => tapPackets = <<>>
    /\ tapClose = "flushed" => tapPackets = <<>>
    /\ \A r \in 1..MaxReads : tapRead[r].packet # NoPacket =>
         tapRead[r].packet.session = tapRead[r].session

TapInv == /\ TapTyped /\ ReadsRight /\ ElsewhereRight /\ IrpsRight /\ OrderRight
          /\ CardRight /\ EmptiedRight /\ OnceRight /\ BesideRight /\ LateRight

(* What completing a read makes of it. *)
LEMMA EndedIs ==
  ASSUME NEW r \in ReadOf
  PROVE  /\ Ended(r) \in ReadOf /\ Ended(r).at = "done" /\ Ended(r).routine = FALSE
         /\ Ended(r).packet = r.packet /\ Ended(r).session = r.session /\ Ended(r).ended = r.ended + 1
<1>1. r.ended + 1 \in Nat
  BY DEF ReadOf
<1>2. Ended(r).at = "done" /\ Ended(r).routine = FALSE /\ Ended(r).ended = r.ended + 1
      /\ Ended(r).packet = r.packet /\ Ended(r).session = r.session
  BY DEF ReadOf, Ended
<1>3. Ended(r) \in ReadOf
  BY <1>1 DEF ReadOf, Places, Ended
<1> QED
  BY <1>2, <1>3

LEMMA EndedWithIs ==
  ASSUME NEW r \in ReadOf, NEW p \in Packet
  PROVE  /\ EndedWith(r, p) \in ReadOf /\ EndedWith(r, p).at = "done" /\ EndedWith(r, p).routine = FALSE
         /\ EndedWith(r, p).packet = p /\ EndedWith(r, p).session = r.session
         /\ EndedWith(r, p).ended = r.ended + 1
<1> DEFINE e == Ended(r)
<1>1. /\ e \in ReadOf /\ e.at = "done" /\ e.routine = FALSE /\ e.session = r.session /\ e.ended = r.ended + 1
  BY EndedIs
<1>2. EndedWith(r, p) = [e EXCEPT !.packet = p]
  BY DEF EndedWith
<1> HIDE DEF e
<1>3. [e EXCEPT !.packet = p] \in ReadOf
  BY <1>1 DEF ReadOf
<1> QED
  BY <1>1, <1>2, <1>3 DEF ReadOf

(* A read nobody has issued. *)
LEMMA NewReadIs ==
  /\ NewRead \in ReadOf /\ NoPacket \in Packet /\ NoPacket.no = 0 /\ NoPacket.session = 0
  /\ NewRead.at = "new" /\ NewRead.packet = NoPacket /\ NewRead.routine = FALSE /\ NewRead.ended = 0
BY DEF NewRead, NoPacket, ReadOf, Places, Packet

(* What the reads that are past their second section keep, and the others too. *)
Keeps(old, new) ==
  /\ new \in ReadOf
  /\ old.at \in {"new", "reading"} => new = old
  /\ old.at \notin {"new", "reading"} =>
       new.at \notin {"new", "reading"} /\ new.packet = old.packet /\ new.session = old.session
AllKeep ==
  /\ tapReads' = tapReads /\ tapSession' = tapSession /\ tapHandle' = tapHandle
  /\ tapRead' \in [1..MaxReads -> ReadOf]
  /\ \A r \in 1..MaxReads : Keeps(tapRead[r], tapRead'[r])

(* Steps that leave the reads alone, or complete one that is past its second section. *)
LEMMA AllKeepSame ==
  ASSUME TapTyped, UNCHANGED <<tapRead, tapReads, tapSession, tapHandle>>
  PROVE  AllKeep
BY DEF AllKeep, Keeps, TapTyped

LEMMA PastIn ==
  ASSUME TapTyped, NEW r, Past(r)
  PROVE  r \in 1..MaxReads /\ tapRead[r] \in ReadOf /\ tapRead[r].at \notin {"new", "reading"}
<1>1. tapReads \in 0..MaxReads /\ MaxReads \in Nat /\ tapRead \in [1..MaxReads -> ReadOf]
  BY TapAssumption DEF TapTyped
<1>2. r \in 1..tapReads /\ tapRead[r].at \notin {"new", "reading"}
  BY DEF Past
<1>3. r \in 1..MaxReads
  BY <1>1, <1>2
<1> QED
  BY <1>1, <1>2, <1>3

LEMMA AllKeepEnded ==
  ASSUME TapTyped, UNCHANGED <<tapReads, tapSession, tapHandle>>,
         NEW r, Past(r), tapRead' = [tapRead EXCEPT ![r] = Ended(@)]
  PROVE  AllKeep /\ tapRead'[r] = Ended(tapRead[r])
         /\ \A s \in 1..MaxReads : s # r => tapRead'[s] = tapRead[s]
<1>1. r \in 1..MaxReads /\ tapRead[r] \in ReadOf /\ tapRead[r].at \notin {"new", "reading"}
  BY PastIn
<1>2. /\ tapRead'[r] = Ended(tapRead[r])
      /\ \A s \in 1..MaxReads : s # r => tapRead'[s] = tapRead[s]
      /\ DOMAIN tapRead' = 1..MaxReads
      /\ tapRead' = [s \in 1..MaxReads |-> tapRead'[s]]
  BY <1>1 DEF TapTyped
<1>3. \A s \in 1..MaxReads : tapRead'[s] \in ReadOf
  BY <1>1, <1>2, EndedIs DEF TapTyped
<1>4. \A s \in 1..MaxReads : Keeps(tapRead[s], tapRead'[s])
  BY <1>1, <1>2, <1>3, EndedIs DEF Keeps
<1>5. tapRead' \in [1..MaxReads -> ReadOf]
  BY <1>2, <1>3
<1> QED
  BY <1>2, <1>4, <1>5 DEF AllKeep

(* A read stays past its second section. *)
LEMMA PastStays ==
  ASSUME TapTyped, AllKeep, NEW r, Past(r)
  PROVE  r \in 1..MaxReads /\ r \in 1..tapReads' /\ tapRead'[r].at \notin {"new", "reading"}
         /\ tapRead'[r].packet = tapRead[r].packet /\ tapRead'[r].session = tapRead[r].session
         /\ Past(r)'
<1>1. r \in 1..MaxReads
  BY PastIn
<1> QED
  BY <1>1 DEF Past, AllKeep, Keeps

LEMMA PacketsStay ==
  ASSUME TapTyped, AllKeep
  PROVE  \A r \in 1..MaxReads : tapRead'[r].packet = tapRead[r].packet /\ tapRead'[r].session = tapRead[r].session
BY DEF AllKeep, Keeps

(* While the reads keep what they have, and the queues grow no longer. *)
(* What such steps preserve: the reads, *)
LEMMA KeptReads ==
  ASSUME TapTyped, AllKeep, ReadsRight,
         \A r \in 1..MaxReads : tapRead'[r].routine => tapRead[r].routine \/ Past(r)
  PROVE  ReadsRight'
<1> SUFFICES ASSUME NEW r \in 1..MaxReads
             PROVE  /\ r > tapReads' => tapRead'[r] = NewRead
                    /\ r <= tapReads' => tapRead'[r].at # "new"
                    /\ tapRead'[r].at = "reading" =>
                         /\ r = tapReads' /\ tapRead'[r].ended = 0 /\ tapRead'[r].packet = NoPacket
                         /\ ~tapRead'[r].routine /\ tapRead'[r].session = tapSession' /\ tapHandle' = "open"
                    /\ tapRead'[r].routine => Past(r)'
  BY DEF ReadsRight
<1>1. Keeps(tapRead[r], tapRead'[r]) /\ tapReads' = tapReads /\ tapSession' = tapSession /\ tapHandle' = tapHandle
  BY DEF AllKeep
<1>2. tapRead'[r].routine => Past(r)'
  <2> SUFFICES ASSUME tapRead'[r].routine PROVE Past(r)'
    OBVIOUS
  <2>1. Past(r)
    BY DEF ReadsRight
  <2> QED
    BY <2>1, PastStays
<1>3. CASE tapRead[r].at \in {"new", "reading"}
  BY <1>1, <1>2, <1>3 DEF Keeps, ReadsRight
<1>4. CASE tapRead[r].at \notin {"new", "reading"}
  <2>1. tapRead'[r].at \notin {"new", "reading"}
    BY <1>1, <1>4 DEF Keeps
  <2>2. ~(r > tapReads)
    BY <1>4, NewReadIs DEF ReadsRight
  <2> QED
    BY <1>1, <1>2, <2>1, <2>2
<1> QED
  BY <1>3, <1>4

(* the queue of reads, *)
LEMMA KeptIrps ==
  ASSUME TapTyped, AllKeep, IrpsRight, Growing(tapIrps'), ToSet(tapIrps') \subseteq ToSet(tapIrps)
  PROVE  IrpsRight'
<1> SUFFICES ASSUME NEW r \in ToSet(tapIrps')
             PROVE  Past(r)' /\ tapRead'[r].packet = NoPacket /\ tapRead'[r].session = tapSession'
  BY DEF IrpsRight
<1>1. Past(r) /\ tapRead[r].packet = NoPacket /\ tapRead[r].session = tapSession
  BY DEF IrpsRight
<1> QED
  BY <1>1, PastStays DEF AllKeep

(* the order in which the reads got packets, *)
LEMMA KeptOrder ==
  ASSUME TapTyped, AllKeep, OrderRight, PacketsGrow(tapPackets'), tapSent' = tapSent,
         ToSet(tapIrps') \subseteq ToSet(tapIrps), ToSet(tapPackets') \subseteq ToSet(tapPackets)
  PROVE  OrderRight'
<1>1. \A r \in 1..MaxReads : tapRead'[r].packet = tapRead[r].packet
  BY PacketsStay
<1> QED
  BY <1>1 DEF OrderRight

(* and the reads that senders and the cancel routine hold. *)
LEMMA KeptElsewhere ==
  ASSUME TapTyped, AllKeep, ElsewhereRight, tapCancel' # 0 => tapCancel' = tapCancel,
         \A t \in TapSender : tapSender'[t].at = "completes" =>
           tapSender[t].at = "completes" /\ tapSender'[t].read = tapSender[t].read
  PROVE  ElsewhereRight'
<1>1. ASSUME tapCancel' # 0 PROVE Past(tapCancel)'
  <2>1. PICK c : c = tapCancel
    OBVIOUS
  <2>2. Past(c) /\ tapCancel' = c
    BY <1>1, <2>1 DEF ElsewhereRight
  <2>3. Past(c)'
    BY <2>2, PastStays
  <2> QED
    BY <2>2, <2>3 DEF Past
<1>2. ASSUME NEW t \in TapSender, tapSender'[t].at = "completes" PROVE Past(tapSender[t].read)'
  <2>1. PICK c : c = tapSender[t].read
    OBVIOUS
  <2>2. Past(c) /\ tapSender'[t].read = c
    BY <1>2, <2>1 DEF ElsewhereRight
  <2>3. Past(c)'
    BY <2>2, PastStays
  <2> QED
    BY <2>2, <2>3 DEF Past
<1> QED
  BY <1>1, <1>2 DEF ElsewhereRight

(* What does not change keeps each part of the invariant. *)
LEMMA SameReads ==
  ASSUME ReadsRight, UNCHANGED <<tapRead, tapReads>>,
         UNCHANGED <<tapSession, tapHandle>> \/ \A r \in 1..MaxReads : tapRead[r].at # "reading"
  PROVE  ReadsRight'
BY DEF ReadsRight, Past

LEMMA SameElsewhere ==
  ASSUME ElsewhereRight, UNCHANGED <<tapRead, tapReads, tapCancel, tapSender>>
  PROVE  ElsewhereRight'
BY DEF ElsewhereRight, Past

LEMMA SameIrps ==
  ASSUME IrpsRight, UNCHANGED <<tapIrps, tapRead, tapReads>>, tapSession' = tapSession \/ tapIrps = <<>>
  PROVE  IrpsRight'
<1>1. CASE tapSession' = tapSession
  BY <1>1 DEF IrpsRight, Past
<1>2. CASE tapIrps = <<>>
  BY <1>2 DEF IrpsRight, ToSet
<1> QED
  BY <1>1, <1>2

LEMMA SameOrder ==
  ASSUME OrderRight, UNCHANGED <<tapPackets, tapSent, tapRead, tapIrps>>
  PROVE  OrderRight'
BY DEF OrderRight

LEMMA SameOnce ==
  ASSUME OnceRight, UNCHANGED <<tapRead, tapIrps, tapSender>>, "lookup" \in tapMishaps => "lookup" \in tapMishaps'
  PROVE  OnceRight'
BY DEF OnceRight

LEMMA SameBeside ==
  ASSUME BesideRight, UNCHANGED <<tapPackets, tapIrps, tapSender>>, "beside" \in tapMishaps => "beside" \in tapMishaps'
  PROVE  BesideRight'
BY DEF BesideRight

LEMMA SameCard ==
  ASSUME CardRight, UNCHANGED <<tap, tapHalt, tapHandle, tapClose, tapHeld>>
  PROVE  CardRight'
BY DEF CardRight

LEMMA SameEmptied ==
  ASSUME EmptiedRight, UNCHANGED <<tap, tapHalt, tapHandle, tapClose>>,
         tapIrps = <<>> => tapIrps' = <<>>, tapPackets = <<>> => tapPackets' = <<>>
  PROVE  EmptiedRight'
BY DEF EmptiedRight

LEMMA SameLate ==
  ASSUME LateRight, UNCHANGED <<tapPackets, tapSession, tap, tapClose, tapRead>>,
         "late packet" \in tapMishaps => "late packet" \in tapMishaps'
  PROVE  LateRight'
BY DEF LateRight

TapCard == [interface : BOOLEAN, running : BOOLEAN, opens : BOOLEAN, media : BOOLEAN,
            always : BOOLEAN, halt : BOOLEAN]

(* What AdapterCreate and CreateTapDevice allocate. *)
LEMMA StepsAre ==
  /\ ToSet(TapSteps) = {"adapter", "shutdownHandler", "name", "tapName", "linkName", "device",
                        "packetQueue", "irpQueue", "instance"}
  /\ Len(TapSteps) = 9 /\ TapSteps[9] = "instance" /\ DOMAIN TapSteps = 1..9
  /\ \A i, j \in 1..9 : TapSteps[i] = TapSteps[j] => i = j
  /\ \A i \in 1..9 : TapSteps[i] \in ToSet(TapSteps)
<1>1. /\ Len(TapSteps) = 9 /\ DOMAIN TapSteps = 1..9
      /\ TapSteps[1] = "adapter" /\ TapSteps[2] = "shutdownHandler" /\ TapSteps[3] = "name"
      /\ TapSteps[4] = "tapName" /\ TapSteps[5] = "linkName" /\ TapSteps[6] = "device"
      /\ TapSteps[7] = "packetQueue" /\ TapSteps[8] = "irpQueue" /\ TapSteps[9] = "instance"
  BY DEF TapSteps
<1>2. \A i \in 1..9 : i = 1 \/ i = 2 \/ i = 3 \/ i = 4 \/ i = 5 \/ i = 6 \/ i = 7 \/ i = 8 \/ i = 9
  OBVIOUS
<1>3. ToSet(TapSteps) = {TapSteps[i] : i \in 1..9}
  BY <1>1 DEF ToSet
<1>4. /\ 1 \in 1..9 /\ 2 \in 1..9 /\ 3 \in 1..9 /\ 4 \in 1..9 /\ 5 \in 1..9 /\ 6 \in 1..9 /\ 7 \in 1..9
      /\ 8 \in 1..9 /\ 9 \in 1..9
  OBVIOUS
<1>5. ToSet(TapSteps) = {"adapter", "shutdownHandler", "name", "tapName", "linkName", "device",
                         "packetQueue", "irpQueue", "instance"}
  BY <1>1, <1>2, <1>3, <1>4
<1>6. \A i, j \in 1..9 : TapSteps[i] = TapSteps[j] => i = j
  BY <1>1, <1>2
<1> QED
  BY <1>1, <1>3, <1>5, <1>6

(* What leaves the queues, the reads and the senders alone. *)
CardParts == TapTyped /\ CardRight /\ EmptiedRight /\ LateRight
CardOnly == UNCHANGED <<tapQueues, tapRead, tapReads, tapSent, tapSender, tapCancel>>

LEMMA CardStep ==
  ASSUME TapInv, CardOnly, tapMishaps \subseteq tapMishaps',
         UNCHANGED <<tapSession, tapHandle>> \/ \A r \in 1..MaxReads : tapRead[r].at # "reading",
         tapSession' = tapSession \/ tapIrps = <<>>,
         TapTyped', CardRight', EmptiedRight', LateRight'
  PROVE  TapInv'
<1> USE DEF CardOnly, TapInv, tapQueues
<1>1. ReadsRight'
  BY SameReads
<1>2. ElsewhereRight'
  BY SameElsewhere
<1>3. IrpsRight'
  BY SameIrps
<1>4. OrderRight'
  BY SameOrder
<1>5. OnceRight'
  BY SameOnce
<1>6. BesideRight'
  BY SameBeside
<1> QED
  BY <1>1, <1>2, <1>3, <1>4, <1>5, <1>6

(* Step by step: the card and the process. *)
LEMMA CreateStep ==
  ASSUME TapInv, TapCreate PROVE TapInv'
<1> USE DEF TapCreate, TapInv
<1>1. CardOnly /\ UNCHANGED <<tapSession, tapHandle, tapMishaps, tapClose>>
  BY DEF CardOnly, tapQueues
<1>2. PICK always \in BOOLEAN :
        tap' = [tap EXCEPT !.interface = TRUE, !.running = TRUE, !.media = always, !.always = always]
  OBVIOUS
<1>3. tap \in TapCard
  BY DEF TapTyped, TapCard
<1>4. /\ tap' \in TapCard /\ tap'.interface /\ tap'.running /\ tap'.media = tap'.always
      /\ tap'.opens = tap.opens /\ tap'.halt = tap.halt
  BY <1>2, <1>3 DEF TapCard
<1>5. TapTyped'
  BY <1>1, <1>4 DEF TapTyped, TapCard, CardOnly, tapQueues
<1>6. CardRight'
  BY <1>1, <1>4 DEF CardRight
<1>7. EmptiedRight'
  BY <1>1, <1>4 DEF EmptiedRight, CardOnly, tapQueues
<1>8. LateRight'
  BY <1>1, <1>4 DEF LateRight, CardOnly, tapQueues
<1> QED
  BY <1>1, <1>5, <1>6, <1>7, <1>8, CardStep

LEMMA CreateFailsStep ==
  ASSUME TapInv, NEW i \in DOMAIN TapSteps, TapCreateFails(i) PROVE TapInv'
<1> USE DEF TapCreateFails, TapInv
<1>1. CardOnly /\ UNCHANGED <<tapSession, tapHandle, tapMishaps, tapClose, tap>>
  BY DEF CardOnly, tapQueues
<1>2. tapHeld' \subseteq {"adapter"}
  <2>1. ASSUME NEW x \in tapHeld' PROVE x = "adapter"
    <3>1. /\ x \notin TapDeviceFreeResources \union AdapterFreeResources
          /\ x = "irpQueue" \/ \E j \in 1..(i - 1) : x = TapSteps[j]
      BY <2>1
    <3>2. PICK j \in 1..(i - 1) : x = TapSteps[j]
      BY <3>1 DEF TapDeviceFreeResources
    <3>3. i \in 1..9
      BY StepsAre
    <3>4. j \in 1..9 /\ j # 9 /\ 9 \in 1..9
      <4> HIDE DEF TapInv, TapCreateFails
      <4> QED
        BY <3>2, <3>3
    <3>5. TapSteps[j] \in ToSet(TapSteps) /\ TapSteps[j] # TapSteps[9] /\ TapSteps[9] = "instance"
      <4> HIDE DEF TapInv, TapCreateFails
      <4> QED
        BY <3>4, StepsAre
    <3>6. x \in ToSet(TapSteps) /\ x # "instance"
      BY <3>2, <3>5
    <3> QED
      BY <3>1, <3>6, StepsAre DEF TapDeviceFreeResources, AdapterFreeResources
  <2> QED
    BY <2>1
<1>3. {"adapter"} \subseteq ToSet(TapSteps)
  BY StepsAre
<1>5. TapTyped'
  BY <1>1, <1>2, <1>3 DEF TapTyped, CardOnly, tapQueues
<1>6. CardRight'
  BY <1>1, <1>2 DEF CardRight
<1>7. EmptiedRight'
  BY <1>1 DEF EmptiedRight, CardOnly, tapQueues
<1>8. LateRight'
  BY <1>1 DEF LateRight, CardOnly, tapQueues
<1> QED
  BY <1>1, <1>5, <1>6, <1>7, <1>8, CardStep

LEMMA OpenStep ==
  ASSUME TapInv, TapOpen PROVE TapInv'
<1> USE DEF TapOpen, TapInv
<1>1. CardOnly /\ UNCHANGED <<tapHeld, tapMishaps, tapClose, tapHalt>>
  BY DEF CardOnly, tapQueues
<1>2. tap \in TapCard
  BY DEF TapTyped, TapCard
<1>3. /\ tap' \in TapCard /\ tap'.opens /\ tap'.media = tap.media /\ tap'.always = tap.always
      /\ tap'.interface = tap.interface /\ tap'.running = tap.running /\ tap'.halt = tap.halt
  BY <1>2 DEF TapCard
<1>4. tapIrps = <<>> /\ \A r \in 1..MaxReads : tapRead[r].at # "reading"
  BY DEF EmptiedRight, ReadsRight
<1>9. tapSession' \in Nat
  <2>1. tapSession \in Nat /\ tapSession' = tapSession + 1
    BY DEF TapTyped
  <2> HIDE DEF TapOpen, TapInv
  <2> QED
    BY <2>1
<1>5. TapTyped'
  <2> HIDE DEF TapOpen, TapInv
  <2>1. tapHandle' = "open" /\ TapTyped
    BY DEF TapOpen, TapInv
  <2> QED
    BY <1>1, <1>3, <1>9, <2>1 DEF TapTyped, TapCard, CardOnly, tapQueues
<1>6. CardRight'
  BY <1>1, <1>3 DEF CardRight
<1>7. EmptiedRight'
  BY <1>1, <1>3 DEF EmptiedRight, CardOnly, tapQueues
<1>8. LateRight'
  <2>1. "late packet" \notin tapMishaps => tapPackets = <<>> /\ ToSet(tapPackets) = {}
    <3>1. "late packet" \notin tapMishaps => tapPackets = <<>>
      BY DEF LateRight
    <3>2. ToSet(<<>>) = {}
      BY DEF ToSet
    <3> QED
      BY <3>1, <3>2
  <2>2. LateRight /\ tapClose = "no"
    OBVIOUS
  <2>3. UNCHANGED <<tapPackets, tapMishaps, tapRead, tapClose>>
    BY <1>1 DEF CardOnly, tapQueues
  <2> HIDE DEF TapOpen, TapInv
  <2> QED
    BY <1>3, <2>1, <2>2, <2>3 DEF LateRight
<1> QED
  BY <1>1, <1>4, <1>5, <1>6, <1>7, <1>8, CardStep

LEMMA ConnectsStep ==
  ASSUME TapInv, TapConnects PROVE TapInv'
<1> USE DEF TapConnects, TapInv
<1>1. CardOnly /\ UNCHANGED <<tapHeld, tapMishaps, tapClose, tapHalt, tapSession, tapHandle>>
  BY DEF CardOnly, tapQueues
<1>2. PICK state \in BOOLEAN : tap' = [tap EXCEPT !.media = SetMediaStatus(state)]
  OBVIOUS
<1>3. tap \in TapCard /\ SetMediaStatus(state) \in BOOLEAN
  BY DEF TapTyped, TapCard, SetMediaStatus
<1>4. /\ tap' \in TapCard /\ tap'.opens = tap.opens /\ tap'.always = tap.always
      /\ tap'.interface = tap.interface /\ tap'.running = tap.running /\ tap'.halt = tap.halt
  BY <1>2, <1>3 DEF TapCard
<1>5. TapTyped'
  BY <1>1, <1>4, ZenonT(60) DEF TapTyped, TapCard, CardOnly, tapQueues
<1>6. CardRight'
  BY <1>1, <1>4 DEF CardRight
<1>7. EmptiedRight'
  BY <1>1, <1>4 DEF EmptiedRight, CardOnly, tapQueues
<1>8. LateRight'
  BY <1>1, <1>4 DEF LateRight, CardOnly, tapQueues
<1> QED
  BY <1>1, <1>5, <1>6, <1>7, <1>8, CardStep

LEMMA CloseHandleStep ==
  ASSUME TapInv, TapCloseHandle PROVE TapInv'
<1> USE DEF TapCloseHandle, TapInv
<1>1. CardOnly /\ UNCHANGED <<tap, tapHeld, tapMishaps, tapClose, tapHalt, tapSession>>
  BY DEF CardOnly, tapQueues
<1>2. \A r \in 1..MaxReads : tapRead[r].at # "reading"
  <2> SUFFICES ASSUME NEW r \in 1..MaxReads, tapRead[r].at = "reading" PROVE FALSE
    OBVIOUS
  <2>1. r = tapReads
    BY DEF ReadsRight
  <2>2. r \in 1..tapReads
    BY <2>1
  <2> QED
    BY <2>2
<1>5. TapTyped'
  BY <1>1 DEF TapTyped, TapCard, CardOnly, tapQueues
<1>6. CardRight'
  BY <1>1 DEF CardRight
<1>7. EmptiedRight'
  BY <1>1 DEF EmptiedRight, CardOnly, tapQueues
<1>8. LateRight'
  BY <1>1 DEF LateRight, CardOnly, tapQueues
<1> QED
  BY <1>1, <1>2, <1>5, <1>6, <1>7, <1>8, CardStep

LEMMA ClosesStep ==
  ASSUME TapInv, TapCloses PROVE TapInv'
<1> USE DEF TapCloses, TapInv
<1>1. CardOnly /\ UNCHANGED <<tapHeld, tapMishaps, tapHalt, tapSession>>
  BY DEF CardOnly, tapQueues
<1>2. \A r \in 1..MaxReads : tapRead[r].at # "reading"
  BY DEF ReadsRight
<1>3. tap \in TapCard
  BY DEF TapTyped, TapCard
<1>4. CASE tap.halt
  <2>1. UNCHANGED <<tap, tapClose>>
    BY <1>4
  <2>5. TapTyped'
    BY <1>1, <2>1, ZenonT(60) DEF TapTyped, TapCard, CardOnly, tapQueues
  <2>6. CardRight'
    BY <1>1, <1>4, <2>1 DEF CardRight
  <2>7. EmptiedRight'
    BY <1>1, <1>4, <2>1 DEF EmptiedRight, CardOnly, tapQueues
  <2>8. LateRight'
    BY <1>1, <2>1 DEF LateRight, CardOnly, tapQueues
  <2> QED
    BY <1>1, <1>2, <2>5, <2>6, <2>7, <2>8, CardStep
<1>5. CASE ~tap.halt
  <2>1. /\ tap' = [tap EXCEPT !.opens = FALSE] /\ tapClose' = "irps"
    BY <1>5
  <2>2. /\ tap' \in TapCard /\ ~tap'.opens /\ tap'.media = tap.media /\ tap'.always = tap.always
        /\ tap'.interface = tap.interface /\ tap'.running = tap.running /\ tap'.halt = tap.halt
    BY <1>3, <2>1 DEF TapCard
  <2>5. TapTyped'
    BY <1>1, <2>1, <2>2 DEF TapTyped, TapCard, CardOnly, tapQueues
  <2>6. CardRight'
    BY <1>1, <1>5, <2>1, <2>2 DEF CardRight
  <2>7. EmptiedRight'
    BY <1>1, <2>1, <2>2 DEF EmptiedRight, CardOnly, tapQueues
  <2>8. LateRight'
    BY <1>1, <2>1, <2>2 DEF LateRight, CardOnly, tapQueues
  <2> QED
    BY <1>1, <1>2, <2>5, <2>6, <2>7, <2>8, CardStep
<1> QED
  BY <1>4, <1>5

LEMMA CloseEndsStep ==
  ASSUME TapInv, TapCloseEnds PROVE TapInv'
<1> USE DEF TapCloseEnds, TapInv
<1>1. CardOnly /\ UNCHANGED <<tapHeld, tapMishaps, tapHalt, tapSession, tapHandle>>
  BY DEF CardOnly, tapQueues
<1>3. tap \in TapCard /\ SetMediaStatus(FALSE) \in BOOLEAN /\ (SetMediaStatus(FALSE) => tap.always)
  BY DEF TapTyped, TapCard, SetMediaStatus
<1>4. /\ tap' \in TapCard /\ tap'.opens = tap.opens /\ tap'.always = tap.always
      /\ tap'.interface = tap.interface /\ tap'.running = tap.running /\ tap'.halt = tap.halt
      /\ (tap'.media => tap'.always)
  BY <1>3 DEF TapCard
<1>5. TapTyped'
  BY <1>1, <1>4 DEF TapTyped, TapCard, CardOnly, tapQueues
<1>6. CardRight'
  BY <1>1, <1>4 DEF CardRight
<1>7. EmptiedRight'
  BY <1>1, <1>4 DEF EmptiedRight, CardOnly, tapQueues
<1>8. LateRight'
  BY <1>1, <1>4 DEF LateRight, CardOnly, tapQueues
<1> QED
  BY <1>1, <1>5, <1>6, <1>7, <1>8, CardStep

LEMMA PowerStep ==
  ASSUME TapInv, TapPower PROVE TapInv'
<1> USE DEF TapPower, TapInv
<1>1. CardOnly /\ UNCHANGED <<tapHeld, tapMishaps, tapClose, tapHalt, tapSession, tapHandle>>
  BY DEF CardOnly, tapQueues
<1>3. tap \in TapCard
  BY DEF TapTyped, TapCard
<1>4. /\ tap' \in TapCard /\ tap'.opens = tap.opens /\ tap'.always = tap.always
      /\ tap'.media = tap.media /\ tap'.running = tap.running /\ tap'.halt = tap.halt
  BY <1>3 DEF TapCard
<1>5. TapTyped'
  BY <1>1, <1>4 DEF TapTyped, TapCard, CardOnly, tapQueues
<1>6. CardRight'
  BY <1>1, <1>4 DEF CardRight
<1>7. EmptiedRight'
  BY <1>1, <1>4 DEF EmptiedRight, CardOnly, tapQueues
<1>8. LateRight'
  BY <1>1, <1>4 DEF LateRight, CardOnly, tapQueues
<1> QED
  BY <1>1, <1>5, <1>6, <1>7, <1>8, CardStep

LEMMA HaltMarksStep ==
  ASSUME TapInv, HaltMarks PROVE TapInv'
<1> USE DEF HaltMarks, TapInv
<1>1. CardOnly /\ UNCHANGED <<tapHeld, tapMishaps, tapClose, tapSession, tapHandle>>
  BY DEF CardOnly, tapQueues
<1>3. tap \in TapCard
  BY DEF TapTyped, TapCard
<1>4. /\ tap' \in TapCard /\ ~tap'.opens /\ tap'.always = tap.always /\ ~tap'.interface
      /\ tap'.media = tap.media /\ ~tap'.running /\ tap'.halt
  BY <1>3 DEF TapCard
<1>5. TapTyped'
  BY <1>1, <1>4 DEF TapTyped, TapCard, CardOnly, tapQueues
<1>6. CardRight'
  BY <1>1, <1>4 DEF CardRight
<1>7. EmptiedRight'
  BY <1>1, <1>4 DEF EmptiedRight, CardOnly, tapQueues
<1>8. LateRight'
  BY <1>1, <1>4 DEF LateRight, CardOnly, tapQueues
<1> QED
  BY <1>1, <1>5, <1>6, <1>7, <1>8, CardStep

LEMMA HaltFreesStep ==
  ASSUME TapInv, HaltFrees PROVE TapInv'
<1> USE DEF HaltFrees, TapInv
<1>1. CardOnly /\ UNCHANGED <<tap, tapClose, tapSession, tapHandle>> /\ tapMishaps \subseteq tapMishaps'
  BY DEF CardOnly, tapQueues
<1>2. tapHeld' \subseteq {"adapter", "instance"} /\ tapHeld' \subseteq tapHeld
  BY StepsAre DEF TapDeviceFreeResources, AdapterFreeResources, TapTyped
<1>5. TapTyped'
  BY <1>1, <1>2 DEF TapTyped, TapCard, CardOnly, tapQueues
<1>6. CardRight'
  BY <1>1, <1>2 DEF CardRight
<1>7. EmptiedRight'
  BY <1>1 DEF EmptiedRight, CardOnly, tapQueues
<1>8. LateRight'
  BY <1>1 DEF LateRight, CardOnly, tapQueues
<1> QED
  BY <1>1, <1>5, <1>6, <1>7, <1>8, CardStep

LEMMA HaltRemovesStep ==
  ASSUME TapInv, HaltRemoves PROVE TapInv'
<1> USE DEF HaltRemoves, TapInv
<1>1. CardOnly /\ UNCHANGED <<tap, tapClose, tapSession, tapHandle, tapMishaps>>
  BY DEF CardOnly, tapQueues
<1>2. tapHeld' = {} /\ tapHeld' \subseteq tapHeld
  BY DEF CardRight
<1>5. TapTyped'
  BY <1>1, <1>2 DEF TapTyped, TapCard, CardOnly, tapQueues
<1>6. CardRight'
  BY <1>1, <1>2 DEF CardRight
<1>7. EmptiedRight'
  BY <1>1 DEF EmptiedRight, CardOnly, tapQueues
<1>8. LateRight'
  BY <1>1 DEF LateRight, CardOnly, tapQueues
<1> QED
  BY <1>1, <1>5, <1>6, <1>7, <1>8, CardStep

(* One read ends that was to end, and is in the queue and with a sender no more. *)
LEMMA OnceEnded ==
  ASSUME TapTyped, OnceRight, NEW r \in 1..MaxReads,
         tapRead'[r] = Ended(tapRead[r]), \A s \in 1..MaxReads : s # r => tapRead'[s] = tapRead[s],
         "lookup" \in tapMishaps => "lookup" \in tapMishaps',
         "lookup" \notin tapMishaps => tapRead[r].at \in {"queued", "popped"},
         \A x : x \in ToSet(tapIrps') <=> x \in ToSet(tapIrps) /\ x # r,
         \A t \in TapSender : tapSender'[t].at = "completes" =>
           /\ tapSender[t].at = "completes" /\ tapSender'[t].read = tapSender[t].read
           /\ "lookup" \notin tapMishaps => tapSender[t].read # r /\ tapSender[t].read \in 1..MaxReads
  PROVE  OnceRight'
<1> SUFFICES ASSUME "lookup" \notin tapMishaps'
             PROVE  /\ \A s \in 1..MaxReads :
                         /\ tapRead'[s].at = "queued" <=> s \in ToSet(tapIrps')
                         /\ tapRead'[s].ended = (IF tapRead'[s].at = "done" THEN 1 ELSE 0)
                    /\ \A t \in TapSender : tapSender'[t].at = "completes" =>
                         /\ tapRead'[tapSender'[t].read].at = "popped"
                         /\ \A u \in TapSender : u # t /\ tapSender'[u].at = "completes" =>
                              tapSender'[u].read # tapSender'[t].read
  BY DEF OnceRight
<1>1. tapRead[r] \in ReadOf /\ "lookup" \notin tapMishaps
  BY DEF TapTyped
<1>2. /\ tapRead'[r].at = "done" /\ tapRead'[r].ended = tapRead[r].ended + 1 /\ tapRead[r].ended = 0
  <2>1. tapRead[r].ended = 0
    BY <1>1 DEF OnceRight
  <2>2. tapRead'[r].at = "done" /\ tapRead'[r].ended = tapRead[r].ended + 1
    <3>1. Ended(tapRead[r]).at = "done" /\ Ended(tapRead[r]).ended = tapRead[r].ended + 1
      BY <1>1, EndedIs, Zenon
    <3> QED
      BY <3>1, Zenon
  <2> QED
    BY <2>1, <2>2
<1>3. ASSUME NEW s \in 1..MaxReads
      PROVE  /\ tapRead'[s].at = "queued" <=> s \in ToSet(tapIrps')
             /\ tapRead'[s].ended = (IF tapRead'[s].at = "done" THEN 1 ELSE 0)
  <2>1. CASE s = r
    BY <1>2, <2>1
  <2>2. CASE s # r
    BY <1>1, <2>2 DEF OnceRight
  <2> QED
    BY <2>1, <2>2
<1>4. ASSUME NEW t \in TapSender, tapSender'[t].at = "completes"
      PROVE  /\ tapRead'[tapSender'[t].read].at = "popped"
             /\ \A u \in TapSender : u # t /\ tapSender'[u].at = "completes" =>
                  tapSender'[u].read # tapSender'[t].read
  BY <1>1, <1>4 DEF OnceRight
<1> QED
  BY <1>3, <1>4

(* FlushQueues, for whoever flushes. *)
FlushOnly == UNCHANGED <<tapReads, tapSession, tapSent, tapHandle, tapSender, tapCancel, tap,
                         tapHeld, tapMishaps>>

LEMMA FlushStep ==
  ASSUME TapInv, FlushOnly, NEW stage, NEW next, Flushes(stage, next)
  PROVE  /\ AllKeep /\ tapPackets' \in Seq(Packet) /\ Len(tapPackets') <= PacketQueueSize
         /\ tapIrps' \in Seq(Nat) /\ Len(tapIrps') <= IrpQueueSize
         /\ ReadsRight' /\ ElsewhereRight' /\ IrpsRight' /\ OrderRight' /\ OnceRight' /\ BesideRight'
         /\ tapIrps = <<>> => tapIrps' = <<>>
         /\ tapPackets = <<>> => tapPackets' = <<>>
         /\ ToSet(tapPackets') \subseteq ToSet(tapPackets)
         /\ next = "packets" => tapIrps' = <<>> \/ stage = "packets"
         /\ next = "flushed" => tapPackets' = <<>> /\ stage = "packets"
         /\ next = "irps" => stage = "irps"
<1> USE DEF TapInv, FlushOnly
<1>0. /\ tapIrps \in Seq(Nat) /\ tapPackets \in Seq(Packet) /\ Len(tapIrps) <= IrpQueueSize
      /\ Len(tapPackets) <= PacketQueueSize /\ IrpQueueSize \in Nat /\ PacketQueueSize \in Nat
      /\ Growing(tapIrps) /\ PacketsGrow(tapPackets)
  BY TapAssumption DEF TapTyped, IrpsRight, OrderRight
<1>1. CASE /\ stage = "irps" /\ tapIrps # <<>>
           /\ tapRead' = [tapRead EXCEPT ![Head(tapIrps)] = Ended(@)]
           /\ tapIrps' = Tail(tapIrps) /\ next = "irps" /\ UNCHANGED tapPackets
  <2>1. PICK r : r = Head(tapIrps)
    OBVIOUS
  <2>2. /\ r \in ToSet(tapIrps) /\ tapIrps' \in Seq(Nat) /\ Len(tapIrps') = Len(tapIrps) - 1
        /\ Len(tapIrps) \in Nat
        /\ \A x : x \in ToSet(tapIrps) <=> x = r \/ x \in ToSet(tapIrps')
    BY <1>0, <1>1, <2>1, HeadIs
  <2>3. Growing(tapIrps') /\ \A x \in ToSet(tapIrps') : r < x
    BY <1>0, <1>1, <2>1, HeadLeast
  <2>4. Past(r) /\ r \in 1..MaxReads
    BY <2>2, PastIn DEF IrpsRight
  <2>5. AllKeep /\ tapRead'[r] = Ended(tapRead[r]) /\ \A s \in 1..MaxReads : s # r => tapRead'[s] = tapRead[s]
    BY <1>1, <2>1, <2>4, AllKeepEnded
  <2>6. ReadsRight'
    BY <2>4, <2>5, KeptReads
  <2>7. IrpsRight' /\ OrderRight' /\ ElsewhereRight'
    BY <1>0, <1>1, <2>2, <2>3, <2>5, KeptIrps, KeptOrder, KeptElsewhere
  <2>8. \A x : x \in ToSet(tapIrps') <=> x \in ToSet(tapIrps) /\ x # r
    BY <2>2, <2>3, <2>4
  <2>9. "lookup" \notin tapMishaps => tapRead[r].at = "queued"
    BY <2>2, <2>4 DEF OnceRight
  <2>10. \A t \in TapSender : tapSender'[t].at = "completes" /\ "lookup" \notin tapMishaps =>
           tapSender[t].read # r /\ tapSender[t].read \in 1..MaxReads
    BY <2>9, PastIn DEF OnceRight, ElsewhereRight
  <2>11. OnceRight'
    BY <2>4, <2>5, <2>8, <2>9, <2>10, OnceEnded
  <2>12. BesideRight'
    BY <1>1 DEF BesideRight
  <2>13. Len(tapIrps') <= IrpQueueSize
    BY <1>0, <2>2
  <2> QED
    BY <1>0, <1>1, <2>2, <2>5, <2>6, <2>7, <2>11, <2>12, <2>13
<1>2. CASE /\ stage = "packets" /\ tapPackets # <<>>
           /\ tapPackets' = Tail(tapPackets) /\ next = "packets" /\ UNCHANGED <<tapIrps, tapRead>>
  <2>1. AllKeep
    BY <1>2, AllKeepSame
  <2>2. /\ tapPackets' \in Seq(Packet) /\ Len(tapPackets') = Len(tapPackets) - 1 /\ Len(tapPackets) \in Nat
        /\ ToSet(tapPackets') \subseteq ToSet(tapPackets)
    BY <1>0, <1>2, HeadIs
  <2>3. PacketsGrow(tapPackets')
    BY <1>0, <1>2, FirstPacket DEF Packet
  <2>4. ReadsRight' /\ ElsewhereRight' /\ IrpsRight' /\ OnceRight'
    BY <1>2, SameReads, SameElsewhere, SameIrps, SameOnce
  <2>5. OrderRight'
    BY <1>2, <2>1, <2>2, <2>3, KeptOrder
  <2>6. BesideRight'
    BY <1>2 DEF BesideRight
  <2>7. Len(tapPackets') <= PacketQueueSize
    BY <1>0, <2>2
  <2> QED
    BY <1>0, <1>2, <2>1, <2>2, <2>4, <2>5, <2>6, <2>7
<1>3. CASE /\ UNCHANGED <<tapPackets, tapIrps, tapRead>>
           /\ \/ stage = "irps" /\ tapIrps = <<>> /\ next = "packets"
              \/ stage = "packets" /\ tapPackets = <<>> /\ next = "flushed"
  <2>1. AllKeep
    BY <1>3, AllKeepSame
  <2>2. ReadsRight' /\ ElsewhereRight' /\ IrpsRight' /\ OnceRight' /\ OrderRight' /\ BesideRight'
    BY <1>3, SameReads, SameElsewhere, SameIrps, SameOnce, SameOrder, SameBeside
  <2> QED
    BY <1>0, <1>3, <2>1, <2>2
<1> QED
  BY <1>1, <1>2, <1>3 DEF Flushes, tapQueues

LEMMA CloseFlushesStep ==
  ASSUME TapInv, CloseFlushes PROVE TapInv'
<1> USE DEF CloseFlushes, TapInv
<1>1. FlushOnly /\ UNCHANGED tapHalt
  BY DEF FlushOnly
<1>2. Flushes(tapClose, tapClose') /\ tapClose' \in {"irps", "packets", "flushed"}
  OBVIOUS
<1>3. PICK stage, next : stage = tapClose /\ next = tapClose'
  OBVIOUS
<1>4. Flushes(stage, next)
  BY <1>2, <1>3
<1>5. /\ AllKeep /\ tapPackets' \in Seq(Packet) /\ Len(tapPackets') <= PacketQueueSize
      /\ tapIrps' \in Seq(Nat) /\ Len(tapIrps') <= IrpQueueSize
      /\ ReadsRight' /\ ElsewhereRight' /\ IrpsRight' /\ OrderRight' /\ OnceRight' /\ BesideRight'
      /\ tapIrps = <<>> => tapIrps' = <<>>
      /\ tapPackets = <<>> => tapPackets' = <<>>
      /\ ToSet(tapPackets') \subseteq ToSet(tapPackets)
      /\ next = "packets" => tapIrps' = <<>> \/ stage = "packets"
      /\ next = "flushed" => tapPackets' = <<>> /\ stage = "packets"
      /\ next = "irps" => stage = "irps"
  <2> HIDE DEF CloseFlushes, TapInv
  <2> QED
    BY <1>1, <1>4, FlushStep
<1>6. TapTyped'
  BY <1>1, <1>2, <1>5 DEF TapTyped, FlushOnly, AllKeep
<1>7. CardRight'
  <2>1. stage # "no"
    BY <1>4 DEF Flushes
  <2> QED
    BY <1>1, <1>2, <1>3, <2>1 DEF CardRight, FlushOnly
<1>8. EmptiedRight'
  BY <1>1, <1>2, <1>3, <1>5 DEF EmptiedRight, FlushOnly
<1>9. LateRight'
  <2>1. \A r \in 1..MaxReads : tapRead'[r].packet = tapRead[r].packet /\ tapRead'[r].session = tapRead[r].session
    BY <1>5, PacketsStay
  <2> QED
    BY <1>1, <1>2, <1>3, <1>5, <2>1 DEF LateRight, FlushOnly
<1> QED
  BY <1>5, <1>6, <1>7, <1>8, <1>9

LEMMA HaltFlushesStep ==
  ASSUME TapInv, HaltFlushes PROVE TapInv'
<1> USE DEF HaltFlushes, TapInv
<1>1. FlushOnly /\ UNCHANGED tapClose
  BY DEF FlushOnly
<1>2. Flushes(tapHalt, tapHalt') /\ tapHalt' \in {"irps", "packets", "flushed"}
  OBVIOUS
<1>3. PICK stage, next : stage = tapHalt /\ next = tapHalt'
  OBVIOUS
<1>4. Flushes(stage, next)
  BY <1>2, <1>3
<1>5. /\ AllKeep /\ tapPackets' \in Seq(Packet) /\ Len(tapPackets') <= PacketQueueSize
      /\ tapIrps' \in Seq(Nat) /\ Len(tapIrps') <= IrpQueueSize
      /\ ReadsRight' /\ ElsewhereRight' /\ IrpsRight' /\ OrderRight' /\ OnceRight' /\ BesideRight'
      /\ tapIrps = <<>> => tapIrps' = <<>>
      /\ tapPackets = <<>> => tapPackets' = <<>>
      /\ ToSet(tapPackets') \subseteq ToSet(tapPackets)
      /\ next = "packets" => tapIrps' = <<>> \/ stage = "packets"
      /\ next = "flushed" => tapPackets' = <<>> /\ stage = "packets"
      /\ next = "irps" => stage = "irps"
  <2> HIDE DEF HaltFlushes, TapInv
  <2> QED
    BY <1>1, <1>4, FlushStep
<1>6. TapTyped'
  BY <1>1, <1>2, <1>5 DEF TapTyped, FlushOnly, AllKeep
<1>0. stage \in {"irps", "packets"}
  BY <1>4 DEF Flushes
<1>7. CardRight'
  BY <1>0, <1>1, <1>2, <1>3 DEF CardRight, FlushOnly
<1>8. EmptiedRight'
  BY <1>0, <1>1, <1>2, <1>3, <1>5 DEF EmptiedRight, FlushOnly
<1>9. LateRight'
  <2>1. \A r \in 1..MaxReads : tapRead'[r].packet = tapRead[r].packet /\ tapRead'[r].session = tapRead[r].session
    BY <1>5, PacketsStay
  <2> QED
    BY <1>1, <1>2, <1>3, <1>5, <2>1 DEF LateRight, FlushOnly
<1> QED
  BY <1>5, <1>6, <1>7, <1>8, <1>9

Senders == [TapSender -> [at : {"idle", "checked", "pairs", "completes"}, session : Nat, read : Nat]]

(* The types, when the card does not change. *)
LEMMA TapTypedSame ==
  ASSUME TapTyped, UNCHANGED <<tapHeld, tap, tapHandle, tapClose, tapHalt>>,
         tapPackets' \in Seq(Packet), Len(tapPackets') <= PacketQueueSize,
         tapIrps' \in Seq(Nat), Len(tapIrps') <= IrpQueueSize,
         tapRead' \in [1..MaxReads -> ReadOf], tapReads' \in 0..MaxReads, tapSession' \in Nat, tapSent' \in Nat,
         tapCancel' \in 0..MaxReads, tapSender' \in Senders,
         tapMishaps' \subseteq {"beside", "late packet", "lookup", "late call"}
  PROVE  TapTyped'
<1>1. tapHeld' = tapHeld /\ tap' = tap /\ tapHandle' = tapHandle /\ tapClose' = tapClose /\ tapHalt' = tapHalt
  OBVIOUS
<1>2. /\ tapHeld' \subseteq ToSet(TapSteps)
      /\ tap' \in TapCard
      /\ tapHandle' \in {"none", "open", "closing"} /\ tapClose' \in {"no", "irps", "packets", "flushed"}
      /\ tapHalt' \in {"not created", "failed", "no", "irps", "packets", "flushed", "freed", "gone"}
  BY <1>1 DEF TapTyped, TapCard
<1> QED
  BY <1>2, Zenon DEF TapTyped, Senders, TapCard

LEMMA TapTypedIs ==
  ASSUME TapTyped
  PROVE  /\ tapPackets \in Seq(Packet) /\ Len(tapPackets) <= PacketQueueSize /\ Len(tapPackets) \in Nat
         /\ tapIrps \in Seq(Nat) /\ Len(tapIrps) <= IrpQueueSize /\ Len(tapIrps) \in Nat
         /\ tapRead \in [1..MaxReads -> ReadOf] /\ tapReads \in 0..MaxReads /\ tapSession \in Nat /\ tapSent \in Nat
         /\ tapCancel \in 0..MaxReads /\ tapSender \in Senders
         /\ tapMishaps \subseteq {"beside", "late packet", "lookup", "late call"}
<1>1. /\ tapPackets \in Seq(Packet) /\ Len(tapPackets) <= PacketQueueSize
      /\ tapIrps \in Seq(Nat) /\ Len(tapIrps) <= IrpQueueSize
      /\ tapRead \in [1..MaxReads -> ReadOf] /\ tapReads \in 0..MaxReads /\ tapSession \in Nat /\ tapSent \in Nat
      /\ tapCancel \in 0..MaxReads /\ tapSender \in Senders
      /\ tapMishaps \subseteq {"beside", "late packet", "lookup", "late call"}
  BY Zenon DEF TapTyped, Senders
<1>2. Len(tapPackets) \in Nat
  BY <1>1, SetOf, Zenon
<1>3. Len(tapIrps) \in Nat
  BY <1>1, SetOf, Zenon
<1> QED
  BY <1>1, <1>2, <1>3, Zenon

(* One sender moves. *)
LEMMA SenderMoves ==
  ASSUME TapTyped, NEW t \in TapSender, NEW v, tapSender' = [tapSender EXCEPT ![t] = v],
         v \in [at : {"idle", "checked", "pairs", "completes"}, session : Nat, read : Nat]
  PROVE  /\ tapSender'[t] = v /\ tapSender' \in Senders
         /\ \A u \in TapSender : u # t => tapSender'[u] = tapSender[u]
<1>1. tapSender \in Senders
  BY TapTypedIs
<1>2. tapSender' = [u \in TapSender |-> IF u = t THEN v ELSE tapSender[u]]
  BY <1>1 DEF Senders
<1>3. \A u \in TapSender :
        tapSender'[u] \in [at : {"idle", "checked", "pairs", "completes"}, session : Nat, read : Nat]
  BY <1>1, <1>2 DEF Senders
<1> QED
  BY <1>2, <1>3 DEF Senders

(* The senders. *)
LEMMA SendChecksStep ==
  ASSUME TapInv, NEW t \in TapSender, SendChecks(t) PROVE TapInv'
<1>0. TapTyped /\ ReadsRight /\ ElsewhereRight /\ IrpsRight /\ OrderRight /\ CardRight /\ EmptiedRight
      /\ OnceRight /\ BesideRight /\ LateRight
  BY DEF TapInv
<1>1. PICK v : v = [TapIdle EXCEPT !.at = "checked", !.session = tapSession]
  OBVIOUS
<1>2. /\ tapSender' = [tapSender EXCEPT ![t] = v] /\ tapSender[t] = TapIdle
      /\ UNCHANGED <<tapHeld, tap, tapPackets, tapIrps, tapRead, tapReads, tapSession, tapSent, tapHandle,
                     tapCancel, tapClose, tapHalt, tapMishaps>>
  BY <1>1 DEF SendChecks, tapQueues
<1>3. v \in [at : {"idle", "checked", "pairs", "completes"}, session : Nat, read : Nat] /\ v.at = "checked"
  BY <1>0, <1>1, TapTypedIs DEF TapIdle
<1>4. /\ tapSender'[t] = v /\ tapSender' \in Senders
      /\ \A u \in TapSender : u # t => tapSender'[u] = tapSender[u]
  BY <1>0, <1>2, <1>3, SenderMoves
<1>5. ReadsRight' /\ IrpsRight' /\ OrderRight' /\ CardRight' /\ EmptiedRight' /\ LateRight'
  BY <1>0, <1>2, SameReads, SameIrps, SameOrder, SameCard, SameEmptied, SameLate
<1>6. ElsewhereRight'
  BY <1>0, <1>2, <1>3, <1>4, AllKeepSame, KeptElsewhere
<1>7. OnceRight'
  BY <1>0, <1>2, <1>3, <1>4 DEF OnceRight
<1>8. BesideRight'
  <2>1. tapSender[t].at = "idle"
    BY <1>2 DEF TapIdle
  <2> QED
    BY <1>0, <1>2, <1>4, <2>1 DEF BesideRight
<1>9. TapTyped'
  BY <1>0, <1>2, <1>4, TapTypedIs, TapTypedSame
<1> QED
  BY <1>5, <1>6, <1>7, <1>8, <1>9 DEF TapInv

(* A packet enters the queue, or is dropped. *)
LEMMA SendPushesStep ==
  ASSUME TapInv, NEW t \in TapSender, SendPushes(t) PROVE TapInv'
<1>0. TapTyped /\ ReadsRight /\ ElsewhereRight /\ IrpsRight /\ OrderRight /\ CardRight /\ EmptiedRight
      /\ OnceRight /\ BesideRight /\ LateRight
  BY DEF TapInv
<1>9. /\ UNCHANGED <<tapHeld, tap, tapIrps, tapRead, tapReads, tapSession, tapHandle, tapCancel, tapClose, tapHalt>>
      /\ tapSender[t].at = "checked" /\ tapSender[t].session \in Nat
      /\ tapSender[t] \in [at : {"idle", "checked", "pairs", "completes"}, session : Nat, read : Nat]
  BY <1>0, TapTypedIs DEF SendPushes, Senders
<1>10. AllKeep
  BY <1>0, <1>9, AllKeepSame
<1>1. CASE ~(IS_UP /\ Len(tapPackets) < PacketQueueSize)
  <2>0. UNCHANGED <<tapSent, tapPackets, tapMishaps>> /\ tapSender' = [tapSender EXCEPT ![t] = TapIdle]
    BY <1>1 DEF SendPushes
  <2>1. /\ tapSender'[t] = TapIdle /\ tapSender' \in Senders /\ TapIdle.at = "idle"
        /\ \A u \in TapSender : u # t => tapSender'[u] = tapSender[u]
    <3>1. TapIdle \in [at : {"idle", "checked", "pairs", "completes"}, session : Nat, read : Nat] /\ TapIdle.at = "idle"
      BY DEF TapIdle
    <3> QED
      BY <1>0, <2>0, <3>1, SenderMoves
  <2>3. ReadsRight' /\ IrpsRight' /\ OrderRight' /\ CardRight' /\ EmptiedRight' /\ LateRight'
    BY <1>0, <1>9, <2>0, SameReads, SameIrps, SameOrder, SameCard, SameEmptied, SameLate
  <2>4. ElsewhereRight'
    BY <1>0, <1>9, <1>10, <2>1, KeptElsewhere
  <2>5. OnceRight'
    BY <1>0, <1>9, <2>0, <2>1 DEF OnceRight
  <2>6. BesideRight'
    BY <1>0, <1>9, <2>0, <2>1 DEF BesideRight
  <2>7. TapTyped'
    BY <1>0, <1>9, <2>0, <2>1, TapTypedIs, TapTypedSame
  <2> QED
    BY <2>3, <2>4, <2>5, <2>6, <2>7 DEF TapInv
<1>2. CASE IS_UP /\ Len(tapPackets) < PacketQueueSize
  <2> DEFINE p == [no |-> tapSent + 1, session |-> tapSender[t].session]
  <2>2. tapSent' = tapSent + 1 /\ tapPackets' = Append(tapPackets, p)
    BY <1>2 DEF SendPushes
  <2>17. /\ tapSender' = [tapSender EXCEPT ![t] = [tapSender[t] EXCEPT !.at = "pairs"]]
        /\ tapMishaps' = tapMishaps \union
             {m \in {"late packet"} : ~tap.opens \/ tapSession # tapSender[t].session}
    BY <1>2 DEF SendPushes
  <2>1. /\ tapSender'[t].at = "pairs" /\ tapSender' \in Senders
        /\ \A u \in TapSender : u # t => tapSender'[u] = tapSender[u]
    <3>1. PICK v : v = [tapSender[t] EXCEPT !.at = "pairs"]
      OBVIOUS
    <3>2. v \in [at : {"idle", "checked", "pairs", "completes"}, session : Nat, read : Nat] /\ v.at = "pairs"
      BY <1>9, <3>1
    <3> QED
      BY <1>0, <2>17, <3>1, <3>2, SenderMoves
  <2>3. /\ tapPackets \in Seq(Packet) /\ Len(tapPackets) \in Nat /\ tapSent \in Nat
        /\ PacketsGrow(tapPackets) /\ tapSender[t].session \in Nat /\ PacketQueueSize \in Nat
    BY <1>0, <1>9, TapTypedIs, TapAssumption DEF OrderRight
  <2>4. p \in Packet /\ p.no = tapSent + 1 /\ p.session = tapSender[t].session
    <3>1. tapSent + 1 \in Nat
      BY <2>3
    <3> QED
      BY <2>3, <3>1 DEF Packet
  <2> HIDE DEF p
  <2>5. /\ tapPackets' \in Seq(Packet) /\ Len(tapPackets') = Len(tapPackets) + 1
        /\ \A y : y \in ToSet(tapPackets') <=> y = p \/ y \in ToSet(tapPackets)
    BY <2>2, <2>3, <2>4, PutLast
  <2>6. \A y \in ToSet(tapPackets) : y.no < p.no /\ y.no \in Nat
    <3> SUFFICES ASSUME NEW y \in ToSet(tapPackets) PROVE y.no < p.no /\ y.no \in Nat
      OBVIOUS
    <3>1. y \in Packet
      BY <2>3, SetOf
    <3>2. y.no <= tapSent /\ y.no \in Nat
      BY <1>0, <3>1 DEF OrderRight, Packet
    <3> QED
      BY <2>3, <2>4, <3>2
  <2>7. PacketsGrow(tapPackets')
    BY <2>2, <2>3, <2>4, <2>6, PacketLast DEF Packet
  <2>8. OrderRight'
    <3>1. ASSUME NEW y \in ToSet(tapPackets') PROVE 1 <= y.no /\ y.no <= tapSent'
      <4>1. CASE y = p
        BY <2>2, <2>3, <2>4, <4>1
      <4>2. CASE y \in ToSet(tapPackets)
        <5>1. 1 <= y.no /\ y.no <= tapSent /\ y.no \in Nat
          BY <1>0, <2>6, <4>2 DEF OrderRight
        <5> QED
          BY <2>2, <2>3, <5>1
      <4> QED
        BY <2>5, <4>1, <4>2
    <3>2. ASSUME NEW r \in 1..MaxReads, tapRead[r].packet # NoPacket
          PROVE  /\ 1 <= tapRead[r].packet.no /\ tapRead[r].packet.no <= tapSent'
                 /\ \A i \in ToSet(tapIrps) : r < i
                 /\ \A y \in ToSet(tapPackets') : tapRead[r].packet.no < y.no
                 /\ \A s \in 1..MaxReads : r < s /\ tapRead[s].packet # NoPacket =>
                      tapRead[r].packet.no < tapRead[s].packet.no
      <4>1. tapRead[r].packet.no \in Nat
        BY <1>0 DEF TapTyped, ReadOf, Packet
      <4>2. /\ 1 <= tapRead[r].packet.no /\ tapRead[r].packet.no <= tapSent
            /\ \A i \in ToSet(tapIrps) : r < i
            /\ \A y \in ToSet(tapPackets) : tapRead[r].packet.no < y.no
            /\ \A s \in 1..MaxReads : r < s /\ tapRead[s].packet # NoPacket =>
                 tapRead[r].packet.no < tapRead[s].packet.no
        BY <1>0, <3>2 DEF OrderRight
      <4>3. tapRead[r].packet.no <= tapSent' /\ tapRead[r].packet.no < p.no
        BY <2>2, <2>3, <2>4, <4>1, <4>2
      <4> QED
        BY <2>5, <4>2, <4>3
    <3> QED
      BY <1>9, <2>7, <3>1, <3>2 DEF OrderRight
  <2>10. ReadsRight' /\ IrpsRight' /\ CardRight'
    BY <1>0, <1>9, SameReads, SameIrps, SameCard
  <2>11. ElsewhereRight'
    BY <1>0, <1>9, <1>10, <2>1, KeptElsewhere
  <2>12. OnceRight'
    <3>1. "lookup" \in tapMishaps => "lookup" \in tapMishaps'
      BY <2>17
    <3> QED
      BY <1>0, <1>9, <2>1, <3>1 DEF OnceRight
  <2>13. BesideRight'
    BY <2>1 DEF BesideRight
  <2>14. EmptiedRight'
    BY <1>0, <1>2, <1>9 DEF EmptiedRight, CardRight, IS_UP
  <2>15. LateRight'
    <3>1. "late packet" \notin tapMishaps' =>
            "late packet" \notin tapMishaps /\ tap.opens /\ p.session = tapSession
      BY <2>4, <2>17
    <3>2. tapClose # "no" => ~tap.opens
      BY <1>0 DEF CardRight
    <3> QED
      BY <1>0, <1>9, <2>5, <3>1, <3>2 DEF LateRight
  <2>16. TapTyped'
    <3>0. Len(tapPackets) < PacketQueueSize
      BY <1>2
    <3>1. tapSent' \in Nat /\ Len(tapPackets') <= PacketQueueSize
      BY <2>2, <2>3, <2>5, <3>0
    <3>2. tapMishaps' \subseteq {"beside", "late packet", "lookup", "late call"}
      BY <1>0, <2>17, TapTypedIs
    <3> QED
      BY <1>0, <1>9, <2>1, <2>5, <3>1, <3>2, TapTypedIs, TapTypedSame
  <2> QED
    BY <2>8, <2>10, <2>11, <2>12, <2>13, <2>14, <2>15, <2>16 DEF TapInv
<1> QED
  BY <1>1, <1>2

(* A sender completes the read it paired. *)
LEMMA SendCompletesStep ==
  ASSUME TapInv, NEW t \in TapSender, SendCompletes(t) PROVE TapInv'
<1> USE DEF SendCompletes, TapInv, tapQueues
<1>0. PICK r : r = tapSender[t].read
  OBVIOUS
<1>1. /\ tapSender'[t].at = "pairs" /\ tapSender[t].at = "completes"
      /\ \A u \in TapSender : u # t => tapSender'[u] = tapSender[u]
      /\ tapSender' \in [TapSender -> [at : {"idle", "checked", "pairs", "completes"},
                                       session : Nat, read : Nat]]
  BY ZenonT(60) DEF TapTyped
<1>2. Past(r) /\ r \in 1..MaxReads
  BY <1>0, <1>1, PastIn DEF ElsewhereRight
<1>3. AllKeep /\ tapRead'[r] = Ended(tapRead[r]) /\ \A s \in 1..MaxReads : s # r => tapRead'[s] = tapRead[s]
  BY <1>0, <1>2, AllKeepEnded
<1>4. Growing(tapIrps) /\ PacketsGrow(tapPackets)
  BY DEF IrpsRight, OrderRight
<1>5. ReadsRight' /\ IrpsRight' /\ OrderRight' /\ ElsewhereRight'
  BY <1>1, <1>2, <1>3, <1>4, KeptReads, KeptIrps, KeptOrder, KeptElsewhere
<1>6. "lookup" \notin tapMishaps => tapRead[r].at = "popped" /\ r \notin ToSet(tapIrps)
  BY <1>0, <1>1, <1>2 DEF OnceRight
<1>7. ASSUME NEW u \in TapSender, tapSender'[u].at = "completes"
      PROVE  /\ tapSender[u].at = "completes" /\ tapSender'[u].read = tapSender[u].read
             /\ "lookup" \notin tapMishaps => tapSender[u].read # r /\ tapSender[u].read \in 1..MaxReads
  <2>1. u # t /\ tapSender'[u] = tapSender[u]
    BY <1>1, <1>7
  <2>2. "lookup" \notin tapMishaps => tapSender[u].read # r
    BY <1>0, <1>1, <1>7, <2>1 DEF OnceRight
  <2>3. tapSender[u].read \in 1..MaxReads
    BY <1>7, <2>1, PastIn DEF ElsewhereRight
  <2> QED
    BY <1>7, <2>1, <2>2, <2>3
<1>8. OnceRight'
  <2>1. CASE "lookup" \in tapMishaps
    BY <2>1 DEF OnceRight
  <2>2. CASE "lookup" \notin tapMishaps
    <3>1. \A x : x \in ToSet(tapIrps') <=> x \in ToSet(tapIrps) /\ x # r
      BY <1>6, <2>2
    <3> QED
      BY <1>2, <1>3, <1>6, <1>7, <3>1, OnceEnded
  <2> QED
    BY <2>1, <2>2
<1>9. BesideRight'
  BY <1>1 DEF BesideRight
<1>10. CardRight' /\ EmptiedRight'
  BY SameCard, SameEmptied
<1>11. LateRight'
  <2>1. \A s \in 1..MaxReads : tapRead'[s].packet = tapRead[s].packet /\ tapRead'[s].session = tapRead[s].session
    BY <1>3, PacketsStay
  <2> QED
    BY <2>1 DEF LateRight
<1>12. TapTyped'
  BY <1>1, <1>3, TapTypedIs, TapTypedSame DEF AllKeep, Senders
<1> QED
  BY <1>5, <1>8, <1>9, <1>10, <1>11, <1>12

(* A sender takes a read and a packet out of the queues together. *)
LEMMA SendPairsStep ==
  ASSUME TapInv, NEW t \in TapSender, SendPairs(t) PROVE TapInv'
<1>0. TapTyped /\ ReadsRight /\ ElsewhereRight /\ IrpsRight /\ OrderRight /\ CardRight /\ EmptiedRight
      /\ OnceRight /\ BesideRight /\ LateRight
  BY DEF TapInv
<1>9. /\ UNCHANGED <<tapHeld, tap, tapReads, tapSession, tapSent, tapHandle, tapCancel, tapClose, tapHalt>>
      /\ tapSender[t].at = "pairs"
      /\ tapSender[t] \in [at : {"idle", "checked", "pairs", "completes"}, session : Nat, read : Nat]
  BY <1>0, TapTypedIs DEF SendPairs, Senders
<1>1. CASE ~Paired
  <2>0. /\ UNCHANGED <<tapPackets, tapIrps, tapRead>> /\ tapSender' = [tapSender EXCEPT ![t] = TapIdle]
    BY <1>1 DEF SendPairs, tapQueues
  <2>9. tapMishaps' = IF IS_UP THEN tapMishaps \ {"beside"}
                      ELSE tapMishaps \union {m \in {"beside"} : tapPackets # <<>>}
    BY <1>1 DEF SendPairs
  <2>1. /\ tapSender'[t] = TapIdle /\ tapSender' \in Senders /\ TapIdle.at = "idle"
        /\ \A u \in TapSender : u # t => tapSender'[u] = tapSender[u]
    <3>1. TapIdle \in [at : {"idle", "checked", "pairs", "completes"}, session : Nat, read : Nat] /\ TapIdle.at = "idle"
      BY DEF TapIdle
    <3> QED
      BY <1>0, <2>0, <3>1, SenderMoves
  <2>2. AllKeep
    BY <1>0, <1>9, <2>0, AllKeepSame
  <2>10. /\ "lookup" \in tapMishaps => "lookup" \in tapMishaps'
         /\ "late packet" \in tapMishaps => "late packet" \in tapMishaps'
         /\ tapMishaps' \subseteq {"beside", "late packet", "lookup", "late call"}
    BY <1>0, <2>9, TapTypedIs
  <2>3. ReadsRight' /\ IrpsRight' /\ OrderRight' /\ CardRight' /\ EmptiedRight' /\ LateRight'
    BY <1>0, <1>9, <2>0, <2>10, SameReads, SameIrps, SameOrder, SameCard, SameEmptied, SameLate
  <2>4. ElsewhereRight'
    BY <1>0, <1>9, <2>1, <2>2, KeptElsewhere
  <2>5. OnceRight'
    <3>1. \A u \in TapSender : tapSender'[u].at = "completes" => tapSender'[u] = tapSender[u]
      BY <2>1
    <3>2. tapRead' = tapRead /\ tapIrps' = tapIrps /\ ("lookup" \notin tapMishaps' => "lookup" \notin tapMishaps)
      BY <2>0, <2>10
    <3> QED
      BY <1>0, <3>1, <3>2 DEF OnceRight
  <2>6. BesideRight'
    <3>1. CASE IS_UP
      BY <1>1, <2>0, <3>1 DEF BesideRight, Paired
    <3>2. CASE ~IS_UP
      <4>1. tapPackets # <<>> => "beside" \in tapMishaps'
        BY <2>9, <3>2
      <4> QED
        BY <2>0, <4>1 DEF BesideRight
    <3> QED
      BY <3>1, <3>2
  <2>7. TapTyped'
    BY <1>0, <1>9, <2>0, <2>1, <2>10, TapTypedIs, TapTypedSame
  <2> QED
    BY <2>3, <2>4, <2>5, <2>6, <2>7 DEF TapInv
<1>2. CASE Paired
  <2>0. PICK r, p : r = Head(tapIrps) /\ p = Head(tapPackets)
    OBVIOUS
  <2>1. /\ tapIrps' = Tail(tapIrps) /\ tapPackets' = Tail(tapPackets)
        /\ tapIrps # <<>> /\ tapPackets # <<>> /\ IS_UP /\ tapMishaps' = tapMishaps
    BY <1>2 DEF SendPairs, Paired
  <2>2. /\ tapRead' = [tapRead EXCEPT ![r].at = "popped", ![r].packet = p]
        /\ tapSender' = [tapSender EXCEPT ![t].at = "completes", ![t].read = r]
    BY <1>2, <2>0 DEF SendPairs
  <2>3. /\ tapIrps \in Seq(Nat) /\ tapPackets \in Seq(Packet) /\ Len(tapIrps) <= IrpQueueSize
        /\ Len(tapPackets) <= PacketQueueSize /\ IrpQueueSize \in Nat /\ PacketQueueSize \in Nat
        /\ Growing(tapIrps) /\ PacketsGrow(tapPackets) /\ tapRead \in [1..MaxReads -> ReadOf]
        /\ tapSender \in Senders
    BY <1>0, TapTypedIs, TapAssumption DEF IrpsRight, OrderRight
  <2>4. /\ r \in ToSet(tapIrps) /\ tapIrps' \in Seq(Nat) /\ Len(tapIrps') = Len(tapIrps) - 1
        /\ Len(tapIrps) \in Nat
        /\ \A x : x \in ToSet(tapIrps) <=> x = r \/ x \in ToSet(tapIrps')
    BY <2>0, <2>1, <2>3, HeadIs, SetOf
  <2>5. Growing(tapIrps') /\ \A x \in ToSet(tapIrps') : r < x
    BY <2>0, <2>1, <2>3, HeadLeast
  <2>6. /\ p \in ToSet(tapPackets) /\ tapPackets' \in Seq(Packet) /\ Len(tapPackets') = Len(tapPackets) - 1
        /\ Len(tapPackets) \in Nat /\ p \in Packet
        /\ \A x : x \in ToSet(tapPackets) <=> x = p \/ x \in ToSet(tapPackets')
    BY <2>0, <2>1, <2>3, HeadIs, SetOf
  <2>7. PacketsGrow(tapPackets') /\ \A x \in ToSet(tapPackets') : p.no < x.no
    BY <2>0, <2>1, <2>3, FirstPacket DEF Packet
  <2>8. Past(r) /\ tapRead[r].packet = NoPacket /\ tapRead[r].session = tapSession /\ r \in 1..MaxReads
        /\ tapRead[r] \in ReadOf
    BY <1>0, <2>4, PastIn DEF IrpsRight
  <2>9. /\ tapRead'[r].at = "popped" /\ tapRead'[r].packet = p /\ tapRead'[r].session = tapSession
        /\ tapRead'[r].routine = tapRead[r].routine /\ tapRead'[r].ended = tapRead[r].ended
        /\ \A s \in 1..MaxReads : s # r => tapRead'[s] = tapRead[s]
        /\ tapRead' \in [1..MaxReads -> ReadOf]
    <3>1. PICK v : v = [tapRead[r] EXCEPT !.at = "popped", !.packet = p]
      OBVIOUS
    <3>2. /\ v.at = "popped" /\ v.packet = p /\ v.session = tapSession /\ v.routine = tapRead[r].routine
          /\ v.ended = tapRead[r].ended /\ v \in ReadOf
      BY <2>6, <2>8, <3>1 DEF ReadOf, Places
    <3>3. tapRead' = [s \in 1..MaxReads |-> IF s = r THEN v ELSE tapRead[s]]
      BY <2>2, <2>3, <2>8, <3>1
    <3>4. tapRead'[r] = v /\ \A s \in 1..MaxReads : s # r => tapRead'[s] = tapRead[s]
      BY <2>8, <3>3
    <3>5. \A s \in 1..MaxReads : tapRead'[s] \in ReadOf
      BY <2>3, <3>2, <3>4
    <3>6. tapRead' \in [1..MaxReads -> ReadOf]
      BY <3>3, <3>5
    <3> QED
      BY <3>2, <3>4, <3>6
  <2>10. /\ tapSender'[t].at = "completes" /\ tapSender'[t].read = r /\ tapSender' \in Senders
         /\ \A u \in TapSender : u # t => tapSender'[u] = tapSender[u]
    <3>1. PICK v : v = [tapSender[t] EXCEPT !.at = "completes", !.read = r]
      OBVIOUS
    <3>2. v \in [at : {"idle", "checked", "pairs", "completes"}, session : Nat, read : Nat]
          /\ v.at = "completes" /\ v.read = r
      <4>1. r \in Nat
        BY <2>8
      <4> QED
        BY <1>9, <3>1, <4>1
    <3>3. tapSender' = [tapSender EXCEPT ![t] = v]
      BY <2>2, <2>3, <3>1 DEF Senders
    <3> QED
      BY <1>0, <3>2, <3>3, SenderMoves
  <2>11. ASSUME NEW x, Past(x)
         PROVE  /\ Past(x)' /\ x \in 1..MaxReads
                /\ x # r => tapRead'[x] = tapRead[x]
    <3>1. x \in 1..MaxReads /\ x \in 1..tapReads /\ tapRead[x].at \notin {"new", "reading"}
      BY <1>0, <2>11, PastIn DEF Past
    <3>2. tapRead'[x].at \notin {"new", "reading"}
      BY <2>9, <3>1
    <3>3. x \in 1..tapReads'
      BY <1>9, <3>1
    <3> QED
      BY <2>9, <3>1, <3>2, <3>3 DEF Past
  <2>12. ReadsRight'
    <3> SUFFICES ASSUME NEW s \in 1..MaxReads
                 PROVE  /\ s > tapReads' => tapRead'[s] = NewRead
                        /\ s <= tapReads' => tapRead'[s].at # "new"
                        /\ tapRead'[s].at = "reading" =>
                             /\ s = tapReads' /\ tapRead'[s].ended = 0 /\ tapRead'[s].packet = NoPacket
                             /\ ~tapRead'[s].routine /\ tapRead'[s].session = tapSession' /\ tapHandle' = "open"
                        /\ tapRead'[s].routine => Past(s)'
      BY DEF ReadsRight
    <3>1. CASE s = r
      <4>1. r \in 1..tapReads /\ tapReads' = tapReads
        BY <1>9, <2>8 DEF Past
      <4>2. ~(r > tapReads)
        <5>1. tapReads \in Int /\ r \in Int /\ r <= tapReads
          <6>1. tapReads \in 0..MaxReads
            BY <1>0, TapTypedIs
          <6> QED
            BY <4>1, <6>1
        <5> QED
          BY <5>1
      <4>3. Past(r)'
        BY <2>8, <2>11
      <4> QED
        BY <2>9, <3>1, <4>1, <4>2, <4>3
    <3>2. CASE s # r
      <4>1. tapRead'[s] = tapRead[s]
        BY <2>9, <3>2
      <4> QED
        BY <1>0, <1>9, <2>11, <4>1 DEF ReadsRight
    <3> QED
      BY <3>1, <3>2
  <2>13. ElsewhereRight'
    <3>1. ASSUME tapCancel' # 0 PROVE Past(tapCancel)'
      <4>1. PICK c : c = tapCancel
        OBVIOUS
      <4>2. Past(c) /\ tapCancel' = c
        BY <1>0, <1>9, <3>1, <4>1 DEF ElsewhereRight
      <4>3. Past(c)'
        BY <2>11, <4>2
      <4> QED
        BY <4>2, <4>3 DEF Past
    <3>2. ASSUME NEW u \in TapSender, tapSender'[u].at = "completes" PROVE Past(tapSender[u].read)'
      <4>1. PICK c : c = tapSender'[u].read
        OBVIOUS
      <4>2. Past(c)
        BY <1>0, <2>8, <2>10, <3>2, <4>1 DEF ElsewhereRight
      <4>3. Past(c)'
        BY <2>11, <4>2
      <4> QED
        BY <4>1, <4>3 DEF Past
    <3> QED
      BY <3>1, <3>2 DEF ElsewhereRight
  <2>14. IrpsRight'
    <3>1. ASSUME NEW x \in ToSet(tapIrps')
          PROVE  Past(x)' /\ tapRead'[x].packet = NoPacket /\ tapRead'[x].session = tapSession'
      <4>1. x \in ToSet(tapIrps) /\ r < x /\ r \in Int
        BY <2>4, <2>5, <2>8
      <4>2. Past(x) /\ tapRead[x].packet = NoPacket /\ tapRead[x].session = tapSession
        BY <1>0, <4>1 DEF IrpsRight
      <4>3. x # r
        BY <4>1
      <4> QED
        BY <1>9, <2>11, <4>2, <4>3
    <3> QED
      BY <2>5, <3>1 DEF IrpsRight
  <2>15. OrderRight'
    <3>1. \A y \in ToSet(tapPackets') : y \in ToSet(tapPackets) /\ 1 <= y.no /\ y.no <= tapSent'
      BY <1>0, <1>9, <2>6 DEF OrderRight
    <3>2. 1 <= p.no /\ p.no <= tapSent'
      BY <1>0, <1>9, <2>6 DEF OrderRight
    <3>3. ASSUME NEW s \in 1..MaxReads, s # r, tapRead[s].packet # NoPacket
          PROVE  s < r /\ tapRead[s].packet.no < p.no
      BY <1>0, <2>4, <2>6, <3>3 DEF OrderRight
    <3>4. ASSUME NEW s \in 1..MaxReads, tapRead'[s].packet # NoPacket
          PROVE  /\ 1 <= tapRead'[s].packet.no /\ tapRead'[s].packet.no <= tapSent'
                 /\ \A i \in ToSet(tapIrps') : s < i
                 /\ \A y \in ToSet(tapPackets') : tapRead'[s].packet.no < y.no
                 /\ \A u \in 1..MaxReads : s < u /\ tapRead'[u].packet # NoPacket =>
                      tapRead'[s].packet.no < tapRead'[u].packet.no
      <4>1. CASE s = r
        <5>1. ASSUME NEW u \in 1..MaxReads, s < u, tapRead'[u].packet # NoPacket PROVE FALSE
          <6>1. u # r /\ tapRead'[u] = tapRead[u]
            BY <2>9, <4>1, <5>1
          <6>2. u < r
            BY <3>3, <5>1, <6>1
          <6> QED
            BY <4>1, <5>1, <6>2
        <5> QED
          BY <2>5, <2>7, <2>9, <3>2, <4>1, <5>1
      <4>2. CASE s # r
        <5>1. tapRead'[s] = tapRead[s] /\ tapRead[s].packet # NoPacket
          BY <2>9, <3>4, <4>2
        <5>2. /\ 1 <= tapRead[s].packet.no /\ tapRead[s].packet.no <= tapSent
              /\ \A i \in ToSet(tapIrps) : s < i
              /\ \A y \in ToSet(tapPackets) : tapRead[s].packet.no < y.no
              /\ \A u \in 1..MaxReads : s < u /\ tapRead[u].packet # NoPacket =>
                   tapRead[s].packet.no < tapRead[u].packet.no
          BY <1>0, <5>1 DEF OrderRight
        <5>3. ASSUME NEW u \in 1..MaxReads, s < u, tapRead'[u].packet # NoPacket
              PROVE  tapRead'[s].packet.no < tapRead'[u].packet.no
          <6>1. CASE u = r
            BY <2>9, <3>3, <4>2, <5>1, <6>1
          <6>2. CASE u # r
            BY <2>9, <5>1, <5>2, <5>3, <6>2
          <6> QED
            BY <6>1, <6>2
        <5> QED
          BY <1>9, <2>4, <3>1, <5>1, <5>2, <5>3
      <4> QED
        BY <4>1, <4>2
    <3> QED
      BY <2>7, <3>1, <3>4 DEF OrderRight
  <2>16. CardRight' /\ EmptiedRight'
    <3>1. tapIrps = <<>> => tapIrps' = <<>>
      BY <2>1
    <3>2. tapPackets = <<>> => tapPackets' = <<>>
      BY <2>1
    <3> QED
      BY <1>0, <1>9, <3>1, <3>2, SameCard, SameEmptied
  <2>17. OnceRight'
    <3> SUFFICES ASSUME "lookup" \notin tapMishaps'
                 PROVE  /\ \A s \in 1..MaxReads :
                             /\ tapRead'[s].at = "queued" <=> s \in ToSet(tapIrps')
                             /\ tapRead'[s].ended = (IF tapRead'[s].at = "done" THEN 1 ELSE 0)
                        /\ \A u \in TapSender : tapSender'[u].at = "completes" =>
                             /\ tapRead'[tapSender'[u].read].at = "popped"
                             /\ \A w \in TapSender : w # u /\ tapSender'[w].at = "completes" =>
                                  tapSender'[w].read # tapSender'[u].read
      BY DEF OnceRight
    <3>1. /\ \A s \in 1..MaxReads :
               /\ tapRead[s].at = "queued" <=> s \in ToSet(tapIrps)
               /\ tapRead[s].ended = (IF tapRead[s].at = "done" THEN 1 ELSE 0)
          /\ \A u \in TapSender : tapSender[u].at = "completes" =>
               /\ tapRead[tapSender[u].read].at = "popped"
               /\ \A w \in TapSender : w # u /\ tapSender[w].at = "completes" =>
                    tapSender[w].read # tapSender[u].read
      BY <1>0, <2>1 DEF OnceRight
    <3>2. tapRead[r].at = "queued" /\ tapRead[r].ended = 0
      BY <2>4, <2>8, <3>1
    <3>3. r \notin ToSet(tapIrps')
      BY <2>5, <2>8
    <3>4. ASSUME NEW s \in 1..MaxReads
          PROVE  /\ tapRead'[s].at = "queued" <=> s \in ToSet(tapIrps')
                 /\ tapRead'[s].ended = (IF tapRead'[s].at = "done" THEN 1 ELSE 0)
      <4>1. CASE s = r
        BY <2>9, <3>2, <3>3, <4>1
      <4>2. CASE s # r
        BY <2>4, <2>9, <3>1, <4>2
      <4> QED
        BY <4>1, <4>2
    <3>5. ASSUME NEW u \in TapSender, u # t, tapSender'[u].at = "completes"
          PROVE  /\ tapSender'[u] = tapSender[u] /\ tapSender[u].read # r
                 /\ tapRead'[tapSender'[u].read].at = "popped"
      <4>1. tapSender'[u] = tapSender[u]
        BY <2>10, <3>5
      <4>2. tapRead[tapSender[u].read].at = "popped" /\ Past(tapSender[u].read)
        BY <1>0, <3>1, <3>5, <4>1 DEF ElsewhereRight
      <4>3. tapSender[u].read # r
        BY <3>2, <4>2
      <4> QED
        BY <2>11, <4>1, <4>2, <4>3
    <3>6. ASSUME NEW u \in TapSender, tapSender'[u].at = "completes"
          PROVE  /\ tapRead'[tapSender'[u].read].at = "popped"
                 /\ \A w \in TapSender : w # u /\ tapSender'[w].at = "completes" =>
                      tapSender'[w].read # tapSender'[u].read
      BY <2>9, <2>10, <3>1, <3>5, <3>6
    <3> QED
      BY <3>4, <3>6
  <2>18. BesideRight'
    BY <2>10 DEF BesideRight
  <2>19. LateRight'
    <3> SUFFICES ASSUME "late packet" \notin tapMishaps'
                 PROVE  /\ \A y \in ToSet(tapPackets') : y.session = tapSession'
                        /\ ~tap'.opens /\ tapClose' = "no" /\ ~tap'.halt => tapPackets' = <<>>
                        /\ tapClose' = "flushed" => tapPackets' = <<>>
                        /\ \A s \in 1..MaxReads : tapRead'[s].packet # NoPacket =>
                             tapRead'[s].packet.session = tapRead'[s].session
      BY DEF LateRight
    <3>1. /\ \A y \in ToSet(tapPackets) : y.session = tapSession
          /\ ~(~tap.opens /\ tapClose = "no" /\ ~tap.halt)
          /\ tapClose # "flushed"
          /\ \A s \in 1..MaxReads : tapRead[s].packet # NoPacket =>
               tapRead[s].packet.session = tapRead[s].session
      BY <1>0, <2>1 DEF LateRight
    <3>2. ASSUME NEW s \in 1..MaxReads, tapRead'[s].packet # NoPacket
          PROVE  tapRead'[s].packet.session = tapRead'[s].session
      <4>1. CASE s = r
        BY <2>6, <2>9, <3>1, <4>1
      <4>2. CASE s # r
        BY <2>9, <3>1, <3>2, <4>2
      <4> QED
        BY <4>1, <4>2
    <3> QED
      BY <1>9, <2>6, <3>1, <3>2
  <2>20. TapTyped'
    <3>1. Len(tapIrps') <= IrpQueueSize /\ Len(tapPackets') <= PacketQueueSize
      BY <2>3, <2>4, <2>6
    <3> QED
      BY <1>0, <1>9, <2>1, <2>4, <2>6, <2>9, <2>10, <3>1, TapTypedIs, TapTypedSame
  <2> QED
    BY <2>12, <2>13, <2>14, <2>15, <2>16, <2>17, <2>18, <2>19, <2>20 DEF TapInv
<1> QED
  BY <1>1, <1>2

(* A cancellation is two steps: the system takes the cancel routine, then runs it. *)
LEMMA CancelStartsStep ==
  ASSUME TapInv, NEW r \in 1..tapReads, CancelStarts(r) PROVE TapInv'
<1>0. TapTyped /\ ReadsRight /\ ElsewhereRight /\ IrpsRight /\ OrderRight /\ CardRight /\ EmptiedRight
      /\ OnceRight /\ BesideRight /\ LateRight
  BY DEF TapInv
<1>1. /\ UNCHANGED <<tapHeld, tap, tapPackets, tapIrps, tapReads, tapSession, tapSent, tapHandle, tapSender,
                     tapClose, tapHalt, tapMishaps>>
      /\ tapRead[r].routine /\ tapCancel' = r /\ tapRead' = [tapRead EXCEPT ![r].routine = FALSE]
  BY DEF CancelStarts, tapQueues
<1>2. r \in 1..MaxReads /\ tapRead \in [1..MaxReads -> ReadOf]
  <2>1. tapReads \in 0..MaxReads /\ MaxReads \in Nat /\ tapRead \in [1..MaxReads -> ReadOf]
    BY <1>0, TapTypedIs, TapAssumption
  <2> QED
    BY <2>1
<1>3. Past(r) /\ tapRead[r] \in ReadOf
  BY <1>0, <1>1, <1>2 DEF ReadsRight
<1>4. \A s \in 1..MaxReads :
        /\ tapRead'[s] \in ReadOf /\ tapRead'[s].at = tapRead[s].at /\ tapRead'[s].packet = tapRead[s].packet
        /\ tapRead'[s].session = tapRead[s].session /\ tapRead'[s].ended = tapRead[s].ended
        /\ tapRead'[s].routine => tapRead[s].routine
        /\ s # r => tapRead'[s] = tapRead[s]
  <2>1. PICK v : v = [tapRead[r] EXCEPT !.routine = FALSE]
    OBVIOUS
  <2>2. /\ v \in ReadOf /\ v.at = tapRead[r].at /\ v.packet = tapRead[r].packet
        /\ v.session = tapRead[r].session /\ v.ended = tapRead[r].ended /\ v.routine = FALSE
    BY <1>3, <2>1 DEF ReadOf
  <2>3. tapRead' = [s \in 1..MaxReads |-> IF s = r THEN v ELSE tapRead[s]]
    BY <1>1, <1>2, <2>1
  <2> QED
    BY <1>2, <2>2, <2>3
<1>5. tapRead' \in [1..MaxReads -> ReadOf]
  <2>1. tapRead' = [s \in 1..MaxReads |-> tapRead'[s]]
    BY <1>1, <1>2
  <2> QED
    BY <1>4, <2>1
<1>6. AllKeep
  <2>1. \A s \in 1..MaxReads : Keeps(tapRead[s], tapRead'[s])
    BY <1>3, <1>4 DEF Keeps, Past
  <2> QED
    BY <1>1, <1>5, <2>1 DEF AllKeep
<1>7. Growing(tapIrps) /\ PacketsGrow(tapPackets)
  BY <1>0 DEF IrpsRight, OrderRight
<1>8. ReadsRight' /\ IrpsRight' /\ OrderRight'
  BY <1>0, <1>1, <1>4, <1>6, <1>7, KeptReads, KeptIrps, KeptOrder
<1>9. ElsewhereRight'
  <2>1. Past(r)'
    BY <1>0, <1>3, <1>6, PastStays
  <2>2. ASSUME NEW t \in TapSender, tapSender'[t].at = "completes" PROVE Past(tapSender[t].read)'
    <3>1. PICK c : c = tapSender[t].read
      OBVIOUS
    <3>2. Past(c) /\ tapSender'[t].read = c
      BY <1>0, <1>1, <2>2, <3>1 DEF ElsewhereRight
    <3>3. Past(c)'
      BY <1>0, <1>6, <3>2, PastStays
    <3> QED
      BY <3>2, <3>3 DEF Past
  <2>3. Past(tapCancel)'
    BY <1>1, <2>1 DEF Past
  <2> QED
    BY <2>2, <2>3 DEF ElsewhereRight
<1>10. CardRight' /\ EmptiedRight' /\ BesideRight'
  BY <1>0, <1>1, SameCard, SameEmptied, SameBeside
<1>11. OnceRight'
  <2>1. ASSUME NEW t \in TapSender, tapSender[t].at = "completes" PROVE tapSender[t].read \in 1..MaxReads
    BY <1>0, <2>1, PastIn DEF ElsewhereRight
  <2> QED
    BY <1>0, <1>1, <1>4, <2>1 DEF OnceRight
<1>12. LateRight'
  BY <1>0, <1>1, <1>4 DEF LateRight
<1>13. TapTyped'
  <2>1. r \in 0..MaxReads
    BY <1>2
  <2> QED
    BY <1>0, <1>1, <1>5, <2>1, TapTypedIs, TapTypedSame
<1> QED
  BY <1>8, <1>9, <1>10, <1>11, <1>12, <1>13 DEF TapInv

(* The cancel routine takes its read out of the queue, if it finds the adapter. *)
LEMMA CancelRunsStep ==
  ASSUME TapInv, CancelRuns PROVE TapInv'
<1>0. TapTyped /\ ReadsRight /\ ElsewhereRight /\ IrpsRight /\ OrderRight /\ CardRight /\ EmptiedRight
      /\ OnceRight /\ BesideRight /\ LateRight
  BY DEF TapInv
<1>1. PICK r : r = tapCancel
  OBVIOUS
<1>2. /\ UNCHANGED <<tapHeld, tap, tapPackets, tapReads, tapSession, tapSent, tapHandle, tapSender,
                     tapClose, tapHalt>>
      /\ r # 0 /\ tapCancel' = 0
  BY <1>1 DEF CancelRuns
<1>3. PICK found \in BOOLEAN :
       /\ tapIrps' = IF found THEN QueueExtract(tapIrps, r) ELSE tapIrps
       /\ tapRead' = IF ~found \/ r \in ToSet(tapIrps)
                     THEN [tapRead EXCEPT ![r] = Ended(@)] ELSE tapRead
       /\ tapMishaps' = tapMishaps \union {m \in {"lookup"} : ~found}
  BY <1>1 DEF CancelRuns
<1>4. Past(r) /\ r \in 1..MaxReads /\ tapIrps \in Seq(Nat) /\ Growing(tapIrps) /\ PacketsGrow(tapPackets)
      /\ Len(tapIrps) <= IrpQueueSize /\ Len(tapIrps) \in Nat /\ IrpQueueSize \in Nat
  BY <1>0, <1>1, <1>2, PastIn, TapTypedIs, TapAssumption DEF ElsewhereRight, IrpsRight, OrderRight
<1>5. /\ tapMishaps \subseteq tapMishaps'
      /\ tapMishaps' \subseteq {"beside", "late packet", "lookup", "late call"}
      /\ "lookup" \notin tapMishaps' => found /\ "lookup" \notin tapMishaps
      /\ "beside" \in tapMishaps' <=> "beside" \in tapMishaps
      /\ "late packet" \in tapMishaps' <=> "late packet" \in tapMishaps
  BY <1>0, <1>3, TapTypedIs
<1>6. /\ tapIrps' \in Seq(Nat) /\ Len(tapIrps') <= IrpQueueSize /\ Growing(tapIrps')
      /\ \A x : x \in ToSet(tapIrps') => x \in ToSet(tapIrps)
      /\ found => \A x : x \in ToSet(tapIrps') <=> x \in ToSet(tapIrps) /\ x # r
      /\ tapIrps = <<>> => tapIrps' = <<>>
  <2>1. CASE found
    <3>1. tapIrps' = QueueExtract(tapIrps, r)
      BY <1>3, <2>1
    <3>2. /\ tapIrps' \in Seq(Nat) /\ Len(tapIrps') <= Len(tapIrps) /\ Growing(tapIrps')
          /\ \A x : x \in ToSet(tapIrps') <=> x \in ToSet(tapIrps) /\ x # r
      BY <1>4, <3>1, ExtractIs
    <3>3. Len(tapIrps') \in Nat
      BY <3>2, SetOf
    <3>4. tapIrps = <<>> => tapIrps' = <<>>
      BY <1>4, <3>2, SetOf
    <3> QED
      BY <1>4, <3>2, <3>3, <3>4
  <2>2. CASE ~found
    BY <1>3, <1>4, <2>2
  <2> QED
    BY <2>1, <2>2
<1>7. AllKeep /\ \A s \in 1..MaxReads : tapRead'[s].routine => tapRead[s].routine \/ Past(s)
  <2>1. CASE tapRead' = tapRead
    BY <1>0, <1>2, <2>1, AllKeepSame
  <2>2. CASE tapRead' = [tapRead EXCEPT ![r] = Ended(@)]
    BY <1>0, <1>2, <1>4, <2>2, AllKeepEnded
  <2> QED
    BY <1>3, <2>1, <2>2
<1>8. ReadsRight'
  BY <1>0, <1>7, KeptReads
<1>9. IrpsRight' /\ OrderRight' /\ ElsewhereRight'
  BY <1>0, <1>2, <1>4, <1>6, <1>7, KeptIrps, KeptOrder, KeptElsewhere
<1>10. CardRight' /\ EmptiedRight'
  BY <1>0, <1>2, <1>6, SameCard, SameEmptied
<1>11. BesideRight'
  <2>1. tapIrps' # <<>> => tapIrps # <<>>
    BY <1>6
  <2> QED
    BY <1>0, <1>2, <1>5, <2>1 DEF BesideRight
<1>12. LateRight'
  <2>1. \A s \in 1..MaxReads : tapRead'[s].packet = tapRead[s].packet /\ tapRead'[s].session = tapRead[s].session
    BY <1>0, <1>7, PacketsStay
  <2> QED
    BY <1>0, <1>2, <1>5, <2>1 DEF LateRight
<1>13. OnceRight'
  <2>1. CASE "lookup" \in tapMishaps'
    BY <2>1 DEF OnceRight
  <2>2. CASE "lookup" \notin tapMishaps' /\ r \in ToSet(tapIrps)
    <3>1. found /\ "lookup" \notin tapMishaps
      BY <1>5, <2>2
    <3>2. tapRead' = [tapRead EXCEPT ![r] = Ended(@)]
      BY <1>3, <2>2
    <3>3. tapRead'[r] = Ended(tapRead[r]) /\ \A s \in 1..MaxReads : s # r => tapRead'[s] = tapRead[s]
      BY <1>0, <1>2, <1>4, <3>2, AllKeepEnded
    <3>4. tapRead[r].at = "queued"
      BY <1>0, <1>4, <2>2, <3>1 DEF OnceRight
    <3>5. \A t \in TapSender : tapSender[t].at = "completes" =>
            tapSender[t].read # r /\ tapSender[t].read \in 1..MaxReads
      BY <1>0, <3>1, <3>4, PastIn DEF OnceRight, ElsewhereRight
    <3> QED
      BY <1>0, <1>2, <1>4, <1>5, <1>6, <3>1, <3>3, <3>4, <3>5, OnceEnded
  <2>3. CASE "lookup" \notin tapMishaps' /\ r \notin ToSet(tapIrps)
    <3>1. found /\ "lookup" \notin tapMishaps
      BY <1>5, <2>3
    <3>2. tapRead' = tapRead
      BY <1>3, <2>3, <3>1
    <3>3. \A x : x \in ToSet(tapIrps') <=> x \in ToSet(tapIrps)
      BY <1>6, <2>3, <3>1
    <3> QED
      BY <1>0, <1>2, <3>1, <3>2, <3>3 DEF OnceRight
  <2> QED
    BY <2>1, <2>2, <2>3
<1>14. TapTyped'
  <2>1. 0 \in 0..MaxReads
    BY TapAssumption
  <2> QED
    BY <1>0, <1>2, <1>5, <1>6, <1>7, <2>1, TapTypedIs, TapTypedSame DEF AllKeep
<1> QED
  BY <1>8, <1>9, <1>10, <1>11, <1>12, <1>13, <1>14 DEF TapInv

(* One read changes, the others do not. *)
LEMMA OneRead ==
  ASSUME TapTyped, NEW r \in 1..MaxReads, NEW v \in ReadOf, tapRead' = [tapRead EXCEPT ![r] = v]
  PROVE  /\ tapRead'[r] = v /\ tapRead' \in [1..MaxReads -> ReadOf]
         /\ \A s \in 1..MaxReads : s # r => tapRead'[s] = tapRead[s]
<1>1. tapRead \in [1..MaxReads -> ReadOf]
  BY TapTypedIs
<1>2. tapRead' = [s \in 1..MaxReads |-> IF s = r THEN v ELSE tapRead[s]]
  BY <1>1
<1>3. \A s \in 1..MaxReads : tapRead'[s] \in ReadOf
  BY <1>1, <1>2
<1> QED
  BY <1>2, <1>3

(* The second section of a read: it waits, or is over. *)
LEMMA ReadPendsStep ==
  ASSUME TapInv, NEW r \in 1..tapReads, ReadPends(r) PROVE TapInv'
<1>0. TapTyped /\ ReadsRight /\ ElsewhereRight /\ IrpsRight /\ OrderRight /\ CardRight /\ EmptiedRight
      /\ OnceRight /\ BesideRight /\ LateRight
  BY DEF TapInv
<1>1. /\ UNCHANGED <<tapHeld, tap, tapPackets, tapReads, tapSession, tapSent, tapHandle, tapSender, tapCancel,
                     tapClose, tapHalt>>
      /\ tapRead[r].at = "reading"
  BY DEF ReadPends
<1>2. tapReads \in 0..MaxReads /\ MaxReads \in Nat /\ tapRead \in [1..MaxReads -> ReadOf]
  BY <1>0, TapTypedIs, TapAssumption
<1>3. r \in 1..MaxReads /\ r \in Nat /\ tapRead[r] \in ReadOf
  BY <1>2
<1>4. /\ r = tapReads /\ tapRead[r].ended = 0 /\ tapRead[r].packet = NoPacket
      /\ tapRead[r].session = tapSession /\ tapHandle = "open"
  BY <1>0, <1>1, <1>3 DEF ReadsRight
<1>5. PICK v : v = tapRead'[r]
  OBVIOUS
<1>6. /\ v \in ReadOf /\ v.packet = NoPacket /\ v.session = tapSession
      /\ tapRead' = [tapRead EXCEPT ![r] = v]
      /\ \/ /\ IS_UP /\ Len(tapIrps) < IrpQueueSize /\ tapIrps' = Append(tapIrps, r)
            /\ v.at = "queued" /\ v.ended = 0
            /\ tapMishaps' = tapMishaps \union {m \in {"beside"} : tapPackets # <<>>}
         \/ v.at = "done" /\ v.ended = 1 /\ tapIrps' = tapIrps /\ tapMishaps' = tapMishaps
  <2>1. CASE IS_UP /\ Len(tapIrps) < IrpQueueSize
    <3>1. tapRead' = [tapRead EXCEPT ![r].at = "queued", ![r].routine = TRUE]
      BY <2>1 DEF ReadPends
    <3>2. PICK w : w = [tapRead[r] EXCEPT !.at = "queued", !.routine = TRUE]
      OBVIOUS
    <3>3. w \in ReadOf /\ w.at = "queued" /\ w.packet = NoPacket /\ w.session = tapSession /\ w.ended = 0
      BY <1>3, <1>4, <3>2 DEF ReadOf, Places
    <3>4. tapRead' = [tapRead EXCEPT ![r] = w] /\ tapRead'[r] = w
      BY <1>2, <1>3, <3>1, <3>2
    <3>5. v = w
      BY <1>5, <3>4
    <3>6. tapIrps' = Append(tapIrps, r) /\ tapMishaps' = tapMishaps \union {m \in {"beside"} : tapPackets # <<>>}
      BY <2>1 DEF ReadPends
    <3> QED
      BY <2>1, <3>3, <3>4, <3>5, <3>6
  <2>2. CASE ~(IS_UP /\ Len(tapIrps) < IrpQueueSize)
    <3>1. tapRead' = [tapRead EXCEPT ![r] = Ended(@)] /\ tapIrps' = tapIrps /\ tapMishaps' = tapMishaps
      BY <2>2 DEF ReadPends
    <3>2. v = Ended(tapRead[r]) /\ tapRead' = [tapRead EXCEPT ![r] = v]
      BY <1>2, <1>3, <1>5, <3>1
    <3>3. /\ Ended(tapRead[r]) \in ReadOf /\ Ended(tapRead[r]).at = "done"
          /\ Ended(tapRead[r]).packet = tapRead[r].packet /\ Ended(tapRead[r]).session = tapRead[r].session
          /\ Ended(tapRead[r]).ended = tapRead[r].ended + 1
      BY <1>3, EndedIs
    <3> QED
      BY <1>4, <3>1, <3>2, <3>3
  <2> QED
    BY <2>1, <2>2
<1>7. /\ tapRead'[r] = v /\ tapRead' \in [1..MaxReads -> ReadOf] /\ v.at \in {"queued", "done"}
      /\ \A s \in 1..MaxReads : s # r => tapRead'[s] = tapRead[s]
  BY <1>0, <1>3, <1>6, OneRead
<1>8. \A s \in 1..MaxReads : tapRead'[s].packet = tapRead[s].packet /\ tapRead'[s].session = tapRead[s].session
  BY <1>4, <1>6, <1>7
<1>9. ASSUME NEW x, Past(x)
      PROVE  Past(x)' /\ x \in 1..MaxReads /\ x # r /\ tapRead'[x] = tapRead[x] /\ x < r /\ x \in Nat
  <2>1. x \in 1..MaxReads /\ x \in 1..tapReads /\ tapRead[x].at \notin {"new", "reading"}
    BY <1>0, <1>9, PastIn DEF Past
  <2>2. x # r /\ tapRead'[x] = tapRead[x]
    BY <1>1, <1>7, <2>1
  <2>3. x < r /\ x \in Nat
    BY <1>2, <1>4, <2>1, <2>2
  <2> QED
    BY <1>1, <2>1, <2>2, <2>3 DEF Past
<1>10. Past(r)'
  BY <1>1, <1>6, <1>7 DEF Past
<1>11. /\ tapIrps \in Seq(Nat) /\ Growing(tapIrps) /\ PacketsGrow(tapPackets) /\ Len(tapIrps) \in Nat
       /\ Len(tapIrps) <= IrpQueueSize /\ IrpQueueSize \in Nat
       /\ \A x \in ToSet(tapIrps) : Past(x) /\ tapRead[x].packet = NoPacket /\ tapRead[x].session = tapSession
  BY <1>0, TapTypedIs, TapAssumption DEF IrpsRight, OrderRight
<1>12. /\ tapIrps' \in Seq(Nat) /\ Growing(tapIrps') /\ Len(tapIrps') <= IrpQueueSize
       /\ \A x : x \in ToSet(tapIrps') <=> x \in ToSet(tapIrps) \/ (x = r /\ v.at = "queued")
       /\ v.at = "done" => tapIrps' = tapIrps
       /\ v.at = "queued" => IS_UP
  <2>1. CASE v.at = "queued"
    <3>1. tapIrps' = Append(tapIrps, r) /\ Len(tapIrps) < IrpQueueSize /\ IS_UP
      BY <1>6, <2>1
    <3>2. \A x \in ToSet(tapIrps) : x < r
      BY <1>9, <1>11
    <3>3. Growing(tapIrps')
      BY <1>3, <1>11, <3>1, <3>2, GrowingLast
    <3>4. /\ tapIrps' \in Seq(Nat) /\ Len(tapIrps') = Len(tapIrps) + 1
          /\ \A x : x \in ToSet(tapIrps') <=> x = r \/ x \in ToSet(tapIrps)
      BY <1>3, <1>11, <3>1, PutLast
    <3>5. Len(tapIrps') <= IrpQueueSize
      BY <1>11, <3>1, <3>4
    <3> QED
      BY <2>1, <3>1, <3>3, <3>4, <3>5
  <2>2. CASE v.at = "done"
    BY <1>6, <1>11, <2>2
  <2> QED
    BY <1>7, <2>1, <2>2
<1>13. ReadsRight'
  <2> SUFFICES ASSUME NEW s \in 1..MaxReads
               PROVE  /\ s > tapReads' => tapRead'[s] = NewRead
                      /\ s <= tapReads' => tapRead'[s].at # "new"
                      /\ tapRead'[s].at = "reading" =>
                           /\ s = tapReads' /\ tapRead'[s].ended = 0 /\ tapRead'[s].packet = NoPacket
                           /\ ~tapRead'[s].routine /\ tapRead'[s].session = tapSession' /\ tapHandle' = "open"
                      /\ tapRead'[s].routine => Past(s)'
    BY DEF ReadsRight
  <2>1. CASE s = r
    <3>1. ~(s > tapReads')
      BY <1>1, <1>3, <1>4, <2>1
    <3> QED
      BY <1>7, <1>10, <2>1, <3>1
  <2>2. CASE s # r
    <3>1. tapRead'[s] = tapRead[s]
      BY <1>7, <2>2
    <3> QED
      BY <1>0, <1>1, <1>9, <3>1 DEF ReadsRight
  <2> QED
    BY <2>1, <2>2
<1>14. ElsewhereRight'
  <2>1. ASSUME tapCancel' # 0 PROVE Past(tapCancel)'
    <3>1. PICK c : c = tapCancel
      OBVIOUS
    <3>2. Past(c) /\ tapCancel' = c
      BY <1>0, <1>1, <2>1, <3>1 DEF ElsewhereRight
    <3>3. Past(c)'
      BY <1>9, <3>2
    <3> QED
      BY <3>2, <3>3 DEF Past
  <2>2. ASSUME NEW t \in TapSender, tapSender'[t].at = "completes" PROVE Past(tapSender[t].read)'
    <3>1. PICK c : c = tapSender[t].read
      OBVIOUS
    <3>2. Past(c) /\ tapSender'[t].read = c
      BY <1>0, <1>1, <2>2, <3>1 DEF ElsewhereRight
    <3>3. Past(c)'
      BY <1>9, <3>2
    <3> QED
      BY <3>2, <3>3 DEF Past
  <2> QED
    BY <2>1, <2>2 DEF ElsewhereRight
<1>15. IrpsRight'
  <2>1. ASSUME NEW x \in ToSet(tapIrps')
        PROVE  Past(x)' /\ tapRead'[x].packet = NoPacket /\ tapRead'[x].session = tapSession'
    <3>1. CASE x \in ToSet(tapIrps)
      <4>1. Past(x) /\ tapRead[x].packet = NoPacket /\ tapRead[x].session = tapSession
        BY <1>11, <3>1
      <4> QED
        BY <1>1, <1>9, <4>1
    <3>2. CASE x = r
      BY <1>1, <1>6, <1>7, <1>10, <3>2
    <3> QED
      BY <1>12, <2>1, <3>1, <3>2
  <2> QED
    BY <1>12, <2>1 DEF IrpsRight
<1>16. OrderRight'
  <2>1. ASSUME NEW s \in 1..MaxReads, tapRead[s].packet # NoPacket PROVE s < r
    <3>1. s # r
      BY <1>4, <2>1
    <3>2. ~(s > tapReads)
      BY <1>0, <2>1, NewReadIs DEF ReadsRight
    <3> QED
      BY <1>2, <1>4, <3>1, <3>2
  <2>2. \A s \in 1..MaxReads : tapRead[s].packet # NoPacket => \A i \in ToSet(tapIrps') : s < i
    BY <1>0, <1>12, <2>1 DEF OrderRight
  <2> QED
    BY <1>0, <1>1, <1>8, <2>2 DEF OrderRight
<1>17. CardRight'
  BY <1>0, <1>1, SameCard
<1>18. EmptiedRight'
  <2>1. CASE v.at = "done"
    BY <1>0, <1>1, <1>12, <2>1, SameEmptied
  <2>2. CASE v.at = "queued"
    BY <1>0, <1>1, <1>4, <1>12, <2>2 DEF EmptiedRight, CardRight, IS_UP
  <2> QED
    BY <1>7, <2>1, <2>2
<1>19. /\ tapMishaps' \subseteq {"beside", "late packet", "lookup", "late call"}
       /\ "lookup" \in tapMishaps' <=> "lookup" \in tapMishaps
       /\ "late packet" \in tapMishaps' <=> "late packet" \in tapMishaps
       /\ v.at = "done" => tapMishaps' = tapMishaps
       /\ v.at = "queued" /\ tapPackets # <<>> => "beside" \in tapMishaps'
  <2>1. tapMishaps \subseteq {"beside", "late packet", "lookup", "late call"}
    BY <1>0, TapTypedIs
  <2> QED
    BY <1>6, <2>1
<1>20. OnceRight'
  <2> SUFFICES ASSUME "lookup" \notin tapMishaps
               PROVE  /\ \A s \in 1..MaxReads :
                           /\ tapRead'[s].at = "queued" <=> s \in ToSet(tapIrps')
                           /\ tapRead'[s].ended = (IF tapRead'[s].at = "done" THEN 1 ELSE 0)
                      /\ \A u \in TapSender : tapSender'[u].at = "completes" =>
                           /\ tapRead'[tapSender'[u].read].at = "popped"
                           /\ \A w \in TapSender : w # u /\ tapSender'[w].at = "completes" =>
                                tapSender'[w].read # tapSender'[u].read
    BY <1>19 DEF OnceRight
  <2>1. ASSUME NEW s \in 1..MaxReads
        PROVE  /\ tapRead'[s].at = "queued" <=> s \in ToSet(tapIrps')
               /\ tapRead'[s].ended = (IF tapRead'[s].at = "done" THEN 1 ELSE 0)
    <3>1. CASE s = r
      <4>1. r \notin ToSet(tapIrps)
        BY <1>9, <1>11
      <4> QED
        BY <1>6, <1>7, <1>12, <3>1, <4>1
    <3>2. CASE s # r
      BY <1>0, <1>7, <1>12, <3>2 DEF OnceRight
    <3> QED
      BY <3>1, <3>2
  <2>2. \A u \in TapSender : tapSender[u].at = "completes" => tapRead'[tapSender[u].read] = tapRead[tapSender[u].read]
    BY <1>0, <1>9 DEF ElsewhereRight
  <2> QED
    BY <1>0, <1>1, <2>1, <2>2 DEF OnceRight
<1>21. BesideRight'
  BY <1>0, <1>1, <1>7, <1>12, <1>19 DEF BesideRight
<1>22. LateRight'
  BY <1>0, <1>1, <1>8, <1>19 DEF LateRight
<1>23. TapTyped'
  BY <1>0, <1>1, <1>7, <1>12, <1>19, TapTypedIs, TapTypedSame
<1> QED
  BY <1>13, <1>14, <1>15, <1>16, <1>17, <1>18, <1>20, <1>21, <1>22, <1>23 DEF TapInv

(* The first section of a read: it is over, takes a packet, or goes on. *)
LEMMA ReadServesStep ==
  ASSUME TapInv, ReadServes PROVE TapInv'
<1>0. TapTyped /\ ReadsRight /\ ElsewhereRight /\ IrpsRight /\ OrderRight /\ CardRight /\ EmptiedRight
      /\ OnceRight /\ BesideRight /\ LateRight
  BY DEF TapInv
<1>1. /\ UNCHANGED <<tapHeld, tap, tapIrps, tapSession, tapSent, tapHandle, tapSender, tapCancel,
                     tapClose, tapHalt, tapMishaps>>
      /\ tapHandle = "open" /\ tapReads < MaxReads /\ tapReads' = tapReads + 1
      /\ \A s \in 1..tapReads : tapRead[s].at # "reading"
  BY DEF ReadServes
<1>2. tapReads \in 0..MaxReads /\ MaxReads \in Nat /\ tapRead \in [1..MaxReads -> ReadOf] /\ tapSession \in Nat
      /\ tapPackets \in Seq(Packet) /\ Len(tapPackets) \in Nat /\ Len(tapPackets) <= PacketQueueSize
      /\ PacketQueueSize \in Nat
  BY <1>0, TapTypedIs, TapAssumption
<1>3. PICK r : r = tapReads + 1
  OBVIOUS
<1>4. r \in 1..MaxReads /\ r \in Nat /\ r \in 1..tapReads' /\ tapReads' = r /\ tapReads' \in 0..MaxReads
      /\ \A s \in 1..tapReads : s < r /\ s # r /\ s \in 1..tapReads'
  BY <1>1, <1>2, <1>3
<1>5. tapRead[r] = NewRead
  BY <1>0, <1>2, <1>3, <1>4 DEF ReadsRight
<1>6. PICK n : n = [NewRead EXCEPT !.session = tapSession]
  OBVIOUS
<1>7. n \in ReadOf /\ n.packet = NoPacket /\ n.session = tapSession /\ n.ended = 0 /\ n.routine = FALSE
  BY <1>2, <1>6, NewReadIs DEF NewRead, ReadOf
<1>8. PICK v : v = tapRead'[r]
  OBVIOUS
<1> DEFINE Takes == /\ IS_UP /\ tapPackets # <<>> /\ tapIrps = <<>>
                    /\ v.at = "done" /\ v.ended = 1 /\ v.packet = Head(tapPackets)
                    /\ tapPackets' = Tail(tapPackets)
           TakesNot == /\ v.packet = NoPacket /\ tapPackets' = tapPackets
                       /\ v.at = (IF v.ended = 1 THEN "done" ELSE "reading") /\ v.ended \in 0..1
<1>9. /\ v \in ReadOf /\ v.session = tapSession /\ v.routine = FALSE
      /\ tapRead' = [tapRead EXCEPT ![r] = v]
      /\ Takes \/ TakesNot
  <2>1. CASE tap.halt \/ ~tap.interface
    <3>1. tapRead' = [tapRead EXCEPT ![r] = Ended(n)] /\ tapPackets' = tapPackets
      BY <1>4, <1>6, <2>1 DEF ReadServes
    <3>2. v = Ended(n)
      BY <1>2, <1>4, <1>8, <3>1
    <3>3. /\ v \in ReadOf /\ v.at = "done" /\ v.routine = FALSE /\ v.packet = NoPacket
          /\ v.session = tapSession /\ v.ended = 1
      <4>1. /\ Ended(n) \in ReadOf /\ Ended(n).at = "done" /\ Ended(n).routine = FALSE
            /\ Ended(n).packet = n.packet /\ Ended(n).session = n.session /\ Ended(n).ended = n.ended + 1
        BY <1>7, EndedIs
      <4> QED
        BY <1>7, <3>2, <4>1
    <3> QED
      BY <3>1, <3>2, <3>3
  <2>2. CASE ~(tap.halt \/ ~tap.interface) /\ IS_UP /\ tapPackets # <<>> /\ Immediate(tapIrps)
    <3>1. /\ tapRead' = [tapRead EXCEPT ![r] = EndedWith(n, Head(tapPackets))]
          /\ tapPackets' = Tail(tapPackets) /\ tapIrps = <<>>
      BY <1>4, <1>6, <2>2 DEF ReadServes, Immediate
    <3>2. v = EndedWith(n, Head(tapPackets))
      BY <1>2, <1>4, <1>8, <3>1
    <3>3. Head(tapPackets) \in Packet
      BY <1>2, <2>2
    <3>4. /\ v \in ReadOf /\ v.at = "done" /\ v.routine = FALSE /\ v.packet = Head(tapPackets)
          /\ v.session = tapSession /\ v.ended = 1
      <4>1. PICK p : p = Head(tapPackets)
        OBVIOUS
      <4>2. /\ EndedWith(n, p) \in ReadOf /\ EndedWith(n, p).at = "done" /\ EndedWith(n, p).routine = FALSE
            /\ EndedWith(n, p).packet = p /\ EndedWith(n, p).session = n.session
            /\ EndedWith(n, p).ended = n.ended + 1
        BY <1>7, <3>3, <4>1, EndedWithIs
      <4> QED
        BY <1>7, <3>2, <4>1, <4>2
    <3> QED
      BY <2>2, <3>1, <3>2, <3>4
  <2>3. CASE ~(tap.halt \/ ~tap.interface) /\ ~(IS_UP /\ tapPackets # <<>> /\ Immediate(tapIrps))
    <3>1. tapRead' = [tapRead EXCEPT ![r] = [n EXCEPT !.at = "reading"]] /\ tapPackets' = tapPackets
      BY <1>4, <1>6, <2>3 DEF ReadServes
    <3>2. v = [n EXCEPT !.at = "reading"]
      BY <1>2, <1>4, <1>8, <3>1
    <3>3. /\ v \in ReadOf /\ v.at = "reading" /\ v.routine = FALSE /\ v.packet = NoPacket
          /\ v.session = tapSession /\ v.ended = 0
      BY <1>7, <3>2 DEF ReadOf, Places
    <3> QED
      BY <3>1, <3>2, <3>3
  <2> QED
    BY <2>1, <2>2, <2>3
<1>10. /\ tapRead'[r] = v /\ tapRead' \in [1..MaxReads -> ReadOf] /\ v.at \in {"reading", "done"}
       /\ v.at # "new" /\ v.at # "queued"
       /\ \A s \in 1..MaxReads : s # r => tapRead'[s] = tapRead[s]
  BY <1>0, <1>4, <1>9, OneRead
<1>11. ASSUME NEW x, Past(x)
       PROVE  Past(x)' /\ x \in 1..MaxReads /\ x # r /\ tapRead'[x] = tapRead[x]
  <2>1. x \in 1..MaxReads /\ x \in 1..tapReads /\ tapRead[x].at \notin {"new", "reading"}
    BY <1>0, <1>11, PastIn DEF Past
  <2>2. x # r /\ tapRead'[x] = tapRead[x] /\ x \in 1..tapReads'
    BY <1>4, <1>10, <2>1
  <2> QED
    BY <2>1, <2>2 DEF Past
<1>12. /\ PacketsGrow(tapPackets) /\ PacketsGrow(tapPackets')
       /\ tapPackets' \in Seq(Packet) /\ Len(tapPackets') <= PacketQueueSize
       /\ \A x \in ToSet(tapPackets') : x \in ToSet(tapPackets)
       /\ tapPackets = <<>> => tapPackets' = <<>>
       /\ Takes => v.packet \in ToSet(tapPackets) /\ v.packet \in Packet
                   /\ \A x \in ToSet(tapPackets') : v.packet.no < x.no
  <2>0. PacketsGrow(tapPackets)
    BY <1>0 DEF OrderRight
  <2>1. CASE Takes
    <3>1. /\ v.packet \in ToSet(tapPackets) /\ tapPackets' \in Seq(Packet)
          /\ Len(tapPackets') = Len(tapPackets) - 1
          /\ \A x \in ToSet(tapPackets') : x \in ToSet(tapPackets)
      BY <1>2, <2>1, HeadIs
    <3>2. v.packet \in Packet
      BY <1>2, <2>1
    <3>3. PacketsGrow(tapPackets') /\ \A x \in ToSet(tapPackets') : v.packet.no < x.no
      BY <1>2, <2>0, <2>1, FirstPacket DEF Packet
    <3>4. Len(tapPackets') <= PacketQueueSize
      BY <1>2, <3>1
    <3> QED
      BY <2>0, <2>1, <3>1, <3>2, <3>3, <3>4
  <2>2. CASE ~Takes
    BY <1>2, <1>9, <2>0, <2>2
  <2> QED
    BY <2>1, <2>2
<1>13. \A s \in 1..MaxReads : tapRead[s].packet # NoPacket => s \in 1..tapReads /\ s < r
  <2> SUFFICES ASSUME NEW s \in 1..MaxReads, tapRead[s].packet # NoPacket PROVE s \in 1..tapReads /\ s < r
    OBVIOUS
  <2>1. ~(s > tapReads)
    BY <1>0, NewReadIs DEF ReadsRight
  <2> QED
    BY <1>2, <1>4, <2>1
<1>14. \A x \in ToSet(tapIrps) : Past(x) /\ tapRead[x].packet = NoPacket /\ tapRead[x].session = tapSession
  BY <1>0 DEF IrpsRight
<1>15. ReadsRight'
  <2> SUFFICES ASSUME NEW s \in 1..MaxReads
               PROVE  /\ s > tapReads' => tapRead'[s] = NewRead
                      /\ s <= tapReads' => tapRead'[s].at # "new"
                      /\ tapRead'[s].at = "reading" =>
                           /\ s = tapReads' /\ tapRead'[s].ended = 0 /\ tapRead'[s].packet = NoPacket
                           /\ ~tapRead'[s].routine /\ tapRead'[s].session = tapSession' /\ tapHandle' = "open"
                      /\ tapRead'[s].routine => Past(s)'
    BY DEF ReadsRight
  <2>1. CASE s = r
    <3>1. ~(s > tapReads')
      BY <1>4, <2>1
    <3>2. v.at = "reading" => v.ended = 0 /\ v.packet = NoPacket
      BY <1>9
    <3> QED
      BY <1>1, <1>4, <1>9, <1>10, <2>1, <3>1, <3>2
  <2>2. CASE s # r
    <3>1. tapRead'[s] = tapRead[s]
      BY <1>10, <2>2
    <3>2. s > tapReads' => s > tapReads
      BY <1>1, <1>2
    <3>3. s <= tapReads' => s <= tapReads
      BY <1>2, <1>3, <1>4, <2>2
    <3>4. tapRead[s].at # "reading"
      <4>1. CASE s \in 1..tapReads
        BY <1>1, <4>1
      <4>2. CASE s \notin 1..tapReads
        <5>1. s > tapReads
          BY <1>2, <4>2
        <5> QED
          BY <1>0, <5>1, NewReadIs DEF ReadsRight
      <4> QED
        BY <4>1, <4>2
    <3> QED
      BY <1>0, <1>11, <3>1, <3>2, <3>3, <3>4 DEF ReadsRight
  <2> QED
    BY <2>1, <2>2
<1>16. ElsewhereRight'
  <2>1. ASSUME tapCancel' # 0 PROVE Past(tapCancel)'
    <3>1. PICK c : c = tapCancel
      OBVIOUS
    <3>2. Past(c) /\ tapCancel' = c
      BY <1>0, <1>1, <2>1, <3>1 DEF ElsewhereRight
    <3>3. Past(c)'
      BY <1>11, <3>2
    <3> QED
      BY <3>2, <3>3 DEF Past
  <2>2. ASSUME NEW t \in TapSender, tapSender'[t].at = "completes" PROVE Past(tapSender[t].read)'
    <3>1. PICK c : c = tapSender[t].read
      OBVIOUS
    <3>2. Past(c) /\ tapSender'[t].read = c
      BY <1>0, <1>1, <2>2, <3>1 DEF ElsewhereRight
    <3>3. Past(c)'
      BY <1>11, <3>2
    <3> QED
      BY <3>2, <3>3 DEF Past
  <2> QED
    BY <2>1, <2>2 DEF ElsewhereRight
<1>17. IrpsRight'
  <2>1. ASSUME NEW x \in ToSet(tapIrps')
        PROVE  Past(x)' /\ tapRead'[x].packet = NoPacket /\ tapRead'[x].session = tapSession'
    BY <1>1, <1>11, <1>14, <2>1
  <2>2. Growing(tapIrps')
    BY <1>0, <1>1 DEF IrpsRight
  <2> QED
    BY <2>1, <2>2 DEF IrpsRight
<1>18. OrderRight'
  <2>1. ASSUME NEW s \in 1..MaxReads, s # r, tapRead'[s].packet # NoPacket
        PROVE  /\ 1 <= tapRead'[s].packet.no /\ tapRead'[s].packet.no <= tapSent'
               /\ \A i \in ToSet(tapIrps') : s < i
               /\ \A p \in ToSet(tapPackets') : tapRead'[s].packet.no < p.no
               /\ \A u \in 1..MaxReads : s < u /\ tapRead'[u].packet # NoPacket =>
                    tapRead'[s].packet.no < tapRead'[u].packet.no
    <3>1. tapRead'[s] = tapRead[s] /\ tapRead[s].packet # NoPacket
      BY <1>10, <2>1
    <3>2. /\ 1 <= tapRead[s].packet.no /\ tapRead[s].packet.no <= tapSent
          /\ \A i \in ToSet(tapIrps) : s < i
          /\ \A p \in ToSet(tapPackets) : tapRead[s].packet.no < p.no
          /\ \A u \in 1..MaxReads : s < u /\ tapRead[u].packet # NoPacket =>
               tapRead[s].packet.no < tapRead[u].packet.no
      BY <1>0, <3>1 DEF OrderRight
    <3>3. ASSUME NEW u \in 1..MaxReads, s < u, tapRead'[u].packet # NoPacket
          PROVE  tapRead'[s].packet.no < tapRead'[u].packet.no
      <4>1. CASE u = r
        <5>1. Takes
          BY <1>9, <1>10, <3>3, <4>1
        <5> QED
          BY <1>10, <1>12, <3>1, <3>2, <4>1, <5>1
      <4>2. CASE u # r
        BY <1>10, <3>1, <3>2, <3>3, <4>2
      <4> QED
        BY <4>1, <4>2
    <3> HIDE DEF Takes, TakesNot
    <3> QED
      BY <1>1, <1>12, <3>1, <3>2, <3>3
  <2>2. ASSUME tapRead'[r].packet # NoPacket
        PROVE  /\ 1 <= tapRead'[r].packet.no /\ tapRead'[r].packet.no <= tapSent'
               /\ \A i \in ToSet(tapIrps') : r < i
               /\ \A p \in ToSet(tapPackets') : tapRead'[r].packet.no < p.no
               /\ \A u \in 1..MaxReads : r < u /\ tapRead'[u].packet # NoPacket =>
                    tapRead'[r].packet.no < tapRead'[u].packet.no
    <3>1. Takes
      BY <1>9, <1>10, <2>2
    <3>2. tapIrps' = <<>> /\ ToSet(<<>>) = {}
      BY <1>1, <3>1 DEF ToSet
    <3>3. 1 <= v.packet.no /\ v.packet.no <= tapSent
      BY <1>0, <1>12, <3>1 DEF OrderRight
    <3>4. ASSUME NEW u \in 1..MaxReads, r < u, tapRead'[u].packet # NoPacket PROVE FALSE
      <4>1. u # r /\ tapRead'[u] = tapRead[u]
        BY <1>4, <1>10, <3>4
      <4>2. u < r
        BY <1>13, <3>4, <4>1
      <4> QED
        BY <1>4, <3>4, <4>2
    <3>5. \A p \in ToSet(tapPackets') : v.packet.no < p.no
      BY <1>12, <3>1
    <3> QED
      BY <1>1, <1>10, <3>2, <3>3, <3>4, <3>5
  <2>3. \A p \in ToSet(tapPackets') : 1 <= p.no /\ p.no <= tapSent'
    BY <1>0, <1>1, <1>12 DEF OrderRight
  <2> QED
    BY <1>12, <2>1, <2>2, <2>3 DEF OrderRight
<1>19. CardRight' /\ EmptiedRight'
  BY <1>0, <1>1, <1>12, SameCard, SameEmptied
<1>20. OnceRight'
  <2> SUFFICES ASSUME "lookup" \notin tapMishaps
               PROVE  /\ \A s \in 1..MaxReads :
                           /\ tapRead'[s].at = "queued" <=> s \in ToSet(tapIrps')
                           /\ tapRead'[s].ended = (IF tapRead'[s].at = "done" THEN 1 ELSE 0)
                      /\ \A u \in TapSender : tapSender'[u].at = "completes" =>
                           /\ tapRead'[tapSender'[u].read].at = "popped"
                           /\ \A w \in TapSender : w # u /\ tapSender'[w].at = "completes" =>
                                tapSender'[w].read # tapSender'[u].read
    BY <1>1 DEF OnceRight
  <2>1. ASSUME NEW s \in 1..MaxReads
        PROVE  /\ tapRead'[s].at = "queued" <=> s \in ToSet(tapIrps')
               /\ tapRead'[s].ended = (IF tapRead'[s].at = "done" THEN 1 ELSE 0)
    <3>1. CASE s = r
      <4>1. r \notin ToSet(tapIrps')
        BY <1>1, <1>11, <1>14
      <4>2. v.ended = (IF v.at = "done" THEN 1 ELSE 0)
        BY <1>9
      <4> QED
        BY <1>10, <3>1, <4>1, <4>2
    <3>2. CASE s # r
      BY <1>0, <1>1, <1>10, <3>2 DEF OnceRight
    <3> QED
      BY <3>1, <3>2
  <2>2. \A u \in TapSender : tapSender[u].at = "completes" => tapRead'[tapSender[u].read] = tapRead[tapSender[u].read]
    BY <1>0, <1>11 DEF ElsewhereRight
  <2> QED
    BY <1>0, <1>1, <2>1, <2>2 DEF OnceRight
<1>21. BesideRight'
  BY <1>0, <1>1, <1>12 DEF BesideRight
<1>22. LateRight'
  <2> SUFFICES ASSUME "late packet" \notin tapMishaps
               PROVE  /\ \A y \in ToSet(tapPackets') : y.session = tapSession'
                      /\ ~tap'.opens /\ tapClose' = "no" /\ ~tap'.halt => tapPackets' = <<>>
                      /\ tapClose' = "flushed" => tapPackets' = <<>>
                      /\ \A s \in 1..MaxReads : tapRead'[s].packet # NoPacket =>
                           tapRead'[s].packet.session = tapRead'[s].session
    BY <1>1 DEF LateRight
  <2>1. /\ \A y \in ToSet(tapPackets) : y.session = tapSession
        /\ ~tap.opens /\ tapClose = "no" /\ ~tap.halt => tapPackets = <<>>
        /\ tapClose = "flushed" => tapPackets = <<>>
        /\ \A s \in 1..MaxReads : tapRead[s].packet # NoPacket =>
             tapRead[s].packet.session = tapRead[s].session
    BY <1>0 DEF LateRight
  <2>2. ASSUME NEW s \in 1..MaxReads, tapRead'[s].packet # NoPacket
        PROVE  tapRead'[s].packet.session = tapRead'[s].session
    <3>1. CASE s = r
      <4>1. Takes
        BY <1>9, <1>10, <2>2, <3>1
      <4>2. v.packet.session = tapSession
        BY <1>12, <2>1, <4>1
      <4> QED
        BY <1>9, <1>10, <3>1, <4>2
    <3>2. CASE s # r
      BY <1>10, <2>1, <2>2, <3>2
    <3> QED
      BY <3>1, <3>2
  <2> HIDE DEF Takes, TakesNot
  <2> QED
    BY <1>1, <1>12, <2>1, <2>2
<1>23. TapTyped'
  <2> HIDE DEF Takes, TakesNot
  <2> QED
    BY <1>0, <1>1, <1>4, <1>10, <1>12, TapTypedIs, TapTypedSame
<1> QED
  BY <1>15, <1>16, <1>17, <1>18, <1>19, <1>20, <1>21, <1>22, <1>23 DEF TapInv

(* The invariant holds at first, and every step keeps it. *)
LEMMA TapStarts ==
  ASSUME TapInit PROVE TapInv
<1>1. <<>> \in Seq(Packet) /\ <<>> \in Seq(Nat) /\ Len(<<>>) = 0 /\ ToSet(<<>>) = {} /\ Growing(<<>>)
      /\ PacketsGrow(<<>>)
  <2>1. <<>> \in Seq(Packet) /\ <<>> \in Seq(Nat) /\ Len(<<>>) = 0
    OBVIOUS
  <2>2. ToSet(<<>>) = {}
    BY DEF ToSet
  <2>3. Growing(<<>>)
    BY DEF Growing
  <2>4. PacketsGrow(<<>>)
    BY DEF PacketsGrow
  <2> QED
    BY <2>1, <2>2, <2>3, <2>4
<1>2. /\ \A r \in 1..MaxReads : tapRead[r] = NewRead /\ ~(r <= tapReads)
      /\ tapRead \in [1..MaxReads -> ReadOf] /\ tapReads \in 0..MaxReads /\ tapCancel \in 0..MaxReads
  <2>1. tapRead = [r \in 1..MaxReads |-> NewRead] /\ tapReads = 0 /\ tapCancel = 0
    BY DEF TapInit
  <2>2. 0 \in 0..MaxReads
    BY TapAssumption
  <2>3. \A r \in 1..MaxReads : ~(r <= 0)
    OBVIOUS
  <2> QED
    BY <2>1, <2>2, <2>3, NewReadIs
<1>3. TapTyped
  <2>1. tapSender \in Senders
    BY DEF TapInit, TapIdle, Senders
  <2>2. tap \in TapCard
    BY DEF TapInit, TapCard
  <2>3. 0 <= PacketQueueSize /\ 0 <= IrpQueueSize
    BY TapAssumption
  <2>4. /\ tapHeld = {} /\ tapPackets = <<>> /\ tapIrps = <<>> /\ tapSession = 0 /\ tapSent = 0 /\ tapHandle = "none"
        /\ tapClose = "no" /\ tapHalt = "not created" /\ tapMishaps = {}
    BY DEF TapInit
  <2> QED
    BY <1>1, <1>2, <2>1, <2>2, <2>3, <2>4 DEF TapTyped, Senders, TapCard
<1>4. ReadsRight
  BY <1>2, NewReadIs DEF ReadsRight
<1> USE DEF TapInit
<1>5. ElsewhereRight /\ IrpsRight
  BY <1>1 DEF ElsewhereRight, IrpsRight, TapIdle
<1>6. OrderRight
  BY <1>1, <1>2, NewReadIs DEF OrderRight
<1>7. CardRight /\ EmptiedRight
  BY DEF CardRight, EmptiedRight
<1>8. OnceRight
  BY <1>1, <1>2, NewReadIs DEF OnceRight, TapIdle
<1>9. BesideRight /\ LateRight
  BY <1>1, <1>2, NewReadIs DEF BesideRight, LateRight
<1> QED
  BY <1>3, <1>4, <1>5, <1>6, <1>7, <1>8, <1>9 DEF TapInv

LEMMA TapStep ==
  ASSUME TapInv, [TapNext]_tapVars PROVE TapInv'
<1>1. CASE UNCHANGED tapVars
  <2>0. TapTyped /\ ReadsRight /\ ElsewhereRight /\ IrpsRight /\ OrderRight /\ CardRight /\ EmptiedRight
        /\ OnceRight /\ BesideRight /\ LateRight
    BY DEF TapInv
  <2>1. UNCHANGED <<tapHeld, tap, tapPackets, tapIrps, tapRead, tapReads, tapSession, tapSent,
                    tapHandle, tapSender, tapCancel, tapClose, tapHalt, tapMishaps>>
    BY <1>1 DEF tapVars
  <2>2. TapTyped'
    BY <2>0, <2>1, TapTypedIs, TapTypedSame
  <2>3. ReadsRight' /\ ElsewhereRight' /\ IrpsRight' /\ OrderRight' /\ CardRight' /\ EmptiedRight'
    BY <2>0, <2>1, SameReads, SameElsewhere, SameIrps, SameOrder, SameCard, SameEmptied
  <2>4. OnceRight' /\ BesideRight' /\ LateRight'
    BY <2>0, <2>1, SameOnce, SameBeside, SameLate
  <2> QED
    BY <2>2, <2>3, <2>4 DEF TapInv
<1>2. CASE TapNext
  <2>1. CASE \/ TapCreate \/ TapOpen \/ TapConnects \/ TapCloseHandle \/ TapCloses \/ TapCloseEnds
             \/ CloseFlushes \/ ReadServes \/ CancelRuns \/ TapPower \/ HaltMarks \/ HaltFlushes
             \/ HaltFrees \/ HaltRemoves
    BY <2>1, CreateStep, OpenStep, ConnectsStep, CloseHandleStep, ClosesStep, CloseEndsStep,
       CloseFlushesStep, ReadServesStep, CancelRunsStep, PowerStep, HaltMarksStep, HaltFlushesStep,
       HaltFreesStep, HaltRemovesStep
  <2>2. CASE \E i \in DOMAIN TapSteps : TapCreateFails(i)
    BY <2>2, CreateFailsStep
  <2>3. CASE \E r \in 1..tapReads : ReadPends(r) \/ CancelStarts(r)
    BY <2>3, ReadPendsStep, CancelStartsStep
  <2>4. CASE \E t \in TapSender : SendChecks(t) \/ SendPushes(t) \/ SendPairs(t) \/ SendCompletes(t)
    BY <2>4, SendChecksStep, SendPushesStep, SendPairsStep, SendCompletesStep
  <2> QED
    BY <1>2, <2>1, <2>2, <2>3, <2>4 DEF TapNext
<1> QED
  BY <1>1, <1>2

(* The driver's fields, the reads, the senders and the stages of close and halt are always of
   their types, and the queues never longer than their sizes (mem.c's Queue). *)
THEOREM TapTyping == TapSpec => []TapTypeOK
<1>1. TapInv => TapTypeOK
  <2> SUFFICES ASSUME TapInv PROVE TapTypeOK
    OBVIOUS
  <2>1. TapTyped
    BY DEF TapInv
  <2>2. \A r \in 1..MaxReads : tapRead[r].at \in Places /\ tapRead[r].routine \in BOOLEAN /\ tapRead[r].ended \in Nat
    BY <2>1 DEF TapTyped, ReadOf
  <2>3. \A t \in TapSender : tapSender[t].at \in {"idle", "checked", "pairs", "completes"}
    BY <2>1 DEF TapTyped
  <2> QED
    BY <2>1, <2>2, <2>3, Zenon DEF TapTyped, TapTypeOK, Places
<1>2. TapInv /\ [TapNext]_tapVars => TapInv'
  BY TapStep
<1>3. TapInit => TapInv
  BY TapStarts
<1> QED
  BY <1>1, <1>2, <1>3, PTL DEF TapSpec

(* However reads, sends, cancellations, closes, power changes and a halt meet: no read ends
   twice or stays in the queue when it is over, packets are read in the order they were sent,
   none waits beside a read, and a halted card leaves nothing behind, but for what
   TapExact excepts by name. *)
THEOREM ReadsAccounted == TapSpec => []TapExact
<1>1. TapInv => TapExact
  <2> SUFFICES ASSUME TapInv PROVE TapExact
    OBVIOUS
  <2>0. TapTyped /\ ReadsRight /\ ElsewhereRight /\ IrpsRight /\ OrderRight /\ CardRight /\ EmptiedRight
        /\ OnceRight /\ BesideRight /\ LateRight
    BY DEF TapInv
  <2>1. "lookup" \notin tapMishaps => \A r \in 1..MaxReads :
          /\ tapRead[r].ended <= 1
          /\ tapRead[r].at = "queued" <=> r \in ToSet(tapIrps)
          /\ tapRead[r].ended = 1 <=> tapRead[r].at = "done"
    BY <2>0 DEF OnceRight
  <2>2. \A r, s \in 1..MaxReads :
          r < s /\ tapRead[r].packet # NoPacket /\ tapRead[s].packet # NoPacket =>
            tapRead[r].packet.no < tapRead[s].packet.no
    BY <2>0 DEF OrderRight
  <2>3. Paired /\ "beside" \notin tapMishaps =>
          \E t \in TapSender : tapSender[t].at \in {"pairs", "completes"}
    BY <2>0 DEF BesideRight, Paired
  <2>4. "late packet" \notin tapMishaps => \A r \in 1..MaxReads :
          tapRead[r].packet.no > 0 => tapRead[r].packet.session = tapRead[r].session
    <3>1. NoPacket.no = 0
      BY NewReadIs
    <3>2. \A r \in 1..MaxReads : tapRead[r].packet.no > 0 => tapRead[r].packet # NoPacket
      BY <3>1
    <3> QED
      BY <2>0, <3>2 DEF LateRight
  <2>5. /\ ~tap.halt => (tap.opens <=> tapHandle # "none")
        /\ ~tap.opens /\ tapClose = "no" /\ ~tap.halt => (tap.media => tap.always)
        /\ tapHalt = "gone" => tapHeld = {}
        /\ tapHalt = "failed" => tapHeld \subseteq {"adapter"}
    BY <2>0 DEF CardRight
  <2>6. tapHalt \in {"flushed", "freed", "gone"} => tapIrps = <<>> /\ tapPackets = <<>>
    BY <2>0 DEF EmptiedRight
  <2> QED
    BY <2>1, <2>2, <2>3, <2>4, <2>5, <2>6 DEF TapExact
<1>2. TapInv /\ [TapNext]_tapVars => TapInv'
  BY TapStep
<1>3. TapInit => TapInv
  BY TapStarts
<1> QED
  BY <1>1, <1>2, <1>3, PTL DEF TapSpec

-----------------------------------------------------------------------------
(* The debug log.                                                          *)

(* A thread is at a section from the time it has found or made it until it has put it, and
   holds its mutex in between. *)
AtSection == {"created", "found", "get", "wait", "locked", "total", "put"}
InMutex   == {"locked", "total", "put"}
Counting  == {"wait", "locked", "total", "put"}

LogPlace == {"idle", "create", "next"} \union AtSection
SectionSet == [filled : 0..MaxSize, size : 0..MaxSize, refcount : Int, folded : BOOLEAN]
LoggerSet == [at : LogPlace, ptr : LogPtr \union {"none"}, sec : Slot \union {"none"},
              old : Int, new : BOOLEAN]
CopiedSet == [user : 0..ReadSize, saved : Nat]

LogTyped ==
  /\ section \in [Slot -> SectionSet]
  /\ \A s \in Slot : section[s].filled <= section[s].size
  /\ taken \subseteq Slot /\ chain \in Seq(Slot)
  /\ pointer \in [LogPtr -> Slot \union {"none"}]
  /\ totalFilled \in Int /\ readWait \in BOOLEAN /\ freeing \in BOOLEAN
  /\ logger \in [Logger -> LoggerSet]
  /\ todo \in Seq(Slot) /\ copied \in CopiedSet
  /\ mishaps \subseteq {"refcount", "pointer", "total", "early free"}

(* What a thread has where it is. *)
PlaceKnown ==
  /\ \A t \in Logger : logger[t].sec # "none" <=> At(t) \in AtSection
  /\ \A w \in Writer :
       /\ At(w) # "next"
       /\ At(w) # "idle" => logger[w].ptr \in LogPtr
       /\ logger[w].new => At(w) \in {"created", "found", "get", "wait"}
       /\ At(w) = "created" => logger[w].new
  /\ At("reader") \notin {"create", "created"} /\ ~logger["reader"].new
  /\ copied.saved # 0 => At("reader") = "total"
MutexKept == \A t, u \in Logger :
  At(t) \in InMutex /\ At(u) \in InMutex /\ logger[t].sec = logger[u].sec => t = u

Listed(s) == s \in ToSet(chain)
Distinct(q) == \A i, j \in 1..Len(q) : q[i] = q[j] => i = j

(* The list, and what the reader has left of it. *)
ListKnown ==
  /\ Distinct(chain) /\ \A s \in ToSet(chain) : s \in taken
  /\ Distinct(todo)  /\ \A s \in ToSet(todo) : Listed(s) /\ s # logger["reader"].sec
  /\ At("reader") = "idle" => todo = <<>>
(* Whose section is on it.  A section has one thread until its creator holds it. *)
HolderKnown ==
  /\ \A t \in Logger : logger[t].sec # "none" => logger[t].sec \in taken
  /\ \A w \in Writer : logger[w].sec # "none" => (Listed(logger[w].sec) <=> At(w) # "created")
  /\ \A w, v \in Writer : logger[w].new /\ logger[v].sec = logger[w].sec => w = v
  /\ At("reader") \in AtSection \ {"put"} => Listed(logger["reader"].sec)
  /\ \A w \in Writer : At(w) = "created" => logger["reader"].sec # logger[w].sec
(* What is off the list is empty, and new or just taken off; what is folded is nobody's. *)
OffListKnown == \A s \in taken : ~Listed(s) =>
  /\ section[s].filled = 0
  /\ \/ logger["reader"].sec = s
     \/ \E w \in Writer : At(w) = "created" /\ logger[w].sec = s
FoldedKnown == \A s \in taken : section[s].folded =>
  /\ Listed(s) /\ \A p \in LogPtr : pointer[p] # s
  /\ \A w \in Writer : logger[w].sec # s
PointerKnown == ~freeing => \A p \in LogPtr : pointer[p] # "none" =>
  /\ Listed(pointer[p])
  /\ \A q \in LogPtr : pointer[q] = pointer[p] => q = p
  /\ \A w \in Writer : logger[w].sec = pointer[p] => logger[w].ptr = p /\ ~logger[w].new
FreedKnown == freeing =>
  /\ chain = <<>> /\ taken = {} /\ \A w \in Writer : At(w) = "idle"
  /\ \A p \in LogHandle \intersect LogPtr : pointer[p] = "none"
TakenOut == At("reader") = "total" => section[logger["reader"].sec].filled = 0

OwnerCounts(s) == IF BeingMade(s) \/ ~Listed(s) THEN 0 ELSE 1
CountKnown == \A s \in taken : section[s].refcount = Cardinality(Users(s)) + OwnerCounts(s)

FilledIn(secs, S) == MapThenSumSet(LAMBDA s : secs[s].filled, S)
AtTotal == {w \in Writer : At(w) = "total"}
TotalKnown == mishaps \subseteq {"pointer"} /\ ~freeing =>
  totalFilled = FilledIn(section, taken) - Cardinality(AtTotal) + copied.saved
NoneLost == mishaps = {} => \A s \in ToSet(chain) :
  section[s].folded \/ BeingMade(s) \/ \E p \in LogPtr : pointer[p] = s

Counted == mishaps \intersect {"refcount", "early free"} = {}
LogInv ==
  /\ LogTyped /\ PlaceKnown /\ MutexKept
  /\ Counted => /\ ListKnown /\ HolderKnown /\ OffListKnown /\ FoldedKnown /\ PointerKnown
                /\ FreedKnown /\ TakenOut /\ CountKnown /\ TotalKnown /\ NoneLost

(* resize_section asks for a size other than the one it has only to find that the two differ,
   and returns: peak_size is the size at creation, so that no buffer is ever changed. *)
LEMMA ResizeKeeps == ASSUME NEW r PROVE resize_section(r) = r.size
BY DEF resize_section

LEMMA SlotsFinite == ASSUME NEW S \in SUBSET Slot PROVE IsFiniteSet(S)
BY DebugAssumption, FS_Subset

(* The lines in the sections as a sum over a function. *)
FillOf(secs) == [s \in Slot |-> secs[s].filled]

LEMMA FilledSums ==
  ASSUME NEW secs \in [Slot -> SectionSet], NEW S \in SUBSET Slot
  PROVE  FillOf(secs) \in [Slot -> Nat] /\ FilledIn(secs, S) = SumOf(FillOf(secs), S)
<1>1. FillOf(secs) \in [Slot -> Nat]
  <2> SUFFICES ASSUME NEW s \in Slot PROVE secs[s].filled \in Nat
    BY DEF FillOf
  <2>1. secs[s].filled \in 0..MaxSize
    BY DEF SectionSet
  <2> QED
    BY <2>1, DebugAssumption
<1> DEFINE Folds(iter, s) == IF s = {} THEN 0 ELSE secs[FirstOf(s)].filled + iter[s \ {FirstOf(s)}]
           Is(iter) == iter = [s \in SUBSET S |-> Folds(iter, s)]
<1>2. FilledIn(secs, S) = (CHOOSE iter : Is(iter))[S]
  BY DEF FilledIn, MapThenSumSet, MapThenFoldSet, FirstOf
<1>3. ASSUME NEW iter, NEW s \in SUBSET S PROVE Folds(iter, s) = Summed(FillOf(secs), iter, s)
  <2>1. s # {} => FirstOf(s) \in Slot
    BY DEF FirstOf
  <2> QED
    BY <2>1 DEF Summed, FillOf
<1>4. ASSUME NEW iter PROVE Is(iter) <=> SumsTo(FillOf(secs), iter, S)
  BY <1>3 DEF SumsTo
<1> HIDE DEF Is
<1>5. IsFiniteSet(Slot)
  BY DebugAssumption
<1>6. /\ \E iter : SumsTo(FillOf(secs), iter, S)
      /\ \A iter : SumsTo(FillOf(secs), iter, S) => iter[S] = SumOf(FillOf(secs), S)
  BY <1>1, <1>5, SumSolved
<1>7. PICK iter : Is(iter) /\ iter = CHOOSE i : Is(i)
  BY <1>4, <1>6
<1>8. iter[S] = SumOf(FillOf(secs), S)
  BY <1>4, <1>6, <1>7
<1> QED
  BY <1>1, <1>2, <1>7, <1>8

LEMMA FilledAdds ==
  ASSUME NEW secs \in [Slot -> SectionSet]
  PROVE  /\ FilledIn(secs, {}) = 0
         /\ \A S \in SUBSET Slot : FilledIn(secs, S) \in Nat
         /\ \A S \in SUBSET Slot : \A m \in Slot \ S :
              FilledIn(secs, S \union {m}) = FilledIn(secs, S) + secs[m].filled
<1>1. FillOf(secs) \in [Slot -> Nat] /\ \A S \in SUBSET Slot : FilledIn(secs, S) = SumOf(FillOf(secs), S)
  <2>1. {} \in SUBSET Slot
    OBVIOUS
  <2> QED
    BY <2>1, FilledSums
<1>2. IsFiniteSet(Slot)
  BY DebugAssumption
<1>3. /\ SumOf(FillOf(secs), {}) = 0
      /\ \A S \in SUBSET Slot : SumOf(FillOf(secs), S) \in Nat
      /\ \A S \in SUBSET Slot : \A m \in Slot \ S :
           SumOf(FillOf(secs), S \union {m}) = SumOf(FillOf(secs), S) + FillOf(secs)[m]
  BY <1>1, <1>2, SumAdds
<1>4. {} \in SUBSET Slot /\ \A S \in SUBSET Slot : \A m \in Slot \ S : S \union {m} \in SUBSET Slot
  OBVIOUS
<1>5. \A m \in Slot : FillOf(secs)[m] = secs[m].filled
  BY DEF FillOf
<1> QED
  BY <1>1, <1>3, <1>4, <1>5

LEMMA FilledSame ==
  ASSUME NEW a \in [Slot -> SectionSet], NEW b \in [Slot -> SectionSet], NEW S \in SUBSET Slot,
         \A s \in S : a[s].filled = b[s].filled
  PROVE  FilledIn(a, S) = FilledIn(b, S)
<1>1. \A s \in S : FillOf(a)[s] = FillOf(b)[s]
  BY DEF FillOf
<1>2. IsFiniteSet(Slot)
  BY DebugAssumption
<1>3. FillOf(a) \in [Slot -> Nat] /\ FillOf(b) \in [Slot -> Nat]
  BY FilledSums
<1>4. SumOf(FillOf(a), S) = SumOf(FillOf(b), S)
  BY <1>1, <1>2, <1>3, SumSame
<1> QED
  BY <1>4, FilledSums

(* One section's lines change. *)
LEMMA FilledOne ==
  ASSUME NEW a \in [Slot -> SectionSet], NEW b \in [Slot -> SectionSet], NEW S \in SUBSET Slot,
         NEW m \in S, \A s \in S \ {m} : a[s].filled = b[s].filled
  PROVE  FilledIn(b, S) = FilledIn(a, S) - a[m].filled + b[m].filled
<1> DEFINE R == S \ {m}
<1>1. R \in SUBSET Slot /\ m \in Slot \ R /\ R \union {m} = S
  OBVIOUS
<1>2. FilledIn(a, R) = FilledIn(b, R)
  BY <1>1, FilledSame
<1>3. FilledIn(a, S) = FilledIn(a, R) + a[m].filled /\ FilledIn(b, S) = FilledIn(b, R) + b[m].filled
  BY <1>1, FilledAdds
<1>4. FilledIn(a, R) \in Nat
  BY <1>1, FilledAdds
<1>5. a[m].filled \in 0..MaxSize /\ b[m].filled \in 0..MaxSize
  BY DEF SectionSet
<1>6. a[m].filled \in Int /\ b[m].filled \in Int
  BY <1>5, DebugAssumption
<1> HIDE DEF R
<1> QED
  BY <1>2, <1>3, <1>4, <1>6

(* Lists of sections. *)
LEMMA OnList == ASSUME NEW q \in Seq(Slot)
  PROVE  /\ \A s : s \in ToSet(q) <=> \E i \in 1..Len(q) : q[i] = s
         /\ \A s \in ToSet(q) : s \in Slot
BY DEF ToSet

LEMMA EmptyList == ToSet(<<>>) = {} /\ Distinct(<<>>)
BY DEF ToSet, Distinct

LEMMA AppendList ==
  ASSUME NEW q \in Seq(Slot), NEW s \in Slot
  PROVE  /\ Append(q, s) \in Seq(Slot)
         /\ \A x : x \in ToSet(Append(q, s)) <=> x \in ToSet(q) \/ x = s
         /\ Distinct(q) /\ s \notin ToSet(q) => Distinct(Append(q, s))
<1> DEFINE a == Append(q, s)
<1>1. /\ a \in Seq(Slot) /\ Len(a) = Len(q) + 1 /\ a[Len(q) + 1] = s
      /\ \A i \in 1..Len(q) : a[i] = q[i]
  BY AppendProperties
<1>2. Len(q) \in Nat
  OBVIOUS
<1> HIDE DEF a
<1>3. ASSUME NEW x PROVE x \in ToSet(a) <=> x \in ToSet(q) \/ x = s
  <2>1. 1..Len(a) = 1..Len(q) \union {Len(q) + 1}
    BY <1>1, <1>2
  <2>2. x \in ToSet(a) <=> \E i \in 1..Len(a) : a[i] = x
    BY <1>1, OnList
  <2>3. x \in ToSet(q) <=> \E i \in 1..Len(q) : q[i] = x
    BY OnList
  <2> QED
    BY <1>1, <2>1, <2>2, <2>3
<1>4. ASSUME Distinct(q), s \notin ToSet(q) PROVE Distinct(a)
  <2>1. \A i \in 1..Len(q) : q[i] # s
    BY <1>4, OnList
  <2>2. \A i \in 1..Len(a) : i = Len(q) + 1 \/ i \in 1..Len(q)
    BY <1>1, <1>2
  <2> QED
    BY <1>1, <1>2, <1>4, <2>1, <2>2 DEF Distinct
<1> QED
  BY <1>1, <1>3, <1>4 DEF a

LEMMA TailList ==
  ASSUME NEW q \in Seq(Slot), q # <<>>
  PROVE  /\ Head(q) \in ToSet(q) /\ Tail(q) \in Seq(Slot)
         /\ \A s \in ToSet(Tail(q)) : s \in ToSet(q)
         /\ Distinct(q) => Distinct(Tail(q)) /\ Head(q) \notin ToSet(Tail(q))
<1> DEFINE r == Tail(q)
<1>1. /\ r \in Seq(Slot) /\ Len(r) = Len(q) - 1 /\ Head(q) = q[1] /\ Len(q) \in Nat \ {0}
      /\ \A i \in 1..Len(r) : r[i] = q[i + 1]
  BY HeadTailProperties, EmptySeq
<1> HIDE DEF r
<1>2. \A i \in 1..Len(r) : i + 1 \in 1..Len(q) /\ i + 1 # 1
  BY <1>1
<1>3. Head(q) \in ToSet(q)
  BY <1>1, OnList
<1>4. \A s \in ToSet(r) : s \in ToSet(q)
  BY <1>1, <1>2, OnList
<1>5. ASSUME Distinct(q) PROVE Distinct(r) /\ Head(q) \notin ToSet(r)
  <2>1. Distinct(r)
    BY <1>1, <1>2, <1>5 DEF Distinct
  <2>2. \A i \in 1..Len(r) : r[i] # q[1]
    BY <1>1, <1>2, <1>5 DEF Distinct
  <2> QED
    BY <1>1, <2>1, <2>2, OnList
<1> QED
  BY <1>1, <1>3, <1>4, <1>5 DEF r

LEMMA RemoveList ==
  ASSUME NEW q \in Seq(Slot), NEW s \in ToSet(q), Distinct(q)
  PROVE  LET r == RemoveAt(q, CHOOSE i \in DOMAIN q : q[i] = s) IN
         /\ r \in Seq(Slot) /\ Distinct(r)
         /\ \A x : x \in ToSet(r) <=> x \in ToSet(q) /\ x # s
<1>1. PICK i \in 1..Len(q) : q[i] = s /\ i = CHOOSE n \in DOMAIN q : q[n] = s
  <2>1. DOMAIN q = 1..Len(q) /\ \E n \in 1..Len(q) : q[n] = s
    BY OnList
  <2> QED
    BY <2>1
<1> DEFINE a == SubSeq(q, 1, i - 1)
           b == SubSeq(q, i + 1, Len(q))
           r == a \o b
<1>2. RemoveAt(q, CHOOSE n \in DOMAIN q : q[n] = s) = r
  BY <1>1 DEF RemoveAt
<1>3. Len(q) \in Nat /\ i \in Nat /\ 1 <= i /\ i <= Len(q)
  OBVIOUS
<1>4. a \in Seq(Slot) /\ Len(a) = i - 1 /\ \A n \in 1..(i - 1) : a[n] = q[n]
  <2>1. \A n \in 1..(i - 1) : q[n] \in Slot /\ 1 + n - 1 = n
    BY <1>3
  <2> QED
    BY <1>3, <2>1, SubSeqProperties
<1>5. b \in Seq(Slot) /\ Len(b) = Len(q) - i /\ \A n \in 1..(Len(q) - i) : b[n] = q[i + n]
  <2>1. /\ \A n \in (i + 1)..Len(q) : q[n] \in Slot
        /\ \A n \in 1..(Len(q) - i) : n \in Int
        /\ \A n \in Int : i + 1 + n - 1 = i + n
        /\ Len(q) - (i + 1) + 1 = Len(q) - i
    BY <1>3
  <2>2. /\ b \in Seq(Slot) /\ Len(b) = IF i + 1 <= Len(q) THEN Len(q) - (i + 1) + 1 ELSE 0
        /\ \A n \in 1..(Len(q) - (i + 1) + 1) : b[n] = q[i + 1 + n - 1]
    BY <1>3, <2>1, SubSeqProperties
  <2> HIDE DEF b
  <2>3. Len(b) = Len(q) - i
    BY <1>3, <2>2
  <2> QED
    BY <2>1, <2>2, <2>3
<1> HIDE DEF a, b
<1>6. /\ r \in Seq(Slot) /\ Len(r) = Len(q) - 1
      /\ \A n \in 1..(Len(q) - 1) : r[n] = IF n <= i - 1 THEN q[n] ELSE q[n + 1]
  <2>1. /\ r \in Seq(Slot) /\ Len(r) = Len(a) + Len(b)
        /\ \A n \in 1..(Len(a) + Len(b)) : r[n] = IF n <= Len(a) THEN a[n] ELSE b[n - Len(a)]
    BY <1>4, <1>5, ConcatProperties
  <2> HIDE DEF r
  <2>2. Len(a) + Len(b) = Len(q) - 1
    BY <1>3, <1>4, <1>5
  <2>3. ASSUME NEW n \in 1..(Len(q) - 1) PROVE r[n] = IF n <= i - 1 THEN q[n] ELSE q[n + 1]
    <3>1. CASE n <= i - 1
      BY <1>3, <1>4, <2>1, <2>2, <3>1
    <3>2. CASE ~(n <= i - 1)
      <4>1. n - (i - 1) \in 1..(Len(q) - i) /\ i + (n - (i - 1)) = n + 1
        BY <1>3, <3>2
      <4>2. r[n] = b[n - (i - 1)]
        BY <1>4, <2>1, <2>2, <3>2
      <4> QED
        BY <1>5, <3>2, <4>1, <4>2
    <3> QED
      BY <3>1, <3>2
  <2> QED
    BY <2>1, <2>2, <2>3
<1> HIDE DEF r
<1> DEFINE From(n) == IF n <= i - 1 THEN n ELSE n + 1
<1>7. \A n \in 1..(Len(q) - 1) : From(n) \in 1..Len(q) /\ From(n) # i /\ r[n] = q[From(n)]
  BY <1>3, <1>6
<1>8. \A n \in 1..Len(q) : n # i => \E m \in 1..(Len(q) - 1) : From(m) = n
  <2> SUFFICES ASSUME NEW n \in 1..Len(q), n # i PROVE \E m \in 1..(Len(q) - 1) : From(m) = n
    OBVIOUS
  <2>1. CASE n < i
    <3>1. n \in 1..(Len(q) - 1) /\ From(n) = n
      BY <1>3, <2>1
    <3> QED
      BY <3>1
  <2>2. CASE n > i
    <3>1. n - 1 \in 1..(Len(q) - 1) /\ From(n - 1) = n
      BY <1>3, <2>2
    <3> QED
      BY <3>1
  <2> QED
    BY <1>3, <2>1, <2>2
<1>9. \A m, n \in 1..(Len(q) - 1) : From(m) = From(n) => m = n
  BY <1>3
<1> HIDE DEF From
<1>10. Distinct(r)
  BY <1>6, <1>7, <1>9 DEF Distinct
<1>11. ASSUME NEW x PROVE x \in ToSet(r) <=> x \in ToSet(q) /\ x # s
  <2>1. x \in ToSet(r) <=> \E n \in 1..(Len(q) - 1) : r[n] = x
    BY <1>6, OnList
  <2>2. x \in ToSet(q) <=> \E n \in 1..Len(q) : q[n] = x
    BY OnList
  <2>3. \A n \in 1..Len(q) : n # i => q[n] # s
    BY <1>1 DEF Distinct
  <2> QED
    BY <1>1, <1>7, <1>8, <2>1, <2>2, <2>3
<1> QED
  BY <1>2, <1>6, <1>10, <1>11

(* How many threads use a section. *)
Uses(t, s) == logger[t].sec = s /\ At(t) \in Counting
One(b) == IF b THEN 1 ELSE 0

LEMMA LoggersFinite ==
  ASSUME NEW A \in SUBSET Logger
  PROVE  IsFiniteSet(A) /\ Cardinality(A) \in Nat
<1>1. IsFiniteSet(Logger)
  <2>1. IsFiniteSet(Writer)
    BY DebugAssumption
  <2>2. Logger = Writer \union {"reader"}
    BY DEF Logger
  <2> QED
    BY <2>1, <2>2, FS_AddElement
<1>2. IsFiniteSet(A)
  BY <1>1, FS_Subset
<1> QED
  BY <1>2, FS_CardinalityType

(* A set of threads changes by one at most. *)
LEMMA OneMoves ==
  ASSUME NEW A \in SUBSET Logger, NEW B \in SUBSET Logger, NEW t \in Logger,
         \A u \in Logger : u # t => (u \in A <=> u \in B)
  PROVE  /\ Cardinality(B) = Cardinality(A) + One(t \in B) - One(t \in A)
         /\ Cardinality(A) \in Nat /\ Cardinality(B) \in Nat
         /\ t \in A => Cardinality(A) >= 1
<1> DEFINE R == A \ {t}
<1>1. R \in SUBSET Logger /\ R = B \ {t}
  OBVIOUS
<1>2. IsFiniteSet(A) /\ IsFiniteSet(B) /\ IsFiniteSet(R)
  BY <1>1, LoggersFinite
<1>3. Cardinality(A) \in Nat /\ Cardinality(B) \in Nat /\ Cardinality(R) \in Nat
  BY <1>1, LoggersFinite
<1>4. Cardinality(R) = IF t \in A THEN Cardinality(A) - 1 ELSE Cardinality(A)
  BY <1>2, FS_RemoveElement
<1>5. Cardinality(R) = IF t \in B THEN Cardinality(B) - 1 ELSE Cardinality(B)
  BY <1>1, <1>2, FS_RemoveElement
<1> HIDE DEF R
<1> QED
  BY <1>3, <1>4, <1>5 DEF One

LEMMA UsersMove ==
  ASSUME NEW t \in Logger, NEW s, \A u \in Logger : u # t => (Uses(u, s)' <=> Uses(u, s))
  PROVE  /\ Cardinality(Users(s))' = Cardinality(Users(s)) + One(Uses(t, s)') - One(Uses(t, s))
         /\ Cardinality(Users(s)) \in Nat /\ Cardinality(Users(s))' \in Nat
         /\ Uses(t, s) => Cardinality(Users(s)) >= 1
<1>1. PICK A, B : A = Users(s) /\ B = Users(s)'
  OBVIOUS
<1>2. /\ \A u : u \in A <=> u \in Logger /\ Uses(u, s)
      /\ \A u : u \in B <=> u \in Logger /\ Uses(u, s)'
  BY <1>1 DEF Users, Uses, Counting
<1>3. /\ A \in SUBSET Logger /\ B \in SUBSET Logger
      /\ \A u \in Logger : u # t => (u \in A <=> u \in B)
  BY <1>2
<1>4. /\ Cardinality(B) = Cardinality(A) + One(t \in B) - One(t \in A)
      /\ Cardinality(A) \in Nat /\ Cardinality(B) \in Nat
      /\ t \in A => Cardinality(A) >= 1
  BY <1>3, OneMoves
<1>5. One(t \in A) = One(Uses(t, s)) /\ One(t \in B) = One(Uses(t, s)')
  BY <1>2 DEF One
<1> QED
  BY <1>1, <1>2, <1>4, <1>5

Adding(t) == t \in Writer /\ At(t) = "total"

LEMMA AddersMove ==
  ASSUME NEW t \in Logger, \A u \in Logger : u # t => (Adding(u)' <=> Adding(u))
  PROVE  /\ Cardinality(AtTotal)' = Cardinality(AtTotal) + One(Adding(t)') - One(Adding(t))
         /\ Cardinality(AtTotal) \in Nat /\ Cardinality(AtTotal)' \in Nat
<1>1. PICK A, B : A = AtTotal /\ B = AtTotal'
  OBVIOUS
<1>2. /\ \A u : u \in A <=> u \in Logger /\ Adding(u)
      /\ \A u : u \in B <=> u \in Logger /\ Adding(u)'
  BY <1>1 DEF AtTotal, Adding, Logger
<1>3. /\ A \in SUBSET Logger /\ B \in SUBSET Logger
      /\ \A u \in Logger : u # t => (u \in A <=> u \in B)
  BY <1>2
<1>4. /\ Cardinality(B) = Cardinality(A) + One(t \in B) - One(t \in A)
      /\ Cardinality(A) \in Nat /\ Cardinality(B) \in Nat
  BY <1>3, OneMoves
<1>5. One(t \in A) = One(Adding(t)) /\ One(t \in B) = One(Adding(t)')
  BY <1>2 DEF One
<1> QED
  BY <1>1, <1>4, <1>5

(* In a state that steps start from, everything is known. *)
LogKnown ==
  /\ LogTyped /\ PlaceKnown /\ MutexKept /\ ListKnown /\ HolderKnown /\ OffListKnown
  /\ FoldedKnown /\ PointerKnown /\ FreedKnown /\ TakenOut /\ CountKnown /\ TotalKnown /\ NoneLost
Going == mishaps \subseteq {"pointer"}

LEMMA GoingKnows == LogInv /\ Going => LogKnown
<1> SUFFICES ASSUME LogInv, Going PROVE LogKnown
  OBVIOUS
<1>1. Counted
  BY DEF Going, Counted
<1> QED
  BY <1>1 DEF LogInv, LogKnown

(* A thread goes on at the section it has. *)
Along(t) ==
  /\ logger' \in [Logger -> LoggerSet]
  /\ \A u \in Logger : u # t => logger'[u] = logger[u]
  /\ /\ logger'[t].sec = logger[t].sec /\ logger'[t].ptr = logger[t].ptr
     /\ logger'[t].new = logger[t].new
  /\ At(t) \in {"found", "get", "wait", "locked", "total"}
  /\ At(t)' \in {"get", "wait", "locked", "total", "put"}
  /\ At(t)' \in Counting <=> At(t) \in Counting \union {"get"}
  /\ logger[t].new => At(t)' \in {"get", "wait"}
  /\ At(t)' \in InMutex => At(t) \in InMutex \/ ~SectionLocked(logger[t].sec)
KeptBy(secs, s) ==
  /\ section'[s].folded = section[s].folded
  /\ s \notin secs => section'[s].filled = section[s].filled /\ section'[s].refcount = section[s].refcount
Refers(t) == section'[logger[t].sec].refcount = section[logger[t].sec].refcount + One(At(t) = "get")
Fills(t) ==
  /\ section'[logger[t].sec].filled # section[logger[t].sec].filled => At(t) = "locked"
  /\ t = "reader" /\ At(t)' = "total" => section'[logger[t].sec].filled = 0
Balances(t) ==
  mishaps' \subseteq {"pointer"} =>
    totalFilled' - copied'.saved - section'[logger[t].sec].filled + One(Adding(t)')
      = totalFilled - copied.saved - section[logger[t].sec].filled + One(Adding(t))

LEMMA AlongKnows ==
  ASSUME LogKnown, NEW t \in Logger, At(t) \in {"found", "get", "wait", "locked", "total"}
  PROVE  /\ logger[t].sec \in Slot /\ logger[t].sec \in taken /\ Listed(logger[t].sec) /\ ~freeing
         /\ (\A w \in Writer : At(w) = "created" => logger[w].sec # logger[t].sec)
<1>1. logger[t].sec # "none" /\ logger[t].sec \in taken
  BY DEF LogKnown, PlaceKnown, HolderKnown, AtSection
<1>2. Listed(logger[t].sec)
  BY <1>1 DEF LogKnown, HolderKnown, AtSection, Logger
<1> QED
  BY <1>1, <1>2 DEF LogKnown, LogTyped, FreedKnown, HolderKnown, PlaceKnown, AtSection

LEMMA AlongPlaces ==
  ASSUME LogKnown, NEW t \in Logger, Along(t), copied'.saved # 0 => At("reader")' = "total"
  PROVE  PlaceKnown' /\ MutexKept'
<1>1. \A u \in Logger : /\ logger'[u].sec = logger[u].sec /\ logger'[u].ptr = logger[u].ptr
                        /\ logger'[u].new = logger[u].new
  BY DEF Along
<1>2. \A u \in Logger : At(u)' \in AtSection <=> At(u) \in AtSection
  BY DEF Along, At, AtSection
<1>3. \A w \in Writer : w \in Logger
  BY DEF Logger
<1>4. "reader" \in Logger
  BY DEF Logger
<1>5. PlaceKnown'
  <2>1. \A u \in Logger : logger'[u].sec # "none" <=> At(u)' \in AtSection
    BY <1>1, <1>2 DEF LogKnown, PlaceKnown
  <2>2. ASSUME NEW w \in Writer
        PROVE  /\ At(w)' # "next"
               /\ At(w)' # "idle" => logger'[w].ptr \in LogPtr
               /\ logger'[w].new => At(w)' \in {"created", "found", "get", "wait"}
               /\ At(w)' = "created" => logger'[w].new
    <3>1. CASE w = t
      BY <3>1, <1>3 DEF LogKnown, PlaceKnown, Along
    <3>2. CASE w # t
      BY <3>2, <1>3 DEF LogKnown, PlaceKnown, Along, At
    <3> QED
      BY <3>1, <3>2
  <2>3. At("reader")' \notin {"create", "created"} /\ ~logger'["reader"].new
    BY <1>1, <1>4 DEF LogKnown, PlaceKnown, Along, At
  <2> QED
    BY <2>1, <2>2, <2>3 DEF PlaceKnown
<1>6. MutexKept'
  <2> SUFFICES ASSUME NEW u \in Logger, NEW v \in Logger, At(u)' \in InMutex, At(v)' \in InMutex,
                      logger'[u].sec = logger'[v].sec, u # v
               PROVE  FALSE
    BY DEF MutexKept
  <2>1. logger[u].sec = logger[v].sec
    BY <1>1
  <2>2. CASE u # t /\ v # t
    BY <2>1, <2>2 DEF Along, At, LogKnown, MutexKept
  <2>3. ASSUME NEW x \in Logger, x # t, At(x)' \in InMutex, At(t)' \in InMutex,
               logger[x].sec = logger[t].sec
        PROVE  FALSE
    <3>1. At(x) \in InMutex
      BY <2>3 DEF Along, At
    <3>2. SectionLocked(logger[t].sec)
      BY <2>3, <3>1 DEF SectionLocked, InMutex
    <3> QED
      BY <2>3, <3>1, <3>2 DEF Along, LogKnown, MutexKept
  <2> QED
    BY <2>1, <2>2, <2>3
<1> QED
  BY <1>5, <1>6

LEMMA AlongTotal ==
  ASSUME LogKnown, Going, NEW t \in Logger, Along(t), LogTyped', Balances(t),
         \A x \in taken : x # logger[t].sec => section'[x].filled = section[x].filled,
         taken' = taken, freeing' = freeing
  PROVE  TotalKnown'
<1>1. logger[t].sec \in Slot /\ logger[t].sec \in taken /\ ~freeing
  BY AlongKnows DEF Along
<1>2. TotalKnown'
  <2> SUFFICES ASSUME mishaps' \subseteq {"pointer"}
               PROVE  totalFilled' = FilledIn(section', taken) - Cardinality(AtTotal)' + copied'.saved
    BY DEF TotalKnown
  <2> DEFINE s == logger[t].sec
  <2>1. totalFilled = FilledIn(section, taken) - Cardinality(AtTotal) + copied.saved
    BY <1>1 DEF LogKnown, TotalKnown, Going
  <2>2. /\ section \in [Slot -> SectionSet] /\ section' \in [Slot -> SectionSet]
        /\ taken \in SUBSET Slot
    BY DEF LogKnown, LogTyped
  <2>3. FilledIn(section', taken) = FilledIn(section, taken) - section[s].filled + section'[s].filled
    <3>1. \A x \in taken \ {s} : section[x].filled = section'[x].filled
      BY <2>2
    <3>2. s \in taken
      BY <1>1
    <3> HIDE DEF s
    <3> QED
      BY <2>2, <3>1, <3>2, FilledOne
  <2>4. \A u \in Logger : u # t => (Adding(u)' <=> Adding(u))
    BY DEF Along, Adding, At
  <2>5. /\ Cardinality(AtTotal)' = Cardinality(AtTotal) + One(Adding(t)') - One(Adding(t))
        /\ Cardinality(AtTotal) \in Nat /\ Cardinality(AtTotal)' \in Nat
    BY <2>4, AddersMove
  <2>6. /\ totalFilled \in Int /\ totalFilled' \in Int /\ copied.saved \in Int /\ copied'.saved \in Int
    <3>1. totalFilled \in Int /\ totalFilled' \in Int /\ copied \in CopiedSet /\ copied' \in CopiedSet
      BY DEF LogKnown, LogTyped
    <3> QED
      BY <3>1 DEF CopiedSet
  <2>7. FilledIn(section, taken) \in Int
    BY <2>2, FilledAdds
  <2>8. section[s].filled \in Int /\ section'[s].filled \in Int
    <3>1. section[s].filled \in 0..MaxSize /\ section'[s].filled \in 0..MaxSize
      BY <1>1, <2>2 DEF SectionSet
    <3> QED
      BY <3>1, DebugAssumption
  <2>9. totalFilled' - copied'.saved - section'[s].filled + One(Adding(t)')
      = totalFilled - copied.saved - section[s].filled + One(Adding(t))
    BY DEF Balances
  <2> HIDE DEF s
  <2>10. One(Adding(t)) \in Int /\ One(Adding(t)') \in Int
    BY DEF One
  <2> QED
    BY <2>1, <2>3, <2>5, <2>6, <2>7, <2>8, <2>9, <2>10
<1> QED
  BY <1>2

LEMMA AlongStep ==
  ASSUME LogKnown, Going, NEW t \in Logger, Along(t),
         LogTyped', copied'.saved # 0 => At("reader")' = "total", mishaps \subseteq mishaps',
         \A s \in Slot : KeptBy({logger[t].sec}, s), Counted' => Refers(t), Fills(t), Balances(t),
         UNCHANGED <<taken, chain, pointer, freeing, todo>>
  PROVE  LogInv'
<1>1. /\ logger[t].sec \in Slot /\ logger[t].sec \in taken /\ Listed(logger[t].sec) /\ ~freeing
      /\ (\A w \in Writer : At(w) = "created" => logger[w].sec # logger[t].sec)
  BY AlongKnows DEF Along
<1>2. taken' = taken /\ chain' = chain /\ pointer' = pointer /\ freeing' = freeing /\ todo' = todo
  OBVIOUS
<1>3. \A u \in Logger : /\ logger'[u].sec = logger[u].sec /\ logger'[u].ptr = logger[u].ptr
                        /\ logger'[u].new = logger[u].new
  BY DEF Along
<1>4. \A u \in Logger : At(u)' = "created" <=> At(u) = "created"
  BY DEF Along, At
<1>5. \A u \in Logger : At(u)' \in AtSection <=> At(u) \in AtSection
  BY DEF Along, At, AtSection
<1>6. \A s : Listed(s)' <=> Listed(s)
  BY <1>2 DEF Listed
<1>7. \A w \in Writer : w \in Logger
  BY DEF Logger
<1>8. \A s : BeingMade(s)' <=> BeingMade(s)
  BY <1>3, <1>7 DEF BeingMade
<1>9. "reader" \in Logger
  BY DEF Logger
<1>10. PlaceKnown' /\ MutexKept'
  BY AlongPlaces
<1>11. ListKnown'
  BY <1>2, <1>3, <1>6, <1>9 DEF LogKnown, ListKnown, Along, At
<1>12. HolderKnown'
  <2>1. \A u \in Logger : logger'[u].sec # "none" => logger'[u].sec \in taken'
    BY <1>2, <1>3 DEF LogKnown, HolderKnown
  <2>2. \A w \in Writer : logger'[w].sec # "none" => (logger'[w].sec \in ToSet(chain') <=> At(w)' # "created")
    BY <1>2, <1>3, <1>4, <1>7 DEF LogKnown, HolderKnown, Listed
  <2>3. \A w, v \in Writer : logger'[w].new /\ logger'[v].sec = logger'[w].sec => w = v
    BY <1>3, <1>7 DEF LogKnown, HolderKnown
  <2>4. At("reader")' \in AtSection \ {"put"} => logger'["reader"].sec \in ToSet(chain')
    BY <1>1, <1>2, <1>3, <1>9 DEF LogKnown, HolderKnown, Along, At, Listed
  <2>5. \A w \in Writer : At(w)' = "created" => logger'["reader"].sec # logger'[w].sec
    BY <1>3, <1>4, <1>7, <1>9 DEF LogKnown, HolderKnown
  <2> QED
    BY <2>1, <2>2, <2>3, <2>4, <2>5 DEF HolderKnown, Listed
<1>13. OffListKnown'
  <2> SUFFICES ASSUME NEW s \in taken, ~Listed(s)
               PROVE  /\ section'[s].filled = 0
                      /\ \/ logger'["reader"].sec = s
                         \/ \E w \in Writer : At(w)' = "created" /\ logger'[w].sec = s
    BY <1>2, <1>6 DEF OffListKnown
  <2>1. s \in Slot /\ s # logger[t].sec
    BY <1>1 DEF LogKnown, LogTyped
  <2> QED
    BY <2>1, <1>3, <1>4, <1>7, <1>9 DEF LogKnown, OffListKnown, KeptBy
<1>14. FoldedKnown'
  <2>1. \A s \in taken : s \in Slot
    BY DEF LogKnown, LogTyped
  <2> QED
    BY <2>1, <1>2, <1>3, <1>6, <1>7 DEF LogKnown, FoldedKnown, KeptBy
<1>15. PointerKnown'
  BY <1>2, <1>3, <1>6, <1>7 DEF LogKnown, PointerKnown
<1>16. FreedKnown'
  BY <1>1, <1>2 DEF FreedKnown
<1>17. TakenOut'
  <2> SUFFICES ASSUME At("reader")' = "total" PROVE section'[logger["reader"].sec].filled = 0
    BY <1>3, <1>9 DEF TakenOut
  <2>1. CASE t = "reader"
    BY <2>1 DEF Fills
  <2>2. CASE t # "reader"
    <3>1. At("reader") = "total" /\ section[logger["reader"].sec].filled = 0
      BY <2>2, <1>9 DEF Along, At, LogKnown, TakenOut
    <3>2. CASE logger["reader"].sec = logger[t].sec
      <4>1. At(t) # "locked"
        BY <2>2, <3>1, <3>2, <1>9 DEF LogKnown, MutexKept, InMutex
      <4> QED
        BY <4>1, <3>1, <3>2 DEF Fills
    <3>3. CASE logger["reader"].sec # logger[t].sec
      <4>1. logger["reader"].sec \in Slot
        BY <3>1, <1>9 DEF LogKnown, LogTyped, PlaceKnown, HolderKnown, AtSection
      <4> QED
        BY <3>1, <3>3, <4>1 DEF KeptBy
    <3> QED
      BY <3>2, <3>3
  <2> QED
    BY <2>1, <2>2
<1>18. Counted' => CountKnown'
  <2> SUFFICES ASSUME Counted', NEW s \in taken
               PROVE  section'[s].refcount = Cardinality(Users(s))' + OwnerCounts(s)'
    BY <1>2 DEF CountKnown
  <2>1. OwnerCounts(s)' = OwnerCounts(s)
    BY <1>6, <1>8 DEF OwnerCounts
  <2>2. section[s].refcount = Cardinality(Users(s)) + OwnerCounts(s)
    BY DEF LogKnown, CountKnown
  <2>3. \A u \in Logger : u # t => (Uses(u, s)' <=> Uses(u, s))
    BY DEF Along, Uses, At
  <2>4. /\ Cardinality(Users(s))' = Cardinality(Users(s)) + One(Uses(t, s)') - One(Uses(t, s))
        /\ Cardinality(Users(s)) \in Nat /\ Cardinality(Users(s))' \in Nat
    BY <2>3, UsersMove
  <2>5. OwnerCounts(s) \in Int /\ s \in Slot
    <3>1. OwnerCounts(s) \in {0, 1}
      BY DEF OwnerCounts
    <3>2. s \in Slot
      BY DEF LogKnown, LogTyped
    <3> QED
      BY <3>1, <3>2
  <2>6. CASE s = logger[t].sec
    <3>1. section'[s].refcount = section[s].refcount + One(At(t) = "get")
      BY <2>6 DEF Refers
    <3>2. Uses(t, s)' <=> At(t)' \in Counting
      BY <2>6, <1>3 DEF Uses
    <3>3. Uses(t, s) <=> At(t) \in Counting
      BY <2>6 DEF Uses
    <3>4. One(Uses(t, s)') - One(Uses(t, s)) = One(At(t) = "get")
      <4>1. "get" \notin Counting
        BY DEF Counting
      <4> QED
        BY <3>2, <3>3, <4>1 DEF Along, One
    <3> QED
      BY <2>1, <2>2, <2>4, <2>5, <3>1, <3>4 DEF One
  <2>7. CASE s # logger[t].sec
    <3>1. section'[s].refcount = section[s].refcount
      BY <2>5, <2>7 DEF KeptBy
    <3>2. ~Uses(t, s) /\ ~Uses(t, s)'
      BY <2>7, <1>3 DEF Uses
    <3>3. One(Uses(t, s)') = 0 /\ One(Uses(t, s)) = 0
      BY <3>2 DEF One
    <3> QED
      BY <2>1, <2>2, <2>4, <2>5, <3>1, <3>3
  <2> QED
    BY <2>6, <2>7
<1>19. TotalKnown'
  <2>1. \A x \in taken : x # logger[t].sec => section'[x].filled = section[x].filled
    BY DEF KeptBy, LogKnown, LogTyped
  <2> QED
    BY <1>2, <2>1, AlongTotal
<1>20. NoneLost'
  <2> SUFFICES ASSUME mishaps' = {}, NEW s \in ToSet(chain)
               PROVE  section'[s].folded \/ BeingMade(s)' \/ \E p \in LogPtr : pointer[p] = s
    BY <1>2 DEF NoneLost
  <2>1. mishaps = {} /\ s \in Slot
    BY OnList DEF LogKnown, LogTyped
  <2> QED
    BY <2>1, <1>8 DEF LogKnown, NoneLost, KeptBy
<1> QED
  BY <1>10, <1>11, <1>12, <1>13, <1>14, <1>15, <1>16, <1>17, <1>18, <1>19, <1>20
     DEF LogInv

(* Where a thread goes on, on its way through a section. *)
LEMMA MovesOn ==
  ASSUME LogTyped, NEW t \in Logger, NEW q \in LoggerSet,
         logger' = [logger EXCEPT ![t] = q],
         q.sec = logger[t].sec, q.ptr = logger[t].ptr
  PROVE  /\ logger' \in [Logger -> LoggerSet] /\ logger'[t] = q /\ At(t)' = q.at
         /\ \A u \in Logger : u # t => logger'[u] = logger[u]
         /\ \A u \in Logger : u # t => At(u)' = At(u)
BY DEF LogTyped, At

LEMMA GetLoadsStep == ASSUME LogKnown, Going, NEW t \in Logger, GetLoads(t) PROVE LogInv'
<1>1. logger[t].sec \in Slot /\ At(t) = "found"
  BY AlongKnows DEF GetLoads
<1>2. PICK r, n : r = logger[t] /\ n = section[logger[t].sec].refcount
  OBVIOUS
<1>3. r \in LoggerSet /\ n \in Int
  <2>1. section[logger[t].sec] \in SectionSet /\ logger[t] \in LoggerSet
    BY <1>1 DEF LogKnown, LogTyped
  <2> QED
    BY <1>2, <2>1 DEF SectionSet
<1>4. PICK q : q = [r EXCEPT !.at = "get", !.old = n]
  OBVIOUS
<1>5. q \in LoggerSet /\ q.at = "get" /\ q.sec = r.sec /\ q.ptr = r.ptr /\ q.new = r.new
  BY <1>3, <1>4 DEF LoggerSet, LogPlace, AtSection
<1>6. logger' = [logger EXCEPT ![t] = q]
  BY <1>2, <1>4 DEF GetLoads, Sec
<1>7. /\ logger' \in [Logger -> LoggerSet] /\ logger'[t] = q /\ At(t)' = "get"
      /\ \A u \in Logger : u # t => logger'[u] = logger[u]
      /\ \A u \in Logger : u # t => At(u)' = At(u)
  BY <1>2, <1>5, <1>6, MovesOn DEF LogKnown
<1>8. /\ section' = section /\ taken' = taken /\ chain' = chain /\ pointer' = pointer
      /\ totalFilled' = totalFilled /\ readWait' = readWait /\ freeing' = freeing /\ todo' = todo
      /\ copied' = copied /\ mishaps' = mishaps
  BY DEF GetLoads
<1>9. Along(t)
  BY <1>1, <1>2, <1>5, <1>7 DEF Along, Counting, InMutex
<1>10. LogTyped'
  BY <1>7, <1>8 DEF LogKnown, LogTyped
<1>11. copied'.saved # 0 => At("reader")' = "total"
  BY <1>1, <1>7, <1>8 DEF LogKnown, PlaceKnown, Logger
<1>12. /\ \A s \in Slot : KeptBy({logger[t].sec}, s)
       /\ Refers(t) /\ Fills(t)
  <2>1. section[logger[t].sec].refcount \in Int
    BY <1>2, <1>3
  <2>2. One(At(t) = "get") = 0
    BY <1>1 DEF One
  <2> QED
    BY <1>7, <1>8, <2>1, <2>2 DEF KeptBy, Refers, Fills
<1>13. Balances(t)
  BY <1>1, <1>7, <1>8 DEF Balances, Adding, One
<1> QED
  BY <1>8, <1>9, <1>10, <1>11, <1>12, <1>13, AlongStep

LEMMA GetStoresStep == ASSUME LogKnown, Going, NEW t \in Logger, GetStores(t) PROVE LogInv'
<1>1. logger[t].sec \in Slot /\ At(t) = "get"
  BY AlongKnows DEF GetStores
<1>2. PICK r, s, e, n : /\ r = logger[t] /\ s = logger[t].sec /\ e = section[logger[t].sec]
                        /\ n = logger[t].old + 1
  OBVIOUS
<1>3. r \in LoggerSet /\ e \in SectionSet /\ s \in Slot /\ n \in Int /\ n = r.old + 1
  <2>1. e \in SectionSet /\ r \in LoggerSet /\ s \in Slot
    BY <1>1, <1>2 DEF LogKnown, LogTyped
  <2> QED
    BY <1>2, <2>1 DEF LoggerSet
<1>4. PICK q, f : q = [r EXCEPT !.at = "wait", !.old = 0] /\ f = [e EXCEPT !.refcount = n]
  OBVIOUS
<1>5. q \in LoggerSet /\ q.at = "wait" /\ q.sec = r.sec /\ q.ptr = r.ptr /\ q.new = r.new
  <2>1. r \in LoggerSet /\ q = [r EXCEPT !.at = "wait", !.old = 0] /\ 0 \in Int
    BY <1>3, <1>4
  <2> QED
    BY <2>1 DEF LoggerSet, LogPlace, AtSection
<1>6. /\ f \in SectionSet /\ f.filled = e.filled /\ f.size = e.size /\ f.folded = e.folded
      /\ f.refcount = n
  BY <1>3, <1>4 DEF SectionSet
<1>7. logger' = [logger EXCEPT ![t] = q] /\ section' = [section EXCEPT ![s] = f]
  BY <1>2, <1>4 DEF GetStores
<1>8. /\ logger' \in [Logger -> LoggerSet] /\ logger'[t] = q /\ At(t)' = "wait"
      /\ \A u \in Logger : u # t => logger'[u] = logger[u]
      /\ \A u \in Logger : u # t => At(u)' = At(u)
  BY <1>2, <1>5, <1>7, MovesOn DEF LogKnown
<1>9. /\ section' \in [Slot -> SectionSet] /\ section'[s] = f
      /\ \A x \in Slot : x # s => section'[x] = section[x]
  BY <1>3, <1>6, <1>7 DEF LogKnown, LogTyped
<1>10. /\ taken' = taken /\ chain' = chain /\ pointer' = pointer
       /\ totalFilled' = totalFilled /\ readWait' = readWait /\ freeing' = freeing /\ todo' = todo
       /\ copied' = copied
       /\ mishaps' = mishaps \union {x \in {"refcount"} : e.refcount # r.old}
  BY <1>2 DEF GetStores, Sec
<1>11. Along(t)
  BY <1>1, <1>2, <1>5, <1>8 DEF Along, Counting, InMutex
<1>12. LogTyped'
  <2>1. \A x \in Slot : section'[x].filled <= section'[x].size
    BY <1>2, <1>6, <1>9 DEF LogKnown, LogTyped
  <2>2. mishaps' \subseteq {"refcount", "pointer", "total", "early free"}
    BY <1>10 DEF LogKnown, LogTyped
  <2> QED
    BY <1>8, <1>9, <1>10, <2>1, <2>2 DEF LogKnown, LogTyped
<1>13. copied'.saved # 0 => At("reader")' = "total"
  BY <1>1, <1>8, <1>10 DEF LogKnown, PlaceKnown, Logger
<1>14. \A x \in Slot : KeptBy({logger[t].sec}, x)
  BY <1>2, <1>6, <1>9 DEF KeptBy
<1>15. ASSUME Counted' PROVE Refers(t)
  <2>1. e.refcount = r.old
    BY <1>10, <1>15 DEF Counted
  <2> QED
    BY <1>1, <1>2, <1>3, <1>6, <1>9, <2>1 DEF Refers, One
<1>16. Fills(t)
  BY <1>2, <1>6, <1>8, <1>9 DEF Fills
<1>17. Balances(t)
  BY <1>1, <1>2, <1>6, <1>8, <1>9, <1>10 DEF Balances, Adding, One
<1> QED
  BY <1>10, <1>11, <1>12, <1>13, <1>14, <1>15, <1>16, <1>17, AlongStep

LEMMA GetLocksOldStep ==
  ASSUME LogKnown, Going, NEW t \in Logger, GetLocks(t), ~logger[t].new PROVE LogInv'
<1>1. logger[t].sec \in Slot /\ At(t) = "wait" /\ ~SectionLocked(logger[t].sec)
  BY AlongKnows DEF GetLocks
<1>2. PICK r : r = logger[t]
  OBVIOUS
<1>3. r \in LoggerSet /\ r.new = FALSE
  <2>1. r \in LoggerSet
    BY <1>1, <1>2 DEF LogKnown, LogTyped
  <2> QED
    BY <1>2, <2>1 DEF LoggerSet
<1>4. PICK q : q = [r EXCEPT !.at = "locked", !.new = FALSE]
  OBVIOUS
<1>5. q \in LoggerSet /\ q.at = "locked" /\ q.sec = r.sec /\ q.ptr = r.ptr /\ q.new = r.new
  <2>1. q = [r EXCEPT !.at = "locked"]
    <3>1. [r EXCEPT !.new = FALSE] = r
      BY <1>3 DEF LoggerSet
    <3> QED
      BY <1>3, <1>4, <3>1 DEF LoggerSet
  <2> QED
    BY <1>3, <2>1 DEF LoggerSet, LogPlace, AtSection
<1>6. logger' = [logger EXCEPT ![t] = q]
  BY <1>2, <1>4 DEF GetLocks
<1>7. /\ logger' \in [Logger -> LoggerSet] /\ logger'[t] = q /\ At(t)' = "locked"
      /\ \A u \in Logger : u # t => logger'[u] = logger[u]
      /\ \A u \in Logger : u # t => At(u)' = At(u)
  BY <1>2, <1>5, <1>6, MovesOn DEF LogKnown
<1>8. /\ section' = section /\ taken' = taken /\ chain' = chain /\ pointer' = pointer
      /\ totalFilled' = totalFilled /\ readWait' = readWait /\ freeing' = freeing /\ todo' = todo
      /\ copied' = copied /\ mishaps' = mishaps
  BY DEF GetLocks
<1>9. Along(t)
  BY <1>1, <1>2, <1>3, <1>5, <1>7 DEF Along, Counting, InMutex
<1>10. LogTyped'
  BY <1>7, <1>8 DEF LogKnown, LogTyped
<1>11. copied'.saved # 0 => At("reader")' = "total"
  BY <1>1, <1>7, <1>8 DEF LogKnown, PlaceKnown, Logger
<1>12. /\ \A s \in Slot : KeptBy({logger[t].sec}, s)
       /\ Refers(t) /\ Fills(t)
  <2>1. section[logger[t].sec].refcount \in Int
    <3>1. section[logger[t].sec] \in SectionSet
      BY <1>1 DEF LogKnown, LogTyped
    <3> QED
      BY <3>1 DEF SectionSet
  <2>2. One(At(t) = "get") = 0
    BY <1>1 DEF One
  <2> QED
    BY <1>7, <1>8, <2>1, <2>2 DEF KeptBy, Refers, Fills
<1>13. Balances(t)
  BY <1>1, <1>7, <1>8 DEF Balances, Adding, One
<1> QED
  BY <1>8, <1>9, <1>10, <1>11, <1>12, <1>13, AlongStep

LEMMA AppendLineStep == ASSUME LogKnown, Going, NEW w \in Writer, AppendLine(w) PROVE LogInv'
<1>0. w \in Logger /\ At(w) = "locked" /\ w # "reader"
  BY DebugAssumption DEF AppendLine, Logger
<1>1. logger[w].sec \in Slot
  BY <1>0, AlongKnows
<1>2. PICK r, s, e, c : /\ r = logger[w] /\ s = logger[w].sec /\ e = section[logger[w].sec]
                        /\ c = (e.size - e.filled >= 1)
  OBVIOUS
<1>3. r \in LoggerSet /\ e \in SectionSet /\ s \in Slot /\ totalFilled \in Int
  BY <1>0, <1>1, <1>2 DEF LogKnown, LogTyped
<1>4. PICK q, f : /\ q = IF c THEN [r EXCEPT !.at = "total", !.old = totalFilled]
                         ELSE [r EXCEPT !.at = "put", !.old = e.refcount]
                  /\ f = IF c THEN [e EXCEPT !.filled = e.filled + 1] ELSE e
  OBVIOUS
<1>5. /\ q \in LoggerSet /\ q.at = (IF c THEN "total" ELSE "put")
      /\ q.sec = r.sec /\ q.ptr = r.ptr /\ q.new = r.new
  <2>1. e.refcount \in Int
    BY <1>3 DEF SectionSet
  <2> QED
    BY <1>3, <1>4, <2>1 DEF LoggerSet, LogPlace, AtSection
<1>6. /\ f \in SectionSet /\ f.filled = e.filled + One(c) /\ f.size = e.size /\ f.folded = e.folded
      /\ f.refcount = e.refcount /\ f.filled <= f.size
  <2>1. /\ e.filled \in 0..MaxSize /\ e.size \in 0..MaxSize /\ MaxSize \in Nat /\ e.filled <= e.size
        /\ e.refcount \in Int /\ e.folded \in BOOLEAN
    BY <1>1, <1>2, <1>3, DebugAssumption DEF SectionSet, LogKnown, LogTyped
  <2>2. CASE c
    <3>1. f = [e EXCEPT !.filled = e.filled + 1] /\ One(c) = 1
      BY <1>4, <2>2 DEF One
    <3>2. e.filled + 1 \in 0..MaxSize /\ e.filled + 1 <= e.size
      <4>1. e.size - e.filled >= 1
        BY <1>2, <2>2, Zenon
      <4> QED
        BY <2>1, <4>1
    <3> QED
      BY <1>3, <3>1, <3>2 DEF SectionSet
  <2>3. CASE ~c
    <3>1. f = e /\ One(c) = 0
      BY <1>4, <2>3 DEF One
    <3> QED
      BY <1>3, <2>1, <3>1
  <2> QED
    BY <2>2, <2>3
<1>7. logger' = [logger EXCEPT ![w] = q] /\ section' = [section EXCEPT ![s] = f]
  <2>1. AppendFits(section[s]) <=> c
    BY <1>2, ResizeKeeps DEF AppendFits
  <2>2. resize_section(section[s]) = e.size
    BY <1>2, ResizeKeeps
  <2>3. CASE c
    <3>1. q = [r EXCEPT !.at = "total", !.old = totalFilled] /\ f = [e EXCEPT !.filled = e.filled + 1]
      BY <1>4, <2>3
    <3>2. /\ logger' = [logger EXCEPT ![w].at = "total", ![w].old = totalFilled]
          /\ section' = [section EXCEPT ![s].filled = @ + 1, ![s].size = resize_section(section[s])]
      BY <1>2, <2>1, <2>3 DEF AppendLine
    <3>3. [e EXCEPT !.filled = e.filled + 1, !.size = e.size] = [e EXCEPT !.filled = e.filled + 1]
      BY <1>3 DEF SectionSet
    <3> QED
      BY <1>2, <2>2, <3>1, <3>2, <3>3, ZenonT(60)
  <2>4. CASE ~c
    <3>1. q = [r EXCEPT !.at = "put", !.old = e.refcount] /\ f = e
      BY <1>4, <2>4
    <3>2. /\ logger' = [logger EXCEPT ![w].at = "put", ![w].old = e.refcount]
          /\ section' = [section EXCEPT ![s].size = resize_section(section[s])]
      BY <1>2, <2>1, <2>4 DEF AppendLine, Sec
    <3>3. [e EXCEPT !.size = e.size] = e
      BY <1>3 DEF SectionSet
    <3> QED
      BY <1>2, <2>2, <3>1, <3>2, <3>3
  <2> QED
    BY <2>3, <2>4
<1>8. /\ logger' \in [Logger -> LoggerSet] /\ logger'[w] = q /\ At(w)' = q.at
      /\ \A u \in Logger : u # w => logger'[u] = logger[u]
      /\ \A u \in Logger : u # w => At(u)' = At(u)
  BY <1>0, <1>2, <1>5, <1>7, MovesOn DEF LogKnown
<1>9. /\ section' \in [Slot -> SectionSet] /\ section'[s] = f
      /\ \A x \in Slot : x # s => section'[x] = section[x]
  BY <1>3, <1>6, <1>7 DEF LogKnown, LogTyped
<1>10. /\ taken' = taken /\ chain' = chain /\ pointer' = pointer
       /\ totalFilled' = totalFilled /\ freeing' = freeing /\ todo' = todo
       /\ copied' = copied /\ mishaps' = mishaps /\ readWait' \in BOOLEAN
  <2>1. readWait \in BOOLEAN
    BY DEF LogKnown, LogTyped
  <2> QED
    BY <2>1 DEF AppendLine
<1>11. Along(w)
  <2>1. ~logger[w].new
    BY <1>0 DEF LogKnown, PlaceKnown
  <2> QED
    BY <1>0, <1>2, <1>5, <1>8, <2>1 DEF Along, Counting, InMutex
<1>12. LogTyped'
  <2>1. \A x \in Slot : section'[x].filled <= section'[x].size
    BY <1>2, <1>6, <1>9 DEF LogKnown, LogTyped
  <2> QED
    BY <1>8, <1>9, <1>10, <2>1 DEF LogKnown, LogTyped
<1>13. copied'.saved # 0 => At("reader")' = "total"
  BY <1>0, <1>8, <1>10 DEF LogKnown, PlaceKnown, Logger
<1>14. \A x \in Slot : KeptBy({logger[w].sec}, x)
  BY <1>2, <1>6, <1>9 DEF KeptBy
<1>15. Refers(w)
  <2>1. e.refcount \in Int
    BY <1>3 DEF SectionSet
  <2> QED
    BY <1>0, <1>2, <1>6, <1>9, <2>1 DEF Refers, One
<1>16. Fills(w)
  BY <1>0, <1>2, <1>6, <1>8, <1>9 DEF Fills
<1>17. Balances(w)
  <2>1. One(Adding(w)') = One(c) /\ One(Adding(w)) = 0
    BY <1>0, <1>5, <1>8 DEF One, Adding
  <2>2. section'[logger[w].sec].filled = section[logger[w].sec].filled + One(c)
    BY <1>2, <1>6, <1>9
  <2>3. One(c) \in Int /\ section[logger[w].sec].filled \in Int /\ copied.saved \in Int /\ totalFilled \in Int
    <3>1. e.filled \in 0..MaxSize /\ MaxSize \in Nat /\ copied \in CopiedSet
      BY <1>3, DebugAssumption DEF SectionSet, LogKnown, LogTyped
    <3>2. copied.saved \in Nat
      BY <3>1 DEF CopiedSet
    <3> QED
      BY <1>2, <1>3, <3>1, <3>2 DEF One
  <2> QED
    BY <1>10, <2>1, <2>2, <2>3 DEF Balances
<1> QED
  BY <1>0, <1>10, <1>11, <1>12, <1>13, <1>14, <1>15, <1>16, <1>17, AlongStep

LEMMA TotalStoresStep == ASSUME LogKnown, Going, NEW w \in Writer, TotalStores(w) PROVE LogInv'
<1>0. w \in Logger /\ At(w) = "total" /\ w # "reader"
  BY DebugAssumption DEF TotalStores, Logger
<1>1. logger[w].sec \in Slot
  BY <1>0, AlongKnows
<1>2. PICK r, n, m : r = logger[w] /\ n = section[logger[w].sec].refcount /\ m = logger[w].old
  OBVIOUS
<1>3. r \in LoggerSet /\ n \in Int /\ m \in Int /\ m = r.old
  <2>1. section[logger[w].sec] \in SectionSet /\ logger[w] \in LoggerSet
    BY <1>0, <1>1 DEF LogKnown, LogTyped
  <2> QED
    BY <1>2, <2>1 DEF SectionSet, LoggerSet
<1>4. PICK q : q = [r EXCEPT !.at = "put", !.old = n]
  OBVIOUS
<1>5. q \in LoggerSet /\ q.at = "put" /\ q.sec = r.sec /\ q.ptr = r.ptr /\ q.new = r.new
  <2>1. r \in LoggerSet /\ n \in Int
    BY <1>3
  <2> QED
    BY <2>1, <1>4 DEF LoggerSet, LogPlace, AtSection
<1>6. logger' = [logger EXCEPT ![w] = q]
  BY <1>2, <1>4 DEF TotalStores, Sec
<1>7. /\ logger' \in [Logger -> LoggerSet] /\ logger'[w] = q /\ At(w)' = "put"
      /\ \A u \in Logger : u # w => logger'[u] = logger[u]
      /\ \A u \in Logger : u # w => At(u)' = At(u)
  BY <1>0, <1>2, <1>5, <1>6, MovesOn DEF LogKnown
<1>8. /\ section' = section /\ taken' = taken /\ chain' = chain /\ pointer' = pointer
      /\ readWait' = readWait /\ freeing' = freeing /\ todo' = todo
      /\ copied' = copied /\ totalFilled' = m + 1
      /\ mishaps' = mishaps \union {x \in {"total"} : totalFilled # m}
  BY <1>2 DEF TotalStores
<1>9. Along(w)
  <2>1. ~logger[w].new
    BY <1>0 DEF LogKnown, PlaceKnown
  <2> QED
    BY <1>0, <1>2, <1>5, <1>7, <2>1 DEF Along, Counting, InMutex
<1>10. LogTyped'
  <2>1. mishaps' \subseteq {"refcount", "pointer", "total", "early free"} /\ totalFilled' \in Int
    <3>1. mishaps \subseteq {"refcount", "pointer", "total", "early free"}
      BY DEF LogKnown, LogTyped
    <3>2. mishaps' \subseteq {"refcount", "pointer", "total", "early free"}
      BY <1>8, <3>1
    <3>3. m + 1 \in Int
      BY <1>3
    <3> QED
      BY <1>8, <3>2, <3>3
  <2> QED
    BY <1>7, <1>8, <2>1 DEF LogKnown, LogTyped
<1>11. copied'.saved # 0 => At("reader")' = "total"
  BY <1>0, <1>7, <1>8 DEF LogKnown, PlaceKnown, Logger
<1>12. /\ \A s \in Slot : KeptBy({logger[w].sec}, s)
       /\ Refers(w) /\ Fills(w)
  <2>1. section[logger[w].sec].refcount \in Int
    BY <1>2, <1>3
  <2>2. One(At(w) = "get") = 0
    BY <1>0 DEF One
  <2> QED
    BY <1>0, <1>7, <1>8, <2>1, <2>2 DEF KeptBy, Refers, Fills
<1>13. Balances(w)
  <2> SUFFICES ASSUME mishaps' \subseteq {"pointer"}
               PROVE  totalFilled' - copied'.saved - section'[logger[w].sec].filled + One(Adding(w)')
                        = totalFilled - copied.saved - section[logger[w].sec].filled + One(Adding(w))
    BY DEF Balances
  <2>1. totalFilled = m
    BY <1>8
  <2>2. One(Adding(w)') = 0 /\ One(Adding(w)) = 1
    BY <1>0, <1>7 DEF One, Adding
  <2>3. PICK a, b : a = copied.saved /\ b = section[logger[w].sec].filled
    OBVIOUS
  <2>4. a \in Int /\ b \in Int
    <3>1. section[logger[w].sec] \in SectionSet /\ copied \in CopiedSet
      BY <1>1 DEF LogKnown, LogTyped
    <3>2. b \in 0..MaxSize /\ a \in Nat
      BY <2>3, <3>1 DEF SectionSet, CopiedSet
    <3> QED
      BY <3>2, DebugAssumption
  <2>5. (m + 1) - a - b + 0 = m - a - b + 1
    BY <1>3, <2>4
  <2> QED
    BY <1>8, <2>1, <2>2, <2>3, <2>5
<1> QED
  BY <1>0, <1>8, <1>9, <1>10, <1>11, <1>12, <1>13, AlongStep

LEMMA ReadCopiesStep == ASSUME LogKnown, Going, ReadCopies PROVE LogInv'
<1> DEFINE t == "reader"
<1>0. t \in Logger /\ At(t) = "locked" /\ t \notin Writer
  BY DebugAssumption DEF ReadCopies, Logger
<1>1. logger[t].sec \in Slot
  BY <1>0, AlongKnows
<1>2. PICK r, s, e, c : r = logger[t] /\ s = logger[t].sec /\ e = section[logger[t].sec] /\ c = copied
  OBVIOUS
<1>3. /\ r \in LoggerSet /\ e \in SectionSet /\ s \in Slot /\ totalFilled \in Int /\ c \in CopiedSet
      /\ c.saved = 0
  BY <1>0, <1>1, <1>2 DEF LogKnown, LogTyped, PlaceKnown
<1>4. /\ e.filled \in Nat /\ e.refcount \in Int /\ e.filled <= e.size /\ e.filled \in 0..MaxSize
      /\ c.user \in 0..ReadSize /\ ReadSize \in Nat /\ e.folded \in BOOLEAN
  <2>1. e.filled \in 0..MaxSize /\ e.refcount \in Int /\ c.user \in 0..ReadSize /\ e.folded \in BOOLEAN
    BY <1>3 DEF SectionSet, CopiedSet
  <2>2. e.filled <= e.size
    BY <1>1, <1>2 DEF LogKnown, LogTyped
  <2> QED
    BY <2>1, <2>2, DebugAssumption
<1>5. \E q \in LoggerSet, f \in SectionSet, d \in CopiedSet :
        /\ logger' = [logger EXCEPT ![t] = q] /\ section' = [section EXCEPT ![s] = f] /\ copied' = d
        /\ q.at \in {"total", "put"} /\ q.sec = r.sec /\ q.ptr = r.ptr /\ q.new = r.new
        /\ f.size = e.size /\ f.folded = e.folded /\ f.refcount = e.refcount
        /\ q.at = "total" => f.filled = 0 /\ d.saved = e.filled
        /\ q.at = "put" => f = e /\ d.saved = 0
  <2>1. CASE /\ ReadSize - c.user >= e.filled
             /\ section' = [section EXCEPT ![s].filled = 0]
             /\ copied' = [user |-> c.user + e.filled, saved |-> e.filled]
             /\ logger' = [logger EXCEPT ![t].at = "total", ![t].old = totalFilled]
    <3>1. PICK q, f, d : /\ q = [r EXCEPT !.at = "total", !.old = totalFilled]
                         /\ f = [e EXCEPT !.filled = 0]
                         /\ d = [user |-> c.user + e.filled, saved |-> e.filled]
      OBVIOUS
    <3>2. PICK z : z = totalFilled /\ z \in Int
      BY <1>3
    <3>3. q = [r EXCEPT !.at = "total", !.old = z]
      BY <3>1, <3>2
    <3>4. q \in LoggerSet /\ q.at = "total" /\ q.sec = r.sec /\ q.ptr = r.ptr /\ q.new = r.new
      <4>1. r \in LoggerSet
        BY <1>3
      <4> QED
        BY <4>1, <3>2, <3>3 DEF LoggerSet, LogPlace, AtSection
    <3>5. /\ f \in SectionSet /\ f.filled = 0 /\ f.size = e.size /\ f.folded = e.folded
          /\ f.refcount = e.refcount
      <4>1. 0 \in 0..MaxSize
        BY DebugAssumption
      <4> QED
        BY <1>3, <3>1, <4>1 DEF SectionSet
    <3>6. d \in CopiedSet /\ d.saved = e.filled
      <4>1. c.user + e.filled \in 0..ReadSize
        BY <1>4, <2>1
      <4> QED
        BY <1>4, <3>1, <4>1 DEF CopiedSet
    <3>7. logger' = [logger EXCEPT ![t] = q] /\ section' = [section EXCEPT ![s] = f] /\ copied' = d
      BY <1>2, <2>1, <3>1
    <3> QED
      BY <3>4, <3>5, <3>6, <3>7
  <2>2. CASE /\ section' = [section EXCEPT ![s].size = IF e.folded THEN e.size ELSE e.size]
             /\ copied' = [copied EXCEPT !.saved = 0]
             /\ logger' = [logger EXCEPT ![t].at = "put", ![t].old = e.refcount]
    <3>1. PICK z : z = e.refcount /\ z \in Int
      BY <1>4
    <3>2. PICK q : q = [r EXCEPT !.at = "put", !.old = z]
      OBVIOUS
    <3>3. q \in LoggerSet /\ q.at = "put" /\ q.sec = r.sec /\ q.ptr = r.ptr /\ q.new = r.new
      <4>1. r \in LoggerSet
        BY <1>3
      <4> QED
        BY <4>1, <3>1, <3>2 DEF LoggerSet, LogPlace, AtSection
    <3>4. [e EXCEPT !.size = e.size] = e
      BY <1>3 DEF SectionSet
    <3>5. section' = [section EXCEPT ![s] = e]
      BY <1>2, <2>2, <3>4
    <3>6. [c EXCEPT !.saved = 0] = c
      BY <1>3 DEF CopiedSet
    <3>7. copied' = c
      BY <1>2, <2>2, <3>6
    <3>8. logger' = [logger EXCEPT ![t] = q]
      BY <1>2, <2>2, <3>1, <3>2
    <3> QED
      BY <1>3, <3>3, <3>5, <3>7, <3>8
  <2>3. resize_section(section[s]) = e.size
    BY <1>2, ResizeKeeps
  <2>4. \/ /\ ReadSize - c.user >= e.filled
           /\ section' = [section EXCEPT ![s].filled = 0]
           /\ copied' = [user |-> c.user + e.filled, saved |-> e.filled]
           /\ logger' = [logger EXCEPT ![t].at = "total", ![t].old = totalFilled]
        \/ /\ section' = [section EXCEPT ![s].size = IF e.folded THEN e.size ELSE e.size]
           /\ copied' = [copied EXCEPT !.saved = 0]
           /\ logger' = [logger EXCEPT ![t].at = "put", ![t].old = e.refcount]
    BY <1>2, <2>3 DEF ReadCopies, Sec
  <2> QED
    BY <2>1, <2>2, <2>4
<1>6. PICK q \in LoggerSet, f \in SectionSet, d \in CopiedSet :
        /\ logger' = [logger EXCEPT ![t] = q] /\ section' = [section EXCEPT ![s] = f] /\ copied' = d
        /\ q.at \in {"total", "put"} /\ q.sec = r.sec /\ q.ptr = r.ptr /\ q.new = r.new
        /\ f.size = e.size /\ f.folded = e.folded /\ f.refcount = e.refcount
        /\ q.at = "total" => f.filled = 0 /\ d.saved = e.filled
        /\ q.at = "put" => f = e /\ d.saved = 0
  BY <1>5
<1>7. f.filled <= f.size /\ f.filled + d.saved = e.filled /\ d.saved \in Int /\ f.filled \in Int
  <2>1. e.size \in Nat
    <3>1. e.size \in 0..MaxSize
      BY <1>3 DEF SectionSet
    <3> QED
      BY <3>1, DebugAssumption
  <2>2. CASE q.at = "total"
    <3>1. f.filled = 0 /\ d.saved = e.filled /\ f.size = e.size
      BY <1>6, <2>2
    <3> QED
      BY <1>4, <2>1, <3>1
  <2>3. CASE q.at = "put"
    <3>1. f = e /\ d.saved = 0
      BY <1>6, <2>3
    <3> QED
      BY <1>4, <3>1
  <2> QED
    BY <1>6, <2>2, <2>3
<1>8. /\ logger' \in [Logger -> LoggerSet] /\ logger'[t] = q /\ At(t)' = q.at
      /\ \A u \in Logger : u # t => logger'[u] = logger[u]
      /\ \A u \in Logger : u # t => At(u)' = At(u)
  BY <1>0, <1>2, <1>6, MovesOn DEF LogKnown
<1>9. /\ section' \in [Slot -> SectionSet] /\ section'[s] = f
      /\ \A x \in Slot : x # s => section'[x] = section[x]
  BY <1>3, <1>6 DEF LogKnown, LogTyped
<1>10. /\ taken' = taken /\ chain' = chain /\ pointer' = pointer /\ readWait' = readWait
       /\ totalFilled' = totalFilled /\ freeing' = freeing /\ todo' = todo /\ mishaps' = mishaps
  BY DEF ReadCopies
<1>11. Along(t)
  <2>1. ~logger[t].new
    BY DEF LogKnown, PlaceKnown
  <2> QED
    BY <1>0, <1>2, <1>6, <1>8, <2>1 DEF Along, Counting, InMutex
<1>12. LogTyped'
  <2>1. \A x \in Slot : section'[x].filled <= section'[x].size
    BY <1>7, <1>9 DEF LogKnown, LogTyped
  <2> QED
    BY <1>6, <1>8, <1>9, <1>10, <2>1 DEF LogKnown, LogTyped
<1>13. copied'.saved # 0 => At("reader")' = "total"
  BY <1>6, <1>8
<1>14. \A x \in Slot : KeptBy({logger[t].sec}, x)
  BY <1>2, <1>6, <1>9 DEF KeptBy
<1>15. Refers(t)
  BY <1>0, <1>2, <1>4, <1>6, <1>9 DEF Refers, One
<1>16. Fills(t)
  BY <1>0, <1>2, <1>6, <1>8, <1>9 DEF Fills
<1>17. Balances(t)
  <2>1. One(Adding(t)') = 0 /\ One(Adding(t)) = 0
    BY <1>0 DEF One, Adding
  <2>2. totalFilled' - copied'.saved - section'[logger[t].sec].filled
        = totalFilled - copied.saved - section[logger[t].sec].filled
    BY <1>2, <1>3, <1>6, <1>7, <1>9, <1>10
  <2> QED
    BY <2>1, <2>2 DEF Balances
<1> QED
  BY <1>0, <1>10, <1>11, <1>12, <1>13, <1>14, <1>15, <1>16, <1>17, AlongStep

(* What a reader saves: a folded section leaves the list, and its fold's reference goes. *)
LEMMA ReadSavesMoves ==
  ASSUME LogKnown, Going, ReadSaves
  PROVE  LET t == "reader"
             s == logger[t].sec
             e == section[s]
         IN /\ s \in taken /\ s \in Slot /\ Listed(s) /\ ~freeing /\ e.filled = 0 /\ e.refcount \in Int
            /\ Along(t) /\ LogTyped' /\ copied'.saved = 0 /\ mishaps \subseteq mishaps' /\ Balances(t)
            /\ At(t) = "total" /\ At(t)' = "put"
            /\ UNCHANGED <<taken, pointer, freeing, todo>>
            /\ \A x \in Slot : x # s => section'[x] = section[x]
            /\ section'[s].filled = 0 /\ section'[s].folded = FALSE
            /\ section'[s].refcount = IF e.folded THEN e.refcount - 1 ELSE e.refcount
            /\ chain' = IF e.folded
                        THEN RemoveAt(chain, CHOOSE i \in DOMAIN chain : chain[i] = s) ELSE chain
            /\ Counted' <=> Counted
<1> DEFINE t == "reader"
<1>0. t \in Logger /\ At(t) = "total" /\ t \notin Writer
  BY DebugAssumption DEF ReadSaves, Logger
<1>1. logger[t].sec \in Slot /\ logger[t].sec \in taken /\ Listed(logger[t].sec) /\ ~freeing
  BY <1>0, AlongKnows
<1>2. PICK r, s, e, c, m, left : /\ r = logger[t] /\ s = logger[t].sec /\ e = section[logger[t].sec]
                                 /\ c = copied /\ m = logger[t].old
                                 /\ left = IF e.folded THEN e.refcount - 1 ELSE e.refcount
  OBVIOUS
<1>3. /\ r \in LoggerSet /\ e \in SectionSet /\ s \in Slot /\ totalFilled \in Int /\ c \in CopiedSet
      /\ e.filled = 0
  BY <1>0, <1>1, <1>2 DEF LogKnown, LogTyped, TakenOut
<1>4. /\ e.refcount \in Int /\ c.saved \in Int /\ m \in Int /\ left \in Int
  <2>1. e.refcount \in Int /\ c.saved \in Nat /\ r.old \in Int
    BY <1>3 DEF SectionSet, CopiedSet, LoggerSet
  <2> QED
    BY <1>2, <2>1
<1>5. PICK q, f, d : /\ q = [r EXCEPT !.at = "put", !.old = left]
                     /\ f = [e EXCEPT !.refcount = left, !.folded = FALSE]
                     /\ d = [c EXCEPT !.saved = 0]
  OBVIOUS
<1>6. q \in LoggerSet /\ q.at = "put" /\ q.sec = r.sec /\ q.ptr = r.ptr /\ q.new = r.new
  <2>1. r \in LoggerSet /\ left \in Int
    BY <1>3, <1>4
  <2> QED
    BY <2>1, <1>5 DEF LoggerSet, LogPlace, AtSection
<1>7. /\ f \in SectionSet /\ f.filled = 0 /\ f.size = e.size /\ f.folded = FALSE /\ f.refcount = left
  <2>1. e \in SectionSet /\ left \in Int /\ e.filled = 0
    BY <1>3, <1>4
  <2> QED
    BY <2>1, <1>5 DEF SectionSet
<1>8. d \in CopiedSet /\ d.saved = 0
  BY <1>3, <1>5 DEF CopiedSet
<1>9. /\ totalFilled' = m - c.saved
      /\ mishaps' = mishaps \union {x \in {"total"} : totalFilled # m}
      /\ copied' = d /\ taken' = taken /\ pointer' = pointer /\ readWait' = readWait
      /\ freeing' = freeing /\ todo' = todo
      /\ chain' = IF e.folded THEN RemoveAt(chain, CHOOSE i \in DOMAIN chain : chain[i] = s) ELSE chain
  BY <1>2, <1>5, SMTT(30) DEF ReadSaves
<1>10. logger' = [logger EXCEPT ![t] = q] /\ section' = [section EXCEPT ![s] = f]
  <2>1. [e EXCEPT !.refcount = left, !.folded = FALSE, !.size = e.size] = f
    BY <1>3, <1>5 DEF SectionSet
  <2>2. resize_section(section[s]) = e.size
    BY <1>2, ResizeKeeps
  <2>3. /\ section' = [section EXCEPT ![s] = [@ EXCEPT !.refcount = left, !.folded = FALSE,
                                                       !.size = e.size]]
        /\ logger' = [logger EXCEPT ![t].at = "put", ![t].old = left]
    BY <1>2, <2>2 DEF ReadSaves, FoldedEnds, Sec
  <2> QED
    BY <1>2, <1>5, <2>1, <2>3, ZenonT(60)
<1>11. /\ logger' \in [Logger -> LoggerSet] /\ logger'[t] = q /\ At(t)' = "put"
       /\ \A u \in Logger : u # t => logger'[u] = logger[u]
       /\ \A u \in Logger : u # t => At(u)' = At(u)
  BY <1>0, <1>2, <1>6, <1>10, MovesOn DEF LogKnown
<1>12. /\ section' \in [Slot -> SectionSet] /\ section'[s] = f
       /\ \A x \in Slot : x # s => section'[x] = section[x]
  BY <1>3, <1>7, <1>10 DEF LogKnown, LogTyped
<1>13. Along(t)
  <2>1. ~logger[t].new
    BY DEF LogKnown, PlaceKnown
  <2> QED
    BY <1>0, <1>2, <1>6, <1>11, <2>1 DEF Along, Counting, InMutex
<1>14. LogTyped'
  <2>1. \A x \in Slot : section'[x].filled <= section'[x].size
    <3>1. e.filled <= e.size
      BY <1>1, <1>2 DEF LogKnown, LogTyped
    <3> QED
      BY <1>3, <1>7, <1>12, <3>1 DEF LogKnown, LogTyped
  <2>2. mishaps' \subseteq {"refcount", "pointer", "total", "early free"}
    <3>1. mishaps \subseteq {"refcount", "pointer", "total", "early free"}
      BY DEF LogKnown, LogTyped
    <3> QED
      BY <1>9, <3>1
  <2>3. totalFilled' \in Int
    BY <1>4, <1>9
  <2>4. chain' \in Seq(Slot)
    <3>1. chain \in Seq(Slot) /\ Distinct(chain) /\ s \in ToSet(chain)
      BY <1>1, <1>2 DEF LogKnown, LogTyped, ListKnown, Listed
    <3>2. RemoveAt(chain, CHOOSE i \in DOMAIN chain : chain[i] = s) \in Seq(Slot)
      BY <3>1, RemoveList
    <3> QED
      BY <1>9, <3>1, <3>2
  <2>5. copied' \in CopiedSet
    BY <1>8, <1>9
  <2> QED
    BY <1>9, <1>11, <1>12, <2>1, <2>2, <2>3, <2>4, <2>5 DEF LogKnown, LogTyped
<1>15. Balances(t)
  <2> SUFFICES ASSUME mishaps' \subseteq {"pointer"}
               PROVE  totalFilled' - copied'.saved - section'[s].filled + One(Adding(t)')
                        = totalFilled - copied.saved - section[s].filled + One(Adding(t))
    BY <1>2 DEF Balances
  <2>1. totalFilled = m
    BY <1>9
  <2>2. One(Adding(t)') = 0 /\ One(Adding(t)) = 0
    BY <1>0 DEF One, Adding
  <2>3. (m - c.saved) - 0 - 0 + 0 = m - c.saved - 0 + 0
    BY <1>4
  <2>4. copied'.saved = 0 /\ section'[s].filled = 0 /\ section[s].filled = 0 /\ copied.saved = c.saved
    BY <1>2, <1>3, <1>7, <1>8, <1>9, <1>12
  <2> QED
    BY <1>9, <2>1, <2>2, <2>3, <2>4
<1>16. (Counted' <=> Counted) /\ mishaps \subseteq mishaps'
  BY <1>9 DEF Counted
<1> QED
  <2>1. copied'.saved = 0
    BY <1>8, <1>9
  <2>2. section'[s].refcount = IF section[s].folded THEN section[s].refcount - 1 ELSE section[s].refcount
    BY <1>2, <1>7, <1>12
  <2>3. section'[s].filled = 0 /\ section'[s].folded = FALSE /\ section[s].filled = 0
    BY <1>2, <1>3, <1>7, <1>12
  <2>4. /\ section[s].refcount \in Int
        /\ chain' = IF section[s].folded THEN RemoveAt(chain, CHOOSE i \in DOMAIN chain : chain[i] = s)
                    ELSE chain
    BY <1>2, <1>4, <1>9
  <2> QED
    BY <1>0, <1>1, <1>2, <1>9, <1>11, <1>12, <1>13, <1>14, <1>15, <1>16, <2>1, <2>2, <2>3, <2>4

LEMMA ReadSavesStep == ASSUME LogKnown, Going, ReadSaves PROVE LogInv'
<1> DEFINE t == "reader"
<1>0. t \in Logger /\ t \notin Writer /\ \A w \in Writer : w \in Logger
  BY DebugAssumption DEF Logger
<1>1. PICK s, e : s = logger[t].sec /\ e = section[logger[t].sec]
  OBVIOUS
<1>2. /\ s \in taken /\ s \in Slot /\ Listed(s) /\ ~freeing /\ e.filled = 0 /\ e.refcount \in Int
      /\ Along(t) /\ LogTyped' /\ copied'.saved = 0 /\ mishaps \subseteq mishaps' /\ Balances(t)
      /\ At(t) = "total" /\ At(t)' = "put"
      /\ UNCHANGED <<taken, pointer, freeing, todo>>
      /\ \A x \in Slot : x # s => section'[x] = section[x]
      /\ section'[s].filled = 0 /\ section'[s].folded = FALSE
      /\ section'[s].refcount = IF e.folded THEN e.refcount - 1 ELSE e.refcount
      /\ chain' = IF e.folded THEN RemoveAt(chain, CHOOSE i \in DOMAIN chain : chain[i] = s) ELSE chain
      /\ Counted' <=> Counted
  BY <1>1, ReadSavesMoves
<1>3. CASE ~e.folded
  <2>1. chain' = chain
    BY <1>2, <1>3
  <2>2. e.folded = FALSE
    <3>1. e \in SectionSet
      BY <1>1, <1>2 DEF LogKnown, LogTyped
    <3> QED
      BY <1>3, <3>1 DEF SectionSet
  <2>3. \A x \in Slot : KeptBy({logger[t].sec}, x)
    BY <1>1, <1>2, <2>2 DEF KeptBy
  <2>4. Refers(t)
    <3>1. One(At(t) = "get") = 0
      BY <1>2 DEF One
    <3> QED
      BY <1>1, <1>2, <1>3, <3>1 DEF Refers
  <2>5. Fills(t)
    BY <1>1, <1>2 DEF Fills
  <2> QED
    BY <1>0, <1>2, <2>1, <2>3, <2>4, <2>5, AlongStep
<1>4. CASE e.folded
  <2>1. /\ Distinct(chain') /\ \A x : Listed(x)' <=> Listed(x) /\ x # s
    <3>1. chain \in Seq(Slot) /\ Distinct(chain) /\ s \in ToSet(chain)
      BY <1>2 DEF LogKnown, LogTyped, ListKnown, Listed
    <3>2. /\ chain' = RemoveAt(chain, CHOOSE i \in DOMAIN chain : chain[i] = s)
      BY <1>2, <1>4
    <3>3. Distinct(chain') /\ \A x : x \in ToSet(chain') <=> x \in ToSet(chain) /\ x # s
      BY <3>1, <3>2, RemoveList
    <3> QED
      BY <3>3 DEF Listed
  <2>2. (\A p \in LogPtr : pointer[p] # s) /\ \A w \in Writer : logger[w].sec # s
    BY <1>1, <1>2, <1>4 DEF LogKnown, FoldedKnown
  <2>3. \A u \in Logger : /\ logger'[u].sec = logger[u].sec /\ logger'[u].ptr = logger[u].ptr
                          /\ logger'[u].new = logger[u].new
    BY <1>2 DEF Along
  <2>4. \A w \in Writer : At(w)' = At(w)
    BY <1>0, <1>2 DEF Along, At
  <2>5. taken' = taken /\ pointer' = pointer /\ freeing' = freeing /\ todo' = todo
    BY <1>2
  <2>6. PlaceKnown' /\ MutexKept'
    BY <1>0, <1>2, AlongPlaces
  <2>7. \A x : BeingMade(x)' <=> BeingMade(x)
    BY <1>0, <2>3 DEF BeingMade
  <2>8. ListKnown'
    <3>1. \A x \in ToSet(chain') : x \in taken'
      BY <2>1, <2>5 DEF LogKnown, ListKnown, Listed
    <3>2. \A x \in ToSet(todo') : Listed(x)' /\ x # logger'[t].sec
      BY <1>0, <1>1, <2>1, <2>3, <2>5 DEF LogKnown, ListKnown
    <3>3. Distinct(todo') /\ At(t)' # "idle"
      BY <1>2, <2>5 DEF LogKnown, ListKnown
    <3> QED
      BY <2>1, <3>1, <3>2, <3>3 DEF ListKnown
  <2>9. HolderKnown'
    <3>1. \A u \in Logger : logger'[u].sec # "none" => logger'[u].sec \in taken'
      BY <2>3, <2>5 DEF LogKnown, HolderKnown
    <3>2. \A w \in Writer : logger'[w].sec # "none" => (logger'[w].sec \in ToSet(chain') <=> At(w)' # "created")
      BY <1>0, <2>1, <2>2, <2>3, <2>4 DEF LogKnown, HolderKnown, Listed
    <3>3. \A w, v \in Writer : logger'[w].new /\ logger'[v].sec = logger'[w].sec => w = v
      BY <1>0, <2>3 DEF LogKnown, HolderKnown
    <3>4. At(t)' \notin AtSection \ {"put"}
      BY <1>2
    <3>5. \A w \in Writer : At(w)' = "created" => logger'[t].sec # logger'[w].sec
      BY <1>0, <1>1, <2>2, <2>3
    <3> QED
      BY <3>1, <3>2, <3>3, <3>4, <3>5 DEF HolderKnown, Listed
  <2>10. OffListKnown'
    <3> SUFFICES ASSUME NEW x \in taken, ~Listed(x)'
                 PROVE  /\ section'[x].filled = 0
                        /\ \/ logger'[t].sec = x
                           \/ \E w \in Writer : At(w)' = "created" /\ logger'[w].sec = x
      BY <2>5 DEF OffListKnown
    <3>1. CASE x = s
      BY <3>1, <1>0, <1>1, <1>2, <2>3
    <3>2. CASE x # s
      <4>1. ~Listed(x) /\ x \in Slot
        BY <3>2, <2>1 DEF LogKnown, LogTyped
      <4> QED
        BY <3>2, <4>1, <1>0, <1>2, <2>3, <2>4 DEF LogKnown, OffListKnown
    <3> QED
      BY <3>1, <3>2
  <2>11. FoldedKnown'
    <3> SUFFICES ASSUME NEW x \in taken, section'[x].folded
                 PROVE  /\ Listed(x)' /\ \A p \in LogPtr : pointer[p] # x
                        /\ \A w \in Writer : logger'[w].sec # x
      BY <2>5 DEF FoldedKnown
    <3>1. x # s /\ x \in Slot
      BY <1>2 DEF LogKnown, LogTyped
    <3> QED
      BY <1>0, <1>2, <2>1, <2>3, <3>1 DEF LogKnown, FoldedKnown
  <2>12. PointerKnown'
    <3> SUFFICES ASSUME NEW p \in LogPtr, pointer[p] # "none"
                 PROVE  /\ Listed(pointer[p])
                        /\ \A q \in LogPtr : pointer[q] = pointer[p] => q = p
                        /\ \A w \in Writer : logger'[w].sec = pointer[p] => logger'[w].ptr = p /\ ~logger'[w].new
      BY <2>1, <2>2, <2>5 DEF PointerKnown, Listed
    <3> QED
      BY <1>0, <1>2, <2>3 DEF LogKnown, PointerKnown
  <2>13. FreedKnown' /\ TakenOut'
    BY <1>2, <2>5 DEF FreedKnown, TakenOut
  <2>14. CountKnown'
    <3> SUFFICES ASSUME NEW x \in taken
                 PROVE  section'[x].refcount = Cardinality(Users(x))' + OwnerCounts(x)'
      BY <2>5 DEF CountKnown
    <3>1. section[x].refcount = Cardinality(Users(x)) + OwnerCounts(x) /\ x \in Slot
      BY DEF LogKnown, CountKnown, LogTyped
    <3>2. \A u \in Logger : u # t => (Uses(u, x)' <=> Uses(u, x))
      BY <1>2 DEF Along, Uses, At
    <3>3. /\ Cardinality(Users(x))' = Cardinality(Users(x)) + One(Uses(t, x)') - One(Uses(t, x))
          /\ Cardinality(Users(x)) \in Nat
      BY <1>0, <3>2, UsersMove
    <3>4. One(Uses(t, x)') = One(Uses(t, x)) /\ One(Uses(t, x)) \in Int
      BY <1>0, <1>2, <2>3 DEF One, Uses, Counting
    <3>5. Cardinality(Users(x))' = Cardinality(Users(x))
      BY <3>3, <3>4
    <3>6. CASE x = s
      <4>1. ~BeingMade(s) /\ ~Listed(s)' /\ Listed(s)
        BY <1>2, <2>1, <2>2 DEF BeingMade
      <4>2. OwnerCounts(x) = 1 /\ OwnerCounts(x)' = 0
        BY <3>6, <4>1, <2>7 DEF OwnerCounts
      <4>3. section'[x].refcount = section[x].refcount - 1
        BY <1>1, <1>2, <1>4, <3>6
      <4> QED
        BY <3>1, <3>3, <3>5, <4>2, <4>3
    <3>7. CASE x # s
      <4>1. OwnerCounts(x)' = OwnerCounts(x)
        BY <3>7, <2>1, <2>7 DEF OwnerCounts
      <4> QED
        BY <1>2, <3>1, <3>5, <3>7, <4>1
    <3> QED
      BY <3>6, <3>7
  <2>15. TotalKnown'
    <3>1. \A x \in taken : x # logger[t].sec => section'[x].filled = section[x].filled
      BY <1>1, <1>2 DEF LogKnown, LogTyped
    <3> QED
      BY <1>0, <1>2, <2>5, <3>1, AlongTotal
  <2>16. NoneLost'
    <3> SUFFICES ASSUME mishaps' = {}, NEW x, Listed(x)'
                 PROVE  section'[x].folded \/ BeingMade(x)' \/ \E p \in LogPtr : pointer[p] = x
      BY <2>5 DEF NoneLost, Listed
    <3>1. mishaps = {} /\ Listed(x) /\ x # s
      BY <1>2, <2>1
    <3>2. x \in Slot
      BY <3>1, OnList DEF LogKnown, LogTyped, Listed
    <3> QED
      BY <1>2, <2>7, <3>1, <3>2 DEF LogKnown, NoneLost, Listed
  <2> QED
    BY <1>2, <2>6, <2>8, <2>9, <2>10, <2>11, <2>12, <2>13, <2>14, <2>15, <2>16 DEF LogInv
<1> QED
  BY <1>3, <1>4

(* A thread turns to another section, or from one. *)
Turned(t) ==
  /\ logger' \in [Logger -> LoggerSet] /\ \A u \in Logger : u # t => logger'[u] = logger[u]
  /\ At(t) \notin {"locked", "total"} /\ At(t)' \in {"idle", "next", "create", "found"}
  /\ ~logger[t].new /\ ~logger'[t].new
  /\ logger'[t].sec # "none" <=> At(t)' = "found"
  /\ t \in Writer => /\ At(t)' # "next"
                     /\ freeing => At(t)' = "idle"
                     /\ At(t)' # "idle" => logger'[t].ptr \in LogPtr
                     /\ At(t)' = "found" => pointer[logger'[t].ptr] = logger'[t].sec
  /\ t = "reader" => /\ At(t)' # "create"
                     /\ At(t)' = "found" => Listed(logger'[t].sec)
Leaves(t) ==
  /\ \A s \in Slot : section'[s].refcount = section[s].refcount - One(Uses(t, s))
  /\ t = "reader" /\ logger[t].sec # "none" => Listed(logger[t].sec)

LEMMA TurnsPlaces ==
  ASSUME LogKnown, NEW t \in Logger, Turned(t),
         copied'.saved = copied.saved, t = "reader" => copied.saved = 0
  PROVE  PlaceKnown' /\ MutexKept'
<1>1. (\A w \in Writer : w \in Logger) /\ "reader" \in Logger /\ "reader" \notin Writer
  BY DebugAssumption DEF Logger
<1>2. \A u \in Logger : u # t => At(u)' = At(u)
  BY DEF Turned, At
<1>3. \A u \in Logger : logger'[u].new <=> logger[u].new
  BY DEF Turned
<1>4. PlaceKnown'
  <2>1. \A u \in Logger : logger'[u].sec # "none" <=> At(u)' \in AtSection
    <3>1. At(t)' \in AtSection <=> At(t)' = "found"
      BY DEF Turned, AtSection
    <3> QED
      BY <1>2, <3>1 DEF LogKnown, PlaceKnown, Turned
  <2>2. ASSUME NEW w \in Writer
        PROVE  /\ At(w)' # "next"
               /\ At(w)' # "idle" => logger'[w].ptr \in LogPtr
               /\ logger'[w].new => At(w)' \in {"created", "found", "get", "wait"}
               /\ At(w)' = "created" => logger'[w].new
    <3>1. CASE w = t
      BY <3>1 DEF Turned, At
    <3>2. CASE w # t
      BY <3>2, <1>1, <1>2 DEF LogKnown, PlaceKnown, Turned
    <3> QED
      BY <3>1, <3>2
  <2>3. At("reader")' \notin {"create", "created"} /\ ~logger'["reader"].new
    BY <1>1, <1>2, <1>3 DEF LogKnown, PlaceKnown, Turned
  <2>4. copied'.saved # 0 => At("reader")' = "total"
    BY <1>1, <1>2 DEF LogKnown, PlaceKnown
  <2> QED
    BY <2>1, <2>2, <2>3, <2>4 DEF PlaceKnown
<1>5. MutexKept'
  <2> SUFFICES ASSUME NEW u \in Logger, NEW v \in Logger, At(u)' \in InMutex, At(v)' \in InMutex,
                      logger'[u].sec = logger'[v].sec
               PROVE  u = v
    BY DEF MutexKept
  <2>1. u # t /\ v # t
    BY DEF Turned, InMutex
  <2> QED
    BY <2>1, <1>2 DEF LogKnown, MutexKept, Turned
<1> QED
  BY <1>4, <1>5

LEMMA TurnsStep ==
  ASSUME LogKnown, Going, NEW t \in Logger, Turned(t), LogTyped', Counted' => Leaves(t),
         Counted' => ListKnown',
         \A s \in Slot : section'[s].filled = section[s].filled /\ section'[s].folded = section[s].folded,
         copied'.saved = copied.saved, t = "reader" => copied.saved = 0, mishaps \subseteq mishaps',
         UNCHANGED <<taken, chain, pointer, freeing, totalFilled>>
  PROVE  LogInv'
<1>1. /\ taken' = taken /\ chain' = chain /\ pointer' = pointer /\ freeing' = freeing
      /\ totalFilled' = totalFilled
  OBVIOUS
<1>2. \A s : Listed(s)' <=> Listed(s)
  BY <1>1 DEF Listed
<1>3. (\A w \in Writer : w \in Logger) /\ "reader" \in Logger /\ "reader" \notin Writer
  BY DebugAssumption DEF Logger
<1>4. \A u \in Logger : u # t => At(u)' = At(u)
  BY DEF Turned, At
<1>5. \A u \in Logger : logger'[u].new <=> logger[u].new
  BY DEF Turned
<1>6. \A s : BeingMade(s)' <=> BeingMade(s)
  BY <1>3, <1>5 DEF BeingMade, Turned
<1>7. \A s \in taken : s \in Slot
  BY DEF LogKnown, LogTyped
<1>8. PlaceKnown' /\ MutexKept'
  BY TurnsPlaces
<1>9. At(t)' = "found" /\ t \in Writer =>
         /\ ~freeing /\ logger'[t].ptr \in LogPtr /\ pointer[logger'[t].ptr] = logger'[t].sec
         /\ pointer[logger'[t].ptr] # "none"
  BY DEF Turned
<1>10. At(t)' = "found" => Listed(logger'[t].sec) /\ logger'[t].sec \in taken
  <2>1. At(t)' = "found" => Listed(logger'[t].sec)
    <3>1. CASE t \in Writer
      BY <3>1, <1>9 DEF LogKnown, PointerKnown
    <3>2. CASE t = "reader"
      BY <3>2 DEF Turned
    <3> QED
      BY <3>1, <3>2 DEF Logger
  <2> QED
    BY <2>1 DEF LogKnown, ListKnown, Listed
<1>11. HolderKnown'
  <2>1. \A u \in Logger : logger'[u].sec # "none" => logger'[u].sec \in taken'
    BY <1>1, <1>10 DEF LogKnown, HolderKnown, Turned
  <2>2. ASSUME NEW w \in Writer, logger'[w].sec # "none"
        PROVE  logger'[w].sec \in ToSet(chain') <=> At(w)' # "created"
    <3>1. CASE w = t
      BY <3>1, <2>2, <1>1, <1>10 DEF Turned, Listed
    <3>2. CASE w # t
      BY <3>2, <2>2, <1>1, <1>3, <1>4 DEF Turned, LogKnown, HolderKnown, Listed
    <3> QED
      BY <3>1, <3>2
  <2>3. ASSUME NEW w \in Writer, NEW v \in Writer, logger'[w].new, logger'[v].sec = logger'[w].sec
        PROVE  w = v
    <3>1. w # t /\ logger[w].new /\ logger'[w].sec = logger[w].sec
      BY <2>3, <1>3 DEF Turned
    <3>2. logger[w].sec # "none"
      BY <3>1, <1>3 DEF LogKnown, PlaceKnown, AtSection
    <3>3. CASE v = t
      <4>1. At(t)' = "found" /\ t \in Writer
        BY <2>3, <3>1, <3>2, <3>3 DEF Turned
      <4> QED
        BY <1>9, <2>3, <3>1, <3>2, <3>3, <4>1 DEF LogKnown, PointerKnown
    <3>4. CASE v # t
      BY <2>3, <3>1, <3>4, <1>3 DEF Turned, LogKnown, HolderKnown
    <3> QED
      BY <3>3, <3>4
  <2>4. At("reader")' \in AtSection \ {"put"} => logger'["reader"].sec \in ToSet(chain')
    <3>1. CASE t = "reader"
      BY <3>1, <1>1, <1>10 DEF Turned, Listed, AtSection
    <3>2. CASE t # "reader"
      BY <3>2, <1>1, <1>3, <1>4 DEF Turned, LogKnown, HolderKnown, Listed
    <3> QED
      BY <3>1, <3>2
  <2>5. ASSUME NEW w \in Writer, At(w)' = "created" PROVE logger'["reader"].sec # logger'[w].sec
    <3>1. w # t /\ At(w) = "created" /\ logger'[w].sec = logger[w].sec
      BY <2>5, <1>3, <1>4 DEF Turned
    <3>2. CASE t = "reader"
      <4>1. logger[w].sec # "none" /\ ~Listed(logger[w].sec)
        BY <3>1, <1>3 DEF LogKnown, PlaceKnown, HolderKnown, AtSection
      <4> QED
        BY <3>1, <3>2, <4>1, <1>10 DEF Turned
    <3>3. CASE t # "reader"
      BY <3>1, <3>3, <1>3 DEF Turned, LogKnown, HolderKnown
    <3> QED
      BY <3>2, <3>3
  <2> QED
    BY <2>1, <2>2, <2>3, <2>4, <2>5 DEF HolderKnown, Listed
<1>12. ASSUME Counted' PROVE OffListKnown'
  <2> SUFFICES ASSUME NEW s \in taken, ~Listed(s)
               PROVE  /\ section'[s].filled = 0
                      /\ \/ logger'["reader"].sec = s
                         \/ \E w \in Writer : At(w)' = "created" /\ logger'[w].sec = s
    BY <1>1, <1>2 DEF OffListKnown
  <2>1. section'[s].filled = 0
    BY <1>7 DEF LogKnown, OffListKnown
  <2>2. CASE logger["reader"].sec = s
    <3>1. s # "none"
      BY <1>7, DebugAssumption
    <3>2. t # "reader"
      BY <1>12, <2>2, <3>1 DEF Leaves
    <3> QED
      BY <2>1, <2>2, <3>2, <1>3 DEF Turned
  <2>3. CASE \E w \in Writer : At(w) = "created" /\ logger[w].sec = s
    <3>1. PICK w \in Writer : At(w) = "created" /\ logger[w].sec = s
      BY <2>3
    <3>2. w # t
      <4>1. logger[w].new
        BY <3>1 DEF LogKnown, PlaceKnown
      <4> QED
        BY <4>1 DEF Turned
    <3> QED
      BY <2>1, <3>1, <3>2, <1>3, <1>4 DEF Turned
  <2> QED
    BY <2>2, <2>3 DEF LogKnown, OffListKnown
<1>13. FoldedKnown'
  <2> SUFFICES ASSUME NEW s \in taken, section[s].folded
               PROVE  /\ Listed(s) /\ (\A p \in LogPtr : pointer[p] # s)
                      /\ \A w \in Writer : logger'[w].sec # s
    BY <1>1, <1>2, <1>7 DEF FoldedKnown
  <2>1. /\ Listed(s) /\ (\A p \in LogPtr : pointer[p] # s) /\ s # "none"
        /\ \A w \in Writer : logger[w].sec # s
    BY <1>7, DebugAssumption DEF LogKnown, FoldedKnown
  <2>2. ASSUME NEW w \in Writer PROVE logger'[w].sec # s
    <3>1. CASE w = t
      BY <2>1, <3>1, <1>9 DEF Turned
    <3>2. CASE w # t
      BY <2>1, <3>2, <1>3 DEF Turned
    <3> QED
      BY <3>1, <3>2
  <2> QED
    BY <2>1, <2>2
<1>14. PointerKnown'
  <2> SUFFICES ASSUME ~freeing, NEW p \in LogPtr, pointer[p] # "none"
               PROVE  /\ Listed(pointer[p])
                      /\ \A q \in LogPtr : pointer[q] = pointer[p] => q = p
                      /\ \A w \in Writer : logger'[w].sec = pointer[p] => logger'[w].ptr = p /\ ~logger'[w].new
    BY <1>1, <1>2 DEF PointerKnown
  <2>1. /\ Listed(pointer[p]) /\ \A q \in LogPtr : pointer[q] = pointer[p] => q = p
        /\ \A w \in Writer : logger[w].sec = pointer[p] => logger[w].ptr = p /\ ~logger[w].new
    BY DEF LogKnown, PointerKnown
  <2>2. ASSUME NEW w \in Writer, logger'[w].sec = pointer[p] PROVE logger'[w].ptr = p /\ ~logger'[w].new
    <3>1. CASE w = t
      <4>1. At(t)' = "found" /\ t \in Writer
        BY <2>2, <3>1 DEF Turned
      <4> QED
        BY <2>1, <2>2, <3>1, <4>1, <1>9 DEF Turned
    <3>2. CASE w # t
      BY <2>1, <2>2, <3>2, <1>3 DEF Turned
    <3> QED
      BY <3>1, <3>2
  <2> QED
    BY <2>1, <2>2
<1>15. FreedKnown'
  <2> SUFFICES ASSUME freeing
               PROVE  /\ chain = <<>> /\ taken = {} /\ \A w \in Writer : At(w)' = "idle"
                      /\ \A p \in LogHandle \intersect LogPtr : pointer[p] = "none"
    BY <1>1 DEF FreedKnown
  <2> QED
    <3>1. /\ chain = <<>> /\ taken = {} /\ \A w \in Writer : At(w) = "idle"
          /\ \A p \in LogHandle \intersect LogPtr : pointer[p] = "none"
      BY DEF LogKnown, FreedKnown
    <3>2. ASSUME NEW w \in Writer PROVE At(w)' = "idle"
      <4>1. CASE w = t
        BY <4>1 DEF Turned, At
      <4>2. CASE w # t
        BY <3>1, <4>2, <1>3, <1>4
      <4> QED
        BY <4>1, <4>2
    <3> QED
      BY <3>1, <3>2
<1>16. TakenOut'
  <2> SUFFICES ASSUME At("reader")' = "total" PROVE section'[logger'["reader"].sec].filled = 0
    BY DEF TakenOut
  <2>1. t # "reader"
    BY DEF Turned
  <2>2. At("reader") = "total" /\ logger'["reader"] = logger["reader"]
    BY <2>1, <1>3, <1>4 DEF Turned
  <2>3. logger["reader"].sec \in Slot
    BY <2>2, <1>3, <1>7 DEF LogKnown, PlaceKnown, HolderKnown, AtSection
  <2> QED
    BY <2>2, <2>3 DEF LogKnown, TakenOut
<1>17. ASSUME Counted' PROVE CountKnown'
  <2> SUFFICES ASSUME NEW s \in taken
               PROVE  section'[s].refcount = Cardinality(Users(s))' + OwnerCounts(s)'
    BY <1>1 DEF CountKnown
  <2>1. section[s].refcount = Cardinality(Users(s)) + OwnerCounts(s)
    BY DEF LogKnown, CountKnown
  <2>2. \A u \in Logger : u # t => (Uses(u, s)' <=> Uses(u, s))
    BY <1>4 DEF Turned, Uses
  <2>3. /\ Cardinality(Users(s))' = Cardinality(Users(s)) + One(Uses(t, s)') - One(Uses(t, s))
        /\ Cardinality(Users(s)) \in Nat
    BY <2>2, UsersMove
  <2>4. One(Uses(t, s)') = 0 /\ One(Uses(t, s)) \in Int
    BY DEF One, Uses, Turned, Counting
  <2>5. OwnerCounts(s)' = OwnerCounts(s) /\ OwnerCounts(s) \in {0, 1}
    BY <1>2, <1>6 DEF OwnerCounts
  <2>6. section'[s].refcount = section[s].refcount - One(Uses(t, s))
    BY <1>7, <1>17 DEF Leaves
  <2> QED
    BY <2>1, <2>3, <2>4, <2>5, <2>6
<1>18. TotalKnown'
  <2> SUFFICES ASSUME mishaps' \subseteq {"pointer"}, ~freeing
               PROVE  totalFilled = FilledIn(section', taken) - Cardinality(AtTotal)' + copied.saved
    BY <1>1 DEF TotalKnown
  <2>1. totalFilled = FilledIn(section, taken) - Cardinality(AtTotal) + copied.saved
    BY DEF LogKnown, TotalKnown, Going
  <2>2. FilledIn(section', taken) = FilledIn(section, taken)
    <3>1. section \in [Slot -> SectionSet] /\ section' \in [Slot -> SectionSet] /\ taken \in SUBSET Slot
      BY DEF LogKnown, LogTyped
    <3> QED
      BY <1>7, <3>1, FilledSame
  <2>3. \A u \in Logger : u # t => (Adding(u)' <=> Adding(u))
    BY <1>4 DEF Adding
  <2>4. /\ Cardinality(AtTotal)' = Cardinality(AtTotal) + One(Adding(t)') - One(Adding(t))
        /\ Cardinality(AtTotal) \in Nat
    BY <2>3, AddersMove
  <2>5. One(Adding(t)') = 0 /\ One(Adding(t)) = 0
    BY DEF One, Adding, Turned
  <2>6. Cardinality(AtTotal)' = Cardinality(AtTotal)
    BY <2>4, <2>5
  <2> QED
    BY <2>1, <2>2, <2>6
<1>19. NoneLost'
  <2> SUFFICES ASSUME mishaps' = {}, NEW s \in ToSet(chain)
               PROVE  section'[s].folded \/ BeingMade(s)' \/ \E p \in LogPtr : pointer[p] = s
    BY <1>1 DEF NoneLost
  <2>1. mishaps = {} /\ s \in Slot
    BY OnList DEF LogKnown, LogTyped
  <2> QED
    BY <2>1, <1>6 DEF LogKnown, NoneLost
<1> QED
  BY <1>8, <1>11, <1>12, <1>13, <1>14, <1>15, <1>16, <1>17, <1>18, <1>19 DEF LogInv

(* A thread that uses no section turns to one, or to none. *)
LEMMA FreshTurn ==
  ASSUME LogKnown, NEW t \in Logger, NEW q \in LoggerSet, logger' = [logger EXCEPT ![t] = q],
         At(t) \in {"idle", "create", "next"}, section' = section
  PROVE  /\ logger' \in [Logger -> LoggerSet] /\ logger'[t] = q /\ At(t)' = q.at
         /\ \A u \in Logger : u # t => logger'[u] = logger[u]
         /\ ~logger[t].new /\ logger[t].sec = "none" /\ Leaves(t)
         /\ \A s \in Slot : section'[s].filled = section[s].filled /\ section'[s].folded = section[s].folded
         /\ t = "reader" => copied.saved = 0
<1>1. logger' \in [Logger -> LoggerSet] /\ logger'[t] = q /\ At(t)' = q.at
      /\ \A u \in Logger : u # t => logger'[u] = logger[u]
  BY DEF LogKnown, LogTyped, At
<1>2. ~logger[t].new /\ logger[t].sec = "none" /\ At(t) \notin AtSection
  BY DEF LogKnown, PlaceKnown, AtSection, Logger
<1>3. Leaves(t)
  <2> SUFFICES ASSUME NEW s \in Slot
               PROVE  section'[s].refcount = section[s].refcount - One(Uses(t, s))
    BY <1>2 DEF Leaves
  <2>1. One(Uses(t, s)) = 0
    BY <1>2 DEF One, Uses, Counting, AtSection
  <2>2. section[s].refcount \in Int
    <3>1. section[s] \in SectionSet
      BY DEF LogKnown, LogTyped
    <3> QED
      BY <3>1 DEF SectionSet
  <2> QED
    BY <2>1, <2>2
<1>4. t = "reader" => copied.saved = 0
  BY DEF LogKnown, PlaceKnown
<1> QED
  BY <1>1, <1>2, <1>3, <1>4

LEMMA IdleIs == Idle \in LoggerSet /\ Idle.at = "idle" /\ Idle.sec = "none" /\ Idle.new = FALSE
BY DEF Idle, LoggerSet, LogPlace

LEMMA WriteBeginStep ==
  ASSUME LogKnown, Going, NEW w \in Writer, NEW p \in LogPtr, WriteBegin(w, p) PROVE LogInv'
<1>0. w \in Logger /\ w # "reader" /\ "reader" \in Logger
  BY DebugAssumption DEF Logger
<1>1. At(w) = "idle" /\ ~freeing
  BY DEF WriteBegin
<1>2. PICK s : s = pointer[p]
  OBVIOUS
<1>11. PICK a : a = (IF s = "none" THEN "create" ELSE "found")
  OBVIOUS
<1>12. PICK i, q : i = Idle /\ q = [i EXCEPT !.at = a, !.ptr = p, !.sec = s]
  OBVIOUS
<1>3. s \in Slot \union {"none"}
  BY <1>2, <1>11, <1>12 DEF LogKnown, LogTyped
<1>4. q \in LoggerSet /\ q.at = a /\ q.sec = s /\ q.ptr = p /\ q.new = FALSE
  <2>1. a \in LogPlace
    BY <1>2, <1>11, <1>12 DEF LogPlace, AtSection
  <2>2. i \in LoggerSet /\ i.new = FALSE
    BY <1>2, <1>11, <1>12, IdleIs
  <2> QED
    BY <1>2, <1>11, <1>12, <1>3, <2>1, <2>2 DEF LoggerSet
<1>5. logger' = [logger EXCEPT ![w] = q]
  <2>1. logger' = [logger EXCEPT ![w] =
          [Idle EXCEPT !.at = IF pointer[p] = "none" THEN "create" ELSE "found",
                       !.ptr = p, !.sec = pointer[p]]]
    BY DEF WriteBegin
  <2> QED
    BY <1>2, <1>11, <1>12, <2>1
<1>6. /\ section' = section /\ taken' = taken /\ chain' = chain /\ pointer' = pointer
      /\ totalFilled' = totalFilled /\ readWait' = readWait /\ freeing' = freeing /\ todo' = todo
      /\ copied' = copied /\ mishaps' = mishaps
  BY DEF WriteBegin
<1>7. /\ logger' \in [Logger -> LoggerSet] /\ logger'[w] = q /\ At(w)' = q.at
      /\ \A u \in Logger : u # w => logger'[u] = logger[u]
      /\ ~logger[w].new /\ logger[w].sec = "none" /\ Leaves(w)
      /\ \A x \in Slot : section'[x].filled = section[x].filled /\ section'[x].folded = section[x].folded
  BY <1>0, <1>1, <1>4, <1>5, <1>6, FreshTurn
<1>8. Turned(w)
  BY <1>0, <1>1, <1>2, <1>11, <1>12, <1>4, <1>7 DEF Turned
<1>9. LogTyped'
  BY <1>6, <1>7 DEF LogKnown, LogTyped
<1>10. ListKnown'
  BY <1>0, <1>6, <1>7 DEF LogKnown, ListKnown, Listed, At
<1> QED
  BY <1>0, <1>6, <1>7, <1>8, <1>9, <1>10, TurnsStep

LEMMA NoRoomStep ==
  ASSUME LogKnown, Going, NEW w \in Writer, At(w) = "create", logger' = [logger EXCEPT ![w] = Idle],
         UNCHANGED <<section, taken, chain, pointer, totalFilled, readWait, freeing, todo, copied, mishaps>>
  PROVE  LogInv'
<1>0. w \in Logger /\ w # "reader" /\ "reader" \in Logger
  BY DebugAssumption DEF Logger
<1>1. Idle \in LoggerSet /\ Idle.at = "idle" /\ Idle.sec = "none" /\ Idle.new = FALSE
  BY DEF Idle, LoggerSet, LogPlace
<1>2. /\ section' = section /\ taken' = taken /\ chain' = chain /\ pointer' = pointer
      /\ totalFilled' = totalFilled /\ readWait' = readWait /\ freeing' = freeing /\ todo' = todo
      /\ copied' = copied /\ mishaps' = mishaps
  OBVIOUS
<1>3. /\ logger' \in [Logger -> LoggerSet] /\ logger'[w] = Idle /\ At(w)' = "idle"
      /\ \A u \in Logger : u # w => logger'[u] = logger[u]
      /\ ~logger[w].new /\ logger[w].sec = "none" /\ Leaves(w)
      /\ \A x \in Slot : section'[x].filled = section[x].filled /\ section'[x].folded = section[x].folded
  BY <1>0, <1>1, <1>2, FreshTurn
<1>4. Turned(w)
  BY <1>0, <1>1, <1>3 DEF Turned
<1>5. LogTyped'
  BY <1>2, <1>3 DEF LogKnown, LogTyped
<1>6. ListKnown'
  BY <1>0, <1>2, <1>3 DEF LogKnown, ListKnown, Listed, At
<1> QED
  BY <1>0, <1>2, <1>3, <1>4, <1>5, <1>6, TurnsStep

LEMMA ReadBeginsStep == ASSUME LogKnown, Going, ReadBegins PROVE LogInv'
<1> DEFINE t == "reader"
<1>0. t \in Logger /\ t \notin Writer /\ At(t) = "idle"
  BY DebugAssumption DEF Logger, ReadBegins
<1>1. PICK r, q : r = logger[t] /\ q = [r EXCEPT !.at = "next"]
  OBVIOUS
<1>2. q \in LoggerSet /\ q.at = "next" /\ q.sec = r.sec /\ q.new = r.new
  <2>1. r \in LoggerSet
    BY <1>0, <1>1 DEF LogKnown, LogTyped
  <2> QED
    BY <1>1, <2>1 DEF LoggerSet, LogPlace
<1>3. logger' = [logger EXCEPT ![t] = q]
  BY <1>1 DEF ReadBegins
<1>4. /\ section' = section /\ taken' = taken /\ chain' = chain /\ pointer' = pointer
      /\ totalFilled' = totalFilled /\ readWait' = FALSE /\ freeing' = freeing /\ todo' = chain
      /\ copied' = [user |-> 0, saved |-> 0] /\ mishaps' = mishaps
  BY DEF ReadBegins
<1>5. /\ logger' \in [Logger -> LoggerSet] /\ logger'[t] = q /\ At(t)' = "next"
      /\ \A u \in Logger : u # t => logger'[u] = logger[u]
      /\ ~logger[t].new /\ logger[t].sec = "none" /\ Leaves(t) /\ copied.saved = 0
      /\ \A x \in Slot : section'[x].filled = section[x].filled /\ section'[x].folded = section[x].folded
  BY <1>0, <1>2, <1>3, <1>4, FreshTurn
<1>6. Turned(t)
  BY <1>0, <1>1, <1>2, <1>5 DEF Turned
<1>7. copied' \in CopiedSet /\ copied'.saved = 0
  BY <1>4, DebugAssumption DEF CopiedSet
<1>8. LogTyped'
  BY <1>4, <1>5, <1>7 DEF LogKnown, LogTyped
<1>9. ListKnown'
  <2>1. \A s \in ToSet(chain) : s \in Slot /\ s # "none"
    BY DebugAssumption, OnList DEF LogKnown, LogTyped
  <2>2. logger'[t].sec = "none"
    BY <1>1, <1>2, <1>5
  <2> QED
    BY <1>4, <1>5, <2>1, <2>2 DEF LogKnown, ListKnown, Listed
<1> QED
  BY <1>0, <1>4, <1>5, <1>6, <1>7, <1>8, <1>9, TurnsStep

LEMMA ReadVisitsStep == ASSUME LogKnown, Going, ReadVisits PROVE LogInv'
<1> DEFINE t == "reader"
<1>0. t \in Logger /\ t \notin Writer /\ At(t) = "next" /\ todo # <<>> /\ todo \in Seq(Slot)
  BY DebugAssumption DEF Logger, ReadVisits, LogKnown, LogTyped
<1>1. /\ Head(todo) \in ToSet(todo) /\ Tail(todo) \in Seq(Slot)
      /\ \A s \in ToSet(Tail(todo)) : s \in ToSet(todo)
      /\ Distinct(Tail(todo)) /\ Head(todo) \notin ToSet(Tail(todo))
  <2>1. Distinct(todo)
    BY DEF LogKnown, ListKnown
  <2> QED
    BY <1>0, <2>1, TailList
<1>2. PICK i, s, q : i = Idle /\ s = Head(todo) /\ q = [i EXCEPT !.at = "found", !.sec = s]
  OBVIOUS
<1>3. s \in Slot /\ s # "none" /\ Listed(s)
  BY <1>0, <1>1, <1>2, OnList, DebugAssumption DEF LogKnown, ListKnown
<1>4. q \in LoggerSet /\ q.at = "found" /\ q.sec = s /\ q.new = FALSE
  <2>1. i \in LoggerSet /\ i.new = FALSE
    BY <1>2, IdleIs
  <2> QED
    BY <1>2, <1>3, <2>1 DEF LoggerSet, LogPlace, AtSection
<1>5. logger' = [logger EXCEPT ![t] = q]
  <2>1. logger' = [logger EXCEPT ![t] = [Idle EXCEPT !.at = "found", !.sec = Head(todo)]]
    BY DEF ReadVisits
  <2> QED
    BY <1>2, <2>1
<1>6. /\ section' = section /\ taken' = taken /\ chain' = chain /\ pointer' = pointer
      /\ totalFilled' = totalFilled /\ readWait' = readWait /\ freeing' = freeing
      /\ todo' = Tail(todo) /\ copied' = copied /\ mishaps' = mishaps
  BY DEF ReadVisits
<1>7. /\ logger' \in [Logger -> LoggerSet] /\ logger'[t] = q /\ At(t)' = "found"
      /\ \A u \in Logger : u # t => logger'[u] = logger[u]
      /\ ~logger[t].new /\ logger[t].sec = "none" /\ Leaves(t) /\ copied.saved = 0
      /\ \A x \in Slot : section'[x].filled = section[x].filled /\ section'[x].folded = section[x].folded
  BY <1>0, <1>4, <1>5, <1>6, FreshTurn
<1>8. Turned(t)
  BY <1>0, <1>3, <1>4, <1>7 DEF Turned
<1>9. LogTyped'
  BY <1>1, <1>6, <1>7 DEF LogKnown, LogTyped
<1>10. ListKnown'
  <2>1. logger'[t].sec = Head(todo)
    BY <1>2, <1>4, <1>7
  <2> QED
    BY <1>1, <1>6, <1>7, <2>1 DEF LogKnown, ListKnown, Listed
<1> QED
  BY <1>0, <1>6, <1>7, <1>8, <1>9, <1>10, TurnsStep

LEMMA ReadEndsStep == ASSUME LogKnown, Going, ReadEnds PROVE LogInv'
<1> DEFINE t == "reader"
<1>0. t \in Logger /\ t \notin Writer /\ At(t) = "next" /\ todo = <<>>
  BY DebugAssumption DEF Logger, ReadEnds
<1>1. Idle \in LoggerSet /\ Idle.at = "idle" /\ Idle.sec = "none" /\ Idle.new = FALSE
  BY DEF Idle, LoggerSet, LogPlace
<1>2. /\ section' = section /\ taken' = taken /\ chain' = chain /\ pointer' = pointer
      /\ totalFilled' = totalFilled /\ readWait' = readWait /\ freeing' = freeing /\ todo' = todo
      /\ copied' = [user |-> 0, saved |-> 0] /\ mishaps' = mishaps
      /\ logger' = [logger EXCEPT ![t] = Idle]
  BY DEF ReadEnds
<1>3. /\ logger' \in [Logger -> LoggerSet] /\ logger'[t] = Idle /\ At(t)' = "idle"
      /\ \A u \in Logger : u # t => logger'[u] = logger[u]
      /\ ~logger[t].new /\ logger[t].sec = "none" /\ Leaves(t) /\ copied.saved = 0
      /\ \A x \in Slot : section'[x].filled = section[x].filled /\ section'[x].folded = section[x].folded
  BY <1>0, <1>1, <1>2, FreshTurn
<1>4. Turned(t)
  BY <1>0, <1>1, <1>3 DEF Turned
<1>5. copied' \in CopiedSet /\ copied'.saved = 0
  BY <1>2, DebugAssumption DEF CopiedSet
<1>6. LogTyped'
  BY <1>2, <1>3, <1>5 DEF LogKnown, LogTyped
<1>7. ListKnown'
  <2>1. \A s : s \notin ToSet(todo')
    BY <1>0, <1>2, EmptyList
  <2> QED
    BY <1>0, <1>2, <1>3, <2>1 DEF LogKnown, ListKnown, Listed
<1> QED
  BY <1>0, <1>2, <1>3, <1>4, <1>5, <1>6, <1>7, TurnsStep

LEMMA PutTurns ==
  ASSUME LogKnown, NEW t \in Logger, PutStores(t)
  PROVE  /\ Turned(t) /\ PlaceKnown' /\ MutexKept' /\ copied.saved = copied'.saved
         /\ (t = "reader" => copied.saved = 0)
         /\ logger[t].sec \in Slot /\ logger[t].sec \in taken /\ Uses(t, logger[t].sec) /\ ~freeing
         /\ logger'[t].sec = "none"
         /\ logger[t].old \in Int
<1>0. At(t) = "put" /\ (t # "reader" => t \in Writer) /\ (t = "reader" => t \notin Writer)
  BY DebugAssumption DEF PutStores, Logger
<1>1. logger[t].sec # "none" /\ logger[t].sec \in taken /\ logger[t].sec \in Slot
  BY <1>0 DEF LogKnown, LogTyped, PlaceKnown, HolderKnown, AtSection
<1>2. ~freeing
  BY <1>1 DEF LogKnown, FreedKnown
<1>3. PICK i : i = Idle
  OBVIOUS
<1>4. i \in LoggerSet /\ i.at = "idle" /\ i.sec = "none" /\ i.new = FALSE
  BY <1>3, IdleIs
<1>5. PICK n : n = [i EXCEPT !.at = "next"]
  OBVIOUS
<1>6. n \in LoggerSet /\ n.at = "next" /\ n.sec = "none" /\ n.new = FALSE
  BY <1>4, <1>5 DEF LoggerSet, LogPlace
<1>7. logger' = [logger EXCEPT ![t] = IF t = "reader" THEN n ELSE i]
  BY <1>3, <1>5 DEF PutStores
<1>8. PICK q \in {n, i} : logger' = [logger EXCEPT ![t] = q] /\ q = IF t = "reader" THEN n ELSE i
  BY <1>7
<1>9. /\ q \in LoggerSet /\ q.sec = "none" /\ q.new = FALSE
      /\ q.at = IF t = "reader" THEN "next" ELSE "idle"
  BY <1>4, <1>6, <1>8
<1>10. /\ logger' \in [Logger -> LoggerSet] /\ logger'[t] = q /\ At(t)' = q.at
       /\ \A u \in Logger : u # t => logger'[u] = logger[u]
  BY <1>8, <1>9 DEF LogKnown, LogTyped, At
<1>11. ~logger[t].new
  BY <1>0 DEF LogKnown, PlaceKnown, Logger
<1>12. Turned(t)
  BY <1>0, <1>2, <1>9, <1>10, <1>11 DEF Turned
<1>13. copied' = copied
  BY DEF PutStores
<1>14. t = "reader" => copied.saved = 0
  BY <1>0 DEF LogKnown, PlaceKnown
<1>15. PlaceKnown' /\ MutexKept'
  BY <1>12, <1>13, <1>14, TurnsPlaces
<1>16. Uses(t, logger[t].sec)
  BY <1>0 DEF Uses, Counting
<1>17. logger[t].old \in Int
  BY DEF LogKnown, LogTyped, LoggerSet
<1> QED
  BY <1>1, <1>2, <1>9, <1>10, <1>12, <1>13, <1>14, <1>15, <1>16, <1>17

(* What the last reference means: nobody but a reader puts it, and of a section off the list. *)
LEMMA LastIsReader ==
  ASSUME LogKnown, NEW t \in Logger, NEW s \in taken, Uses(t, s), ~BeingMade(s)
  PROVE  /\ section[s].refcount >= 1
         /\ section[s].refcount = 1 => ~Listed(s)
         /\ ~Listed(s) => /\ t = "reader" /\ section[s].refcount = 1
                          /\ \A w \in Writer : logger[w].sec # s
<1>1. section[s].refcount = Cardinality(Users(s)) + OwnerCounts(s)
  BY DEF LogKnown, CountKnown
<1>2. OwnerCounts(s) = IF Listed(s) THEN 1 ELSE 0
  BY DEF OwnerCounts
<1>3. Users(s) \in SUBSET Logger /\ t \in Users(s)
  BY DEF Users, Uses, Counting
<1>4. PICK A : A = Users(s)
  OBVIOUS
<1>5. {} \in SUBSET Logger /\ Cardinality({}) = 0
  BY FS_EmptySet
<1>6. Cardinality(A) \in Nat /\ Cardinality(A) >= 1
  <2>1. \A u \in Logger : u # t => (u \in A <=> u \in A)
    OBVIOUS
  <2> QED
    BY <1>3, <1>4, <2>1, OneMoves
<1>7. ASSUME ~Listed(s)
      PROVE  t = "reader" /\ section[s].refcount = 1 /\ \A w \in Writer : logger[w].sec # s
  <2>1. s \in Slot /\ s # "none"
    BY DebugAssumption DEF LogKnown, LogTyped
  <2>2. \A w \in Writer : logger[w].sec # s
    <3> SUFFICES ASSUME NEW w \in Writer, logger[w].sec = s PROVE FALSE
      OBVIOUS
    <3>1. At(w) = "created"
      BY <1>7, <2>1 DEF LogKnown, HolderKnown
    <3>2. logger[w].new
      BY <3>1 DEF LogKnown, PlaceKnown
    <3> QED
      BY <3>2 DEF BeingMade
  <2>3. t = "reader" /\ \A u \in Logger : u # t => u \notin A
    BY <2>2, <1>3, <1>4 DEF Users, Uses, Logger
  <2>4. \A u \in Logger : u # t => (u \in A <=> u \in {})
    BY <2>3
  <2>5. Cardinality({}) = Cardinality(A) + One(t \in {}) - One(t \in A)
    BY <1>3, <1>4, <1>5, <2>4, OneMoves
  <2>6. One(t \in {}) = 0 /\ One(t \in A) = 1
    BY <1>3, <1>4 DEF One
  <2>7. Cardinality(A) = 1
    BY <1>5, <1>6, <2>5, <2>6
  <2> QED
    BY <1>1, <1>2, <1>4, <1>7, <2>2, <2>3, <2>7
<1> QED
  BY <1>1, <1>2, <1>4, <1>6, <1>7

LEMMA PutMoreStep ==
  ASSUME LogKnown, Going, NEW t \in Logger, PutStores(t), logger[t].old - 1 # 0 PROVE LogInv'
<1>1. Turned(t) /\ copied.saved = copied'.saved /\ (t = "reader" => copied.saved = 0)
  BY PutTurns
<1>2. /\ logger[t].sec \in Slot /\ logger[t].sec \in taken /\ Uses(t, logger[t].sec) /\ ~freeing
      /\ logger[t].old \in Int /\ logger'[t].sec = "none"
  BY PutTurns
<1>3. PICK s, e, n : s = logger[t].sec /\ e = section[logger[t].sec] /\ n = logger[t].old - 1
  OBVIOUS
<1>4. e \in SectionSet /\ n \in Int /\ s \in Slot /\ n # 0
  <2>1. e \in SectionSet /\ s \in Slot
    BY <1>2, <1>3 DEF LogKnown, LogTyped
  <2>2. n \in Int /\ n # 0
    BY <1>2, <1>3
  <2> QED
    BY <2>1, <2>2
<1>5. PICK f : f = [e EXCEPT !.refcount = n]
  OBVIOUS
<1>6. f \in SectionSet /\ f.filled = e.filled /\ f.size = e.size /\ f.folded = e.folded /\ f.refcount = n
  BY <1>4, <1>5 DEF SectionSet
<1>7. section' = [section EXCEPT ![s] = f]
  BY <1>3, <1>4, <1>5 DEF PutStores
<1>8. /\ section' \in [Slot -> SectionSet] /\ section'[s] = f
      /\ \A x \in Slot : x # s => section'[x] = section[x]
  BY <1>4, <1>6, <1>7 DEF LogKnown, LogTyped
<1>9. /\ taken' = taken /\ chain' = chain /\ pointer' = pointer
      /\ totalFilled' = totalFilled /\ readWait' = readWait /\ freeing' = freeing /\ todo' = todo
      /\ copied' = copied
      /\ mishaps' = mishaps \union {x \in {"refcount"} : e.refcount # n + 1}
  <2>1. n + 1 = logger[t].old
    BY <1>2, <1>3
  <2>2. {x \in {"early free"} : logger[t].old - 1 = 0 /\ BeingMade(s)} = {}
    BY <1>3, <1>4
  <2> QED
    BY <1>3, <1>4, <2>1, <2>2 DEF PutStores, Sec
<1>10. LogTyped'
  <2>1. \A x \in Slot : section'[x].filled <= section'[x].size
    BY <1>3, <1>6, <1>8 DEF LogKnown, LogTyped
  <2>2. mishaps' \subseteq {"refcount", "pointer", "total", "early free"}
    <3>1. mishaps \subseteq {"refcount", "pointer", "total", "early free"}
      BY DEF LogKnown, LogTyped
    <3> QED
      BY <1>9, <3>1
  <2> QED
    BY <1>1, <1>8, <1>9, <2>1, <2>2 DEF LogKnown, LogTyped, Turned
<1>11. ASSUME Counted' PROVE Leaves(t)
  <2>1. e.refcount = n + 1 /\ e.refcount \in Int
    BY <1>4, <1>9, <1>11 DEF Counted, SectionSet
  <2>2. \A x \in Slot : section[x].refcount \in Int
    <3>1. \A x \in Slot : section[x] \in SectionSet
      BY DEF LogKnown, LogTyped
    <3> QED
      BY <3>1 DEF SectionSet
  <2>3. \A x \in Slot : One(Uses(t, x)) = IF x = s THEN 1 ELSE 0
    BY <1>2, <1>3 DEF One, Uses
  <2>4. \A x \in Slot : section'[x].refcount = section[x].refcount - One(Uses(t, x))
    BY <1>3, <1>4, <1>6, <1>8, <2>1, <2>2, <2>3
  <2>5. t = "reader" => Listed(s)
    <3>1. CASE BeingMade(s)
      <4>1. PICK w \in Writer : logger[w].sec = s /\ logger[w].new
        BY <3>1 DEF BeingMade
      <4>2. At(w) = "created" => logger["reader"].sec # s
        BY <4>1 DEF LogKnown, HolderKnown
      <4>3. s # "none"
        BY <1>4, DebugAssumption
      <4> QED
        BY <1>3, <4>1, <4>2, <4>3 DEF LogKnown, HolderKnown
    <3>2. CASE ~BeingMade(s)
      BY <1>2, <1>3, <1>4, <2>1, <3>2, LastIsReader
    <3> QED
      BY <3>1, <3>2
  <2> QED
    BY <1>3, <2>4, <2>5 DEF Leaves
<1>12. ListKnown'
  <2>1. logger'["reader"].sec = logger["reader"].sec \/ logger'["reader"].sec = "none"
    BY <1>1, <1>2 DEF Turned, Logger
  <2>2. \A x \in ToSet(todo) : x # "none"
    BY DebugAssumption, OnList DEF LogKnown, LogTyped
  <2>3. At("reader")' # "idle" \/ At("reader")' = At("reader")
    <3>1. CASE t = "reader"
      <4>1. logger'["reader"].at = "next"
        <5>1. logger' = [logger EXCEPT ![t] = [Idle EXCEPT !.at = "next"]] /\ logger \in [Logger -> LoggerSet]
          BY <3>1 DEF PutStores, LogKnown, LogTyped
        <5> QED
          BY <3>1, <5>1 DEF Idle
      <4> QED
        BY <4>1 DEF At
    <3>2. CASE t # "reader"
      BY <1>1, <3>2 DEF Turned, At, Logger
    <3> QED
      BY <3>1, <3>2
  <2> QED
    BY <1>9, <2>1, <2>2, <2>3 DEF LogKnown, ListKnown, Listed
<1>13. \A x \in Slot : section'[x].filled = section[x].filled /\ section'[x].folded = section[x].folded
  BY <1>3, <1>6, <1>8
<1> QED
  BY <1>1, <1>9, <1>10, <1>11, <1>12, <1>13, TurnsStep

LEMMA PutLastStep ==
  ASSUME LogKnown, Going, NEW t \in Logger, PutStores(t), logger[t].old - 1 = 0 PROVE LogInv'
<1>1. /\ Turned(t) /\ copied.saved = copied'.saved /\ PlaceKnown' /\ MutexKept'
  BY PutTurns
<1>2. /\ logger[t].sec \in Slot /\ logger[t].sec \in taken /\ Uses(t, logger[t].sec) /\ ~freeing
      /\ logger[t].old \in Int
  BY PutTurns
<1>3. PICK s : s = logger[t].sec
  OBVIOUS
<1>4. s \in Slot /\ s \in taken /\ Uses(t, s) /\ s # "none"
  BY <1>2, <1>3, DebugAssumption
<1>5. /\ section' = [section EXCEPT ![s] = NoSection] /\ taken' = taken \ {s} /\ chain' = chain
      /\ totalFilled' = totalFilled /\ readWait' = readWait /\ freeing' = freeing /\ todo' = todo
      /\ copied' = copied
      /\ mishaps' = mishaps \union {x \in {"refcount"} : section[s].refcount # logger[t].old}
                      \union {x \in {"early free"} : BeingMade(s)}
      /\ pointer' = IF t \in Writer THEN [pointer EXCEPT ![logger[t].ptr] = "none"] ELSE pointer
  BY <1>3 DEF PutStores, Sec
<1>6. NoSection \in SectionSet /\ NoSection.filled = 0 /\ NoSection.size = 0
  BY DebugAssumption DEF NoSection, SectionSet
<1>7. /\ section' \in [Slot -> SectionSet] /\ section'[s] = NoSection
      /\ \A x \in Slot : x # s => section'[x] = section[x]
  BY <1>4, <1>5, <1>6 DEF LogKnown, LogTyped
<1>8. LogTyped'
  <2>1. \A x \in Slot : section'[x].filled <= section'[x].size
    <3> SUFFICES ASSUME NEW x \in Slot PROVE section'[x].filled <= section'[x].size
      OBVIOUS
    <3>1. CASE x = s
      BY <1>6, <1>7, <3>1
    <3>2. CASE x # s
      BY <1>7, <3>2 DEF LogKnown, LogTyped
    <3> QED
      BY <3>1, <3>2
  <2>2. mishaps' \subseteq {"refcount", "pointer", "total", "early free"}
    <3>1. mishaps \subseteq {"refcount", "pointer", "total", "early free"}
      BY DEF LogKnown, LogTyped
    <3> QED
      BY <1>5, <3>1
  <2>3. pointer' \in [LogPtr -> Slot \union {"none"}]
    BY <1>5 DEF LogKnown, LogTyped
  <2>4. taken' \subseteq Slot
    BY <1>5 DEF LogKnown, LogTyped
  <2> QED
    BY <1>1, <1>5, <1>7, <2>1, <2>2, <2>3, <2>4 DEF LogKnown, LogTyped, Turned
<1>9. ASSUME Counted'
      PROVE  /\ ListKnown' /\ HolderKnown' /\ OffListKnown' /\ FoldedKnown' /\ PointerKnown'
             /\ FreedKnown' /\ TakenOut' /\ CountKnown' /\ TotalKnown' /\ NoneLost'
  <2>1. section[s].refcount = 1 /\ ~BeingMade(s)
    <3>1. section[s].refcount = logger[t].old /\ ~BeingMade(s)
      BY <1>5, <1>9 DEF Counted
    <3> QED
      BY <1>2, <3>1
  <2>2. t = "reader" /\ ~Listed(s) /\ t \notin Writer /\ \A w \in Writer : logger[w].sec # s
    BY <1>4, <2>1, LastIsReader, DebugAssumption
  <2>3. pointer' = pointer /\ \A x : Listed(x)' <=> Listed(x)
    BY <1>5, <2>2 DEF Listed
  <2>4. /\ \A w \in Writer : logger'[w] = logger[w] /\ At(w)' = At(w)
        /\ logger'[t].sec = "none"
        /\ At(t)' = "next"
    <3>1. logger'[t].sec = "none"
      BY PutTurns
    <3>2. logger' = [logger EXCEPT ![t] = [Idle EXCEPT !.at = "next"]] /\ logger \in [Logger -> LoggerSet]
      BY <2>2 DEF PutStores, LogKnown, LogTyped
    <3>3. At(t)' = "next"
      BY <3>2 DEF Idle, At
    <3> QED
      BY <1>1, <2>2, <3>1, <3>3 DEF Turned, At, Logger
  <2>5. \A x \in taken' : x \in taken /\ x # s /\ x \in Slot
    BY <1>5 DEF LogKnown, LogTyped
  <2>6. \A x : BeingMade(x)' <=> BeingMade(x)
    BY <2>4 DEF BeingMade
  <2>7. ListKnown'
    <3>1. \A x \in ToSet(chain') : x \in taken'
      BY <1>5, <2>2 DEF LogKnown, ListKnown, Listed
    <3>2. \A x \in ToSet(todo) : x # "none"
      BY DebugAssumption, OnList DEF LogKnown, LogTyped
    <3> QED
      BY <1>5, <2>2, <2>3, <2>4, <3>1, <3>2 DEF LogKnown, ListKnown
  <2>8. HolderKnown'
    <3>1. \A u \in Logger : logger'[u].sec # "none" => logger'[u].sec \in taken'
      BY <1>5, <2>2, <2>4 DEF LogKnown, HolderKnown, Logger
    <3>2. \A w \in Writer : logger'[w].sec # "none" => (logger'[w].sec \in ToSet(chain') <=> At(w)' # "created")
      BY <1>5, <2>4 DEF LogKnown, HolderKnown, Listed
    <3>3. \A w, v \in Writer : logger'[w].new /\ logger'[v].sec = logger'[w].sec => w = v
      BY <2>4 DEF LogKnown, HolderKnown
    <3>4. At("reader")' \notin AtSection \ {"put"}
      BY <2>2, <2>4 DEF AtSection
    <3>5. \A w \in Writer : At(w)' = "created" => logger'["reader"].sec # logger'[w].sec
      BY <2>2, <2>4 DEF LogKnown, PlaceKnown, AtSection, Logger
    <3> QED
      BY <3>1, <3>2, <3>3, <3>4, <3>5 DEF HolderKnown, Listed
  <2>9. OffListKnown'
    <3> SUFFICES ASSUME NEW x \in taken', ~Listed(x)
                 PROVE  /\ section'[x].filled = 0
                        /\ \/ logger'["reader"].sec = x
                           \/ \E w \in Writer : At(w)' = "created" /\ logger'[w].sec = x
      BY <2>3 DEF OffListKnown
    <3>1. x # s /\ x \in taken /\ x \in Slot /\ logger["reader"].sec # x
      BY <1>3, <2>2, <2>5
    <3> QED
      BY <1>7, <2>4, <3>1 DEF LogKnown, OffListKnown
  <2>10. FoldedKnown'
    BY <1>7, <2>3, <2>4, <2>5 DEF LogKnown, FoldedKnown
  <2>11. PointerKnown'
    <3>1. \A p \in LogPtr : pointer[p] # "none" =>
            /\ Listed(pointer[p])
            /\ \A q \in LogPtr : pointer[q] = pointer[p] => q = p
            /\ \A w \in Writer : logger[w].sec = pointer[p] => logger[w].ptr = p /\ ~logger[w].new
      BY <1>2 DEF LogKnown, PointerKnown
    <3>2. \A p \in LogPtr : pointer[p] # "none" => pointer[p] \in ToSet(chain')
      BY <1>5, <3>1 DEF Listed
    <3> QED
      BY <2>3, <2>4, <3>1, <3>2 DEF PointerKnown, Listed
  <2>12. FreedKnown' /\ TakenOut'
    BY <1>2, <1>5, <2>2, <2>4 DEF FreedKnown, TakenOut
  <2>13. CountKnown'
    <3> SUFFICES ASSUME NEW x \in taken'
                 PROVE  section'[x].refcount = Cardinality(Users(x))' + OwnerCounts(x)'
      BY DEF CountKnown
    <3>1. x # s /\ x \in taken /\ x \in Slot
      BY <2>5
    <3>2. section[x].refcount = Cardinality(Users(x)) + OwnerCounts(x) /\ section'[x] = section[x]
      BY <1>7, <3>1 DEF LogKnown, CountKnown
    <3>3. \A u \in Logger : u # t => (Uses(u, x)' <=> Uses(u, x))
      BY <1>1 DEF Turned, Uses, At
    <3>4. /\ Cardinality(Users(x))' = Cardinality(Users(x)) + One(Uses(t, x)') - One(Uses(t, x))
          /\ Cardinality(Users(x)) \in Nat
      BY <3>3, UsersMove
    <3>5. One(Uses(t, x)') = 0 /\ One(Uses(t, x)) = 0
      <4>1. ~Uses(t, x) /\ ~Uses(t, x)'
        BY <1>3, <2>4, <3>1, DebugAssumption DEF Uses
      <4> QED
        BY <4>1 DEF One
    <3>6. OwnerCounts(x)' = OwnerCounts(x)
      BY <2>3, <2>6 DEF OwnerCounts
    <3> QED
      BY <3>2, <3>4, <3>5, <3>6
  <2>14. TotalKnown'
    <3> SUFFICES ASSUME mishaps' \subseteq {"pointer"}
                 PROVE  totalFilled = FilledIn(section', taken') - Cardinality(AtTotal)' + copied.saved
      BY <1>5 DEF TotalKnown
    <3>1. totalFilled = FilledIn(section, taken) - Cardinality(AtTotal) + copied.saved
      BY <1>2 DEF LogKnown, TotalKnown, Going
    <3>2. section[s].filled = 0
      BY <1>4, <2>2 DEF LogKnown, OffListKnown
    <3>3. /\ section \in [Slot -> SectionSet] /\ section' \in [Slot -> SectionSet] /\ taken' \in SUBSET Slot
          /\ s \in Slot \ taken' /\ taken' \union {s} = taken
      <4>1. section \in [Slot -> SectionSet] /\ taken \in SUBSET Slot
        BY DEF LogKnown, LogTyped
      <4>2. taken' \union {s} = taken /\ s \notin taken'
        BY <1>4, <1>5
      <4> QED
        BY <1>4, <1>7, <4>1, <4>2, <2>5
    <3>4. FilledIn(section, taken' \union {s}) = FilledIn(section, taken') + 0 /\ FilledIn(section, taken') \in Nat
      BY <3>2, <3>3, FilledAdds
    <3>5. FilledIn(section', taken') = FilledIn(section, taken')
      BY <1>7, <2>5, <3>3, FilledSame
    <3>6. FilledIn(section', taken') = FilledIn(section, taken)
      <4>1. FilledIn(section, taken' \union {s}) = FilledIn(section, taken)
        BY <3>3
      <4> QED
        BY <3>4, <3>5, <4>1
    <3>7. AtTotal' = AtTotal
      BY <2>4 DEF AtTotal
    <3> QED
      BY <3>1, <3>6, <3>7
  <2>15. NoneLost'
    <3> SUFFICES ASSUME mishaps' = {}, NEW x \in ToSet(chain)
                 PROVE  section'[x].folded \/ BeingMade(x)' \/ \E p \in LogPtr : pointer[p] = x
      BY <1>5, <2>3 DEF NoneLost
    <3>1. mishaps = {} /\ x \in Slot /\ x # s
      BY <1>5, <2>2, OnList DEF LogKnown, LogTyped, Listed
    <3> QED
      BY <1>7, <2>6, <3>1 DEF LogKnown, NoneLost
  <2> QED
    BY <2>7, <2>8, <2>9, <2>10, <2>11, <2>12, <2>13, <2>14, <2>15
<1> QED
  BY <1>1, <1>8, <1>9 DEF LogInv

LEMMA CreateMakesStep ==
  ASSUME LogKnown, Going, NEW w \in Writer, NEW s \in Slot, s \notin taken, At(w) = "create",
         section' = [section EXCEPT ![s] = [NoSection EXCEPT !.size = StartSize]],
         taken' = taken \union {s},
         logger' = [logger EXCEPT ![w] = [@ EXCEPT !.at = "created", !.sec = s, !.new = TRUE]],
         UNCHANGED <<chain, pointer, totalFilled, readWait, freeing, todo, copied, mishaps>>
  PROVE  LogInv'
<1>0. w \in Logger /\ w # "reader" /\ "reader" \in Logger /\ "reader" \notin Writer
  BY DebugAssumption DEF Logger
<1>1. /\ chain' = chain /\ pointer' = pointer /\ totalFilled' = totalFilled /\ readWait' = readWait
      /\ freeing' = freeing /\ todo' = todo /\ copied' = copied /\ mishaps' = mishaps
  OBVIOUS
<1>2. s # "none" /\ logger[w].sec = "none" /\ ~logger[w].new /\ ~freeing /\ logger[w].ptr \in LogPtr
  BY <1>0, DebugAssumption DEF LogKnown, PlaceKnown, FreedKnown, AtSection
<1>3. PICK i, e : i = NoSection /\ e = [i EXCEPT !.size = StartSize]
  OBVIOUS
<1>4. e \in SectionSet /\ e.filled = 0 /\ e.size >= 0 /\ e.refcount = 0 /\ e.folded = FALSE
  <2>1. i \in SectionSet /\ i.filled = 0 /\ i.refcount = 0 /\ i.folded = FALSE
    BY <1>3, DebugAssumption DEF NoSection, SectionSet
  <2>2. StartSize \in 0..MaxSize /\ StartSize >= 0
    BY DebugAssumption
  <2> QED
    BY <1>3, <2>1, <2>2 DEF SectionSet
<1>5. section' = [section EXCEPT ![s] = e]
  BY <1>3
<1>6. /\ section' \in [Slot -> SectionSet] /\ section'[s] = e
      /\ \A x \in Slot : x # s => section'[x] = section[x]
  <2>1. section \in [Slot -> SectionSet]
    BY DEF LogKnown, LogTyped
  <2>2. e \in SectionSet
    BY <1>4
  <2> QED
    BY <1>5, <2>1, <2>2
<1>7. PICK r, q : r = logger[w] /\ q = [r EXCEPT !.at = "created", !.sec = s, !.new = TRUE]
  OBVIOUS
<1>8. q \in LoggerSet /\ q.at = "created" /\ q.sec = s /\ q.new = TRUE /\ q.ptr = r.ptr
  <2>1. r \in LoggerSet
    BY <1>0, <1>7 DEF LogKnown, LogTyped
  <2>2. "created" \in LogPlace
    BY DEF LogPlace, AtSection
  <2> QED
    BY <1>7, <2>1, <2>2 DEF LoggerSet
<1>9. logger' = [logger EXCEPT ![w] = q]
  BY <1>7
<1>10. /\ logger' \in [Logger -> LoggerSet] /\ logger'[w] = q /\ At(w)' = "created"
       /\ \A u \in Logger : u # w => logger'[u] = logger[u] /\ At(u)' = At(u)
  BY <1>0, <1>8, <1>9, ZenonT(60) DEF LogKnown, LogTyped, At
<1>11. /\ logger'[w].sec = s /\ logger'[w].new = TRUE /\ logger'[w].ptr \in LogPtr
  BY <1>2, <1>7, <1>8, <1>10
<1>12. LogTyped'
  <2>1. \A x \in Slot : section'[x].filled <= section'[x].size
    <3> SUFFICES ASSUME NEW x \in Slot PROVE section'[x].filled <= section'[x].size
      OBVIOUS
    <3>1. CASE x = s
      BY <1>4, <1>6, <3>1
    <3>2. CASE x # s
      BY <1>6, <3>2 DEF LogKnown, LogTyped
    <3> QED
      BY <3>1, <3>2
  <2>2. taken' \subseteq Slot
    BY DEF LogKnown, LogTyped
  <2> QED
    BY <1>1, <1>6, <1>10, <2>1, <2>2 DEF LogKnown, LogTyped
<1>13. \A v \in Writer : v \in Logger
  BY DEF Logger
<1>14. PlaceKnown'
  <2>1. \A u \in Logger : logger'[u].sec # "none" <=> At(u)' \in AtSection
    BY <1>2, <1>10, <1>11 DEF LogKnown, PlaceKnown, AtSection
  <2>2. \A v \in Writer : /\ At(v)' # "next"
                          /\ At(v)' # "idle" => logger'[v].ptr \in LogPtr
                          /\ logger'[v].new => At(v)' \in {"created", "found", "get", "wait"}
                          /\ At(v)' = "created" => logger'[v].new
    BY <1>10, <1>11, <1>13 DEF LogKnown, PlaceKnown
  <2>3. At("reader")' \notin {"create", "created"} /\ ~logger'["reader"].new
    BY <1>0, <1>10 DEF LogKnown, PlaceKnown
  <2>4. copied'.saved # 0 => At("reader")' = "total"
    BY <1>0, <1>1, <1>10 DEF LogKnown, PlaceKnown
  <2> QED
    BY <2>1, <2>2, <2>3, <2>4 DEF PlaceKnown
<1>15. MutexKept'
  <2>1. At(w)' \notin InMutex
    BY <1>10 DEF InMutex
  <2> QED
    BY <1>10, <2>1 DEF LogKnown, MutexKept
<1>16. \A u \in Logger : logger[u].sec # s
  BY <1>2 DEF LogKnown, HolderKnown
<1>17. ~Listed(s) /\ \A x : Listed(x)' <=> Listed(x)
  BY <1>1 DEF LogKnown, ListKnown, Listed
<1>18. /\ \A x : x \in taken' <=> x \in taken \/ x = s
       /\ \A x \in taken : x \in Slot /\ x # s
  BY DEF LogKnown, LogTyped
<1>19. BeingMade(s)' /\ \A x : x # s => (BeingMade(x)' <=> BeingMade(x))
  BY <1>0, <1>2, <1>10, <1>11, <1>13 DEF BeingMade
<1>20. ListKnown'
  <2>1. \A x \in ToSet(chain') : x \in taken'
    BY <1>1, <1>18 DEF LogKnown, ListKnown
  <2>2. Distinct(chain') /\ Distinct(todo') /\ (At("reader")' = "idle" => todo' = <<>>)
    BY <1>0, <1>1, <1>10 DEF LogKnown, ListKnown
  <2>3. \A x \in ToSet(todo') : Listed(x)' /\ x # logger'["reader"].sec
    BY <1>0, <1>1, <1>10, <1>17 DEF LogKnown, ListKnown
  <2> QED
    BY <2>1, <2>2, <2>3 DEF ListKnown
<1>21. HolderKnown'
  <2>1. \A u \in Logger : logger'[u].sec # "none" => logger'[u].sec \in taken'
    BY <1>10, <1>11, <1>18 DEF LogKnown, HolderKnown
  <2>2. \A v \in Writer : logger'[v].sec # "none" => (logger'[v].sec \in ToSet(chain') <=> At(v)' # "created")
    <3> SUFFICES ASSUME NEW v \in Writer, logger'[v].sec # "none"
                 PROVE  logger'[v].sec \in ToSet(chain') <=> At(v)' # "created"
      OBVIOUS
    <3>1. CASE v = w
      BY <1>1, <1>10, <1>11, <1>17, <3>1 DEF Listed
    <3>2. CASE v # w
      BY <1>1, <1>10, <1>13, <3>2 DEF LogKnown, HolderKnown, Listed
    <3> QED
      BY <3>1, <3>2
  <2>3. \A v, y \in Writer : logger'[v].new /\ logger'[y].sec = logger'[v].sec => v = y
    <3> SUFFICES ASSUME NEW v \in Writer, NEW y \in Writer, logger'[v].new,
                        logger'[y].sec = logger'[v].sec
                 PROVE  v = y
      OBVIOUS
    <3>1. CASE v = w
      BY <1>10, <1>11, <1>13, <1>16, <3>1
    <3>2. CASE v # w
      <4>1. y # w
        BY <1>10, <1>11, <1>13, <1>16, <3>2
      <4> QED
        BY <1>10, <1>13, <3>2, <4>1 DEF LogKnown, HolderKnown
    <3> QED
      BY <3>1, <3>2
  <2>4. At("reader")' \in AtSection \ {"put"} => logger'["reader"].sec \in ToSet(chain')
    BY <1>0, <1>1, <1>10 DEF LogKnown, HolderKnown, Listed
  <2>5. \A v \in Writer : At(v)' = "created" => logger'["reader"].sec # logger'[v].sec
    <3> SUFFICES ASSUME NEW v \in Writer, At(v)' = "created"
                 PROVE  logger'["reader"].sec # logger'[v].sec
      OBVIOUS
    <3>1. CASE v = w
      BY <1>0, <1>10, <1>11, <1>16, <3>1
    <3>2. CASE v # w
      BY <1>0, <1>10, <1>13, <3>2 DEF LogKnown, HolderKnown
    <3> QED
      BY <3>1, <3>2
  <2> QED
    BY <2>1, <2>2, <2>3, <2>4, <2>5 DEF HolderKnown, Listed
<1>22. OffListKnown'
  <2> SUFFICES ASSUME NEW x \in taken', ~Listed(x)
               PROVE  /\ section'[x].filled = 0
                      /\ \/ logger'["reader"].sec = x
                         \/ \E v \in Writer : At(v)' = "created" /\ logger'[v].sec = x
    BY <1>17 DEF OffListKnown
  <2>1. CASE x = s
    BY <1>4, <1>6, <1>10, <1>11, <2>1
  <2>2. CASE x # s
    <3>1. x \in taken /\ section'[x] = section[x]
      BY <1>6, <1>18, <2>2
    <3>2. \A v \in Writer : At(v) = "created" => v # w
      OBVIOUS
    <3> QED
      BY <1>0, <1>10, <1>13, <3>1, <3>2 DEF LogKnown, OffListKnown
  <2> QED
    BY <2>1, <2>2
<1>23. FoldedKnown'
  <2> SUFFICES ASSUME NEW x \in taken', section'[x].folded
               PROVE  /\ Listed(x)' /\ \A p \in LogPtr : pointer'[p] # x
                      /\ \A v \in Writer : logger'[v].sec # x
    BY DEF FoldedKnown
  <2>1. x # s
    BY <1>4, <1>6
  <2>2. x \in taken /\ section'[x] = section[x]
    BY <1>6, <1>18, <2>1
  <2>3. Listed(x) /\ \A p \in LogPtr : pointer[p] # x
    BY <2>2 DEF LogKnown, FoldedKnown
  <2>4. \A v \in Writer : logger[v].sec # x
    BY <2>2 DEF LogKnown, FoldedKnown
  <2> QED
    BY <1>1, <1>10, <1>11, <1>13, <1>17, <2>1, <2>3, <2>4
<1>24. PointerKnown'
  <2>1. \A p \in LogPtr : pointer[p] # "none" =>
          /\ Listed(pointer[p])
          /\ \A q1 \in LogPtr : pointer[q1] = pointer[p] => q1 = p
          /\ \A v \in Writer : logger[v].sec = pointer[p] => logger[v].ptr = p /\ ~logger[v].new
    BY <1>2 DEF LogKnown, PointerKnown
  <2>2. \A p \in LogPtr : pointer[p] # "none" => pointer[p] \in ToSet(chain') /\ pointer[p] # s
    BY <1>1, <1>17, <2>1 DEF Listed
  <2>3. \A v \in Writer : v # w => logger'[v] = logger[v]
    BY <1>10, <1>13
  <2> QED
    BY <1>1, <1>11, <2>1, <2>2, <2>3 DEF PointerKnown, Listed
<1>25. FreedKnown' /\ TakenOut'
  <2>1. At("reader")' = "total" => section'[logger'["reader"].sec].filled = 0
    <3> SUFFICES ASSUME At("reader") = "total" PROVE section'[logger["reader"].sec].filled = 0
      BY <1>0, <1>10
    <3>1. logger["reader"].sec \in taken
      BY <1>0 DEF LogKnown, PlaceKnown, HolderKnown, AtSection
    <3> QED
      BY <1>6, <1>18, <3>1 DEF LogKnown, TakenOut
  <2> QED
    BY <1>1, <1>2, <2>1 DEF FreedKnown, TakenOut
<1>26. CountKnown'
  <2> SUFFICES ASSUME NEW x \in taken'
               PROVE  section'[x].refcount = Cardinality(Users(x))' + OwnerCounts(x)'
    BY DEF CountKnown
  <2>1. CASE x = s
    <3>1. Users(s)' = {}
      <4> SUFFICES ASSUME NEW u \in Logger, logger'[u].sec = s, At(u)' \in {"wait", "locked", "total", "put"}
                   PROVE  FALSE
        BY DEF Users
      <4> QED
        BY <1>10, <1>16
    <3>2. OwnerCounts(s)' = 0
      BY <1>19 DEF OwnerCounts
    <3>3. Cardinality({}) = 0
      BY FS_EmptySet
    <3>4. Cardinality(Users(x))' = 0
      BY <2>1, <3>1, <3>3
    <3>5. OwnerCounts(x)' = 0
      BY <2>1, <3>2
    <3>6. section'[x].refcount = 0
      BY <1>4, <1>6, <2>1
    <3> QED
      BY <3>4, <3>5, <3>6
  <2>2. CASE x # s
    <3>1. x \in taken /\ section'[x] = section[x]
      BY <1>6, <1>18, <2>2
    <3>2. Users(x)' = Users(x)
      <4>1. \A u \in Logger : logger'[u].sec = x <=> logger[u].sec = x
        BY <1>2, <1>10, <1>11, <1>18, <2>2, <3>1, DebugAssumption, ZenonT(60) DEF LogKnown, LogTyped
      <4>2. \A u \in Logger : logger[u].sec = x => At(u)' = At(u)
        <5>1. logger[w].sec # x
          BY <1>2, <3>1, DebugAssumption DEF LogKnown, LogTyped
        <5> QED
          BY <1>10, <5>1
      <4> QED
        BY <4>1, <4>2 DEF Users
    <3>3. OwnerCounts(x)' = OwnerCounts(x)
      BY <1>17, <1>19, <2>2 DEF OwnerCounts
    <3> QED
      BY <3>1, <3>2, <3>3 DEF LogKnown, CountKnown
  <2> QED
    BY <2>1, <2>2
<1>27. TotalKnown'
  <2> SUFFICES ASSUME mishaps \subseteq {"pointer"}
               PROVE  totalFilled = FilledIn(section', taken') - Cardinality(AtTotal)' + copied.saved
    BY <1>1 DEF TotalKnown
  <2>1. totalFilled = FilledIn(section, taken) - Cardinality(AtTotal) + copied.saved
    BY <1>2 DEF LogKnown, TotalKnown
  <2>2. section \in [Slot -> SectionSet] /\ taken \in SUBSET Slot /\ s \in Slot \ taken
    BY DEF LogKnown, LogTyped
  <2>3. /\ FilledIn(section', taken') = FilledIn(section', taken) + section'[s].filled
        /\ FilledIn(section', taken) \in Nat
    BY <1>6, <2>2, FilledAdds
  <2>4. FilledIn(section', taken) = FilledIn(section, taken)
    <3>1. \A x \in taken : section'[x].filled = section[x].filled
      BY <1>6, <1>18
    <3>2. section' \in [Slot -> SectionSet]
      BY <1>6
    <3> QED
      BY <2>2, <3>1, <3>2, FilledSame, ZenonT(60)
  <2>5. FilledIn(section', taken') = FilledIn(section, taken)
    <3>1. section'[s].filled = 0
      BY <1>4, <1>6
    <3> QED
      BY <2>3, <2>4, <3>1
  <2>6. AtTotal' = AtTotal
    BY <1>10, <1>13 DEF AtTotal
  <2> QED
    BY <2>1, <2>5, <2>6
<1>28. NoneLost'
  <2> SUFFICES ASSUME mishaps = {}, NEW x \in ToSet(chain)
               PROVE  section'[x].folded \/ BeingMade(x)' \/ \E p \in LogPtr : pointer[p] = x
    BY <1>1 DEF NoneLost
  <2>1. x # s /\ x \in Slot
    BY <1>17, OnList DEF Listed, LogKnown, LogTyped
  <2>2. section'[x] = section[x] /\ (BeingMade(x)' <=> BeingMade(x))
    BY <1>6, <1>19, <2>1
  <2>3. section[x].folded \/ BeingMade(x) \/ \E p \in LogPtr : pointer[p] = x
    BY DEF LogKnown, NoneLost
  <2> QED
    BY <2>2, <2>3
<1> QED
  BY <1>12, <1>14, <1>15, <1>20, <1>21, <1>22, <1>23, <1>24, <1>25, <1>26, <1>27, <1>28 DEF LogInv

LEMMA LinkSectionStep ==
  ASSUME LogKnown, Going, NEW w \in Writer, LinkSection(w) PROVE LogInv'
<1>0. w \in Logger /\ w # "reader" /\ "reader" \in Logger /\ "reader" \notin Writer
  BY DebugAssumption DEF Logger
<1>1. /\ section' = section /\ taken' = taken /\ pointer' = pointer /\ totalFilled' = totalFilled
      /\ readWait' = readWait /\ freeing' = freeing /\ todo' = todo /\ copied' = copied
      /\ mishaps' = mishaps
  BY DEF LinkSection
<1>2. At(w) = "created" /\ logger[w].new /\ ~freeing
  BY <1>0 DEF LinkSection, LogKnown, PlaceKnown, FreedKnown
<1>3. At("reader") = "idle" /\ logger["reader"].sec = "none" /\ todo = <<>>
  BY <1>0 DEF LinkSection, DebugLocked, LogKnown, PlaceKnown, ListKnown, AtSection
<1>4. PICK s : s = logger[w].sec
  OBVIOUS
<1>5. s \in Slot /\ s \in taken /\ s # "none" /\ ~Listed(s)
  <2>1. s # "none"
    BY <1>0, <1>2, <1>4 DEF LogKnown, PlaceKnown, AtSection
  <2>2. s \in taken
    BY <1>0, <1>4, <2>1 DEF LogKnown, HolderKnown
  <2>3. ~Listed(s)
    BY <1>2, <1>4, <2>1 DEF LogKnown, HolderKnown
  <2> QED
    BY <2>1, <2>2, <2>3 DEF LogKnown, LogTyped
<1>6. \A v \in Writer : v # w => logger[v].sec # s
  BY <1>2, <1>4 DEF LogKnown, HolderKnown
<1>7. PICK r, q : r = logger[w] /\ q = [r EXCEPT !.at = "found"]
  OBVIOUS
<1>8. /\ q \in LoggerSet /\ q.at = "found" /\ q.sec = r.sec /\ q.new = r.new /\ q.ptr = r.ptr
  <2>1. r \in LoggerSet
    BY <1>0, <1>7 DEF LogKnown, LogTyped
  <2>2. "found" \in LogPlace
    BY DEF LogPlace, AtSection
  <2> QED
    BY <1>7, <2>1, <2>2 DEF LoggerSet
<1>9. logger' = [logger EXCEPT ![w] = q]
  BY <1>7 DEF LinkSection
<1>10. /\ logger' \in [Logger -> LoggerSet] /\ logger'[w] = q /\ At(w)' = "found"
       /\ \A u \in Logger : u # w => logger'[u] = logger[u] /\ At(u)' = At(u)
  BY <1>0, <1>8, <1>9 DEF LogKnown, LogTyped, At
<1>11. \A u \in Logger : /\ logger'[u].sec = logger[u].sec /\ logger'[u].ptr = logger[u].ptr
                         /\ logger'[u].new = logger[u].new
  BY <1>0, <1>7, <1>8, <1>10
<1>12. chain' = Append(chain, s) /\ chain \in Seq(Slot)
  BY <1>4 DEF LinkSection, LogKnown, LogTyped
<1>13. /\ chain' \in Seq(Slot) /\ Distinct(chain')
       /\ \A x : Listed(x)' <=> Listed(x) \/ x = s
  <2>1. Distinct(chain) /\ s \notin ToSet(chain)
    BY <1>5 DEF LogKnown, ListKnown, Listed
  <2> QED
    BY <1>5, <1>12, <2>1, AppendList DEF Listed
<1>14. \A v \in Writer : v \in Logger
  BY DEF Logger
<1>15. LogTyped'
  BY <1>1, <1>10, <1>13 DEF LogKnown, LogTyped
<1>16. PlaceKnown'
  <2>1. \A u \in Logger : logger'[u].sec # "none" <=> At(u)' \in AtSection
    BY <1>2, <1>10, <1>11 DEF LogKnown, PlaceKnown, AtSection
  <2>2. \A v \in Writer : /\ At(v)' # "next"
                          /\ At(v)' # "idle" => logger'[v].ptr \in LogPtr
                          /\ logger'[v].new => At(v)' \in {"created", "found", "get", "wait"}
                          /\ At(v)' = "created" => logger'[v].new
    BY <1>2, <1>10, <1>11, <1>14 DEF LogKnown, PlaceKnown
  <2>3. At("reader")' \notin {"create", "created"} /\ ~logger'["reader"].new
    BY <1>0, <1>10 DEF LogKnown, PlaceKnown
  <2>4. copied'.saved # 0 => At("reader")' = "total"
    BY <1>0, <1>1, <1>10 DEF LogKnown, PlaceKnown
  <2> QED
    BY <2>1, <2>2, <2>3, <2>4 DEF PlaceKnown
<1>17. MutexKept'
  <2>1. At(w)' \notin InMutex
    BY <1>10 DEF InMutex
  <2> QED
    BY <1>10, <2>1 DEF LogKnown, MutexKept
<1>18. \A x : BeingMade(x)' <=> BeingMade(x)
  BY <1>11, <1>14 DEF BeingMade
<1>19. ListKnown'
  <2>1. \A x \in ToSet(chain') : x \in taken'
    BY <1>1, <1>5, <1>13 DEF LogKnown, ListKnown, Listed
  <2>2. \A x : x \notin ToSet(todo')
    BY <1>1, <1>3, EmptyList
  <2> QED
    BY <1>1, <1>3, <1>13, <2>1, <2>2 DEF LogKnown, ListKnown
<1>20. HolderKnown'
  <2>1. \A u \in Logger : logger'[u].sec # "none" => logger'[u].sec \in taken'
    BY <1>1, <1>11 DEF LogKnown, HolderKnown
  <2>2. \A v \in Writer : logger'[v].sec # "none" => (logger'[v].sec \in ToSet(chain') <=> At(v)' # "created")
    <3> SUFFICES ASSUME NEW v \in Writer, logger'[v].sec # "none"
                 PROVE  logger'[v].sec \in ToSet(chain') <=> At(v)' # "created"
      OBVIOUS
    <3>1. CASE v = w
      BY <1>4, <1>10, <1>11, <1>13, <1>14, <3>1 DEF Listed
    <3>2. CASE v # w
      BY <1>6, <1>10, <1>13, <1>14, <3>2 DEF LogKnown, HolderKnown, Listed
    <3> QED
      BY <3>1, <3>2
  <2>3. \A v, y \in Writer : logger'[v].new /\ logger'[y].sec = logger'[v].sec => v = y
    BY <1>11, <1>14 DEF LogKnown, HolderKnown
  <2>4. At("reader")' \in AtSection \ {"put"} => logger'["reader"].sec \in ToSet(chain')
    BY <1>0, <1>3, <1>10 DEF AtSection
  <2>5. \A v \in Writer : At(v)' = "created" => logger'["reader"].sec # logger'[v].sec
    BY <1>0, <1>10, <1>14 DEF LogKnown, HolderKnown
  <2> QED
    BY <2>1, <2>2, <2>3, <2>4, <2>5 DEF HolderKnown, Listed
<1>21. OffListKnown'
  <2> SUFFICES ASSUME NEW x \in taken, x # s, ~Listed(x)
               PROVE  /\ section[x].filled = 0
                      /\ \/ logger'["reader"].sec = x
                         \/ \E v \in Writer : At(v)' = "created" /\ logger'[v].sec = x
    BY <1>1, <1>13 DEF OffListKnown
  <2>1. \A v \in Writer : logger[v].sec = x => v # w
    BY <1>4
  <2> QED
    BY <1>0, <1>10, <1>14, <2>1 DEF LogKnown, OffListKnown
<1>22. FoldedKnown'
  <2> SUFFICES ASSUME NEW x \in taken, section[x].folded
               PROVE  /\ Listed(x)' /\ \A p \in LogPtr : pointer[p] # x
                      /\ \A v \in Writer : logger'[v].sec # x
    BY <1>1 DEF FoldedKnown
  <2>1. Listed(x) /\ \A p \in LogPtr : pointer[p] # x
    BY DEF LogKnown, FoldedKnown
  <2>2. \A v \in Writer : logger[v].sec # x
    BY DEF LogKnown, FoldedKnown
  <2> QED
    BY <1>11, <1>13, <1>14, <2>1, <2>2
<1>23. PointerKnown'
  <2>1. \A p \in LogPtr : pointer[p] # "none" =>
          /\ Listed(pointer[p])
          /\ \A q1 \in LogPtr : pointer[q1] = pointer[p] => q1 = p
          /\ \A v \in Writer : logger[v].sec = pointer[p] => logger[v].ptr = p /\ ~logger[v].new
    BY <1>2 DEF LogKnown, PointerKnown
  <2>2. \A p \in LogPtr : pointer[p] # "none" => pointer[p] \in ToSet(chain')
    BY <1>13, <2>1 DEF Listed
  <2>3. \A v \in Writer : /\ logger'[v].sec = logger[v].sec /\ logger'[v].ptr = logger[v].ptr
                          /\ logger'[v].new = logger[v].new
    BY <1>11, <1>14
  <2> QED
    BY <1>1, <2>1, <2>2, <2>3 DEF PointerKnown, Listed
<1>24. FreedKnown' /\ TakenOut'
  BY <1>0, <1>1, <1>2, <1>3, <1>10 DEF FreedKnown, TakenOut
<1>25. CountKnown'
  <2> SUFFICES ASSUME NEW x \in taken
               PROVE  section[x].refcount = Cardinality(Users(x))' + OwnerCounts(x)'
    BY <1>1 DEF CountKnown
  <2>1. Users(x)' = Users(x)
    <3>1. \A u \in Logger : At(u)' \in Counting <=> At(u) \in Counting
      BY <1>2, <1>10 DEF Counting
    <3> QED
      BY <1>11, <3>1 DEF Users, Counting
  <2>2. OwnerCounts(x)' = OwnerCounts(x)
    <3>1. BeingMade(s)
      BY <1>2, <1>4 DEF BeingMade
    <3>2. CASE x = s
      BY <1>5, <1>18, <3>1, <3>2 DEF OwnerCounts
    <3>3. CASE x # s
      BY <1>13, <1>18, <3>3 DEF OwnerCounts
    <3> QED
      BY <3>2, <3>3
  <2> QED
    BY <2>1, <2>2 DEF LogKnown, CountKnown
<1>26. TotalKnown'
  <2>1. AtTotal' = AtTotal
    BY <1>2, <1>10, <1>14 DEF AtTotal
  <2> QED
    BY <1>1, <2>1 DEF LogKnown, TotalKnown
<1>27. NoneLost'
  <2> SUFFICES ASSUME mishaps = {}, NEW x \in ToSet(chain')
               PROVE  section[x].folded \/ BeingMade(x) \/ \E p \in LogPtr : pointer[p] = x
    BY <1>1, <1>18 DEF NoneLost
  <2>1. CASE x = s
    BY <1>2, <1>4, <2>1 DEF BeingMade
  <2>2. CASE x # s
    <3>1. x \in ToSet(chain)
      BY <1>13, <2>2 DEF Listed
    <3> QED
      BY <3>1 DEF LogKnown, NoneLost
  <2> QED
    BY <2>1, <2>2
<1> QED
  BY <1>15, <1>16, <1>17, <1>19, <1>20, <1>21, <1>22, <1>23, <1>24, <1>25, <1>26, <1>27 DEF LogInv

LEMMA GetLocksNewStep ==
  ASSUME LogKnown, Going, NEW w \in Logger, GetLocks(w), logger[w].new PROVE LogInv'
<1>0. w \in Writer /\ w # "reader" /\ "reader" \in Logger /\ "reader" \notin Writer
  BY DebugAssumption DEF Logger, LogKnown, PlaceKnown
<1>1. At(w) = "wait" /\ ~SectionLocked(logger[w].sec)
  BY DEF GetLocks
<1>2. PICK s, p, e : s = logger[w].sec /\ p = logger[w].ptr /\ e = section[s]
  OBVIOUS
<1>3. s \in Slot /\ s \in taken /\ Listed(s) /\ ~freeing /\ s # "none" /\ p \in LogPtr
  <2>1. p \in LogPtr
    BY <1>0, <1>1, <1>2 DEF LogKnown, PlaceKnown
  <2> QED
    BY <1>1, <1>2, <2>1, AlongKnows, DebugAssumption
<1>4. \A v \in Writer : v # w => logger[v].sec # s
  BY <1>0, <1>2 DEF LogKnown, HolderKnown
<1>5. PICK f : f = [e EXCEPT !.refcount = @ + 1]
  OBVIOUS
<1>6. /\ e \in SectionSet /\ f \in SectionSet /\ f.filled = e.filled /\ f.size = e.size
      /\ f.folded = e.folded /\ f.refcount = e.refcount + 1
  <2>1. e \in SectionSet
    BY <1>2, <1>3 DEF LogKnown, LogTyped
  <2> QED
    BY <1>5, <2>1 DEF SectionSet
<1>7. section' = [section EXCEPT ![s] = f]
  <2>1. section' = [section EXCEPT ![s].refcount = @ + 1]
    BY <1>2 DEF GetLocks
  <2> QED
    BY <1>2, <1>5, <2>1
<1>8. /\ section' \in [Slot -> SectionSet] /\ section'[s] = f
      /\ \A x \in Slot : x # s => section'[x] = section[x]
  <2>1. section \in [Slot -> SectionSet]
    BY DEF LogKnown, LogTyped
  <2> QED
    BY <1>3, <1>6, <1>7, <2>1
<1>9. /\ pointer' = [pointer EXCEPT ![p] = s] /\ taken' = taken /\ chain' = chain
      /\ totalFilled' = totalFilled /\ readWait' = readWait /\ freeing' = freeing /\ todo' = todo
      /\ copied' = copied
      /\ mishaps' = mishaps \union {x \in {"pointer"} : pointer[p] # "none"}
  BY <1>2 DEF GetLocks
<1>10. PICK r, q : r = logger[w] /\ q = [r EXCEPT !.at = "locked", !.new = FALSE]
  OBVIOUS
<1>11. /\ q \in LoggerSet /\ q.at = "locked" /\ q.sec = r.sec /\ q.new = FALSE /\ q.ptr = r.ptr
  <2>1. r \in LoggerSet
    BY <1>10 DEF LogKnown, LogTyped
  <2>2. "locked" \in LogPlace
    BY DEF LogPlace, AtSection
  <2> QED
    BY <1>10, <2>1, <2>2 DEF LoggerSet
<1>12. logger' = [logger EXCEPT ![w] = q]
  BY <1>10 DEF GetLocks
<1>13. /\ logger' \in [Logger -> LoggerSet] /\ logger'[w] = q /\ At(w)' = "locked"
       /\ \A u \in Logger : u # w => logger'[u] = logger[u] /\ At(u)' = At(u)
  BY <1>11, <1>12 DEF LogKnown, LogTyped, At
<1>14. \A u \in Logger : logger'[u].sec = logger[u].sec /\ logger'[u].ptr = logger[u].ptr
  BY <1>10, <1>11, <1>13
<1>15. (\A u \in Logger : u # w => logger'[u].new = logger[u].new) /\ ~logger'[w].new
  BY <1>11, <1>13
<1>16. (\A v \in Writer : v \in Logger) /\ \A x : Listed(x)' <=> Listed(x)
  BY <1>9 DEF Logger, Listed
<1>17. /\ pointer' \in [LogPtr -> Slot \union {"none"}] /\ pointer'[p] = s
       /\ \A y \in LogPtr : y # p => pointer'[y] = pointer[y]
  <2>1. pointer \in [LogPtr -> Slot \union {"none"}]
    BY DEF LogKnown, LogTyped
  <2> QED
    BY <1>3, <1>9, <2>1
<1>18. \A y \in LogPtr : pointer[y] # s
  BY <1>0, <1>2, <1>3 DEF LogKnown, PointerKnown
<1>19. LogTyped'
  <2>1. \A x \in Slot : section'[x].filled <= section'[x].size
    <3> SUFFICES ASSUME NEW x \in Slot PROVE section'[x].filled <= section'[x].size
      OBVIOUS
    <3>1. section[x].filled <= section[x].size
      BY DEF LogKnown, LogTyped
    <3>2. section'[x].filled = section[x].filled /\ section'[x].size = section[x].size
      BY <1>2, <1>6, <1>8
    <3> QED
      BY <3>1, <3>2
  <2>2. mishaps' \subseteq {"refcount", "pointer", "total", "early free"}
    <3>1. mishaps \subseteq {"refcount", "pointer", "total", "early free"}
      BY DEF LogKnown, LogTyped
    <3> QED
      BY <1>9, <3>1
  <2> QED
    BY <1>8, <1>9, <1>13, <1>17, <2>1, <2>2 DEF LogKnown, LogTyped
<1>20. PlaceKnown'
  <2>1. \A u \in Logger : logger'[u].sec # "none" <=> At(u)' \in AtSection
    BY <1>1, <1>13, <1>14 DEF LogKnown, PlaceKnown, AtSection
  <2>2. \A v \in Writer : /\ At(v)' # "next"
                          /\ At(v)' # "idle" => logger'[v].ptr \in LogPtr
                          /\ logger'[v].new => At(v)' \in {"created", "found", "get", "wait"}
                          /\ At(v)' = "created" => logger'[v].new
    BY <1>2, <1>3, <1>13, <1>14, <1>15, <1>16 DEF LogKnown, PlaceKnown
  <2>3. At("reader")' \notin {"create", "created"} /\ ~logger'["reader"].new
    BY <1>0, <1>13 DEF LogKnown, PlaceKnown
  <2>4. copied'.saved # 0 => At("reader")' = "total"
    BY <1>0, <1>9, <1>13 DEF LogKnown, PlaceKnown
  <2> QED
    BY <2>1, <2>2, <2>3, <2>4 DEF PlaceKnown
<1>21. MutexKept'
  <2>1. \A u \in Logger : u # w /\ At(u)' \in InMutex => logger'[u].sec # s
    BY <1>1, <1>2, <1>13 DEF SectionLocked, InMutex
  <2>2. logger'[w].sec = s
    BY <1>2, <1>14
  <2>3. \A u \in Logger : u # w => logger'[u] = logger[u] /\ At(u)' = At(u)
    BY <1>13
  <2> SUFFICES ASSUME NEW t \in Logger, NEW u \in Logger, At(t)' \in InMutex, At(u)' \in InMutex,
                      logger'[t].sec = logger'[u].sec
               PROVE  t = u
    BY DEF MutexKept
  <2>4. CASE t = w \/ u = w
    BY <2>1, <2>2, <2>4
  <2>5. CASE t # w /\ u # w
    BY <2>3, <2>5 DEF LogKnown, MutexKept
  <2> QED
    BY <2>4, <2>5
<1>22. ~BeingMade(s)' /\ BeingMade(s) /\ \A x : x # s => (BeingMade(x)' <=> BeingMade(x))
  BY <1>0, <1>2, <1>4, <1>14, <1>15, <1>16 DEF BeingMade
<1>23. ListKnown'
  <2>1. \A x \in ToSet(chain') : x \in taken'
    BY <1>9 DEF LogKnown, ListKnown
  <2>2. Distinct(chain') /\ Distinct(todo') /\ (At("reader")' = "idle" => todo' = <<>>)
    BY <1>0, <1>9, <1>13 DEF LogKnown, ListKnown
  <2>3. \A x \in ToSet(todo') : Listed(x)' /\ x # logger'["reader"].sec
    BY <1>0, <1>9, <1>14, <1>16 DEF LogKnown, ListKnown
  <2> QED
    BY <2>1, <2>2, <2>3 DEF ListKnown
<1>24. HolderKnown'
  <2>1. \A u \in Logger : logger'[u].sec # "none" => logger'[u].sec \in taken'
    BY <1>9, <1>14 DEF LogKnown, HolderKnown
  <2>2. \A v \in Writer : logger'[v].sec # "none" => (logger'[v].sec \in ToSet(chain') <=> At(v)' # "created")
    <3>1. \A v \in Writer : At(v)' = "created" <=> At(v) = "created"
      BY <1>1, <1>13, <1>16
    <3> QED
      BY <1>9, <1>14, <1>16, <3>1 DEF LogKnown, HolderKnown, Listed
  <2>3. \A v, y \in Writer : logger'[v].new /\ logger'[y].sec = logger'[v].sec => v = y
    BY <1>14, <1>15, <1>16 DEF LogKnown, HolderKnown
  <2>4. At("reader")' \in AtSection \ {"put"} => logger'["reader"].sec \in ToSet(chain')
    BY <1>0, <1>9, <1>13 DEF LogKnown, HolderKnown, Listed
  <2>5. \A v \in Writer : At(v)' = "created" => logger'["reader"].sec # logger'[v].sec
    BY <1>0, <1>13, <1>16 DEF LogKnown, HolderKnown
  <2> QED
    BY <2>1, <2>2, <2>3, <2>4, <2>5 DEF HolderKnown, Listed
<1>25. \A x \in Slot : section'[x].filled = section[x].filled /\ section'[x].folded = section[x].folded
  BY <1>2, <1>6, <1>8
<1>26. \A x \in taken : x \in Slot
  BY DEF LogKnown, LogTyped
<1>27. OffListKnown'
  <2> SUFFICES ASSUME NEW x \in taken, ~Listed(x)
               PROVE  /\ section'[x].filled = 0
                      /\ \/ logger'["reader"].sec = x
                         \/ \E v \in Writer : At(v)' = "created" /\ logger'[v].sec = x
    BY <1>9, <1>16 DEF OffListKnown
  <2>1. \A v \in Writer : At(v) = "created" => v # w
    BY <1>1
  <2>2. /\ section[x].filled = 0
        /\ \/ logger["reader"].sec = x
           \/ \E v \in Writer : At(v) = "created" /\ logger[v].sec = x
    BY DEF LogKnown, OffListKnown
  <2> QED
    BY <1>0, <1>13, <1>16, <1>25, <1>26, <2>1, <2>2
<1>28. FoldedKnown'
  <2> SUFFICES ASSUME NEW x \in taken, section'[x].folded
               PROVE  /\ Listed(x)' /\ \A y \in LogPtr : pointer'[y] # x
                      /\ \A v \in Writer : logger'[v].sec # x
    BY <1>9 DEF FoldedKnown
  <2>1. section[x].folded
    BY <1>25, <1>26
  <2>2. Listed(x) /\ \A y \in LogPtr : pointer[y] # x
    BY <2>1 DEF LogKnown, FoldedKnown
  <2>3. \A v \in Writer : logger[v].sec # x
    BY <2>1 DEF LogKnown, FoldedKnown
  <2>4. x # s
    BY <1>0, <1>2, <2>3
  <2> QED
    BY <1>14, <1>16, <1>17, <2>2, <2>3, <2>4
<1>29. PointerKnown'
  <2>1. \A y \in LogPtr : pointer[y] # "none" =>
          /\ Listed(pointer[y])
          /\ \A q1 \in LogPtr : pointer[q1] = pointer[y] => q1 = y
          /\ \A v \in Writer : logger[v].sec = pointer[y] => logger[v].ptr = y /\ ~logger[v].new
    BY <1>3 DEF LogKnown, PointerKnown
  <2> SUFFICES ASSUME NEW y \in LogPtr, pointer'[y] # "none"
               PROVE  /\ pointer'[y] \in ToSet(chain)
                      /\ \A q1 \in LogPtr : pointer'[q1] = pointer'[y] => q1 = y
                      /\ \A v \in Writer : logger'[v].sec = pointer'[y] => logger'[v].ptr = y /\ ~logger'[v].new
    BY <1>9 DEF PointerKnown, Listed
  <2>2. CASE y = p
    <3>1. pointer'[y] = s /\ s \in ToSet(chain)
      BY <1>3, <1>17, <2>2 DEF Listed
    <3>2. \A q1 \in LogPtr : pointer'[q1] = s => q1 = p
      BY <1>17, <1>18
    <3>3. \A v \in Writer : logger'[v].sec = s => v = w
      BY <1>4, <1>14, <1>16
    <3>4. logger'[w].ptr = p /\ ~logger'[w].new
      BY <1>2, <1>14, <1>15
    <3> QED
      BY <2>2, <3>1, <3>2, <3>3, <3>4
  <2>3. CASE y # p
    <3>1. pointer'[y] = pointer[y] /\ pointer[y] # s /\ pointer[y] \in ToSet(chain)
      BY <1>17, <1>18, <2>1, <2>3 DEF Listed
    <3>2. \A q1 \in LogPtr : pointer'[q1] = pointer[y] => q1 = y
      BY <1>17, <2>1, <2>3, <3>1
    <3>3. \A v \in Writer : logger'[v].sec = pointer[y] => v # w /\ logger[v].sec = pointer[y]
      BY <1>2, <1>14, <1>16, <3>1
    <3>4. \A v \in Writer : logger[v].sec = pointer[y] => logger[v].ptr = y /\ ~logger[v].new
      BY <1>17, <2>1, <2>3
    <3> QED
      BY <1>14, <1>15, <1>16, <3>1, <3>2, <3>3, <3>4
  <2> QED
    BY <2>2, <2>3
<1>30. FreedKnown' /\ TakenOut'
  <2>1. At("reader")' = "total" => section'[logger'["reader"].sec].filled = 0
    <3> SUFFICES ASSUME At("reader") = "total" PROVE section'[logger["reader"].sec].filled = 0
      BY <1>0, <1>13
    <3>1. logger["reader"].sec \in taken
      BY <1>0 DEF LogKnown, PlaceKnown, HolderKnown, AtSection
    <3> QED
      BY <1>25, <1>26, <3>1 DEF LogKnown, TakenOut
  <2> QED
    BY <1>3, <1>9, <2>1 DEF FreedKnown, TakenOut
<1>31. CountKnown'
  <2> SUFFICES ASSUME NEW x \in taken
               PROVE  section'[x].refcount = Cardinality(Users(x))' + OwnerCounts(x)'
    BY <1>9 DEF CountKnown
  <2>1. Users(x)' = Users(x)
    <3>1. \A u \in Logger : At(u)' \in Counting <=> At(u) \in Counting
      BY <1>1, <1>13 DEF Counting
    <3> QED
      BY <1>14, <3>1 DEF Users, Counting
  <2>2. section[x].refcount = Cardinality(Users(x)) + OwnerCounts(x)
    BY DEF LogKnown, CountKnown
  <2>3. CASE x = s
    <3>1. OwnerCounts(x) = 0 /\ OwnerCounts(x)' = 1
      BY <1>3, <1>16, <1>22, <2>3 DEF OwnerCounts
    <3>2. section'[x].refcount = section[x].refcount + 1
      BY <1>2, <1>6, <1>8, <2>3
    <3>3. Cardinality(Users(x)) \in Nat
      <4>1. Users(x) \in SUBSET Logger
        BY DEF Users
      <4> QED
        BY <4>1, LoggersFinite
    <3> QED
      BY <2>1, <2>2, <3>1, <3>2, <3>3
  <2>4. CASE x # s
    <3>1. OwnerCounts(x)' = OwnerCounts(x)
      BY <1>16, <1>22, <2>4 DEF OwnerCounts
    <3>2. section'[x] = section[x]
      BY <1>8, <1>26, <2>4
    <3> QED
      BY <2>1, <2>2, <3>1, <3>2
  <2> QED
    BY <2>3, <2>4
<1>32. TotalKnown'
  <2> SUFFICES ASSUME mishaps' \subseteq {"pointer"}
               PROVE  totalFilled = FilledIn(section', taken) - Cardinality(AtTotal)' + copied.saved
    BY <1>9 DEF TotalKnown
  <2>1. totalFilled = FilledIn(section, taken) - Cardinality(AtTotal) + copied.saved
    BY <1>3, <1>9 DEF LogKnown, TotalKnown
  <2>2. AtTotal' = AtTotal
    BY <1>1, <1>13, <1>16 DEF AtTotal
  <2>3. FilledIn(section', taken) = FilledIn(section, taken)
    <3>1. section \in [Slot -> SectionSet] /\ taken \in SUBSET Slot
      BY DEF LogKnown, LogTyped
    <3>2. \A x \in taken : section'[x].filled = section[x].filled
      BY <1>25, <1>26
    <3> QED
      BY <1>8, <3>1, <3>2, FilledSame
  <2> QED
    BY <2>1, <2>2, <2>3
<1>33. NoneLost'
  <2> SUFFICES ASSUME mishaps' = {}, NEW x \in ToSet(chain)
               PROVE  section'[x].folded \/ BeingMade(x)' \/ \E y \in LogPtr : pointer'[y] = x
    BY <1>9 DEF NoneLost
  <2>1. mishaps = {} /\ pointer[p] = "none"
    BY <1>9
  <2>2. x \in Slot /\ x # "none"
    BY OnList, DebugAssumption DEF LogKnown, LogTyped
  <2>3. CASE x = s
    BY <1>3, <1>17, <2>3
  <2>4. CASE x # s
    <3>1. section[x].folded \/ BeingMade(x) \/ \E y \in LogPtr : pointer[y] = x
      BY <2>1 DEF LogKnown, NoneLost
    <3>2. \A y \in LogPtr : pointer[y] = x => pointer'[y] = x
      BY <1>17, <2>1, <2>2
    <3> QED
      BY <1>22, <1>25, <2>2, <2>4, <3>1, <3>2
  <2> QED
    BY <2>3, <2>4
<1> QED
  BY <1>19, <1>20, <1>21, <1>23, <1>24, <1>27, <1>28, <1>29, <1>30, <1>31, <1>32, <1>33 DEF LogInv

LEMMA FoldSectionStep ==
  ASSUME LogKnown, Going, NEW p \in LogHandle \intersect LogPtr, FoldSection(p) PROVE LogInv'
<1>0. "reader" \in Logger /\ (\A v \in Writer : v \in Logger) /\ p \in LogPtr
  BY DEF Logger
<1>1. /\ taken' = taken /\ chain' = chain /\ totalFilled' = totalFilled
      /\ readWait' = readWait /\ freeing' = freeing /\ todo' = todo /\ copied' = copied
      /\ mishaps' = mishaps /\ logger' = logger
  BY DEF FoldSection
<1>2. pointer[p] # "none" /\ ~freeing /\ \A w \in Writer : logger[w].ptr # p
  BY DEF FoldSection, LogKnown, FreedKnown
<1>3. At("reader") = "idle"
  BY DEF FoldSection, DebugLocked
<1>4. PICK s, e : s = pointer[p] /\ e = section[s]
  OBVIOUS
<1>5. s \in Slot /\ s \in taken /\ Listed(s) /\ s # "none"
  <2>1. s # "none" /\ Listed(s)
    BY <1>0, <1>2, <1>4 DEF LogKnown, PointerKnown
  <2>2. s \in taken
    BY <2>1 DEF LogKnown, ListKnown, Listed
  <2> QED
    BY <2>1, <2>2 DEF LogKnown, LogTyped
<1>6. /\ \A w \in Writer : logger[w].sec # s
      /\ \A y \in LogPtr : pointer[y] = s => y = p
  BY <1>0, <1>2, <1>4 DEF LogKnown, PointerKnown
<1>7. PICK size \in {e.filled, e.size} :
        section' = [section EXCEPT ![s] = [@ EXCEPT !.size = size, !.folded = TRUE]]
  BY <1>4 DEF FoldSection
<1>8. PICK f : f = [e EXCEPT !.size = size, !.folded = TRUE]
  OBVIOUS
<1>9. e \in SectionSet /\ e.filled <= e.size
  BY <1>4, <1>5 DEF LogKnown, LogTyped
<1>10. /\ f \in SectionSet /\ f.filled = e.filled /\ f.folded = TRUE /\ f.refcount = e.refcount
       /\ f.size = size
  BY <1>7, <1>8, <1>9 DEF SectionSet
<1>11. /\ section' \in [Slot -> SectionSet] /\ section'[s] = f
       /\ \A x \in Slot : x # s => section'[x] = section[x]
  <2>1. section \in [Slot -> SectionSet] /\ section' = [section EXCEPT ![s] = f]
    BY <1>4, <1>7, <1>8 DEF LogKnown, LogTyped
  <2> QED
    BY <1>5, <1>10, <2>1
<1>12. \A x \in Slot : /\ section'[x].filled = section[x].filled
                       /\ section'[x].refcount = section[x].refcount
                       /\ section[x].folded => section'[x].folded
  BY <1>4, <1>10, <1>11
<1>13. /\ pointer' \in [LogPtr -> Slot \union {"none"}] /\ pointer'[p] = "none"
       /\ \A y \in LogPtr : y # p => pointer'[y] = pointer[y]
  <2>1. pointer \in [LogPtr -> Slot \union {"none"}] /\ pointer' = [pointer EXCEPT ![p] = "none"]
    BY DEF LogKnown, LogTyped, FoldSection
  <2> QED
    BY <1>0, <2>1
<1>14. \A x \in taken : x \in Slot
  BY DEF LogKnown, LogTyped
<1>15. LogTyped'
  <2>1. \A x \in Slot : section'[x].filled <= section'[x].size
    <3> SUFFICES ASSUME NEW x \in Slot PROVE section'[x].filled <= section'[x].size
      OBVIOUS
    <3>1. CASE x = s
      <4>1. e.filled \in Int
        BY <1>9 DEF SectionSet
      <4>2. section'[x].filled = e.filled /\ section'[x].size = size
        BY <1>10, <1>11, <3>1
      <4> QED
        BY <1>7, <1>9, <4>1, <4>2
    <3>2. CASE x # s
      BY <1>11, <3>2 DEF LogKnown, LogTyped
    <3> QED
      BY <3>1, <3>2
  <2> QED
    BY <1>1, <1>11, <1>13, <2>1 DEF LogKnown, LogTyped
<1>16. PlaceKnown'
  BY <1>1 DEF LogKnown, PlaceKnown, At
<1>17. MutexKept'
  BY <1>1 DEF LogKnown, MutexKept, At
<1>18. \A x : (Listed(x)' <=> Listed(x)) /\ (BeingMade(x)' <=> BeingMade(x)) /\ Users(x)' = Users(x)
  BY <1>1 DEF Listed, BeingMade, Users, At
<1>19. ListKnown'
  BY <1>1 DEF LogKnown, ListKnown, Listed, At
<1>20. HolderKnown'
  BY <1>1 DEF LogKnown, HolderKnown, Listed, At
<1>21. OffListKnown'
  BY <1>1, <1>12, <1>14 DEF LogKnown, OffListKnown, Listed, At
<1>22. FoldedKnown'
  <2> SUFFICES ASSUME NEW x \in taken, section'[x].folded
               PROVE  /\ Listed(x) /\ \A y \in LogPtr : pointer'[y] # x
                      /\ \A v \in Writer : logger[v].sec # x
    BY <1>1, <1>18 DEF FoldedKnown
  <2>1. x # "none"
    BY <1>14, DebugAssumption
  <2>2. CASE x = s
    BY <1>5, <1>6, <1>13, <2>2
  <2>3. CASE x # s
    <3>1. section[x].folded
      BY <1>11, <1>14, <2>3
    <3>2. Listed(x) /\ \A y \in LogPtr : pointer[y] # x
      BY <3>1 DEF LogKnown, FoldedKnown
    <3>3. \A v \in Writer : logger[v].sec # x
      BY <3>1 DEF LogKnown, FoldedKnown
    <3> QED
      BY <1>13, <2>1, <3>2, <3>3
  <2> QED
    BY <2>2, <2>3
<1>23. PointerKnown'
  <2>1. \A y \in LogPtr : pointer[y] # "none" =>
          /\ Listed(pointer[y])
          /\ \A q1 \in LogPtr : pointer[q1] = pointer[y] => q1 = y
          /\ \A v \in Writer : logger[v].sec = pointer[y] => logger[v].ptr = y /\ ~logger[v].new
    BY <1>2 DEF LogKnown, PointerKnown
  <2>2. \A y \in LogPtr : pointer'[y] # "none" => y # p /\ pointer'[y] = pointer[y]
    BY <1>13
  <2>3. \A y \in LogPtr : pointer'[y] # "none" => pointer'[y] \in ToSet(chain)
    BY <2>1, <2>2 DEF Listed
  <2> QED
    BY <1>1, <2>1, <2>2, <2>3 DEF PointerKnown, Listed
<1>24. FreedKnown' /\ TakenOut'
  BY <1>1, <1>2, <1>3 DEF FreedKnown, TakenOut, At
<1>25. CountKnown'
  BY <1>1, <1>12, <1>14, <1>18 DEF LogKnown, CountKnown, OwnerCounts
<1>26. TotalKnown'
  <2>1. FilledIn(section', taken) = FilledIn(section, taken)
    <3>1. section \in [Slot -> SectionSet] /\ taken \in SUBSET Slot
      BY DEF LogKnown, LogTyped
    <3>2. \A x \in taken : section'[x].filled = section[x].filled
      BY <1>12, <1>14
    <3> QED
      BY <1>11, <3>1, <3>2, FilledSame
  <2>2. AtTotal' = AtTotal
    BY <1>1 DEF AtTotal, At
  <2> QED
    BY <1>1, <2>1, <2>2 DEF LogKnown, TotalKnown
<1>27. NoneLost'
  <2> SUFFICES ASSUME mishaps = {}, NEW x \in ToSet(chain)
               PROVE  section'[x].folded \/ BeingMade(x) \/ \E y \in LogPtr : pointer'[y] = x
    BY <1>1, <1>18 DEF NoneLost
  <2>1. x \in Slot
    BY OnList DEF LogKnown, LogTyped
  <2>2. CASE x = s
    BY <1>10, <1>11, <2>2
  <2>3. CASE x # s
    <3>1. section[x].folded \/ BeingMade(x) \/ \E y \in LogPtr : pointer[y] = x
      BY DEF LogKnown, NoneLost
    <3>2. \A y \in LogPtr : pointer[y] = x => pointer'[y] = x
      BY <1>4, <1>13, <2>3
    <3> QED
      BY <1>12, <2>1, <3>1, <3>2
  <2> QED
    BY <2>2, <2>3
<1> QED
  BY <1>15, <1>16, <1>17, <1>19, <1>20, <1>21, <1>22, <1>23, <1>24, <1>25, <1>26, <1>27 DEF LogInv

LEMMA DebugFreeStep == ASSUME LogKnown, Going, DebugFree PROVE LogInv'
<1>0. "reader" \in Logger /\ (\A v \in Writer : v \in Logger)
  BY DEF Logger
<1>1. /\ section' = section /\ pointer' = pointer /\ totalFilled' = totalFilled
      /\ readWait' = readWait /\ todo' = todo /\ copied' = copied /\ mishaps' = mishaps
      /\ logger' = logger /\ freeing' = TRUE /\ chain' = <<>>
      /\ taken' = {s \in taken : ~Listed(s) \/ section[s].refcount # 1}
  BY DEF DebugFree, Listed
<1>2. \A t \in Logger : At(t) = "idle" /\ logger[t].sec = "none" /\ ~logger[t].new
  <2>1. \A t \in Logger : At(t) = "idle"
    BY DEF DebugFree
  <2>2. \A t \in Logger : logger[t].sec = "none"
    BY <2>1 DEF LogKnown, PlaceKnown, AtSection
  <2>3. \A t \in Logger : ~logger[t].new
    BY <2>1 DEF LogKnown, PlaceKnown, Logger
  <2> QED
    BY <2>1, <2>2, <2>3
<1>3. ASSUME NEW s \in taken PROVE Listed(s) /\ section[s].refcount = 1
  <2>1. s # "none"
    BY DebugAssumption DEF LogKnown, LogTyped
  <2>2. Listed(s)
    BY <1>0, <1>2, <2>1 DEF LogKnown, OffListKnown
  <2>3. Users(s) = {} /\ ~BeingMade(s)
    BY <1>0, <1>2, <2>1 DEF Users, BeingMade
  <2>4. OwnerCounts(s) = 1
    BY <2>2, <2>3 DEF OwnerCounts
  <2>5. Cardinality(Users(s)) = 0
    BY <2>3, FS_EmptySet
  <2>6. section[s].refcount = Cardinality(Users(s)) + OwnerCounts(s)
    BY DEF LogKnown, CountKnown
  <2> QED
    BY <2>2, <2>4, <2>5, <2>6
<1>4. taken' = {}
  BY <1>1, <1>3
<1>5. /\ chain' \in Seq(Slot) /\ Distinct(chain') /\ \A x : x \notin ToSet(chain')
  BY <1>1, EmptyList
<1>6. todo' = <<>> /\ \A x : x \notin ToSet(todo')
  <2>1. todo = <<>>
    BY <1>0, <1>2 DEF LogKnown, ListKnown
  <2> QED
    BY <1>1, <2>1, EmptyList
<1>7. LogTyped'
  BY <1>1, <1>4, <1>5 DEF LogKnown, LogTyped
<1>8. PlaceKnown' /\ MutexKept'
  <2>1. PlaceKnown'
    BY <1>1 DEF LogKnown, PlaceKnown, At
  <2>2. MutexKept'
    BY <1>1 DEF LogKnown, MutexKept, At
  <2> QED
    BY <2>1, <2>2
<1>9. ListKnown'
  BY <1>5, <1>6, EmptyList DEF ListKnown
<1>10. HolderKnown'
  <2>1. \A t \in Logger : At(t)' = "idle" /\ logger'[t].sec = "none" /\ ~logger'[t].new
    BY <1>1, <1>2 DEF At
  <2> QED
    BY <1>0, <2>1 DEF HolderKnown, AtSection
<1>11. OffListKnown' /\ FoldedKnown' /\ CountKnown'
  BY <1>4 DEF OffListKnown, FoldedKnown, CountKnown
<1>12. PointerKnown' /\ TotalKnown' /\ NoneLost'
  BY <1>1, <1>5 DEF PointerKnown, TotalKnown, NoneLost
<1>13. FreedKnown' /\ TakenOut'
  <2>1. \A p \in LogHandle \intersect LogPtr : pointer[p] = "none"
    BY DEF DebugFree
  <2>2. \A t \in Logger : At(t)' = "idle"
    BY <1>1, <1>2 DEF At
  <2> QED
    BY <1>0, <1>1, <1>4, <2>1, <2>2 DEF FreedKnown, TakenOut
<1> QED
  BY <1>7, <1>8, <1>9, <1>10, <1>11, <1>12, <1>13 DEF LogInv

LEMMA LogStarts == DebugInit => LogInv
<1> SUFFICES ASSUME DebugInit PROVE LogInv
  OBVIOUS
<1>0. "reader" \in Logger /\ (\A v \in Writer : v \in Logger) /\ Idle \in LoggerSet
  BY IdleIs DEF Logger
<1>1. PICK e, i : e = NoSection /\ i = Idle
  OBVIOUS
<1>2. e \in SectionSet /\ e.filled = 0 /\ e.size = 0
  BY <1>1, DebugAssumption DEF NoSection, SectionSet
<1>3. i \in LoggerSet /\ i.at = "idle" /\ i.sec = "none" /\ i.new = FALSE
  BY <1>1, IdleIs
<1>4. /\ section = [s \in Slot |-> e] /\ taken = {} /\ chain = <<>>
      /\ pointer = [p \in LogPtr |-> "none"] /\ totalFilled = 0 /\ readWait = FALSE
      /\ freeing = FALSE /\ logger = [t \in Logger |-> i] /\ todo = <<>>
      /\ copied = [user |-> 0, saved |-> 0] /\ mishaps = {}
  BY <1>1 DEF DebugInit
<1>5. \A t \in Logger : logger[t] = i /\ At(t) = "idle" /\ logger[t].sec = "none" /\ ~logger[t].new
  BY <1>3, <1>4 DEF At
<1>6. section \in [Slot -> SectionSet] /\ \A s \in Slot : section[s] = e
  BY <1>2, <1>4
<1>7. \A s \in Slot : section[s].filled <= section[s].size
  BY <1>2, <1>6
<1>8. copied \in CopiedSet /\ copied.saved = 0
  BY <1>4, DebugAssumption DEF CopiedSet
<1>9. LogTyped
  <2>1. logger \in [Logger -> LoggerSet] /\ pointer \in [LogPtr -> Slot \union {"none"}]
    BY <1>3, <1>4
  <2>2. chain \in Seq(Slot) /\ todo \in Seq(Slot)
    <3>1. <<>> \in Seq(Slot)
      OBVIOUS
    <3> QED
      BY <1>4, <3>1
  <2>3. taken \subseteq Slot /\ totalFilled \in Int /\ readWait \in BOOLEAN /\ freeing \in BOOLEAN
    <3>1. taken \subseteq Slot /\ totalFilled \in Int
      BY <1>4
    <3>2. (readWait <=> FALSE) /\ readWait \in BOOLEAN
      BY <1>4
    <3>3. (freeing <=> FALSE) /\ freeing \in BOOLEAN
      BY <1>4
    <3> QED
      BY <3>1, <3>2, <3>3
  <2>4. mishaps \subseteq {"refcount", "pointer", "total", "early free"}
    BY <1>4
  <2> QED
    BY <1>6, <1>7, <1>8, <2>1, <2>2, <2>3, <2>4 DEF LogTyped
<1>10. PlaceKnown
  BY <1>0, <1>5, <1>8 DEF PlaceKnown, AtSection
<1>11. MutexKept
  BY <1>5 DEF MutexKept, InMutex
<1>12. ListKnown
  BY <1>4, EmptyList DEF ListKnown
<1>13. HolderKnown
  BY <1>0, <1>5 DEF HolderKnown, AtSection
<1>14. OffListKnown /\ FoldedKnown /\ CountKnown
  BY <1>4 DEF OffListKnown, FoldedKnown, CountKnown
<1>15. PointerKnown /\ FreedKnown
  BY <1>4 DEF PointerKnown, FreedKnown
<1>16. TakenOut
  BY <1>0, <1>5 DEF TakenOut
<1>17. TotalKnown
  <2>1. FilledIn(section, taken) = 0
    BY <1>4, <1>6, FilledAdds
  <2>2. AtTotal = {}
    BY <1>0, <1>5 DEF AtTotal
  <2>3. Cardinality(AtTotal) = 0
    BY <2>2, FS_EmptySet
  <2> QED
    BY <1>4, <1>8, <2>1, <2>3 DEF TotalKnown
<1>18. NoneLost
  BY <1>4, EmptyList DEF NoneLost
<1> QED
  BY <1>9, <1>10, <1>11, <1>12, <1>13, <1>14, <1>15, <1>16, <1>17, <1>18 DEF LogInv

LEMMA LogRests == LogInv /\ UNCHANGED debugVars => LogInv'
<1> SUFFICES ASSUME LogInv, UNCHANGED debugVars PROVE LogInv'
  OBVIOUS
<1>1. /\ section' = section /\ taken' = taken /\ chain' = chain /\ pointer' = pointer
      /\ totalFilled' = totalFilled /\ readWait' = readWait /\ freeing' = freeing
      /\ logger' = logger /\ todo' = todo /\ copied' = copied /\ mishaps' = mishaps
  BY DEF debugVars
<1>2. LogTyped' /\ PlaceKnown' /\ MutexKept'
  <2>1. LogTyped'
    BY <1>1 DEF LogInv, LogTyped
  <2>2. PlaceKnown'
    BY <1>1 DEF LogInv, PlaceKnown, At
  <2>3. MutexKept'
    BY <1>1 DEF LogInv, MutexKept, At
  <2> QED
    BY <2>1, <2>2, <2>3
<1>3. ASSUME Counted'
      PROVE  /\ ListKnown' /\ HolderKnown' /\ OffListKnown' /\ FoldedKnown' /\ PointerKnown'
             /\ FreedKnown' /\ TakenOut' /\ CountKnown' /\ TotalKnown' /\ NoneLost'
  <2>1. Counted
    BY <1>1, <1>3 DEF Counted
  <2>2. ListKnown' /\ HolderKnown'
    BY <1>1, <2>1 DEF LogInv, ListKnown, HolderKnown, Listed, At
  <2>3. OffListKnown' /\ FoldedKnown'
    BY <1>1, <2>1 DEF LogInv, OffListKnown, FoldedKnown, Listed, At
  <2>4. PointerKnown' /\ FreedKnown' /\ TakenOut'
    BY <1>1, <2>1 DEF LogInv, PointerKnown, FreedKnown, TakenOut, Listed, At
  <2>5. CountKnown'
    BY <1>1, <2>1 DEF LogInv, CountKnown, Users, OwnerCounts, BeingMade, Listed, At
  <2>6. TotalKnown'
    <3>1. AtTotal' = AtTotal
      BY <1>1 DEF AtTotal, At
    <3> QED
      BY <1>1, <2>1, <3>1 DEF LogInv, TotalKnown
  <2>7. NoneLost'
    BY <1>1, <2>1 DEF LogInv, NoneLost, BeingMade
  <2> QED
    BY <2>2, <2>3, <2>4, <2>5, <2>6, <2>7
<1> QED
  BY <1>2, <1>3 DEF LogInv

LEMMA LogKeeps == LogInv /\ [DebugNext]_debugVars => LogInv'
<1> SUFFICES ASSUME LogInv, [DebugNext]_debugVars PROVE LogInv'
  OBVIOUS
<1>1. CASE UNCHANGED debugVars
  BY <1>1, LogRests
<1>2. CASE DebugNext
  <2>1. Going /\ LogKnown
    BY <1>2, GoingKnows DEF DebugNext, Going
  <2>2. CASE \E w \in Writer : \E p \in LogPtr : WriteBegin(w, p)
    BY <2>1, <2>2, WriteBeginStep
  <2>3. CASE \E w \in Writer : CreateSection(w)
    <3>1. PICK w \in Writer : CreateSection(w)
      BY <2>3
    <3>2. CASE taken # Slot /\ ~(logger' = [logger EXCEPT ![w] = Idle] /\ UNCHANGED <<section, taken>>)
      <4>1. PICK s : s = CHOOSE x \in Slot : x \notin taken
        OBVIOUS
      <4>2. s \in Slot /\ s \notin taken
        <5>1. taken \subseteq Slot
          BY <2>1 DEF LogKnown, LogTyped
        <5>2. \E x \in Slot : x \notin taken
          BY <3>2, <5>1
        <5> QED
          BY <4>1, <5>2
      <4>3. /\ section' = [section EXCEPT ![s] = [NoSection EXCEPT !.size = StartSize]]
            /\ taken' = taken \union {s}
            /\ logger' = [logger EXCEPT ![w] = [@ EXCEPT !.at = "created", !.sec = s, !.new = TRUE]]
        BY <3>1, <3>2, <4>1 DEF CreateSection
      <4>4. /\ At(w) = "create"
            /\ UNCHANGED <<chain, pointer, totalFilled, readWait, freeing, todo, copied, mishaps>>
        BY <3>1 DEF CreateSection
      <4> QED
        BY <2>1, <4>2, <4>3, <4>4, CreateMakesStep
    <3>3. CASE logger' = [logger EXCEPT ![w] = Idle] /\ UNCHANGED <<section, taken>>
      <4>1. /\ At(w) = "create"
            /\ UNCHANGED <<section, taken, chain, pointer, totalFilled, readWait, freeing, todo,
                           copied, mishaps>>
        BY <3>1, <3>3 DEF CreateSection
      <4> QED
        BY <2>1, <3>3, <4>1, NoRoomStep
    <3> QED
      BY <3>1, <3>2, <3>3 DEF CreateSection
  <2>4. CASE \E w \in Writer : LinkSection(w) \/ AppendLine(w) \/ TotalStores(w)
    BY <2>1, <2>4, LinkSectionStep, AppendLineStep, TotalStoresStep
  <2>5. CASE \E t \in Logger : GetLoads(t) \/ GetStores(t)
    BY <2>1, <2>5, GetLoadsStep, GetStoresStep
  <2>6. CASE \E t \in Logger : GetLocks(t)
    BY <2>1, <2>6, GetLocksOldStep, GetLocksNewStep
  <2>7. CASE \E t \in Logger : PutStores(t)
    BY <2>1, <2>7, PutMoreStep, PutLastStep
  <2>8. CASE ReadBegins \/ ReadVisits \/ ReadEnds
    BY <2>1, <2>8, ReadBeginsStep, ReadVisitsStep, ReadEndsStep
  <2>9. CASE ReadCopies \/ ReadSaves
    BY <2>1, <2>9, ReadCopiesStep, ReadSavesStep
  <2>10. CASE (\E p \in LogHandle \intersect LogPtr : FoldSection(p)) \/ DebugFree
    BY <2>1, <2>10, FoldSectionStep, DebugFreeStep
  <2> QED
    BY <1>2, <2>2, <2>3, <2>4, <2>5, <2>6, <2>7, <2>8, <2>9, <2>10 DEF DebugNext
<1> QED
  BY <1>1, <1>2

LEMMA LogIsTyped == LogInv => DebugTypeOK
<1> SUFFICES ASSUME LogInv PROVE DebugTypeOK
  OBVIOUS
<1>1. LogTyped
  BY DEF LogInv
<1>2. \A t \in Logger : logger[t] \in LoggerSet
  BY <1>1 DEF LogTyped
<1>3. \A t \in Logger : /\ At(t) \in {"idle", "create", "created", "found", "get", "wait", "locked",
                                     "total", "put", "next"}
                        /\ logger[t].sec \in Slot \union {"none"}
  BY <1>2 DEF LoggerSet, LogPlace, AtSection, At
<1> QED
  BY <1>1, <1>3 DEF LogTyped, DebugTypeOK, SectionSet, CopiedSet

LEMMA LogIsExact == LogInv => SectionsExact
<1> SUFFICES ASSUME LogInv PROVE SectionsExact
  OBVIOUS
<1>1. ASSUME mishaps \intersect {"refcount", "early free"} = {}
      PROVE  /\ \A s \in taken : section[s].refcount =
                  Cardinality(Users(s)) + (IF BeingMade(s) \/ s \notin ToSet(chain) THEN 0 ELSE 1)
             /\ \A t \in Logger : logger[t].sec # "none" => logger[t].sec \in taken
             /\ ToSet(chain) \subseteq taken
             /\ freeing => taken = {}
  <2>1. ListKnown /\ HolderKnown /\ FreedKnown /\ CountKnown
    BY <1>1 DEF LogInv, Counted
  <2>2. \A s \in taken : section[s].refcount =
          Cardinality(Users(s)) + (IF BeingMade(s) \/ s \notin ToSet(chain) THEN 0 ELSE 1)
    BY <2>1 DEF CountKnown, OwnerCounts, Listed
  <2> QED
    BY <2>1, <2>2 DEF ListKnown, HolderKnown, FreedKnown
<1>2. ASSUME mishaps \subseteq {"pointer"}, ~freeing
      PROVE  totalFilled = MapThenSumSet(LAMBDA s : section[s].filled, taken)
               - Cardinality({w \in Writer : At(w) = "total"}) + copied.saved
  <2>1. Counted
    BY <1>2 DEF Counted
  <2>2. TotalKnown
    BY <2>1 DEF LogInv
  <2> QED
    BY <1>2, <2>2 DEF TotalKnown, FilledIn, AtTotal
<1>3. ASSUME mishaps = {}
      PROVE  \A s \in ToSet(chain) :
               section[s].folded \/ BeingMade(s) \/ \E p \in LogPtr : pointer[p] = s
  <2>1. Counted
    BY <1>3 DEF Counted
  <2>2. NoneLost
    BY <2>1 DEF LogInv
  <2> QED
    BY <1>3, <2>2 DEF NoneLost
<1> QED
  BY <1>1, <1>2, <1>3 DEF SectionsExact

(* The debug log's variables keep their types (kernel/debug.c). *)
THEOREM DebugTyping == DebugSpec => []DebugTypeOK
<1>1. DebugInit => LogInv
  BY LogStarts
<1>2. LogInv /\ [DebugNext]_debugVars => LogInv'
  BY LogKeeps
<1>3. LogInv => DebugTypeOK
  BY LogIsTyped
<1> QED
  BY <1>1, <1>2, <1>3, PTL DEF DebugSpec

(* Until an update of it is lost, a section's reference count is its users and the
   reference of its owner or of the fold, and none is freed under a user; the fill level
   that stops the log is what the sections hold; and no section is forgotten but for one
   whose pointer was overwritten (get_section, put_section, co_debug_read). *)
THEOREM SectionsAgree == DebugSpec => []SectionsExact
<1>1. DebugInit => LogInv
  BY LogStarts
<1>2. LogInv /\ [DebugNext]_debugVars => LogInv'
  BY LogKeeps
<1>3. LogInv => SectionsExact
  BY LogIsExact
<1> QED
  BY <1>1, <1>2, <1>3, PTL DEF DebugSpec
=============================================================================
