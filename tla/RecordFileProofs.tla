-------------------------- MODULE RecordFileProofs --------------------------
(***************************************************************************)
(* The address databases, proved for every number of rows, every length of *)
(* a field and every text: what loads can be used, whatever a crash left,  *)
(* and both programs implement AddressBook.                                *)
(*                                                                         *)
(* A process knows what it means to write when it starts (Meant); the file *)
(* is then, cell by cell, partly that and partly what was there (Mixed), or*)
(* the first cells of it (Cut).  A file cut short does not load, because   *)
(* its own header says how many cells it should have, or it holds all of   *)
(* the database.                                                           *)
(***************************************************************************)
EXTENDS RecordFile, SequenceTheorems, WellFoundedInduction, TLAPS

-----------------------------------------------------------------------------
(* The inductive invariant                                                 *)

Ids(f) == 0 .. Rows(f) - 1

\* A file that holds a whole database.
Whole(f) ==
  /\ f \in Seq(Nat) /\ Len(f) >= Header
  /\ Rows(f) \in Nat /\ Data(f) \in Nat
  /\ Len(f) >= DbCells(f)

\* The texts of a row end in their field; fields of no cells hold none.
TextsEnd(f, id) ==
  IF Data(f) = 0 THEN ~Valid(f, id)
  ELSE f[At(f, id, 2 + Data(f))] = NUL /\ f[At(f, id, 2 + 2 * Data(f))] = NUL

\* The commands can use it: rows carry their id and texts end in their field.
Usable(f) ==
  /\ Whole(f)
  /\ \A id \in Ids(f) : f[At(f, id, 1)] = id /\ TextsEnd(f, id)

Sound(f) == f \in Seq(Nat) /\ (Loads(f) => Usable(f))

\* Of the database in f, w changes row id and nothing else.
OnlyRow(w, f, id) ==
  \A i \in 1 .. DbCells(f) :
    i < At(f, id, 1) \/ i > At(f, id, RowCells(Data(f))) => w[i] = f[i]

\* c is a command for one row of the book in f, which b changes as c says.
ChangesOneRow(c, b, f) ==
  /\ Usable(f) /\ c.id \in Ids(f)
  /\ Rows(b) = Rows(f) /\ Data(b) = Data(f) /\ Len(b) = DbCells(b) /\ OnlyRow(b, f, c.id)
  /\ \/ c.op = "s" /\ Valid(b, c.id) /\ ~Valid(f, c.id)
     \/ c.op = "d" /\ ~Valid(b, c.id)

\* c deletes the row in front of the rows of f.
DeletesNoRow(c, f) ==
  program # "p17" /\ c.op = "d" /\ c.id = -1 /\ Usable(f) /\ Data(f) \in {0, 2}

\* A process that found the file f means to write b.
Meant(c, b, f) ==
  /\ Sound(f)
  /\ Usable(b)
  /\ Book(b) = Address!Apply(c, Book(f))
  /\ c.op = "c" \/ ChangesOneRow(c, b, f) \/ DeletesNoRow(c, f)

InPlace == program = "p17" /\ cmd.op # "c"

\* The file once it is open: some cells written over, or some written at all.
Mixed ==
  /\ Len(file) = Len(before)
  /\ \A i \in 1 .. Len(file) : file[i] = IF i <= written THEN buffer[i] ELSE before[i]
Cut ==
  /\ Len(file) = written
  /\ \A i \in 1 .. Len(file) : file[i] = buffer[i]

BookInv ==
  /\ program \in {"p17", "p17_2"}
  /\ opened \in BOOLEAN /\ written \in 0 .. Len(buffer)
  /\ file \in Seq(Nat) /\ buffer \in Seq(Nat) /\ before \in Seq(Nat)
  /\ cmd = NoCmd => Sound(file) /\ ~opened /\ written = 0
  /\ cmd # NoCmd => Meant(cmd, buffer, before)
  /\ cmd # NoCmd /\ ~opened => file = before /\ written = 0
  /\ opened => IF InPlace THEN Mixed ELSE Cut

-----------------------------------------------------------------------------
(* Numbers and sequences                                                   *)

\* A set of natural numbers that is not empty has a least element.
LEMMA LeastNumber ==
  ASSUME NEW T, T \subseteq Nat, T # {}
  PROVE  \E x \in T : \A y \in T : x <= y
<1>1. PICK x \in T : \A y \in T : ~(<<y, x>> \in OpToRel(<, Nat))
  BY NatLessThanWellFounded, WFMin
<1>2. \A y \in T : ~(y < x)
  BY <1>1 DEF OpToRel
<1> QED
  BY <1>2

LEMMA MinIs ==
  ASSUME NEW T, T \subseteq Nat, NEW m \in T, \A x \in T : m <= x
  PROVE  Min(T) = m
<1>1. Min(T) \in T /\ \A x \in T : Min(T) <= x
  BY DEF Min
<1>2. Min(T) \in Nat /\ m \in Nat /\ Min(T) <= m /\ m <= Min(T)
  BY <1>1
<1> QED
  BY ONLY <1>2

LEMMA MaxIs ==
  ASSUME NEW T, T \subseteq Nat, NEW m \in T, \A x \in T : x <= m
  PROVE  Max(T) = m
<1>1. Max(T) \in T /\ \A x \in T : x <= Max(T)
  BY DEF Max
<1>2. Max(T) \in Nat /\ m \in Nat /\ m <= Max(T) /\ Max(T) <= m
  BY <1>1
<1> QED
  BY ONLY <1>2

\* Cell k of row q, counted in cells.
LEMMA DivMod ==
  ASSUME NEW r \in Nat \ {0}, NEW q \in Nat, NEW k \in 0 .. r - 1
  PROVE  (q * r + k) \div r = q /\ (q * r + k) % r = k
OBVIOUS

\* Rows of r cells lie one behind the other.
LEMMA RowsApart ==
  ASSUME NEW r \in Nat \ {0}, NEW p \in Nat, NEW q \in Nat
  PROVE  /\ q * r \in Nat /\ (q + 1) * r = q * r + r
         /\ p < q => p * r + r <= q * r
<1>1. q * r \in Nat /\ p * r \in Nat /\ (q + 1) * r = q * r + r
  OBVIOUS
<1>2. ASSUME p < q
      PROVE  p * r + r <= q * r
  <2>1. PICK d \in Nat : q = p + 1 + d
    <3>1. q - p - 1 \in Nat /\ q = p + 1 + (q - p - 1)
      BY <1>2
    <3> QED
      BY <3>1
  <2>2. q * r = p * r + r + d * r /\ d * r \in Nat
    BY ONLY <2>1, r \in Nat, p \in Nat
  <2> QED
    BY ONLY <1>1, <2>2
<1> QED
  BY <1>1, <1>2

-----------------------------------------------------------------------------
(* The layout of the file                                                  *)

\* Where the cells of a database are, with rows of r cells.
Place(r, id, cell) == Header + id * r + cell

LEMMA HeaderIs ==
  /\ Header \in {0, 2} /\ Header \in Nat
  /\ program = "p17" <=> Header = 0
BY DEF Header

\* The cells of the rows are in the database, behind its header.
LEMMA Places ==
  ASSUME NEW r \in Nat \ {0}, NEW rows \in Nat
  PROVE  /\ Header + rows * r \in Nat
         /\ \A id \in 0 .. rows - 1, cell \in 1 .. r :
              Place(r, id, cell) \in Header + 1 .. Header + rows * r
<1>0. Header \in Nat /\ rows * r \in Nat
  BY HeaderIs, RowsApart
<1>1. ASSUME NEW id \in 0 .. rows - 1, NEW cell \in 1 .. r
      PROVE  Place(r, id, cell) \in Header + 1 .. Header + rows * r
  <2>1. id \in Nat /\ rows \in Nat /\ id < rows
    OBVIOUS
  <2>2. id * r \in Nat /\ id * r + r <= rows * r
    BY <2>1, RowsApart
  <2> QED
    BY <1>0, <2>2 DEF Place
<1> QED
  BY <1>0, <1>1

\* Each of them has a place of its own.
LEMMA PlacesApart ==
  ASSUME NEW r \in Nat \ {0}, NEW id \in Nat, NEW other \in Nat, NEW cell \in 1 .. r, NEW c \in 1 .. r,
         Place(r, id, cell) = Place(r, other, c)
  PROVE  id = other /\ cell = c
<1>0. Header \in Nat
  BY HeaderIs
<1>1. id * r \in Nat /\ other * r \in Nat
  BY RowsApart
<1>2. id < other => id * r + r <= other * r
  BY RowsApart
<1>3. other < id => other * r + r <= id * r
  BY RowsApart
<1>4. id * r + cell = other * r + c
  BY <1>0, <1>1 DEF Place
<1>5. id = other
  BY <1>1, <1>2, <1>3, <1>4
<1> QED
  BY <1>1, <1>4, <1>5

\* What a file that holds a database consists of.
LEMMA WholeFacts ==
  ASSUME NEW f, Whole(f)
  PROVE  LET r == RowCells(Data(f)) IN
         /\ r \in Nat \ {0} /\ r = 2 + 2 * Data(f)
         /\ Data(f) \in Nat /\ Rows(f) \in Nat
         /\ DbCells(f) = Header + Rows(f) * r /\ DbCells(f) \in Nat /\ DbCells(f) <= Len(f)
         /\ \A id, cell : At(f, id, cell) = Place(r, id, cell)
         /\ Header <= DbCells(f)
         /\ Loads(f)
<1>1. /\ RowCells(Data(f)) \in Nat \ {0} /\ RowCells(Data(f)) = 2 + 2 * Data(f)
      /\ Data(f) \in Nat /\ Rows(f) \in Nat
  BY DEF Whole, RowCells
<1>2. DbCells(f) = Header + Rows(f) * RowCells(Data(f)) /\ DbCells(f) \in Nat
  BY <1>1, Places DEF DbCells
<1>3. \A id, cell : At(f, id, cell) = Place(RowCells(Data(f)), id, cell)
  BY DEF At, Place
<1>4. Header <= DbCells(f)
  BY <1>1, <1>2, RowsApart, HeaderIs
<1>5. Loads(f) /\ DbCells(f) <= Len(f)
  BY <1>2, HeaderIs DEF Whole, Loads
<1> QED
  BY <1>1, <1>2, <1>3, <1>4, <1>5

\* The cells of a row are in the file, each at a place of its own.
LEMMA CellFacts ==
  ASSUME NEW f, Whole(f), NEW id \in Ids(f), NEW cell \in 1 .. RowCells(Data(f))
  PROVE  /\ At(f, id, cell) \in Header + 1 .. DbCells(f)
         /\ At(f, id, cell) \in 1 .. Len(f)
         /\ \A other \in Ids(f), c \in 1 .. RowCells(Data(f)) :
              At(f, id, cell) = At(f, other, c) => id = other /\ cell = c
<1>1. PICK r \in Nat \ {0}, rows \in Nat : r = RowCells(Data(f)) /\ rows = Rows(f)
  BY WholeFacts
<1>2. DbCells(f) = Header + rows * r /\ DbCells(f) <= Len(f) /\ DbCells(f) \in Nat
  BY <1>1, WholeFacts
<1>3. \A i, c : At(f, i, c) = Place(r, i, c)
  BY <1>1, WholeFacts
<1>4. /\ At(f, id, cell) \in Header + 1 .. DbCells(f)
      /\ \A other \in Ids(f), c \in 1 .. RowCells(Data(f)) :
           At(f, id, cell) = At(f, other, c) => id = other /\ cell = c
  <2>1. id \in 0 .. rows - 1 /\ cell \in 1 .. r /\ Ids(f) = 0 .. rows - 1
    BY <1>1 DEF Ids
  <2>2. Place(r, id, cell) \in Header + 1 .. Header + rows * r
    BY <2>1, Places
  <2>3. \A other \in 0 .. rows - 1, c \in 1 .. r :
          Place(r, id, cell) = Place(r, other, c) => id = other /\ cell = c
    <3> TAKE other \in 0 .. rows - 1, c \in 1 .. r
    <3> QED
      BY <2>1, PlacesApart
  <2> QED
    BY ONLY <1>1, <1>2, <1>3, <2>1, <2>2, <2>3, SMTT(20)
<1>5. Len(f) \in Nat
  BY LenProperties DEF Whole
<1> QED
  BY <1>2, <1>4, <1>5, HeaderIs

-----------------------------------------------------------------------------
(* Texts, rows and books                                                   *)

Field(base, n) == {base + i : i \in 1 .. n}

\* The text of a field that begins behind `base` has k letters.
Ends(f, base, k) ==
  /\ \A i \in 1 .. k : f[base + i] \in Nat \ {0}
  /\ f[base + k + 1] = NUL

\* The text of a field is what stands before its first NUL.
LEMMA TextIs ==
  ASSUME NEW f, NEW base \in Nat, NEW n \in Nat \ {0}, NEW k \in 0 .. n - 1,
         Ends(f, base, k), NEW text, text = [i \in 1 .. k |-> f[base + i]]
  PROVE  Text(f, Field(base, n)) = text
<1> USE DEF Ends
<1>1. /\ Field(base, n) \subseteq Nat /\ base + 1 \in Field(base, n) /\ base + n \in Field(base, n)
      /\ \A p \in Field(base, n) : base + 1 <= p /\ p <= base + n
      /\ base + k + 1 \in Field(base, n)
  BY DEF Field
<1>2. Min(Field(base, n)) = base + 1
  BY <1>1, MinIs
<1>3. Max(Field(base, n)) = base + n
  BY <1>1, MaxIs
<1>4. PICK stops : stops = {p \in Field(base, n) : f[p] = NUL} \cup {Max(Field(base, n)) + 1}
  OBVIOUS
<1>5. Min(stops) = base + k + 1
  <2>1. stops \subseteq Nat
    BY <1>1, <1>3, <1>4
  <2>2. base + k + 1 \in stops
    BY <1>1, <1>4
  <2>3. ASSUME NEW p \in stops
        PROVE  base + k + 1 <= p
    <3>1. CASE p = base + n + 1
      BY <3>1
    <3>2. CASE p \in Field(base, n) /\ f[p] = NUL
      <4>1. PICK i \in 1 .. n : p = base + i
        BY <3>2 DEF Field
      <4>2. i \notin 1 .. k
        BY <3>2, <4>1 DEF NUL
      <4> QED
        BY <4>1, <4>2
    <3> QED
      BY <1>3, <1>4, <3>1, <3>2
  <2> QED
    BY <2>1, <2>2, <2>3, MinIs
<1>6. Text(f, Field(base, n)) = SubSeq(f, base + 1, base + k)
  <2>1. Text(f, Field(base, n)) = SubSeq(f, Min(Field(base, n)), Min(stops) - 1)
    BY <1>4 DEF Text
  <2>2. base + k + 1 - 1 = base + k
    OBVIOUS
  <2> QED
    BY <1>2, <1>5, <2>1, <2>2
<1>7. text \in Seq(Nat) /\ Len(text) = k /\ \A i \in 1 .. k : text[i] = f[base + i]
  OBVIOUS
<1>8. PICK s : s = SubSeq(f, base + 1, base + k)
  OBVIOUS
<1>9. s \in Seq(Nat) /\ Len(s) = k /\ \A i \in 1 .. k : s[i] = f[base + i]
  <2>1. \A i \in base + 1 .. base + k : f[i] \in Nat
    <3> TAKE j \in base + 1 .. base + k
    <3>1. PICK i \in 1 .. k : j = base + i
      <4>1. j - base \in 1 .. k /\ j = base + (j - base)
        OBVIOUS
      <4> QED
        BY <4>1
    <3> QED
      BY <3>1
  <2>2. base + 1 \in Int /\ base + k \in Int
    OBVIOUS
  <2>3. /\ s \in Seq(Nat)
        /\ Len(s) = IF base + 1 <= base + k THEN base + k - (base + 1) + 1 ELSE 0
        /\ \A i \in 1 .. base + k - (base + 1) + 1 : s[i] = f[base + 1 + i - 1]
    BY ONLY <1>8, <2>1, <2>2, SubSeqProperties
  <2>4. /\ Len(s) = k
        /\ \A i \in 1 .. k : i \in 1 .. base + k - (base + 1) + 1 /\ base + 1 + i - 1 = base + i
    BY ONLY <2>3, base \in Nat, k \in 0 .. n - 1, n \in Nat \ {0}
  <2> QED
    BY ONLY <2>3, <2>4
<1>10. text = s
  BY ONLY <1>7, <1>9, SeqEqual
<1> QED
  BY <1>6, <1>8, <1>10

\* A field that ends with NUL has a first NUL.
LEMMA FirstNul ==
  ASSUME NEW f, NEW base \in Nat, NEW n \in Nat \ {0},
         \A i \in 1 .. n : f[base + i] \in Nat, f[base + n] = NUL
  PROVE  \E k \in 0 .. n - 1 : Ends(f, base, k)
<1>1. PICK T : T = {i \in 1 .. n : f[base + i] = NUL}
  OBVIOUS
<1>2. n \in T /\ T \subseteq Nat
  BY <1>1
<1>3. PICK m \in T : \A i \in T : m <= i
  BY <1>2, LeastNumber
<1>4. PICK k \in 0 .. n - 1 : m = k + 1 /\ base + m = base + k + 1
  <2>1. m - 1 \in 0 .. n - 1 /\ m = (m - 1) + 1 /\ base + m = base + (m - 1) + 1
    BY <1>1, <1>3
  <2> QED
    BY <2>1
<1>5. ASSUME NEW i \in 1 .. k
      PROVE  f[base + i] \in Nat \ {0}
  <2>1. i \in 1 .. n /\ ~(m <= i)
    BY <1>4
  <2> QED
    BY <1>1, <1>3, <2>1 DEF NUL
<1> QED
  BY <1>1, <1>4, <1>5 DEF Ends

\* Fields with the same cells hold the same text.
LEMMA TextSame ==
  ASSUME NEW f, NEW g, NEW base \in Nat, NEW n \in Nat \ {0},
         \A i \in 1 .. n : f[base + i] \in Nat /\ f[base + i] = g[base + i],
         f[base + n] = NUL
  PROVE  Text(f, Field(base, n)) = Text(g, Field(base, n))
<1>0. \A i \in 1 .. n : f[base + i] \in Nat
  OBVIOUS
<1>1. PICK k \in 0 .. n - 1 : Ends(f, base, k)
  BY FirstNul
<1>2. /\ \A i \in 1 .. k : i \in 1 .. n
      /\ k + 1 \in 1 .. n /\ base + (k + 1) = base + k + 1
  OBVIOUS
<1>3. Ends(g, base, k)
  BY <1>1, <1>2 DEF Ends
<1>4. PICK text : text = [i \in 1 .. k |-> f[base + i]]
  OBVIOUS
<1>5. text = [i \in 1 .. k |-> g[base + i]]
  BY <1>2, <1>4
<1>6. Text(f, Field(base, n)) = text
  BY <1>1, <1>4, TextIs
<1>7. Text(g, Field(base, n)) = text
  BY <1>3, <1>5, TextIs, SMTT(20)
<1> QED
  BY <1>6, <1>7

\* The record of a row.
RowIn(f, id) ==
  IF Valid(f, id)
  THEN [set |-> TRUE, name |-> Text(f, Field(At(f, id, 2), Data(f))),
        email |-> Text(f, Field(At(f, id, 2 + Data(f)), Data(f)))]
  ELSE [set |-> FALSE]

LEMMA FieldsAre ==
  ASSUME NEW f, Whole(f), NEW id \in Ids(f)
  PROVE  /\ \A i \in Nat : At(f, id, 2) + i = At(f, id, 2 + i)
         /\ \A i \in Nat : At(f, id, 2 + Data(f)) + i = At(f, id, 2 + Data(f) + i)
         /\ NameAt(f, id) = Field(At(f, id, 2), Data(f))
         /\ EmailAt(f, id) = Field(At(f, id, 2 + Data(f)), Data(f))
         /\ At(f, id, 2) \in Nat /\ At(f, id, 2 + Data(f)) \in Nat
         /\ At(f, id, 2) + Data(f) = At(f, id, 2 + Data(f))
         /\ At(f, id, 2 + Data(f)) + Data(f) = At(f, id, 2 + 2 * Data(f))
<1>1. PICK n \in Nat, r \in Nat \ {0} : n = Data(f) /\ r = RowCells(Data(f))
  BY WholeFacts
<1>2. PICK place \in Nat : place = Header + id * r
  <2>1. id \in Nat
    BY DEF Ids, Whole
  <2>2. id * r \in Nat
    BY ONLY <2>1, r \in Nat \ {0}, RowsApart
  <2> QED
    BY <2>2, HeaderIs
<1>3. \A cell : At(f, id, cell) = place + cell
  BY <1>1, <1>2 DEF At
<1>4. \A i \in Nat : At(f, id, 2) + i = At(f, id, 2 + i)
  BY <1>3
<1>5. \A i \in Nat : At(f, id, 2 + n) + i = At(f, id, 2 + n + i)
  BY <1>3
<1>6. NameAt(f, id) = Field(At(f, id, 2), n)
  BY <1>1, <1>4 DEF NameAt, Field
<1>7. EmailAt(f, id) = Field(At(f, id, 2 + n), n)
  BY <1>1, <1>5 DEF EmailAt, Field
<1>8. /\ At(f, id, 2) \in Nat /\ At(f, id, 2 + n) \in Nat
      /\ At(f, id, 2) + n = At(f, id, 2 + n)
      /\ At(f, id, 2 + n) + n = At(f, id, 2 + 2 * n)
  BY <1>3
<1> QED
  BY <1>1, <1>4, <1>5, <1>6, <1>7, <1>8

LEMMA BookIs ==
  ASSUME NEW f, Whole(f)
  PROVE  Book(f) = [data |-> Data(f), row |-> [id \in Ids(f) |-> RowIn(f, id)]]
<1>1. Loads(f)
  BY WholeFacts
<1>2. \A id \in Ids(f) : NameAt(f, id) = Field(At(f, id, 2), Data(f))
  BY FieldsAre
<1>3. \A id \in Ids(f) : EmailAt(f, id) = Field(At(f, id, 2 + Data(f)), Data(f))
  BY FieldsAre
<1> QED
  BY <1>1, <1>2, <1>3 DEF Book, RowIn, Ids

\* The file g has the cells of f in row id, from its set or valid on.
SameRow(f, g, id) ==
  \A cell \in 2 .. RowCells(Data(f)) : g[At(f, id, cell)] = f[At(f, id, cell)]

LEMMA RowsEqual ==
  ASSUME NEW f, NEW g, Usable(f), Whole(g), Rows(g) = Rows(f), Data(g) = Data(f),
         NEW id \in Ids(f), SameRow(f, g, id)
  PROVE  RowIn(g, id) = RowIn(f, id)
<1>0. CASE Data(f) = 0
  <2>1. RowCells(Data(f)) = 2 /\ ~Valid(f, id)
    BY <1>0 DEF Usable, TextsEnd, RowCells
  <2>2. ~Valid(g, id)
    BY <2>1, 2 \in 2 .. 2 DEF Valid, SameRow, At
  <2> QED
    BY <2>1, <2>2 DEF RowIn
<1>0a. SUFFICES ASSUME Data(f) # 0 PROVE RowIn(g, id) = RowIn(f, id)
  BY <1>0
<1>1. PICK n \in Nat \ {0} : n = Data(f) /\ n = Data(g) /\ RowCells(Data(f)) = 2 + 2 * n
  BY <1>0a, WholeFacts DEF Usable
<1>2. \A cell : At(g, id, cell) = At(f, id, cell)
  BY DEF At
<1>3. Whole(f) /\ f[At(f, id, 2 + n)] = NUL /\ f[At(f, id, 2 + 2 * n)] = NUL
  BY <1>1 DEF Usable, TextsEnd
<1>4. \A cell \in 2 .. 2 + 2 * n : f[At(f, id, cell)] \in Nat /\ f[At(f, id, cell)] = g[At(f, id, cell)]
  <2> TAKE cell \in 2 .. 2 + 2 * n
  <2>1. cell \in 1 .. RowCells(Data(f))
    BY <1>1
  <2>2. At(f, id, cell) \in 1 .. Len(f)
    BY <1>3, <2>1, CellFacts
  <2>3. f[At(f, id, cell)] \in Nat
    BY <1>3, <2>2, ElementOfSeq DEF Whole
  <2>4. f[At(f, id, cell)] = g[At(f, id, cell)]
    BY <1>1 DEF SameRow
  <2> QED
    BY <2>3, <2>4
<1>5. /\ At(f, id, 2) \in Nat /\ At(f, id, 2 + n) \in Nat
      /\ \A i \in 1 .. n : At(f, id, 2) + i = At(f, id, 2 + i)
      /\ \A i \in 1 .. n : At(f, id, 2 + n) + i = At(f, id, 2 + n + i)
      /\ At(f, id, 2) + n = At(f, id, 2 + n)
      /\ At(f, id, 2 + n) + n = At(f, id, 2 + 2 * n)
  BY <1>1, <1>3, FieldsAre
<1>6. Text(g, Field(At(f, id, 2), n)) = Text(f, Field(At(f, id, 2), n))
  <2>1. PICK base \in Nat : base = At(f, id, 2)
    BY <1>5
  <2>2. f[base + n] = NUL
    BY <1>3, <1>5, <2>1
  <2>3. \A i \in 1 .. n : f[base + i] \in Nat /\ f[base + i] = g[base + i]
    <3> TAKE i \in 1 .. n
    <3>1. 2 + i \in 2 .. 2 + 2 * n /\ base + i = At(f, id, 2 + i)
      BY <1>5, <2>1
    <3> QED
      BY <1>4, <3>1
  <2>4. Text(f, Field(base, n)) = Text(g, Field(base, n))
    BY ONLY <2>2, <2>3, TextSame, base \in Nat, n \in Nat \ {0}, ZenonT(30)
  <2> QED
    BY ONLY <2>1, <2>4
<1>7. Text(g, Field(At(f, id, 2 + n), n)) = Text(f, Field(At(f, id, 2 + n), n))
  <2>1. PICK base \in Nat : base = At(f, id, 2 + n)
    BY <1>5
  <2>2. f[base + n] = NUL
    BY <1>3, <1>5, <2>1
  <2>3. \A i \in 1 .. n : f[base + i] \in Nat /\ f[base + i] = g[base + i]
    <3> TAKE i \in 1 .. n
    <3>1. 2 + n + i \in 2 .. 2 + 2 * n /\ base + i = At(f, id, 2 + n + i)
      BY <1>5, <2>1
    <3> QED
      BY <1>4, <3>1
  <2>4. Text(f, Field(base, n)) = Text(g, Field(base, n))
    BY ONLY <2>2, <2>3, TextSame, base \in Nat, n \in Nat \ {0}, ZenonT(30)
  <2> QED
    BY ONLY <2>1, <2>4
<1>8. Valid(g, id) <=> Valid(f, id)
  BY <1>1, <1>2, <1>4 DEF Valid
<1>9. RowIn(g, id) = IF Valid(g, id)
                     THEN [set |-> TRUE, name |-> Text(g, Field(At(f, id, 2), n)),
                           email |-> Text(g, Field(At(f, id, 2 + n), n))]
                     ELSE [set |-> FALSE]
  BY <1>1, <1>2 DEF RowIn
<1>10. RowIn(f, id) = IF Valid(f, id)
                      THEN [set |-> TRUE, name |-> Text(f, Field(At(f, id, 2), n)),
                            email |-> Text(f, Field(At(f, id, 2 + n), n))]
                      ELSE [set |-> FALSE]
  BY <1>1 DEF RowIn
<1>11. CASE Valid(f, id)
  BY <1>6, <1>7, <1>8, <1>9, <1>10, <1>11, Zenon
<1>12. CASE ~Valid(f, id)
  BY <1>8, <1>9, <1>10, <1>12, Zenon
<1> QED
  BY <1>11, <1>12

\* The number of rows and the length of a field are in the header.
LEMMA SameShape ==
  ASSUME NEW f, NEW g, \A i \in 1 .. Header : g[i] = f[i]
  PROVE  /\ Rows(g) = Rows(f) /\ Data(g) = Data(f) /\ DbCells(g) = DbCells(f)
         /\ \A id, cell : At(g, id, cell) = At(f, id, cell)
<1>1. Rows(g) = Rows(f) /\ Data(g) = Data(f)
  BY DEF Header, Rows, Data
<1> QED
  BY <1>1 DEF DbCells, At

LEMMA BooksEqual ==
  ASSUME NEW f, NEW g, Usable(f), g \in Seq(Nat), Len(g) >= DbCells(f),
         \A i \in 1 .. DbCells(f) : g[i] = f[i]
  PROVE  /\ Usable(g) /\ Book(g) = Book(f)
         /\ Rows(g) = Rows(f) /\ Data(g) = Data(f) /\ DbCells(g) = DbCells(f)
         /\ \A id, cell : At(g, id, cell) = At(f, id, cell)
<1>1. Whole(f) /\ DbCells(f) \in Nat /\ Header <= DbCells(f) /\ Header \in Nat
  BY WholeFacts, HeaderIs DEF Usable
<1>2. /\ Rows(g) = Rows(f) /\ Data(g) = Data(f) /\ DbCells(g) = DbCells(f)
      /\ \A id, cell : At(g, id, cell) = At(f, id, cell)
  <2>1. \A i \in 1 .. Header : g[i] = f[i]
    BY <1>1
  <2> QED
    BY <2>1, SameShape
<1>3. Whole(g)
  <2>1. Len(g) \in Nat
    BY LenProperties
  <2>2. Len(g) >= Header
    BY <1>1, <2>1
  <2> QED
    BY <1>1, <1>2, <2>2 DEF Whole
<1>4. \A id \in Ids(f), cell \in 1 .. RowCells(Data(f)) : g[At(f, id, cell)] = f[At(f, id, cell)]
  <2> TAKE id \in Ids(f), cell \in 1 .. RowCells(Data(f))
  <2>1. At(f, id, cell) \in Header + 1 .. DbCells(f)
    BY <1>1, CellFacts
  <2> QED
    BY <1>1, <2>1
<1>5. PICK n \in Nat : n = Data(f) /\ RowCells(Data(f)) = 2 + 2 * n
  BY <1>1, WholeFacts
<1>6. /\ 1 \in 1 .. 2 + 2 * n /\ 2 \in 1 .. 2 + 2 * n
      /\ 2 + n \in 1 .. 2 + 2 * n /\ 2 + 2 * n \in 1 .. 2 + 2 * n
  BY <1>5
<1>7. Ids(g) = Ids(f)
  BY <1>2 DEF Ids
<1>8. Usable(g)
  <2>1. ASSUME NEW id \in Ids(f)
        PROVE  g[At(g, id, 1)] = id /\ TextsEnd(g, id)
    <3>1. f[At(f, id, 1)] = id /\ TextsEnd(f, id)
      BY DEF Usable
    <3>2. /\ g[At(f, id, 1)] = f[At(f, id, 1)] /\ g[At(f, id, 2)] = f[At(f, id, 2)]
          /\ g[At(f, id, 2 + n)] = f[At(f, id, 2 + n)]
          /\ g[At(f, id, 2 + 2 * n)] = f[At(f, id, 2 + 2 * n)]
      BY <1>4, <1>5, <1>6
    <3> QED
      BY <1>2, <1>5, <3>1, <3>2 DEF TextsEnd, Valid
  <2> QED
    BY <1>3, <1>7, <2>1 DEF Usable
<1>9. \A id \in Ids(f) : RowIn(g, id) = RowIn(f, id)
  <2> TAKE id \in Ids(f)
  <2>1. SameRow(f, g, id)
    BY <1>4, <1>5 DEF SameRow
  <2> QED
    BY <1>2, <1>3, <2>1, RowsEqual
<1>10. Book(g) = Book(f)
  <2>1. Book(g) = [data |-> Data(g), row |-> [id \in Ids(g) |-> RowIn(g, id)]]
    BY <1>3, BookIs
  <2>2. Book(f) = [data |-> Data(f), row |-> [id \in Ids(f) |-> RowIn(f, id)]]
    BY <1>1, BookIs
  <2>3. [id \in Ids(g) |-> RowIn(g, id)] = [id \in Ids(f) |-> RowIn(f, id)]
    BY <1>7, <1>9
  <2> QED
    BY <1>2, <2>1, <2>2, <2>3
<1> QED
  BY <1>2, <1>8, <1>10

\* What is loaded is the database, without what may follow it in the file.
LEMMA LoadFacts ==
  ASSUME NEW f, Usable(f)
  PROVE  /\ Load(f) \in Seq(Nat) /\ Len(Load(f)) = DbCells(f)
         /\ \A i \in 1 .. DbCells(f) : Load(f)[i] = f[i]
         /\ Usable(Load(f)) /\ Book(Load(f)) = Book(f)
         /\ Rows(Load(f)) = Rows(f) /\ Data(Load(f)) = Data(f) /\ DbCells(Load(f)) = DbCells(f)
         /\ \A id, cell : At(Load(f), id, cell) = At(f, id, cell)
<1>1. PICK d \in Nat : d = DbCells(f) /\ d <= Len(f)
  BY WholeFacts DEF Usable
<1>2. PICK b : b = SubSeq(f, 1, d)
  OBVIOUS
<1>3. f \in Seq(Nat) /\ Len(f) \in Nat
  BY LenProperties DEF Usable, Whole
<1>4. b \in Seq(Nat) /\ Len(b) = d /\ \A i \in 1 .. d : b[i] = f[i]
  <2>1. \A i \in 1 .. d : f[i] \in Nat
    BY <1>1, <1>3, ElementOfSeq
  <2>2. 1 \in Int /\ d \in Int
    OBVIOUS
  <2>3. /\ b \in Seq(Nat)
        /\ Len(b) = IF 1 <= d THEN d - 1 + 1 ELSE 0
        /\ \A i \in 1 .. d - 1 + 1 : b[i] = f[1 + i - 1]
    BY ONLY <1>2, <2>1, <2>2, SubSeqProperties
  <2> QED
    BY ONLY <2>3, d \in Nat
<1>5. Load(f) = b
  BY <1>1, <1>2 DEF Load
<1>6. \A i \in 1 .. DbCells(f) : b[i] = f[i]
  BY <1>1, <1>4
<1>7. Len(b) >= DbCells(f)
  BY <1>1, <1>4
<1>8. /\ Usable(b) /\ Book(b) = Book(f)
      /\ Rows(b) = Rows(f) /\ Data(b) = Data(f) /\ DbCells(b) = DbCells(f)
      /\ \A id, cell : At(b, id, cell) = At(f, id, cell)
  BY <1>4, <1>6, <1>7, BooksEqual
<1> QED
  BY <1>1, <1>4, <1>5, <1>6, <1>8

-----------------------------------------------------------------------------
(* The commands                                                            *)

LEMMA EmptyRowIs ==
  ASSUME NEW id \in Nat, NEW data \in Nat
  PROVE  /\ EmptyRow(id, data) \in Seq(Nat)
         /\ Len(EmptyRow(id, data)) = RowCells(data)
         /\ EmptyRow(id, data)[1] = id
         /\ \A cell \in 2 .. RowCells(data) : EmptyRow(id, data)[cell] = NUL
<1>1. PICK e : e = [i \in 1 .. data |-> NUL]
  OBVIOUS
<1>2. e \in Seq(Nat) /\ Len(e) = data /\ \A i \in 1 .. data : e[i] = 0
  BY <1>1 DEF NUL
<1>3. PICK s : s = <<id, 0>> \o e
  OBVIOUS
<1>4. /\ s \in Seq(Nat) /\ Len(s) = 2 + data
      /\ s[1] = id /\ \A i \in 2 .. 2 + data : s[i] = 0
  <2>1. <<id, 0>> \in Seq(Nat) /\ Len(<<id, 0>>) = 2 /\ <<id, 0>>[1] = id /\ <<id, 0>>[2] = 0
    OBVIOUS
  <2>2. /\ s \in Seq(Nat) /\ Len(s) = Len(<<id, 0>>) + Len(e)
        /\ \A i \in 1 .. Len(<<id, 0>>) + Len(e) :
             s[i] = IF i <= Len(<<id, 0>>) THEN <<id, 0>>[i] ELSE e[i - Len(<<id, 0>>)]
    BY <1>2, <1>3, <2>1, ConcatProperties
  <2> QED
    BY <1>2, <2>1, <2>2
<1>5. PICK row : row = s \o e
  OBVIOUS
<1>6. /\ row \in Seq(Nat) /\ Len(row) = Len(s) + Len(e)
      /\ \A i \in 1 .. Len(s) + Len(e) : row[i] = IF i <= Len(s) THEN s[i] ELSE e[i - Len(s)]
  BY <1>2, <1>4, <1>5, ConcatProperties
<1>7. Len(row) = 2 + 2 * data /\ row[1] = id /\ \A i \in 2 .. 2 + 2 * data : row[i] = 0
  BY <1>2, <1>4, <1>6
<1>8. EmptyRow(id, data) = row
  BY <1>1, <1>3, <1>5 DEF EmptyRow, Empty
<1> QED
  BY <1>6, <1>7, <1>8 DEF RowCells, NUL

LEMMA EmptyRowsAre ==
  ASSUME NEW rows \in Nat, NEW data \in Nat
  PROVE  /\ EmptyRows(rows, data) \in Seq(Nat)
         /\ Len(EmptyRows(rows, data)) = rows * RowCells(data)
         /\ \A id \in 0 .. rows - 1, cell \in 1 .. RowCells(data) :
              EmptyRows(rows, data)[id * RowCells(data) + cell] = EmptyRow(id, data)[cell]
<1>1. PICK r \in Nat \ {0} : r = RowCells(data)
  BY DEF RowCells
<1>2. rows * r \in Nat
  BY RowsApart
<1>3. PICK e : e = [i \in 1 .. rows * r |-> EmptyRow((i - 1) \div r, data)[((i - 1) % r) + 1]]
  OBVIOUS
<1>4. ASSUME NEW i \in 1 .. rows * r
      PROVE  e[i] \in Nat
  <2>1. (i - 1) \div r \in Nat /\ ((i - 1) % r) + 1 \in 1 .. r
    BY <1>2
  <2>2. EmptyRow((i - 1) \div r, data)[((i - 1) % r) + 1] \in Nat
    <3>1. EmptyRow((i - 1) \div r, data) \in Seq(Nat) /\ Len(EmptyRow((i - 1) \div r, data)) = r
      BY <1>1, <2>1, EmptyRowIs
    <3> QED
      BY <2>1, <3>1, ElementOfSeq
  <2> QED
    BY <1>3, <2>2
<1>5. e \in Seq(Nat) /\ Len(e) = rows * r
  <2>1. e \in [1 .. rows * r -> Nat]
    BY <1>3, <1>4
  <2> QED
    BY <1>2, <2>1
<1>6. ASSUME NEW id \in 0 .. rows - 1, NEW cell \in 1 .. r
      PROVE  e[id * r + cell] = EmptyRow(id, data)[cell]
  <2>1. id \in Nat /\ rows \in Nat /\ id < rows /\ cell - 1 \in 0 .. r - 1 /\ (cell - 1) + 1 = cell
    OBVIOUS
  <2>2. id * r \in Nat /\ id * r + r <= rows * r
    BY <2>1, RowsApart
  <2>3. id * r + cell \in 1 .. rows * r /\ (id * r + cell) - 1 = id * r + (cell - 1)
    BY <1>2, <2>2
  <2>4. (id * r + (cell - 1)) \div r = id /\ (id * r + (cell - 1)) % r = cell - 1
    BY <2>1, DivMod
  <2> QED
    BY <1>3, <2>1, <2>3, <2>4
<1>7. e = EmptyRows(rows, data)
  BY <1>1, <1>3 DEF EmptyRows
<1> QED
  BY <1>1, <1>5, <1>6, <1>7

\* A new database has the rows it was asked for, all of them unset.
LEMMA CreatedFacts ==
  ASSUME NEW rows \in Nat, NEW data \in Nat,
         program = "p17" => rows = MAX_ROWS /\ data = MAX_DATA
  PROVE  LET b == Created(rows, data) IN
         /\ Usable(b) /\ Len(b) = DbCells(b)
         /\ Book(b) = [data |-> data, row |-> [id \in 0 .. rows - 1 |-> [set |-> FALSE]]]
<1>1. PICK e, b : e = EmptyRows(rows, data) /\ b = Created(rows, data)
  OBVIOUS
<1>2. PICK r \in Nat \ {0} : r = RowCells(data) /\ r = 2 + 2 * data
  BY DEF RowCells
<1>3. /\ e \in Seq(Nat) /\ Len(e) = rows * r
      /\ \A id \in 0 .. rows - 1, cell \in 1 .. r : e[id * r + cell] = EmptyRow(id, data)[cell]
  <2>1. /\ EmptyRows(rows, data) \in Seq(Nat)
        /\ Len(EmptyRows(rows, data)) = rows * RowCells(data)
        /\ \A id \in 0 .. rows - 1, cell \in 1 .. RowCells(data) :
             EmptyRows(rows, data)[id * RowCells(data) + cell] = EmptyRow(id, data)[cell]
    BY EmptyRowsAre
  <2> QED
    BY ONLY <1>1, <1>2, <2>1
<1>4. rows * r \in Nat
  BY RowsApart
<1>5. /\ b \in Seq(Nat) /\ Len(b) = Header + rows * r
      /\ \A i \in 1 .. rows * r : b[Header + i] = e[i]
      /\ Rows(b) = rows /\ Data(b) = data
  <2>1. CASE program = "p17"
    <3>1. b = e /\ Header = 0
      BY <1>1, <2>1 DEF Created, Header
    <3>2. Rows(b) = rows /\ Data(b) = data
      BY <2>1 DEF Rows, Data
    <3> QED
      BY <1>3, <1>4, <3>1, <3>2
  <2>2. CASE program # "p17"
    <3>1. b = <<rows, data>> \o e /\ Header = 2
      BY <1>1, <2>2 DEF Created, Header
    <3>2. /\ <<rows, data>> \in Seq(Nat) /\ Len(<<rows, data>>) = 2
          /\ <<rows, data>>[1] = rows /\ <<rows, data>>[2] = data
      OBVIOUS
    <3>3. /\ b \in Seq(Nat) /\ Len(b) = Len(<<rows, data>>) + Len(e)
          /\ \A i \in 1 .. Len(<<rows, data>>) + Len(e) :
               b[i] = IF i <= Len(<<rows, data>>) THEN <<rows, data>>[i]
                      ELSE e[i - Len(<<rows, data>>)]
      BY <1>3, <3>1, <3>2, ConcatProperties
    <3>4. /\ Len(b) = 2 + rows * r /\ b[1] = rows /\ b[2] = data
          /\ \A i \in 1 .. rows * r : b[2 + i] = e[i]
      BY <1>3, <1>4, <3>2, <3>3
    <3> QED
      BY <2>2, <3>1, <3>3, <3>4 DEF Rows, Data
  <2> QED
    BY <2>1, <2>2
<1>6. Whole(b) /\ DbCells(b) = Len(b)
  <2>1. DbCells(b) = Len(b)
    BY <1>2, <1>5 DEF DbCells
  <2>2. Len(b) \in Nat /\ Len(b) >= Header
    BY <1>4, <1>5, HeaderIs
  <2> QED
    BY <1>5, <2>1, <2>2 DEF Whole
<1>7. ASSUME NEW id \in 0 .. rows - 1, NEW cell \in 1 .. r
      PROVE  b[At(b, id, cell)] = IF cell = 1 THEN id ELSE 0
  <2>1. id \in Nat /\ id < rows /\ rows \in Nat
    OBVIOUS
  <2>2. id * r \in Nat /\ id * r + r <= rows * r
    BY <2>1, RowsApart
  <2>3. id * r + cell \in 1 .. rows * r
    BY <1>4, <2>2
  <2>4. At(b, id, cell) = Header + (id * r + cell)
    <3>1. At(b, id, cell) = Header + id * r + cell
      BY <1>2, <1>5 DEF At
    <3>2. Header \in Nat
      BY HeaderIs
    <3> QED
      BY ONLY <3>1, <3>2, <2>2, cell \in 1 .. r, r \in Nat
  <2>5. EmptyRow(id, data)[cell] = IF cell = 1 THEN id ELSE 0
    <3>1. /\ EmptyRow(id, data)[1] = id
          /\ \A c \in 2 .. RowCells(data) : EmptyRow(id, data)[c] = NUL
      BY <2>1, EmptyRowIs
    <3>2. cell = 1 \/ cell \in 2 .. RowCells(data)
      BY <1>2
    <3> QED
      BY <3>1, <3>2 DEF NUL
  <2> QED
    BY <1>3, <1>5, <2>3, <2>4, <2>5
<1>8. 1 \in 1 .. r /\ 2 \in 1 .. r /\ 2 + data \in 2 .. r /\ 2 + 2 * data \in 2 .. r
  BY <1>2
<1>9. Ids(b) = 0 .. rows - 1
  BY <1>5 DEF Ids
<1>10. Usable(b)
  <2>1. ASSUME NEW id \in 0 .. rows - 1
        PROVE  b[At(b, id, 1)] = id /\ TextsEnd(b, id)
    <3>1. b[At(b, id, 1)] = id /\ b[At(b, id, 2)] = 0
      BY <1>7, <1>8
    <3>2. b[At(b, id, 2 + data)] = 0 /\ b[At(b, id, 2 + 2 * data)] = 0
      BY <1>7, <1>8, 2 + data \in 1 .. r, 2 + 2 * data \in 1 .. r
    <3> QED
      BY <1>5, <3>1, <3>2 DEF TextsEnd, Valid, NUL
  <2> QED
    BY <1>6, <1>9, <2>1 DEF Usable
<1>11. \A id \in 0 .. rows - 1 : RowIn(b, id) = [set |-> FALSE]
  BY <1>7, <1>8 DEF RowIn, Valid
<1>12. Book(b) = [data |-> Data(b), row |-> [id \in Ids(b) |-> RowIn(b, id)]]
  BY <1>6, BookIs
<1>13. [id \in Ids(b) |-> RowIn(b, id)] = [id \in 0 .. rows - 1 |-> [set |-> FALSE]]
  BY <1>9, <1>11
<1> QED
  BY <1>1, <1>5, <1>6, <1>10, <1>12, <1>13

LEMMA PutIs ==
  ASSUME NEW b \in Seq(Nat), NEW at \in Nat \ {0}, NEW cells \in Seq(Nat)
  PROVE  /\ Put(b, at, cells) \in Seq(Nat)
         /\ Len(Put(b, at, cells)) = Len(b)
         /\ \A i \in 1 .. Len(b) : i \in at .. at + Len(cells) - 1 =>
              i - at + 1 \in 1 .. Len(cells) /\ Put(b, at, cells)[i] = cells[i - at + 1]
         /\ \A i \in 1 .. Len(b) : i \notin at .. at + Len(cells) - 1 =>
              Put(b, at, cells)[i] = b[i]
<1>1. PICK m \in Nat, n \in Nat : m = Len(b) /\ n = Len(cells)
  BY LenProperties
<1>2. PICK g : g = Put(b, at, cells)
  OBVIOUS
<1>3. g = [i \in 1 .. m |-> IF i \in at .. at + n - 1 THEN cells[i - at + 1] ELSE b[i]]
  BY <1>1, <1>2, SMTT(20) DEF Put
<1>4. \A i \in 1 .. m : i \in at .. at + n - 1 => i - at + 1 \in 1 .. n
  OBVIOUS
<1>5. ASSUME NEW i \in 1 .. m
      PROVE  g[i] \in Nat
  <2>1. CASE i \in at .. at + n - 1
    <3>1. cells[i - at + 1] \in Nat
      BY <1>1, <1>4, <2>1, ElementOfSeq
    <3> QED
      BY <1>3, <2>1, <3>1
  <2>2. CASE i \notin at .. at + n - 1
    <3>1. b[i] \in Nat
      BY <1>1, ElementOfSeq
    <3> QED
      BY <1>3, <2>2, <3>1
  <2> QED
    BY <2>1, <2>2
<1>6. g \in Seq(Nat) /\ Len(g) = m
  <2>1. g \in [1 .. m -> Nat]
    BY <1>3, <1>5
  <2> QED
    BY <2>1
<1> QED
  BY <1>1, <1>2, <1>3, <1>4, <1>6

LEMMA StrncpyIs ==
  ASSUME NEW text \in Seq(Nat \ {0}), NEW n \in Nat
  PROVE  /\ Strncpy(text, n) \in Seq(Nat) /\ Len(Strncpy(text, n)) = n
         /\ \A i \in 1 .. n : i <= Len(text) =>
              Strncpy(text, n)[i] = text[i] /\ text[i] \in Nat \ {0}
         /\ \A i \in 1 .. n : i > Len(text) => Strncpy(text, n)[i] = NUL
<1>1. PICK m \in Nat : m = Len(text)
  BY LenProperties
<1>2. \A i \in 1 .. m : text[i] \in Nat \ {0}
  BY <1>1, ElementOfSeq
<1>3. PICK s : s = Strncpy(text, n)
  OBVIOUS
<1>4. s = [i \in 1 .. n |-> IF i <= m THEN text[i] ELSE 0]
  BY <1>1, <1>3 DEF Strncpy, NUL
<1>5. \A i \in 1 .. n : /\ i <= m => s[i] = text[i] /\ text[i] \in Nat \ {0}
                        /\ i > m => s[i] = 0
  BY <1>2, <1>4
<1>6. s \in Seq(Nat) /\ Len(s) = n
  <2>1. \A i \in 1 .. n : s[i] \in Nat
    BY <1>5
  <2>2. s \in [1 .. n -> Nat]
    BY <1>4, <2>1
  <2> QED
    BY <2>2
<1> QED
  BY <1>1, <1>3, <1>5, <1>6 DEF NUL

\* What a field holds after a text was copied to it, all of its cells or all but
\* the last: as much of the text as fits.
Holds(f, base, text, copied) ==
  \A i \in 1 .. copied : f[base + i] = Strncpy(text, copied)[i]

LEMMA TextKept ==
  ASSUME NEW f, NEW base \in Nat, NEW n \in Nat \ {0}, NEW text \in Seq(Nat \ {0}),
         NEW copied \in {n - 1, n},
         Holds(f, base, text, copied), f[base + n] = NUL
  PROVE  Text(f, Field(base, n)) = Address!Kept(text, n)
<1>1. PICK m \in Nat : m = Len(text)
  BY LenProperties
<1>2. PICK k \in 0 .. n - 1 : k = Min({m, n - 1}) /\ k <= m /\ (k = m \/ k = n - 1)
  <2>1. {m, n - 1} \subseteq Nat /\ m \in {m, n - 1} /\ n - 1 \in {m, n - 1}
    OBVIOUS
  <2>2. CASE m <= n - 1
    <3>1. \A x \in {m, n - 1} : m <= x
      BY <2>2
    <3>2. Min({m, n - 1}) = m
      BY <2>1, <3>1, MinIs
    <3> QED
      BY <2>2, <3>2
  <2>3. CASE ~(m <= n - 1)
    <3>1. \A x \in {m, n - 1} : n - 1 <= x
      BY <2>3
    <3>2. Min({m, n - 1}) = n - 1
      BY <2>1, <3>1, MinIs
    <3> QED
      BY <2>3, <3>2
  <2> QED
    BY <2>2, <2>3
<1>3. copied \in Nat /\ n - 1 <= copied
  OBVIOUS
<1>4. /\ \A i \in 1 .. copied : i <= m => f[base + i] = text[i] /\ text[i] \in Nat \ {0}
      /\ \A i \in 1 .. copied : i > m => f[base + i] = NUL
  <2>1. /\ \A i \in 1 .. copied : i <= Len(text) =>
             Strncpy(text, copied)[i] = text[i] /\ text[i] \in Nat \ {0}
        /\ \A i \in 1 .. copied : i > Len(text) => Strncpy(text, copied)[i] = NUL
    BY <1>3, StrncpyIs
  <2> QED
    BY <1>1, <2>1 DEF Holds
<1>5. \A i \in 1 .. k : f[base + i] = text[i] /\ f[base + i] \in Nat \ {0}
  <2> TAKE i \in 1 .. k
  <2>1. i \in 1 .. copied /\ i <= m
    BY <1>2, <1>3
  <2> QED
    BY <1>4, <2>1
<1>6. f[base + k + 1] = NUL
  <2>1. CASE k = n - 1
    <3>1. base + k + 1 = base + n
      BY <2>1
    <3> QED
      BY <3>1
  <2>2. CASE k # n - 1
    <3>1. k + 1 \in 1 .. copied /\ k + 1 > m /\ base + (k + 1) = base + k + 1
      BY <1>2, <1>3, <2>2
    <3> QED
      BY <1>4, <3>1
  <2> QED
    BY <2>1, <2>2
<1>7. Ends(f, base, k)
  BY <1>5, <1>6 DEF Ends
<1>8. PICK kept : kept = [i \in 1 .. k |-> f[base + i]]
  OBVIOUS
<1>9. Text(f, Field(base, n)) = kept
  BY ONLY <1>7, <1>8, TextIs, base \in Nat, n \in Nat \ {0}, k \in 0 .. n - 1
<1>10. Address!Kept(text, n) = kept
  <2>1. Address!Min({m, n - 1}) = Min({m, n - 1})
    BY DEF Address!Min, Min
  <2>2. Address!Kept(text, n) = [i \in 1 .. k |-> text[i]]
    BY <1>1, <1>2, <2>1 DEF Address!Kept
  <2> QED
    BY <1>5, <1>8, <2>2
<1> QED
  BY <1>9, <1>10

\* Three pieces put behind each other: the set or valid, and two fields of n cells.
WrittenOver(w, b, p, n, copied, s, t) ==
  /\ w \in Seq(Nat) /\ Len(w) = Len(b)
  /\ w[p] = 1
  /\ \A i \in 1 .. copied : w[p + i] = s[i] /\ w[p + n + i] = t[i]
  /\ copied = n - 1 => w[p + n] = b[p + n] /\ w[p + 2 * n] = b[p + 2 * n]
  /\ \A i \in 1 .. Len(b) : i < p \/ i > p + 2 * n => w[i] = b[i]

LEMMA ThreePuts ==
  ASSUME NEW b \in Seq(Nat), NEW p \in Nat \ {0}, NEW n \in Nat \ {0}, p + 2 * n <= Len(b),
         NEW copied \in {n - 1, n},
         NEW s \in Seq(Nat), Len(s) = copied, NEW t \in Seq(Nat), Len(t) = copied,
         NEW w, w = Put(Put(Put(b, p, << 1 >>), p + 1, s), p + 1 + n, t)
  PROVE  WrittenOver(w, b, p, n, copied, s, t)
<1>1. PICK m \in Nat : m = Len(b) /\ p + 2 * n <= m
  BY LenProperties
<1>2. PICK u : u = Put(b, p, << 1 >>)
  OBVIOUS
<1>3. PICK v : v = Put(u, p + 1, s)
  OBVIOUS
<1>4. /\ u \in Seq(Nat) /\ Len(u) = m
      /\ u[p] = 1 /\ \A i \in 1 .. m : i # p => u[i] = b[i]
  <2>1. << 1 >> \in Seq(Nat) /\ Len(<< 1 >>) = 1 /\ << 1 >>[1] = 1
    OBVIOUS
  <2>2. /\ u \in Seq(Nat) /\ Len(u) = m
        /\ \A i \in 1 .. m : i \in p .. p + 1 - 1 => u[i] = << 1 >>[i - p + 1]
        /\ \A i \in 1 .. m : i \notin p .. p + 1 - 1 => u[i] = b[i]
    <3>1. /\ Put(b, p, << 1 >>) \in Seq(Nat)
          /\ Len(Put(b, p, << 1 >>)) = Len(b)
          /\ \A i \in 1 .. Len(b) : i \in p .. p + Len(<< 1 >>) - 1 =>
               i - p + 1 \in 1 .. Len(<< 1 >>) /\ Put(b, p, << 1 >>)[i] = << 1 >>[i - p + 1]
          /\ \A i \in 1 .. Len(b) : i \notin p .. p + Len(<< 1 >>) - 1 => Put(b, p, << 1 >>)[i] = b[i]
      BY ONLY <2>1, PutIs, p \in Nat \ {0}, b \in Seq(Nat), ZenonT(30)
    <3> QED
      BY ONLY <1>1, <1>2, <2>1, <3>1
  <2>3. p \in 1 .. m /\ p \in p .. p + 1 - 1 /\ p - p + 1 = 1
    BY <1>1
  <2>4. \A i \in 1 .. m : i # p => i \notin p .. p + 1 - 1
    OBVIOUS
  <2> QED
    BY <2>1, <2>2, <2>3, <2>4
<1>5. copied \in Nat /\ copied <= n /\ n - 1 <= copied
  OBVIOUS
<1>6. /\ v \in Seq(Nat) /\ Len(v) = m
      /\ \A i \in 1 .. m : i \in p + 1 .. p + 1 + copied - 1 => v[i] = s[i - (p + 1) + 1]
      /\ \A i \in 1 .. m : i \notin p + 1 .. p + 1 + copied - 1 => v[i] = u[i]
  <2>1. p + 1 \in Nat \ {0}
    OBVIOUS
  <2>2. /\ Put(u, p + 1, s) \in Seq(Nat)
        /\ Len(Put(u, p + 1, s)) = Len(u)
        /\ \A i \in 1 .. Len(u) : i \in p + 1 .. p + 1 + Len(s) - 1 =>
             i - (p + 1) + 1 \in 1 .. Len(s) /\ Put(u, p + 1, s)[i] = s[i - (p + 1) + 1]
        /\ \A i \in 1 .. Len(u) : i \notin p + 1 .. p + 1 + Len(s) - 1 => Put(u, p + 1, s)[i] = u[i]
    BY ONLY <1>4, <2>1, PutIs, s \in Seq(Nat), ZenonT(30)
  <2> QED
    BY ONLY <1>3, <1>4, <2>2, Len(s) = copied
<1>7. /\ w \in Seq(Nat) /\ Len(w) = m
      /\ \A i \in 1 .. m : i \in p + 1 + n .. p + 1 + n + copied - 1 => w[i] = t[i - (p + 1 + n) + 1]
      /\ \A i \in 1 .. m : i \notin p + 1 + n .. p + 1 + n + copied - 1 => w[i] = v[i]
  <2>1. p + 1 + n \in Nat \ {0}
    OBVIOUS
  <2>2. w = Put(v, p + 1 + n, t)
    BY <1>2, <1>3
  <2>3. /\ Put(v, p + 1 + n, t) \in Seq(Nat)
        /\ Len(Put(v, p + 1 + n, t)) = Len(v)
        /\ \A i \in 1 .. Len(v) : i \in p + 1 + n .. p + 1 + n + Len(t) - 1 =>
             i - (p + 1 + n) + 1 \in 1 .. Len(t) /\ Put(v, p + 1 + n, t)[i] = t[i - (p + 1 + n) + 1]
        /\ \A i \in 1 .. Len(v) : i \notin p + 1 + n .. p + 1 + n + Len(t) - 1 =>
             Put(v, p + 1 + n, t)[i] = v[i]
    BY ONLY <1>6, <2>1, PutIs, t \in Seq(Nat), ZenonT(30)
  <2> QED
    BY ONLY <1>6, <2>2, <2>3, Len(t) = copied
<1>8. w[p] = 1
  <2>1. p \in 1 .. m /\ p \notin p + 1 .. p + 1 + copied - 1 /\ p \notin p + 1 + n .. p + 1 + n + copied - 1
    BY <1>1, <1>5
  <2> QED
    BY <1>4, <1>6, <1>7, <2>1
<1>9. ASSUME NEW i \in 1 .. copied
      PROVE  w[p + i] = s[i] /\ w[p + n + i] = t[i]
  <2>1. /\ p + i \in 1 .. m /\ p + i \in p + 1 .. p + 1 + copied - 1
        /\ p + i \notin p + 1 + n .. p + 1 + n + copied - 1
        /\ (p + i) - (p + 1) + 1 = i
    BY <1>1, <1>5
  <2>2. /\ p + n + i \in 1 .. m
        /\ p + n + i \in p + 1 + n .. p + 1 + n + copied - 1
        /\ (p + n + i) - (p + 1 + n) + 1 = i
    BY <1>1, <1>5
  <2>3. w[p + i] = s[i]
    BY <1>6, <1>7, <2>1
  <2>4. w[p + n + i] = t[i]
    BY <1>7, <2>2
  <2> QED
    BY <2>3, <2>4
<1>10. ASSUME NEW i \in 1 .. m, i < p \/ i > p + 2 * n \/ (copied = n - 1 /\ (i = p + n \/ i = p + 2 * n))
       PROVE  w[i] = b[i]
  <2>1. /\ i # p /\ i \notin p + 1 .. p + 1 + copied - 1
        /\ i \notin p + 1 + n .. p + 1 + n + copied - 1
    BY <1>5, <1>10, SMTT(20)
  <2> QED
    BY <1>4, <1>6, <1>7, <2>1
<1>11. p + n \in 1 .. m /\ p + 2 * n \in 1 .. m
  BY <1>1
<1> QED
  BY <1>1, <1>7, <1>8, <1>9, <1>10, <1>11 DEF WrittenOver

\* Everything else in a file is in front of a row or behind it.
LEMMA OutsideRow ==
  ASSUME NEW f, Whole(f), NEW id \in Ids(f)
  PROVE  LET r == RowCells(Data(f)) IN
         /\ At(f, id, 1) \in Nat /\ At(f, id, r) = At(f, id, 1) + r - 1
         /\ \A i \in 1 .. Header : i < At(f, id, 1)
         /\ \A other \in Ids(f) \ {id}, cell \in 1 .. r :
              At(f, other, cell) < At(f, id, 1) \/ At(f, other, cell) > At(f, id, r)
<1>1. PICK r \in Nat \ {0} : r = RowCells(Data(f))
  BY WholeFacts
<1>2. PICK h \in Nat : h = Header
  BY HeaderIs
<1>3. \A i, c : At(f, i, c) = h + i * r + c
  BY <1>1, <1>2 DEF At
<1>4. Ids(f) \subseteq Nat
  BY DEF Ids, Whole
<1>5. id \in Nat /\ id * r \in Nat
  BY <1>4, RowsApart
<1>6. \A i \in 1 .. h : i < At(f, id, 1)
  BY <1>3, <1>5
<1>7. At(f, id, 1) \in Nat /\ At(f, id, r) = At(f, id, 1) + r - 1
  BY <1>3, <1>5
<1>8. ASSUME NEW other \in Ids(f) \ {id}, NEW cell \in 1 .. r
      PROVE  At(f, other, cell) < At(f, id, 1) \/ At(f, other, cell) > At(f, id, r)
  <2>1. other \in Nat /\ (other < id \/ id < other)
    BY <1>4, <1>5
  <2>2. other * r \in Nat
    BY <2>1, RowsApart
  <2>3. CASE other < id
    <3>1. other * r + r <= id * r
      BY <1>5, <2>1, <2>3, RowsApart
    <3>2. h + other * r + cell < h + id * r + 1
      BY <1>5, <2>2, <3>1
    <3> QED
      BY <1>3, <3>2
  <2>4. CASE id < other
    <3>1. id * r + r <= other * r
      BY <1>5, <2>1, <2>4, RowsApart
    <3>2. h + other * r + cell > h + id * r + r
      BY <1>5, <2>2, <3>1
    <3> QED
      BY <1>3, <3>2
  <2> QED
    BY <2>1, <2>3, <2>4
<1> QED
  BY <1>1, <1>2, <1>6, <1>7, <1>8

\* A database whose row id was written over.
LEMMA RowChanged ==
  ASSUME NEW b, Usable(b), NEW id \in Ids(b), NEW w \in Seq(Nat), Len(w) = Len(b),
         OnlyRow(w, b, id),
         w[At(b, id, 1)] = id,
         IF Data(b) = 0 THEN w[At(b, id, 2)] = 0
         ELSE w[At(b, id, 2 + Data(b))] = NUL /\ w[At(b, id, 2 + 2 * Data(b))] = NUL
  PROVE  /\ Usable(w) /\ DbCells(w) = DbCells(b)
         /\ Rows(w) = Rows(b) /\ Data(w) = Data(b)
         /\ \A i, cell : At(w, i, cell) = At(b, i, cell)
         /\ Book(w) = [Book(b) EXCEPT !.row[id] = RowIn(w, id)]
<1>1. Whole(b) /\ DbCells(b) \in Nat /\ DbCells(b) <= Len(b) /\ Header <= DbCells(b) /\ Header \in Nat
  BY WholeFacts, HeaderIs DEF Usable
<1>2. PICK n \in Nat : n = Data(b) /\ RowCells(Data(b)) = 2 + 2 * n
  BY <1>1, WholeFacts
<1>3. Len(b) \in Nat /\ Len(w) \in Nat
  BY <1>1, LenProperties DEF Whole
<1>4. /\ Rows(w) = Rows(b) /\ Data(w) = Data(b) /\ DbCells(w) = DbCells(b)
      /\ \A i, cell : At(w, i, cell) = At(b, i, cell)
  <2>1. \A i \in 1 .. Header : i \in 1 .. DbCells(b) /\ i < At(b, id, 1)
    BY <1>1, OutsideRow
  <2>2. \A i \in 1 .. Header : w[i] = b[i]
    BY <2>1 DEF OnlyRow
  <2> QED
    BY <2>2, SameShape
<1>5. \A other \in Ids(b) \ {id}, cell \in 1 .. 2 + 2 * n : w[At(b, other, cell)] = b[At(b, other, cell)]
  <2> TAKE other \in Ids(b) \ {id}, cell \in 1 .. 2 + 2 * n
  <2>1. At(b, other, cell) \in Header + 1 .. DbCells(b)
    BY <1>1, <1>2, CellFacts
  <2>2. At(b, other, cell) < At(b, id, 1) \/ At(b, other, cell) > At(b, id, RowCells(Data(b)))
    BY <1>1, <1>2, OutsideRow
  <2>3. At(b, other, cell) \in 1 .. DbCells(b)
    BY <1>1, <2>1
  <2> QED
    BY <2>2, <2>3 DEF OnlyRow
<1>6. Ids(w) = Ids(b)
  BY <1>4 DEF Ids
<1>7. Whole(w)
  BY <1>1, <1>3, <1>4 DEF Whole
<1>8. /\ 1 \in 1 .. 2 + 2 * n /\ 2 \in 1 .. 2 + 2 * n
      /\ 2 + n \in 1 .. 2 + 2 * n /\ 2 + 2 * n \in 1 .. 2 + 2 * n
  OBVIOUS
<1>9. ASSUME NEW i \in Ids(b)
      PROVE  w[At(w, i, 1)] = i /\ TextsEnd(w, i)
  <2>1. CASE i = id
    BY <1>2, <1>4, <2>1 DEF TextsEnd, Valid
  <2>2. CASE i # id
    <3>1. b[At(b, i, 1)] = i /\ TextsEnd(b, i)
      BY DEF Usable
    <3>2. /\ w[At(b, i, 1)] = b[At(b, i, 1)] /\ w[At(b, i, 2)] = b[At(b, i, 2)]
          /\ w[At(b, i, 2 + n)] = b[At(b, i, 2 + n)]
          /\ w[At(b, i, 2 + 2 * n)] = b[At(b, i, 2 + 2 * n)]
      BY <1>5, <1>8, <2>2
    <3> QED
      BY <1>2, <1>4, <3>1, <3>2 DEF TextsEnd, Valid
  <2> QED
    BY <2>1, <2>2
<1>10. Usable(w)
  BY <1>2, <1>4, <1>6, <1>7, <1>9 DEF Usable
<1>11. \A i \in Ids(b) \ {id} : RowIn(w, i) = RowIn(b, i)
  <2> TAKE i \in Ids(b) \ {id}
  <2>1. SameRow(b, w, i)
    <3>1. \A cell \in 2 .. RowCells(Data(b)) : cell \in 1 .. 2 + 2 * n
      BY <1>2
    <3> QED
      BY <1>5, <3>1 DEF SameRow
  <2> QED
    BY <1>4, <1>7, <2>1, RowsEqual
<1>12. Book(w) = [Book(b) EXCEPT !.row[id] = RowIn(w, id)]
  <2>1. Book(w) = [data |-> Data(w), row |-> [i \in Ids(w) |-> RowIn(w, i)]]
    BY <1>7, BookIs
  <2>2. Book(b) = [data |-> Data(b), row |-> [i \in Ids(b) |-> RowIn(b, i)]]
    BY <1>1, BookIs
  <2>3. PICK rec : rec = RowIn(w, id)
    OBVIOUS
  <2>4. [i \in Ids(w) |-> RowIn(w, i)] = [[i \in Ids(b) |-> RowIn(b, i)] EXCEPT ![id] = rec]
    BY <1>6, <1>11, <2>3
  <2>5. [Book(b) EXCEPT !.row[id] = rec] =
          [data |-> Data(b), row |-> [[i \in Ids(b) |-> RowIn(b, i)] EXCEPT ![id] = rec]]
    <3>1. PICK rows : rows = [i \in Ids(b) |-> RowIn(b, i)]
      OBVIOUS
    <3>2. PICK book, data : book = Book(b) /\ data = Data(b)
      OBVIOUS
    <3>3. book = [data |-> data, row |-> rows]
      BY ONLY <2>2, <3>1, <3>2
    <3>4. [book EXCEPT !.row[id] = rec] = [data |-> data, row |-> [rows EXCEPT ![id] = rec]]
      BY ONLY <3>3, SMTT(20)
    <3> QED
      BY ONLY <3>1, <3>2, <3>4, Zenon
  <2> QED
    BY <1>4, <2>1, <2>3, <2>4, <2>5
<1> QED
  BY <1>4, <1>10, <1>12

\* A set changes its row, to the texts as far as they fit.
LEMMA WithSetFacts ==
  ASSUME NEW b, Usable(b), Len(b) = DbCells(b), NEW id \in Ids(b),
         NEW name \in Texts, NEW email \in Texts,
         program = "p17" => Fits(name) /\ Fits(email),
         Data(file) = Data(b), Data(b) > 0
  PROVE  LET w == WithSet(b, id, name, email) IN
         /\ Usable(w) /\ Len(w) = DbCells(w)
         /\ Rows(w) = Rows(b) /\ Data(w) = Data(b)
         /\ OnlyRow(w, b, id) /\ Valid(w, id)
         /\ Book(w) = [Book(b) EXCEPT !.row[id] =
                         Address!Entry(Address!Kept(name, Data(b)), Address!Kept(email, Data(b)))]
<1>1. Whole(b) /\ b \in Seq(Nat)
  BY DEF Usable, Whole
<1>2. PICK n \in Nat \ {0} : n = Data(b) /\ RowCells(Data(b)) = 2 + 2 * n
  <2>1. Data(b) \in Nat \ {0} /\ RowCells(Data(b)) = 2 + 2 * Data(b)
    BY <1>1, WholeFacts
  <2> QED
    BY <2>1
<1>3. PICK p \in Nat \ {0} : p = At(b, id, 2) /\ At(b, id, 1) = p - 1
  <2>1. At(b, id, 1) \in Nat /\ At(b, id, 2) \in Nat
    BY <1>1, OutsideRow, FieldsAre
  <2>2. PICK d \in Nat : d = Header + id * RowCells(Data(b))
    <3>1. id \in Nat /\ RowCells(Data(b)) \in Nat \ {0}
      BY <1>1, <1>2 DEF Ids, Whole
    <3>2. id * RowCells(Data(b)) \in Nat
      BY <3>1, RowsApart
    <3> QED
      BY <3>2, HeaderIs
  <2>3. At(b, id, 1) = d + 1 /\ At(b, id, 2) = d + 2
    BY <2>2 DEF At
  <2> QED
    BY <2>2, <2>3
<1>4. /\ At(b, id, 3) = p + 1 /\ At(b, id, 3 + n) = p + 1 + n
      /\ At(b, id, 2 + n) = p + n /\ At(b, id, 2 + 2 * n) = p + 2 * n
  <2>1. \A i \in Nat : At(b, id, 2) + i = At(b, id, 2 + i)
    BY <1>1, FieldsAre
  <2>2. /\ At(b, id, 2 + 1) = p + 1 /\ At(b, id, 2 + (1 + n)) = p + (1 + n)
        /\ At(b, id, 2 + n) = p + n /\ At(b, id, 2 + 2 * n) = p + 2 * n
    <3>1. 1 \in Nat /\ 1 + n \in Nat /\ n \in Nat /\ 2 * n \in Nat
      OBVIOUS
    <3> QED
      BY ONLY <1>3, <2>1, <3>1
  <2>3. 2 + 1 = 3 /\ 2 + (1 + n) = 3 + n /\ p + (1 + n) = p + 1 + n
    OBVIOUS
  <2> QED
    BY <2>2, <2>3
<1>5. p + 2 * n \in 1 .. Len(b)
  <2>1. 2 + 2 * n \in 1 .. RowCells(Data(b))
    BY <1>2
  <2>2. At(b, id, 2 + 2 * n) \in 1 .. Len(b)
    BY <1>1, <2>1, CellFacts
  <2> QED
    BY <1>4, <2>2
<1>6. PICK copied \in {n - 1, n} :
        copied = Copied /\ (copied = n => Len(name) < n /\ Len(email) < n)
  <2>1. CASE program = "p17"
    <3>1. Copied = n /\ MAX_DATA = n
      BY <1>2, <2>1 DEF Copied, Data
    <3> QED
      BY <2>1, <3>1 DEF Fits
  <2>2. CASE program # "p17"
    <3>1. Copied = n - 1 /\ n - 1 # n
      BY <1>2, <2>2 DEF Copied
    <3> QED
      BY <3>1
  <2> QED
    BY <2>1, <2>2
<1>7. name \in Seq(Nat \ {0}) /\ email \in Seq(Nat \ {0}) /\ copied \in Nat
  BY RecordFileAssumption
<1>8. PICK s, t : s = Strncpy(name, copied) /\ t = Strncpy(email, copied)
  OBVIOUS
<1>9. s \in Seq(Nat) /\ Len(s) = copied /\ t \in Seq(Nat) /\ Len(t) = copied
  BY <1>7, <1>8, StrncpyIs
<1>10. PICK w : w = WithSet(b, id, name, email)
  OBVIOUS
<1>11. w = Put(Put(Put(b, p, << 1 >>), p + 1, s), p + 1 + n, t)
  <2>1. At(b, id, 3 + Data(b)) = p + 1 + n
    BY <1>2, <1>4
  <2> QED
    BY <1>3, <1>4, <1>6, <1>8, <1>10, <2>1 DEF WithSet
<1>12. /\ w \in Seq(Nat) /\ Len(w) = Len(b)
       /\ w[p] = 1
       /\ \A i \in 1 .. copied : w[p + i] = s[i] /\ w[p + n + i] = t[i]
       /\ copied = n - 1 => w[p + n] = b[p + n] /\ w[p + 2 * n] = b[p + 2 * n]
       /\ \A i \in 1 .. Len(b) : i < p \/ i > p + 2 * n => w[i] = b[i]
  <2>1. p + 2 * n <= Len(b)
    BY <1>5
  <2> QED
    <3>1. WrittenOver(w, b, p, n, copied, s, t)
      BY ONLY <1>1, <1>9, <1>11, <2>1, ThreePuts, p \in Nat \ {0}, n \in Nat \ {0},
              copied \in {n - 1, n}
    <3> QED
      BY <3>1 DEF WrittenOver
<1>13. w[p + n] = NUL /\ w[p + 2 * n] = NUL
  <2>1. CASE copied = n - 1
    <3>1. b[p + n] = NUL /\ b[p + 2 * n] = NUL
      BY <1>2, <1>4 DEF Usable, TextsEnd
    <3> QED
      BY <1>12, <2>1, <3>1
  <2>2. CASE copied = n
    <3>1. n \in 1 .. copied /\ n > Len(name) /\ n > Len(email)
      BY <1>6, <1>7, <2>2, LenProperties
    <3>2. s[n] = NUL
      <4>1. \A i \in 1 .. copied : i > Len(name) => Strncpy(name, copied)[i] = NUL
        BY <1>7, StrncpyIs
      <4> QED
        BY <1>8, <3>1, <4>1
    <3>3. t[n] = NUL
      <4>1. \A i \in 1 .. copied : i > Len(email) => Strncpy(email, copied)[i] = NUL
        BY <1>7, StrncpyIs
      <4> QED
        BY <1>8, <3>1, <4>1
    <3>4. w[p + n] = s[n] /\ w[p + n + n] = t[n] /\ p + n + n = p + 2 * n
      BY <1>12, <3>1
    <3> QED
      BY <3>2, <3>3, <3>4
  <2> QED
    BY <2>1, <2>2
<1>14. /\ OnlyRow(w, b, id)
       /\ Usable(w) /\ DbCells(w) = DbCells(b)
       /\ Rows(w) = Rows(b) /\ Data(w) = Data(b)
       /\ \A i, cell : At(w, i, cell) = At(b, i, cell)
       /\ Book(w) = [Book(b) EXCEPT !.row[id] = RowIn(w, id)]
  <2>1. At(b, id, RowCells(Data(b))) = p + 2 * n /\ At(b, id, 1) < p
    BY <1>2, <1>3, <1>4
  <2>2. OnlyRow(w, b, id)
    <3> SUFFICES \A i \in 1 .. Len(b) :
          i < At(b, id, 1) \/ i > At(b, id, RowCells(Data(b))) => w[i] = b[i]
      BY DEF OnlyRow
    <3> TAKE i \in 1 .. Len(b)
    <3>1. i < p - 1 => i < p
      OBVIOUS
    <3> QED
      BY <1>3, <1>12, <2>1, <3>1
  <2>3. w[At(b, id, 1)] = id
    <3>1. At(b, id, 1) \in 1 .. Len(b)
      BY <1>1, <1>2, CellFacts
    <3>2. b[At(b, id, 1)] = id
      BY DEF Usable
    <3> QED
      BY <1>12, <2>1, <3>1, <3>2
  <2>4. IF Data(b) = 0 THEN w[At(b, id, 2)] = 0
        ELSE w[At(b, id, 2 + Data(b))] = NUL /\ w[At(b, id, 2 + 2 * Data(b))] = NUL
    BY <1>2, <1>4, <1>13
  <2> QED
    <3>1. w \in Seq(Nat) /\ Len(w) = Len(b)
      BY <1>12
    <3> QED
      BY ONLY <2>2, <2>3, <2>4, <3>1, RowChanged, Usable(b), id \in Ids(b)
<1>15. Valid(w, id)
  BY <1>3, <1>12, <1>14 DEF Valid
<1>16. Text(w, Field(p, n)) = Address!Kept(name, n)
  <2>1. Holds(w, p, name, copied)
    BY <1>8, <1>12 DEF Holds
  <2>2. p \in Nat
    OBVIOUS
  <2> QED
    BY ONLY <1>7, <1>13, <2>1, <2>2, TextKept, n \in Nat \ {0}, copied \in {n - 1, n}
<1>17. Text(w, Field(p + n, n)) = Address!Kept(email, n)
  <2>1. Holds(w, p + n, email, copied)
    BY <1>8, <1>12 DEF Holds
  <2>2. w[(p + n) + n] = NUL
    <3>1. (p + n) + n = p + 2 * n
      OBVIOUS
    <3> QED
      BY <1>13, <3>1
  <2>3. p + n \in Nat
    OBVIOUS
  <2> QED
    BY ONLY <1>7, <2>1, <2>2, <2>3, TextKept, n \in Nat \ {0}, copied \in {n - 1, n}
<1>18. RowIn(w, id) = Address!Entry(Address!Kept(name, n), Address!Kept(email, n))
  <2>1. At(w, id, 2) = p /\ At(w, id, 2 + Data(w)) = p + n /\ Data(w) = n
    BY <1>2, <1>3, <1>4, <1>14
  <2> QED
    BY <1>15, <1>16, <1>17, <2>1 DEF RowIn, Address!Entry
<1> QED
  BY <1>2, <1>10, <1>12, <1>14, <1>15, <1>18

\* A delete unsets its row, whether it clears all of it or not.
LEMMA WithDeleteFacts ==
  ASSUME NEW b, Usable(b), Len(b) = DbCells(b), NEW id \in Ids(b)
  PROVE  LET w == WithDelete(b, id) IN
         /\ Usable(w) /\ Len(w) = DbCells(w)
         /\ Rows(w) = Rows(b) /\ Data(w) = Data(b)
         /\ OnlyRow(w, b, id) /\ ~Valid(w, id)
         /\ Book(w) = [Book(b) EXCEPT !.row[id] = Address!Unset]
<1>1. Whole(b) /\ b \in Seq(Nat)
  BY DEF Usable, Whole
<1>2. PICK n \in Nat : n = Data(b) /\ RowCells(Data(b)) = 2 + 2 * n
  BY <1>1, WholeFacts
<1>3. /\ 1 \in 1 .. 2 + 2 * n /\ 2 \in 1 .. 2 + 2 * n
      /\ 2 + n \in 2 .. 2 + 2 * n /\ 2 + 2 * n \in 2 .. 2 + 2 * n
  OBVIOUS
<1>4. id \in Nat
  BY <1>1 DEF Ids, Whole
<1>5. PICK q \in Nat \ {0} : q = At(b, id, 1) /\ q + 2 * n + 1 \in 1 .. Len(b)
                             /\ \A cell \in Nat : At(b, id, cell) = q + cell - 1
  <2>1. PICK d \in Nat : d = Header + id * RowCells(Data(b))
    <3>1. RowCells(Data(b)) \in Nat \ {0}
      BY <1>2
    <3>2. id * RowCells(Data(b)) \in Nat
      BY <1>4, <3>1, RowsApart
    <3> QED
      BY <3>2, HeaderIs
  <2>2. \A cell : At(b, id, cell) = d + cell
    BY <2>1 DEF At
  <2>3. At(b, id, 2 + 2 * n) \in 1 .. Len(b)
    <3>1. 2 + 2 * n \in 1 .. RowCells(Data(b))
      BY <1>2
    <3> QED
      BY <1>1, <3>1, CellFacts
  <2>4. d + 1 \in Nat \ {0} /\ d + 1 = At(b, id, 1) /\ d + 1 + 2 * n + 1 \in 1 .. Len(b)
    BY <2>2, <2>3
  <2>5. \A cell \in Nat : At(b, id, cell) = d + 1 + cell - 1
    BY <2>2
  <2> QED
    BY <2>4, <2>5
<1>6. PICK w : w = WithDelete(b, id)
  OBVIOUS
<1>7. b[q] = id /\ (n # 0 => b[q + 1 + n] = NUL /\ b[q + 1 + 2 * n] = NUL)
  <2>1. b[At(b, id, 1)] = id /\ (n # 0 => b[At(b, id, 2 + n)] = NUL /\ b[At(b, id, 2 + 2 * n)] = NUL)
    BY <1>2 DEF Usable, TextsEnd
  <2>2. At(b, id, 2 + n) = q + (2 + n) - 1 /\ At(b, id, 2 + 2 * n) = q + (2 + 2 * n) - 1
    <3>1. 2 + n \in Nat /\ 2 + 2 * n \in Nat
      OBVIOUS
    <3> QED
      BY <1>5, <3>1
  <2>3. q + (2 + n) - 1 = q + 1 + n /\ q + (2 + 2 * n) - 1 = q + 1 + 2 * n
    OBVIOUS
  <2> QED
    BY <1>5, <2>1, <2>2, <2>3
<1>8. /\ w \in Seq(Nat) /\ Len(w) = Len(b)
      /\ w[q] = id /\ w[q + 1] = 0 /\ w[q + 1 + n] = NUL /\ w[q + 1 + 2 * n] = NUL
      /\ \A i \in 1 .. Len(b) : i < q \/ i > q + 1 + 2 * n => w[i] = b[i]
  <2>0. /\ q \in 1 .. Len(b) /\ q + 1 \in 1 .. Len(b)
        /\ q + 1 + n \in 1 .. Len(b) /\ q + 1 + 2 * n \in 1 .. Len(b)
    <3>1. Len(b) \in Nat /\ q + 2 * n + 1 \in 1 .. Len(b)
      BY <1>1, <1>5, LenProperties
    <3> QED
      BY ONLY <3>1, q \in Nat \ {0}, n \in Nat
  <2>1. CASE program = "p17"
    <3>1. PICK e : e = EmptyRow(id, n)
      OBVIOUS
    <3>2. w = Put(b, q, e)
      <4>1. MAX_DATA = n
        BY <1>2, <2>1 DEF Data
      <4> QED
        BY <1>5, <1>6, <2>1, <3>1, <4>1 DEF WithDelete
    <3>3. e \in Seq(Nat) /\ Len(e) = 2 + 2 * n /\ e[1] = id /\ \A c \in 2 .. 2 + 2 * n : e[c] = NUL
      <4>1. /\ EmptyRow(id, n) \in Seq(Nat)
            /\ Len(EmptyRow(id, n)) = RowCells(n)
            /\ EmptyRow(id, n)[1] = id
            /\ \A cell \in 2 .. RowCells(n) : EmptyRow(id, n)[cell] = NUL
        BY <1>4, EmptyRowIs
      <4> QED
        BY <1>2, <3>1, <4>1
    <3>4. /\ w \in Seq(Nat) /\ Len(w) = Len(b)
          /\ \A i \in 1 .. Len(b) : i \in q .. q + (2 + 2 * n) - 1 => w[i] = e[i - q + 1]
          /\ \A i \in 1 .. Len(b) : i \notin q .. q + (2 + 2 * n) - 1 => w[i] = b[i]
      <4>1. /\ Put(b, q, e) \in Seq(Nat)
            /\ Len(Put(b, q, e)) = Len(b)
            /\ \A i \in 1 .. Len(b) : i \in q .. q + Len(e) - 1 =>
                 i - q + 1 \in 1 .. Len(e) /\ Put(b, q, e)[i] = e[i - q + 1]
            /\ \A i \in 1 .. Len(b) : i \notin q .. q + Len(e) - 1 => Put(b, q, e)[i] = b[i]
        BY ONLY <1>1, <3>3, PutIs, q \in Nat \ {0}
      <4> QED
        BY ONLY <3>2, <3>3, <4>1
    <3>5. \A i \in {q, q + 1, q + 1 + n, q + 1 + 2 * n} : i \in q .. q + (2 + 2 * n) - 1
      OBVIOUS
    <3>6. w[q] = e[1] /\ w[q + 1] = e[2] /\ w[q + 1 + n] = e[2 + n] /\ w[q + 1 + 2 * n] = e[2 + 2 * n]
      <4>1. /\ q - q + 1 = 1 /\ (q + 1) - q + 1 = 2
            /\ (q + 1 + n) - q + 1 = 2 + n /\ (q + 1 + 2 * n) - q + 1 = 2 + 2 * n
        OBVIOUS
      <4> QED
        BY <2>0, <3>4, <3>5, <4>1
    <3>7. 2 \in 2 .. 2 + 2 * n
      OBVIOUS
    <3>8. \A i \in 1 .. Len(b) : i < q \/ i > q + 1 + 2 * n => i \notin q .. q + (2 + 2 * n) - 1
      OBVIOUS
    <3> QED
      BY <1>3, <3>3, <3>4, <3>6, <3>7, <3>8 DEF NUL
  <2>2. CASE program # "p17"
    <3>1. w = Put(b, q + 1, << 0 >>)
      <4>1. At(b, id, 2) = q + 1
        BY <1>5
      <4> QED
        BY <1>4, <1>6, <2>2, <4>1 DEF WithDelete, ValidAt
    <3>2. << 0 >> \in Seq(Nat) /\ Len(<< 0 >>) = 1 /\ << 0 >>[1] = 0 /\ q + 1 \in Nat \ {0}
      OBVIOUS
    <3>3. /\ w \in Seq(Nat) /\ Len(w) = Len(b)
          /\ \A i \in 1 .. Len(b) : i \in q + 1 .. q + 1 + 1 - 1 => w[i] = << 0 >>[i - (q + 1) + 1]
          /\ \A i \in 1 .. Len(b) : i \notin q + 1 .. q + 1 + 1 - 1 => w[i] = b[i]
      <4>1. /\ Put(b, q + 1, << 0 >>) \in Seq(Nat)
            /\ Len(Put(b, q + 1, << 0 >>)) = Len(b)
            /\ \A i \in 1 .. Len(b) : i \in q + 1 .. q + 1 + Len(<< 0 >>) - 1 =>
                 i - (q + 1) + 1 \in 1 .. Len(<< 0 >>) /\ Put(b, q + 1, << 0 >>)[i] = << 0 >>[i - (q + 1) + 1]
            /\ \A i \in 1 .. Len(b) : i \notin q + 1 .. q + 1 + Len(<< 0 >>) - 1 =>
                 Put(b, q + 1, << 0 >>)[i] = b[i]
        BY ONLY <1>1, <3>2, PutIs, ZenonT(30)
      <4> QED
        BY ONLY <3>1, <3>2, <4>1
    <3>4. q + 1 \in q + 1 .. q + 1 + 1 - 1 /\ (q + 1) - (q + 1) + 1 = 1
      OBVIOUS
    <3>5. \A i \in 1 .. Len(b) : i # q + 1 => i \notin q + 1 .. q + 1 + 1 - 1
      OBVIOUS
    <3>6. w[q + 1] = 0
      BY <2>0, <3>2, <3>3, <3>4
    <3>7. \A i \in 1 .. Len(b) : i # q + 1 => w[i] = b[i]
      BY <3>3, <3>5
    <3>8. q # q + 1 /\ (n # 0 => q + 1 + n # q + 1 /\ q + 1 + 2 * n # q + 1)
      OBVIOUS
    <3>9. n = 0 => q + 1 + n = q + 1 /\ q + 1 + 2 * n = q + 1
      OBVIOUS
    <3>10. w[q + 1 + n] = NUL /\ w[q + 1 + 2 * n] = NUL
      <4>1. CASE n = 0
        BY <3>6, <3>9, <4>1 DEF NUL
      <4>2. CASE n # 0
        BY <1>7, <2>0, <3>7, <3>8, <4>2
      <4> QED
        BY <4>1, <4>2
    <3>11. w[q] = id
      BY <1>7, <2>0, <3>7, <3>8
    <3>12. \A i \in 1 .. Len(b) : i < q \/ i > q + 1 + 2 * n => i # q + 1
      OBVIOUS
    <3> QED
      BY <3>3, <3>6, <3>7, <3>10, <3>11, <3>12
  <2> QED
    BY <2>1, <2>2
<1>9. /\ OnlyRow(w, b, id)
      /\ Usable(w) /\ DbCells(w) = DbCells(b)
      /\ Rows(w) = Rows(b) /\ Data(w) = Data(b)
      /\ \A i, cell : At(w, i, cell) = At(b, i, cell)
      /\ Book(w) = [Book(b) EXCEPT !.row[id] = RowIn(w, id)]
  <2>1. /\ At(b, id, RowCells(Data(b))) = q + 1 + 2 * n
        /\ At(b, id, 2 + Data(b)) = q + 1 + n /\ At(b, id, 2 + 2 * Data(b)) = q + 1 + 2 * n
    <3>1. 2 + 2 * n \in Nat /\ 2 + n \in Nat
      OBVIOUS
    <3>2. At(b, id, 2 + 2 * n) = q + (2 + 2 * n) - 1 /\ At(b, id, 2 + n) = q + (2 + n) - 1
      BY <1>5, <3>1
    <3> QED
      BY <1>2, <3>2, SMTT(20)
  <2>2. OnlyRow(w, b, id)
    BY <1>5, <1>8, <2>1 DEF OnlyRow
  <2>3. /\ w[At(b, id, 1)] = id
        /\ IF Data(b) = 0 THEN w[At(b, id, 2)] = 0
           ELSE w[At(b, id, 2 + Data(b))] = NUL /\ w[At(b, id, 2 + 2 * Data(b))] = NUL
    <3>1. At(b, id, 2) = q + 1
      BY <1>5
    <3>2. w[At(b, id, 1)] = id /\ w[At(b, id, 2)] = 0
      BY <1>5, <1>8, <3>1
    <3> QED
      BY <1>8, <2>1, <3>2
  <2>4. w \in Seq(Nat) /\ Len(w) = Len(b)
    BY <1>8
  <2> QED
    BY ONLY <2>2, <2>3, <2>4, RowChanged, Usable(b), id \in Ids(b)
<1>10. ~Valid(w, id)
  <2>1. At(w, id, 2) = q + 1
    <3>1. At(b, id, 2) = q + 2 - 1
      BY <1>5
    <3> QED
      BY <1>9, <3>1
  <2> QED
    BY <1>8, <2>1 DEF Valid
<1>11. RowIn(w, id) = Address!Unset
  BY <1>10 DEF RowIn, Address!Unset
<1> QED
  BY <1>6, <1>8, <1>9, <1>10, <1>11

\* The delete of row -1 leaves what was there, or no rows.
LEMMA WithoutRowsFacts ==
  ASSUME NEW b, Usable(b), program = "p17_2", Data(b) \in {0, 2}
  PROVE  LET w == WithDelete(b, -1) IN
         Usable(w) /\ Book(w) = Address!WithoutRows(Book(b))
<1>1. Whole(b) /\ b \in Seq(Nat) /\ Len(b) >= 2 /\ Header = 2 /\ Len(b) \in Nat
  BY LenProperties DEF Usable, Whole, Header
<1>0. PICK at \in {1, 2} : at = IF Data(b) = 0 THEN 2 ELSE 1
  OBVIOUS
<1>2. PICK w : /\ at = IF Data(b) = 0 THEN 2 ELSE 1
               /\ w = Put(b, at, << 0 >>) /\ w = WithDelete(b, -1)
  BY <1>0 DEF WithDelete, ValidAt
<1>3. /\ w \in Seq(Nat) /\ Len(w) = Len(b)
      /\ w[at] = 0 /\ \A i \in 1 .. Len(b) : i # at => w[i] = b[i]
  <2>1. << 0 >> \in Seq(Nat) /\ Len(<< 0 >>) = 1 /\ << 0 >>[1] = 0 /\ at \in Nat \ {0}
    OBVIOUS
  <2>2. /\ Put(b, at, << 0 >>) \in Seq(Nat)
        /\ Len(Put(b, at, << 0 >>)) = Len(b)
        /\ \A i \in 1 .. Len(b) : i \in at .. at + Len(<< 0 >>) - 1 =>
             i - at + 1 \in 1 .. Len(<< 0 >>) /\ Put(b, at, << 0 >>)[i] = << 0 >>[i - at + 1]
        /\ \A i \in 1 .. Len(b) : i \notin at .. at + Len(<< 0 >>) - 1 =>
             Put(b, at, << 0 >>)[i] = b[i]
    BY ONLY <1>1, <2>1, PutIs, ZenonT(30)
  <2>3. \A i \in 1 .. Len(b) : i \in at .. at + 1 - 1 <=> i = at
    OBVIOUS
  <2>4. at \in 1 .. Len(b) /\ at - at + 1 = 1
    BY <1>1
  <2> QED
    BY <1>2, <2>1, <2>2, <2>3, <2>4
<1>4. Book(b) = [data |-> Data(b), row |-> [id \in Ids(b) |-> RowIn(b, id)]]
  BY <1>1, BookIs
<1>5. CASE Data(b) = 0
  <2>1. b[2] = 0 /\ at = 2
    BY <1>2, <1>5 DEF Data
  <2>2. \A i \in 1 .. Len(b) : w[i] = b[i]
    BY <1>3, <2>1
  <2>3. DbCells(b) <= Len(b) /\ DbCells(b) \in Nat
    BY <1>1, WholeFacts
  <2>4. \A i \in 1 .. DbCells(b) : w[i] = b[i]
    BY <1>1, <2>2, <2>3
  <2>5. Len(w) >= DbCells(b)
    BY <1>1, <1>3, <2>3
  <2>6. Usable(w) /\ Book(w) = Book(b)
    BY ONLY <1>3, <2>4, <2>5, BooksEqual, Usable(b)
  <2>7. Address!WithoutRows(Book(b)) = Book(b)
    BY <1>4, <1>5 DEF Address!WithoutRows
  <2> QED
    BY <1>2, <2>6, <2>7
<1>6. CASE Data(b) = 2
  <2>1. Rows(w) = 0 /\ Data(w) = 2
    <3>1. at = 1 /\ b[2] = 2
      BY <1>2, <1>6 DEF Data
    <3>2. w[1] = 0 /\ w[2] = 2
      BY <1>1, <1>3, <3>1
    <3> QED
      BY <3>2 DEF Rows, Data
  <2>2. DbCells(w) = 2
    BY <1>1, <2>1 DEF DbCells, RowCells
  <2>3. Whole(w)
    BY <1>1, <1>3, <2>1, <2>2 DEF Whole
  <2>4. Ids(w) = {}
    BY <2>1 DEF Ids
  <2>5. Usable(w)
    BY <2>3, <2>4 DEF Usable
  <2>6. Book(w) = [data |-> 2, row |-> [id \in {} |-> RowIn(w, id)]]
    BY <2>1, <2>3, <2>4, BookIs
  <2>7. [id \in {} |-> RowIn(w, id)] = [i \in {} |-> Address!Unset]
    OBVIOUS
  <2>8. Address!WithoutRows(Book(b)) = [data |-> 2, row |-> [i \in {} |-> Address!Unset]]
    BY <1>4, <1>6 DEF Address!WithoutRows
  <2> QED
    BY <1>2, <2>5, <2>6, <2>7, <2>8
<1> QED
  BY <1>5, <1>6

-----------------------------------------------------------------------------
(* The steps                                                               *)

\* The layout depends on the program, which does not change.
LEMMA NextFile ==
  ASSUME program' = program, NEW f, file' = f
  PROVE  /\ Sound(file)' <=> Sound(f)
         /\ Book(file)' = Book(f)
<1>1. Sound(file)' <=> Sound(f)
  BY DEF Sound, Loads, Usable, Whole, TextsEnd, Valid, Rows, Data, DbCells, Header, At, Ids
<1>2. Book(file)' = Book(f)
  BY DEF Book, Loads, Rows, Data, DbCells, Header, At, Valid, NameAt, EmailAt
<1> QED
  BY <1>1, <1>2

LEMMA NextMeant ==
  ASSUME program' = program, NEW c, NEW b, NEW f, cmd' = c, buffer' = b, before' = f
  PROVE  Meant(cmd, buffer, before)' <=> Meant(c, b, f)
BY DEF Meant, ChangesOneRow, DeletesNoRow, OnlyRow, Sound, Book, Loads, Usable, Whole, TextsEnd,
       Rows, Data, DbCells, Header, At, Ids, Valid, NameAt, EmailAt

\* An empty file does not load.
LEMMA EmptyFile == Sound(<<>>) /\ Book(<<>>) = Address!Lost
<1>1. PICK f : f = <<>>
  OBVIOUS
<1>2. f \in Seq(Nat) /\ Len(f) = 0
  BY <1>1
<1>3. ~Loads(f)
  <2>1. CASE program = "p17"
    <3>1. MAX_ROWS \in Nat \ {0} /\ RowCells(MAX_DATA) \in Nat \ {0}
      BY RecordFileAssumption DEF RowCells
    <3>2. 1 * RowCells(MAX_DATA) \in Nat /\ MAX_ROWS * RowCells(MAX_DATA) \in Nat \ {0}
      BY ONLY <3>1
    <3>3. DbCells(f) = MAX_ROWS * RowCells(MAX_DATA)
      BY <2>1, <3>2 DEF DbCells, Header, Rows, Data
    <3> QED
      BY <1>2, <3>2, <3>3 DEF Loads
  <2>2. CASE program # "p17"
    BY <1>2, <2>2 DEF Loads, Header
  <2> QED
    BY <2>1, <2>2
<1> QED
  BY <1>1, <1>2, <1>3 DEF Sound, Book, Address!Lost

LEMMA InitKeeps == Init => BookInv
<1> SUFFICES ASSUME Init PROVE BookInv
  OBVIOUS
<1>1. Sound(file)
  BY EmptyFile DEF Init
<1>2. <<>> \in Seq(Nat) /\ Len(<<>>) = 0
  OBVIOUS
<1>3. /\ program \in {"p17", "p17_2"} /\ opened = FALSE /\ written = 0 /\ cmd = NoCmd
      /\ file = <<>> /\ buffer = <<>> /\ before = <<>>
  BY DEF Init
<1>4. written \in 0 .. Len(buffer)
  BY <1>2, <1>3
<1>5. file \in Seq(Nat) /\ buffer \in Seq(Nat) /\ before \in Seq(Nat)
  BY <1>2, <1>3
<1> QED
  BY <1>1, <1>3, <1>4, <1>5 DEF BookInv

LEMMA BeginKeeps ==
  ASSUME BookInv, NEW c, NEW b, c # NoCmd, b \in Seq(Nat), Meant(c, b, file), Begin(c, b)
  PROVE  BookInv'
<1>1. /\ program' = program /\ cmd' = c /\ buffer' = b /\ before' = file
      /\ file' = file /\ opened' = opened /\ written' = written /\ cmd = NoCmd
  BY DEF Begin
<1>2. opened = FALSE /\ written = 0 /\ file \in Seq(Nat) /\ program \in {"p17", "p17_2"}
  BY <1>1 DEF BookInv
<1>3. Meant(cmd, buffer, before)'
  <2>1. PICK f : f = file
    OBVIOUS
  <2>2. Meant(c, b, f) /\ before' = f
    BY <1>1, <2>1
  <2> QED
    BY <1>1, <2>2, NextMeant
<1>4. written' \in 0 .. Len(buffer')
  BY <1>1, <1>2, LenProperties
<1> QED
  BY <1>1, <1>2, <1>3, <1>4 DEF BookInv, NoCmd

\* The commands mean what AddressBook says.
LEMMA CreateMeant ==
  ASSUME BookInv, cmd = NoCmd, NEW rows \in Nat, NEW data \in Nat,
         program = "p17" => rows = MAX_ROWS /\ data = MAX_DATA
  PROVE  /\ Meant([op |-> "c", rows |-> rows, data |-> data], Created(rows, data), file)
         /\ Created(rows, data) \in Seq(Nat)
<1>1. PICK b : b = Created(rows, data)
  OBVIOUS
<1>2. PICK c : c = [op |-> "c", rows |-> rows, data |-> data]
  OBVIOUS
<1>3. /\ Usable(b) /\ Len(b) = DbCells(b)
      /\ Book(b) = [data |-> data, row |-> [id \in 0 .. rows - 1 |-> [set |-> FALSE]]]
  BY <1>1, CreatedFacts
<1>4. Address!Apply(c, Book(file)) = [data |-> data, row |-> [id \in 0 .. rows - 1 |-> [set |-> FALSE]]]
  <2>1. c.op = "c" /\ c.data = data /\ c.rows = rows
    BY <1>2
  <2> QED
    BY <2>1 DEF Address!Apply, Address!Unset
<1>5. Sound(file)
  BY DEF BookInv
<1>6. Meant(c, b, file)
  BY <1>2, <1>3, <1>4, <1>5 DEF Meant
<1>7. b \in Seq(Nat)
  BY <1>3 DEF Usable, Whole
<1> QED
  BY <1>1, <1>2, <1>6, <1>7

LEMMA SetMeant ==
  ASSUME BookInv, cmd = NoCmd, Loads(file), NEW id \in 0 .. Rows(file) - 1,
         NEW name \in Texts, NEW email \in Texts, ~Valid(file, id), Data(file) > 0,
         program = "p17" => Fits(name) /\ Fits(email)
  PROVE  /\ Meant([op |-> "s", id |-> id, name |-> name, email |-> email],
                  WithSet(Load(file), id, name, email), file)
         /\ WithSet(Load(file), id, name, email) \in Seq(Nat)
<1>1. PICK f : f = file
  OBVIOUS
<1>2. Sound(f) /\ Usable(f) /\ id \in Ids(f)
  BY <1>1 DEF BookInv, Sound, Ids
<1>3. PICK b : b = Load(f)
  OBVIOUS
<1>4. /\ b \in Seq(Nat) /\ Len(b) = DbCells(f)
      /\ \A i \in 1 .. DbCells(f) : b[i] = f[i]
      /\ Usable(b) /\ Book(b) = Book(f)
      /\ Rows(b) = Rows(f) /\ Data(b) = Data(f) /\ DbCells(b) = DbCells(f)
      /\ \A i, cell : At(b, i, cell) = At(f, i, cell)
  BY <1>2, <1>3, LoadFacts
<1>5. PICK w : w = WithSet(b, id, name, email)
  OBVIOUS
<1>6. /\ Usable(w) /\ Len(w) = DbCells(w)
      /\ Rows(w) = Rows(b) /\ Data(w) = Data(b)
      /\ OnlyRow(w, b, id) /\ Valid(w, id)
      /\ Book(w) = [Book(b) EXCEPT !.row[id] =
                      Address!Entry(Address!Kept(name, Data(b)), Address!Kept(email, Data(b)))]
  <2>1. Usable(b) /\ Len(b) = DbCells(b) /\ id \in Ids(b) /\ Data(file) = Data(b) /\ Data(b) > 0
    BY <1>1, <1>2, <1>4 DEF Ids
  <2> QED
    BY <1>5, <2>1, WithSetFacts
<1>7. PICK c : c = [op |-> "s", id |-> id, name |-> name, email |-> email]
  OBVIOUS
<1>8. c.op = "s" /\ c.id = id /\ c.name = name /\ c.email = email
  BY <1>7
<1>9. Book(w) = Address!Apply(c, Book(f))
  <2>1. Book(f).data = Data(f)
    BY <1>2, BookIs DEF Usable
  <2>2. Address!Apply(c, Book(f)) = [Book(f) EXCEPT !.row[id] =
          Address!Entry(Address!Kept(name, Data(f)), Address!Kept(email, Data(f)))]
    BY <1>8, <2>1 DEF Address!Apply
  <2> QED
    BY ONLY <1>4, <1>6, <2>2
<1>10. ChangesOneRow(c, w, f)
  <2>1. OnlyRow(w, f, id)
    BY <1>4, <1>6 DEF OnlyRow
  <2>2. Valid(w, id) /\ ~Valid(f, id)
    BY <1>1, <1>6
  <2> QED
    BY <1>2, <1>4, <1>6, <1>8, <2>1, <2>2 DEF ChangesOneRow
<1>11. Meant(c, w, f)
  BY <1>2, <1>6, <1>9, <1>10 DEF Meant
<1>12. w \in Seq(Nat)
  BY <1>6 DEF Usable, Whole
<1> QED
  BY <1>1, <1>3, <1>5, <1>7, <1>11, <1>12

LEMMA DeleteMeant ==
  ASSUME BookInv, cmd = NoCmd, Loads(file), NEW id \in Deletes(file)
  PROVE  /\ Meant([op |-> "d", id |-> id], WithDelete(Load(file), id), file)
         /\ WithDelete(Load(file), id) \in Seq(Nat)
<1>1. PICK f : f = file
  OBVIOUS
<1>2. Sound(f) /\ Usable(f) /\ (id \in Ids(f) \/ (id = -1 /\ program = "p17_2" /\ Data(f) \in {0, 2}))
  BY <1>1 DEF BookInv, Sound, Ids, Deletes
<1>3. PICK b : b = Load(f)
  OBVIOUS
<1>4. /\ b \in Seq(Nat) /\ Len(b) = DbCells(f)
      /\ \A i \in 1 .. DbCells(f) : b[i] = f[i]
      /\ Usable(b) /\ Book(b) = Book(f)
      /\ Rows(b) = Rows(f) /\ Data(b) = Data(f) /\ DbCells(b) = DbCells(f)
      /\ \A i, cell : At(b, i, cell) = At(f, i, cell)
  BY <1>2, <1>3, LoadFacts
<1>5. PICK w : w = WithDelete(b, id)
  OBVIOUS
<1>6. PICK c : c = [op |-> "d", id |-> id]
  OBVIOUS
<1>7. c.op = "d" /\ c.id = id
  BY <1>6
<1>8. CASE id \in Ids(f)
  <2>1. /\ Usable(w) /\ Len(w) = DbCells(w)
        /\ Rows(w) = Rows(b) /\ Data(w) = Data(b)
        /\ OnlyRow(w, b, id) /\ ~Valid(w, id)
        /\ Book(w) = [Book(b) EXCEPT !.row[id] = Address!Unset]
    <3>1. Usable(b) /\ Len(b) = DbCells(b) /\ id \in Ids(b)
      BY <1>4, <1>8 DEF Ids
    <3> QED
      BY <1>5, <3>1, WithDeleteFacts
  <2>2. id # -1
    BY <1>2, <1>8 DEF Ids
  <2>3. Book(w) = Address!Apply(c, Book(f))
    <3>1. Address!Apply(c, Book(f)) = [Book(f) EXCEPT !.row[id] = Address!Unset]
      BY <1>7, <2>2 DEF Address!Apply
    <3> QED
      BY ONLY <1>4, <2>1, <3>1
  <2>4. ChangesOneRow(c, w, f)
    <3>1. OnlyRow(w, f, id)
      BY <1>4, <2>1 DEF OnlyRow
    <3> QED
      BY <1>2, <1>4, <1>7, <1>8, <2>1, <3>1 DEF ChangesOneRow
  <2>5. Meant(c, w, f)
    BY <1>2, <2>1, <2>3, <2>4 DEF Meant
  <2> QED
    BY <1>1, <1>3, <1>5, <1>6, <2>1, <2>5 DEF Usable, Whole
<1>9. CASE id = -1 /\ program = "p17_2" /\ Data(f) \in {0, 2}
  <2>1. Usable(w) /\ Book(w) = Address!WithoutRows(Book(b))
    BY <1>4, <1>5, <1>9, WithoutRowsFacts
  <2>2. Address!Apply(c, Book(f)) = Address!WithoutRows(Book(f))
    BY <1>7, <1>9 DEF Address!Apply
  <2>3. DeletesNoRow(c, f)
    BY <1>2, <1>7, <1>9 DEF DeletesNoRow
  <2>4. Meant(c, w, f)
    BY <1>2, <1>4, <2>1, <2>2, <2>3 DEF Meant
  <2> QED
    BY <1>1, <1>3, <1>5, <1>6, <2>1, <2>4 DEF Usable, Whole
<1> QED
  BY <1>2, <1>8, <1>9

\* What is to be written fits the file it is written over.
LEMMA BufferFits ==
  ASSUME BookInv, opened, InPlace
  PROVE  /\ Len(buffer) = DbCells(before) /\ DbCells(buffer) = DbCells(before)
         /\ Len(buffer) <= Len(file) /\ Len(file) = Len(before)
         /\ cmd # NoCmd /\ ChangesOneRow(cmd, buffer, before)
<1>1. cmd # NoCmd
  BY DEF BookInv
<1>2. Meant(cmd, buffer, before) /\ Mixed
  BY <1>1 DEF BookInv
<1>3. ChangesOneRow(cmd, buffer, before) /\ Len(buffer) = DbCells(buffer)
  BY <1>2 DEF Meant, InPlace, ChangesOneRow, DeletesNoRow
<1>4. DbCells(buffer) = DbCells(before)
  BY <1>3 DEF ChangesOneRow, DbCells
<1>5. DbCells(before) <= Len(before)
  BY <1>3, WholeFacts DEF ChangesOneRow, Usable
<1> QED
  BY <1>1, <1>2, <1>3, <1>4, <1>5 DEF Mixed

LEMMA OpenKeeps == BookInv /\ Open => BookInv'
<1> SUFFICES ASSUME BookInv, Open PROVE BookInv'
  OBVIOUS
<1>1. /\ cmd # NoCmd /\ opened = FALSE /\ opened' = TRUE /\ file' = OpenedFile
      /\ UNCHANGED <<program, cmd, buffer, written, before>>
  BY DEF Open, BookInv
<1>2. file = before /\ written = 0 /\ Meant(cmd, buffer, before) /\ before \in Seq(Nat) /\ buffer \in Seq(Nat)
  BY <1>1 DEF BookInv
<1>3. Meant(cmd, buffer, before)'
  <2>1. PICK c, b, f : c = cmd /\ b = buffer /\ f = before
    OBVIOUS
  <2>2. Meant(c, b, f)
    BY <1>2, <2>1
  <2> QED
    BY <1>1, <2>1, <2>2, NextMeant
<1>4. file' = IF InPlace THEN before ELSE <<>>
  BY <1>1, <1>2 DEF OpenedFile, InPlace
<1>5. InPlace' <=> InPlace
  BY <1>1 DEF InPlace
<1>6. file' \in Seq(Nat)
  BY <1>2, <1>4
<1>7. InPlace => Mixed'
  <2>1. \A i \in 1 .. Len(before) : ~(i <= 0)
    BY <1>2, LenProperties
  <2> QED
    BY <1>1, <1>2, <1>4, <2>1 DEF Mixed
<1>8. ~InPlace => Cut'
  <2>1. Len(<<>>) = 0 /\ 1 .. 0 = {}
    OBVIOUS
  <2> QED
    BY <1>1, <1>2, <1>4, <2>1 DEF Cut
<1> QED
  BY <1>1, <1>2, <1>3, <1>5, <1>6, <1>7, <1>8 DEF BookInv

\* A cell written: the first k + 1 cells of b, and of f what comes after them.
WrittenUpTo(g, b, f, k) ==
  /\ g \in Seq(Nat)
  /\ Len(g) = IF k <= Len(f) THEN Len(f) ELSE k
  /\ \A i \in 1 .. k : g[i] = b[i]
  /\ \A i \in k + 1 .. Len(f) : g[i] = f[i]

LEMMA OneMoreCell ==
  ASSUME NEW b \in Seq(Nat), NEW f \in Seq(Nat), NEW k \in Nat, k + 1 <= Len(b), k <= Len(f),
         NEW g, g = SubSeq(b, 1, k + 1) \o SubSeq(f, k + 2, Len(f))
  PROVE  WrittenUpTo(g, b, f, k + 1)
<1>1. PICK m \in Nat, n \in Nat : m = Len(b) /\ n = Len(f) /\ k + 1 <= m /\ k <= n
  BY LenProperties
<1>2. PICK s, t : s = SubSeq(b, 1, k + 1) /\ t = SubSeq(f, k + 2, n)
  OBVIOUS
<1>3. s \in Seq(Nat) /\ Len(s) = k + 1 /\ \A i \in 1 .. k + 1 : s[i] = b[i]
  <2>1. \A i \in 1 .. k + 1 : b[i] \in Nat
    BY <1>1, ElementOfSeq
  <2>2. 1 \in Int /\ k + 1 \in Int
    OBVIOUS
  <2>3. /\ s \in Seq(Nat)
        /\ Len(s) = IF 1 <= k + 1 THEN k + 1 - 1 + 1 ELSE 0
        /\ \A i \in 1 .. k + 1 - 1 + 1 : s[i] = b[1 + i - 1]
    BY ONLY <1>2, <2>1, <2>2, SubSeqProperties
  <2> QED
    BY ONLY <2>3, k \in Nat
<1>4. /\ t \in Seq(Nat)
      /\ Len(t) = IF k + 2 <= n THEN n - (k + 2) + 1 ELSE 0
      /\ \A i \in 1 .. n - (k + 2) + 1 : t[i] = f[k + 2 + i - 1]
  <2>1. \A i \in k + 2 .. n : f[i] \in Nat
    BY <1>1, ElementOfSeq
  <2>2. k + 2 \in Int /\ n \in Int
    OBVIOUS
  <2> QED
    BY ONLY <1>2, <2>1, <2>2, SubSeqProperties
<1>5. g = s \o t
  BY <1>1, <1>2
<1>6. /\ g \in Seq(Nat) /\ Len(g) = Len(s) + Len(t)
      /\ \A i \in 1 .. Len(s) + Len(t) : g[i] = IF i <= Len(s) THEN s[i] ELSE t[i - Len(s)]
  BY ONLY <1>3, <1>4, <1>5, ConcatProperties
<1>7. Len(g) = IF k + 1 <= n THEN n ELSE k + 1
  <2>1. CASE k + 1 <= n
    <3>1. Len(t) = IF k + 2 <= n THEN n - (k + 2) + 1 ELSE 0
      BY <1>4
    <3>2. Len(t) = n - (k + 1)
      BY ONLY <3>1, <2>1, k \in Nat, n \in Nat
    <3>3. Len(g) = Len(s) + Len(t) /\ Len(s) = k + 1
      BY <1>3, <1>6
    <3> QED
      BY ONLY <2>1, <3>2, <3>3, k \in Nat, n \in Nat
  <2>2. CASE ~(k + 1 <= n)
    <3>1. Len(t) = 0
      BY <1>4, <2>2
    <3>2. Len(g) = Len(s) + Len(t) /\ Len(s) = k + 1
      BY <1>3, <1>6
    <3> QED
      BY ONLY <2>2, <3>1, <3>2, k \in Nat
  <2> QED
    BY <2>1, <2>2
<1>8. \A i \in 1 .. k + 1 : g[i] = b[i]
  <2>1. \A i \in 1 .. k + 1 : i \in 1 .. Len(s) + Len(t) /\ i <= Len(s)
    BY <1>3, <1>4
  <2> QED
    BY <1>3, <1>6, <2>1
<1>9. ASSUME NEW i \in k + 2 .. n
      PROVE  g[i] = f[i]
  <2>1. k + 2 <= n /\ Len(s) = k + 1 /\ Len(t) = n - (k + 2) + 1
    BY <1>3, <1>4
  <2>2. i \in 1 .. Len(s) + Len(t) /\ ~(i <= Len(s)) /\ i - Len(s) = i - (k + 1)
    BY <2>1
  <2>3. i - (k + 1) \in 1 .. n - (k + 2) + 1 /\ k + 2 + (i - (k + 1)) - 1 = i
    BY <2>1
  <2>4. g[i] = t[i - (k + 1)]
    BY <1>6, <2>2
  <2>5. t[i - (k + 1)] = f[k + 2 + (i - (k + 1)) - 1]
    BY <1>4, <2>3
  <2> QED
    BY <2>3, <2>4, <2>5
<1>10. k + 1 + 1 = k + 2
  OBVIOUS
<1> QED
  BY <1>1, <1>6, <1>7, <1>8, <1>9, <1>10 DEF WrittenUpTo

LEMMA WriteKeeps == BookInv /\ Write => BookInv'
<1> SUFFICES ASSUME BookInv, Write PROVE BookInv'
  OBVIOUS
<1>1. /\ opened /\ written < Len(buffer) /\ written' = written + 1
      /\ file' = SubSeq(buffer, 1, written + 1) \o SubSeq(file, written + 2, Len(file))
      /\ UNCHANGED <<program, cmd, buffer, opened, before>>
  BY DEF Write
<1>2. /\ cmd # NoCmd /\ Meant(cmd, buffer, before) /\ written \in Nat
      /\ file \in Seq(Nat) /\ buffer \in Seq(Nat) /\ before \in Seq(Nat)
      /\ IF InPlace THEN Mixed ELSE Cut
  BY <1>1, LenProperties DEF BookInv
<1>3. PICK m \in Nat, n \in Nat, k \in Nat :
        m = Len(buffer) /\ n = Len(file) /\ k = written /\ k + 1 <= m
  BY <1>1, <1>2, LenProperties
<1>4. /\ InPlace => k + 1 <= n /\ n = Len(before)
      /\ ~InPlace => n = k
  BY <1>1, <1>2, <1>3, BufferFits DEF Cut
<1>5. /\ file' \in Seq(Nat)
      /\ Len(file') = IF k + 1 <= n THEN n ELSE k + 1
      /\ \A i \in 1 .. k + 1 : file'[i] = buffer[i]
      /\ \A i \in k + 2 .. n : file'[i] = file[i]
  <2>0. PICK g : g = file'
    OBVIOUS
  <2>1. PICK b \in Seq(Nat), f \in Seq(Nat) : b = buffer /\ f = file
    BY <1>2
  <2>2. g = SubSeq(b, 1, k + 1) \o SubSeq(f, k + 2, Len(f)) /\ k + 1 <= Len(b) /\ k <= Len(f)
    BY <1>1, <1>3, <1>4, <2>0, <2>1
  <2>3. WrittenUpTo(g, b, f, k + 1)
    BY ONLY <2>2, OneMoreCell, b \in Seq(Nat), f \in Seq(Nat), k \in Nat
  <2>4. k + 1 + 1 = k + 2
    OBVIOUS
  <2> QED
    BY <1>3, <2>0, <2>1, <2>3, <2>4 DEF WrittenUpTo
<1>6. Meant(cmd, buffer, before)'
  <2>1. PICK c, b, f : c = cmd /\ b = buffer /\ f = before
    OBVIOUS
  <2>2. Meant(c, b, f)
    BY <1>2, <2>1
  <2> QED
    BY <1>1, <2>1, <2>2, NextMeant
<1>7. InPlace' <=> InPlace
  BY <1>1 DEF InPlace
<1>8. InPlace => Mixed'
  <2> SUFFICES ASSUME InPlace PROVE Mixed'
    OBVIOUS
  <2>1. Len(file') = n /\ n = Len(before) /\ written' = k + 1
    BY <1>1, <1>3, <1>4, <1>5
  <2>2. \A i \in 1 .. n : file'[i] = IF i <= k + 1 THEN buffer[i] ELSE before[i]
    <3> TAKE i \in 1 .. n
    <3>1. CASE i <= k + 1
      <4>1. i \in 1 .. k + 1
        BY <3>1
      <4> QED
        BY <1>5, <3>1, <4>1
    <3>2. CASE ~(i <= k + 1)
      <4>1. i \in k + 2 .. n /\ ~(i <= k)
        BY <3>2
      <4>2. file[i] = before[i]
        BY <1>2, <1>3, <4>1 DEF Mixed
      <4> QED
        BY <1>5, <3>2, <4>1, <4>2
    <3> QED
      BY <3>1, <3>2
  <2> QED
    BY <1>1, <2>1, <2>2 DEF Mixed
<1>9. ~InPlace => Cut'
  <2> SUFFICES ASSUME ~InPlace PROVE Cut'
    OBVIOUS
  <2>1. Len(file') = k + 1 /\ written' = k + 1
    <3>1. n = k /\ Len(file') = IF k + 1 <= n THEN n ELSE k + 1
      BY <1>4, <1>5
    <3> QED
      BY ONLY <1>1, <1>3, <3>1, k \in Nat
  <2> QED
    BY <1>1, <1>5, <2>1 DEF Cut
<1>10. written' \in 0 .. Len(buffer)
  BY <1>1, <1>3
<1>11. program \in {"p17", "p17_2"} /\ opened \in BOOLEAN
  BY DEF BookInv
<1> QED
  BY <1>1, <1>2, <1>5, <1>6, <1>7, <1>8, <1>9, <1>10, <1>11 DEF BookInv

-----------------------------------------------------------------------------
(* What a process leaves                                                   *)

\* When all cells are written the file holds what was meant.
LEMMA AllWritten ==
  ASSUME BookInv, opened, written = Len(buffer)
  PROVE  Usable(file) /\ Book(file) = Address!Apply(cmd, Book(before))
<1>1. Meant(cmd, buffer, before) /\ file \in Seq(Nat) /\ (IF InPlace THEN Mixed ELSE Cut)
  BY DEF BookInv
<1>2. /\ Usable(buffer) /\ Book(buffer) = Address!Apply(cmd, Book(before))
      /\ DbCells(buffer) <= Len(buffer) /\ DbCells(buffer) \in Nat
  BY <1>1, WholeFacts DEF Meant, Usable
<1>3. Len(buffer) \in Nat /\ Len(file) \in Nat
  BY <1>1, LenProperties DEF BookInv
<1>4. Len(file) >= DbCells(buffer)
  BY <1>1, <1>2, <1>3, BufferFits DEF Cut
<1>5. \A i \in 1 .. DbCells(buffer) : file[i] = buffer[i]
  BY <1>1, <1>2, <1>3, <1>4 DEF Mixed, Cut
<1>6. Usable(file) /\ Book(file) = Book(buffer)
  BY ONLY <1>1, <1>2, <1>4, <1>5, BooksEqual
<1> QED
  BY <1>2, <1>6

\* A new file that was cut short does not load, because its header, if it is there,
\* says how many cells it should have; or all of the database is in it.
LEMMA CutShortAnew ==
  ASSUME BookInv, opened, ~InPlace, Loads(file)
  PROVE  Usable(file) /\ Book(file) = Address!Apply(cmd, Book(before))
<1>1. Meant(cmd, buffer, before) /\ file \in Seq(Nat) /\ Cut /\ Len(file) \in Nat
  BY LenProperties DEF BookInv
<1>2. Usable(buffer) /\ Book(buffer) = Address!Apply(cmd, Book(before))
  BY <1>1 DEF Meant
<1>3. Header <= Len(file) /\ DbCells(file) <= Len(file)
  BY DEF Loads
<1>4. \A i \in 1 .. Header : file[i] = buffer[i]
  BY <1>1, <1>3, HeaderIs DEF Cut
<1>5. DbCells(file) = DbCells(buffer) /\ DbCells(buffer) \in Nat
  BY <1>2, <1>4, SameShape, WholeFacts DEF Usable
<1>6. Len(file) >= DbCells(buffer) /\ \A i \in 1 .. DbCells(buffer) : file[i] = buffer[i]
  BY <1>1, <1>3, <1>5 DEF Cut
<1>7. Usable(file) /\ Book(file) = Book(buffer)
  BY ONLY <1>1, <1>2, <1>6, BooksEqual
<1> QED
  BY <1>2, <1>7

\* A file that was being changed in place.
LEMMA CutShortInPlace ==
  ASSUME BookInv, opened, InPlace
  PROVE  /\ Usable(file)
         /\ \/ Book(file) = Book(before)
            \/ Book(file) = Address!Apply(cmd, Book(before))
            \/ cmd.op = "s" /\ Address!Torn(cmd, Book(before), Book(file))
<1>1. /\ Mixed /\ cmd # NoCmd /\ Meant(cmd, buffer, before)
      /\ file \in Seq(Nat) /\ Len(file) = Len(before) /\ written \in Nat
      /\ written <= Len(buffer) /\ Len(buffer) = DbCells(before)
  BY BufferFits, LenProperties DEF BookInv
<1>2. PICK id : id = cmd.id
  OBVIOUS
<1>3. /\ Usable(before) /\ Usable(buffer) /\ id \in Ids(before) /\ OnlyRow(buffer, before, id)
      /\ Rows(buffer) = Rows(before) /\ Data(buffer) = Data(before)
      /\ Book(buffer) = Address!Apply(cmd, Book(before))
      /\ \/ cmd.op = "s" /\ Valid(buffer, id) /\ ~Valid(before, id)
         \/ cmd.op = "d" /\ ~Valid(buffer, id)
  BY <1>1, <1>2, BufferFits DEF Meant, ChangesOneRow
<1>4. PICK n \in Nat \ {0} : n = Data(before) /\ RowCells(Data(before)) = 2 + 2 * n
  <2>1. Data(before) \in Nat \ {0}
    BY RecordFileAssumption DEF Data, InPlace
  <2> QED
    BY <1>3, <2>1, WholeFacts DEF Usable
<1>5. Whole(before) /\ DbCells(before) \in Nat /\ DbCells(before) <= Len(before)
  BY <1>3, WholeFacts DEF Usable
<1>6. \A cell \in 1 .. 2 + 2 * n : At(before, id, cell) \in 1 .. DbCells(before)
  <2> TAKE cell \in 1 .. 2 + 2 * n
  <2>1. At(before, id, cell) \in Header + 1 .. DbCells(before)
    BY <1>3, <1>4, <1>5, CellFacts
  <2> QED
    BY <1>5, <2>1, HeaderIs
<1>7. \A i \in 1 .. DbCells(before) : file[i] = IF i <= written THEN buffer[i] ELSE before[i]
  BY <1>1, <1>5 DEF Mixed
<1>8. \A i, cell : At(buffer, i, cell) = At(before, i, cell)
  BY <1>3 DEF At
<1>9. /\ file[At(before, id, 1)] = id /\ before[At(before, id, 1)] = id
      /\ file[At(before, id, 2 + n)] = NUL /\ file[At(before, id, 2 + 2 * n)] = NUL
  <2>1. /\ before[At(before, id, 1)] = id
        /\ before[At(before, id, 2 + n)] = NUL /\ before[At(before, id, 2 + 2 * n)] = NUL
    BY <1>3, <1>4 DEF Usable, TextsEnd
  <2>2. id \in Ids(buffer)
    BY <1>3 DEF Ids
  <2>3. /\ buffer[At(before, id, 1)] = id
        /\ buffer[At(before, id, 2 + n)] = NUL /\ buffer[At(before, id, 2 + 2 * n)] = NUL
    BY <1>3, <1>4, <1>8, <2>2 DEF Usable, TextsEnd
  <2>4. 1 \in 1 .. 2 + 2 * n /\ 2 + n \in 1 .. 2 + 2 * n /\ 2 + 2 * n \in 1 .. 2 + 2 * n
    OBVIOUS
  <2> QED
    BY <1>6, <1>7, <2>1, <2>3, <2>4
<1>10. OnlyRow(file, before, id)
  BY <1>3, <1>7 DEF OnlyRow
<1>11. /\ Usable(file) /\ Rows(file) = Rows(before) /\ Data(file) = Data(before)
       /\ \A i, cell : At(file, i, cell) = At(before, i, cell)
       /\ Book(file) = [Book(before) EXCEPT !.row[id] = RowIn(file, id)]
  <2>1. IF Data(before) = 0 THEN file[At(before, id, 2)] = 0
        ELSE file[At(before, id, 2 + Data(before))] = NUL /\ file[At(before, id, 2 + 2 * Data(before))] = NUL
    BY <1>4, <1>9
  <2> QED
    BY ONLY <1>1, <1>3, <1>4, <1>9, <1>10, <2>1, RowChanged
<1>12. At(before, id, 2) \in 1 .. DbCells(before)
  BY <1>6
<1>13. CASE ~(At(before, id, 2) <= written)
  <2>1. ASSUME NEW i \in 1 .. DbCells(before)
        PROVE  file[i] = before[i]
    <3>1. CASE ~(i <= written)
      BY <1>7, <3>1
    <3>2. CASE i <= written /\ i = At(before, id, 1)
      BY <1>9, <3>2
    <3>3. CASE i <= written /\ i # At(before, id, 1)
      <4>1. At(before, id, 2) = At(before, id, 1) + 1 /\ At(before, id, 1) \in Nat
        <5>1. At(before, id, 1) \in 1 .. DbCells(before)
          BY <1>6
        <5>2. PICK h : h = Header + id * RowCells(Data(before))
          OBVIOUS
        <5>3. h \in Nat
          <6>1. id \in Nat /\ RowCells(Data(before)) \in Nat \ {0}
            BY <1>3, <1>4, <1>5, SMTT(20) DEF Ids, Whole
          <6>2. id * RowCells(Data(before)) \in Nat
            BY <6>1, RowsApart
          <6> QED
            BY <5>2, <6>2, HeaderIs
        <5>4. At(before, id, 1) = h + 1 /\ At(before, id, 2) = h + 2
          BY <5>2 DEF At
        <5> QED
          BY <5>3, <5>4
      <4>2. i < At(before, id, 1)
        BY <1>1, <1>13, <3>3, <4>1
      <4>3. buffer[i] = before[i]
        BY <1>3, <4>2 DEF OnlyRow
      <4> QED
        BY <1>7, <3>3, <4>3
    <3> QED
      BY <3>1, <3>2, <3>3
  <2>2. Book(file) = Book(before)
    <3>1. Len(file) >= DbCells(before)
      BY <1>1, <1>5
    <3> QED
      BY ONLY <1>1, <1>3, <2>1, <3>1, BooksEqual
  <2> QED
    BY <1>11, <2>2
<1>14. CASE At(before, id, 2) <= written
  <2>1. Valid(file, id) <=> Valid(buffer, id)
    BY <1>7, <1>8, <1>11, <1>12, <1>14 DEF Valid
  <2>2. CASE cmd.op = "d"
    <3>1. RowIn(file, id) = Address!Unset
      BY <1>3, <2>1, <2>2 DEF RowIn, Address!Unset
    <3>2. Address!Apply(cmd, Book(before)) = [Book(before) EXCEPT !.row[id] = Address!Unset]
      <4>1. id # -1
        BY <1>3 DEF Ids
      <4> QED
        BY <1>2, <2>2, <4>1 DEF Address!Apply
    <3>3. Book(file) = Address!Apply(cmd, Book(before))
      BY ONLY <1>11, <3>1, <3>2
    <3> QED
      BY <1>11, <3>3
  <2>3. CASE cmd.op = "s"
    <3>1. RowIn(file, id).set
      BY <1>3, <2>1, <2>3 DEF RowIn
    <3>2. PICK rows, data, new :
            /\ rows = [i \in Ids(before) |-> RowIn(before, i)]
            /\ data = Data(before) /\ new = RowIn(file, id)
      OBVIOUS
    <3>3. PICK old, book : old = Book(before) /\ book = Book(file)
      OBVIOUS
    <3>4. old = [data |-> data, row |-> rows]
      BY <1>5, <3>2, <3>3, BookIs
    <3>5. book = [old EXCEPT !.row[id] = new]
      BY <1>11, <3>2, <3>3
    <3>6. book = [data |-> data, row |-> [rows EXCEPT ![id] = new]]
      BY ONLY <3>4, <3>5, SMT
    <3>7. DOMAIN rows = Ids(before)
      BY <3>2
    <3>8. /\ old.row = rows /\ old.data = data /\ book.data = data
          /\ book.row = [rows EXCEPT ![id] = new]
      BY ONLY <3>4, <3>6
    <3>9. Address!Torn(cmd, old, book)
      BY <1>2, <1>3, <3>1, <3>2, <3>7, <3>8 DEF Address!Torn
    <3> QED
      BY <1>11, <2>3, <3>3, <3>9
  <2> QED
    BY <1>3, <2>2, <2>3
<1> QED
  BY <1>13, <1>14

\* Whenever a process ends, what it leaves is sound, and one of the outcomes of
\* AddressBook.
LEMMA Outcomes ==
  ASSUME BookInv, cmd # NoCmd
  PROVE  /\ Sound(file)
         /\ \/ Book(file) \in {Book(before), Address!Apply(cmd, Book(before))}
            \/ Address!Damaged(cmd, Book(before), Book(file))
<1>1. Meant(cmd, buffer, before) /\ Sound(before) /\ file \in Seq(Nat) /\ opened \in BOOLEAN
  BY DEF BookInv, Meant
<1>2. CASE ~opened
  <2>1. file = before
    BY <1>2 DEF BookInv
  <2> QED
    BY <1>1, <2>1
<1>3. CASE opened /\ written = Len(buffer)
  <2>1. Usable(file) /\ Book(file) = Address!Apply(cmd, Book(before))
    BY <1>3, AllWritten
  <2> QED
    BY <1>1, <2>1 DEF Sound
<1>4. CASE opened /\ written # Len(buffer) /\ ~InPlace
  <2>1. CASE Loads(file)
    <3>1. Usable(file) /\ Book(file) = Address!Apply(cmd, Book(before))
      BY <1>4, <2>1, CutShortAnew
    <3> QED
      BY <1>1, <3>1 DEF Sound
  <2>2. CASE ~Loads(file)
    <3>1. Book(file) = Address!Lost
      BY <2>2 DEF Book, Address!Lost
    <3>2. Address!Damaged(cmd, Book(before), Book(file))
      BY <1>4, <3>1 DEF Address!Damaged, InPlace
    <3> QED
      BY <1>1, <2>2, <3>2 DEF Sound
  <2> QED
    BY <2>1, <2>2
<1>5. CASE opened /\ InPlace
  <2>1. Usable(file) /\ \/ Book(file) = Book(before)
                        \/ Book(file) = Address!Apply(cmd, Book(before))
                        \/ cmd.op = "s" /\ Address!Torn(cmd, Book(before), Book(file))
    BY <1>5, CutShortInPlace
  <2>2. Sound(file)
    BY <1>1, <2>1 DEF Sound
  <2>3. program = "p17" /\ cmd.op # "c"
    BY <1>5 DEF InPlace
  <2> QED
    BY <2>1, <2>2, <2>3 DEF Address!Damaged
<1> QED
  BY <1>1, <1>2, <1>3, <1>4, <1>5

LEMMA EndedKeeps == BookInv /\ cmd # NoCmd /\ Ended => BookInv'
<1> SUFFICES ASSUME BookInv, cmd # NoCmd, Ended PROVE BookInv'
  OBVIOUS
<1>1. /\ program' = program /\ file' = file /\ cmd' = NoCmd
      /\ buffer' = <<>> /\ opened' = FALSE /\ written' = 0 /\ before' = <<>>
  BY DEF Ended
<1>2. Sound(file)'
  <2>1. PICK f : f = file
    OBVIOUS
  <2>2. Sound(f)
    BY <2>1, Outcomes
  <2> QED
    BY <1>1, <2>1, <2>2, NextFile
<1>3. <<>> \in Seq(Nat) /\ Len(<<>>) = 0
  OBVIOUS
<1>4. written' \in 0 .. Len(buffer') /\ buffer' \in Seq(Nat) /\ before' \in Seq(Nat)
  BY <1>1, <1>3
<1>5. program' \in {"p17", "p17_2"} /\ file' \in Seq(Nat)
  BY <1>1 DEF BookInv
<1> QED
  BY <1>1, <1>2, <1>4, <1>5 DEF BookInv

LEMMA StutterKeeps == BookInv /\ UNCHANGED vars => BookInv'
<1> SUFFICES ASSUME BookInv, UNCHANGED vars PROVE BookInv'
  OBVIOUS
<1>1. UNCHANGED <<program, file, cmd, buffer, opened, written, before>>
  BY DEF vars
<1>2. cmd = NoCmd => Sound(file)'
  <2>1. PICK f : f = file
    OBVIOUS
  <2> QED
    BY <1>1, <2>1, NextFile DEF BookInv
<1>3. cmd # NoCmd => Meant(cmd, buffer, before)'
  <2>1. PICK c, b, f : c = cmd /\ b = buffer /\ f = before
    OBVIOUS
  <2>2. cmd # NoCmd => Meant(c, b, f)
    BY <2>1 DEF BookInv
  <2> QED
    BY <1>1, <2>1, <2>2, NextMeant
<1> QED
  BY <1>1, <1>2, <1>3 DEF BookInv, InPlace, Mixed, Cut

\* A process that starts a command means what AddressBook says.
LEMMA CreateBegins ==
  ASSUME BookInv, StartCreate
  PROVE  \E c, b : /\ c.op = "c" /\ c # NoCmd /\ b \in Seq(Nat) /\ Meant(c, b, file) /\ Begin(c, b)
<1>1. PICK size \in (IF program = "p17" THEN {<<MAX_ROWS, MAX_DATA>>} ELSE Sizes) :
        Begin([op |-> "c", rows |-> size[1], data |-> size[2]], Created(size[1], size[2]))
  BY DEF StartCreate
<1>2. PICK rows \in Nat, data \in Nat :
        rows = size[1] /\ data = size[2] /\ (program = "p17" => rows = MAX_ROWS /\ data = MAX_DATA)
  BY RecordFileAssumption
<1>3. cmd = NoCmd
  BY <1>1 DEF Begin
<1>4. PICK c, b : c = [op |-> "c", rows |-> rows, data |-> data] /\ b = Created(rows, data)
  OBVIOUS
<1>5. Meant(c, b, file) /\ b \in Seq(Nat)
  BY <1>2, <1>3, <1>4, CreateMeant
<1>6. c.op = "c" /\ c # NoCmd
  BY <1>4 DEF NoCmd
<1> QED
  BY <1>1, <1>2, <1>4, <1>5, <1>6

LEMMA SetBegins ==
  ASSUME BookInv, StartSet
  PROVE  \E c, b : /\ c.op = "s" /\ c # NoCmd /\ b \in Seq(Nat) /\ Meant(c, b, file) /\ Begin(c, b)
<1>1. PICK id \in 0 .. Rows(file) - 1, name \in Texts, email \in Texts :
        /\ ~Valid(file, id)
        /\ program = "p17" => Fits(name) /\ Fits(email)
        /\ Begin([op |-> "s", id |-> id, name |-> name, email |-> email],
                 WithSet(Load(file), id, name, email))
  BY DEF StartSet
<1>2. cmd = NoCmd /\ Loads(file) /\ Data(file) > 0
  BY <1>1 DEF Begin, StartSet
<1>3. PICK c, b : /\ c = [op |-> "s", id |-> id, name |-> name, email |-> email]
                  /\ b = WithSet(Load(file), id, name, email)
  OBVIOUS
<1>4. Meant(c, b, file) /\ b \in Seq(Nat)
  BY <1>1, <1>2, <1>3, SetMeant
<1>5. c.op = "s" /\ c # NoCmd
  BY <1>3 DEF NoCmd
<1> QED
  BY <1>1, <1>3, <1>4, <1>5

LEMMA DeleteBegins ==
  ASSUME BookInv, StartDelete
  PROVE  \E c, b : /\ c.op = "d" /\ c # NoCmd /\ b \in Seq(Nat) /\ Meant(c, b, file) /\ Begin(c, b)
<1>1. PICK id \in Deletes(file) : Begin([op |-> "d", id |-> id], WithDelete(Load(file), id))
  BY DEF StartDelete
<1>2. cmd = NoCmd /\ Loads(file)
  BY <1>1 DEF Begin, StartDelete
<1>3. PICK c, b : c = [op |-> "d", id |-> id] /\ b = WithDelete(Load(file), id)
  OBVIOUS
<1>4. Meant(c, b, file) /\ b \in Seq(Nat)
  BY <1>2, <1>3, DeleteMeant
<1>5. c.op = "d" /\ c # NoCmd
  BY <1>3 DEF NoCmd
<1> QED
  BY <1>1, <1>3, <1>4, <1>5

\* Exit, Refuse and Crash end the process of a command.
LEMMA EndsAre ==
  ASSUME BookInv, Exit \/ Refuse \/ Crash
  PROVE  cmd # NoCmd /\ Ended
<1>1. CASE Exit
  BY <1>1 DEF Exit, BookInv
<1>2. CASE Refuse
  BY <1>2 DEF Refuse, BookInv
<1>3. CASE Crash
  BY <1>3 DEF Crash
<1> QED
  BY <1>1, <1>2, <1>3

LEMMA NextKeeps == BookInv /\ [Next]_vars => BookInv'
<1> SUFFICES ASSUME BookInv, [Next]_vars PROVE BookInv'
  OBVIOUS
<1>1. CASE StartCreate
  BY <1>1, CreateBegins, BeginKeeps
<1>2. CASE StartSet
  BY <1>2, SetBegins, BeginKeeps
<1>3. CASE StartDelete
  BY <1>3, DeleteBegins, BeginKeeps
<1>4. CASE Open
  BY <1>4, OpenKeeps
<1>5. CASE Write
  BY <1>5, WriteKeeps
<1>6. CASE Exit \/ Refuse \/ Crash
  BY <1>6, EndsAre, EndedKeeps
<1>7. CASE UNCHANGED vars
  BY <1>7, StutterKeeps
<1> QED
  BY <1>1, <1>2, <1>3, <1>4, <1>5, <1>6, <1>7 DEF Next

-----------------------------------------------------------------------------
(* Theorems                                                                *)

\* The inductive invariant: a process that runs is putting the cells it means to
\* write (Database_write, write_to_file) over a file that was sound.
THEOREM BookInvariance == Spec => []BookInv
<1>1. Init => BookInv
  BY InitKeeps
<1>2. BookInv /\ [Next]_vars => BookInv'
  BY NextKeeps
<1> QED
  BY <1>1, <1>2, PTL DEF Spec

LEMMA LastOfField ==
  ASSUME NEW base \in Nat, NEW n \in Nat \ {0}
  PROVE  Max(Field(base, n)) = base + n
<1>1. Field(base, n) \subseteq Nat /\ base + n \in Field(base, n)
  BY DEF Field
<1>2. \A x \in Field(base, n) : x <= base + n
  BY DEF Field
<1> QED
  BY ONLY <1>1, <1>2, MaxIs

LEMMA BookInvTypes == BookInv => RecordTypeOK
<1> SUFFICES ASSUME BookInv PROVE RecordTypeOK
  OBVIOUS
<1>1. \A i \in DOMAIN file : file[i] \in Nat
  BY DEF BookInv
<1>2. ASSUME Loads(file), cmd = NoCmd, NEW id \in 0 .. Rows(file) - 1
      PROVE  /\ file[At(file, id, 1)] = id
             /\ IF Data(file) = 0 THEN ~Valid(file, id)
                ELSE file[Max(NameAt(file, id))] = NUL /\ file[Max(EmailAt(file, id))] = NUL
  <2>1. PICK f : f = file
    OBVIOUS
  <2>2. Usable(f) /\ Whole(f) /\ id \in Ids(f)
    BY <1>2, <2>1 DEF BookInv, Sound, Usable, Ids
  <2>3. f[At(f, id, 1)] = id /\ TextsEnd(f, id)
    BY <2>2 DEF Usable
  <2>4. CASE Data(f) = 0
    BY <2>1, <2>3, <2>4 DEF TextsEnd
  <2>8. SUFFICES ASSUME Data(f) # 0
                 PROVE  file[Max(NameAt(file, id))] = NUL /\ file[Max(EmailAt(file, id))] = NUL
    BY <2>1, <2>3, <2>4
  <2>9. Data(f) \in Nat \ {0} /\ f[At(f, id, 2 + Data(f))] = NUL /\ f[At(f, id, 2 + 2 * Data(f))] = NUL
    BY <2>2, <2>3, <2>8 DEF Whole, TextsEnd
  <2>5. /\ NameAt(f, id) = Field(At(f, id, 2), Data(f))
        /\ EmailAt(f, id) = Field(At(f, id, 2 + Data(f)), Data(f))
        /\ At(f, id, 2) \in Nat /\ At(f, id, 2 + Data(f)) \in Nat
        /\ At(f, id, 2) + Data(f) = At(f, id, 2 + Data(f))
        /\ At(f, id, 2 + Data(f)) + Data(f) = At(f, id, 2 + 2 * Data(f))
    BY ONLY <2>2, FieldsAre
  <2>6. Max(NameAt(f, id)) = At(f, id, 2 + Data(f))
    BY <2>9, <2>5, LastOfField
  <2>7. Max(EmailAt(f, id)) = At(f, id, 2 + 2 * Data(f))
    BY <2>9, <2>5, LastOfField
  <2> QED
    BY <2>1, <2>9, <2>6, <2>7
<1>3. program \in {"p17", "p17_2"} /\ opened \in BOOLEAN /\ written \in 0 .. Len(buffer)
  BY DEF BookInv
<1> QED
  BY <1>1, <1>2, <1>3 DEF RecordTypeOK

\* Whatever commands ran and wherever they were cut short, a database that loads
\* (Database_load, read_from_file) has its ids in place, and a NUL at the end of
\* every text that Address_print and find_name read.
THEOREM RecordTypeCorrect == Spec => []RecordTypeOK
BY BookInvariance, BookInvTypes, PTL

-----------------------------------------------------------------------------
(* Refinement                                                              *)

\* The book of AddressBook, and what its step relates.
TheBook == IF cmd = NoCmd THEN Book(file) ELSE Book(before)

LEMMA InitBook == Init => Address!Init
<1> SUFFICES ASSUME Init PROVE Address!Init
  OBVIOUS
<1>1. file = <<>> /\ cmd = NoCmd
  BY DEF Init
<1>2. Book(file) = Address!Lost
  BY <1>1, EmptyFile
<1>3. (program = "p17") \in BOOLEAN
  OBVIOUS
<1> QED
  BY <1>1, <1>2, <1>3 DEF Address!Init, NoCmd, Address!NoCmd

\* The layout depends on the program, which does not change.
LEMMA NextBefore ==
  ASSUME program' = program, NEW f, before' = f
  PROVE  Book(before)' = Book(f)
BY DEF Book, Loads, Rows, Data, DbCells, Header, At, Valid, NameAt, EmailAt

\* A command is for a row of the book; a set, for one that is not set.
LEMMA MeantIsAllowed ==
  ASSUME NEW c, NEW b, NEW f, cmd = NoCmd, file = f, Meant(c, b, f)
  PROVE  Address!Allowed(c)
<1>1. CASE c.op = "c"
  BY <1>1 DEF Address!Allowed
<1>3. CASE DeletesNoRow(c, f)
  <2>1. Book(f) = [data |-> Data(f), row |-> [id \in Ids(f) |-> RowIn(f, id)]]
    BY <1>3, BookIs DEF DeletesNoRow, Usable
  <2> QED
    BY <1>3, <2>1 DEF DeletesNoRow, Address!Allowed
<1>2. CASE ChangesOneRow(c, b, f)
  <2>1. Whole(f) /\ c.id \in Ids(f)
    BY <1>2 DEF ChangesOneRow, Usable
  <2>2. Book(f) = [data |-> Data(f), row |-> [id \in Ids(f) |-> RowIn(f, id)]]
    BY <2>1, BookIs
  <2>3. DOMAIN Book(f).row = Ids(f) /\ Book(f).row[c.id] = RowIn(f, c.id)
    BY <2>1, <2>2
  <2>4. ~Valid(f, c.id) => ~RowIn(f, c.id).set
    BY DEF RowIn
  <2>5. (c.op = "s" /\ ~Valid(f, c.id)) \/ c.op = "d"
    BY <1>2 DEF ChangesOneRow
  <2> QED
    BY <2>1, <2>3, <2>4, <2>5 DEF Address!Allowed
<1> QED
  BY <1>1, <1>2, <1>3 DEF Meant

LEMMA BeginBook ==
  ASSUME NEW c, NEW b, c # NoCmd, Meant(c, b, file), Begin(c, b)
  PROVE  Address!Begin
<1>1. PICK f : f = file
  OBVIOUS
<1>2. program' = program /\ cmd' = c /\ before' = f /\ cmd = NoCmd
  BY <1>1 DEF Begin
<1>3. Address!Allowed(c)
  BY <1>1, <1>2, MeantIsAllowed
<1>4. Book(before)' = Book(f)
  BY <1>2, NextBefore
<1>5. TheBook' = TheBook
  BY <1>1, <1>2, <1>4 DEF TheBook
<1> QED
  BY <1>2, <1>3, <1>5 DEF Address!Begin, NoCmd, Address!NoCmd, TheBook

\* While a process writes, AddressBook waits.
LEMMA WritingBook ==
  ASSUME BookInv, Open \/ Write \/ UNCHANGED vars
  PROVE  UNCHANGED <<TheBook, cmd, program = "p17">>
<1>1. program' = program /\ cmd' = cmd /\ before' = before /\ (cmd = NoCmd => file' = file)
  BY DEF Open, Write, vars, BookInv
<1>2. PICK f, g : f = file /\ g = before
  OBVIOUS
<1>3. cmd = NoCmd => Book(file)' = Book(f)
  BY <1>1, <1>2, NextFile
<1>4. Book(before)' = Book(g)
  BY <1>1, <1>2, NextBefore
<1> QED
  BY <1>1, <1>2, <1>3, <1>4 DEF TheBook

LEMMA EndBook ==
  ASSUME BookInv, cmd # NoCmd, Ended
  PROVE  /\ cmd' = NoCmd /\ TheBook = Book(before) /\ TheBook' = Book(file)
         /\ UNCHANGED (program = "p17")
<1>1. PICK f : f = file
  OBVIOUS
<1>2. program' = program /\ cmd' = NoCmd /\ file' = f
  BY <1>1 DEF Ended
<1>3. Book(file)' = Book(f)
  BY <1>2, NextFile
<1> QED
  BY <1>1, <1>2, <1>3 DEF TheBook

LEMMA EndIsCutShort ==
  ASSUME BookInv, Exit \/ Refuse \/ Crash
  PROVE  Address!CutShort
<1>1. cmd # NoCmd /\ Ended
  BY EndsAre
<1>2. /\ cmd' = NoCmd /\ TheBook = Book(before) /\ TheBook' = Book(file)
      /\ UNCHANGED (program = "p17")
  BY <1>1, EndBook
<1>3. \/ TheBook' \in {TheBook, Address!Apply(cmd, TheBook)}
      \/ Address!Damaged(cmd, TheBook, TheBook')
  BY <1>1, <1>2, Outcomes
<1> QED
  BY <1>1, <1>2, <1>3 DEF Address!CutShort, NoCmd, Address!NoCmd, TheBook

\* A command that exits does what it says, where AddressBook lets it do less.
LEMMA ExitFinishes ==
  ASSUME BookInv, Exit
  PROVE  Address!Finish
<1>1. cmd # NoCmd /\ Ended
  BY EndsAre
<1>2. /\ cmd' = NoCmd /\ TheBook = Book(before) /\ TheBook' = Book(file)
      /\ UNCHANGED (program = "p17")
  BY <1>1, EndBook
<1>3. Book(file) = Address!Apply(cmd, Book(before))
  BY AllWritten DEF Exit
<1> QED
  BY <1>1, <1>2, <1>3 DEF Address!Finish, NoCmd, Address!NoCmd, TheBook

LEMMA StepBook ==
  BookInv /\ [Next]_vars => [Address!Next]_<<TheBook, cmd, program = "p17">>
<1> SUFFICES ASSUME BookInv, [Next]_vars
             PROVE  [Address!Next]_<<TheBook, cmd, program = "p17">>
  OBVIOUS
<1>1. CASE StartCreate
  BY <1>1, CreateBegins, BeginBook DEF Address!Next
<1>2. CASE StartSet
  BY <1>2, SetBegins, BeginBook DEF Address!Next
<1>3. CASE StartDelete
  BY <1>3, DeleteBegins, BeginBook DEF Address!Next
<1>4. CASE Open \/ Write \/ UNCHANGED vars
  BY <1>4, WritingBook
<1>5. CASE Exit \/ Refuse \/ Crash
  BY <1>5, EndIsCutShort DEF Address!Next
<1> QED
  BY <1>1, <1>2, <1>3, <1>4, <1>5 DEF Next

\* Both programs keep the promise of AddressBook, wherever a process is cut short
\* in Database_write or write_to_file: the old book, the new one, one torn record
\* (p17.c) or no book at all (p17_2.c).
THEOREM BookImplements == Spec => CrashSafe
<1>1. Init => Address!Init
  BY InitBook
<1>2. BookInv /\ [Next]_vars => [Address!Next]_<<TheBook, cmd, program = "p17">>
  BY StepBook
<1> QED
  BY <1>1, <1>2, BookInvariance, PTL DEF Spec, CrashSafe, Address!Spec, TheBook

\* A process that gets to its return 0 has done its command, and no other row is
\* changed: for every command, number of rows, field length and text.
THEOREM ExitDoesIt == Spec => ExitDoes
<1>1. BookInv /\ [Next]_vars => [Exit => Address!Finish]_vars
  BY ExitFinishes
<1> QED
  BY <1>1, BookInvariance, PTL DEF Spec, ExitDoes
=============================================================================
