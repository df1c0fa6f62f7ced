---------------------------- MODULE AddressBook ----------------------------
(***************************************************************************)
(* What the address database programs of src/c_practice (p17.c and         *)
(* p17_2.c) promise: a book of numbered rows, each unset or holding a name *)
(* and an e-mail address, changed by one command at a time.  A command that*)
(* finishes does what it says.  One that is cut short leaves the book as it*)
(* was, or as the command would have left it, or damages it in the one way *)
(* its program can: a program that rewrites the file in place may leave    *)
(* some other text in the one record it was setting; one that writes the   *)
(* file anew may leave no book at all, never a wrong one.                  *)
(***************************************************************************)
EXTENDS Integers, Sequences, FiniteSetsExt

VARIABLES
    book,       \* Lost, or the length of a text field and the rows
    cmd,        \* the command under way, or NoCmd
    inPlace     \* TRUE: set and delete rewrite the file in place (p17.c)

Lost == [data |-> -1, row |-> <<>>]
Unset == [set |-> FALSE]
Entry(name, email) == [set |-> TRUE, name |-> name, email |-> email]
NoCmd == [op |-> "none"]

\* The part of a text that a field of `data` characters holds with its NUL.
Kept(text, data) == [i \in 1 .. Min({Len(text), data - 1}) |-> text[i]]

\* The delete of row -1, which p17_2.c takes for a row: it clears the int that lies
\* where the row would, the number of rows when fields have two characters, or
\* their length when that is zero anyway.
WithoutRows(b) == IF b.data = 0 THEN b ELSE [data |-> b.data, row |-> [i \in {} |-> Unset]]

Apply(c, b) ==
    CASE c.op = "c" -> [data |-> c.data, row |-> [i \in 0 .. c.rows - 1 |-> Unset]]
      [] c.op = "s" -> [b EXCEPT !.row[c.id] = Entry(Kept(c.name, b.data), Kept(c.email, b.data))]
      [] c.op = "d" -> IF c.id = -1 THEN WithoutRows(b) ELSE [b EXCEPT !.row[c.id] = Unset]

\* A set that is cut short in place: its row is set, with any text.
Torn(c, b, after) ==
    /\ DOMAIN after.row = DOMAIN b.row /\ after.data = b.data
    /\ \A i \in DOMAIN b.row \ {c.id} : after.row[i] = b.row[i]
    /\ after.row[c.id].set

Damaged(c, b, after) ==
    IF ~inPlace \/ c.op = "c" THEN after = Lost ELSE c.op = "s" /\ Torn(c, b, after)

Allowed(c) ==
    \/ c.op = "c"
    \/ c.op = "s" /\ c.id \in DOMAIN book.row /\ ~book.row[c.id].set
    \/ c.op = "d" /\ c.id \in DOMAIN book.row
    \/ c.op = "d" /\ c.id = -1 /\ ~inPlace /\ book.data \in {0, 2}

Begin == cmd = NoCmd /\ cmd' # NoCmd /\ Allowed(cmd') /\ UNCHANGED <<book, inPlace>>
Finish == cmd # NoCmd /\ cmd' = NoCmd /\ book' = Apply(cmd, book) /\ UNCHANGED inPlace
CutShort ==
    /\ cmd # NoCmd
    /\ cmd' = NoCmd
    /\ book' \in {book, Apply(cmd, book)} \/ Damaged(cmd, book, book')
    /\ UNCHANGED inPlace

Init == book = Lost /\ cmd = NoCmd /\ inPlace \in BOOLEAN
Next == Begin \/ Finish \/ CutShort
Spec == Init /\ [][Next]_<<book, cmd, inPlace>>
============================================================================
