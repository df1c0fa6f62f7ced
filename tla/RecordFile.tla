----------------------------- MODULE RecordFile -----------------------------
(***************************************************************************)
(* The address databases of src/c_practice: p17.c keeps MAX_ROWS records of*)
(* a fixed size in a file it rewrites in place; p17_2.c puts the number of *)
(* rows and the length of a text field in front of the records and writes  *)
(* the whole file anew.  Each run of a program does one command.  The file *)
(* is a sequence of cells, an int or a char each; a program writes it cell *)
(* by cell and may be killed, or find the disk full, between two cells.    *)
(*                                                                         *)
(* A file that does not exist is the empty file: both programs refuse to   *)
(* load either.  The commands that only print (g, l, f) are left out.  So  *)
(* is what writes outside the buffer: a row number below zero in p17, one  *)
(* past the rows in p17_2's delete, which checks none, a size below zero.  *)
(* Row -1 of p17_2 is in front of row 0: with fields of no or two          *)
(* characters its valid is an int of the header, and that is modelled; with*)
(* fields of one character it is halves of two ints, and is left out.      *)
(***************************************************************************)
EXTENDS Integers, Sequences, FiniteSetsExt

CONSTANTS
    MAX_ROWS, MAX_DATA,     \* of p17.c
    Sizes,                  \* the <<max_row, max_data>> that p17_2 is asked for
    Texts                   \* the names and addresses: sequences of letters

ASSUME RecordFileAssumption ==
    /\ MAX_ROWS \in Nat \ {0} /\ MAX_DATA \in Nat \ {0}
    /\ Sizes \subseteq Nat \X Nat
    /\ Texts \subseteq Seq(Nat \ {0})

VARIABLES
    program,    \* "p17" or "p17_2"
    file,       \* the cells of the file
    cmd,        \* the command of the running process, or NoCmd
    buffer,     \* conn->db or buffer: the cells to be written
    opened,     \* the file is open for writing
    written,    \* the cells of buffer that are written
    before      \* history: the file when the process started

vars == <<program, file, cmd, buffer, opened, written, before>>

NoCmd == [op |-> "none"]
NUL == 0

-----------------------------------------------------------------------------
(* The layout of the file. *)

Header == IF program = "p17" THEN 0 ELSE 2
Rows(f) == IF program = "p17" THEN MAX_ROWS ELSE f[1]
Data(f) == IF program = "p17" THEN MAX_DATA ELSE f[2]

\* sizeof(struct Address), address_size
RowCells(data) == 2 + 2 * data
DbCells(f) == Header + Rows(f) * RowCells(Data(f))

\* Database_load, read_from_file: the fread of the whole database succeeds.
Loads(f) == Len(f) >= Header /\ Len(f) >= DbCells(f)
Load(f) == SubSeq(f, 1, DbCells(f))

\* The place of a row's cell: 1 its id, 2 its set or valid, then the texts.
At(f, id, cell) == Header + id * RowCells(Data(f)) + cell
Valid(f, id) == f[At(f, id, 2)] # 0
NameAt(f, id) == {At(f, id, 2 + i) : i \in 1 .. Data(f)}
EmailAt(f, id) == {At(f, id, 2 + Data(f) + i) : i \in 1 .. Data(f)}

\* strncpy(at, text, n): n cells, the text cut or filled up with NULs.
Strncpy(text, n) == [i \in 1 .. n |-> IF i <= Len(text) THEN text[i] ELSE NUL]

Empty(data) == [i \in 1 .. data |-> NUL]
EmptyRow(id, data) == <<id, 0>> \o Empty(data) \o Empty(data)
EmptyRows(rows, data) ==
    [i \in 1 .. rows * RowCells(data) |->
        EmptyRow((i - 1) \div RowCells(data), data)[((i - 1) % RowCells(data)) + 1]]

\* buffer with the cells from place `at` on replaced by those of `cells`.
Put(b, at, cells) ==
    [i \in DOMAIN b |-> IF i \in at .. at + Len(cells) - 1 THEN cells[i - at + 1] ELSE b[i]]

-----------------------------------------------------------------------------
(* The commands: what a process loads, checks and means to write. *)

\* Database_create, build_db
Created(rows, data) ==
    IF program = "p17" THEN EmptyRows(rows, data) ELSE <<rows, data>> \o EmptyRows(rows, data)

\* Mutant: the length of a text may be MAX_DATA.
Fits_all_cells(text) == Len(text) <= MAX_DATA

\* Database_set: a text that would not leave room for its NUL is refused.
Fits(text) == Len(text) < MAX_DATA

\* Database_set copies all cells of a field, set_address all but the last.
Copied == IF program = "p17" THEN MAX_DATA ELSE Data(file) - 1

\* Database_set, set_address
WithSet(b, id, name, email) ==
    Put(Put(Put(b, At(b, id, 2), <<1>>),
            At(b, id, 3), Strncpy(name, Copied)),
        At(b, id, 3 + Data(b)), Strncpy(email, Copied))

\* The rows that 'd' deletes: delete_address takes -1 for a row as well.
Deletes(f) ==
    0 .. Rows(f) - 1 \cup IF program = "p17_2" /\ Data(f) \in {0, 2} THEN {-1} ELSE {}

\* Where delete_address finds the valid of a row; that of row -1 is max_data or max_row.
ValidAt(b, id) == IF id >= 0 THEN At(b, id, 2) ELSE IF Data(b) = 0 THEN 2 ELSE 1

\* Database_delete clears the row, delete_address only its valid.
WithDelete(b, id) ==
    IF program = "p17" THEN Put(b, At(b, id, 1), EmptyRow(id, MAX_DATA))
    ELSE Put(b, ValidAt(b, id), <<0>>)

Begin(c, b) ==
    /\ cmd = NoCmd
    /\ cmd' = c /\ buffer' = b /\ before' = file
    /\ UNCHANGED <<program, file, opened, written>>

\* main, action 'c'
StartCreate ==
    \E size \in IF program = "p17" THEN {<<MAX_ROWS, MAX_DATA>>} ELSE Sizes :
        Begin([op |-> "c", rows |-> size[1], data |-> size[2]], Created(size[1], size[2]))

\* main, action 's'; a command that is refused changes nothing.  set_address dies in
\* strncpy when the fields have no cells: their length less one is no length.
StartSet ==
    /\ Loads(file) /\ Data(file) > 0
    /\ \E id \in 0 .. Rows(file) - 1, name \in Texts, email \in Texts :
        /\ ~Valid(file, id)
        /\ program = "p17" => Fits(name) /\ Fits(email)
        /\ Begin([op |-> "s", id |-> id, name |-> name, email |-> email],
                 WithSet(Load(file), id, name, email))

\* main, action 'd'
StartDelete ==
    /\ Loads(file)
    /\ \E id \in Deletes(file) : Begin([op |-> "d", id |-> id], WithDelete(Load(file), id))

-----------------------------------------------------------------------------
(* Writing the file. *)

\* Mutant: fopen does not truncate the file.
OpenedFile_kept == file

\* fopen: "w" truncates; p17 opens with "r+" for every command but 'c'.
OpenedFile == IF program = "p17" /\ cmd.op # "c" THEN file ELSE <<>>

Open ==
    /\ cmd # NoCmd /\ ~opened
    /\ opened' = TRUE /\ file' = OpenedFile
    /\ UNCHANGED <<program, cmd, buffer, written, before>>

\* Database_write, write_to_file: the next cell of the fwrite.
Write ==
    /\ opened /\ written < Len(buffer)
    /\ written' = written + 1
    /\ file' = SubSeq(buffer, 1, written + 1) \o SubSeq(file, written + 2, Len(file))
    /\ UNCHANGED <<program, cmd, buffer, opened, before>>

Ended ==
    /\ cmd' = NoCmd /\ buffer' = <<>> /\ opened' = FALSE /\ written' = 0 /\ before' = <<>>
    /\ UNCHANGED <<program, file>>

\* Mutant: nobody looks at what fwrite returns.
Exit_unchecked == opened /\ Ended

\* fclose and return 0
Exit == opened /\ written = Len(buffer) /\ Ended

\* p17 opens, and truncates, before it finds that the id is too large.
Refuse == program = "p17" /\ cmd.op = "c" /\ opened /\ written = 0 /\ Ended

\* The process is killed, or fwrite fails and it dies.
Crash == cmd # NoCmd /\ Ended

Init ==
    /\ program \in {"p17", "p17_2"}
    /\ file = <<>> /\ before = <<>>
    /\ cmd = NoCmd /\ buffer = <<>> /\ opened = FALSE /\ written = 0

Next ==
    \/ StartCreate \/ StartSet \/ StartDelete
    \/ Open \/ Write \/ Exit \/ Refuse \/ Crash

Spec == Init /\ [][Next]_vars

-----------------------------------------------------------------------------
(* Correctness. *)

\* The file and buffer hold cells, and whatever a crash left, a database that
\* loads is one the commands can use: every row carries its own id and every
\* text ends with a NUL inside its field, as printf("%s") and strcmp in
\* Address_print, print_address and find_name need it to; where a field has no
\* room for one, no row is set.
RecordTypeOK ==
    /\ program \in {"p17", "p17_2"}
    /\ opened \in BOOLEAN /\ written \in 0 .. Len(buffer)
    /\ \A i \in DOMAIN file : file[i] \in Nat
    /\ Loads(file) /\ cmd = NoCmd => \A id \in 0 .. Rows(file) - 1 :
        /\ file[At(file, id, 1)] = id
        /\ IF Data(file) = 0 THEN ~Valid(file, id)
           ELSE file[Max(NameAt(file, id))] = NUL /\ file[Max(EmailAt(file, id))] = NUL

\* The text of a field: its cells before the first NUL.
Text(f, places) ==
    LET stops == {p \in places : f[p] = NUL} \cup {Max(places) + 1}
    IN  SubSeq(f, Min(places), Min(stops) - 1)

Book(f) ==
    IF ~Loads(f) THEN [data |-> -1, row |-> <<>>]
    ELSE [data |-> Data(f),
          row |-> [id \in 0 .. Rows(f) - 1 |->
                    IF Valid(f, id)
                    THEN [set |-> TRUE, name |-> Text(f, NameAt(f, id)),
                          email |-> Text(f, EmailAt(f, id))]
                    ELSE [set |-> FALSE]]]

Address == INSTANCE AddressBook WITH
    book <- IF cmd = NoCmd THEN Book(file) ELSE Book(before),
    cmd <- cmd,
    inPlace <- program = "p17"

\* A command that starts is one the book allows, and a process that ends at any
\* point of its write (write_to_file, Database_write) leaves the
\* old book, the new book or a file no program loads; p17, which writes in
\* place, instead leaves the one record it was setting with a text that mixes
\* the new one and what the row held before: after a delete cut short, the
\* name of a deleted record.
CrashSafe == Address!Spec

\* A process that gets to its return 0 did its command, the whole of it and to no
\* other row: an fwrite that fell short (Database_write, write_to_file) ends in die.
ExitDoes == [][Exit => Address!Finish]_vars
=============================================================================
