----------------------------- MODULE BlockStore -----------------------------
(***************************************************************************)
(* What a card and its host driver promise to the block layer: a request   *)
(* is answered once; it moves the words of its blocks in order, each to or *)
(* from its own place; it is answered "ok" only when all of them moved,    *)
(* and a failed one has moved a first part of them.  A word that was never *)
(* written and lies past the end of the image is Unknown: it reads as      *)
(* anything.  Reading the card's identification returns the same words     *)
(* every time.                                                             *)
(***************************************************************************)
EXTENDS Integers, Sequences

CONSTANTS
  Requests,     \* records: op, from (first word), data, sg, words (how many)
  Words,        \* the words of the card, 0 .. n - 1
  Vals,         \* what a word written may hold
  Anything,     \* what a read of an Unknown word may return
  Unknown, None,
  Ident         \* the identification, a sequence of words

VARIABLES
  mem,      \* [Words -> Vals \cup {Unknown}]
  req,      \* the request being served, or None
  moved,    \* how many of its words were moved
  got,      \* the words read so far by the request
  answer    \* "none", "ok" or "error" for the last request

vars == <<mem, req, moved, got, answer>>

Init ==
  /\ mem \in [Words -> Vals \cup {Unknown}]
  /\ req = None /\ moved = 0 /\ got = <<>> /\ answer = "ok"

Submit(r) ==
  /\ answer # "none"
  /\ req' = r /\ moved' = 0 /\ got' = <<>> /\ answer' = "none"
  /\ UNCHANGED mem

Busy == answer = "none" /\ moved < req.words

\* Unknown words below a word written past the end of the image become known.
Put ==
  /\ Busy /\ req.op = "write"
  /\ mem' \in [Words -> Vals \cup {Unknown}]
  /\ mem'[req.from + moved] = req.data[moved + 1]
  /\ \A w \in Words \ {req.from + moved} :
       mem'[w] = mem[w] \/ (mem[w] = Unknown /\ w < req.from + moved)
  /\ moved' = moved + 1
  /\ UNCHANGED <<req, got, answer>>

Get ==
  /\ Busy /\ req.op \in {"read", "ident"}
  /\ \E v \in IF req.op = "ident" THEN {Ident[moved + 1]}
              ELSE IF mem[req.from + moved] = Unknown THEN Anything
              ELSE {mem[req.from + moved]} :
       got' = Append(got, v)
  /\ moved' = moved + 1
  /\ UNCHANGED <<mem, req, answer>>

Finish ==
  /\ answer = "none" /\ moved = req.words
  /\ answer' = "ok"
  /\ UNCHANGED <<mem, req, moved, got>>

\* Only a request whose buffer is short, or of an unsupported block size, fails.
Fail ==
  /\ answer = "none"
  /\ \/ moved = req.sg /\ req.sg < req.words
     \/ ~req.blksz_ok
  /\ answer' = "error"
  /\ UNCHANGED <<mem, req, moved, got>>

Next == (\E r \in Requests : Submit(r)) \/ Put \/ Get \/ Finish \/ Fail

Spec == Init /\ [][Next]_vars
=============================================================================
