---------------------------- MODULE DeviceProofs ----------------------------
(***************************************************************************)
(* Theorems about two of NEMU's device modules, which share no state.      *)
(*                                                                         *)
(* The SD card and its driver (SdHost), for every size of card, image,     *)
(* block and request: no WARN_ON of the driver fires, and driver and card  *)
(* together implement BlockStore.  The card keeps one position for         *)
(* everything, a flag that outlives its command and a direction that does; *)
(* the driver counts the same words in blocks and in its scatter list.     *)
(* SdInv relates the counts at every point of a request.                   *)
(*                                                                         *)
(* The physical address map (IoMap), for every address width, memory       *)
(* layout, page size and sequence of device registrations.                 *)
(***************************************************************************)
EXTENDS SdHost, IoMap, TLAPS

-----------------------------------------------------------------------------
(* Words and blocks                                                        *)

Total == CardBlocks * BlockWords
FirstWord(b) == b * BlockWords
BlockOf(w) == w \div BlockWords
Blocks(r) == BlockOf(r.words)

LEMMA BlockArithmetic ==
  /\ Total \in Nat /\ BlockWords \in Nat /\ BlockWords > 0 /\ BlockWords <= Total
  /\ FirstWord(0) = 0 /\ BlockOf(0) = 0
  /\ \A b \in Nat : /\ FirstWord(b) \in Nat /\ FirstWord(b + 1) = FirstWord(b) + BlockWords
                    /\ BlockOf(FirstWord(b)) = b
  /\ \A b, c \in Nat : b < c => FirstWord(b + 1) <= FirstWord(c)
<1>1. BlockWords \in Nat \ {0} /\ CardBlocks \in Nat \ {0}
  BY SdCardAssumption
<1>2. \A b \in Nat : BlockOf(FirstWord(b)) = b
  BY <1>1 DEF BlockOf, FirstWord
<1>3. \A b \in Nat : FirstWord(b) \in Nat /\ FirstWord(b + 1) = FirstWord(b) + BlockWords
  BY <1>1 DEF FirstWord
<1>4. \A b, c \in Nat : b < c => FirstWord(b + 1) <= FirstWord(c)
  BY <1>1 DEF FirstWord
<1>5. FirstWord(0) = 0 /\ FirstWord(1) = BlockWords /\ Total = FirstWord(CardBlocks)
  BY <1>1 DEF FirstWord, Total
<1>6. BlockWords <= Total /\ Total \in Nat
  BY <1>1, <1>3, <1>4, <1>5
<1> QED
  BY <1>1, <1>2, <1>3, <1>4, <1>5, <1>6

LEMMA ScatterListFacts == \A words \in Nat : ScatterLists(words) \subseteq 0 .. words
<1> SUFFICES ASSUME NEW words \in Nat, NEW s \in 0 .. words
             PROVE  words - s \in 0 .. words
  BY DEF ScatterLists
<1> QED
  OBVIOUS

\* What the core may ask for: whole blocks of the card, or no data.
LEMMA BlockRequestFacts ==
  ASSUME NEW r \in BlockRequests
  PROVE  /\ r.op \in {"read", "write"} /\ r.sbc \in BOOLEAN /\ r.blksz_ok = TRUE
         /\ \E n, b \in Nat :
              /\ 0 < n /\ b + n <= CardBlocks
              /\ r.from = FirstWord(b) /\ r.words = FirstWord(n)
              /\ r.sg \in 0 .. r.words
         /\ r.op = "write" => \A i \in 1 .. r.words : r.data[i] \in Vals
<1>0. CardBlocks \in Nat /\ MaxBlocks \in Nat /\ BlockWords \in Nat \ {0}
  BY SdCardAssumption, SdHostAssumption
<1>1. PICK n \in 2 .. MaxBlocks :
        r \in UNION {BlockReads(n, b) \cup BlockWrites(n, b) : b \in 0 .. CardBlocks - n}
  BY DEF BlockRequests
<1>2. PICK b \in 0 .. CardBlocks - n : r \in BlockReads(n, b) \cup BlockWrites(n, b)
  BY <1>1
<1>3. n \in Nat /\ b \in Nat /\ 0 < n /\ b + n <= CardBlocks
  BY <1>0
<1>6. ScatterLists(n * BlockWords) \subseteq 0 .. n * BlockWords
  <2>1. n * BlockWords \in Nat
    BY <1>0, <1>3
  <2> QED
    BY <2>1, ScatterListFacts
<1>4. CASE r \in BlockReads(n, b)
  <2>1. PICK x \in BOOLEAN, g \in ScatterLists(n * BlockWords) :
          r = [op |-> "read", from |-> b * BlockWords, sbc |-> x, data |-> <<>>, sg |-> g,
               words |-> n * BlockWords, blksz_ok |-> TRUE]
    BY <1>4 DEF BlockReads
  <2>2. g \in 0 .. n * BlockWords
    BY <1>6
  <2> QED
    BY <1>3, <2>1, <2>2 DEF FirstWord
<1>5. CASE r \in BlockWrites(n, b)
  <2>0. PICK x \in BOOLEAN, v \in [0 .. n - 1 -> Vals], g \in ScatterLists(n * BlockWords) :
          r = [op |-> "write", from |-> b * BlockWords, sbc |-> x,
               data |-> [i \in 1 .. n * BlockWords |-> v[(i - 1) \div BlockWords]],
               sg |-> g, words |-> n * BlockWords, blksz_ok |-> TRUE]
    BY <1>5 DEF BlockWrites
  <2>1. /\ r.data = [i \in 1 .. n * BlockWords |-> v[(i - 1) \div BlockWords]]
        /\ r.op = "write" /\ r.sbc \in BOOLEAN /\ r.blksz_ok = TRUE
        /\ r.from = FirstWord(b) /\ r.words = FirstWord(n)
        /\ r.sg \in 0 .. r.words
    BY <1>6, <2>0 DEF FirstWord
  <2>2. ASSUME NEW i \in 1 .. r.words
        PROVE  r.data[i] \in Vals
    <3>1. i \in 1 .. n * BlockWords
      BY <2>1 DEF FirstWord
    <3>2. (i - 1) \div BlockWords \in 0 .. n - 1
      BY <1>0, <1>3, <3>1
    <3> QED
      BY <2>1, <3>1, <3>2
  <2> QED
    BY <1>3, <2>1, <2>2
<1> QED
  BY <1>2, <1>4, <1>5

SoundRequest(r) ==
  /\ r.op \in {"read", "write", "ident", "if_cond", "status", "go_idle"}
  /\ r.sbc \in BOOLEAN /\ r.blksz_ok \in BOOLEAN
  /\ r.from \in Nat /\ r.words \in Nat /\ r.sg \in 0 .. r.words
  /\ r.from + r.words <= Total
  /\ BlockOf(r.from) \in 0 .. CardBlocks /\ FirstWord(BlockOf(r.from)) = r.from
  /\ Blocks(r) \in 0 .. CardBlocks /\ FirstWord(Blocks(r)) = r.words
  /\ r.op = "ident" => r.from = 0 /\ r.words = BlockWords
  /\ r.op \notin {"read", "write", "ident"} => r.words = 0 /\ r.sg = 0
  /\ r.op = "write" => \A i \in 1 .. r.words : r.data[i] \in Vals
  /\ ~r.blksz_ok => r.op = "status"
  /\ r \in ScanRequests => r.op \notin {"read", "write"}
  /\ r \in ReadyRequests => r.op \notin {"ident", "if_cond"}

\* What the core may ask for: whole blocks of the card, or no data.
LEMMA RequestFacts == \A r \in Requests : SoundRequest(r)
<1> SUFFICES ASSUME NEW r \in Requests
             PROVE  SoundRequest(r)
  OBVIOUS
<1>0. CardBlocks \in Nat \ {0}
  BY SdCardAssumption
<1>1. CASE r \in BlockRequests
  <2>1. PICK n, b \in Nat :
              /\ 0 < n /\ b + n <= CardBlocks
              /\ r.from = FirstWord(b) /\ r.words = FirstWord(n)
              /\ r.sg \in 0 .. r.words
    BY <1>1, BlockRequestFacts
  <2>2. /\ r.op \in {"read", "write"} /\ r.sbc \in BOOLEAN /\ r.blksz_ok = TRUE
        /\ r.op = "write" => \A i \in 1 .. r.words : r.data[i] \in Vals
    BY <1>1, BlockRequestFacts
  <2>3. FirstWord(b) + FirstWord(n) <= Total
    <3>1. PICK c \in Nat : c = b + n /\ c <= CardBlocks
      BY <2>1
    <3>2. FirstWord(b) + FirstWord(n) = FirstWord(c)
      BY <3>1, SdCardAssumption DEF FirstWord
    <3>3. CASE c = CardBlocks
      <4>1. FirstWord(CardBlocks) = Total /\ Total \in Nat
        BY BlockArithmetic DEF Total, FirstWord
      <4> QED
        BY ONLY <3>2, <3>3, <4>1
    <3>4. CASE c < CardBlocks
      <4>1. FirstWord(c + 1) <= FirstWord(CardBlocks) /\ FirstWord(c) <= FirstWord(c + 1)
        BY <1>0, <3>4, BlockArithmetic
      <4>2. FirstWord(c) \in Nat /\ FirstWord(c + 1) \in Nat /\ FirstWord(CardBlocks) = Total /\ Total \in Nat
        BY <1>0, BlockArithmetic DEF Total, FirstWord
      <4> QED
        BY ONLY <3>2, <4>1, <4>2
    <3> QED
      BY <1>0, <3>1, <3>3, <3>4
  <2>4. /\ FirstWord(b) \in Nat /\ FirstWord(n) \in Nat /\ FirstWord(n) > 0
        /\ BlockOf(FirstWord(b)) = b /\ BlockOf(FirstWord(n)) = n
    <3>1. FirstWord(0 + 1) <= FirstWord(n)
      BY <2>1, BlockArithmetic
    <3>2. FirstWord(0 + 1) > 0
      BY BlockArithmetic DEF FirstWord
    <3>3. /\ FirstWord(b) \in Nat /\ FirstWord(n) \in Nat /\ FirstWord(0 + 1) \in Nat
          /\ BlockOf(FirstWord(b)) = b /\ BlockOf(FirstWord(n)) = n
      BY BlockArithmetic
    <3> QED
      BY ONLY <3>1, <3>2, <3>3
  <2>5. r \notin ScanRequests
    BY <2>2 DEF ScanRequests, Plain, IdentRequests
  <2>6. r.from \in Nat /\ r.words \in Nat /\ r.sg \in 0 .. r.words /\ r.from + r.words <= Total
    BY ONLY <2>1, <2>3, <2>4
  <2>7. /\ BlockOf(r.from) = b /\ FirstWord(BlockOf(r.from)) = r.from
        /\ Blocks(r) = n /\ FirstWord(Blocks(r)) = r.words
    BY <2>1, <2>4 DEF Blocks
  <2>8. b \in 0 .. CardBlocks /\ n \in 0 .. CardBlocks
    BY ONLY <1>0, <2>1, b \in Nat, n \in Nat
  <2> QED
    BY ONLY <2>2, <2>5, <2>6, <2>7, <2>8 DEF SoundRequest
<1>2. CASE r \in IdentRequests
  <2>0. ScatterLists(BlockWords) \subseteq 0 .. BlockWords
    BY SdCardAssumption, ScatterListFacts
  <2>1. /\ r.op = "ident" /\ r.from = 0 /\ r.words = BlockWords /\ r.sg \in 0 .. BlockWords
        /\ r.sbc = FALSE /\ r.blksz_ok = TRUE
    BY <1>2, <2>0 DEF IdentRequests
  <2>2. BlockOf(BlockWords) = 1 /\ FirstWord(1) = BlockWords
    <3>1. FirstWord(1) = BlockWords
      BY BlockArithmetic DEF FirstWord
    <3>2. BlockOf(FirstWord(1)) = 1
      BY BlockArithmetic
    <3> QED
      BY <3>1, <3>2
  <2>3. r \notin ReadyRequests
    <3>1. r \notin BlockRequests
      BY <2>1, BlockRequestFacts
    <3> QED
      BY <2>1, <3>1 DEF ReadyRequests, Plain
  <2>4. /\ BlockWords \in Nat /\ BlockWords <= Total
        /\ FirstWord(0) = 0 /\ BlockOf(0) = 0
    BY BlockArithmetic
  <2>5. Blocks(r) = 1 /\ BlockOf(r.from) = 0
    BY <2>1, <2>2, <2>4 DEF Blocks
  <2>6. r.from \in Nat /\ r.words \in Nat /\ r.sg \in 0 .. r.words /\ r.from + r.words <= Total
    BY ONLY <2>1, <2>4
  <2>7. /\ BlockOf(r.from) \in 0 .. CardBlocks /\ Blocks(r) \in 0 .. CardBlocks
    BY ONLY <1>0, <2>5
  <2>8. FirstWord(BlockOf(r.from)) = r.from /\ FirstWord(Blocks(r)) = r.words
    BY ONLY <2>1, <2>2, <2>4, <2>5
  <2> QED
    BY ONLY <2>1, <2>3, <2>6, <2>7, <2>8 DEF SoundRequest
<1>3. CASE r \in {Plain("go_idle", TRUE), Plain("if_cond", TRUE), Plain("status", TRUE), Plain("status", FALSE)}
  <2>1. /\ r.op \in {"if_cond", "status", "go_idle"} /\ r.from = 0 /\ r.words = 0 /\ r.sg = 0
        /\ r.sbc = FALSE /\ r.blksz_ok \in BOOLEAN
    <3>1. PICK op \in {"if_cond", "status", "go_idle"}, ok \in BOOLEAN : r = Plain(op, ok)
      BY <1>3
    <3> QED
      BY <3>1 DEF Plain
  <2>2. r.op = "if_cond" => r \notin ReadyRequests
    <3>1. r \notin BlockRequests
      BY <2>1, BlockRequestFacts
    <3> QED
      BY <2>1, <3>1 DEF ReadyRequests, Plain
  <2>4. r \in ScanRequests \cup ReadyRequests
    BY DEF Requests
  <2>3. /\ Total \in Nat /\ FirstWord(0) = 0 /\ BlockOf(0) = 0 /\ Blocks(r) = 0
    BY ONLY <2>1, BlockArithmetic DEF Blocks
  <2>5. ~r.blksz_ok => r.op = "status"
    BY <1>3 DEF Plain
  <2>6. r.from \in Nat /\ r.words \in Nat /\ r.sg \in 0 .. r.words /\ r.from + r.words <= Total
    BY ONLY <2>1, <2>3
  <2>7. /\ BlockOf(r.from) \in 0 .. CardBlocks /\ Blocks(r) \in 0 .. CardBlocks
    BY ONLY <1>0, <2>1, <2>3
  <2>8. FirstWord(BlockOf(r.from)) = r.from /\ FirstWord(Blocks(r)) = r.words
    BY ONLY <2>1, <2>3
  <2> QED
    BY ONLY <2>1, <2>2, <2>5, <2>6, <2>7, <2>8 DEF SoundRequest
<1> QED
  BY <1>1, <1>2, <1>3 DEF Requests, ScanRequests, ReadyRequests

-----------------------------------------------------------------------------
(* The inductive invariant                                                 *)

Serving == pc \notin {"out", "unlock"}
Moves(r) == r.op \in {"read", "write"}

\* One request at a time, which the core makes only when the last is answered;
\* blocks are moved only after an EXT_CSD was read to its end.
CoreInv ==
  /\ answer = "none" <=> waiting \/ Serving
  /\ waiting => ~Serving
  /\ answer = "none" => req \in Requests
  /\ answer = "none" /\ Moves(req) => identified
  /\ answer = "none" /\ req.op \in {"ident", "if_cond"} => ~identified
  /\ identified => ~read_ext_csd

\* The driver's pointers to the request, its command and its data.
HostInv ==
  /\ mutex <=> pc # "out"
  /\ Serving => mrq = req /\ req.blksz_ok
  /\ ~Serving => mrq = None /\ cmd = "none" /\ ~data /\ left = 0
  /\ pc \in {"send_sbc", "send_cmd", "send_stop"} => cmd = "none" /\ ~data
  /\ pc \in {"command", "finish_command"} => cmd # "none" /\ (data <=> cmd = "cmd" /\ HasData(req))
  /\ pc \in {"pio", "finish_data"} => cmd = "cmd" /\ data /\ HasData(req)
  /\ pc = "finish_command" /\ data => data_complete
  /\ pc = "send_stop" \/ cmd = "stop" => Moves(req)

\* No word of the request has been moved yet, some have, as many have as will.
NoneMoved == left = req.sg /\ buf = <<>> /\ ~error

Moved == req.sg - left

SomeMoved ==
  /\ left \in 0 .. req.sg /\ block \in 0 .. Blocks(req)
  /\ error => left = 0 /\ req.sg < req.words
  /\ ~error => Moved = FirstWord(block) + word
  /\ req.op = "write" => write_cmd /\ pos = req.from + Moved
  /\ req.op = "read" => ~write_cmd /\ (pos = req.from + Moved \/ (Len(image) <= pos /\ Len(image) <= req.from + Moved))
  /\ req.op = "ident" => addr = Moved /\ (read_ext_csd <=> Moved # BlockWords)

AllMoved == left = 0 /\ (error <=> req.sg < req.words) /\ (req.op = "ident" /\ ~error => ~read_ext_csd)

ProgressInv ==
  /\ pc \in {"send_sbc", "send_cmd"} \/ cmd = "sbc" \/ (pc = "command" /\ cmd = "cmd") => NoneMoved
  /\ pc = "command" => block = 0 /\ word = 0
  /\ pc = "command" /\ cmd = "cmd" => base_arg = BlockOf(req.from)
  /\ pc = "pio" => SomeMoved
  /\ pc \in {"send_stop", "finish_data"} \/ cmd = "stop" \/ (pc = "finish_command" /\ cmd = "cmd") => AllMoved

SdInv == SdTypeOK /\ NoWarning /\ CoreInv /\ HostInv /\ ProgressInv

-----------------------------------------------------------------------------
(* The card                                                                *)

LEMMA CardTypes ==
  CardTypeOK =>
    /\ image \in Seq(Vals) /\ Len(image) \in Nat /\ Len(image) <= Total
    /\ pos \in Nat /\ pos <= Total /\ Total \in Nat
    /\ write_cmd \in BOOLEAN /\ read_ext_csd \in BOOLEAN /\ addr \in Nat
    /\ base_arg \in 0 .. CardBlocks /\ base_data \in WordVals
BY BlockArithmetic DEF CardTypeOK, Total

\* A word written to a card in the write direction goes to its position, and
\* what the file did not have below it becomes a hole.
LEMMA WordWritten ==
  ASSUME CardTypeOK, NEW v \in Vals, ~read_ext_csd, write_cmd, pos < Total, write_data(v)
  PROVE  /\ CardTypeOK' /\ pos' = pos + 1 /\ addr' = addr + 1
         /\ UNCHANGED <<write_cmd, read_ext_csd, base_arg>>
         /\ image' \in Seq(Vals) /\ Len(image') \in Nat
         /\ pos < Len(image) => Len(image') = Len(image)
         /\ Len(image) <= pos => Len(image') = pos + 1
         /\ image'[pos + 1] = v
         /\ \A i \in 1 .. Len(image) : i # pos + 1 => image'[i] = image[i]
<1>0. /\ image \in Seq(Vals) /\ Len(image) \in Nat /\ Len(image) <= Total
      /\ pos \in Nat /\ addr \in Nat /\ Zero \in Vals /\ Total \in Nat
      /\ base_arg \in 0 .. CardBlocks
  BY CardTypes, SdCardAssumption
<1>1. PICK m \in Nat : /\ m = IF pos < Len(image) THEN Len(image) ELSE pos + 1
                       /\ pos < Len(image) => m = Len(image)
                       /\ Len(image) <= pos => m = pos + 1
                       /\ Len(image) <= m /\ pos + 1 <= m /\ m <= Total
  <2>1. CASE pos < Len(image)
    BY <1>0, <2>1
  <2>2. CASE ~(pos < Len(image))
    <3>1. PICK m \in Nat : m = pos + 1
      BY <1>0
    <3> QED
      BY <1>0, <2>2, <3>1
  <2> QED
    BY <2>1, <2>2
<1>2. /\ image' = [i \in 1 .. m |-> IF i = pos + 1 THEN v ELSE IF i <= Len(image) THEN image[i] ELSE Zero]
      /\ pos' = pos + 1 /\ base_data' = v /\ addr' = addr + 1
      /\ UNCHANGED <<write_cmd, read_ext_csd, base_arg>>
  BY <1>1 DEF write_data, fwrite
<1>3. \A i \in 1 .. m : (IF i = pos + 1 THEN v ELSE IF i <= Len(image) THEN image[i] ELSE Zero) \in Vals
  BY <1>0, <1>1
<1>4. image' \in Seq(Vals) /\ Len(image') = m
  BY <1>2, <1>3
<1>5. image'[pos + 1] = v /\ \A i \in 1 .. Len(image) : i # pos + 1 => image'[i] = image[i]
  BY <1>0, <1>1, <1>2
<1>6. CardTypeOK'
  <2>1. Len(image') \in ImageBlocks * BlockWords .. Total
    <3>1. PICK low : low = ImageBlocks * BlockWords
      OBVIOUS
    <3>2. low \in Nat /\ low <= Len(image)
      BY <3>1, SdCardAssumption DEF CardTypeOK
    <3> QED
      BY ONLY <1>0, <1>1, <1>4, <3>1, <3>2
  <2>2. pos' \in 0 .. Total /\ addr' \in Nat
    BY <1>0, <1>2
  <2>3. base_data' \in WordVals /\ write_cmd' \in BOOLEAN /\ read_ext_csd' \in BOOLEAN
    BY <1>2, CardTypes DEF WordVals
  <2> QED
    BY <1>0, <1>2, <1>4, <2>1, <2>2, <2>3 DEF CardTypeOK, Total
<1> QED
  BY <1>0, <1>1, <1>2, <1>4, <1>5, <1>6

LEMMA WordRead ==
  ASSUME CardTypeOK, ~read_ext_csd, ~write_cmd, read_data
  PROVE  /\ CardTypeOK' /\ UNCHANGED <<image, write_cmd, read_ext_csd, base_arg>>
         /\ pos < Len(image) => base_data' = image[pos + 1] /\ pos' = pos + 1
         /\ Len(image) <= pos => pos' = pos
         /\ base_data' \in WordVals
<1>0. /\ image \in Seq(Vals) /\ Len(image) \in Nat /\ Len(image) <= Total
      /\ pos \in Nat /\ pos <= Total /\ Total \in Nat /\ addr \in Nat /\ base_data \in WordVals
  BY CardTypes
<1>1. /\ UNCHANGED <<image, write_cmd, read_ext_csd, base_arg>> /\ addr' = addr + 1
      /\ pos < Len(image) => base_data' = image[pos + 1] /\ pos' = pos + 1
      /\ ~(pos < Len(image)) => base_data' = base_data /\ pos' = pos
  BY DEF read_data, fread
<1>2. pos < Len(image) => image[pos + 1] \in Vals
  BY <1>0
<1>3. base_data' \in WordVals /\ pos' \in 0 .. Total
  BY <1>0, <1>1, <1>2 DEF WordVals
<1>4. CardTypeOK'
  BY <1>0, <1>1, <1>3 DEF CardTypeOK, Total
<1> QED
  BY <1>0, <1>1, <1>3, <1>4

LEMMA ExtCsdRead ==
  ASSUME CardTypeOK, read_ext_csd, read_data
  PROVE  /\ CardTypeOK' /\ UNCHANGED <<image, pos, write_cmd, base_arg>>
         /\ base_data' = ExtCsdWord /\ addr' = addr + 1
         /\ read_ext_csd' = (addr # BlockWords - 1)
         /\ base_data' \in WordVals
<1>1. /\ UNCHANGED <<image, pos, write_cmd, base_arg>>
      /\ base_data' = ExtCsdWord /\ addr' = addr + 1 /\ read_ext_csd' = (addr # BlockWords - 1)
  BY DEF read_data, access_ext_csd
<1>2. ExtCsdWord \in WordVals
  BY SdCardAssumption DEF ExtCsdWord, WordVals
<1>3. addr' \in Nat /\ read_ext_csd' \in BOOLEAN /\ base_data' \in WordVals
  BY <1>1, <1>2, CardTypes
<1>4. CardTypeOK'
  BY <1>1, <1>3 DEF CardTypeOK
<1> QED
  BY <1>1, <1>3, <1>4

LEMMA CardLeftAlone == CardTypeOK /\ UNCHANGED cardVars => CardTypeOK'
BY DEF CardTypeOK, cardVars

-----------------------------------------------------------------------------
(* Requests that come and go                                               *)

\* What the invariant says of the request inside the driver.
LEMMA ServedFacts ==
  ASSUME SdInv, Serving
  PROVE  /\ req \in Requests /\ SoundRequest(req) /\ mrq = req
         /\ answer = "none" /\ ~waiting /\ mutex
         /\ left \in Nat /\ block \in Nat /\ word \in 0 .. BlockWords - 1
         /\ error \in BOOLEAN /\ data \in BOOLEAN
         /\ buf \in Seq(WordVals) /\ CardTypeOK
BY RequestFacts DEF SdInv, CoreInv, HostInv, SdTypeOK, Serving

LEMMA InitHolds == SdInit => SdInv
<1> SUFFICES ASSUME SdInit
             PROVE  SdInv
  OBVIOUS
<1>0. /\ BlockWords \in Nat \ {0} /\ CardBlocks \in Nat /\ Zero \in Vals
      /\ ImageBlocks \in Nat /\ ImageBlocks <= CardBlocks
  BY SdCardAssumption
<1>1. CardTypeOK
  <2>1. PICK m \in Nat : m = ImageBlocks * BlockWords
    BY <1>0
  <2>2. m <= CardBlocks * BlockWords
    <3>1. CASE ImageBlocks = CardBlocks
      BY <2>1, <3>1
    <3>2. CASE ImageBlocks < CardBlocks
      <4>1. FirstWord(ImageBlocks + 1) <= FirstWord(CardBlocks) /\ FirstWord(ImageBlocks + 1) = FirstWord(ImageBlocks) + BlockWords
        BY <1>0, <3>2, BlockArithmetic
      <4>2. FirstWord(ImageBlocks) = m /\ FirstWord(CardBlocks) = CardBlocks * BlockWords /\ FirstWord(CardBlocks) \in Nat
        BY <1>0, <2>1, BlockArithmetic DEF FirstWord
      <4> QED
        BY <1>0, <4>1, <4>2
    <3> QED
      BY <1>0, <3>1, <3>2
  <2>3. image = [i \in 1 .. m |-> Zero] /\ pos = 0 /\ write_cmd = FALSE /\ read_ext_csd = FALSE
        /\ addr = 0 /\ base_arg = 0 /\ base_data = Zero
    BY <2>1 DEF SdInit, init_sdcard
  <2>4. image \in Seq(Vals) /\ Len(image) = m
    BY <1>0, <2>3
  <2>5. CardBlocks * BlockWords \in Nat
    BY <1>0
  <2> QED
    <3>1. m \in ImageBlocks * BlockWords .. CardBlocks * BlockWords /\ 0 \in 0 .. CardBlocks * BlockWords
      BY <2>1, <2>2, <2>5
    <3>2. 0 \in 0 .. CardBlocks /\ Zero \in WordVals
      BY <1>0 DEF WordVals
    <3> QED
      BY ONLY <2>3, <2>4, <3>1, <3>2 DEF CardTypeOK
<1>2. SdTypeOK
  <2>1. 0 \in 0 .. BlockWords - 1 /\ <<>> \in Seq(WordVals)
    BY <1>0
  <2> QED
    BY ONLY <1>1, <2>1, SdInit DEF SdInit, SdTypeOK
<1> QED
  BY <1>2 DEF SdInit, init_sdcard, SdInv, NoWarning, CoreInv, HostInv, ProgressInv, Serving

LEMMA SubmitKeeps ==
  ASSUME SdInv, NEW r \in Requests, Submit(r)
  PROVE  SdInv'
<1>1. /\ ~Serving /\ ~waiting /\ UNCHANGED <<cardVars, hostVars>>
      /\ req' = r /\ waiting' = TRUE /\ answer' = "none"
      /\ identified' = (identified /\ r.op # "go_idle")
      /\ identified => r \in ReadyRequests
      /\ ~identified => r \in ScanRequests
      /\ SoundRequest(r) /\ identified \in BOOLEAN
  BY RequestFacts DEF Submit, SdInv, CoreInv, SdTypeOK
<1>2. SdTypeOK'
  <2>1. CardTypeOK' /\ identified' \in BOOLEAN /\ SdTypeOK
    BY <1>1, CardLeftAlone DEF SdInv, SdTypeOK
  <2>2. /\ UNCHANGED <<mutex, pc, mrq, cmd, data, data_complete, use_sbc, error, left, block, word, buf, warned>>
        /\ req' \in Requests \cup {None} /\ waiting' \in BOOLEAN /\ answer' \in {"none", "ok", "error"}
    BY <1>1 DEF hostVars
  <2> QED
    BY ONLY <2>1, <2>2 DEF SdTypeOK
<1>3. CoreInv'
  BY <1>1 DEF SdInv, CoreInv, Serving, Moves, SoundRequest, hostVars, cardVars
<1>4. NoWarning' /\ HostInv' /\ ProgressInv'
  BY <1>1 DEF SdInv, NoWarning, HostInv, ProgressInv, Serving, hostVars, cardVars
<1> QED
  BY <1>2, <1>3, <1>4 DEF SdInv

LEMMA RefuseKeeps ==
  ASSUME SdInv, RefuseBlockSize
  PROVE  SdInv'
<1>1. /\ waiting /\ ~Serving /\ UNCHANGED <<cardVars, hostVars, identified, req>>
      /\ waiting' = FALSE /\ answer' = "error"
  BY DEF RefuseBlockSize, SdInv, CoreInv
<1>2. SdTypeOK'
  <2>1. CardTypeOK' /\ SdTypeOK
    BY <1>1, CardLeftAlone DEF SdInv, SdTypeOK
  <2>2. /\ UNCHANGED <<mutex, pc, mrq, cmd, data, data_complete, use_sbc, error, left, block, word, buf, warned>>
        /\ UNCHANGED <<identified, req>>
        /\ waiting' \in BOOLEAN /\ answer' \in {"none", "ok", "error"}
    BY <1>1 DEF hostVars
  <2> QED
    BY ONLY <2>1, <2>2 DEF SdTypeOK
<1>3. CoreInv'
  BY <1>1 DEF SdInv, CoreInv, Serving, hostVars, cardVars
<1>4. NoWarning' /\ HostInv' /\ ProgressInv'
  BY <1>1 DEF SdInv, NoWarning, HostInv, ProgressInv, Serving, hostVars, cardVars
<1> QED
  BY <1>2, <1>3, <1>4 DEF SdInv

LEMMA RequestKeeps ==
  ASSUME SdInv, nemu_request
  PROVE  SdInv'
<1>1. /\ waiting /\ pc = "out" /\ answer = "none" /\ req \in Requests /\ SoundRequest(req)
      /\ mrq = None /\ cmd = "none" /\ ~data
  BY RequestFacts DEF nemu_request, SdInv, CoreInv, HostInv, Serving
<1>2. /\ waiting' = FALSE /\ mutex' = TRUE /\ warned' = warned /\ error' = FALSE
      /\ left' = req.sg /\ buf' = <<>> /\ mrq' = req /\ req.blksz_ok
      /\ use_sbc' \in BOOLEAN /\ pc' \in {"send_sbc", "send_cmd"}
      /\ UNCHANGED <<cardVars, identified, answer, req, cmd, data, data_complete, block, word>>
  BY <1>1 DEF nemu_request, SdInv, SdTypeOK
<1>3. SdTypeOK'
  <2>1. left' \in Nat /\ buf' \in Seq(WordVals)
    BY <1>1, <1>2 DEF SoundRequest
  <2> QED
    BY <1>1, <1>2, <2>1, CardLeftAlone DEF SdInv, SdTypeOK
<1>4. CoreInv' /\ NoWarning'
  BY <1>1, <1>2 DEF SdInv, CoreInv, NoWarning, Serving, Moves, cardVars
<1>5. HostInv' /\ ProgressInv'
  BY <1>1, <1>2 DEF SdInv, HostInv, ProgressInv, Serving, Moves, NoneMoved, cardVars
<1> QED
  BY <1>3, <1>4, <1>5 DEF SdInv

-----------------------------------------------------------------------------
(* Commands                                                                *)

LEMMA SendKeeps ==
  ASSUME SdInv, NEW c \in {"sbc", "cmd", "stop"}, nemu_send_command(c)
  PROVE  SdInv'
<1>1. /\ pc = [sbc |-> "send_sbc", cmd |-> "send_cmd", stop |-> "send_stop"][c]
      /\ c = "sbc" => pc = "send_sbc"
      /\ c = "cmd" => pc = "send_cmd"
      /\ c = "stop" => pc = "send_stop"
      /\ Serving /\ cmd = "none" /\ ~data
  BY DEF nemu_send_command, Sending, SdInv, HostInv, Serving
<1>2. /\ req \in Requests /\ SoundRequest(req) /\ mrq = req
      /\ answer = "none" /\ ~waiting /\ mutex
  BY <1>1, ServedFacts
<1>3. /\ cmd' = c /\ pc' = "command" /\ block' = 0 /\ word' = 0
      /\ data' = (c = "cmd" /\ HasData(req)) /\ data_complete' = (data_complete /\ ~data')
      /\ warned' = warned
      /\ base_arg' = Argument(c)
      /\ UNCHANGED <<image, pos, write_cmd, read_ext_csd, addr, base_data>>
      /\ UNCHANGED <<identified, answer, req, waiting, mutex, mrq, use_sbc, error, left, buf>>
  BY <1>1, <1>2 DEF nemu_send_command, nemu_prepare_data, write_arg, coreVars, SdInv, SdTypeOK, NoWarning
<1>4. Argument(c) \in 0 .. CardBlocks /\ (c = "cmd" => Argument(c) = BlockOf(req.from))
  BY <1>2, SdCardAssumption DEF Argument, SoundRequest, BlockOf, Blocks
<1>5. SdTypeOK'
  <2>1. CardTypeOK'
    BY <1>3, <1>4 DEF SdInv, SdTypeOK, CardTypeOK
  <2>2. data' \in BOOLEAN /\ data_complete' \in BOOLEAN /\ block' \in Nat /\ word' \in 0 .. BlockWords - 1
    BY <1>3, BlockArithmetic
  <2> QED
    BY <1>3, <2>1, <2>2 DEF SdInv, SdTypeOK
<1>6. CoreInv' /\ NoWarning'
  BY <1>1, <1>3 DEF SdInv, CoreInv, NoWarning, Serving
<1>7. HostInv'
  BY <1>1, <1>3 DEF SdInv, HostInv, Serving, HasData, Moves
<1>8. ProgressInv'
  BY <1>1, <1>3, <1>4 DEF SdInv, ProgressInv, NoneMoved, AllMoved
<1> QED
  BY <1>5, <1>6, <1>7, <1>8 DEF SdInv

LEMMA WriteCommandKeeps ==
  ASSUME SdInv, WriteCommand
  PROVE  SdInv'
<1>1. pc = "command" /\ Serving /\ cmd \in {"sbc", "cmd", "stop"} /\ (data <=> cmd = "cmd" /\ HasData(req))
      /\ block = 0 /\ word = 0 /\ data \in BOOLEAN
  BY DEF WriteCommand, SdInv, HostInv, ProgressInv, Serving, SdTypeOK
<1>2. /\ req \in Requests /\ SoundRequest(req) /\ mrq = req
      /\ answer = "none" /\ ~waiting /\ mutex /\ CardTypeOK
  BY <1>1, ServedFacts
<1>3. /\ pc' = IF data THEN "pio" ELSE "finish_command"
      /\ UNCHANGED <<identified, answer, req, waiting, mutex, mrq, cmd, data, data_complete, use_sbc,
                     error, left, block, word, buf, warned>>
  BY DEF WriteCommand, coreVars
<1>4. /\ UNCHANGED <<image, base_arg, base_data>>
      /\ cmd = "cmd" /\ req.op = "ident" => read_ext_csd' = TRUE /\ addr' = 0 /\ UNCHANGED <<pos, write_cmd>>
      /\ cmd = "cmd" /\ req.op = "if_cond" => read_ext_csd' = TRUE /\ addr' = 0 /\ UNCHANGED <<pos, write_cmd>>
      /\ cmd = "cmd" /\ req.op = "read" =>
           /\ pos' = FirstWord(base_arg) /\ write_cmd' = FALSE /\ addr' = 0
           /\ UNCHANGED read_ext_csd
      /\ cmd = "cmd" /\ req.op = "write" =>
           /\ pos' = FirstWord(base_arg) /\ write_cmd' = TRUE /\ addr' = 0
           /\ UNCHANGED read_ext_csd
      /\ cmd # "cmd" \/ req.op \in {"status", "go_idle"} => UNCHANGED cardVars
  <2>1. CASE cmd = "sbc"
    BY <2>1 DEF WriteCommand, sdcard_handle_cmd, cardVars
  <2>2. CASE cmd = "stop"
    BY <2>2 DEF WriteCommand, sdcard_handle_cmd, cardVars
  <2>3. CASE cmd = "cmd"
    <3>1. sdcard_handle_cmd(Opcode(req))
      BY <1>2, <2>3 DEF WriteCommand
    <3>2. CASE req.op = "ident"
      <4>1. Opcode(req) = "SEND_EXT_CSD"
        BY <3>2 DEF Opcode
      <4> QED
        BY <2>3, <3>1, <3>2, <4>1 DEF sdcard_handle_cmd, send_ext_csd
    <3>3. CASE req.op = "if_cond"
      <4>1. Opcode(req) = "SEND_IF_COND"
        BY <3>3 DEF Opcode
      <4> QED
        BY <2>3, <3>1, <3>3, <4>1 DEF sdcard_handle_cmd, send_ext_csd
    <3>4. CASE req.op = "read"
      <4>1. Opcode(req) = "READ_MULTIPLE_BLOCK"
        BY <3>4 DEF Opcode
      <4> QED
        BY <2>3, <3>1, <3>4, <4>1 DEF sdcard_handle_cmd, prepare_rw, FirstWord
    <3>5. CASE req.op = "write"
      <4>1. Opcode(req) = "WRITE_MULTIPLE_BLOCK"
        BY <3>5 DEF Opcode
      <4> QED
        BY <2>3, <3>1, <3>5, <4>1 DEF sdcard_handle_cmd, prepare_rw, FirstWord
    <3>6. CASE req.op \in {"status", "go_idle"}
      <4>1. Opcode(req) = "other"
        BY <3>6 DEF Opcode
      <4> QED
        BY <2>3, <3>1, <3>6, <4>1 DEF sdcard_handle_cmd, cardVars
    <3> QED
      BY <1>2, <3>2, <3>3, <3>4, <3>5, <3>6 DEF SoundRequest
  <2> QED
    BY <1>1, <2>1, <2>2, <2>3
<1>5. cmd = "cmd" => NoneMoved /\ base_arg = BlockOf(req.from)
  BY <1>1 DEF SdInv, ProgressInv
<1>6. cmd = "cmd" /\ Moves(req) => pos' = req.from /\ req.from <= Total
  BY <1>2, <1>4, <1>5, CardTypes DEF Moves, SoundRequest
<1>7. SdTypeOK'
  <2>1. CardTypeOK'
    <3>1. CASE UNCHANGED cardVars
      BY <1>2, <3>1, CardLeftAlone
    <3>2. CASE cmd = "cmd" /\ req.op \in {"ident", "if_cond"}
      <4>1. addr' \in Nat /\ read_ext_csd' \in BOOLEAN /\ UNCHANGED <<image, pos, write_cmd, base_arg, base_data>>
        <5>1. addr' = 0 /\ read_ext_csd' = TRUE /\ UNCHANGED <<pos, write_cmd>>
          BY ONLY <1>4, <3>2
        <5>2. UNCHANGED <<image, base_arg, base_data>>
          BY ONLY <1>4
        <5> QED
          BY ONLY <5>1, <5>2
      <4> QED
        BY ONLY <1>2, <4>1 DEF CardTypeOK
    <3>3. CASE cmd = "cmd" /\ Moves(req)
      <4>1. pos' \in 0 .. CardBlocks * BlockWords /\ addr' \in Nat /\ write_cmd' \in BOOLEAN
        <5>1. pos' = req.from /\ req.from \in Nat /\ req.from <= Total
          BY <1>2, <1>6, <3>3 DEF SoundRequest
        <5>2. addr' = 0 /\ write_cmd' \in BOOLEAN
          BY <1>4, <3>3 DEF Moves
        <5>3. Total = CardBlocks * BlockWords /\ Total \in Nat
          BY BlockArithmetic DEF Total
        <5> QED
          BY ONLY <5>1, <5>2, <5>3
      <4> QED
        BY <1>2, <1>4, <3>3, <4>1 DEF CardTypeOK, Moves
    <3>4. req.op \in {"read", "write", "ident", "if_cond", "status", "go_idle"}
      BY <1>2 DEF SoundRequest
    <3>5. \/ UNCHANGED cardVars
          \/ cmd = "cmd" /\ req.op \in {"ident", "if_cond"}
          \/ cmd = "cmd" /\ Moves(req)
      BY ONLY <1>4, <3>4 DEF Moves
    <3> QED
      BY ONLY <3>1, <3>2, <3>3, <3>5
  <2> QED
    BY <1>1, <1>3, <2>1 DEF SdInv, SdTypeOK
<1>8. CoreInv'
  <2>1. identified => read_ext_csd' = read_ext_csd
    <3>1. identified => req.op \notin {"ident", "if_cond"}
      BY <1>2 DEF SdInv, CoreInv
    <3> QED
      BY <1>1, <1>2, <1>4, <3>1 DEF SoundRequest, cardVars
  <2> QED
    BY <1>1, <1>3, <2>1 DEF SdInv, CoreInv, Serving
<1>9. HostInv' /\ NoWarning'
  BY <1>1, <1>3 DEF SdInv, HostInv, NoWarning, Serving
<1>10. ProgressInv'
  <2>1. CASE cmd = "sbc"
    BY <1>1, <1>3, <2>1 DEF SdInv, ProgressInv, NoneMoved, HostInv
  <2>2. CASE cmd = "stop"
    BY <1>1, <1>3, <1>4, <2>2 DEF SdInv, ProgressInv, AllMoved, HostInv, cardVars
  <2>3. CASE cmd = "cmd" /\ ~HasData(req)
    <3>1. AllMoved'
      BY <1>2, <1>3, <1>5, <2>3 DEF AllMoved, NoneMoved, SoundRequest, HasData
    <3> QED
      BY <1>1, <1>3, <2>3, <3>1 DEF ProgressInv
  <2>4. CASE cmd = "cmd" /\ HasData(req)
    <3>1. SomeMoved'
      <4>1. /\ left' = req.sg /\ req.sg \in Nat /\ block' = 0 /\ word' = 0 /\ ~error'
            /\ Blocks(req) \in Nat /\ FirstWord(0) = 0 /\ req.from \in Nat /\ BlockWords > 0
        <5>1. left = req.sg /\ ~error /\ req.sg \in 0 .. req.words /\ req.words \in Nat /\ req.from \in Nat
          BY <1>2, <1>5, <2>4 DEF NoneMoved, SoundRequest
        <5>2. FirstWord(0) = 0 /\ BlockWords > 0
          BY BlockArithmetic
        <5>3. Blocks(req) \in Nat
          BY <1>2, SdCardAssumption DEF SoundRequest
        <5> QED
          BY ONLY <1>1, <1>3, <5>1, <5>2, <5>3
      <4>2. Moved' = 0
        BY <1>3, <4>1 DEF Moved
      <4>3. /\ req.op = "write" => write_cmd' /\ pos' = req.from
            /\ req.op = "read" => ~write_cmd' /\ pos' = req.from
            /\ req.op = "ident" => addr' = 0 /\ read_ext_csd' = TRUE
        BY <1>4, <1>6, <2>4 DEF Moves
      <4> QED
        BY <1>3, <4>1, <4>2, <4>3 DEF SomeMoved
    <3> QED
      BY <1>1, <1>3, <2>4, <3>1 DEF ProgressInv
  <2> QED
    BY <1>1, <2>1, <2>2, <2>3, <2>4
<1> QED
  BY <1>7, <1>8, <1>9, <1>10 DEF SdInv

-----------------------------------------------------------------------------
(* Words                                                                   *)

\* The request whose words are being moved.
LEMMA PioFacts ==
  ASSUME SdInv, pc = "pio"
  PROVE  /\ Serving /\ cmd = "cmd" /\ data /\ HasData(req) /\ SomeMoved
         /\ req \in Requests /\ SoundRequest(req) /\ mrq = req /\ MoreBlocks = (block < Blocks(req))
         /\ block \in Nat /\ word \in Nat /\ word < BlockWords /\ CardTypeOK
<1>1. Serving /\ cmd = "cmd" /\ data /\ HasData(req) /\ SomeMoved
  BY DEF Serving, SdInv, HostInv, ProgressInv
<1>2. /\ req \in Requests /\ SoundRequest(req) /\ mrq = req
      /\ block \in Nat /\ word \in 0 .. BlockWords - 1 /\ CardTypeOK
  BY <1>1, ServedFacts
<1>3. MoreBlocks = (block < Blocks(req))
  BY <1>2 DEF MoreBlocks, Blocks, BlockOf
<1> QED
  BY <1>1, <1>2, <1>3, BlockArithmetic

\* What the card does with a word of the request, and where it was meant to.
LEMMA WordMoves ==
  ASSUME SdInv, TransferWord
  PROVE  /\ ~error /\ Moved \in Nat /\ Moved < req.words /\ Moved < req.sg
         /\ CardTypeOK' /\ buf' \in Seq(WordVals) /\ UNCHANGED base_arg
         /\ req.op = "write" =>
              /\ write_data(req.data[Moved + 1]) /\ req.data[Moved + 1] \in Vals
              /\ ~read_ext_csd /\ write_cmd /\ pos = req.from + Moved /\ pos < Total
              /\ pos' = pos + 1 /\ buf' = buf
              /\ UNCHANGED <<write_cmd, read_ext_csd>>
         /\ req.op = "read" =>
              /\ buf' = Append(buf, base_data') /\ base_data' \in WordVals
              /\ ~read_ext_csd /\ ~write_cmd
              /\ pos < Len(image) => pos = req.from + Moved /\ base_data' = image[pos + 1] /\ pos' = pos + 1
              /\ Len(image) <= pos => Len(image) <= req.from + Moved /\ pos' = pos
              /\ UNCHANGED <<image, write_cmd, read_ext_csd>>
         /\ req.op = "ident" =>
              /\ buf' = Append(buf, base_data') /\ base_data' = ExtCsdWord
              /\ addr = Moved /\ addr' = addr + 1
              /\ read_ext_csd' = (addr # BlockWords - 1)
              /\ UNCHANGED <<image, pos, write_cmd>>
<1>1. /\ pc = "pio" /\ MoreBlocks /\ left > 0
      /\ req.op = "write" => write_data(req.data[req.sg - left + 1]) /\ UNCHANGED buf
      /\ req.op # "write" => read_data /\ buf' = Append(buf, base_data')
  BY PioFacts DEF TransferWord
<1>2. /\ Serving /\ HasData(req) /\ SomeMoved /\ req \in Requests /\ SoundRequest(req) /\ CardTypeOK
      /\ req.op \in {"read", "write", "ident"}
  BY <1>1, PioFacts DEF HasData
<1>3. PICK m : m = Moved
  OBVIOUS
<1>4. /\ ~error /\ m \in Nat /\ m < req.sg /\ m < req.words /\ m = req.sg - left
      /\ req.sg \in Nat /\ req.words \in Nat /\ req.from \in Nat /\ req.from + req.words <= Total
  <2>1. left \in 0 .. req.sg /\ (error => left = 0) /\ m = req.sg - left
    BY <1>2, <1>3 DEF SomeMoved, Moved
  <2>2. /\ req.sg \in 0 .. req.words /\ req.words \in Nat /\ req.from \in Nat
        /\ req.from + req.words <= Total
    BY <1>2 DEF SoundRequest
  <2> QED
    BY ONLY <1>1, <2>1, <2>2
<1>5. Moves(req) => ~read_ext_csd
  BY <1>2, ServedFacts DEF SdInv, CoreInv
<1>6. buf \in Seq(WordVals)
  BY <1>2, ServedFacts
<1>7. CASE req.op = "write"
  <2>1. /\ write_data(req.data[m + 1]) /\ req.data[m + 1] \in Vals /\ ~read_ext_csd
        /\ write_cmd /\ pos = req.from + m /\ pos < Total /\ UNCHANGED buf
    <3>1. m + 1 \in 1 .. req.words
      BY <1>4
    <3>2. req.data[m + 1] \in Vals
      BY <1>2, <1>7, <3>1 DEF SoundRequest
    <3>3. write_cmd /\ pos = req.from + m
      BY <1>2, <1>3, <1>7 DEF SomeMoved
    <3>4. pos < Total
      BY <1>4, <3>3, BlockArithmetic
    <3> QED
      BY <1>1, <1>4, <1>5, <1>7, <3>2, <3>3, <3>4 DEF Moves
  <2>2. CardTypeOK' /\ pos' = pos + 1 /\ UNCHANGED <<write_cmd, read_ext_csd, base_arg>>
    BY <1>2, <2>1, WordWritten
  <2> QED
    BY <1>3, <1>4, <1>6, <1>7, <2>1, <2>2
<1>8. CASE req.op = "read"
  <2>1. ~write_cmd /\ ~read_ext_csd /\ read_data /\ buf' = Append(buf, base_data')
    BY <1>1, <1>2, <1>5, <1>8 DEF SomeMoved, Moves
  <2>2. /\ CardTypeOK' /\ UNCHANGED <<image, write_cmd, read_ext_csd, base_arg>>
        /\ pos < Len(image) => base_data' = image[pos + 1] /\ pos' = pos + 1
        /\ Len(image) <= pos => pos' = pos
        /\ base_data' \in WordVals
    BY <1>2, <2>1, WordRead
  <2>3. pos = req.from + m \/ (Len(image) <= pos /\ Len(image) <= req.from + m)
    BY <1>2, <1>3, <1>8 DEF SomeMoved
  <2>4. pos < Len(image) => pos = req.from + m
    BY <1>2, <2>3, CardTypes
  <2>5. Len(image) <= pos => Len(image) <= req.from + m
    BY <2>3
  <2> QED
    BY <1>3, <1>4, <1>6, <1>8, <2>1, <2>2, <2>4, <2>5
<1>9. CASE req.op = "ident"
  <2>1. read_data /\ buf' = Append(buf, base_data')
    BY <1>1, <1>9
  <2>2. req.words = BlockWords /\ addr = m /\ (read_ext_csd <=> m # BlockWords)
    BY <1>2, <1>3, <1>9 DEF SomeMoved, SoundRequest
  <2>3. m # BlockWords
    BY <1>4, <2>2
  <2>4. /\ CardTypeOK' /\ UNCHANGED <<image, pos, write_cmd, base_arg>>
        /\ base_data' = ExtCsdWord /\ addr' = addr + 1
        /\ read_ext_csd' = (addr # BlockWords - 1) /\ base_data' \in WordVals
    BY <1>2, <2>1, <2>2, <2>3, ExtCsdRead
  <2> QED
    BY <1>3, <1>4, <1>6, <1>9, <2>1, <2>2, <2>4
<1> QED
  BY <1>2, <1>7, <1>8, <1>9


LEMMA TransferKeeps ==
  ASSUME SdInv, TransferWord
  PROVE  SdInv'
<1>1. /\ pc = "pio" /\ MoreBlocks /\ left > 0
      /\ left' = left - 1
      /\ word' = (word + 1) % BlockWords
      /\ block' = IF word + 1 = BlockWords THEN block + 1 ELSE block
      /\ UNCHANGED <<pc, mrq, cmd, data, data_complete, use_sbc, error, mutex, warned>>
      /\ UNCHANGED <<identified, answer, req, waiting>>
  BY DEF TransferWord, coreVars
<1>2. /\ Serving /\ cmd = "cmd" /\ data /\ HasData(req) /\ SomeMoved /\ SoundRequest(req)
      /\ block \in Nat /\ word \in Nat /\ word < BlockWords /\ left \in Nat
      /\ block < Blocks(req) /\ Blocks(req) \in Nat /\ BlockWords \in Nat
  <2>1. Blocks(req) \in Nat
    BY <1>1, PioFacts, SdCardAssumption DEF SoundRequest
  <2> QED
    BY <1>1, <2>1, PioFacts, BlockArithmetic DEF SdInv, SdTypeOK
<1>3. PICK m : m = Moved
  OBVIOUS
<1>4. /\ ~error /\ m \in Nat /\ m < req.words /\ m < req.sg /\ m = req.sg - left
      /\ m = FirstWord(block) + word
      /\ CardTypeOK' /\ buf' \in Seq(WordVals)
  BY <1>2, <1>3, WordMoves DEF SomeMoved, Moved
<1>5. req.sg \in Nat /\ req.words \in Nat /\ req.from \in Nat /\ req.sg <= req.words
  BY <1>2 DEF SoundRequest
<1>6. /\ word' \in 0 .. BlockWords - 1 /\ block' \in 0 .. Blocks(req)
      /\ m + 1 = FirstWord(block') + word'
  <2>0. FirstWord(block) \in Nat /\ FirstWord(block + 1) = FirstWord(block) + BlockWords
    BY <1>2, BlockArithmetic
  <2>1. CASE word + 1 = BlockWords
    <3>1. (word + 1) % BlockWords = 0
      BY <1>2, <2>1
    <3>2. word' = 0 /\ block' = block + 1
      BY <1>1, <2>1, <3>1
    <3>3. word' \in 0 .. BlockWords - 1 /\ block' \in 0 .. Blocks(req)
      BY ONLY <1>2, <3>2
    <3>4. FirstWord(block') = FirstWord(block) + BlockWords
      BY ONLY <2>0, <3>2
    <3>5. m + 1 = FirstWord(block') + word'
      <4>1. word' = 0 /\ word + 1 = BlockWords /\ m = FirstWord(block) + word
        BY ONLY <1>4, <2>1, <3>2
      <4>2. word \in Nat /\ BlockWords \in Nat /\ FirstWord(block) \in Nat
        BY ONLY <1>2, <2>0
      <4> QED
        BY ONLY <3>4, <4>1, <4>2
    <3> QED
      BY ONLY <3>3, <3>5
  <2>2. CASE word + 1 # BlockWords
    <3>1. word + 1 \in 0 .. BlockWords - 1
      BY ONLY <1>2, <2>2
    <3>2. (word + 1) % BlockWords = word + 1
      BY <1>2, <3>1
    <3>3. word' = word + 1 /\ block' = block
      BY <1>1, <2>2, <3>2
    <3>4. block' \in 0 .. Blocks(req)
      BY ONLY <1>2, <3>3
    <3>5. FirstWord(block') = FirstWord(block)
      BY ONLY <3>3
    <3>6. m + 1 = FirstWord(block') + word'
      BY ONLY <1>2, <1>4, <2>0, <3>3, <3>5
    <3> QED
      BY ONLY <3>1, <3>3, <3>4, <3>6
  <2> QED
    BY <2>1, <2>2
<1>7. left' \in 0 .. req.sg /\ Moved' = m + 1 /\ ~error'
  <2>1. left' \in 0 .. req.sg /\ req.sg - left' = m + 1
    BY ONLY <1>1, <1>2, <1>4, <1>5
  <2> QED
    BY <1>1, <1>4, <2>1 DEF Moved
<1>8. /\ req.op = "write" => write_cmd' /\ pos' = req.from + (m + 1)
      /\ req.op = "read" => ~write_cmd' /\ (pos' = req.from + (m + 1) \/ (Len(image') <= pos' /\ Len(image') <= req.from + (m + 1)))
      /\ req.op = "ident" => addr' = m + 1 /\ (read_ext_csd' <=> m + 1 # BlockWords)
  <2>0. pos \in Nat /\ Len(image) \in Nat
    BY <1>1, PioFacts, CardTypes
  <2>1. CASE req.op = "write"
    <3>1. write_cmd' /\ pos = req.from + m /\ pos' = pos + 1
      BY <1>3, <2>1, WordMoves
    <3> QED
      BY ONLY <1>4, <1>5, <2>1, <3>1
  <2>2. CASE req.op = "read"
    <3>1. /\ pos < Len(image) => pos = req.from + m /\ pos' = pos + 1
          /\ Len(image) <= pos => Len(image) <= req.from + m /\ pos' = pos
          /\ image' = image /\ ~write_cmd'
      BY <1>3, <2>2, WordMoves
    <3>2. Len(image') = Len(image)
      BY <3>1
    <3>3. CASE pos < Len(image)
      <4>1. pos' = req.from + (m + 1)
        BY ONLY <1>4, <1>5, <2>0, <3>1, <3>3
      <4> QED
        BY ONLY <2>2, <3>1, <4>1
    <3>4. CASE ~(pos < Len(image))
      <4>1. Len(image) <= pos /\ pos' = pos /\ Len(image) <= req.from + m
        BY ONLY <2>0, <3>1, <3>4
      <4>2. Len(image') <= pos' /\ Len(image') <= req.from + (m + 1)
        BY ONLY <1>4, <1>5, <2>0, <3>2, <4>1
      <4> QED
        BY ONLY <2>2, <3>1, <4>2
    <3> QED
      BY <3>3, <3>4
  <2>3. CASE req.op = "ident"
    <3>1. addr = m /\ addr' = addr + 1 /\ read_ext_csd' = (addr # BlockWords - 1)
      BY <1>3, <2>3, WordMoves
    <3>2. read_ext_csd' <=> addr # BlockWords - 1
      BY ONLY <3>1
    <3>3. addr' = m + 1
      BY ONLY <3>1
    <3>4. addr # BlockWords - 1 <=> m + 1 # BlockWords
      BY ONLY <1>2, <1>4, <3>1
    <3> QED
      BY ONLY <2>3, <3>2, <3>3, <3>4
  <2>4. req.op \in {"read", "write", "ident"}
    BY <1>2 DEF HasData
  <2> QED
    BY ONLY <2>1, <2>2, <2>3, <2>4
<1>9. SomeMoved'
  <2>1. req' = req /\ Moved' = FirstWord(block') + word'
    BY <1>1, <1>6, <1>7
  <2>2. Blocks(req') = Blocks(req) /\ FirstWord(block)' = FirstWord(block')
    BY <2>1 DEF FirstWord
  <2> QED
    BY ONLY <1>6, <1>7, <1>8, <2>1, <2>2 DEF SomeMoved
<1>10. SdTypeOK'
  <2>1. left' \in Nat /\ block' \in Nat
    BY ONLY <1>2, <1>5, <1>6, <1>7
  <2>2. word' \in 0 .. BlockWords - 1 /\ SdTypeOK
    BY <1>6 DEF SdInv
  <2> QED
    BY ONLY <1>1, <1>4, <2>1, <2>2 DEF SdTypeOK
<1>11. CoreInv'
  <2>1. identified => ~read_ext_csd'
    <3>1. identified => Moves(req) /\ ~read_ext_csd
      BY <1>1, <1>2, ServedFacts DEF SdInv, CoreInv, HasData, Moves
    <3> QED
      BY <3>1, WordMoves DEF Moves
  <2> QED
    BY <1>1, <1>2, <2>1 DEF SdInv, CoreInv, Serving
<1>12. HostInv' /\ NoWarning'
  BY <1>1, <1>2 DEF SdInv, HostInv, NoWarning, Serving
<1>13. ProgressInv'
  BY <1>1, <1>2, <1>9 DEF ProgressInv
<1> QED
  BY <1>9, <1>10, <1>11, <1>12, <1>13 DEF SdInv

LEMMA ScatterListEndsKeeps ==
  ASSUME SdInv, ScatterListEnds
  PROVE  SdInv'
<1>1. /\ pc = "pio" /\ MoreBlocks /\ left = 0 /\ error' = TRUE /\ word' = 0 /\ block' = block + 1
      /\ UNCHANGED <<mutex, pc, mrq, cmd, data, data_complete, use_sbc, left, buf, warned>>
      /\ UNCHANGED <<identified, answer, req, waiting>> /\ UNCHANGED cardVars
  BY DEF ScatterListEnds, coreVars
<1>2. /\ Serving /\ cmd = "cmd" /\ data /\ SomeMoved /\ SoundRequest(req)
      /\ block \in Nat /\ word \in Nat /\ word < BlockWords
      /\ block < Blocks(req) /\ Blocks(req) \in Nat /\ BlockWords \in Nat
  <2>1. Blocks(req) \in Nat
    BY <1>1, PioFacts, SdCardAssumption DEF SoundRequest
  <2> QED
    BY <1>1, <2>1, PioFacts, BlockArithmetic
<1>3. req.sg < req.words
  <2>1. CASE error
    BY <1>2, <2>1 DEF SomeMoved
  <2>2. CASE ~error
    <3>1. req.sg - left = FirstWord(block) + word
      BY <1>2, <2>2 DEF SomeMoved, Moved
    <3>2. FirstWord(block + 1) <= FirstWord(Blocks(req)) /\ FirstWord(Blocks(req)) = req.words
      BY <1>2, BlockArithmetic DEF SoundRequest
    <3>3. FirstWord(block) \in Nat /\ FirstWord(block + 1) = FirstWord(block) + BlockWords
      BY <1>2, BlockArithmetic
    <3>4. req.sg \in Nat /\ req.words \in Nat
      BY <1>2 DEF SoundRequest
    <3> QED
      BY ONLY <1>1, <1>2, <3>1, <3>2, <3>3, <3>4
  <2> QED
    BY <2>1, <2>2
<1>4. SomeMoved'
  <2>1. block' \in 0 .. Blocks(req) /\ left' \in 0 .. req.sg /\ Moved' = Moved /\ Blocks(req') = Blocks(req)
    <3>1. block' \in 0 .. Blocks(req)
      BY ONLY <1>1, <1>2
    <3> QED
      BY <1>1, <1>2, <3>1 DEF SomeMoved, Moved
  <2>2. /\ left' = 0 /\ error' = TRUE /\ req' = req
        /\ UNCHANGED <<image, pos, addr, write_cmd, read_ext_csd>>
    BY <1>1 DEF cardVars
  <2> QED
    BY ONLY <1>2, <1>3, <2>1, <2>2 DEF SomeMoved
<1>5. SdTypeOK'
  <2>1. CardTypeOK' /\ error' \in BOOLEAN /\ block' \in Nat /\ word' \in 0 .. BlockWords - 1 /\ SdTypeOK
    BY <1>1, <1>2, CardLeftAlone, BlockArithmetic DEF SdInv, SdTypeOK
  <2> QED
    BY ONLY <1>1, <2>1 DEF SdTypeOK
<1>6. CoreInv' /\ HostInv' /\ NoWarning'
  BY <1>1, <1>2 DEF SdInv, CoreInv, HostInv, NoWarning, Serving, cardVars
<1>7. ProgressInv'
  BY <1>1, <1>2, <1>4 DEF ProgressInv
<1> QED
  BY <1>4, <1>5, <1>6, <1>7 DEF SdInv

\* Every block was tried: all words moved, or the scatter list was short.
LEMMA PioDoneKeeps ==
  ASSUME SdInv, PioDone
  PROVE  SdInv'
<1>1. /\ pc = "pio" /\ ~MoreBlocks /\ pc' = "finish_data"
      /\ UNCHANGED <<mutex, mrq, cmd, data, data_complete, use_sbc, error, left, block, word, buf, warned>>
      /\ UNCHANGED <<identified, answer, req, waiting>> /\ UNCHANGED cardVars
  BY DEF PioDone, coreVars
<1>2. /\ Serving /\ cmd = "cmd" /\ data /\ SomeMoved /\ SoundRequest(req) /\ HasData(req)
      /\ word \in Nat /\ ~(block < Blocks(req))
  BY <1>1, PioFacts
<1>3. AllMoved
  <2>0. /\ req.words \in Nat /\ req.sg \in 0 .. req.words /\ left \in 0 .. req.sg
        /\ block = Blocks(req) /\ FirstWord(block) = req.words
    <3>1. Blocks(req) \in 0 .. CardBlocks /\ block \in 0 .. Blocks(req) /\ ~(block < Blocks(req)) /\ CardBlocks \in Nat
      BY <1>2, SdCardAssumption DEF SoundRequest, SomeMoved
    <3>2. block = Blocks(req)
      BY ONLY <3>1
    <3> QED
      BY <1>2, <3>2 DEF SoundRequest, SomeMoved
  <2>1. CASE error
    BY <1>2, <2>1 DEF AllMoved, SomeMoved
  <2>2. CASE ~error
    <3>1. req.sg - left = FirstWord(block) + word
      BY <1>2, <2>2 DEF SomeMoved, Moved
    <3>2. left = 0 /\ req.sg = req.words
      BY ONLY <1>2, <2>0, <3>1
    <3>3. req.op = "ident" => ~read_ext_csd
      <4>1. req.op = "ident" => Moved = BlockWords
        BY <1>2, <3>2, BlockArithmetic DEF SoundRequest, Moved
      <4> QED
        BY <1>2, <4>1 DEF SomeMoved
    <3> QED
      BY <2>0, <2>2, <3>2, <3>3 DEF AllMoved
  <2> QED
    BY <2>1, <2>2
<1>4. SdTypeOK'
  <2>1. CardTypeOK' /\ SdTypeOK
    BY <1>1, CardLeftAlone DEF SdInv, SdTypeOK
  <2> QED
    BY ONLY <1>1, <2>1 DEF SdTypeOK
<1>5. CoreInv' /\ HostInv' /\ NoWarning'
  BY <1>1, <1>2 DEF SdInv, CoreInv, HostInv, NoWarning, Serving, cardVars
<1>6. ProgressInv'
  BY <1>1, <1>2, <1>3 DEF ProgressInv, AllMoved, cardVars
<1> QED
  BY <1>4, <1>5, <1>6 DEF SdInv


-----------------------------------------------------------------------------
(* Answers                                                                 *)

LEMMA FinishDataKeeps ==
  ASSUME SdInv, nemu_finish_data
  PROVE  SdInv'
<1>1. /\ pc = "finish_data" /\ data_complete' = TRUE /\ pc' = "finish_command"
      /\ UNCHANGED <<mutex, mrq, cmd, data, use_sbc, error, left, block, word, buf, warned>>
      /\ UNCHANGED <<identified, answer, req, waiting>> /\ UNCHANGED cardVars
  BY DEF nemu_finish_data, coreVars
<1>2. Serving /\ cmd = "cmd" /\ data /\ HasData(req) /\ AllMoved
  BY <1>1 DEF SdInv, HostInv, ProgressInv, Serving
<1>3. SdTypeOK'
  <2>1. CardTypeOK' /\ SdTypeOK
    BY <1>1, CardLeftAlone DEF SdInv, SdTypeOK
  <2> QED
    BY ONLY <1>1, <2>1 DEF SdTypeOK
<1>4. CoreInv' /\ HostInv' /\ NoWarning'
  BY <1>1, <1>2 DEF SdInv, CoreInv, HostInv, NoWarning, Serving, HasData, cardVars
<1>5. ProgressInv'
  BY <1>1, <1>2 DEF ProgressInv, AllMoved, cardVars
<1> QED
  BY <1>3, <1>4, <1>5 DEF SdInv

OnlyPointersChange ==
  UNCHANGED <<cardVars, req, waiting, mutex, data_complete, use_sbc, error, left, block, word, buf, warned>>

\* When a request is answered, what it moves has been moved.
LEMMA AnswerKeeps ==
  ASSUME SdInv, pc = "finish_command", cmd \in {"cmd", "stop"},
         nemu_finish_request, OnlyPointersChange
  PROVE  SdInv'
<1>1. /\ mrq' = None /\ cmd' = "none" /\ data' = FALSE /\ pc' = "unlock"
      /\ answer' \in {"error", "ok"}
      /\ identified' = (identified \/ (mrq.op = "ident" /\ ~error))
  BY DEF nemu_finish_request
<1>2. /\ UNCHANGED <<mutex, data_complete, use_sbc, error, left, block, word, buf, warned>>
      /\ UNCHANGED <<req, waiting>> /\ UNCHANGED cardVars
  BY DEF OnlyPointersChange
<1>3. Serving /\ AllMoved
  BY DEF SdInv, ProgressInv, Serving
<1>4. ~waiting /\ mrq = req /\ mutex /\ SdTypeOK
  BY <1>3, ServedFacts DEF SdInv
<1>5. SdTypeOK'
  <2>1. CardTypeOK' /\ identified' \in BOOLEAN
    BY <1>1, <1>2, <1>4, CardLeftAlone DEF SdTypeOK
  <2>2. /\ mrq' \in Requests \cup {None} /\ answer' \in {"none", "ok", "error"}
        /\ pc' \in {"out", "send_sbc", "send_cmd", "send_stop", "command", "pio", "finish_data", "finish_command", "unlock"}
        /\ cmd' \in {"none", "sbc", "cmd", "stop"} /\ data' \in BOOLEAN
    BY <1>1
  <2> QED
    BY ONLY <1>2, <1>4, <2>1, <2>2 DEF SdTypeOK
<1>6. CoreInv'
  <2>1. identified' => ~read_ext_csd
    BY <1>1, <1>3, <1>4 DEF SdInv, CoreInv, AllMoved
  <2> QED
    BY <1>1, <1>2, <1>4, <2>1 DEF CoreInv, Serving, cardVars
<1>7. HostInv' /\ NoWarning'
  BY <1>1, <1>2, <1>3, <1>4 DEF SdInv, HostInv, NoWarning, Serving, AllMoved
<1>8. ProgressInv'
  BY <1>1 DEF ProgressInv
<1> QED
  BY <1>5, <1>6, <1>7, <1>8 DEF SdInv

\* How a command that is finished goes on: the data of one is always complete.
LEMMA FinishedCases ==
  ASSUME SdInv, nemu_finish_command
  PROVE  /\ pc = "finish_command" /\ OnlyPointersChange
         /\ \/ cmd = "sbc" /\ ~data /\ cmd' = "none" /\ pc' = "send_cmd"
               /\ UNCHANGED <<mrq, data, answer, identified>>
            \/ cmd = "cmd" /\ Moves(req) /\ data' = FALSE /\ cmd' = "none" /\ pc' = "send_stop"
               /\ UNCHANGED <<mrq, answer, identified>>
            \/ cmd \in {"cmd", "stop"} /\ nemu_finish_request
<1>1. pc = "finish_command" /\ OnlyPointersChange /\ (FinishedSbc \/ FinishedCmd \/ FinishedStop)
  BY DEF nemu_finish_command, OnlyPointersChange
<1>2. (data <=> cmd = "cmd" /\ HasData(req)) /\ (data => data_complete) /\ mrq = req
  BY <1>1 DEF SdInv, HostInv, Serving
<1>3. CASE FinishedSbc
  BY <1>1, <1>2, <1>3 DEF FinishedSbc
<1>4. CASE FinishedStop
  BY <1>1, <1>4 DEF FinishedStop
<1>5. CASE FinishedCmd
  <2>1. cmd = "cmd" /\ (nemu_finish_request \/ nemu_transfer_complete)
    BY <1>2, <1>5 DEF FinishedCmd
  <2>2. CASE nemu_finish_request
    BY <1>1, <2>1, <2>2
  <2>3. CASE nemu_transfer_complete
    <3>1. CASE HasStop(mrq) /\ (error \/ ~use_sbc)
      BY <1>1, <1>2, <2>1, <2>3, <3>1 DEF nemu_transfer_complete, HasStop, Moves
    <3>2. CASE ~(HasStop(mrq) /\ (error \/ ~use_sbc))
      BY <1>1, <2>1, <2>3, <3>2 DEF nemu_transfer_complete
    <3> QED
      BY <3>1, <3>2
  <2> QED
    BY <2>1, <2>2, <2>3
<1> QED
  BY <1>1, <1>3, <1>4, <1>5

LEMMA FinishCommandKeeps ==
  ASSUME SdInv, nemu_finish_command
  PROVE  SdInv'
<1>1. /\ pc = "finish_command" /\ OnlyPointersChange /\ Serving
      /\ UNCHANGED <<mutex, data_complete, use_sbc, error, left, block, word, buf, warned>>
      /\ UNCHANGED <<req, waiting>> /\ UNCHANGED cardVars
  BY FinishedCases DEF OnlyPointersChange, Serving
<1>2. mrq = req /\ SdTypeOK /\ mutex
  BY <1>1, ServedFacts DEF SdInv
<1>3. CASE /\ UNCHANGED <<mrq, answer, identified>> /\ cmd' = "none" /\ data' = FALSE
           /\ \/ cmd = "sbc" /\ pc' = "send_cmd"
              \/ cmd = "cmd" /\ Moves(req) /\ pc' = "send_stop"
  <2>1. SdTypeOK'
    <3>1. CardTypeOK'
      BY <1>1, <1>2, CardLeftAlone DEF SdTypeOK
    <3>2. /\ pc' \in {"out", "send_sbc", "send_cmd", "send_stop", "command", "pio", "finish_data", "finish_command", "unlock"}
          /\ cmd' \in {"none", "sbc", "cmd", "stop"} /\ data' \in BOOLEAN
      BY <1>3
    <3>3. UNCHANGED <<mrq, answer, identified>>
      BY <1>3
    <3> QED
      BY ONLY <1>1, <1>2, <3>1, <3>2, <3>3 DEF SdTypeOK
  <2>2. CoreInv' /\ NoWarning'
    BY <1>1, <1>3 DEF SdInv, CoreInv, NoWarning, Serving, cardVars
  <2>3. HostInv'
    BY <1>1, <1>2, <1>3 DEF SdInv, HostInv, Serving
  <2>4. ProgressInv'
    BY <1>1, <1>3 DEF SdInv, ProgressInv, NoneMoved, AllMoved, cardVars
  <2> QED
    BY <2>1, <2>2, <2>3, <2>4 DEF SdInv
<1>4. CASE cmd \in {"cmd", "stop"} /\ nemu_finish_request
  BY <1>1, <1>4, AnswerKeeps
<1>5. data \in BOOLEAN
  BY <1>2 DEF SdTypeOK
<1> QED
  BY <1>3, <1>4, <1>5, FinishedCases

LEMMA UnlockKeeps ==
  ASSUME SdInv, Unlock
  PROVE  SdInv'
<1>1. /\ pc = "unlock" /\ mutex' = FALSE /\ pc' = "out"
      /\ UNCHANGED <<mrq, cmd, data, data_complete, use_sbc, error, left, block, word, buf, warned>>
      /\ UNCHANGED <<identified, answer, req, waiting>> /\ UNCHANGED cardVars
  BY DEF Unlock, coreVars
<1>2. SdTypeOK'
  <2>1. CardTypeOK' /\ SdTypeOK
    BY <1>1, CardLeftAlone DEF SdInv, SdTypeOK
  <2>2. /\ pc' \in {"out", "send_sbc", "send_cmd", "send_stop", "command", "pio", "finish_data", "finish_command", "unlock"}
        /\ mutex' \in BOOLEAN
    BY <1>1
  <2>3. /\ UNCHANGED <<mrq, cmd, data, data_complete, use_sbc, error, left, block, word, buf, warned>>
        /\ UNCHANGED <<identified, answer, req, waiting>>
    BY <1>1
  <2> QED
    BY ONLY <2>1, <2>2, <2>3 DEF SdTypeOK
<1>3. CoreInv' /\ HostInv' /\ NoWarning' /\ ProgressInv'
  BY <1>1 DEF SdInv, CoreInv, HostInv, NoWarning, ProgressInv, Serving, cardVars
<1> QED
  BY <1>2, <1>3 DEF SdInv

LEMMA StutterKeeps == SdInv /\ UNCHANGED vars => SdInv'
<1> SUFFICES ASSUME SdInv, UNCHANGED vars
             PROVE  SdInv'
  OBVIOUS
<1>1. /\ UNCHANGED <<mutex, pc, mrq, cmd, data, data_complete, use_sbc, error, left, block, word, buf, warned>>
      /\ UNCHANGED <<identified, answer, req, waiting>> /\ UNCHANGED cardVars
  BY DEF vars, hostVars, coreVars
<1>2. SdTypeOK'
  <2>1. CardTypeOK' /\ SdTypeOK
    BY <1>1, CardLeftAlone DEF SdInv, SdTypeOK
  <2> QED
    BY ONLY <1>1, <2>1 DEF SdTypeOK
<1>3. CoreInv' /\ HostInv' /\ NoWarning'
  BY <1>1 DEF SdInv, CoreInv, HostInv, NoWarning, Serving, cardVars
<1>4. ProgressInv'
  <2>1. NoneMoved => NoneMoved'
    BY <1>1 DEF NoneMoved
  <2>2. AllMoved => AllMoved'
    BY <1>1 DEF AllMoved, cardVars
  <2>3. SomeMoved => SomeMoved'
    BY <1>1 DEF SomeMoved, Moved, cardVars
  <2> QED
    BY <1>1, <2>1, <2>2, <2>3 DEF SdInv, ProgressInv, cardVars
<1> QED
  BY <1>2, <1>3, <1>4 DEF SdInv

\* What relates the counters of the driver and of the card at every point of a
\* request holds in every state.
THEOREM SdInvariance == SdSpec => []SdInv
<1>1. SdInv /\ [SdNext]_vars => SdInv'
  <2> SUFFICES ASSUME SdInv, [SdNext]_vars
               PROVE  SdInv'
    OBVIOUS
  <2>1. CASE \E r \in Requests : Submit(r)
    BY <2>1, SubmitKeeps
  <2>2. CASE RefuseBlockSize
    BY <2>2, RefuseKeeps
  <2>3. CASE nemu_request
    BY <2>3, RequestKeeps
  <2>4. CASE \E c \in {"sbc", "cmd", "stop"} : nemu_send_command(c)
    BY <2>4, SendKeeps
  <2>5. CASE WriteCommand
    BY <2>5, WriteCommandKeeps
  <2>6. CASE TransferWord
    BY <2>6, TransferKeeps
  <2>7. CASE ScatterListEnds
    BY <2>7, ScatterListEndsKeeps
  <2>8. CASE PioDone
    BY <2>8, PioDoneKeeps
  <2>9. CASE nemu_finish_data
    BY <2>9, FinishDataKeeps
  <2>10. CASE nemu_finish_command
    BY <2>10, FinishCommandKeeps
  <2>11. CASE Unlock
    BY <2>11, UnlockKeeps
  <2>12. CASE UNCHANGED vars
    BY <2>12, StutterKeeps
  <2> QED
    BY <2>1, <2>2, <2>3, <2>4, <2>5, <2>6, <2>7, <2>8, <2>9, <2>10, <2>11, <2>12 DEF SdNext, Driver
<1> QED
  BY <1>1, InitHolds, PTL DEF SdSpec

\* Driver and card keep the types of their variables; the card's position never
\* passes its end, and the words the driver collects are words of the card.
THEOREM SdTypeCorrect == SdSpec => []SdTypeOK
<1>1. SdInv => SdTypeOK
  BY DEF SdInv
<1> QED
  BY <1>1, SdInvariance, PTL

\* No WARN_ON of the driver fires: a request never finds another one, its command
\* or its data in the host, and no command is finished before its data.
THEOREM NoWarningFires == SdSpec => []NoWarning
<1>1. SdInv => NoWarning
  BY DEF SdInv
<1> QED
  BY <1>1, SdInvariance, PTL


-----------------------------------------------------------------------------
(* The store                                                               *)

LEMMA StoreLeftAlone ==
  UNCHANGED <<image, waiting, req, left, buf, answer>> => UNCHANGED Store!vars
BY DEF Store!vars, StoreMem, StoreMoved, StoreGot, HasData

LEMMA StoreMemType == CardTypeOK => StoreMem \in [CardWords -> Vals \cup {None}]
BY CardTypes DEF StoreMem, CardWords

\* What the store is while a request is served.
LEMMA StoreServed ==
  ASSUME SdInv, Serving
  PROVE  /\ req # None /\ ~waiting /\ StoreMoved = req.sg - left
         /\ StoreGot = IF HasData(req) THEN buf ELSE <<>>
BY ServedFacts, NoneAssumption DEF StoreMoved, StoreGot

\* A word written past the end of the image makes the holes below it known.
LEMMA WriteIsPut ==
  ASSUME SdInv, TransferWord, req.op = "write"
  PROVE  Store!Put
<1>1. /\ pc = "pio" /\ left > 0 /\ left' = left - 1
      /\ UNCHANGED <<req, answer, waiting>>
  BY DEF TransferWord, coreVars
<1>2. /\ Serving /\ SoundRequest(req) /\ req \in Requests /\ answer = "none" /\ CardTypeOK /\ left \in Nat
  BY <1>1, PioFacts, ServedFacts
<1>3. PICK m, v : m = Moved /\ v = req.data[m + 1]
  OBVIOUS
<1>4. /\ m \in Nat /\ m < req.words /\ m < req.sg /\ m = req.sg - left
      /\ write_data(v) /\ v \in Vals /\ ~read_ext_csd /\ write_cmd
      /\ pos = req.from + m /\ pos < Total /\ buf' = buf /\ CardTypeOK'
  BY <1>3, WordMoves DEF Moved
<1>5. /\ image' \in Seq(Vals) /\ Len(image') \in Nat
      /\ pos < Len(image) => Len(image') = Len(image)
      /\ Len(image) <= pos => Len(image') = pos + 1
      /\ image'[pos + 1] = v
      /\ \A i \in 1 .. Len(image) : i # pos + 1 => image'[i] = image[i]
  BY <1>2, <1>4, WordWritten
<1>6. /\ image \in Seq(Vals) /\ Len(image) \in Nat /\ pos \in Nat /\ Total \in Nat
      /\ pos < Len(image') /\ CardWords = 0 .. Total - 1
  BY <1>2, <1>4, <1>5, CardTypes DEF CardWords, Total
<1>7. StoreMoved = m /\ StoreMoved' = m + 1 /\ StoreGot' = StoreGot
  <2>1. req' = req /\ req # None /\ ~waiting /\ ~waiting' /\ StoreMoved = req.sg - left
    BY <1>1, <1>2, StoreServed
  <2>2. StoreMoved' = req.sg - left' /\ StoreGot' = StoreGot
    BY <1>4, <2>1 DEF StoreMoved, StoreGot, HasData
  <2>3. req.sg \in Nat
    BY <1>2 DEF SoundRequest
  <2> QED
    BY ONLY <1>1, <1>2, <1>4, <2>1, <2>2, <2>3
<1>8. StoreMem' \in [CardWords -> Vals \cup {None}]
  <2>1. (CardTypeOK => StoreMem \in [CardWords -> Vals \cup {None}])'
    BY StoreMemType, PTL
  <2> QED
    BY <1>4, <2>1 DEF CardWords
<1>9. StoreMem'[pos] = v
  BY <1>4, <1>5, <1>6 DEF StoreMem
<1>10. ASSUME NEW w \in CardWords, w # pos
       PROVE  StoreMem'[w] = StoreMem[w] \/ (StoreMem[w] = None /\ w < pos)
  <2>0. w \in Nat /\ CardWords' = CardWords
    BY <1>6, <1>10 DEF CardWords
  <2>1. CASE w < Len(image)
    <3>1. w + 1 \in 1 .. Len(image) /\ w + 1 # pos + 1 /\ w < Len(image')
      BY ONLY <1>5, <1>6, <1>10, <2>0, <2>1
    <3>2. image'[w + 1] = image[w + 1]
      BY <1>5, <3>1
    <3> QED
      BY <1>10, <2>0, <2>1, <3>1, <3>2 DEF StoreMem
  <2>2. CASE ~(w < Len(image))
    <3>1. StoreMem[w] = None
      BY <1>10, <2>2 DEF StoreMem
    <3>2. w < pos \/ ~(w < Len(image'))
      BY ONLY <1>5, <1>6, <1>10, <2>0, <2>2
    <3>3. ~(w < Len(image')) => StoreMem'[w] = None
      BY <1>10, <2>0 DEF StoreMem
    <3> QED
      BY <3>1, <3>2, <3>3
  <2> QED
    BY <2>1, <2>2
<1> QED
  <2>1. StoreMem'[req.from + StoreMoved] = req.data[StoreMoved + 1]
    BY <1>3, <1>4, <1>7, <1>9
  <2>2. \A w \in CardWords \ {req.from + StoreMoved} :
          StoreMem'[w] = StoreMem[w] \/ (StoreMem[w] = None /\ w < req.from + StoreMoved)
    BY <1>4, <1>7, <1>10
  <2>3. answer = "none" /\ StoreMoved < req.words /\ StoreMoved' = StoreMoved + 1
    BY <1>2, <1>4, <1>7
  <2> QED
    BY ONLY req.op = "write", <1>1, <1>7, <1>8, <2>1, <2>2, <2>3 DEF Store!Put, Store!Busy

\* A word read comes from its own place, wherever the card's position is.
LEMMA ReadIsGet ==
  ASSUME SdInv, TransferWord, req.op \in {"read", "ident"}
  PROVE  Store!Get
<1>1. /\ pc = "pio" /\ left > 0 /\ left' = left - 1
      /\ UNCHANGED <<req, answer, waiting>>
  BY DEF TransferWord, coreVars
<1>2. /\ Serving /\ SoundRequest(req) /\ req \in Requests /\ answer = "none" /\ CardTypeOK /\ left \in Nat
      /\ HasData(req)
  BY <1>1, PioFacts, ServedFacts
<1>3. PICK m : m = Moved
  OBVIOUS
<1>4. /\ m \in Nat /\ m < req.words /\ m < req.sg /\ m = req.sg - left
      /\ buf' = Append(buf, base_data') /\ image' = image /\ base_data' \in WordVals
  <2>1. ExtCsdWord \in WordVals
    BY SdCardAssumption DEF ExtCsdWord, WordVals
  <2> QED
    BY <1>3, <2>1, WordMoves DEF Moved
<1>5. StoreMoved = m /\ StoreMoved' = m + 1 /\ StoreGot = buf /\ StoreGot' = buf' /\ StoreMem' = StoreMem
  <2>1. req' = req /\ req # None /\ ~waiting /\ ~waiting' /\ StoreMoved = req.sg - left /\ StoreGot = buf
    BY <1>1, <1>2, StoreServed
  <2>2. StoreMoved' = req.sg - left' /\ StoreGot' = buf'
    BY <1>2, <2>1 DEF StoreMoved, StoreGot, HasData
  <2>3. req.sg \in Nat
    BY <1>2 DEF SoundRequest
  <2>4. StoreMem' = StoreMem
    BY <1>4 DEF StoreMem
  <2> QED
    BY ONLY <1>1, <1>2, <1>4, <2>1, <2>2, <2>3, <2>4
<1>6. base_data' \in IF req.op = "ident" THEN {StoreIdent[m + 1]}
                     ELSE IF StoreMem[req.from + m] = None THEN WordVals
                     ELSE {StoreMem[req.from + m]}
  <2>1. CASE req.op = "ident"
    <3>1. base_data' = ExtCsdWord /\ addr = m
      BY <1>3, <2>1, WordMoves
    <3>2. m + 1 \in 1 .. BlockWords
      <4>1. req.words = BlockWords /\ BlockWords \in Nat
        BY <1>2, <2>1, BlockArithmetic DEF SoundRequest
      <4> QED
        BY ONLY <1>4, <4>1
    <3>3. RevWord \in Nat /\ SectorsWord \in Nat
      BY SdCardAssumption
    <3>4. ExtCsdWord = StoreIdent[m + 1]
      <4>1. /\ StoreIdent[m + 1] = IF m + 1 = RevWord + 1 THEN Rev
                                   ELSE IF m + 1 = SectorsWord + 1 THEN Sectors ELSE Zero
            /\ ExtCsdWord = IF m = RevWord THEN Rev ELSE IF m = SectorsWord THEN Sectors ELSE Zero
        BY ONLY <3>1, <3>2 DEF ExtCsdWord, StoreIdent
      <4>2. (m + 1 = RevWord + 1 <=> m = RevWord) /\ (m + 1 = SectorsWord + 1 <=> m = SectorsWord)
        BY ONLY <1>4, <3>3
      <4> QED
        BY ONLY <4>1, <4>2
    <3> QED
      BY <2>1, <3>1, <3>4
  <2>2. CASE req.op = "read"
    <3>1. /\ pos < Len(image) => pos = req.from + m /\ base_data' = image[pos + 1]
          /\ Len(image) <= pos => Len(image) <= req.from + m
      BY <1>3, <2>2, WordMoves
    <3>2. /\ pos \in Nat /\ Len(image) \in Nat /\ Total \in Nat /\ req.from \in Nat /\ req.words \in Nat
          /\ req.from + req.words <= Total /\ CardWords = 0 .. Total - 1
      BY <1>2, CardTypes DEF SoundRequest, CardWords, Total
    <3>3. PICK w \in CardWords : w = req.from + m
      BY <1>4, <3>2
    <3>4. CASE pos < Len(image)
      <4>1. StoreMem[w] = base_data'
        BY <3>1, <3>3, <3>4 DEF StoreMem
      <4> QED
        BY <1>4, <2>2, <3>3, <4>1
    <3>5. CASE ~(pos < Len(image))
      <4>1. ~(w < Len(image))
        BY ONLY <1>4, <3>1, <3>2, <3>3, <3>5
      <4>2. StoreMem[w] = None
        BY <4>1 DEF StoreMem
      <4> QED
        BY <1>4, <2>2, <3>3, <4>2
    <3> QED
      BY <3>4, <3>5
  <2> QED
    BY <2>1, <2>2
<1> QED
  <2>1. answer = "none" /\ StoreMoved < req.words /\ StoreMoved' = StoreMoved + 1
    BY <1>2, <1>4, <1>5
  <2>2. \E v \in IF req.op = "ident" THEN {StoreIdent[StoreMoved + 1]}
                 ELSE IF StoreMem[req.from + StoreMoved] = None THEN WordVals
                 ELSE {StoreMem[req.from + StoreMoved]} :
          StoreGot' = Append(StoreGot, v)
    BY <1>4, <1>5, <1>6
  <2> QED
    BY ONLY req.op \in {"read", "ident"}, <1>1, <1>5, <2>1, <2>2 DEF Store!Get, Store!Busy

\* "ok" is answered only when all words moved, "error" only when the buffer is short.
LEMMA AnswerIsFinishOrFail ==
  ASSUME SdInv, pc = "finish_command", cmd \in {"cmd", "stop"},
         nemu_finish_request, OnlyPointersChange
  PROVE  Store!Finish \/ Store!Fail
<1>1. answer' = (IF error THEN "error" ELSE "ok") /\ UNCHANGED <<image, waiting, req, left, buf>>
  BY DEF nemu_finish_request, OnlyPointersChange, cardVars
<1>2. Serving /\ AllMoved
  BY DEF SdInv, ProgressInv, Serving
<1>3. /\ answer = "none" /\ StoreMoved = req.sg
      /\ req.sg \in Nat /\ req.words \in Nat /\ req.sg <= req.words
  <2>1. StoreMoved = req.sg - left /\ left = 0
    BY <1>2, StoreServed DEF AllMoved
  <2>2. req.sg \in Nat /\ req.words \in Nat /\ req.sg <= req.words /\ answer = "none"
    BY <1>2, ServedFacts DEF SoundRequest
  <2> QED
    BY ONLY <2>1, <2>2
<1>4. UNCHANGED <<StoreMem, req, StoreMoved, StoreGot>>
  BY <1>1 DEF StoreMem, StoreMoved, StoreGot, HasData
<1>5. CASE error
  <2>1. req.sg < req.words /\ answer' = "error"
    BY <1>1, <1>2, <1>5 DEF AllMoved
  <2> QED
    BY ONLY <1>3, <1>4, <2>1 DEF Store!Fail
<1>6. CASE ~error
  <2>1. StoreMoved = req.words /\ answer' = "ok"
    BY <1>1, <1>2, <1>3, <1>6 DEF AllMoved
  <2> QED
    BY ONLY <1>3, <1>4, <2>1 DEF Store!Finish
<1> QED
  BY <1>5, <1>6

\* A request of an unsupported block size moves nothing, and fails.
LEMMA RefuseIsFail ==
  ASSUME SdInv, RefuseBlockSize
  PROVE  Store!Fail
<1>1. /\ waiting /\ ~req.blksz_ok /\ waiting' = FALSE /\ answer' = "error"
      /\ UNCHANGED <<image, left, buf, req>>
  BY DEF RefuseBlockSize, cardVars, hostVars
<1>2. /\ answer = "none" /\ left = 0 /\ req \in Requests /\ SoundRequest(req) /\ req # None
  BY <1>1, RequestFacts, NoneAssumption DEF SdInv, CoreInv, HostInv
<1>3. req.sg = 0 /\ ~HasData(req)
  BY <1>1, <1>2 DEF SoundRequest, HasData
<1>4. StoreMoved = 0 /\ StoreGot = <<>> /\ StoreMoved' = 0 /\ StoreGot' = <<>> /\ StoreMem' = StoreMem
  BY <1>1, <1>2, <1>3 DEF StoreMem, StoreMoved, StoreGot, HasData
<1> QED
  BY ONLY <1>1, <1>2, <1>4 DEF Store!Fail

LEMMA CommandLeavesImage == WriteCommand => UNCHANGED image
<1> SUFFICES ASSUME WriteCommand
             PROVE  UNCHANGED image
  OBVIOUS
<1>1. PICK c : sdcard_handle_cmd(c)
  BY DEF WriteCommand
<1> QED
  BY <1>1 DEF sdcard_handle_cmd, send_ext_csd, prepare_rw, cardVars

LEMMA StoreInit == SdInit => Store!Init
<1> SUFFICES ASSUME SdInit
             PROVE  Store!Init
  OBVIOUS
<1>1. CardTypeOK /\ req = None /\ answer = "ok"
  BY InitHolds DEF SdInit, SdInv, SdTypeOK
<1>2. StoreMoved = 0 /\ StoreGot = <<>>
  BY <1>1 DEF StoreMoved, StoreGot
<1> QED
  BY <1>1, <1>2, StoreMemType DEF Store!Init

LEMMA StoreNext ==
  ASSUME SdInv, [SdNext]_vars
  PROVE  [Store!Next]_(Store!vars)
<1>1. ASSUME NEW r \in Requests, Submit(r)
      PROVE  Store!Next
  <2>1. /\ answer # "none" /\ req' = r /\ waiting' = TRUE /\ answer' = "none"
        /\ UNCHANGED image
    BY <1>1 DEF Submit, cardVars
  <2>2. StoreMoved' = 0 /\ StoreGot' = <<>> /\ StoreMem' = StoreMem
    BY <2>1 DEF StoreMoved, StoreGot, StoreMem
  <2>3. Store!Submit(r)
    BY ONLY <2>1, <2>2 DEF Store!Submit
  <2> QED
    BY <2>3 DEF Store!Next
<1>2. CASE RefuseBlockSize
  BY <1>2, RefuseIsFail DEF Store!Next
<1>3. CASE nemu_request
  <2>1. /\ waiting /\ waiting' = FALSE /\ left' = req.sg /\ buf' = <<>>
        /\ UNCHANGED <<image, req, answer>>
    BY <1>3 DEF nemu_request, cardVars
  <2>2. req.sg \in Nat
    BY <2>1, RequestFacts DEF SdInv, CoreInv, SoundRequest
  <2>3. StoreMoved = 0 /\ StoreGot = <<>> /\ StoreMoved' = 0 /\ StoreGot' = <<>> /\ StoreMem' = StoreMem
    BY <2>1, <2>2 DEF StoreMoved, StoreGot, StoreMem
  <2> QED
    BY ONLY <2>1, <2>3 DEF Store!vars
<1>4. CASE TransferWord
  <2>1. req.op \in {"read", "write", "ident"}
    BY <1>4, PioFacts DEF TransferWord, HasData
  <2> QED
    BY <1>4, <2>1, WriteIsPut, ReadIsGet DEF Store!Next
<1>5. CASE nemu_finish_command
  <2>1. CASE cmd \in {"cmd", "stop"} /\ nemu_finish_request
    BY <1>5, <2>1, FinishedCases, AnswerIsFinishOrFail DEF Store!Next
  <2>2. CASE UNCHANGED answer
    <3>1. UNCHANGED <<image, waiting, req, left, buf, answer>>
      BY <1>5, <2>2 DEF nemu_finish_command, cardVars
    <3> QED
      BY <3>1, StoreLeftAlone
  <2> QED
    BY <1>5, <2>1, <2>2, FinishedCases
<1>6. ASSUME NEW c \in {"sbc", "cmd", "stop"}, nemu_send_command(c)
      PROVE  UNCHANGED Store!vars
  <2>1. UNCHANGED <<image, waiting, req, left, buf, answer>>
    BY <1>6 DEF nemu_send_command, write_arg, coreVars
  <2> QED
    BY <2>1, StoreLeftAlone
<1>7. CASE WriteCommand
  <2>1. UNCHANGED <<image, waiting, req, left, buf, answer>>
    <3>1. UNCHANGED <<waiting, req, left, buf, answer>>
      BY <1>7 DEF WriteCommand, coreVars
    <3>2. UNCHANGED image
      BY <1>7, CommandLeavesImage
    <3> QED
      BY <3>1, <3>2
  <2> QED
    BY <2>1, StoreLeftAlone
<1>8. CASE ScatterListEnds \/ PioDone \/ nemu_finish_data \/ Unlock \/ UNCHANGED vars
  <2>1. UNCHANGED <<image, waiting, req, left, buf, answer>>
    BY <1>8 DEF ScatterListEnds, PioDone, nemu_finish_data, Unlock, vars, cardVars, coreVars, hostVars
  <2> QED
    BY <2>1, StoreLeftAlone
<1> QED
  BY <1>1, <1>2, <1>3, <1>4, <1>5, <1>6, <1>7, <1>8 DEF SdNext, Driver

\* Card and driver implement the block store: each word moves to or from its
\* own place whatever commands came before, and the answer tells whether all did.
THEOREM SdImplementsStore == SdSpec => ReadsSeeWrites
<1>1. SdInv /\ [SdNext]_vars => [Store!Next]_(Store!vars)
  BY StoreNext
<1> QED
  BY <1>1, SdInvariance, StoreInit, PTL DEF SdSpec, Store!Spec, ReadsSeeWrites

-----------------------------------------------------------------------------
(* The physical address map. *)

\* Where the pool stands: p_space is at a page boundary before the last page.
Paged == \E k \in Nat : k < IO_PAGES /\ p_space = k * PAGE_SIZE

\* A device's registers lie in the part of the pool that is already taken.
Taken ==
  \A i \in 1 .. Len(maps) :
    maps[i].low <= maps[i].high
      => maps[i].space + (maps[i].high - maps[i].low) < p_space

\* The last access was answered by a device that holds its first address.
Answered == access.map # 0 => map_inside(maps[access.map], access.addr)

IoInv == IoTypeOK /\ Paged /\ Taken /\ OneDevice /\ NoneBehindPmem /\ OwnSpace /\ Answered

\* A multiple of the page size below another one is a page below it.
LEMMA PageBelow ==
  ASSUME NEW p \in Nat, NEW k \in Nat, NEW m \in Nat, k < m
  PROVE  k * p + p <= m * p
  <1>1. PICK d \in Nat : m = k + 1 + d
    <2>1. m - k - 1 \in Nat /\ m = k + 1 + (m - k - 1) OBVIOUS
    <2> QED BY <2>1
  <1>2. m * p = k * p + p + d * p BY <1>1
  <1>3. d * p \in Nat BY <1>1
  <1>4. k * p \in Nat OBVIOUS
  <1> QED BY <1>2, <1>3, <1>4

\* PageAlign rounds up to a multiple of the page size.
LEMMA AlignUp ==
  ASSUME NEW len \in Nat, 0 < PAGE_SIZE
  PROVE  \E q \in Nat : PageAlign(len) = q * PAGE_SIZE /\ len <= q * PAGE_SIZE
  <1> DEFINE x == len + PAGE_SIZE - 1
             q == x \div PAGE_SIZE
  <1>1. PAGE_SIZE \in Nat /\ PAGE_SIZE > 0 BY IoMapAssumption
  <1>2. x \in Nat BY <1>1
  <1>3. q \in Nat BY <1>1, <1>2
  <1>4. x = PAGE_SIZE * q + (x % PAGE_SIZE) /\ x % PAGE_SIZE \in 0 .. PAGE_SIZE - 1
    <2> HIDE DEF x
    <2> QED BY <1>1, <1>2
  <1>5. PAGE_SIZE * q = q * PAGE_SIZE /\ q * PAGE_SIZE \in Nat
    <2> HIDE DEF q
    <2> QED BY <1>1, <1>3
  <1>6. len <= q * PAGE_SIZE
    <2> DEFINE y == q * PAGE_SIZE
               r == x % PAGE_SIZE
    <2>1. x = y + r /\ r \in 0 .. PAGE_SIZE - 1 /\ y \in Nat BY <1>4, <1>5
    <2>2. len = x - PAGE_SIZE + 1 BY <1>1
    <2> HIDE DEF x, y, r
    <2> QED BY <2>1, <2>2, <1>1
  <1> QED BY <1>3, <1>6 DEF PageAlign

\* The pool after a registration that passed new_space's assert.
LEMMA PoolGrows ==
  ASSUME IoTypeOK, Paged, NEW len \in DevLens,
         SpaceLeft(p_space + PageAlign(len)), p_space' = p_space + PageAlign(len)
  PROVE  p_space' \in Nat /\ Paged' /\ p_space + len <= p_space' /\ p_space' < IO_SPACE_MAX
  <1>1. len \in Nat /\ len > 0 /\ PAGE_SIZE \in Nat /\ PAGE_SIZE > 0 /\ IO_PAGES \in Nat
    BY IoMapAssumption
  <1>2. PICK k \in Nat : k < IO_PAGES /\ p_space = k * PAGE_SIZE BY DEF Paged
  <1>3. PICK q \in Nat : PageAlign(len) = q * PAGE_SIZE /\ len <= q * PAGE_SIZE
    BY <1>1, AlignUp
  <1>4. p_space' = (k + q) * PAGE_SIZE /\ q * PAGE_SIZE \in Nat /\ p_space \in Nat
    BY <1>1, <1>2, <1>3 DEF IoTypeOK
  <1>5. p_space' < IO_PAGES * PAGE_SIZE BY DEF SpaceLeft, IO_SPACE_MAX
  <1>6. k + q < IO_PAGES
    <2>1. SUFFICES ASSUME IO_PAGES <= k + q PROVE FALSE BY <1>1
    <2>2. PICK d \in Nat : k + q = IO_PAGES + d
      <3>1. k + q - IO_PAGES \in Nat /\ k + q = IO_PAGES + (k + q - IO_PAGES) BY <1>1, <2>1
      <3> QED BY <3>1
    <2>3. (k + q) * PAGE_SIZE = IO_PAGES * PAGE_SIZE + d * PAGE_SIZE BY <1>1, <2>2
    <2>4. d * PAGE_SIZE \in Nat /\ IO_PAGES * PAGE_SIZE \in Nat BY <1>1
    <2> QED BY <1>4, <1>5, <2>3, <2>4
  <1>7. Paged'
    <2>1. k + q \in Nat /\ k + q < IO_PAGES BY <1>6
    <2> QED BY <2>1, <1>4 DEF Paged
  <1>8. p_space' \in Nat /\ p_space + len <= p_space' BY <1>1, <1>3, <1>4
  <1> QED BY <1>5, <1>7, <1>8 DEF IO_SPACE_MAX

\* The end of a region, computed modulo the word: either it does not wrap, or it
\* comes out below the region's start.
LEMMA WordWraps ==
  ASSUME NEW w \in Nat, NEW base \in 0 .. w - 1, NEW len \in Nat, 0 < len, len < w,
         NEW right, right = (base + len - 1) % w, base <= right
  PROVE  right = base + len - 1
  <1> DEFINE s == base + len - 1
  <1>1. s \in Nat /\ w > 0 /\ base \in Nat /\ s < base + w OBVIOUS
  <1> HIDE DEF s
  <1>2. CASE s < w
    <2>1. s % w = s BY <1>1, <1>2
    <2> QED BY <2>1 DEF s
  <1>3. CASE w <= s
    <2>1. s % w = s - w BY <1>1, <1>3
    <2> QED BY <1>1, <2>1 DEF s
  <1> QED BY <1>1, <1>2, <1>3

\* What a registration that passed every check adds to the table.
LEMMA RegionAdded ==
  ASSUME IoInv, NEW base \in DevAddrs, NEW len \in DevLens,
         SpaceLeft(p_space + PageAlign(len)), TableFree(Len(maps)),
         NEW right, right = (base + len - 1) % W,
         ~MeetsPmem(base, right),
         \A i \in 1 .. Len(maps) : ~Overlaps(base, right, maps[i]),
         maps' = Append(maps, [low |-> base, high |-> right, space |-> p_space]),
         p_space' = p_space + PageAlign(len),
         UNCHANGED <<booted, alive, access>>
  PROVE  IoInv'
  <1> DEFINE new == [low |-> base, high |-> right, space |-> p_space]
  <1>0. /\ base \in Addr /\ right \in Addr /\ len \in Nat /\ len > 0
        /\ MBASE \in Nat /\ MSIZE \in Nat /\ W \in Nat /\ NR_MAP \in Nat
        /\ MBASE + MSIZE <= W
    <2>1. base \in 0 .. W - 1 /\ len \in Nat /\ len > 0 /\ W \in Nat BY IoMapAssumption
    <2>2. base + len - 1 \in Nat /\ W > 0 BY <2>1
    <2>3. right \in 0 .. W - 1
      <3> DEFINE s == base + len - 1
      <3>1. s \in Nat /\ W \in Nat /\ W > 0 BY <2>1, <2>2
      <3> HIDE DEF s
      <3>2. s % W \in 0 .. W - 1 BY <3>1
      <3> QED BY <3>2 DEF s
    <2> QED BY <2>1, <2>3, IoMapAssumption DEF Addr
  <1>1. p_space' \in Nat /\ Paged' /\ p_space + len <= p_space' /\ p_space' < IO_SPACE_MAX
    BY PoolGrows DEF IoInv
  <1>2. p_space \in Nat /\ maps \in Seq(IOMap) /\ Len(maps) \in Nat /\ new \in IOMap
    BY <1>0 DEF IoInv, IoTypeOK, IOMap
  <1>3. /\ maps' \in Seq(IOMap) /\ Len(maps') = Len(maps) + 1
        /\ \A i \in 1 .. Len(maps) : maps'[i] = maps[i] /\ maps[i] \in IOMap
        /\ maps'[Len(maps) + 1] = new
    BY <1>2
  <1>4. \A i \in 1 .. Len(maps') : i \in 1 .. Len(maps) \/ i = Len(maps) + 1 BY <1>2, <1>3
  <1>5. base <= right => right = base + len - 1
    <2>1. len < W BY <1>0, <1>1, <1>2, IoMapAssumption DEF IO_SPACE_MAX
    <2> QED BY <1>0, <2>1, WordWraps DEF Addr
  <1>6. IoTypeOK'
    <2>1. Len(maps') <= NR_MAP BY <1>0, <1>2, <1>3 DEF TableFree
    <2>2. access' \in [map : 0 .. Len(maps'), addr : Addr, len : 1 .. MaxLen]
      <3>1. access' \in [map : 0 .. Len(maps), addr : Addr, len : 1 .. MaxLen] BY DEF IoInv, IoTypeOK
      <3>2. 0 .. Len(maps) \subseteq 0 .. Len(maps') BY <1>2, <1>3
      <3> QED BY <3>1, <3>2
    <2>3. booted' \in BOOLEAN /\ alive' \in BOOLEAN BY DEF IoInv, IoTypeOK
    <2> QED BY <1>1, <1>3, <2>1, <2>2, <2>3 DEF IoTypeOK
  <1>7. Taken'
    <2>1. SUFFICES ASSUME NEW i \in 1 .. Len(maps'), maps'[i].low <= maps'[i].high
                   PROVE  maps'[i].space + (maps'[i].high - maps'[i].low) < p_space'
      BY DEF Taken
    <2>2. CASE i \in 1 .. Len(maps)
      <3>1. maps'[i] = maps[i] /\ maps[i] \in IOMap BY <1>3, <2>2
      <3>2. maps[i].space + (maps[i].high - maps[i].low) < p_space
        BY <2>1, <2>2, <3>1 DEF IoInv, Taken
      <3>3. /\ maps[i].space \in Nat /\ maps[i].high \in Int /\ maps[i].low \in Int
            /\ p_space \in Nat /\ p_space' \in Nat /\ p_space <= p_space'
        <4>1. maps[i].space \in Nat /\ maps[i].high \in Addr /\ maps[i].low \in Addr BY <3>1 DEF IOMap
        <4>2. \A a \in Addr : a \in Int BY <1>0 DEF Addr
        <4>3. p_space <= p_space' BY <1>0, <1>1, <1>2
        <4> QED BY <1>1, <1>2, <4>1, <4>2, <4>3
      <3> QED BY <3>1, <3>2, <3>3
    <2>3. CASE i = Len(maps) + 1
      <3>1. maps'[i].space = p_space /\ maps'[i].high = right /\ maps'[i].low = base
        BY <1>3, <2>3
      <3>2. right - base = len - 1 /\ p_space \in Nat /\ p_space' \in Nat
        <4>1. base <= right BY <2>1, <3>1
        <4>2. base \in Int BY <1>0 DEF Addr
        <4> QED BY <1>0, <1>1, <1>2, <1>5, <4>1, <4>2
      <3>3. p_space + (right - base) < p_space'
        <4>1. p_space + len <= p_space' /\ len \in Nat BY <1>0, <1>1
        <4> QED BY <3>2, <4>1
      <3> QED BY <3>1, <3>3
    <2> QED BY <1>4, <2>2, <2>3
  <1>8. OneDevice'
    <2>1. \A i \in 1 .. Len(maps), a \in Addr : ~(map_inside(maps[i], a) /\ map_inside(new, a))
      <3>1. SUFFICES ASSUME NEW i \in 1 .. Len(maps), NEW a \in Addr,
                            map_inside(maps[i], a), map_inside(new, a)
                     PROVE  FALSE
        OBVIOUS
      <3>2. ~Overlaps(base, right, maps[i]) OBVIOUS
      <3>3. base <= a /\ a <= right BY <3>1 DEF map_inside
      <3>4. maps[i].low <= a /\ a <= maps[i].high BY <3>1 DEF map_inside
      <3>5. maps[i].low \in Int /\ maps[i].high \in Int
        <4>1. maps[i] \in IOMap BY ONLY <1>3, i \in 1 .. Len(maps)
        <4>2. maps[i].low \in Addr /\ maps[i].high \in Addr BY ONLY <4>1 DEF IOMap
        <4>3. \A b \in Addr : b \in Int BY <1>0 DEF Addr
        <4> QED BY ONLY <4>2, <4>3
      <3> QED BY <1>0, <3>2, <3>3, <3>4, <3>5 DEF Overlaps, Addr
    <2>2. \A i, j \in 1 .. Len(maps), a \in Addr :
            map_inside(maps[i], a) /\ map_inside(maps[j], a) => i = j
      BY DEF IoInv, OneDevice
    <2> QED BY <1>3, <1>4, <2>1, <2>2 DEF OneDevice
  <1>9. NoneBehindPmem'
    <2>1. ASSUME NEW a \in Addr, map_inside(new, a) PROVE ~in_pmem(a)
      <3>1. base <= a /\ a <= right /\ right = base + len - 1
        BY <1>0, <1>5, <2>1 DEF map_inside, Addr
      <3>2. len < MSIZE
        BY <1>0, <1>1, <1>2, IoMapAssumption DEF IO_SPACE_MAX
      <3> QED BY <1>0, <3>1, <3>2 DEF MeetsPmem, in_pmem, Addr
    <2>2. \A i \in 1 .. Len(maps), a \in Addr : map_inside(maps[i], a) => ~in_pmem(a)
      BY DEF IoInv, NoneBehindPmem
    <2> QED BY <1>3, <1>4, <2>1, <2>2 DEF NoneBehindPmem
  <1>10. OwnSpace'
    <2>1. SUFFICES ASSUME NEW i \in 1 .. Len(maps'), NEW j \in 1 .. Len(maps'), i < j,
                          maps'[i].low <= maps'[i].high
                   PROVE  maps'[i].space + (maps'[i].high - maps'[i].low) < maps'[j].space
      BY DEF OwnSpace
    <2>2. i \in 1 .. Len(maps) BY <1>2, <1>3, <2>1
    <2>3. CASE j \in 1 .. Len(maps) BY <1>3, <2>1, <2>2, <2>3 DEF IoInv, OwnSpace
    <2>4. CASE j = Len(maps) + 1 BY <1>3, <2>1, <2>2, <2>4 DEF IoInv, Taken
    <2> QED BY <1>4, <2>3, <2>4
  <1>11. Answered'
    <2>1. access.map \in 0 .. Len(maps) /\ Answered BY DEF IoInv, IoTypeOK
    <2>2. access.map # 0 => access.map \in 1 .. Len(maps) BY <1>2, <2>1
    <2> QED BY <1>3, <2>1, <2>2 DEF Answered
  <1> QED BY <1>1, <1>6, <1>7, <1>8, <1>9, <1>10, <1>11 DEF IoInv

\* The table is empty before the first registration.
LEMMA IoInitInv == ASSUME IoInit PROVE IoInv
  <1>1. /\ PAGE_SIZE \in Nat /\ PAGE_SIZE > 0 /\ IO_PAGES \in Nat /\ MaxLen \in Nat /\ MaxLen > 0
    BY IoMapAssumption
  <1>2. W \in Nat /\ 0 < W
    <2>1. 0 * PAGE_SIZE + PAGE_SIZE <= IO_SPACE_MAX BY <1>1, PageBelow, IoMapAssumption DEF IO_SPACE_MAX
    <2> QED BY <1>1, <2>1, IoMapAssumption DEF IO_SPACE_MAX
  <1>3. IoTypeOK
    <2>1. maps = <<>> /\ maps \in Seq(IOMap) /\ Len(maps) = 0 BY DEF IoInit
    <2>2. 0 \in Addr /\ 1 \in 1 .. MaxLen /\ 0 \in 0 .. Len(maps) BY <1>1, <1>2, <2>1 DEF Addr
    <2>3. access \in [map : 0 .. Len(maps), addr : Addr, len : 1 .. MaxLen]
      BY <2>2 DEF IoInit, NoAccess
    <2>4. 0 <= NR_MAP BY IoMapAssumption
    <2> QED BY <2>1, <2>3, <2>4 DEF IoInit, IoTypeOK
  <1>4. Paged
    <2>1. 0 \in Nat /\ 0 < IO_PAGES /\ p_space = 0 * PAGE_SIZE BY <1>1, IoMapAssumption DEF IoInit
    <2> QED BY <2>1 DEF Paged
  <1>5. Taken /\ OneDevice /\ NoneBehindPmem /\ OwnSpace /\ Answered
    BY DEF IoInit, Taken, OneDevice, NoneBehindPmem, OwnSpace, Answered, NoAccess
  <1> QED BY <1>3, <1>4, <1>5 DEF IoInv

\* An access changes nothing but what is remembered of it.
LEMMA AccessInv ==
  ASSUME IoInv, NEW base \in Addr, NEW len \in 1 .. MaxLen, paddr_access(base, len)
  PROVE  IoInv'
  <1>1. /\ access' = [map |-> 0, addr |-> base, len |-> len] \/ access' = access
           \/ \E i \in 1 .. Len(maps) : Found(i, base) /\ access' = [map |-> i, addr |-> base, len |-> len]
        /\ alive' \in BOOLEAN
        /\ UNCHANGED <<maps, p_space, booted>>
    BY DEF paddr_access, IoInv, IoTypeOK
  <1>2. Len(maps) \in Nat BY DEF IoInv, IoTypeOK
  <1>3. IoTypeOK' BY <1>1, <1>2 DEF IoInv, IoTypeOK
  <1>4. Answered' BY <1>1 DEF IoInv, Answered, Found
  <1>5. Paged' /\ Taken' /\ OneDevice' /\ NoneBehindPmem' /\ OwnSpace'
    BY <1>1 DEF IoInv, Paged, Taken, OneDevice, NoneBehindPmem, OwnSpace, map_inside, in_pmem
  <1> QED BY <1>3, <1>4, <1>5 DEF IoInv

\* A step that leaves the table and the last access alone keeps the invariant.
LEMMA TableKept ==
  ASSUME IoInv, UNCHANGED <<maps, p_space, access>>, booted' \in BOOLEAN, alive' \in BOOLEAN
  PROVE  IoInv'
  BY DEF IoInv, IoTypeOK, Paged, Taken, OneDevice, NoneBehindPmem, OwnSpace, Answered,
         map_inside, in_pmem

\* The inductive invariant holds in every reachable state.
THEOREM IoInvariance == IoSpec => []IoInv
  <1>1. IoInit => IoInv BY IoInitInv
  <1>2. IoInv /\ [IoNext]_ioVars => IoInv'
    <2>1. SUFFICES ASSUME IoInv, [IoNext]_ioVars PROVE IoInv' OBVIOUS
    <2>2. booted \in BOOLEAN /\ alive \in BOOLEAN BY <2>1 DEF IoInv, IoTypeOK
    <2>3. ASSUME NEW base \in DevAddrs, NEW len \in DevLens, init_device(base, len)
          PROVE  IoInv'
      <3> DEFINE right == (base + len - 1) % W
                 ok == /\ SpaceLeft(p_space + PageAlign(len))
                       /\ TableFree(Len(maps))
                       /\ ~MeetsPmem(base, right)
                       /\ \A i \in 1 .. Len(maps) : ~Overlaps(base, right, maps[i])
      <3>1. CASE ok BY <2>1, <2>3, <3>1, RegionAdded DEF init_device
      <3>2. CASE ~ok BY <2>1, <2>2, <2>3, <3>2, TableKept DEF init_device
      <3> QED BY <3>1, <3>2
    <2>4. CASE Boot BY <2>1, <2>2, <2>4, TableKept DEF Boot
    <2>5. ASSUME NEW base \in Addr, NEW len \in 1 .. MaxLen, paddr_access(base, len)
          PROVE  IoInv'
      BY <2>1, <2>5, AccessInv
    <2>6. CASE UNCHANGED ioVars BY <2>1, <2>2, <2>6, TableKept DEF ioVars
    <2> QED BY <2>1, <2>3, <2>4, <2>5, <2>6 DEF IoNext
  <1> QED BY <1>1, <1>2, PTL DEF IoSpec

\* Well-typed: in particular the table never overflows.
THEOREM IoTypeCorrect == IoSpec => []IoTypeOK
  BY IoInvariance, PTL DEF IoInv

\* No two devices answer the same address, whatever is configured: also when the
\* end of a region wraps around the word.
THEOREM OneDeviceHolds == IoSpec => []OneDevice
  BY IoInvariance, PTL DEF IoInv

\* Comparing the two ends of a region with main memory is enough.
THEOREM NoneBehindPmemHolds == IoSpec => []NoneBehindPmem
  BY IoInvariance, PTL DEF IoInv

\* The spaces new_space hands out do not overlap.
THEOREM OwnSpaceHolds == IoSpec => []OwnSpace
  BY IoInvariance, PTL DEF IoInv

\* No access leaves the pool: the page that new_space's assert keeps free is at
\* least as long as the longest access.
THEOREM InPoolHolds == IoSpec => []InPool
  <1>1. IoInv => InPool
    <2>1. SUFFICES ASSUME IoInv, access.map # 0
                   PROVE  FirstByte + access.len - 1 < IO_SPACE_MAX
      BY DEF InPool
    <2> DEFINE m == maps[access.map]
    <2>2. access.map \in 1 .. Len(maps) /\ access.len \in 1 .. MaxLen /\ access.addr \in Addr
      BY <2>1 DEF IoInv, IoTypeOK
    <2>3. m \in IOMap /\ p_space \in Nat BY <2>1, <2>2 DEF IoInv, IoTypeOK
    <2>4. m.low <= access.addr /\ access.addr <= m.high
      BY <2>1 DEF IoInv, Answered, map_inside
    <2>5. m.low \in Int /\ m.high \in Int /\ m.space \in Nat /\ access.addr \in Int
      BY <2>2, <2>3 DEF IOMap, Addr
    <2>6. m.space + (m.high - m.low) < p_space
      <3>1. m.low <= m.high BY <2>4, <2>5
      <3> QED BY <2>1, <2>2, <3>1 DEF IoInv, Taken
    <2>7. FirstByte < p_space /\ FirstByte \in Int
      <3> HIDE DEF m
      <3> QED BY <2>3, <2>4, <2>5, <2>6 DEF FirstByte, m
    <2>8. p_space + PAGE_SIZE <= IO_SPACE_MAX
      <3>1. PICK k \in Nat : k < IO_PAGES /\ p_space = k * PAGE_SIZE BY <2>1 DEF IoInv, Paged
      <3> QED BY <3>1, PageBelow, IoMapAssumption DEF IO_SPACE_MAX
    <2>9. access.len <= PAGE_SIZE /\ access.len \in Nat /\ PAGE_SIZE \in Nat /\ IO_SPACE_MAX \in Int
      BY <2>2, IoMapAssumption DEF IO_SPACE_MAX
    <2> QED BY <2>3, <2>7, <2>8, <2>9
  <1> QED BY <1>1, IoInvariance, PTL

\* Two multiples of the same number that differ are that number apart.
LEMMA MultiplesApart ==
  ASSUME NEW n \in Nat \ {0}, NEW a \in Nat, NEW b \in Nat,
         a % n = 0, b % n = 0, a < b
  PROVE  a + n <= b
  <1>1. a = n * (a \div n) /\ b = n * (b \div n) /\ a \div n \in Nat /\ b \div n \in Nat
    OBVIOUS
  <1>2. PICK j \in Nat, k \in Nat : a = j * n /\ b = k * n
    <2> DEFINE j == a \div n
               k == b \div n
    <2>1. a = n * j /\ b = n * k /\ j \in Nat /\ k \in Nat
      BY <1>1
    <2> HIDE DEF j, k
    <2>2. n * j = j * n /\ n * k = k * n BY <2>1
    <2> QED BY <2>1, <2>2
  <1>3. j < k
    <2>1. SUFFICES ASSUME k <= j PROVE FALSE BY <1>2
    <2>2. PICK d \in Nat : j = k + d
      <3>1. j - k \in Nat /\ j = k + (j - k) BY <2>1
      <3> QED BY <3>1
    <2>3. j * n = k * n + d * n /\ d * n \in Nat BY <2>2
    <2> QED BY <1>2, <2>3
  <1>4. j * n + n <= k * n BY <1>3, PageBelow
  <1> QED BY <1>2, <1>4

\* Devices whose regions end at a multiple of the access length are never left by
\* an aligned access (map.c:39 checks its first byte only).
THEOREM AlignedInDeviceHolds == IoSpec => []AlignedInDevice
  <1>1. IoInv => AlignedInDevice
    <2>1. SUFFICES ASSUME IoInv, access.map # 0, access.addr % access.len = 0,
                          (maps[access.map].high + 1) % access.len = 0
                   PROVE  access.addr + access.len - 1 <= maps[access.map].high
      BY DEF AlignedInDevice
    <2> DEFINE m == maps[access.map]
    <2>2. access.map \in 1 .. Len(maps) /\ access.len \in 1 .. MaxLen /\ access.addr \in Addr
      BY <2>1 DEF IoInv, IoTypeOK
    <2>3. m \in IOMap BY <2>1, <2>2 DEF IoInv, IoTypeOK
    <2>4. access.addr <= m.high
      BY <2>1 DEF IoInv, Answered, map_inside
    <2>5. m.high \in Nat /\ access.addr \in Nat /\ access.len \in Nat \ {0} /\ MaxLen \in Nat
      BY <2>2, <2>3, IoMapAssumption DEF IOMap, Addr
    <2>6. access.addr + access.len <= m.high + 1
      <3> HIDE DEF m
      <3>1. m.high + 1 \in Nat /\ access.addr < m.high + 1 BY <2>4, <2>5
      <3>2. (m.high + 1) % access.len = 0 BY <2>1 DEF m
      <3> QED BY <2>1, <2>5, <3>1, <3>2, MultiplesApart
    <2> QED BY <2>5, <2>6
  <1> QED BY <1>1, IoInvariance, PTL
=============================================================================
