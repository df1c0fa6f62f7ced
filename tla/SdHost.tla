------------------------------- MODULE SdHost -------------------------------
(***************************************************************************)
(* The Linux driver of NEMU's SD card (resource/sdcard/nemu.c) on top of   *)
(* the card, with the MMC core that calls it.  The driver has no interrupt *)
(* and no DMA: it sends a command and moves the words of its data right    *)
(* after it, so the data is always complete before the command is.  The    *)
(* core claims the host for one request at a time; it may make the next    *)
(* one as soon as mmc_request_done has run, while the first is still       *)
(* inside the driver and holds the mutex.                                  *)
(* A scatter list may be too short for the data, but its segments are      *)
(* whole words: one that is not would be skipped, with an error, and the   *)
(* words after it would move to the places of those before.                *)
(***************************************************************************)
EXTENDS SdCard

CONSTANTS
  None,
  MaxBlocks,    \* bound: blocks in a request
  ShortBy       \* words a scatter list may be too short by

ASSUME SdHostAssumption == MaxBlocks \in Nat \ {0} /\ ShortBy \subseteq Nat

VARIABLES
  identified,    \* the core has read the EXT_CSD, and may move blocks
  answer,        \* what the last request was answered: "none" until it is
  req,           \* the last request made
  waiting,       \* it has not entered the driver
  mutex,         \* host->mutex is held
  pc,            \* the function the request inside the driver runs
  mrq, cmd, data,          \* host->mrq, host->cmd, host->data # NULL
  data_complete, use_sbc,
  error,         \* data->error
  left,          \* words left in the request's scatter list
  block, word,   \* nemu_request's i, and the words moved of that block
  buf,           \* the words read into the scatter list
  warned         \* a WARN_ON fired

hostVars == <<mutex, pc, mrq, cmd, data, data_complete, use_sbc, error, left, block, word, buf, warned>>
coreVars == <<identified, answer, req, waiting>>
vars == <<cardVars, hostVars, coreVars>>

(* A request: its command, the first block, whether the core attached a     *)
(* CMD23, the words to write, the words its scatter list holds, the words   *)
(* of its data.  A CMD12 is attached to the requests that move blocks.      *)
Plain(op, ok) == [op |-> op, from |-> 0, sbc |-> FALSE, data |-> <<>>, sg |-> 0, words |-> 0, blksz_ok |-> ok]

\* The words a scatter list for so many may hold.
ScatterLists(words) == {words - s : s \in ShortBy \cap 0 .. words}

IdentRequests ==
  {[op |-> "ident", from |-> 0, sbc |-> FALSE, data |-> <<>>, sg |-> g, words |-> BlockWords, blksz_ok |-> TRUE]
     : g \in ScatterLists(BlockWords)}

BlockReads(n, b) ==
  {[op |-> "read", from |-> b * BlockWords, sbc |-> s, data |-> <<>>, sg |-> g,
    words |-> n * BlockWords, blksz_ok |-> TRUE]
     : s \in BOOLEAN, g \in ScatterLists(n * BlockWords)}

\* The data of a write gives every block one value.
BlockWrites(n, b) ==
  {[op |-> "write", from |-> b * BlockWords, sbc |-> s, data |-> [i \in 1 .. n * BlockWords |-> v[(i - 1) \div BlockWords]],
    sg |-> g, words |-> n * BlockWords, blksz_ok |-> TRUE]
     : s \in BOOLEAN, v \in [0 .. n - 1 -> Vals], g \in ScatterLists(n * BlockWords)}

BlockRequests ==
  UNION {UNION {BlockReads(n, b) \cup BlockWrites(n, b) : b \in 0 .. CardBlocks - n} : n \in 2 .. MaxBlocks}

ScanRequests == {Plain("go_idle", TRUE), Plain("if_cond", TRUE)} \cup IdentRequests
ReadyRequests == BlockRequests \cup {Plain("status", TRUE), Plain("status", FALSE), Plain("go_idle", TRUE)}
Requests == ScanRequests \cup ReadyRequests

ASSUME NoneAssumption == None \notin Requests

HasData(r) == r.op \in {"read", "write", "ident"}
HasStop(r) == r.op \in {"read", "write"}

Opcode(r) ==
  [ident |-> "SEND_EXT_CSD", if_cond |-> "SEND_IF_COND", read |-> "READ_MULTIPLE_BLOCK",
   write |-> "WRITE_MULTIPLE_BLOCK", status |-> "other", go_idle |-> "other"][r.op]

SdTypeOK ==
  /\ CardTypeOK
  /\ identified \in BOOLEAN /\ waiting \in BOOLEAN /\ mutex \in BOOLEAN
  /\ answer \in {"none", "ok", "error"}
  /\ req \in Requests \cup {None}
  /\ pc \in {"out", "send_sbc", "send_cmd", "send_stop", "command", "pio", "finish_data", "finish_command", "unlock"}
  /\ mrq \in Requests \cup {None}
  /\ cmd \in {"none", "sbc", "cmd", "stop"}
  /\ data \in BOOLEAN /\ data_complete \in BOOLEAN /\ use_sbc \in BOOLEAN
  /\ error \in BOOLEAN /\ warned \in BOOLEAN
  /\ left \in Nat /\ block \in Nat /\ word \in 0 .. BlockWords - 1
  /\ buf \in Seq(WordVals)

SdInit ==
  /\ init_sdcard
  /\ identified = FALSE /\ answer = "ok" /\ req = None /\ waiting = FALSE
  /\ mutex = FALSE /\ pc = "out"
  /\ mrq = None /\ cmd = "none" /\ data = FALSE
  /\ data_complete = FALSE /\ use_sbc = FALSE /\ error = FALSE
  /\ left = 0 /\ block = 0 /\ word = 0 /\ buf = <<>>
  /\ warned = FALSE

(* The core, external: it scans the card until it has read the EXT_CSD,     *)
(* then moves blocks; a resume from suspend scans again.                    *)
Submit(r) ==
  /\ answer # "none"
  /\ r \in IF identified THEN ReadyRequests ELSE ScanRequests
  /\ req' = r /\ waiting' = TRUE /\ answer' = "none"
  /\ identified' = (identified /\ r.op # "go_idle")
  /\ UNCHANGED <<cardVars, hostVars>>

\* An unsupported block size is answered before the mutex is taken.
RefuseBlockSize ==
  /\ waiting /\ ~req.blksz_ok
  /\ waiting' = FALSE /\ answer' = "error"
  /\ UNCHANGED <<cardVars, hostVars, identified, req>>

nemu_request ==
  /\ waiting /\ req.blksz_ok /\ ~mutex
  /\ waiting' = FALSE /\ mutex' = TRUE
  /\ warned' = (warned \/ mrq # None)
  /\ use_sbc' = (req.sbc /\ req.op = "read")
  /\ error' = FALSE /\ left' = req.sg /\ buf' = <<>>
  /\ mrq' = req
  /\ pc' = IF use_sbc' THEN "send_sbc" ELSE "send_cmd"
  /\ UNCHANGED <<cardVars, identified, answer, req, cmd, data, data_complete, block, word>>

\* Which command nemu_send_command sends, and whether it has data; with data,
\* nemu_prepare_data starts it over.
Sending(c) == pc = [sbc |-> "send_sbc", cmd |-> "send_cmd", stop |-> "send_stop"][c]

nemu_prepare_data(c) ==
  /\ data' = (c = "cmd" /\ HasData(mrq))
  /\ data_complete' = (data_complete /\ ~data')
  /\ block' = 0 /\ word' = 0

Argument(c) ==
  IF c = "stop" THEN 0
  ELSE IF c = "sbc" THEN mrq.words \div BlockWords
  ELSE mrq.from \div BlockWords

\* The first register written: the argument.
nemu_send_command(c) ==
  /\ Sending(c)
  /\ warned' = (warned \/ cmd # "none" \/ data)
  /\ cmd' = c
  /\ nemu_prepare_data(c)
  /\ write_arg(Argument(c))
  /\ pc' = "command"
  /\ UNCHANGED <<coreVars, mutex, mrq, use_sbc, error, left, buf>>

\* The second: the command, which the card obeys at once.
WriteCommand ==
  /\ pc = "command"
  /\ sdcard_handle_cmd(CASE cmd = "sbc" -> "SET_BLOCK_COUNT"
                         [] cmd = "cmd" -> Opcode(mrq)
                         [] cmd = "stop" -> "STOP_TRANSMISSION")
  /\ pc' = IF data THEN "pio" ELSE "finish_command"
  /\ UNCHANGED <<coreVars, mutex, mrq, cmd, data, data_complete, use_sbc, error, left, block, word, buf, warned>>

MoreBlocks == block < mrq.words \div BlockWords

\* Mutant: the words of a block are not counted down.
TransferWord_runs_on ==
  /\ pc = "pio" /\ MoreBlocks /\ left > 0
  /\ IF mrq.op = "write"
       THEN write_data(mrq.data[mrq.sg - left + 1]) /\ UNCHANGED buf
       ELSE read_data /\ buf' = Append(buf, base_data')
  /\ left' = left - 1
  /\ word' = word + 1
  /\ UNCHANGED <<coreVars, mutex, pc, mrq, cmd, data, data_complete, use_sbc, error, block, warned>>

\* nemu_transfer_block_pio: a word between the scatter list and the card.
TransferWord ==
  /\ pc = "pio" /\ MoreBlocks /\ left > 0
  /\ IF mrq.op = "write"
       THEN write_data(mrq.data[mrq.sg - left + 1]) /\ UNCHANGED buf
       ELSE read_data /\ buf' = Append(buf, base_data')
  /\ left' = left - 1
  /\ word' = (word + 1) % BlockWords
  /\ block' = IF word + 1 = BlockWords THEN block + 1 ELSE block
  /\ UNCHANGED <<coreVars, mutex, pc, mrq, cmd, data, data_complete, use_sbc, error, warned>>

\* The scatter list ended before the block: the block is given up, the next is tried.
ScatterListEnds ==
  /\ pc = "pio" /\ MoreBlocks /\ left = 0
  /\ error' = TRUE
  /\ word' = 0 /\ block' = block + 1
  /\ UNCHANGED <<cardVars, coreVars, mutex, pc, mrq, cmd, data, data_complete, use_sbc, left, buf, warned>>

PioDone ==
  /\ pc = "pio" /\ ~MoreBlocks
  /\ pc' = "finish_data"
  /\ UNCHANGED <<cardVars, coreVars, mutex, mrq, cmd, data, data_complete, use_sbc, error, left, block, word, buf, warned>>

\* Mutant: the data is not marked complete.
nemu_finish_data_incomplete ==
  /\ pc = "finish_data" /\ cmd # "none"
  /\ pc' = "finish_command"
  /\ UNCHANGED <<cardVars, coreVars, mutex, mrq, cmd, data, data_complete, use_sbc, error, left, block, word, buf, warned>>

\* The command is never finished before its data: the branch for that is left out,
\* and a run that needed it would deadlock here.
nemu_finish_data ==
  /\ pc = "finish_data" /\ cmd # "none"
  /\ data_complete' = TRUE
  /\ pc' = "finish_command"
  /\ UNCHANGED <<cardVars, coreVars, mutex, mrq, cmd, data, use_sbc, error, left, block, word, buf, warned>>

\* Mutant: the answer is given but the request stays the driver's.
nemu_finish_request_keeps_mrq ==
  /\ cmd' = "none" /\ data' = FALSE
  /\ answer' = IF error THEN "error" ELSE "ok"
  /\ identified' = (identified \/ (mrq.op = "ident" /\ ~error))
  /\ pc' = "unlock"
  /\ UNCHANGED mrq

\* The request is answered; what the core makes of the answer to an EXT_CSD is external.
nemu_finish_request ==
  /\ mrq' = None /\ cmd' = "none" /\ data' = FALSE
  /\ answer' = IF error THEN "error" ELSE "ok"
  /\ identified' = (identified \/ (mrq.op = "ident" /\ ~error))
  /\ pc' = "unlock"

\* A CMD12 ends what no CMD23 bounded, and what failed.
nemu_transfer_complete ==
  IF HasStop(mrq) /\ (error \/ ~use_sbc)
    THEN /\ data' = FALSE /\ cmd' = "none" /\ pc' = "send_stop"
         /\ UNCHANGED <<mrq, answer, identified>>
    ELSE nemu_finish_request

FinishedSbc ==
  /\ cmd = "sbc" /\ cmd' = "none"
  /\ pc' = "send_cmd"
  /\ UNCHANGED <<mrq, data, answer, identified>>

FinishedStop == cmd = "stop" /\ nemu_finish_request

\* With data that is not complete the command only leaves the host.
FinishedCmd ==
  /\ cmd = "cmd"
  /\ \/ ~data /\ nemu_finish_request
     \/ data /\ data_complete /\ nemu_transfer_complete
     \/ /\ data /\ ~data_complete
        /\ cmd' = "none" /\ pc' = "unlock"
        /\ UNCHANGED <<mrq, data, answer, identified>>

nemu_finish_command ==
  /\ pc = "finish_command"
  /\ FinishedSbc \/ FinishedCmd \/ FinishedStop
  /\ UNCHANGED <<cardVars, req, waiting, mutex, data_complete, use_sbc, error, left, block, word, buf, warned>>

Unlock ==
  /\ pc = "unlock"
  /\ mutex' = FALSE /\ pc' = "out"
  /\ UNCHANGED <<cardVars, coreVars, mrq, cmd, data, data_complete, use_sbc, error, left, block, word, buf, warned>>

Driver ==
  \/ RefuseBlockSize
  \/ nemu_request
  \/ \E c \in {"sbc", "cmd", "stop"} : nemu_send_command(c)
  \/ WriteCommand
  \/ TransferWord \/ ScatterListEnds \/ PioDone
  \/ nemu_finish_data
  \/ nemu_finish_command
  \/ Unlock

SdNext == Driver \/ \E r \in Requests : Submit(r)

\* The driver runs on a thread of the kernel that nothing in it blocks.
SdSpec == SdInit /\ [][SdNext]_vars /\ WF_vars(Driver)

-----------------------------------------------------------------------------
(* Properties                                                              *)

\* None of the driver's WARN_ON fires: a request enters only when the last one,
\* its command and its data are gone, and a transfer is completed only with its data.
NoWarning == ~warned

\* What the driver and the card are, seen from the block layer: the words of
\* the image, the words of the request already moved, the words already read.
StoreMem == [w \in CardWords |-> IF w < Len(image) THEN image[w + 1] ELSE None]
StoreMoved == IF waiting \/ req = None THEN 0 ELSE req.sg - left
StoreGot == IF waiting \/ req = None THEN <<>> ELSE IF HasData(req) THEN buf ELSE <<>>
StoreIdent ==
  [i \in 1 .. BlockWords |-> IF i = RevWord + 1 THEN Rev ELSE IF i = SectorsWord + 1 THEN Sectors ELSE Zero]

Store == INSTANCE BlockStore WITH
  Words <- CardWords, Anything <- WordVals, Unknown <- None, Ident <- StoreIdent,
  mem <- StoreMem, moved <- StoreMoved, got <- StoreGot

\* Whatever commands came before, the words of a request go to and come from
\* their own places, the identification is not mixed with the blocks, and an
\* answer tells whether everything moved.
ReadsSeeWrites == Store!Spec

\* Every request is answered, each WARN-free path of nemu_finish_command leads
\* to mmc_request_done, and the mutex is free again for the next one.
RequestAnswered == answer = "none" ~> answer # "none"
=============================================================================
