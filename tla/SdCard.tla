------------------------------- MODULE SdCard -------------------------------
(***************************************************************************)
(* NEMU's SD card (src/device/sdcard.c): a command register, an argument   *)
(* register and one data register through which the words of a transfer    *)
(* pass one by one.  The state that outlives a command is the position in  *)
(* the image, the direction, and the word counter and flag of an EXT_CSD   *)
(* transfer.  The constant answers in the response registers are left out, *)
(* and so is a card without an image.                                      *)
(***************************************************************************)
EXTENDS Integers, Sequences

CONSTANTS
  Vals,          \* the values of a word of the image
  Zero,          \* the value of a hole in the image
  Rev, Sectors,  \* the two words of the EXT_CSD that are not zero
  BlockWords,    \* words in a block, and in the EXT_CSD
  RevWord, SectorsWord,
  CardBlocks,    \* the blocks the card says it has
  ImageBlocks    \* the blocks of the image file

ASSUME SdCardAssumption ==
  /\ Zero \in Vals
  /\ Rev \notin Vals /\ Sectors \notin Vals /\ Rev # Sectors
  /\ BlockWords \in Nat \ {0}
  /\ CardBlocks \in Nat \ {0}
  /\ ImageBlocks \in 0 .. CardBlocks
  /\ RevWord \in 0 .. BlockWords - 1
  /\ SectorsWord \in 0 .. BlockWords - 1
  /\ RevWord # SectorsWord

VARIABLES
  image,          \* fp's file, a sequence of words
  pos,            \* its position, in words
  write_cmd,      \* the direction of the last read or write command
  read_ext_csd,   \* SDDATA gives the EXT_CSD
  addr,           \* words moved since the last command with data
  base_arg,       \* base[SDARG], a block or a count
  base_data       \* base[SDDATA]

cardVars == <<image, pos, write_cmd, read_ext_csd, addr, base_arg, base_data>>

CardWords == 0 .. CardBlocks * BlockWords - 1

WordVals == Vals \cup {Rev, Sectors}

CardTypeOK ==
  /\ image \in Seq(Vals) /\ Len(image) \in ImageBlocks * BlockWords .. CardBlocks * BlockWords
  /\ pos \in 0 .. CardBlocks * BlockWords
  /\ write_cmd \in BOOLEAN
  /\ read_ext_csd \in BOOLEAN
  /\ addr \in Nat
  /\ base_arg \in 0 .. CardBlocks
  /\ base_data \in WordVals

init_sdcard ==
  /\ image = [i \in 1 .. ImageBlocks * BlockWords |-> Zero]
  /\ pos = 0
  /\ write_cmd = FALSE
  /\ read_ext_csd = FALSE
  /\ addr = 0
  /\ base_arg = 0
  /\ base_data = Zero

prepare_rw(is_write) ==
  /\ addr' = 0
  /\ pos' = base_arg * BlockWords
  /\ write_cmd' = is_write
  /\ UNCHANGED <<image, read_ext_csd, base_arg, base_data>>

\* Mutant: the word counter is left where the last transfer ended.
send_ext_csd_keeps_addr ==
  /\ read_ext_csd' = TRUE
  /\ UNCHANGED <<image, pos, write_cmd, addr, base_arg, base_data>>

send_ext_csd ==
  /\ read_ext_csd' = TRUE
  /\ addr' = 0
  /\ UNCHANGED <<image, pos, write_cmd, base_arg, base_data>>

\* A write of the command register.  "other" stands for the commands that only
\* set the response registers or do nothing; SEND_IF_COND has EXT_CSD's number.
sdcard_handle_cmd(cmd) ==
  \/ cmd \in {"other", "SET_BLOCK_COUNT", "STOP_TRANSMISSION"} /\ UNCHANGED cardVars
  \/ cmd \in {"SEND_EXT_CSD", "SEND_IF_COND"} /\ send_ext_csd
  \/ cmd = "READ_MULTIPLE_BLOCK" /\ prepare_rw(FALSE)
  \/ cmd = "WRITE_MULTIPLE_BLOCK" /\ prepare_rw(TRUE)

\* A write of the argument register.
write_arg(block) ==
  /\ base_arg' = block
  /\ UNCHANGED <<image, pos, write_cmd, read_ext_csd, addr, base_data>>

ExtCsdWord ==
  IF addr = RevWord THEN Rev ELSE IF addr = SectorsWord THEN Sectors ELSE Zero

\* The flag is cleared by the last word of the EXT_CSD.
access_ext_csd ==
  /\ base_data' = ExtCsdWord
  /\ read_ext_csd' = (addr # BlockWords - 1)
  /\ addr' = addr + 1
  /\ UNCHANGED <<image, pos, write_cmd, base_arg>>

\* fread at the end of the file leaves the register and the position alone.
fread ==
  IF pos < Len(image)
    THEN base_data' = image[pos + 1] /\ pos' = pos + 1 /\ UNCHANGED image
    ELSE UNCHANGED <<base_data, pos, image>>

\* fwrite past the end of the file leaves a hole of zeros.
fwrite(v) ==
  /\ image' = [i \in 1 .. IF pos < Len(image) THEN Len(image) ELSE pos + 1 |->
                 IF i = pos + 1 THEN v ELSE IF i <= Len(image) THEN image[i] ELSE Zero]
  /\ pos' = pos + 1
  /\ base_data' = v

\* A read of the data register.  The card looks at write_cmd, not at whether the
\* register is read or written.
read_data ==
  \/ read_ext_csd /\ access_ext_csd
  \/ /\ ~read_ext_csd
     /\ IF write_cmd THEN fwrite(base_data) ELSE fread
     /\ addr' = addr + 1
     /\ UNCHANGED <<write_cmd, read_ext_csd, base_arg>>

\* A write of the data register: the value is in base[SDDATA] before the card runs.
write_data(v) ==
  \/ read_ext_csd /\ access_ext_csd
  \/ /\ ~read_ext_csd
     /\ IF write_cmd
          THEN fwrite(v)
          ELSE IF pos < Len(image)
                 THEN base_data' = image[pos + 1] /\ pos' = pos + 1 /\ UNCHANGED image
                 ELSE base_data' = v /\ UNCHANGED <<pos, image>>
     /\ addr' = addr + 1
     /\ UNCHANGED <<write_cmd, read_ext_csd, base_arg>>
=============================================================================
