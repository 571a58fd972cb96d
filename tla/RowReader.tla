----------------------------- MODULE RowReader ------------------------------
(***************************************************************************)
(* CSVReader::readLine: the rows of a file in a zip archive, through a      *)
(* buffer of BUFF_SIZE bytes.  A refill writes the first bytes of the       *)
(* buffer only; behind them stays what an earlier refill has left.          *)
(*                                                                          *)
(* libzip gives as many bytes as there are and fit.  The assertions are     *)
(* those of the default build; a failed one ends the program.               *)
(***************************************************************************)
EXTENDS Naturals, Sequences

CONSTANT BUFF_SIZE

ASSUME BufferAssumption == BUFF_SIZE \in Nat \ {0}

VARIABLES
  file,     \* the bytes of the file
  taken,    \* how many of them zip_fread has given
  buffer,
  current,  \* where in the buffer the next row begins
  last,     \* where the bytes of the latest refill end
  eof,
  prefix,   \* the part of the row from before the latest refill
  row,      \* the row that readLine has returned
  reader    \* "call", "scan", "returned", "failed"; "closed" when not reading

readerVars == <<file, taken, buffer, current, last, eof, prefix, row, reader>>

Newline == <<0, 0>>
Zero    == <<0, 1>>     \* what the buffer holds at first; any other is text

Positions == 0 .. BUFF_SIZE - 1

\* The bytes of the buffer from i up to, but not including, j.
Slice(i, j) == IF j <= i THEN <<>> ELSE [k \in 1 .. j - i |-> buffer[i + k - 1]]

Begin(bytes, state) ==
  /\ file = bytes /\ taken = 0
  /\ buffer = [i \in Positions |-> Zero]
  /\ current = 0 /\ last = 0 /\ eof = FALSE
  /\ prefix = <<>> /\ row = <<>> /\ reader = state

fopen(bytes) ==
  /\ file' = bytes /\ taken' = 0
  /\ buffer' = [i \in Positions |-> Zero]
  /\ current' = 0 /\ last' = 0 /\ eof' = FALSE
  /\ prefix' = <<>> /\ row' = <<>> /\ reader' = "call"

\* All the bytes of the buffer are used up, or there never were any.
UsedUp == current = BUFF_SIZE \/ last = 0

\* What zip_fread gives.
Given == IF Len(file) - taken < BUFF_SIZE THEN Len(file) - taken ELSE BUFF_SIZE

KeepBuffer ==
  /\ reader = "call" /\ ~UsedUp
  /\ reader' = "scan"
  /\ UNCHANGED <<file, taken, buffer, current, last, eof, prefix, row>>

Refill ==
  /\ reader = "call" /\ UsedUp /\ Given > 0
  /\ current' = 0 /\ last' = Given /\ taken' = taken + Given
  /\ buffer' = [i \in Positions |-> IF i < Given THEN file[taken + i + 1] ELSE buffer[i]]
  /\ reader' = "scan"
  /\ UNCHANGED <<file, eof, prefix, row>>

\* assert(file->last > 0)
NothingGiven ==
  /\ reader = "call" /\ UsedUp /\ Given = 0
  /\ reader' = "failed"
  /\ UNCHANGED <<file, taken, buffer, current, last, eof, prefix, row>>

\* Where the loop stops: at a newline, else at the end of the bytes given,
\* else at the end of the buffer.
Stops(i)  == i = BUFF_SIZE \/ i = last \/ buffer[i] = Newline
Stop      == CHOOSE i \in current..BUFF_SIZE :
               Stops(i) /\ \A j \in current..(i - 1) : ~Stops(j)
AtNewline == Stop < BUFF_SIZE /\ buffer[Stop] = Newline

\* Variant: the newline is not passed over.
ReturnRow_stays ==
  /\ reader = "scan" /\ AtNewline
  /\ row' = prefix \o Slice(current, Stop)
  /\ current' = Stop /\ prefix' = <<>> /\ reader' = "returned"
  /\ UNCHANGED <<file, taken, buffer, last, eof>>

ReturnRow ==
  /\ reader = "scan" /\ AtNewline
  /\ row' = prefix \o Slice(current, Stop)
  /\ current' = Stop + 1 /\ prefix' = <<>> /\ reader' = "returned"
  /\ UNCHANGED <<file, taken, buffer, last, eof>>

\* Variant: only the latest part of a row is kept.
GoOn_latest ==
  /\ reader = "scan" /\ Stop = BUFF_SIZE
  /\ prefix' = Slice(current, BUFF_SIZE)
  /\ current' = 0 /\ last' = 0 /\ reader' = "call"
  /\ UNCHANGED <<file, taken, buffer, eof, row>>

\* The recursive call, for the rest of a row that the buffer cuts.
GoOn ==
  /\ reader = "scan" /\ Stop = BUFF_SIZE
  /\ prefix' = prefix \o Slice(current, BUFF_SIZE)
  /\ current' = 0 /\ last' = 0 /\ reader' = "call"
  /\ UNCHANGED <<file, taken, buffer, eof, row>>

\* The end of the file; of a row without a newline the last byte is left out.
EndOfFile ==
  /\ reader = "scan" /\ Stop < BUFF_SIZE /\ ~AtNewline
  /\ eof' = TRUE /\ current' = Stop /\ prefix' = <<>>
  /\ row' = prefix \o Slice(current, Stop - 1)
  /\ reader' = "returned"
  /\ UNCHANGED <<file, taken, buffer, last>>

readLine == \/ KeepBuffer \/ Refill \/ NothingGiven
            \/ ReturnRow \/ GoOn \/ EndOfFile
-----------------------------------------------------------------------------
\* Ways to end at which readLine does not see the end of a file: with the
\* buffer full, or at a byte that holds a newline of the refill before.
FillsBuffer(f) == Len(f) % BUFF_SIZE = 0
StaleNewline(f) == Len(f) > BUFF_SIZE /\ ~FillsBuffer(f)
                   /\ f[Len(f) - BUFF_SIZE + 1] = Newline

\* assert(file->last > 0): the file is not read beyond its end.
LastIsPositive == reader # "failed"
=============================================================================
