--------------------------- MODULE SRecordLoader ---------------------------
(***************************************************************************)
(* The boot loader (bootloader/main.c): it reads lines from the UART, puts *)
(* the payload of every S3 record into code or data memory and jumps to the*)
(* code at an S7 record.  Its counters are 8 bits wide, int8_t or uint8_t. *)
(*                                                                         *)
(* A byte of the payload is its record and its place there.                *)
(***************************************************************************)
EXTENDS Integers, Sequences, FiniteSets, SequencesExt

CONSTANTS
  MaxLines,              \* bound: lines of an image before the S7 record
  Lines,                 \* lines an image may have
  SCARTS_CODEMEM_LMA,    \* where code memory starts, data memory is below
  CodeSize               \* bound: words of code memory

ASSUME LoaderAssumption == /\ MaxLines \in Nat /\ CodeSize \in Nat
                           /\ SCARTS_CODEMEM_LMA \in Nat
                           /\ SCARTS_CODEMEM_LMA % 2 = 0

VARIABLES
  image,          \* the lines sent so far
  phase,          \* "read", "code", "data" or "jumped"
  i, payload_offset, payload_num_bytes, address,
  codemem, datamem

loaderVars == <<image, phase, i, payload_offset, payload_num_bytes, address,
                codemem, datamem>>
-----------------------------------------------------------------------------
SREC_MAX_LINE_LEN == 80
SREC_FIELD_ADDRESS_OFFSET == 4
SREC_FIELD_CHECKSUM_LEN == 2
AddressLength == 8
PayloadStart == SREC_FIELD_ADDRESS_OFFSET + AddressLength

CodeWords == 0..CodeSize - 1
DataBytes == 0..SCARTS_CODEMEM_LMA - 1

\* A line: whether it starts with an S, its type, the address and number of
\* bytes of its payload, and its length in characters.
Line(starts, type, addr, bytes) ==
  [starts |-> starts, type |-> type, address |-> addr, bytes |-> bytes,
   size |-> PayloadStart + 2 * bytes + SREC_FIELD_CHECKSUM_LEN]

\* What the tool chain writes: lines that fit the buffer, code in whole words.
Written(l) ==
  /\ l = Line(l.starts, l.type, l.address, l.bytes)
  /\ l.starts \in BOOLEAN /\ l.type \in 0..9 /\ l.address \in Nat /\ l.bytes \in Nat
  /\ l.size <= SREC_MAX_LINE_LEN
  /\ l.type = 3 /\ l.address >= SCARTS_CODEMEM_LMA
       => l.address % 2 = 0 /\ l.bytes % 2 = 0
ASSUME LineAssumption == \A l \in Lines : Written(l)

Terminator == Line(TRUE, 7, 0, 0)

LoaderInit ==
  /\ image = <<>> /\ phase = "read"
  /\ i = 0 /\ payload_offset = 0 /\ payload_num_bytes = 0 /\ address = 0
  /\ codemem = [w \in CodeWords |-> <<<<>>, <<>>>>] /\ datamem = [a \in DataBytes |-> <<>>]
-----------------------------------------------------------------------------
Current == image[Len(image)]

\* buffer[offset] and the character after it.
Byte(offset) ==
  LET place == (offset - PayloadStart) \div 2
  IN IF offset >= PayloadStart /\ offset + 1 < Current.size /\ place < Current.bytes
     THEN <<Len(image), place>> ELSE <<>>

PayloadBytes_WrongSkip(size) ==
  IF size >= PayloadStart + 4 THEN (size - PayloadStart - 4) \div 2
  ELSE (256 - (PayloadStart + 4 - size) \div 2) % 256

\* Division truncates towards 0 and the result is a uint8_t.
PayloadBytes(size) ==
  LET all == PayloadStart + SREC_FIELD_CHECKSUM_LEN
  IN IF size >= all THEN (size - all) \div 2 ELSE (256 - (all - size) \div 2) % 256

Int8(n) == IF n > 127 THEN n - 256 ELSE n

\* Only S3 and S7 records do anything; length and checksum are not looked at.
ReadLine ==
  /\ phase = "read" /\ Len(image) <= MaxLines
  /\ \E r \in IF Len(image) < MaxLines THEN Lines \cup {Terminator} ELSE {Terminator} :
         /\ image' = Append(image, r)
         /\ CASE r.starts /\ r.type = 3 ->
                   /\ phase' = IF r.address >= SCARTS_CODEMEM_LMA THEN "code" ELSE "data"
                   /\ address' = IF r.address >= SCARTS_CODEMEM_LMA
                                 THEN (r.address - SCARTS_CODEMEM_LMA) \div 2 ELSE r.address
                   /\ payload_offset' = PayloadStart
                   /\ payload_num_bytes' = PayloadBytes(r.size)
                   /\ i' = 0
              [] r.starts /\ r.type = 7 ->
                   /\ phase' = "jumped"
                   /\ UNCHANGED <<address, payload_offset, payload_num_bytes, i>>
              [] OTHER -> UNCHANGED <<phase, address, payload_offset, payload_num_bytes, i>>
  /\ UNCHANGED <<codemem, datamem>>

Advance(bytes) ==
  /\ payload_offset' = (payload_offset + 2 * bytes) % 256
  /\ i' = Int8(i + 1)
  /\ UNCHANGED <<image, phase, address, payload_num_bytes>>

\* What lies outside the bounds of the memories is left out.
program_codemem_WrongOrder ==
  /\ phase = "code" /\ i < payload_num_bytes \div 2
  /\ codemem' = [w \in CodeWords |-> IF w = address + i
                   THEN <<Byte(payload_offset + 2), Byte(payload_offset)>> ELSE codemem[w]]
  /\ Advance(2)
  /\ UNCHANGED datamem

program_codemem ==
  /\ phase = "code" /\ i < payload_num_bytes \div 2
  /\ codemem' = [w \in CodeWords |-> IF w = address + i
                   THEN <<Byte(payload_offset), Byte(payload_offset + 2)>> ELSE codemem[w]]
  /\ Advance(2)
  /\ UNCHANGED datamem

program_datamem ==
  /\ phase = "data" /\ i < payload_num_bytes
  /\ datamem' = [a \in DataBytes |-> IF a = address + i
                   THEN Byte(payload_offset) ELSE datamem[a]]
  /\ Advance(1)
  /\ UNCHANGED codemem

EndOfRecord ==
  /\ \/ phase = "code" /\ i >= payload_num_bytes \div 2
     \/ phase = "data" /\ i >= payload_num_bytes
  /\ phase' = "read"
  /\ UNCHANGED <<image, i, payload_offset, payload_num_bytes, address, codemem, datamem>>

LoaderNext == ReadLine \/ program_codemem \/ program_datamem \/ EndOfRecord

\* The sender goes on to the S7 record.
LoaderSpec == LoaderInit /\ [][LoaderNext]_loaderVars /\ WF_loaderVars(LoaderNext)
-----------------------------------------------------------------------------
(* Properties *)

\* What an image says of an address: the byte of the last record that covers
\* it, counted from the start of code memory or of data memory.
Says(a, code) ==
  LET covers == {k \in 1..Len(image) :
                   /\ image[k].starts /\ image[k].type = 3
                   /\ (image[k].address >= SCARTS_CODEMEM_LMA) = code
                   /\ a \in image[k].address..image[k].address + image[k].bytes - 1}
  IN IF covers = {} THEN <<>> ELSE LET k == Max(covers) IN <<k, a - image[k].address>>

\* When the loader jumps, every byte and every word of code is where the image
\* says, low byte first, and nothing else has been written.
LoadedRight ==
  phase = "jumped" =>
    /\ \A a \in DataBytes : datamem[a] = Says(a, FALSE)
    /\ \A w \in CodeWords : codemem[w] = <<Says(SCARTS_CODEMEM_LMA + 2 * w, TRUE),
                                          Says(SCARTS_CODEMEM_LMA + 2 * w + 1, TRUE)>>

\* An image of whole lines is loaded and started, however long and in whatever
\* order they are (a line cut on the way is not Written): no counter of 8 bits
\* keeps a loop from ending.
LoaderJumps == <>(phase = "jumped")
=============================================================================
