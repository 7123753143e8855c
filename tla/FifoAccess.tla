----------------------------- MODULE FifoAccess -----------------------------
(***************************************************************************)
(* Packets between the endpoint FIFOs and the memory of the driver.        *)
(*                                                                         *)
(* The chip moves 16 bits at a time and the buffers of the driver are      *)
(* bytes, so every function of HAL4D13.c splits or joins words itself: the *)
(* three that read stop in the middle of a word when the length is odd, the*)
(* two that write need a byte that is not there.  Here a function is called*)
(* with any packet and any length, and each access to the data port is a   *)
(* step.                                                                   *)
(*                                                                         *)
(* Every byte of every packet is a number of its own, so that a byte out of*)
(* place or out of an earlier packet is seen wherever it appears.          *)
(***************************************************************************)
EXTENDS Integers

CONSTANTS
  FifoSize,      \* bytes of an endpoint FIFO (64 in the code)
  MaxRounds      \* bound: packets the host sends

ASSUME FifoAssumption ==
  /\ FifoSize \in Nat \ {0} /\ FifoSize % 2 = 0
  /\ MaxRounds \in Nat

VARIABLES
  pc,            \* "idle", "full", "read", "have", "write", "sent"
  round,         \* packets the host has sent
  size,          \* bytes of the last of them
  i, j,          \* the variables of the functions
  len,           \* the length they are called with
  buf,           \* the buffer of the driver, and the byte behind it
  before,        \* what it held when a read was called (specification only)
  bulk,          \* 1 in WriteBulkEndpoint, 0 in WriteEndpoint
  fifo,          \* the words in the FIFO of the IN endpoint, as bytes
  words          \* how many they are

fifoVars == <<pc, round, size, i, j, len, buf, before, bulk, fifo, words>>
-----------------------------------------------------------------------------
Lengths == 0..FifoSize
Cells == 0..FifoSize
Slots == 0..FifoSize + 1

\* Byte k of the packet of a round, the zero of an empty upper half, and what
\* memory holds before.
Byte(r, k) == r * FifoSize + k
Zero == -1
Stale == -2

Smaller(a, b) == IF a > b THEN b ELSE a

\* A word in the FIFO is two bytes, the low one first.
Put(low, high) == [fifo EXCEPT ![2 * words] = low, ![2 * words + 1] = high]

FifoTypeOK ==
  /\ pc \in {"idle", "full", "read", "have", "write", "sent"}
  /\ round \in Nat /\ size \in Lengths /\ len \in Lengths
  /\ i \in 0..FifoSize + 1 /\ j \in Lengths
  /\ buf \in [Cells -> Int] /\ before \in [Cells -> Int]
  /\ bulk \in {0, 1}
  /\ fifo \in [Slots -> Int]
  /\ words \in 0..FifoSize \div 2 + 1

FifoInit ==
  /\ pc = "idle" /\ round = 0 /\ size = 0 /\ i = 0 /\ j = 0 /\ len = 0
  /\ buf = [k \in Cells |-> Stale] /\ before = buf
  /\ bulk = 0
  /\ fifo = [k \in Slots |-> Stale] /\ words = 0

\* The host sends a packet of any size that fits.
HostSends ==
  /\ pc = "idle" /\ round < MaxRounds
  /\ pc' = "full" /\ round' = round + 1
  /\ size' \in Lengths
  /\ UNCHANGED <<i, j, len, buf, before, bulk, fifo, words>>
-----------------------------------------------------------------------------
(* Hal4D13_ReadEndpoint, ReadBulkEndpoint, ReadEndpointWOClearBuffer *)

\* The command and the length word.
ReadLength(limit) == Smaller(size, limit)
ReadEndpoint ==
  /\ pc = "full"
  /\ len' \in Lengths
  /\ j' = ReadLength(len')
  /\ i' = 0
  /\ pc' = "read" /\ before' = buf
  /\ UNCHANGED <<round, size, buf, bulk, fifo, words>>

\* One word: its upper byte is left when the packet has ended with the lower.
Taken_WrongBreak(b) == [b EXCEPT ![i] = Byte(round, i), ![i + 1] = Byte(round, i + 1)]
Taken(b) ==
  IF i + 1 >= j THEN [b EXCEPT ![i] = Byte(round, i)]
  ELSE [b EXCEPT ![i] = Byte(round, i), ![i + 1] = Byte(round, i + 1)]
ReadWord ==
  /\ pc = "read" /\ i < j
  /\ buf' = Taken(buf)
  /\ i' = IF i + 1 >= j THEN i + 1 ELSE i + 2
  /\ UNCHANGED <<pc, round, size, j, len, before, bulk, fifo, words>>

\* The buffer of the endpoint is cleared, with whatever was not read.
EndRead ==
  /\ pc = "read" /\ i >= j
  /\ pc' = "have"
  /\ UNCHANGED <<round, size, i, j, len, buf, before, bulk, fifo, words>>
-----------------------------------------------------------------------------
(* Hal4D13_WriteEndpoint, Hal4D13_WriteBulkEndpoint *)

\* The command and the length word; an empty packet still gets a word.
WriteLength_WrongAlways ==
  /\ pc = "have"
  /\ bulk' \in {0, 1}
  /\ len' \in Lengths
  /\ i' = 0
  /\ words' = 1
  /\ fifo' = [k \in Slots |-> IF k < 2 THEN Zero ELSE Stale]
  /\ pc' = "write"
  /\ UNCHANGED <<round, size, j, buf, before>>
WriteLength ==
  /\ pc = "have"
  /\ bulk' \in {0, 1}
  /\ len' \in Lengths
  /\ i' = 0
  /\ words' = IF len' = 0 THEN 1 ELSE 0
  /\ fifo' = [k \in Slots |-> IF len' = 0 /\ k < 2 THEN Zero ELSE Stale]
  /\ pc' = "write"
  /\ UNCHANGED <<round, size, j, buf, before>>

\* WriteEndpoint writes the last byte of an odd packet as a word of its own,
\* then again with the byte behind the packet.
WriteWord ==
  /\ pc = "write" /\ bulk = 0 /\ i < len
  /\ IF i + 1 >= len
     THEN /\ fifo' = [Put(buf[i], Zero) EXCEPT ![2 * words + 2] = buf[i], ![2 * words + 3] = buf[i + 1]]
          /\ words' = words + 2
     ELSE /\ fifo' = Put(buf[i], buf[i + 1])
          /\ words' = words + 1
  /\ i' = i + 2
  /\ UNCHANGED <<pc, round, size, j, len, buf, before, bulk>>

\* WriteBulkEndpoint writes it once, with the byte behind the packet.
WriteBulkWord_WrongLow ==
  /\ pc = "write" /\ bulk = 1 /\ i < len
  /\ fifo' = Put(buf[i + 1], buf[i])
  /\ words' = words + 1
  /\ i' = i + 2
  /\ UNCHANGED <<pc, round, size, j, len, buf, before, bulk>>
WriteBulkWord ==
  /\ pc = "write" /\ bulk = 1 /\ i < len
  /\ fifo' = Put(buf[i], buf[i + 1])
  /\ words' = words + 1
  /\ i' = i + 2
  /\ UNCHANGED <<pc, round, size, j, len, buf, before, bulk>>

\* The buffer of the endpoint is validated.
EndWrite ==
  /\ pc = "write" /\ i >= len
  /\ pc' = "sent"
  /\ UNCHANGED <<round, size, i, j, len, buf, before, bulk, fifo, words>>

\* The host has read the packet.
HostReceives ==
  /\ pc = "sent"
  /\ pc' = "idle"
  /\ UNCHANGED <<round, size, i, j, len, buf, before, bulk, fifo, words>>

FifoNext == \/ HostSends \/ ReadEndpoint \/ ReadWord \/ EndRead
        \/ WriteLength \/ WriteWord \/ WriteBulkWord \/ EndWrite \/ HostReceives

FifoSpec == FifoInit /\ [][FifoNext]_fifoVars
-----------------------------------------------------------------------------
(* Properties *)

\* A read takes as much of the packet as there is and as the caller has room
\* for, each byte in its place, and leaves the rest of the buffer alone even
\* if it stopped in the middle of a word.
PacketTaken ==
  pc = "have" =>
    buf = [k \in Cells |-> IF k < Smaller(size, len) THEN Byte(round, k) ELSE before[k]]

\* The packet the host gets is the first len bytes of the buffer, whichever
\* function wrote it and however it filled up the last word.
PacketGiven == pc = "sent" => \A k \in Cells : k < len => fifo[k] = buf[k]

\* The words written fit into the FIFO, except in one case: WriteEndpoint
\* writes a word more than an odd packet has, which for a packet of one byte
\* less than the FIFO is a word too many.
FifoFits ==
  pc \in {"write", "sent"} => 2 * words <= FifoSize \/ (bulk = 0 /\ len = FifoSize - 1)
=============================================================================
