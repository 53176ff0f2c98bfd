------------------------------- MODULE SpiSd -------------------------------
(***************************************************************************)
(* The SD reset test of the s32k: spiTask gives the card the clocks it      *)
(* needs to start and then sends it resets.  sendCommand builds the frame   *)
(* with its checksum, transfers it with room for the answer, and asserts    *)
(* that anything but idle bytes came back.                                  *)
(*                                                                          *)
(* External: the card.  It answers once it has had 74 clocks, if the        *)
(* checksum is the remainder of the frame by x^7 + x^3 + 1, after at most   *)
(* MaxWait idle bytes.  spiTask only ever passes the argument 0; the others *)
(* of Args exercise crc7.                                                   *)
(*                                                                          *)
(* A byte is the set of its bits that are 1, so that SymDiff is ^.          *)
(***************************************************************************)
EXTENDS Integers, Sequences, FiniteSetsExt

CONSTANTS Args, MaxWait

Byte == SUBSET (0 .. 7)

\* spitest.c:30 "NCR (0-8 bytes)".
ASSUME SpiSdAssumption == Args \subseteq [1 .. 4 -> Byte] /\ MaxWait \in 0 .. 8

SD_COMMAND_OFFSET == 1
SD_COMMAND_LEN == SD_COMMAND_OFFSET + 1 + 4 + 1 + 8 + 1 + 8

VARIABLES
    sdAt,       \* "power", "crc", "transfer", "scan", "pause", "failed", "silent"
    send,       \* the five bytes of the frame before the checksum
    byte, crc,  \* crc7: bytes done, checksum so far
    clocks,     \* (external) clocks the card has had
    response    \* the place of the answer in recv, or 0
sdVars == <<sdAt, send, byte, crc, clocks, response>>

Zero == {}
Index == {6}    \* BIT(6) | CMD(0)
SdInit ==
    /\ sdAt = "power" /\ \E arg \in Args : send = <<Index, arg[1], arg[2], arg[3], arg[4]>>
    /\ byte = 0 /\ crc = Zero /\ clocks = 0 /\ response = 0

Halt(place) == sdAt' = place /\ UNCHANGED <<send, byte, crc, clocks, response>>

\* 100/8 bytes are received; then a reset is sent, and again after a pause.
ResetClocks == 8 * (100 \div 8)
spiTask ==
    \/ /\ sdAt = "power" /\ sdAt' = "crc" /\ clocks' = clocks + ResetClocks
       /\ UNCHANGED <<send, byte, crc, response>>
    \/ sdAt = "power" /\ Halt("failed")
    \/ /\ sdAt = "pause" /\ sdAt' = "crc" /\ byte' = 0 /\ crc' = Zero /\ response' = 0
       /\ UNCHANGED <<send, clocks>>

ShiftRight(a, n) == {i \in 0 .. 7 : i + n \in a}
ShiftLeft(a, n) == {i \in 0 .. 7 : i - n \in a}   \* cut to the uint8_t it is assigned to

\* (mutant) the second shift of crc is one short
CrcStep_oneShort(c, data) ==
    LET e == SymDiff(c, data)
        f == SymDiff(SymDiff(e, ShiftRight(e, 4)), ShiftRight(e, 7)) IN SymDiff(ShiftLeft(f, 1), ShiftLeft(f, 3))
\* crc7 on eight bits: crc is kept shifted to the left by one.
CrcStep(c, data) ==
    LET e == SymDiff(c, data)
        f == SymDiff(SymDiff(e, ShiftRight(e, 4)), ShiftRight(e, 7)) IN SymDiff(ShiftLeft(f, 1), ShiftLeft(f, 4))
crc7 ==
    /\ sdAt = "crc" /\ byte < 5
    /\ byte' = byte + 1 /\ crc' = CrcStep(crc, send[byte + 1])
    /\ UNCHANGED <<sdAt, send, clocks, response>>

\* Division bit by bit: what is left, when the next bit is taken down.  The remainder is what
\* is left of the frame and seven zeros.
Divide(r, one) ==
    LET taken == {i \in 0 .. 7 : i - 1 \in r \/ (one /\ i = 0)} IN
    IF 7 \in taken THEN SymDiff(taken, {0, 3, 7}) ELSE taken
Divided(r, b) ==
    Divide(Divide(Divide(Divide(Divide(Divide(Divide(Divide(r, 7 \in b), 6 \in b), 5 \in b), 4 \in b),
        3 \in b), 2 \in b), 1 \in b), 0 \in b)
Remaining(r) ==
    Divide(Divide(Divide(Divide(Divide(Divide(Divide(
        r, FALSE), FALSE), FALSE), FALSE), FALSE), FALSE), FALSE)
Remainder(frame) ==
    Remaining(Divided(Divided(Divided(Divided(Divided(
        {}, frame[1]), frame[2]), frame[3]), frame[4]), frame[5]))

\* The frame goes out at once or byte by byte; the assertion stops the board at an error.
transfer ==
    /\ sdAt = "crc" /\ byte = 5
    /\ \/ /\ sdAt' = "scan"
          /\ IF clocks >= 74 /\ ShiftRight(crc, 1) = Remainder(send)
             THEN \E ncr \in 0..MaxWait : response' = SD_COMMAND_OFFSET + 6 + ncr
             ELSE response' = 0
          /\ UNCHANGED <<send, byte, crc, clocks>>
       \/ Halt("failed")

\* The part of recv that is searched for an answer.
Searched == SD_COMMAND_OFFSET + 5 .. SD_COMMAND_LEN - 1
sendCommand ==
    /\ sdAt = "scan"
    /\ sdAt' = IF response \in Searched THEN "pause" ELSE "silent"
    /\ UNCHANGED <<send, byte, crc, clocks, response>>

SdNext == spiTask \/ crc7 \/ transfer \/ sendCommand
SdSpec == SdInit /\ [][SdNext]_sdVars

-----------------------------------------------------------------------------
\* A card that works always answers: it has had its clocks, the checksum of the frame is
\* right, and the answer lies in the part of the buffer that is searched, so the
\* assertion for a silent card is never reached.
ResetAnswered == sdAt # "silent"
=============================================================================
