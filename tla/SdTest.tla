------------------------------- MODULE SdTest -------------------------------
(***************************************************************************)
(* The SD card test of the STM32 boards (src/src/stm32/sdtest.c).  A task  *)
(* identifies the card, reads the first 4 KiB, writes them back, reads     *)
(* them again and compares; it does so three times, the second time on a   *)
(* four bit bus and the third time with a fast clock.  Every call must     *)
(* succeed: a failing CONFIG_ASSERT stops the program for good.            *)
(*                                                                         *)
(* The test runs on cards that hold somebody's data: whatever fails, and   *)
(* wherever it stops, the card must keep what it held.                     *)
(*                                                                         *)
(* The card is outside the repository.  It is modelled as the state        *)
(* machine the commands of the test presuppose (the comments at lines 71   *)
(* to 87 name its modes).                                                  *)
(***************************************************************************)
EXTENDS Naturals

CONSTANTS Blocks,     \* number of blocks of 512 bytes in 4 KiB: data[]
          Contents,   \* what a block may hold
          Fill,       \* the block the memset of line 18 leaves: 0x42 ...
          Zero,       \* the block the C start-up leaves: 0x00 ...
          Addresses   \* the addresses a card may give itself (RCA)

ASSUME SdAssumption == /\ Blocks \in Nat \ {0}
                       /\ Fill \in Contents
                       /\ Zero \in Contents
                       /\ 0 \notin Addresses

Index   == 1..Blocks
Buffers == [Index -> Contents]
Fast    == {"stby", "tran", "data", "rcv", "prg"}

(* The states of a card, and what else the test changes in it. *)
States == {"idle", "ready", "ident"} \cup Fast
Cards  == [ state : States, app : BOOLEAN, rca : {0} \cup Addresses,
            wide : {1, 4}, powered : BOOLEAN, version2 : BOOLEAN,
            content : Buffers ]

VARIABLES
  pc,        \* the statement the task is at
  blk,       \* 0, or the block a transfer is at
  round,     \* which of the three calls of testReadWrite runs
  data,      \* data[]
  data2,     \* data2[]
  rca,       \* rca of sdtest_task
  wide,      \* the bus width of the controller: 1 or 4
  clock,     \* the clock of the controller: "400k" or "48M"
  card,      \* the card
  fault,     \* why the task stopped
  original   \* (ghost) what the card held at first

host == <<round, data, data2, rca, wide, clock>>
vars == <<pc, blk, host, card, fault, original>>

-----------------------------------------------------------------------------
(* The card. *)

AppCommands == {"ACMD41", "ACMD6"}

(* The states in which the card takes a command. *)
Accepts == [ CMD0   |-> States,
             CMD8   |-> {"idle"},   CMD55 |-> {"idle"} \cup Fast,
             ACMD41 |-> {"idle"},   CMD2  |-> {"ready"},
             CMD3   |-> {"ident"},  CMD7  |-> {"stby"},
             CMD18  |-> {"tran"},   CMD25 |-> {"tran"},
             CMD12  |-> {"data", "rcv"},
             ACMD6  |-> {"tran"} ]

(* The card takes the command: in this state, after CMD55 if it is one of  *)
(* the application, at a clock it can follow, and when it is addressed.    *)
Takes(cmd, arg) ==
  /\ card.state \in Accepts[cmd]
  /\ cmd \in AppCommands => card.app
  /\ card.state \notin Fast => clock = "400k"
  /\ cmd \in {"CMD7", "CMD55"} => arg = card.rca

(* Only a card of version 2.0 at 3.3 V knows CMD8 and echoes its pattern. *)
Suits(cmd) == cmd = "CMD8" => card.version2

(* The card has finished its power-up: bit 31 of the next answer to ACMD41.*)
PowerUp ==
  /\ ~card.powered
  /\ card' = [card EXCEPT !.powered = TRUE]
  /\ UNCHANGED <<pc, blk, host, fault, original>>

(* The card has programmed the blocks it received. *)
Programmed ==
  /\ card.state = "prg"
  /\ card' = [card EXCEPT !.state = "tran"]
  /\ UNCHANGED <<pc, blk, host, fault, original>>

-----------------------------------------------------------------------------
(* One call of the driver. *)

(* A CONFIG_ASSERT fails.  why is "card" when the card did not answer or   *)
(* does not suit the test, "test" when the test itself is at fault.        *)
Stop(why) ==
  /\ pc' = "stopped"
  /\ fault' = why
  /\ UNCHANGED <<blk, host, card, original>>

(* sd_sendCommand(sd, cmd, arg, ...) == 0 takes the card to state to; the  *)
(* task goes on at next.  No answer within 100 ms: the assertion fails.    *)
Command(at, cmd, arg, to, next) ==
  /\ pc = at
  /\ \/ /\ Takes(cmd, arg)
        /\ Suits(cmd)
        /\ card' = [card EXCEPT !.state = to, !.app = (cmd = "CMD55")]
        /\ pc' = next
        /\ UNCHANGED <<blk, host, fault, original>>
     \/ Stop(IF Takes(cmd, arg) THEN "card" ELSE "test")

(* The next block goes over the bus: only with one width at both ends. *)
Transfer(at, state, next) ==
  /\ pc = at
  /\ blk > 0
  /\ card.state = state
  /\ wide = card.wide
  /\ IF blk = Blocks THEN blk' = 0 /\ pc' = next
                     ELSE blk' = blk + 1 /\ UNCHANGED pc

(* sd_read and sd_write send their command, CMD(18) or CMD(25), first. *)
Begin(at, cmd, state) ==
  /\ pc = at
  /\ blk = 0
  /\ Takes(cmd, 0)
  /\ blk' = 1
  /\ card' = [card EXCEPT !.state = state, !.app = FALSE]
  /\ UNCHANGED <<pc, host, fault, original>>

(* A transfer fails, at the command or at any block. *)
Abort(at, cmd) ==
  /\ pc = at
  /\ Stop(IF (blk = 0 => Takes(cmd, 0)) /\ (blk > 0 => wide = card.wide)
          THEN "card" ELSE "test")

-----------------------------------------------------------------------------
(* sdtest_task: identification. *)

(* CMD0 takes the card back to its start, wherever it was left. *)
GoIdle ==
  /\ pc = "CMD0"
  /\ \/ /\ Takes("CMD0", 0)
        /\ card' = [card EXCEPT !.state = "idle", !.app = FALSE, !.rca = 0,
                               !.wide = 1]
        /\ pc' = "CMD8"
        /\ UNCHANGED <<blk, host, fault, original>>
     \/ Stop(IF Takes("CMD0", 0) THEN "card" ELSE "test")

Voltage  == Command("CMD8", "CMD8", 0, "idle", "CMD55")
AppOpen  == Command("CMD55", "CMD55", 0, "idle", "ACMD41")

(* ACMD41, asked again until bit 31 of the answer says the card is ready. *)
OpCond ==
  IF card.powered THEN Command("ACMD41", "ACMD41", 0, "ready", "CMD2")
                  ELSE Command("ACMD41", "ACMD41", 0, "idle", "CMD55")

AllCid   == Command("CMD2", "CMD2", 0, "ident", "CMD3")

(* CMD3: the card chooses its address, and the test keeps it. *)
GetAddress ==
  /\ pc = "CMD3"
  /\ \/ \E a \in Addresses :
          /\ Takes("CMD3", 0)
          /\ card' = [card EXCEPT !.state = "stby", !.app = FALSE, !.rca = a]
          /\ rca' = a
          /\ pc' = "CMD7"
          /\ UNCHANGED <<blk, round, data, data2, wide, clock, fault, original>>
     \/ Stop(IF Takes("CMD3", 0) THEN "card" ELSE "test")

Select   == Command("CMD7", "CMD7", rca, "tran", "prepare")

-----------------------------------------------------------------------------
(* testReadWrite. *)

(* sd_setBlockSize, a setting of the controller, and the memset of data. *)
Prepare ==
  /\ pc = "prepare"
  /\ \/ /\ data' = [i \in Index |-> Fill]
        /\ pc' = "read"
        /\ UNCHANGED <<blk, round, data2, rca, wide, clock, card, fault, original>>
     \/ Stop("card")

\* (mutant) the result of the first sd_read is not checked
Read_unchecked ==
  \/ Begin("read", "CMD18", "data")
  \/ /\ Transfer("read", "data", "stop_read")
     /\ data' = [data EXCEPT ![blk] = card.content[blk]]
     /\ UNCHANGED <<round, data2, rca, wide, clock, card, fault, original>>
  \/ /\ pc = "read" /\ blk > 0
     /\ pc' = "stop_read" /\ blk' = 0
     /\ UNCHANGED <<host, card, fault, original>>

Read ==
  \/ Begin("read", "CMD18", "data")
  \/ /\ Transfer("read", "data", "stop_read")
     /\ data' = [data EXCEPT ![blk] = card.content[blk]]
     /\ UNCHANGED <<round, data2, rca, wide, clock, card, fault, original>>
  \/ Abort("read", "CMD18")

StopRead == Command("stop_read", "CMD12", 0, "tran", "write")

WriteBack ==
  \/ Begin("write", "CMD25", "rcv")
  \/ /\ Transfer("write", "rcv", "stop_write")
     /\ card' = [card EXCEPT !.content[blk] = data[blk]]
     /\ UNCHANGED <<host, fault, original>>
  \/ Abort("write", "CMD25")

StopWrite == Command("stop_write", "CMD12", 0, "prg", "delay")

(* vTaskDelay: 500 ms, taken to be longer than a card programs. *)
Delay ==
  /\ pc = "delay"
  /\ card.state # "prg"
  /\ pc' = "read_again"
  /\ UNCHANGED <<blk, host, card, fault, original>>

ReadAgain ==
  \/ Begin("read_again", "CMD18", "data")
  \/ /\ Transfer("read_again", "data", "stop_again")
     /\ data2' = [data2 EXCEPT ![blk] = card.content[blk]]
     /\ UNCHANGED <<round, data, rca, wide, clock, card, fault, original>>
  \/ Abort("read_again", "CMD18")

StopAgain == Command("stop_again", "CMD12", 0, "tran", "compare")

\* (mutant) the third round starts the second one again
Compare_again ==
  /\ pc = "compare"
  /\ IF data # data2
     THEN Stop("test")
     ELSE /\ pc' = IF round = 1 THEN "CMD55_rca" ELSE "clock"
          /\ round' = 2
          /\ UNCHANGED <<blk, data, data2, rca, wide, clock, card, fault, original>>

\* (mutant) the round is counted on past the third
Compare_on ==
  /\ pc = "compare"
  /\ pc' = CASE round = 1 -> "CMD55_rca"
              [] round = 2 -> "clock"
              [] OTHER     -> "suspended"
  /\ round' = round + 1
  /\ UNCHANGED <<blk, data, data2, rca, wide, clock, card, fault, original>>

(* memcmp, and the way on in sdtest_task. *)
Compare ==
  /\ pc = "compare"
  /\ IF data # data2
     THEN Stop("test")
     ELSE /\ pc' = CASE round = 1 -> "CMD55_rca"
                     [] round = 2 -> "clock"
                     [] round = 3 -> "suspended"
          /\ round' = IF round = 3 THEN 3 ELSE round + 1
          /\ UNCHANGED <<blk, data, data2, rca, wide, clock, card, fault, original>>

-----------------------------------------------------------------------------
(* sdtest_task: the wide bus and the fast clock. *)

AppWide  == Command("CMD55_rca", "CMD55", rca, "tran", "ACMD6")

CardWide ==
  /\ pc = "ACMD6"
  /\ \/ /\ Takes("ACMD6", 2)
        /\ card' = [card EXCEPT !.app = FALSE, !.wide = 4]
        /\ pc' = "wide"
        /\ UNCHANGED <<blk, host, fault, original>>
     \/ Stop(IF Takes("ACMD6", 2) THEN "card" ELSE "test")

\* (mutant) the controller is left at one bit
BusWide_left ==
  /\ pc = "wide"
  /\ pc' = "prepare"
  /\ UNCHANGED <<blk, host, card, fault, original>>

BusWide ==
  /\ pc = "wide"
  /\ \/ /\ wide' = 4
        /\ pc' = "prepare"
        /\ UNCHANGED <<blk, round, data, data2, rca, clock, card, fault, original>>
     \/ Stop("card")

SetClock ==
  /\ pc = "clock"
  /\ \/ /\ clock' = "48M"
        /\ pc' = "prepare"
        /\ UNCHANGED <<blk, round, data, data2, rca, wide, card, fault, original>>
     \/ Stop("card")

-----------------------------------------------------------------------------
(* sdtest_init, before the scheduler starts: 400 kHz, one bit.  The card   *)
(* was just powered, or is in whatever state a reset of the board in the   *)
(* middle of an earlier test left it in.                                   *)
Init ==
  /\ pc = "CMD0"
  /\ blk = 0
  /\ round = 1
  /\ data = [i \in Index |-> Zero]
  /\ data2 = data
  /\ rca = 0
  /\ wide = 1
  /\ clock = "400k"
  /\ original \in Buffers
  /\ card \in Cards
  /\ card.state \in {"idle"} \cup Fast
  /\ card.content = original
  /\ fault = "none"

Task ==
  \/ GoIdle \/ Voltage \/ AppOpen \/ OpCond \/ AllCid \/ GetAddress \/ Select
  \/ Prepare \/ Read \/ StopRead \/ WriteBack \/ StopWrite \/ Delay
  \/ ReadAgain \/ StopAgain \/ Compare
  \/ AppWide \/ CardWide \/ BusWide \/ SetClock

(* vTaskSuspend(NULL), or the endless loop of a failed assertion. *)
Ended == pc \in {"suspended", "stopped"} /\ UNCHANGED vars

Next == Task \/ PowerUp \/ Programmed \/ Ended

Spec == Init /\ [][Next]_vars

(* The task has nothing of a higher priority to wait for, and a card ends  *)
(* its power-up and its programming.                                       *)
FairSpec == Spec /\ WF_vars(Task) /\ WF_vars(PowerUp) /\ WF_vars(Programmed)

-----------------------------------------------------------------------------
Identifying == {"CMD0", "CMD8", "CMD55", "ACMD41", "CMD2", "CMD3"}
Testing     == {"prepare", "read", "stop_read", "write", "stop_write", "delay",
                "read_again", "stop_again", "compare"}
Setting     == {"CMD55_rca", "ACMD6", "wide", "clock"}
Labels      == Identifying \cup {"CMD7"} \cup Testing \cup Setting
                 \cup {"suspended", "stopped"}

(* The type invariant: every variable keeps its type and range. *)
TypeOK ==
  /\ pc \in Labels
  /\ blk \in 0..Blocks
  /\ round \in 1..3
  /\ data \in Buffers
  /\ data2 \in Buffers
  /\ rca \in {0} \cup Addresses
  /\ wide \in {1, 4}
  /\ clock \in {"400k", "48M"}
  /\ card \in Cards
  /\ fault \in {"none", "card", "test"}
  /\ original \in Buffers

(* The card holds at every moment what it held before the test, also when  *)
(* the test stops in the middle of a transfer: only blocks read without an *)
(* error are written, to where they came from (lines 18 to 33).            *)
ContentKept == card.content = original

(* Only a card that does not answer or does not suit stops the test: no    *)
(* command meets a card in a state, at a clock or on a width that refuses  *)
(* it, and the comparison of line 42 never fails (lines 53 to 107).        *)
NeverOwnFault == fault # "test"

(* The test comes to an end: the loop around ACMD41 ends with the power-up *)
(* of the card, and no command waits for ever (lines 70 to 108).           *)
TestEnds == <>(pc \in {"suspended", "stopped"})

-----------------------------------------------------------------------------
(* The inductive invariant behind ContentKept and NeverOwnFault. *)

(* What the controller and the task know of the card. *)
CardAsExpected ==
  /\ pc \in {"CMD8", "CMD55", "ACMD41"} => card.state = "idle"
  /\ pc \in {"ACMD41", "ACMD6"} => card.app
  /\ pc = "CMD2" => card.state = "ready"
  /\ pc = "CMD3" => card.state = "ident"
  /\ pc = "CMD7" => card.state = "stby"
  /\ pc \in {"prepare", "compare"} \cup Setting => card.state = "tran"
  /\ pc \in {"read", "read_again"} =>
       card.state = IF blk = 0 THEN "tran" ELSE "data"
  /\ pc = "write" => card.state = IF blk = 0 THEN "tran" ELSE "rcv"
  /\ pc \in {"stop_read", "stop_again"} => card.state = "data"
  /\ pc = "stop_write" => card.state = "rcv"
  /\ pc = "delay" => card.state \in {"prg", "tran"}
  /\ pc \in Identifying => clock = "400k"
  /\ pc \in Identifying \ {"CMD0"} => card.rca = 0
  /\ pc \in {"CMD7"} \cup Testing \cup Setting => card.state \in Fast /\ rca = card.rca
  /\ pc \in (Identifying \ {"CMD0"}) \cup {"CMD7"} \cup Testing => wide = card.wide
  /\ pc \in Identifying => wide = 1
  /\ pc \in Setting \ {"wide"} => wide = card.wide
  /\ pc = "wide" => card.wide = 4
  /\ blk > 0 => pc \in {"read", "write", "read_again", "stopped"}

(* Which parts of the two buffers hold the blocks of the card. *)
Copied ==
  /\ pc = "read" => \A i \in Index : i < blk => data[i] = original[i]
  /\ pc \in Testing \ {"prepare", "read"} => data = original
  /\ pc = "read_again" => \A i \in Index : i < blk => data2[i] = original[i]
  /\ pc \in {"stop_again", "compare"} => data2 = original

(* The inductive invariant of SdTestProofs: content and buffers agree,      *)
(* and the card is in the state the next command of sdtest_task needs       *)
(* (lines 12 to 107).                                                       *)
IInv == TypeOK /\ ContentKept /\ NeverOwnFault /\ CardAsExpected /\ Copied
=============================================================================
