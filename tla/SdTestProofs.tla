---------------------------- MODULE SdTestProofs ----------------------------
(***************************************************************************)
(* The SD card test keeps what the card holds, and never fails by its own  *)
(* doing: proofs for every number of blocks, every content of the card and *)
(* every address it may choose.                                            *)
(***************************************************************************)
EXTENDS SdTest, TLAPS

(* An answered command changes the card and the place of the task; an      *)
(* unanswered one stops the task.                                          *)
LEMMA CommandStep ==
  ASSUME card \in Cards, NEW at, NEW cmd, NEW arg, NEW to \in States, NEW next,
         Takes(cmd, arg), Command(at, cmd, arg, to, next)
  PROVE  \/ /\ pc = at /\ pc' = next
            /\ card' \in Cards /\ card'.state = to
            /\ card'.app = (cmd = "CMD55")
            /\ card'.rca = card.rca /\ card'.wide = card.wide
            /\ card'.content = card.content
            /\ UNCHANGED <<blk, host, fault, original>>
         \/ Stop("card")
<1>1. CASE Stop("card")
  BY <1>1
<1>2. CASE ~Stop("card")
  <2>1. /\ pc = at /\ pc' = next
        /\ card' = [card EXCEPT !.state = to, !.app = (cmd = "CMD55")]
        /\ UNCHANGED <<blk, host, fault, original>>
    BY <1>2 DEF Command
  <2>2. PICK a \in BOOLEAN : a = (cmd = "CMD55")
    OBVIOUS
  <2>4. card' = [card EXCEPT !.state = to, !.app = a]
    BY <2>1, <2>2
  <2>3. /\ card' \in Cards /\ card'.state = to /\ card'.app = a
        /\ card'.rca = card.rca /\ card'.wide = card.wide
        /\ card'.content = card.content
    BY <2>4 DEF Cards
  <2> QED
    BY <2>1, <2>2, <2>3
<1> QED
  BY <1>1, <1>2

(* A failing assertion that is the card's fault keeps the invariant: it    *)
(* touches neither the card nor the buffers.                               *)
LEMMA StopKeeps ==
  ASSUME IInv, Stop("card")
  PROVE  IInv'
BY DEF Stop, IInv, TypeOK, ContentKept, NeverOwnFault, CardAsExpected, Copied,
       Labels, Identifying, Testing, Setting, Index, Buffers, Fast, host

(* sdtest_task, the commands that only move the card on. *)
LEMMA CommandsKeep ==
  ASSUME IInv,
         \/ Voltage \/ AppOpen \/ OpCond \/ AllCid \/ Select
         \/ StopRead \/ StopWrite \/ StopAgain \/ AppWide
  PROVE  IInv'
<1> USE SdAssumption
<1>0. card \in Cards
  BY DEF IInv, TypeOK
<1>1. CASE Voltage
  <2>1. pc = "CMD8" /\ Command("CMD8", "CMD8", 0, "idle", "CMD55")
    BY <1>1 DEF Voltage, Command, Stop
  <2>2. Takes("CMD8", 0)
    BY <2>1 DEF IInv, CardAsExpected, Identifying, Testing, Setting, Fast,
           Takes, Accepts, AppCommands, States
  <2>3. \/ /\ pc' = "CMD55"
            /\ card' \in Cards /\ card'.state = "idle"
            /\ card'.rca = card.rca /\ card'.wide = card.wide
            /\ card'.content = card.content
            /\ UNCHANGED <<blk, host, fault, original>>
         \/ Stop("card")
    BY <1>0, <2>1, <2>2, CommandStep DEF States, Fast
  <2> QED
    BY <2>1, <2>3, StopKeeps
    DEF IInv, TypeOK, ContentKept, NeverOwnFault, CardAsExpected, Copied,
           Labels, Identifying, Testing, Setting, Index, Buffers, Fast, host
<1>2. CASE AppOpen
  <2>1. pc = "CMD55" /\ Command("CMD55", "CMD55", 0, "idle", "ACMD41")
    BY <1>2 DEF AppOpen, Command, Stop
  <2>2. Takes("CMD55", 0)
    BY <2>1 DEF IInv, CardAsExpected, Identifying, Testing, Setting, Fast,
           Takes, Accepts, AppCommands, States
  <2>3. \/ /\ pc' = "ACMD41"
            /\ card' \in Cards /\ card'.state = "idle"
            /\ card'.app
            /\ card'.rca = card.rca /\ card'.wide = card.wide
            /\ card'.content = card.content
            /\ UNCHANGED <<blk, host, fault, original>>
         \/ Stop("card")
    BY <1>0, <2>1, <2>2, CommandStep DEF States, Fast
  <2> QED
    BY <2>1, <2>3, StopKeeps
    DEF IInv, TypeOK, ContentKept, NeverOwnFault, CardAsExpected, Copied,
           Labels, Identifying, Testing, Setting, Index, Buffers, Fast, host
<1>3. CASE OpCond
  <2>1. PICK to \in States, next \in {"CMD2", "CMD55"} :
          /\ Command("ACMD41", "ACMD41", 0, to, next)
          /\ to = IF next = "CMD2" THEN "ready" ELSE "idle"
    BY <1>3 DEF OpCond, States
  <2>2. pc = "ACMD41" /\ Command("ACMD41", "ACMD41", 0, to, next)
    BY <2>1 DEF Command, Stop
  <2>3. Takes("ACMD41", 0)
    BY <2>2 DEF IInv, CardAsExpected, Identifying, Testing, Setting, Fast,
           Takes, Accepts, AppCommands, States
  <2>4. \/ /\ pc' = next
            /\ card' \in Cards /\ card'.state = to
            /\ card'.rca = card.rca /\ card'.wide = card.wide
            /\ card'.content = card.content
            /\ UNCHANGED <<blk, host, fault, original>>
         \/ Stop("card")
    BY <1>0, <2>2, <2>3, CommandStep DEF States, Fast
  <2> QED
    BY <2>1, <2>2, <2>4, StopKeeps
    DEF IInv, TypeOK, ContentKept, NeverOwnFault, CardAsExpected, Copied,
           Labels, Identifying, Testing, Setting, Index, Buffers, Fast, host
<1>4. CASE AllCid
  <2>1. pc = "CMD2" /\ Command("CMD2", "CMD2", 0, "ident", "CMD3")
    BY <1>4 DEF AllCid, Command, Stop
  <2>2. Takes("CMD2", 0)
    BY <2>1 DEF IInv, CardAsExpected, Identifying, Testing, Setting, Fast,
           Takes, Accepts, AppCommands, States
  <2>3. \/ /\ pc' = "CMD3"
            /\ card' \in Cards /\ card'.state = "ident"
            /\ card'.rca = card.rca /\ card'.wide = card.wide
            /\ card'.content = card.content
            /\ UNCHANGED <<blk, host, fault, original>>
         \/ Stop("card")
    BY <1>0, <2>1, <2>2, CommandStep DEF States, Fast
  <2> QED
    BY <2>1, <2>3, StopKeeps
    DEF IInv, TypeOK, ContentKept, NeverOwnFault, CardAsExpected, Copied,
           Labels, Identifying, Testing, Setting, Index, Buffers, Fast, host
<1>5. CASE Select
  <2>1. pc = "CMD7" /\ Command("CMD7", "CMD7", rca, "tran", "prepare")
    BY <1>5 DEF Select, Command, Stop
  <2>2. Takes("CMD7", rca)
    BY <2>1 DEF IInv, CardAsExpected, Identifying, Testing, Setting, Fast,
           Takes, Accepts, AppCommands, States
  <2>3. \/ /\ pc' = "prepare"
            /\ card' \in Cards /\ card'.state = "tran"
            /\ card'.rca = card.rca /\ card'.wide = card.wide
            /\ card'.content = card.content
            /\ UNCHANGED <<blk, host, fault, original>>
         \/ Stop("card")
    BY <1>0, <2>1, <2>2, CommandStep DEF States, Fast
  <2> QED
    BY <2>1, <2>3, StopKeeps
    DEF IInv, TypeOK, ContentKept, NeverOwnFault, CardAsExpected, Copied,
           Labels, Identifying, Testing, Setting, Index, Buffers, Fast, host
<1>6. CASE StopRead
  <2>1. pc = "stop_read" /\ Command("stop_read", "CMD12", 0, "tran", "write")
    BY <1>6 DEF StopRead, Command, Stop
  <2>2. Takes("CMD12", 0)
    BY <2>1 DEF IInv, CardAsExpected, Identifying, Testing, Setting, Fast,
           Takes, Accepts, AppCommands, States
  <2>3. \/ /\ pc' = "write"
            /\ card' \in Cards /\ card'.state = "tran"
            /\ card'.rca = card.rca /\ card'.wide = card.wide
            /\ card'.content = card.content
            /\ UNCHANGED <<blk, host, fault, original>>
         \/ Stop("card")
    BY <1>0, <2>1, <2>2, CommandStep DEF States, Fast
  <2> QED
    BY <2>1, <2>3, StopKeeps
    DEF IInv, TypeOK, ContentKept, NeverOwnFault, CardAsExpected, Copied,
           Labels, Identifying, Testing, Setting, Index, Buffers, Fast, host
<1>7. CASE StopWrite
  <2>1. pc = "stop_write" /\ Command("stop_write", "CMD12", 0, "prg", "delay")
    BY <1>7 DEF StopWrite, Command, Stop
  <2>2. Takes("CMD12", 0)
    BY <2>1 DEF IInv, CardAsExpected, Identifying, Testing, Setting, Fast,
           Takes, Accepts, AppCommands, States
  <2>3. \/ /\ pc' = "delay"
            /\ card' \in Cards /\ card'.state = "prg"
            /\ card'.rca = card.rca /\ card'.wide = card.wide
            /\ card'.content = card.content
            /\ UNCHANGED <<blk, host, fault, original>>
         \/ Stop("card")
    BY <1>0, <2>1, <2>2, CommandStep DEF States, Fast
  <2> QED
    BY <2>1, <2>3, StopKeeps
    DEF IInv, TypeOK, ContentKept, NeverOwnFault, CardAsExpected, Copied,
           Labels, Identifying, Testing, Setting, Index, Buffers, Fast, host
<1>8. CASE StopAgain
  <2>1. pc = "stop_again" /\ Command("stop_again", "CMD12", 0, "tran", "compare")
    BY <1>8 DEF StopAgain, Command, Stop
  <2>2. Takes("CMD12", 0)
    BY <2>1 DEF IInv, CardAsExpected, Identifying, Testing, Setting, Fast,
           Takes, Accepts, AppCommands, States
  <2>3. \/ /\ pc' = "compare"
            /\ card' \in Cards /\ card'.state = "tran"
            /\ card'.rca = card.rca /\ card'.wide = card.wide
            /\ card'.content = card.content
            /\ UNCHANGED <<blk, host, fault, original>>
         \/ Stop("card")
    BY <1>0, <2>1, <2>2, CommandStep DEF States, Fast
  <2> QED
    BY <2>1, <2>3, StopKeeps
    DEF IInv, TypeOK, ContentKept, NeverOwnFault, CardAsExpected, Copied,
           Labels, Identifying, Testing, Setting, Index, Buffers, Fast, host
<1>9. CASE AppWide
  <2>1. pc = "CMD55_rca" /\ Command("CMD55_rca", "CMD55", rca, "tran", "ACMD6")
    BY <1>9 DEF AppWide, Command, Stop
  <2>2. Takes("CMD55", rca)
    BY <2>1 DEF IInv, CardAsExpected, Identifying, Testing, Setting, Fast,
           Takes, Accepts, AppCommands, States
  <2>3. \/ /\ pc' = "ACMD6"
            /\ card' \in Cards /\ card'.state = "tran"
            /\ card'.app
            /\ card'.rca = card.rca /\ card'.wide = card.wide
            /\ card'.content = card.content
            /\ UNCHANGED <<blk, host, fault, original>>
         \/ Stop("card")
    BY <1>0, <2>1, <2>2, CommandStep DEF States, Fast
  <2> QED
    BY <2>1, <2>3, StopKeeps
    DEF IInv, TypeOK, ContentKept, NeverOwnFault, CardAsExpected, Copied,
           Labels, Identifying, Testing, Setting, Index, Buffers, Fast, host
<1> QED
  BY <1>1, <1>2, <1>3, <1>4, <1>5, <1>6, <1>7, <1>8, <1>9

(* CMD0, CMD3 and ACMD6: the commands that change more of the card. *)
LEMMA OtherCommandsKeep ==
  ASSUME IInv, GoIdle \/ GetAddress \/ CardWide
  PROVE  IInv'
<1> USE SdAssumption
<1>0. card \in Cards
  BY DEF IInv, TypeOK
<1>1. CASE Stop("card")
  BY <1>1, StopKeeps
<1>2. CASE GoIdle /\ ~Stop("card")
  <2>1. Takes("CMD0", 0)
    BY <1>0, <1>2 DEF GoIdle, IInv, CardAsExpected, Identifying, Testing, Setting, Fast,
           Takes, Accepts, AppCommands, States, Cards
  <2>2. /\ card' = [card EXCEPT !.state = "idle", !.app = FALSE, !.rca = 0,
                                !.wide = 1]
        /\ pc = "CMD0" /\ pc' = "CMD8"
        /\ UNCHANGED <<blk, host, fault, original>>
    BY <1>2, <2>1 DEF GoIdle
  <2>3. /\ card' \in Cards /\ card'.state = "idle" /\ card'.rca = 0
        /\ card'.wide = 1 /\ card'.content = card.content
    BY <1>0, <2>2 DEF Cards, States
  <2> QED
    BY <2>2, <2>3 DEF IInv, TypeOK, ContentKept, NeverOwnFault, CardAsExpected, Copied,
           Labels, Identifying, Testing, Setting, Index, Buffers, Fast, host
<1>3. CASE GetAddress /\ ~Stop("card")
  <2>1. Takes("CMD3", 0)
    BY <1>3 DEF GetAddress, Stop, IInv, CardAsExpected, Identifying, Testing, Setting, Fast,
           Takes, Accepts, AppCommands, States
  <2>2. PICK a \in Addresses :
          /\ card' = [card EXCEPT !.state = "stby", !.app = FALSE, !.rca = a]
          /\ rca' = a /\ pc = "CMD3" /\ pc' = "CMD7"
          /\ UNCHANGED <<blk, round, data, data2, wide, clock, fault, original>>
    BY <1>3, <2>1 DEF GetAddress
  <2>3. /\ card' \in Cards /\ card'.state = "stby" /\ card'.rca = a
        /\ card'.wide = card.wide /\ card'.content = card.content
    BY <1>0, <2>2 DEF Cards, States, Fast
  <2> QED
    BY <2>2, <2>3 DEF IInv, TypeOK, ContentKept, NeverOwnFault, CardAsExpected, Copied,
           Labels, Identifying, Testing, Setting, Index, Buffers, Fast, host
<1>4. CASE CardWide /\ ~Stop("card")
  <2>1. Takes("ACMD6", 2)
    BY <1>4 DEF CardWide, IInv, CardAsExpected, Identifying, Testing, Setting, Fast,
           Takes, Accepts, AppCommands, States
  <2>2. /\ card' = [card EXCEPT !.app = FALSE, !.wide = 4]
        /\ pc = "ACMD6" /\ pc' = "wide"
        /\ UNCHANGED <<blk, host, fault, original>>
    BY <1>4, <2>1 DEF CardWide
  <2>3. /\ card' \in Cards /\ card'.state = card.state /\ card'.wide = 4
        /\ card'.rca = card.rca /\ card'.content = card.content
    BY <1>0, <2>2 DEF Cards
  <2> QED
    BY <2>2, <2>3 DEF IInv, TypeOK, ContentKept, NeverOwnFault, CardAsExpected, Copied,
           Labels, Identifying, Testing, Setting, Index, Buffers, Fast, host
<1> QED
  BY <1>1, <1>2, <1>3, <1>4

(* A block read from the card goes to the same place of the buffer, and a  *)
(* block written back is the one that was there.                           *)
LEMMA TransfersKeep ==
  ASSUME IInv, Read \/ WriteBack \/ ReadAgain
  PROVE  IInv'
<1> USE SdAssumption
<1>0. card \in Cards
  BY DEF IInv, TypeOK
<1>1. CASE Begin("read", "CMD18", "data")
  <2>1. card' \in Cards /\ card'.state = "data" /\ card'.app = FALSE
        /\ card'.wide = card.wide /\ card'.rca = card.rca
        /\ card'.content = card.content
    BY <1>0, <1>1 DEF Begin, Cards, States, Fast
  <2> QED
    BY <1>1, <2>1 DEF Begin, IInv, TypeOK, ContentKept, NeverOwnFault, CardAsExpected, Copied,
           Labels, Identifying, Testing, Setting, Index, Buffers, Fast, host
<1>2. CASE Begin("write", "CMD25", "rcv")
  <2>1. card' \in Cards /\ card'.state = "rcv" /\ card'.app = FALSE
        /\ card'.wide = card.wide /\ card'.rca = card.rca
        /\ card'.content = card.content
    BY <1>0, <1>2 DEF Begin, Cards, States, Fast
  <2> QED
    BY <1>2, <2>1 DEF Begin, IInv, TypeOK, ContentKept, NeverOwnFault, CardAsExpected, Copied,
           Labels, Identifying, Testing, Setting, Index, Buffers, Fast, host
<1>3. CASE Begin("read_again", "CMD18", "data")
  <2>1. card' \in Cards /\ card'.state = "data" /\ card'.app = FALSE
        /\ card'.wide = card.wide /\ card'.rca = card.rca
        /\ card'.content = card.content
    BY <1>0, <1>3 DEF Begin, Cards, States, Fast
  <2> QED
    BY <1>3, <2>1 DEF Begin, IInv, TypeOK, ContentKept, NeverOwnFault, CardAsExpected, Copied,
           Labels, Identifying, Testing, Setting, Index, Buffers, Fast, host
<1>4. CASE Abort("read", "CMD18")
  <2>1. /\ blk = 0 => Takes("CMD18", 0)
        /\ blk > 0 => wide = card.wide
    BY <1>4 DEF Abort, IInv, CardAsExpected, Identifying, Testing, Setting, Fast,
           Takes, Accepts, AppCommands, States
  <2>2. Stop("card")
    BY <1>4, <2>1 DEF Abort
  <2> QED
    BY <2>2, StopKeeps
<1>5. CASE Abort("write", "CMD25")
  <2>1. /\ blk = 0 => Takes("CMD25", 0)
        /\ blk > 0 => wide = card.wide
    BY <1>5 DEF Abort, IInv, CardAsExpected, Identifying, Testing, Setting, Fast,
           Takes, Accepts, AppCommands, States
  <2>2. Stop("card")
    BY <1>5, <2>1 DEF Abort
  <2> QED
    BY <2>2, StopKeeps
<1>6. CASE Abort("read_again", "CMD18")
  <2>1. /\ blk = 0 => Takes("CMD18", 0)
        /\ blk > 0 => wide = card.wide
    BY <1>6 DEF Abort, IInv, CardAsExpected, Identifying, Testing, Setting, Fast,
           Takes, Accepts, AppCommands, States
  <2>2. Stop("card")
    BY <1>6, <2>1 DEF Abort
  <2> QED
    BY <2>2, StopKeeps
<1>7. CASE /\ Transfer("read", "data", "stop_read")
           /\ data' = [data EXCEPT ![blk] = card.content[blk]]
           /\ UNCHANGED <<round, data2, rca, wide, clock, card, fault, original>>
  <2>1. blk \in Index /\ card.content = original /\ data \in Buffers
    BY <1>7 DEF Transfer, IInv, TypeOK, ContentKept, Index
  <2>2. data' \in Buffers /\ \A i \in Index : i <= blk => data'[i] = original[i]
    BY <1>7, <2>1 DEF Transfer, IInv, TypeOK, Copied, Buffers, Index
  <2>3. blk = Blocks => data' = original
    BY <2>2 DEF IInv, TypeOK, Buffers, Index
  <2> QED
    BY <1>7, <2>2, <2>3 DEF Transfer, IInv, TypeOK, ContentKept, NeverOwnFault, CardAsExpected, Copied,
           Labels, Identifying, Testing, Setting, Index, Buffers, Fast, host
<1>8. CASE /\ Transfer("write", "rcv", "stop_write")
           /\ card' = [card EXCEPT !.content[blk] = data[blk]]
           /\ UNCHANGED <<host, fault, original>>
  <2>1. /\ blk \in Index /\ card.content = original /\ original \in Buffers
        /\ data = original
    BY <1>8 DEF Transfer, IInv, TypeOK, ContentKept, Copied, Testing, Index
  <2>2. /\ card' \in Cards /\ card'.state = card.state /\ card'.app = card.app
        /\ card'.wide = card.wide /\ card'.rca = card.rca
        /\ card'.content = [card.content EXCEPT ![blk] = data[blk]]
    BY <1>0, <1>8, <2>1 DEF Cards, Buffers
  <2>3. card'.content = original
    BY <2>1, <2>2 DEF Buffers
  <2> QED
    BY <1>8, <2>1, <2>2, <2>3 DEF Transfer, IInv, TypeOK, ContentKept, NeverOwnFault, CardAsExpected, Copied,
           Labels, Identifying, Testing, Setting, Index, Buffers, Fast, host
<1>9. CASE /\ Transfer("read_again", "data", "stop_again")
           /\ data2' = [data2 EXCEPT ![blk] = card.content[blk]]
           /\ UNCHANGED <<round, data, rca, wide, clock, card, fault, original>>
  <2>1. blk \in Index /\ card.content = original /\ data2 \in Buffers
    BY <1>9 DEF Transfer, IInv, TypeOK, ContentKept, Index
  <2>2. data2' \in Buffers /\ \A i \in Index : i <= blk => data2'[i] = original[i]
    BY <1>9, <2>1 DEF Transfer, IInv, TypeOK, Copied, Buffers, Index
  <2>3. blk = Blocks => data2' = original
    BY <2>2 DEF IInv, TypeOK, Buffers, Index
  <2> QED
    BY <1>9, <2>2, <2>3 DEF Transfer, IInv, TypeOK, ContentKept, NeverOwnFault, CardAsExpected, Copied,
           Labels, Identifying, Testing, Setting, Index, Buffers, Fast, host
<1> QED
  BY <1>1, <1>2, <1>3, <1>4, <1>5, <1>6, <1>7, <1>8, <1>9
  DEF Read, WriteBack, ReadAgain

(* memset, memcmp, the two settings of the controller and vTaskDelay. *)
LEMMA SettingsKeep ==
  ASSUME IInv, Prepare \/ Compare \/ BusWide \/ SetClock \/ Delay
  PROVE  IInv'
<1> USE SdAssumption
<1>1. CASE Prepare
  BY <1>1, StopKeeps DEF Prepare, IInv, TypeOK, ContentKept, NeverOwnFault, CardAsExpected, Copied,
         Labels, Identifying, Testing, Setting, Index, Buffers, Fast, host
<1>2. CASE Compare
  <2>1. data = data2
    BY <1>2 DEF Compare, IInv, Copied, Testing
  <2> QED
    BY <1>2, <2>1 DEF Compare, IInv, TypeOK, ContentKept, NeverOwnFault, CardAsExpected, Copied,
           Labels, Identifying, Testing, Setting, Index, Buffers, Fast, host
<1>3. CASE BusWide
  BY <1>3, StopKeeps DEF BusWide, IInv, TypeOK, ContentKept, NeverOwnFault, CardAsExpected, Copied,
         Labels, Identifying, Testing, Setting, Index, Buffers, Fast, host
<1>4. CASE SetClock
  BY <1>4, StopKeeps DEF SetClock, IInv, TypeOK, ContentKept, NeverOwnFault, CardAsExpected, Copied,
         Labels, Identifying, Testing, Setting, Index, Buffers, Fast, host
<1>5. CASE Delay
  BY <1>5 DEF Delay, IInv, TypeOK, ContentKept, NeverOwnFault, CardAsExpected, Copied,
         Labels, Identifying, Testing, Setting, Index, Buffers, Fast, host
<1> QED
  BY <1>1, <1>2, <1>3, <1>4, <1>5

(* The card powers up and programs on its own. *)
LEMMA CardKeeps ==
  ASSUME IInv, PowerUp \/ Programmed
  PROVE  IInv'
<1>0. card \in Cards
  BY DEF IInv, TypeOK
<1>1. CASE PowerUp
  <2>1. /\ card' \in Cards /\ card'.state = card.state /\ card'.app = card.app
        /\ card'.wide = card.wide /\ card'.rca = card.rca
        /\ card'.content = card.content
    BY <1>0, <1>1 DEF PowerUp, Cards
  <2> QED
    BY <1>1, <2>1 DEF PowerUp, IInv, TypeOK, ContentKept, NeverOwnFault, CardAsExpected, Copied,
           Labels, Identifying, Testing, Setting, Index, Buffers, Fast, host
<1>2. CASE Programmed
  <2>1. /\ card' \in Cards /\ card'.state = "tran" /\ card'.app = card.app
        /\ card'.wide = card.wide /\ card'.rca = card.rca
        /\ card'.content = card.content
    BY <1>0, <1>2 DEF Programmed, Cards, States, Fast
  <2> QED
    BY <1>2, <2>1 DEF Programmed, IInv, TypeOK, ContentKept, NeverOwnFault, CardAsExpected, Copied,
           Labels, Identifying, Testing, Setting, Index, Buffers, Fast, host
<1> QED
  BY <1>1, <1>2

(* The state the program starts in. *)
LEMMA InitIInv == Init => IInv
BY SdAssumption
DEF Init, States, Cards, IInv, TypeOK, ContentKept, NeverOwnFault, CardAsExpected, Copied,
    Labels, Identifying, Testing, Setting, Index, Buffers, Fast, host

(* Every step keeps the inductive invariant. *)
LEMMA StepKeepsIInv == IInv /\ [Next]_vars => IInv'
<1> SUFFICES ASSUME IInv, [Next]_vars PROVE IInv'
  OBVIOUS
<1>1. CASE Task
  BY <1>1, CommandsKeep, OtherCommandsKeep, TransfersKeep, SettingsKeep DEF Task
<1>2. CASE PowerUp \/ Programmed
  BY <1>2, CardKeeps
<1>3. CASE UNCHANGED vars
  BY <1>3 DEF vars, IInv, TypeOK, ContentKept, NeverOwnFault, CardAsExpected, Copied,
         Labels, Identifying, Testing, Setting, Index, Buffers, Fast, host
<1> QED
  BY <1>1, <1>2, <1>3 DEF Next, Ended

(* The card, the two buffers and the place of the task always fit together,*)
(* whatever call fails (sdtest.c, lines 12 to 109).                        *)
THEOREM Inductive == Spec => []IInv
BY InitIInv, StepKeepsIInv, PTL DEF Spec

(* The card keeps what it holds at every moment, also when the test stops  *)
(* in the middle of a transfer.                                            *)
THEOREM KeepsTheCard == Spec => []ContentKept
<1>1. IInv => ContentKept
  BY DEF IInv
<1> QED
  BY <1>1, Inductive, PTL

(* No command meets a card that must refuse it, and the memcmp never       *)
(* fails: only the card itself can stop the test.                          *)
THEOREM NoFaultOfItsOwn == Spec => []NeverOwnFault
<1>1. IInv => NeverOwnFault
  BY DEF IInv
<1> QED
  BY <1>1, Inductive, PTL
=============================================================================
