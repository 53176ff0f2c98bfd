----------------------------- MODULE Handshake -----------------------------
(***************************************************************************)
(* A task asks, an interrupt gives a binary semaphore, the task takes it    *)
(* with a time-out: the management frames of the PHY test on the imx6       *)
(* (500 ms) and the ping of the other core on the vf610 (10 s).  Neither    *)
(* clears the semaphore before it asks.                                     *)
(*                                                                          *)
(* Requests are numbered.  External: requests are answered in order, at     *)
(* some time; the register holds what the last answer brought.  Of the PHY  *)
(* driver only the accesses are known: phy_scan to phy_config_aneg make     *)
(* any number of reads and writes and return an error when one does;        *)
(* phy_aneg_done reads once.                                                *)
(***************************************************************************)
EXTENDS Naturals

CONSTANTS Phys, MaxAsked      \* PHYs found; bound on the requests of a run

VARIABLES
    client,             \* "phytest" or "ping"
    phy, polling,       \* the PHY under test, and whether the task is in the loop of phy_aneg_done
    asked, answered,    \* the last request; the last one answered, in the register
    eir, mii,           \* the interrupt is pending; the semaphore
    op,                 \* what the task waits for: "read", "write", "ping", or "none", "failed"
    timedOut,           \* (history) a wait of a ping has timed out
    unnoticed,          \* (history) phy_aneg_done has failed, which ends its loop like a success
    stale               \* (history) a read or ping was satisfied by the answer to another
handVars == <<client, phy, polling, asked, answered, eir, mii, op, timedOut, unnoticed, stale>>

\* (mutant) the semaphore is left given
HandInit_given ==
    /\ client \in {"phytest", "ping"} /\ phy = 1 /\ polling = FALSE /\ asked = 0 /\ answered = 0
    /\ eir = FALSE /\ mii = TRUE /\ op = "none" /\ timedOut = FALSE /\ unnoticed = FALSE /\ stale = FALSE
\* A binary semaphore may be created given: it is given and taken once.
HandInit ==
    /\ client \in {"phytest", "ping"} /\ phy = 1 /\ polling = FALSE /\ asked = 0 /\ answered = 0
    /\ eir = FALSE /\ mii = FALSE /\ op = "none" /\ timedOut = FALSE /\ unnoticed = FALSE /\ stale = FALSE

Ask(what) ==
    /\ op = "none" /\ asked < MaxAsked
    /\ asked' = asked + 1 /\ op' = what
    /\ UNCHANGED <<client, phy, answered, eir, mii, timedOut, unnoticed, stale>>
Take == mii /\ mii' = FALSE /\ UNCHANGED <<client, asked, answered, eir, timedOut>>
Late == ~mii /\ UNCHANGED <<client, asked, answered, eir, mii>>

\* The PHY whose tests are over, and the next.
NextPhy == phy' = phy + 1 /\ polling' = FALSE
mac_mdioWrite ==
    /\ client = "phytest" /\ phy <= Phys
    /\ \/ ~polling /\ Ask("write") /\ UNCHANGED polling
       \/ op = "write" /\ Take /\ op' = "none" /\ UNCHANGED <<phy, polling, unnoticed, stale>>
       \/ op = "write" /\ Late /\ op' = "failed" /\ UNCHANGED <<phy, polling, timedOut, unnoticed, stale>>
\* A read in the loop may tell that the negotiation is done; a failure there ends it too.
mac_mdioRead ==
    /\ client = "phytest" /\ phy <= Phys
    /\ \/ Ask("read") /\ polling' \in {polling, TRUE}
       \/ /\ op = "read" /\ Take /\ op' = "none" /\ stale' = (stale \/ answered # asked)
          /\ (polling /\ NextPhy) \/ UNCHANGED <<phy, polling>>
          /\ UNCHANGED unnoticed
       \/ /\ op = "read" /\ Late
          /\ IF polling THEN NextPhy /\ op' = "none" /\ unnoticed' = TRUE
             ELSE op' = "failed" /\ UNCHANGED <<phy, polling, unnoticed>>
          /\ UNCHANGED <<timedOut, stale>>
pingTask ==
    /\ client = "ping"
    /\ \/ Ask("ping") /\ UNCHANGED polling
       \/ /\ op = "ping" /\ Take /\ op' = "none" /\ stale' = (stale \/ answered # asked)
          /\ UNCHANGED <<phy, polling, unnoticed>>
       \/ /\ op = "ping" /\ Late /\ op' = "none" /\ timedOut' = TRUE
          /\ UNCHANGED <<phy, polling, unnoticed, stale>>

\* The MAC ends a frame, the other core answers.
AnswerComes ==
    /\ answered < asked /\ answered' = answered + 1 /\ eir' = TRUE
    /\ UNCHANGED <<client, phy, polling, asked, mii, op, timedOut, unnoticed, stale>>
\* (mutant) the interrupt is not cleared
ENET1_Handler_uncleared ==
    /\ client = "phytest" /\ eir /\ UNCHANGED eir /\ mii' = TRUE
    /\ UNCHANGED <<client, phy, polling, asked, answered, op, timedOut, unnoticed, stale>>
Isr ==
    /\ eir /\ eir' = FALSE /\ mii' = TRUE
    /\ UNCHANGED <<client, phy, polling, asked, answered, op, timedOut, unnoticed, stale>>
ENET1_Handler == client = "phytest" /\ Isr
cpu2cpu_int1_isr == client = "ping" /\ Isr

HandNext ==
    mac_mdioWrite \/ mac_mdioRead \/ pingTask \/ AnswerComes \/ ENET1_Handler \/ cpu2cpu_int1_isr
HandSpec == HandInit /\ [][HandNext]_handVars

-----------------------------------------------------------------------------
\* A read returns what its own frame brought and a ping ends with its own answer, although
\* a late answer leaves a token behind: the assertions of the PHY test end it at the first
\* time-out, all but those of phy_aneg_done, whose error ends the loop as a success does.
AnswersMatch == stale => timedOut \/ unnoticed

\* The argument: as long as every time-out has been noticed at most one answer is under way,
\* and none when nothing has been asked.
OneUnderWay ==
    /\ ~stale
    /\ answered # asked => asked = answered + 1 /\ ~eir /\ ~mii
    /\ ~(eir /\ mii)
    /\ op = "none" => answered = asked /\ ~eir /\ ~mii
HandInv ==
    /\ asked \in Nat /\ answered \in Nat
    /\ ~(timedOut \/ unnoticed) => OneUnderWay
=============================================================================
