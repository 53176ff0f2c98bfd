------------------------------ MODULE Mailbox ------------------------------
(***************************************************************************)
(* The mailbox test of am57xx and imx6: the task sends every word it        *)
(* receives back.  The am57xx uses two mailboxes, the imx6 one, whose two   *)
(* directions are two queues of hardware registers.                         *)
(*                                                                          *)
(* Both calls of the task block for ever (portMAX_DELAY) when there is      *)
(* nothing to read or no room.  External: the other core, whose sends block *)
(* too and which does not read while one does.  It starts a send as long as *)
(* it is less than "ahead" words ahead of the answers it has read; nothing  *)
(* in the code says how many these are.                                     *)
(***************************************************************************)
EXTENDS Naturals, Sequences

CONSTANTS Capacity, Aheads, Words
ASSUME MailboxAssumption == Capacity \in Nat \ {0} /\ Aheads \subseteq Nat \ {0} /\ Words \in Nat

VARIABLES
    toTask, toPeer,     \* the words in either direction
    word, receiving,    \* data of the code; whether the task is at mailbox_recv
    ahead, sending,     \* how far the other core goes ahead; whether it is in a send
    sent, got           \* words the other core has sent, and has read
mailVars == <<toTask, toPeer, word, receiving, ahead, sending, sent, got>>

MailInit ==
    /\ toTask = <<>> /\ toPeer = <<>> /\ word = 0 /\ receiving = TRUE
    /\ ahead \in Aheads /\ sending = FALSE /\ sent = 0 /\ got = 0

mailbox_recv ==
    /\ receiving /\ toTask # <<>>
    /\ word' = Head(toTask) /\ toTask' = Tail(toTask) /\ receiving' = FALSE
    /\ UNCHANGED <<toPeer, ahead, sending, sent, got>>
\* (mutant) the send does not wait for room
mailbox_send_drops ==
    /\ ~receiving /\ receiving' = TRUE
    /\ toPeer' = IF Len(toPeer) < Capacity THEN Append(toPeer, word) ELSE toPeer
    /\ UNCHANGED <<toTask, word, ahead, sending, sent, got>>
\* (mutant) the send leaves a place free
mailbox_send_leavesOne ==
    /\ ~receiving /\ Len(toPeer) + 1 < Capacity
    /\ toPeer' = Append(toPeer, word) /\ receiving' = TRUE
    /\ UNCHANGED <<toTask, word, ahead, sending, sent, got>>
mailbox_send ==
    /\ ~receiving /\ Len(toPeer) < Capacity
    /\ toPeer' = Append(toPeer, word) /\ receiving' = TRUE
    /\ UNCHANGED <<toTask, word, ahead, sending, sent, got>>
mailbox_testTask == mailbox_recv \/ mailbox_send

PeerBegins ==
    /\ ~sending /\ sent < Words /\ sent < got + ahead
    /\ sending' = TRUE
    /\ UNCHANGED <<toTask, toPeer, word, receiving, ahead, sent, got>>
\* The n-th word the other core sends is n.
PeerSends ==
    /\ sending /\ Len(toTask) < Capacity
    /\ sent' = sent + 1 /\ toTask' = Append(toTask, sent + 1) /\ sending' = FALSE
    /\ UNCHANGED <<toPeer, word, receiving, ahead, got>>
PeerReads ==
    /\ ~sending /\ toPeer # <<>>
    /\ got' = Head(toPeer) /\ toPeer' = Tail(toPeer)
    /\ UNCHANGED <<toTask, word, receiving, ahead, sending, sent>>

MailNext == mailbox_testTask \/ PeerBegins \/ PeerSends \/ PeerReads
MailSpec == MailInit /\ [][MailNext]_mailVars

-----------------------------------------------------------------------------
\* What is on its way: the words from the first unanswered to the last sent.
OnTheWay == toPeer \o (IF receiving THEN <<>> ELSE <<word>>) \o toTask

\* Between the queues and the hand of the task no word is lost, doubled or overtaken,
\* however far the other core goes ahead.
EchoCorrect ==
    /\ Len(toTask) <= Capacity /\ Len(toPeer) <= Capacity
    /\ got + Len(OnTheWay) = sent
    /\ \A k \in DOMAIN OnTheWay : OnTheWay[k] = got + k

\* Task and other core wait for room in a queue that only the other one empties.
BothWait ==
    /\ ~receiving /\ Len(toPeer) = Capacity
    /\ sending /\ Len(toTask) = Capacity
\* Every word comes back, unless both wait for ever, each with portMAX_DELAY; and that takes
\* an other core further ahead than both queues and the hand of the task hold together.
WordsComeBack == []<>(got = sent \/ (BothWait /\ ahead > 2 * Capacity + 1))
=============================================================================
