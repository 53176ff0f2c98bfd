------------------------------ MODULE CanPair ------------------------------
(***************************************************************************)
(* Two boards with their CAN tests on one bus: the echo tests of s32k and   *)
(* kv4x (CONFIG_FLEXCAN_ECHO_TEST), their other variant, which answers each *)
(* frame under another identifier, and the DCAN test of the am57xx.  A tool *)
(* on the bus may send frames too.                                          *)
(*                                                                          *)
(* A frame is its identifier; the code compares length and data as well.    *)
(* External: a frame is acknowledged when the other board is up, and kept   *)
(* if a filter registered there lets it through and one of Depth places is  *)
(* free.  A board waits at most a second for a frame or an acknowledgement: *)
(* the other one is started within that time, and answers within it unless  *)
(* it waits itself.                                                         *)
(***************************************************************************)
EXTENDS Integers, Sequences

CONSTANTS Pairs, Depth, ToolIds, ToolFrames

ASSUME CanAssumption == Depth \in Nat \ {0} /\ ToolIds \subseteq Nat /\ ToolFrames \in Nat

VARIABLES
    pair,       \* the programs of the two boards
    at,         \* where each is: "start", "go", "wait", "answer", "failed"
    canUp, filters, \* whether a board is on the bus, and has its filter
    inbox,      \* frames kept by each board's controller
    held,       \* the frame an answering board is about to answer
    round,      \* whether a board has received anything: DCAN then goes on without asserting
    toolLeft    \* frames the tool may still send
canVars == <<pair, at, canUp, filters, inbox, held, round, toolLeft>>

Board == {1, 2}
Other(b) == 3 - b
Echo == {"s32k echo", "kv4x echo"}
Answer == {"s32k answer", "kv4x answer"}
TestId == 291               \* 0x123
DcanId == 2 ^ 29 + 2049     \* 0x801, extended

CanInit ==
    /\ pair \in Pairs
    /\ at = [b \in Board |-> "start"]
    /\ canUp = [b \in Board |-> pair[b] = "dcan"] /\ filters = [b \in Board |-> FALSE]
    /\ inbox = [b \in Board |-> <<>>] /\ held = [b \in Board |-> 0] /\ round = [b \in Board |-> FALSE]
    /\ toolLeft = ToolFrames

\* (mutant) a filter that only looks at the lowest eight bits
Passes_low(program, id) ==
    IF program = "dcan" THEN id = DcanId ELSE id < 2 ^ 29 /\ id % 256 \in 32..47
\* id 0x123 and mask 0xFF0 let sixteen identifiers through.
Passes(program, id) ==
    IF program = "dcan" THEN id = DcanId ELSE id < 2 ^ 29 /\ id \div 16 = TestId \div 16
Kept(b, id) ==
    IF canUp[b] /\ filters[b] /\ Passes(pair[b], id) /\ Len(inbox[b]) < Depth THEN Append(inbox[b], id) ELSE inbox[b]
Send(b, id) == canUp[Other(b)] /\ inbox' = [inbox EXCEPT ![Other(b)] = Kept(Other(b), id)]
Arrives(b) == inbox[b] # <<>> /\ inbox' = [inbox EXCEPT ![b] = Tail(@)]
Silent(b) == inbox[b] = <<>> /\ at[Other(b)] \in {"wait", "failed"} /\ inbox[Other(b)] = <<>>
Go(b, place) == at' = [at EXCEPT ![b] = place]

Register(b) == ~filters[b] /\ filters' = [filters EXCEPT ![b] = TRUE] /\ UNCHANGED canUp
Up(b) == ~canUp[b] /\ canUp' = [canUp EXCEPT ![b] = TRUE] /\ UNCHANGED filters
\* The echo test of the s32k and DCAN register first, the others go up first.
SetUp(b, registersFirst) ==
    /\ at[b] = "start"
    /\ \/ (registersFirst => filters[b]) /\ Up(b)
       \/ (~registersFirst => canUp[b]) /\ Register(b)
    /\ UNCHANGED <<pair, at, inbox, held, round, toolLeft>>
Ready(b, first) ==
    /\ at[b] = "start" /\ canUp[b] /\ filters[b] /\ Go(b, first)
    /\ UNCHANGED <<pair, canUp, filters, inbox, held, round, toolLeft>>

Rest == UNCHANGED <<pair, canUp, filters, toolLeft>>
\* can_send, can_recv and the assertions of the echo test's loop.
Echoes(b) ==
    /\ Rest /\ UNCHANGED held
    /\ \/ at[b] = "go" /\ Send(b, TestId) /\ Go(b, "wait") /\ UNCHANGED round
       \/ /\ at[b] = "wait" /\ Arrives(b) /\ round' = [round EXCEPT ![b] = TRUE]
          /\ Go(b, IF Head(inbox[b]) = TestId THEN "go" ELSE "failed")
       \/ at[b] = "wait" /\ Silent(b) /\ Go(b, "failed") /\ UNCHANGED <<inbox, round>>
\* The loop of the other variant; it waits for ever.
Answers(b, shift) ==
    /\ Rest /\ UNCHANGED round
    /\ \/ at[b] = "wait" /\ Arrives(b) /\ held' = [held EXCEPT ![b] = Head(inbox[b])] /\ Go(b, "answer")
       \/ at[b] = "answer" /\ Send(b, held[b] + shift) /\ Go(b, "wait") /\ UNCHANGED held

s32k_echo(b) == pair[b] = "s32k echo" /\ (SetUp(b, TRUE) \/ Ready(b, "go") \/ Echoes(b))
kv4x_echo(b) == pair[b] = "kv4x echo" /\ (SetUp(b, FALSE) \/ Ready(b, "go") \/ Echoes(b))
s32k_answer(b) == pair[b] = "s32k answer" /\ (SetUp(b, FALSE) \/ Ready(b, "wait") \/ Answers(b, 256))
\* (mutant) the answer keeps to the identifiers of the filter
kv4x_answer_near(b) == pair[b] = "kv4x answer" /\ (SetUp(b, FALSE) \/ Ready(b, "wait") \/ Answers(b, -1))
kv4x_answer(b) == pair[b] = "kv4x answer" /\ (SetUp(b, FALSE) \/ Ready(b, "wait") \/ Answers(b, -256))
\* One frame sent, one expected within a second; then whatever comes is printed.
dcan_can_task(b) ==
    /\ pair[b] = "dcan"
    /\ \/ at[b] = "start" /\ Register(b) /\ UNCHANGED <<at, inbox, held, round>> /\ UNCHANGED <<pair, toolLeft>>
       \/ Ready(b, "go")
       \/ /\ Rest /\ UNCHANGED held
          /\ \/ at[b] = "go" /\ Send(b, DcanId) /\ Go(b, "wait") /\ UNCHANGED round
             \/ at[b] = "wait" /\ Arrives(b) /\ round' = [round EXCEPT ![b] = TRUE] /\ UNCHANGED at
             \/ at[b] = "wait" /\ ~round[b] /\ Silent(b) /\ Go(b, "failed") /\ UNCHANGED <<inbox, round>>

\* Another node of the bus sends to both boards.
Tool ==
    /\ toolLeft > 0 /\ toolLeft' = toolLeft - 1
    /\ \E id \in ToolIds : inbox' = [b \in Board |-> Kept(b, id)]
    /\ UNCHANGED <<pair, at, canUp, filters, held, round>>

BoardStep(b) == s32k_echo(b) \/ kv4x_echo(b) \/ s32k_answer(b) \/ kv4x_answer(b) \/ dcan_can_task(b)
CanNext == (\E b \in Board : BoardStep(b)) \/ Tool
CanSpec == CanInit /\ [][CanNext]_canVars

-----------------------------------------------------------------------------
\* Two echo tests satisfy each other, in whatever order the boards come up and register and
\* although the kv4x may lose a frame in between; of two DCAN tests the one that was there
\* first is satisfied; and no answer is ever answered, or two answering boards would talk
\* for ever after the first frame.  A tool that sends something else fails an echo test.
PairsPass ==
    /\ pair[1] \in Echo /\ pair[2] \in Echo /\ toolLeft = ToolFrames => \A b \in Board : at[b] # "failed"
    /\ pair = <<"dcan", "dcan">> => \E b \in Board : at[b] # "failed"
    /\ \A b \in Board : pair[b] \in Answer =>
          \A k \in DOMAIN inbox[b] : inbox[b][k] \in ToolIds \union (IF pair[Other(b)] \in Echo THEN {TestId} ELSE {})
=============================================================================
