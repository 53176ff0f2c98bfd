----------------------------- MODULE BufferTest -----------------------------
(***************************************************************************)
(* The self test of vf610/buffertest.c.  Two tasks at both ends of one     *)
(* buffer, the reader of higher priority than the writer, move a message   *)
(* every tick.  First buffer1Test and buffer2Test send strings through a   *)
(* buffer of characters, and the reader demands the length of one message; *)
(* then buffer2Test sets the buffer up anew for buffer3Test and            *)
(* buffer4Test, which send records with a flag that alternates, and the    *)
(* reader demands the flag it expects.  An error is an endless loop.       *)
(*                                                                         *)
(* The buffer is external (buffer.h): a sequence of the messages in it, of *)
(* which a read of characters takes all and a read of a record takes one.  *)
(* Other tasks and interrupts may delay both tasks: a tick may come before *)
(* every step.                                                             *)
(***************************************************************************)
EXTENDS Integers, Sequences

CONSTANTS
  Count,     \* Count[p]: messages of phase p, 10 and 1000 in the program
  Capacity,  \* Capacity[p]: messages the buffer holds, 7 and 32
  MaxLag     \* bound: ticks a task runs behind its schedule

ASSUME BufferTestAssumption ==
  /\ Count \in [1 .. 2 -> Nat \ {0}]
  /\ Capacity \in [1 .. 2 -> Nat \ {0}]
  /\ MaxLag \in Nat

Tasks == {"writer", "reader"}

VARIABLES
  phase,   \* 1: buffer1Test and buffer2Test, 2: buffer3Test and buffer4Test
  buffer,  \* the flags of the messages in the buffer
  pc,      \* pc[t]: created, transfer, check, delay, done, error
  i,       \* i[t]: the loop counter
  lag,     \* lag[t]: ticks since lastWakeUpTime, negative in vTaskDelayUntil
  value,   \* value[t]: the flag the writer sends and the reader expects
  got      \* the flags the reader received last

vars == <<phase, buffer, pc, i, lag, value, got>>

TypeOK ==
  /\ phase \in 1 .. 2
  /\ buffer \in Seq(BOOLEAN) /\ Len(buffer) <= Capacity[phase]
  /\ pc \in [Tasks -> {"created", "transfer", "check", "delay", "done", "error"}]
  /\ i \in [Tasks -> 0 .. Count[phase]]
  /\ lag \in [Tasks -> -1 .. MaxLag]
  /\ value \in [Tasks -> BOOLEAN]
  /\ got \in Seq(BOOLEAN)

\* bufferInit, before the scheduler starts.
Init ==
  /\ phase = 1 /\ buffer = <<>> /\ got = <<>>
  /\ pc = [t \in Tasks |-> "created"]
  /\ i = [t \in Tasks |-> 0]
  /\ lag = [t \in Tasks |-> 0]
  /\ value = [t \in Tasks |-> TRUE]

Goto(t, to) == pc' = [pc EXCEPT ![t] = to]

-----------------------------------------------------------------------------
(* The scheduler *)

\* A task that can go on: it is not past its end, waiting for its time or, the
\* reader, for data.  One in an error loop can.
Ready(t) ==
  CASE pc[t] = "done" -> FALSE
    [] pc[t] = "delay" -> lag[t] >= 0
    [] pc[t] = "transfer" /\ t = "reader" -> buffer # <<>>
    [] OTHER -> TRUE

\* (mutant) all tasks are created with one priority
Priority_equal == [writer |-> 2, reader |-> 2]

Priority == [writer |-> 2, reader |-> 3]

Runs(t) == Ready(t) /\ \A u \in Tasks : Priority[u] > Priority[t] => ~Ready(u)

Tick ==
  /\ \A t \in Tasks : lag[t] < MaxLag \/ pc[t] \in {"created", "done"}
  /\ \E t \in Tasks : pc[t] # "done"
  /\ lag' = [t \in Tasks |-> IF pc[t] \in {"created", "done"} THEN lag[t]
                                                                ELSE lag[t] + 1]
  /\ UNCHANGED <<phase, buffer, pc, i, value, got>>

-----------------------------------------------------------------------------
(* What both tasks do *)

\* xTaskGetTickCount, then into the loop.
Start(t) ==
  /\ Runs(t) /\ pc[t] = "created"
  /\ Goto(t, "transfer")
  /\ lag' = [lag EXCEPT ![t] = 0]
  /\ UNCHANGED <<phase, buffer, i, value, got>>

\* vTaskDelayUntil(&lastWakeUpTime, 1): it blocks only if the tick is to come.
DelayUntil(t) ==
  /\ Goto(t, "delay")
  /\ lag' = [lag EXCEPT ![t] = @ - 1]

\* (mutant) the reader's loop goes round once too often
Woken_onceMore(t) ==
  /\ Runs(t) /\ pc[t] = "delay"
  /\ i' = [i EXCEPT ![t] = @ + 1]
  /\ Goto(t, IF i[t] + (IF t = "reader" THEN 0 ELSE 1) < Count[phase]
                THEN "transfer" ELSE "done")
  /\ UNCHANGED <<phase, buffer, lag, value, got>>

\* The end of the loop: the writers and buffer4Test delete themselves.
Woken(t) ==
  /\ Runs(t) /\ pc[t] = "delay"
  /\ i' = [i EXCEPT ![t] = @ + 1]
  /\ Goto(t, IF i[t] + 1 < Count[phase] THEN "transfer" ELSE "done")
  /\ UNCHANGED <<phase, buffer, lag, value, got>>

-----------------------------------------------------------------------------
(* buffer1Test, buffer3Test *)

Write ==
  /\ Runs("writer") /\ pc["writer"] = "transfer"
  /\ IF Len(buffer) < Capacity[phase]
       THEN /\ buffer' = Append(buffer, value["writer"])
            /\ value' = [value EXCEPT !["writer"] = ~@]
            /\ DelayUntil("writer")
       ELSE /\ Goto("writer", "error")
            /\ UNCHANGED <<buffer, value, lag>>
  /\ UNCHANGED <<phase, i, got>>

-----------------------------------------------------------------------------
(* buffer2Test, buffer4Test *)

Read ==
  /\ Runs("reader") /\ pc["reader"] = "transfer"
  /\ LET n == IF phase = 1 THEN Len(buffer) ELSE 1 IN
       /\ got' = SubSeq(buffer, 1, n)
       /\ buffer' = SubSeq(buffer, n + 1, Len(buffer))
  /\ Goto("reader", "check")
  /\ UNCHANGED <<phase, i, lag, value>>

\* The length is that of one message and, of a record, the flag the one due.
Check ==
  /\ Runs("reader") /\ pc["reader"] = "check"
  /\ IF Len(got) = 1 /\ (phase = 2 => got[1] = value["reader"])
       THEN DelayUntil("reader")
       ELSE Goto("reader", "error") /\ UNCHANGED lag
  /\ value' = [value EXCEPT !["reader"] = ~@]
  /\ UNCHANGED <<phase, buffer, i, got>>

\* bufferInit2, called by buffer2Test.
bufferInit2 ==
  /\ phase = 1 /\ pc["reader"] = "done"
  /\ phase' = 2
  /\ buffer' = <<>>
  /\ pc' = [t \in Tasks |-> "created"]
  /\ i' = [t \in Tasks |-> 0]
  /\ lag' = [t \in Tasks |-> 0]
  /\ value' = [t \in Tasks |-> TRUE]
  /\ UNCHANGED got

-----------------------------------------------------------------------------
writer == Start("writer") \/ Write \/ Woken("writer")
reader == Start("reader") \/ Read \/ Check \/ Woken("reader") \/ bufferInit2

Next == Tick \/ writer \/ reader

Spec == Init /\ [][Next]_vars

\* The tick interrupt comes, and both tasks are scheduled as their priorities
\* say: the writer runs when the reader blocks.
Fairness == WF_vars(Tick) /\ WF_vars(writer) /\ WF_vars(reader)

FairSpec == Spec /\ Fairness

-----------------------------------------------------------------------------
(* Properties *)

\* No error loop is entered (buffertest.c:98, 113, 118, 138, 156, 161, 166): the
\* buffer is never full, a read of characters never gets two messages at once
\* and no record is lost, however late both tasks are: a task that lags catches
\* up without blocking, but the writer never while the reader is ready.
NoError == \A t \in Tasks : pc[t] # "error"

\* The test comes to its end.
TestFinishes == <>(phase = 2 /\ \A t \in Tasks : pc[t] = "done")
=============================================================================
