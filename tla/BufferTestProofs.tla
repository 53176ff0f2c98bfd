-------------------------- MODULE BufferTestProofs --------------------------
(***************************************************************************)
(* The buffer self test, proved for any number of messages, any capacity   *)
(* of the buffer and tasks that lag by any number of ticks.                *)
(***************************************************************************)
EXTENDS BufferTest, TLAPS

\* The calls of vTaskDelayUntil a task has made.
Delays(t) == i[t] + (IF pc[t] = "delay" THEN 1 ELSE 0)

\* Messages written that the reader has not dealt with yet.
Pending == Len(buffer) + (IF pc["reader"] = "check" THEN 1 ELSE 0)

\* At most one message is on its way, with the flag that is due.
OneMessage ==
    /\ Pending \in 0 .. 1
    /\ Delays("writer") = Delays("reader") + Pending
    /\ Pending = 1 <=> value["writer"] # value["reader"]
    /\ buffer # <<>> => buffer[1] = value["reader"]
    /\ pc["reader"] = "check" => got = <<value["reader"]>>

\* The reader starts first; then the writer is behind it by a message under way, so that it never
\* writes while the reader waits for its time.
Schedule ==
    /\ \A t \in Tasks :
          /\ pc[t] \in {"transfer", "check"} => lag[t] >= 0 /\ i[t] < Count[phase]
          /\ pc[t] = "delay" => i[t] < Count[phase]
          /\ pc[t] = "created" => i[t] = 0
          /\ pc[t] = "done" => i[t] = Count[phase]
    /\ pc["writer"] # "check"
    /\ pc["reader"] = "created" => pc["writer"] = "created"
    /\ pc["writer"] = "created" => pc["reader"] \in {"created", "transfer"} /\ lag["writer"] = 0
    /\ pc["writer"] \notin {"created", "done"} /\ pc["reader"] # "done" =>
          lag["writer"] + Pending <= lag["reader"]

BufferInv == TypeOK /\ NoError /\ OneMessage /\ Schedule

-----------------------------------------------------------------------------
LEMMA OneElement ==
    ASSUME NEW S, NEW s \in Seq(S), Len(s) = 1
    PROVE  s = <<s[1]>>
<1> DEFINE e == <<s[1]>>
<1>1. Len(e) = 1 /\ e[1] = s[1] /\ e \in Seq(S)
  OBVIOUS
<1> HIDE DEF e
<1>2. s = e
  BY <1>1
<1> QED
  BY <1>2 DEF e

LEMMA Typed ==
    ASSUME BufferInv
    PROVE  /\ phase \in {1, 2} /\ Count[phase] \in Nat /\ Count[phase] > 0
           /\ Capacity[phase] \in Nat /\ Capacity[phase] > 0
           /\ buffer \in Seq(BOOLEAN) /\ Len(buffer) \in Nat /\ (buffer = <<>> <=> Len(buffer) = 0)
           /\ \A t \in Tasks : i[t] \in Nat /\ lag[t] \in Int
           /\ "writer" \in Tasks /\ "reader" \in Tasks
           /\ pc["writer"] # "error" /\ pc["reader"] # "error"
BY BufferTestAssumption DEF BufferInv, TypeOK, NoError, Tasks

\* The writer runs when the reader blocks or is done.
LEMMA ReaderBlocks ==
    ASSUME BufferInv, Runs("writer")
    PROVE  \/ pc["reader"] = "done"
           \/ pc["reader"] = "delay" /\ lag["reader"] < 0
           \/ pc["reader"] = "transfer" /\ buffer = <<>>
<1>1. ~Ready("reader")
  BY DEF Runs, Priority, Tasks
<1>2. lag["reader"] \in Int
  BY Typed
<1> QED
  BY <1>1, <1>2 DEF Ready

\* When it writes, nothing is on its way.
LEMMA WriterWaits ==
    ASSUME BufferInv, Runs("writer"), pc["writer"] = "transfer"
    PROVE  Pending = 0 /\ pc["reader"] = "transfer" /\ buffer = <<>>
<1>1. /\ lag["writer"] \in Int /\ lag["reader"] \in Int /\ i["writer"] \in Nat /\ i["reader"] \in Nat
      /\ Count[phase] \in Nat /\ Pending \in 0 .. 1
  BY Typed DEF BufferInv, OneMessage
<1>2. lag["writer"] >= 0 /\ i["writer"] < Count[phase]
  BY DEF BufferInv, Schedule, Tasks
<1>3. pc["reader"] # "done"
  <2> SUFFICES ASSUME pc["reader"] = "done" PROVE FALSE
    OBVIOUS
  <2>1. i["reader"] = Count[phase]
    BY DEF BufferInv, Schedule, Tasks
  <2>2. Delays("writer") = i["writer"] /\ Delays("reader") = i["reader"]
    BY <1>1 DEF Delays
  <2> QED
    BY <1>1, <1>2, <2>1, <2>2 DEF BufferInv, OneMessage
<1>4. lag["writer"] + Pending <= lag["reader"]
  BY <1>3 DEF BufferInv, Schedule
<1>5. pc["reader"] = "transfer" /\ buffer = <<>>
  BY <1>1, <1>2, <1>3, <1>4, ReaderBlocks
<1> QED
  BY <1>5 DEF Pending

\* The state a phase begins with.
LEMMA Begins ==
    ASSUME phase' \in {1, 2}, buffer' = <<>>, got' \in Seq(BOOLEAN),
           pc' = [t \in Tasks |-> "created"], i' = [t \in Tasks |-> 0],
           lag' = [t \in Tasks |-> 0], value' = [t \in Tasks |-> TRUE]
    PROVE  BufferInv'
<1>1. "writer" \in Tasks /\ "reader" \in Tasks /\ TRUE \in BOOLEAN
  BY Zenon DEF Tasks
<1>2. TypeOK'
  BY <1>1, BufferTestAssumption DEF TypeOK
<1>3. NoError'
  BY DEF NoError
<1>4. Pending' = 0
  BY <1>1 DEF Pending
<1>5. value'["writer"] = value'["reader"]
  BY <1>1
<1>6. OneMessage'
  BY <1>1, <1>4, <1>5 DEF OneMessage, Delays
<1>7. Schedule'
  BY <1>1 DEF Schedule
<1> QED
  BY <1>2, <1>3, <1>6, <1>7 DEF BufferInv

LEMMA InitBufferInv == Init => BufferInv
<1> SUFFICES ASSUME Init PROVE BufferInv
  OBVIOUS
<1>1. "writer" \in Tasks /\ "reader" \in Tasks /\ TRUE \in BOOLEAN
  BY Zenon DEF Tasks
<1>2. TypeOK
  BY <1>1, BufferTestAssumption DEF Init, TypeOK
<1>3. NoError
  BY DEF Init, NoError
<1>4. Pending = 0
  BY <1>1 DEF Init, Pending
<1>5. value["writer"] = value["reader"]
  BY <1>1 DEF Init
<1>6. OneMessage
  BY <1>1, <1>4, <1>5 DEF Init, OneMessage, Delays
<1>7. Schedule
  BY <1>1 DEF Init, Schedule
<1> QED
  BY <1>2, <1>3, <1>6, <1>7 DEF BufferInv

LEMMA TickKeeps == BufferInv /\ Tick => BufferInv'
<1> SUFFICES ASSUME BufferInv, Tick PROVE BufferInv'
  OBVIOUS
<1>1. /\ UNCHANGED <<phase, buffer, pc, i, value, got>>
      /\ lag \in [Tasks -> -1 .. MaxLag] /\ lag' \in [Tasks -> -1 .. MaxLag]
      /\ \A t \in Tasks : lag'[t] = IF pc[t] \in {"created", "done"} THEN lag[t] ELSE lag[t] + 1
  BY BufferTestAssumption DEF Tick, BufferInv, TypeOK
<1>2. TypeOK' /\ NoError' /\ OneMessage'
  BY <1>1 DEF BufferInv, TypeOK, NoError, OneMessage, Delays, Pending
<1>3. Schedule'
  <2>1. /\ lag["writer"] \in Int /\ lag["reader"] \in Int /\ "writer" \in Tasks /\ "reader" \in Tasks
        /\ Pending \in Int /\ Pending' = Pending
    BY <1>1, Typed DEF BufferInv, OneMessage, Pending
  <2>2. \A t \in Tasks : lag[t] \in Int
    BY Typed
  <2> QED
    BY <1>1, <2>1, <2>2 DEF BufferInv, Schedule
<1> QED
  BY <1>2, <1>3 DEF BufferInv

LEMMA StartKeeps == BufferInv /\ (\E t \in Tasks : Start(t)) => BufferInv'
<1> SUFFICES ASSUME BufferInv, NEW t \in Tasks, Start(t) PROVE BufferInv'
  OBVIOUS
<1>1. /\ UNCHANGED <<phase, buffer, i, value, got>> /\ pc[t] = "created"
      /\ pc \in [Tasks -> {"created", "transfer", "check", "delay", "done", "error"}]
      /\ lag \in [Tasks -> -1 .. MaxLag]
      /\ pc' = [pc EXCEPT ![t] = "transfer"] /\ lag' = [lag EXCEPT ![t] = 0]
  BY DEF Start, Goto, BufferInv, TypeOK
<1>2. /\ pc' \in [Tasks -> {"created", "transfer", "check", "delay", "done", "error"}]
      /\ lag' \in [Tasks -> -1 .. MaxLag]
      /\ pc'[t] = "transfer" /\ lag'[t] = 0
      /\ \A u \in Tasks : u # t => pc'[u] = pc[u] /\ lag'[u] = lag[u]
  BY <1>1, BufferTestAssumption
<1>3. TypeOK' /\ NoError'
  BY <1>1, <1>2 DEF BufferInv, TypeOK, NoError
<1>4. "writer" \in Tasks /\ "reader" \in Tasks /\ t \in {"writer", "reader"}
  BY DEF Tasks
<1>5. Delays("writer")' = Delays("writer") /\ Delays("reader")' = Delays("reader") /\ Pending' = Pending
      /\ (pc'["reader"] = "check" <=> pc["reader"] = "check")
  BY <1>1, <1>2, <1>4 DEF Delays, Pending
<1>6. OneMessage'
  BY <1>1, <1>5 DEF BufferInv, OneMessage
<1>7. i[t] < Count[phase]
  BY <1>1, Typed DEF BufferInv, Schedule
<1>8. CASE t = "reader"
  <2>1. pc["writer"] = "created" /\ lag["writer"] = 0
    BY <1>1, <1>8 DEF BufferInv, Schedule
  <2>2. Schedule'
    BY <1>1, <1>2, <1>4, <1>7, <1>8, <2>1 DEF BufferInv, Schedule
  <2> QED
    BY <1>3, <1>6, <2>2 DEF BufferInv
<1>9. CASE t = "writer"
  <2>1. pc["reader"] \in {"created", "transfer"}
    BY <1>1, <1>9 DEF BufferInv, Schedule
  <2>2. pc["reader"] = "transfer" /\ buffer = <<>>
    BY <1>9, <2>1, ReaderBlocks DEF Start
  <2>3. Pending = 0 /\ lag["reader"] >= 0 /\ lag["reader"] \in Int
    BY <1>4, <2>2, Typed DEF Pending, BufferInv, Schedule
  <2>4. Schedule'
    BY <1>1, <1>2, <1>4, <1>5, <1>7, <1>9, <2>2, <2>3 DEF BufferInv, Schedule
  <2> QED
    BY <1>3, <1>6, <2>4 DEF BufferInv
<1> QED
  BY <1>4, <1>8, <1>9

LEMMA WokenKeeps == BufferInv /\ (\E t \in Tasks : Woken(t)) => BufferInv'
<1> SUFFICES ASSUME BufferInv, NEW t \in Tasks, Woken(t) PROVE BufferInv'
  OBVIOUS
<1>1. /\ UNCHANGED <<phase, buffer, lag, value, got>> /\ pc[t] = "delay"
      /\ pc \in [Tasks -> {"created", "transfer", "check", "delay", "done", "error"}]
      /\ i \in [Tasks -> 0 .. Count[phase]]
      /\ i' = [i EXCEPT ![t] = @ + 1]
      /\ pc' = [pc EXCEPT ![t] = IF i[t] + 1 < Count[phase] THEN "transfer" ELSE "done"]
  BY DEF Woken, Goto, BufferInv, TypeOK
<1>2. lag[t] >= 0
  BY <1>1 DEF Woken, Runs, Ready
<1>3. i[t] < Count[phase] /\ i[t] \in Nat /\ Count[phase] \in Nat /\ lag[t] \in Int
  BY <1>1, Typed DEF BufferInv, Schedule
<1>4. /\ pc' \in [Tasks -> {"created", "transfer", "check", "delay", "done", "error"}]
      /\ pc'[t] = IF i[t] + 1 < Count[phase] THEN "transfer" ELSE "done"
      /\ \A u \in Tasks : u # t => pc'[u] = pc[u]
  BY <1>1
<1>5. /\ i' \in [Tasks -> 0 .. Count[phase]]
      /\ i'[t] = i[t] + 1
      /\ \A u \in Tasks : u # t => i'[u] = i[u]
  BY <1>1, <1>3
<1>6. TypeOK' /\ NoError'
  BY <1>1, <1>4, <1>5 DEF BufferInv, TypeOK, NoError
<1>7. "writer" \in Tasks /\ "reader" \in Tasks /\ t \in {"writer", "reader"}
  BY DEF Tasks
<1>8. /\ Delays("writer")' = Delays("writer") /\ Delays("reader")' = Delays("reader") /\ Pending' = Pending
      /\ (pc'["reader"] = "check" <=> pc["reader"] = "check")
  BY <1>1, <1>3, <1>4, <1>5, <1>7 DEF Delays, Pending
<1>9. OneMessage'
  BY <1>1, <1>8 DEF BufferInv, OneMessage
<1>10. Schedule'
  BY <1>1, <1>2, <1>3, <1>4, <1>5, <1>7, <1>8 DEF BufferInv, Schedule
<1> QED
  BY <1>6, <1>9, <1>10 DEF BufferInv

\* The buffer is empty: the message fits.
LEMMA WriteKeeps == BufferInv /\ Write => BufferInv'
<1> SUFFICES ASSUME BufferInv, Write PROVE BufferInv'
  OBVIOUS
<1>1. pc["writer"] = "transfer" /\ Pending = 0 /\ pc["reader"] = "transfer" /\ buffer = <<>>
  BY WriterWaits DEF Write
<1>2. Len(buffer) < Capacity[phase]
  BY <1>1, Typed
<1>3. /\ buffer' = Append(buffer, value["writer"]) /\ value' = [value EXCEPT !["writer"] = ~@]
      /\ pc' = [pc EXCEPT !["writer"] = "delay"] /\ lag' = [lag EXCEPT !["writer"] = @ - 1]
      /\ UNCHANGED <<phase, i, got>>
  BY <1>2 DEF Write, DelayUntil, Goto
<1>4. /\ "writer" \in Tasks /\ "reader" \in Tasks /\ value \in [Tasks -> BOOLEAN] /\ lag \in [Tasks -> -1 .. MaxLag]
      /\ pc \in [Tasks -> {"created", "transfer", "check", "delay", "done", "error"}]
  BY Typed DEF BufferInv, TypeOK
<1>5. /\ lag["writer"] >= 0 /\ lag["reader"] >= 0 /\ i["writer"] < Count[phase]
      /\ lag["writer"] <= lag["reader"] /\ lag["writer"] \in Int /\ lag["reader"] \in Int
  BY <1>1, <1>4, Typed DEF BufferInv, Schedule
<1>6. buffer' = <<value["writer"]>> /\ Len(buffer') = 1 /\ buffer' \in Seq(BOOLEAN)
  BY <1>1, <1>3, <1>4
<1>7. /\ value' \in [Tasks -> BOOLEAN] /\ value'["reader"] = value["reader"]
      /\ value'["writer"] # value["writer"]
  BY <1>3, <1>4, Zenon DEF Tasks
<1>8. value["writer"] = value["reader"]
  BY <1>1 DEF BufferInv, OneMessage
<1>9. /\ pc' \in [Tasks -> {"created", "transfer", "check", "delay", "done", "error"}]
      /\ pc'["writer"] = "delay" /\ pc'["reader"] = "transfer"
  BY <1>1, <1>3, <1>4 DEF Tasks
<1>10. /\ lag' \in [Tasks -> -1 .. MaxLag]
       /\ lag'["writer"] = lag["writer"] - 1 /\ lag'["reader"] = lag["reader"]
  <2>1. lag["writer"] - 1 \in -1 .. MaxLag
    BY <1>4, <1>5, BufferTestAssumption
  <2> QED
    BY <1>3, <1>4, <2>1
<1>11. TypeOK'
  BY <1>2, <1>3, <1>6, <1>7, <1>9, <1>10, Typed DEF BufferInv, TypeOK
<1>12. NoError'
  BY <1>9 DEF NoError, Tasks
<1>13. Pending' = 1
  BY <1>6, <1>9 DEF Pending
<1>14. OneMessage'
  <2>1. Delays("writer")' = Delays("reader")' + 1
    <3>1. Delays("writer") = Delays("reader")
      BY <1>1, <1>4, Typed DEF BufferInv, OneMessage, Delays
    <3> QED
      BY <1>1, <1>3, <1>4, <1>9, <3>1, Typed DEF Delays
  <2>2. value'["writer"] # value'["reader"] /\ buffer'[1] = value'["reader"]
    BY <1>6, <1>7, <1>8
  <2> QED
    BY <1>9, <1>13, <2>1, <2>2 DEF OneMessage
<1>15. Schedule'
  BY <1>1, <1>3, <1>4, <1>5, <1>9, <1>10, <1>13 DEF BufferInv, Schedule, Tasks
<1> QED
  BY <1>11, <1>12, <1>14, <1>15 DEF BufferInv

\* One message is in the buffer: a read of all characters takes it, as does a read of one record.
LEMMA ReadKeeps == BufferInv /\ Read => BufferInv'
<1> SUFFICES ASSUME BufferInv, Read PROVE BufferInv'
  OBVIOUS
<1>1. pc["reader"] = "transfer" /\ buffer # <<>>
  BY DEF Read, Runs, Ready
<1>2. Len(buffer) = 1 /\ Pending = 1 /\ buffer \in Seq(BOOLEAN)
  BY <1>1, Typed DEF Pending, BufferInv, OneMessage
<1>3. /\ got' = SubSeq(buffer, 1, 1) /\ buffer' = SubSeq(buffer, 2, 1)
      /\ pc' = [pc EXCEPT !["reader"] = "check"] /\ UNCHANGED <<phase, i, lag, value>>
  BY <1>2 DEF Read, Goto
<1>4. got' = <<value["reader"]>> /\ got' \in Seq(BOOLEAN) /\ buffer' = <<>> /\ Len(buffer') = 0
  <2>1. buffer[1] = value["reader"]
    BY <1>1 DEF BufferInv, OneMessage
  <2>2. /\ SubSeq(buffer, 1, 1) \in Seq(BOOLEAN) /\ Len(SubSeq(buffer, 1, 1)) = 1
        /\ SubSeq(buffer, 1, 1)[1] = buffer[1]
    BY <1>2
  <2>3. SubSeq(buffer, 1, 1) = <<buffer[1]>>
    BY <2>2, OneElement
  <2>4. buffer' \in Seq(BOOLEAN) /\ Len(buffer') = 0
    BY <1>2, <1>3
  <2> QED
    BY <1>3, <2>1, <2>2, <2>3, <2>4
<1>5. /\ pc' \in [Tasks -> {"created", "transfer", "check", "delay", "done", "error"}]
      /\ pc'["reader"] = "check" /\ pc'["writer"] = pc["writer"]
      /\ "writer" \in Tasks /\ "reader" \in Tasks
  BY <1>3 DEF BufferInv, TypeOK, Tasks
<1>6. TypeOK' /\ NoError'
  BY <1>3, <1>4, <1>5, Typed DEF BufferInv, TypeOK, NoError, Tasks
<1>7. Pending' = 1
  BY <1>4, <1>5 DEF Pending
<1>8. Delays("writer")' = Delays("writer") /\ Delays("reader")' = Delays("reader")
  BY <1>1, <1>3, <1>5 DEF Delays
<1>9. OneMessage'
  BY <1>2, <1>3, <1>4, <1>7, <1>8 DEF BufferInv, OneMessage
<1>10. Schedule'
  <2>1. lag["writer"] \in Int /\ lag["reader"] \in Int /\ pc["writer"] # "created"
    <3>1. Delays("writer") = Delays("reader") + 1
      BY <1>2 DEF BufferInv, OneMessage
    <3>2. pc["writer"] = "created" => Delays("writer") = 0
      BY Typed DEF Delays, BufferInv, Schedule
    <3>3. Delays("reader") >= 0 /\ Delays("reader") \in Int
      BY Typed DEF Delays
    <3> QED
      BY <3>1, <3>2, <3>3, Typed
  <2> QED
    BY <1>1, <1>2, <1>3, <1>5, <1>7, <2>1 DEF BufferInv, Schedule, Tasks
<1> QED
  BY <1>6, <1>9, <1>10 DEF BufferInv

\* The message is the one due.
LEMMA CheckKeeps == BufferInv /\ Check => BufferInv'
<1> SUFFICES ASSUME BufferInv, Check PROVE BufferInv'
  OBVIOUS
<1>1. pc["reader"] = "check" /\ got = <<value["reader"]>>
  BY DEF Check, BufferInv, OneMessage
<1>2. Len(got) = 1 /\ got[1] = value["reader"]
  BY <1>1
<1>3. /\ pc' = [pc EXCEPT !["reader"] = "delay"] /\ lag' = [lag EXCEPT !["reader"] = @ - 1]
      /\ value' = [value EXCEPT !["reader"] = ~@] /\ UNCHANGED <<phase, buffer, i, got>>
  BY <1>2 DEF Check, DelayUntil, Goto
<1>4. /\ "writer" \in Tasks /\ "reader" \in Tasks /\ value \in [Tasks -> BOOLEAN] /\ lag \in [Tasks -> -1 .. MaxLag]
      /\ pc \in [Tasks -> {"created", "transfer", "check", "delay", "done", "error"}]
  BY Typed DEF BufferInv, TypeOK
<1>5. Len(buffer) = 0 /\ buffer = <<>> /\ Pending = 1
  BY <1>1, Typed DEF BufferInv, OneMessage, Pending
<1>6. /\ pc["writer"] \notin {"created", "check", "error"} /\ lag["reader"] >= 0 /\ i["reader"] < Count[phase]
      /\ pc["writer"] # "done" => lag["writer"] + 1 <= lag["reader"]
      /\ lag["writer"] \in Int /\ lag["reader"] \in Int
  BY <1>1, <1>4, <1>5, Typed DEF BufferInv, Schedule
<1>7. /\ value' \in [Tasks -> BOOLEAN] /\ value'["writer"] = value["writer"]
      /\ value'["reader"] = value["writer"]
  <2>1. value["writer"] # value["reader"]
    BY <1>5 DEF BufferInv, OneMessage
  <2> QED
    BY <1>3, <1>4, <2>1, Zenon DEF Tasks
<1>8. /\ pc' \in [Tasks -> {"created", "transfer", "check", "delay", "done", "error"}]
      /\ pc'["reader"] = "delay" /\ pc'["writer"] = pc["writer"]
  BY <1>3, <1>4 DEF Tasks
<1>9. /\ lag' \in [Tasks -> -1 .. MaxLag]
      /\ lag'["reader"] = lag["reader"] - 1 /\ lag'["writer"] = lag["writer"]
  <2>1. lag["reader"] - 1 \in -1 .. MaxLag
    BY <1>4, <1>6, BufferTestAssumption
  <2> QED
    BY <1>3, <1>4, <2>1
<1>10. TypeOK' /\ NoError'
  BY <1>3, <1>6, <1>7, <1>8, <1>9, Typed DEF BufferInv, TypeOK, NoError, Tasks
<1>11. Pending' = 0
  BY <1>3, <1>5, <1>8 DEF Pending
<1>12. OneMessage'
  <2>1. Delays("writer")' = Delays("reader")'
    <3>1. Delays("writer") = Delays("reader") + 1
      BY <1>5 DEF BufferInv, OneMessage
    <3> QED
      BY <1>1, <1>3, <1>4, <1>8, <3>1, Typed DEF Delays
  <2>2. Delays("reader")' \in Int
    BY <1>3, <1>4, Typed DEF Delays
  <2> QED
    BY <1>3, <1>5, <1>7, <1>8, <1>11, <2>1, <2>2 DEF OneMessage
<1>13. Schedule'
  BY <1>1, <1>3, <1>6, <1>8, <1>9, <1>11 DEF BufferInv, Schedule, Tasks
<1> QED
  BY <1>10, <1>12, <1>13 DEF BufferInv

LEMMA SecondPhase == BufferInv /\ bufferInit2 => BufferInv'
<1> SUFFICES ASSUME BufferInv, bufferInit2 PROVE BufferInv'
  OBVIOUS
<1>1. got' \in Seq(BOOLEAN) /\ phase' \in {1, 2}
  BY DEF bufferInit2, BufferInv, TypeOK
<1> QED
  BY <1>1, Begins DEF bufferInit2

-----------------------------------------------------------------------------
(* Theorems *)

\* The inductive invariant: one message at most is on its way, and a writer that could write lags
\* no more than the reader.
THEOREM BufferInductive == Spec => []BufferInv
<1>1. BufferInv /\ [Next]_vars => BufferInv'
  <2> SUFFICES ASSUME BufferInv, [Next]_vars PROVE BufferInv'
    OBVIOUS
  <2>1. CASE writer
    BY <2>1, StartKeeps, WriteKeeps, WokenKeeps DEF writer, Tasks
  <2>2. CASE reader
    BY <2>2, StartKeeps, ReadKeeps, CheckKeeps, WokenKeeps, SecondPhase DEF reader, Tasks
  <2>3. CASE Tick
    BY <2>3, TickKeeps
  <2>4. CASE UNCHANGED vars
    BY <2>4 DEF vars, BufferInv, TypeOK, NoError, OneMessage, Schedule, Delays, Pending
  <2> QED
    BY <2>1, <2>2, <2>3, <2>4 DEF Next
<1> QED
  BY <1>1, InitBufferInv, PTL DEF Spec

\* buffertest.c:98-166: neither task enters its error loop, however far the tasks lag behind their
\* ticks and however small the buffer is.
THEOREM NoErrorEver == Spec => []NoError
<1>1. BufferInv => NoError
  BY DEF BufferInv
<1> QED
  BY <1>1, BufferInductive, PTL
=============================================================================
