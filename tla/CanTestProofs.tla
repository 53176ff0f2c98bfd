--------------------------- MODULE CanTestProofs ---------------------------
(***************************************************************************)
(* The CAN test, proved for queues of any length, any set of errors and    *)
(* any number of frames and error interrupts.                              *)
(***************************************************************************)
EXTENDS CanTest, TLAPS

\* The flags are those of the errors raised; the task takes them with the interrupts disabled.
Flags ==
    /\ can_err = Bits(raised).err /\ can_err_data = Bits(raised).data
    /\ interrupts <=> task \notin {"copy", "clear", "eint"}
    /\ task = "clear" => tmp = Bits(raised)
    /\ task \in {"eint", "print"} => tmp = Bits(taken)

\* Nothing is received before the setup is done, and each frame once.
Reception ==
    /\ task \in {"init", "setup"} => received = 0
    /\ dropped \subseteq 1 .. received
    /\ PrintedInOrder

CanInv == TypeOK /\ Flags /\ Reception /\ EchoedInOrder

-----------------------------------------------------------------------------
(* Lemmas about sequences *)

\* A list that a queue's head moves to, and a queue that grows.
LEMMA MoveHead ==
    ASSUME NEW S, NEW s \in Seq(S), NEW q \in Seq(S), q # <<>>
    PROVE  Append(s, Head(q)) \o Tail(q) = s \o q
<1>1. Head(q) \in S /\ Tail(q) \in Seq(S) /\ Len(Tail(q)) = Len(q) - 1 /\ Len(q) > 0
  OBVIOUS
<1>2. Append(s, Head(q)) \in Seq(S) /\ Len(Append(s, Head(q))) = Len(s) + 1
  BY <1>1
<1>3. Len(Append(s, Head(q)) \o Tail(q)) = Len(s \o q)
  BY <1>1, <1>2
<1>4. \A i \in 1 .. Len(s \o q) : (Append(s, Head(q)) \o Tail(q))[i] = (s \o q)[i]
  BY <1>1, <1>2
<1> QED
  BY <1>1, <1>2, <1>3, <1>4

LEMMA AppendMoves ==
    ASSUME NEW S, NEW s \in Seq(S), NEW q \in Seq(S), NEW x \in S
    PROVE  s \o Append(q, x) = Append(s \o q, x)
OBVIOUS

\* Frames in the order of their numbers, some of the first n left out.
Ordered(s, n, out) ==
    /\ \A i, j \in 1 .. Len(s) : i < j => s[i] < s[j]
    /\ {s[i] : i \in 1 .. Len(s)} = (1 .. n) \ out

LEMMA OrderedAppend ==
    ASSUME NEW s \in Seq(Frame), NEW n \in Nat, n + 1 \in Frame, NEW out, out \subseteq 1 .. n, Ordered(s, n, out)
    PROVE  /\ Ordered(Append(s, n + 1), n + 1, out)
           /\ Ordered(s, n + 1, out \cup {n + 1})
<1>1. \A i \in 1 .. Len(s) : s[i] \in 1 .. n
  BY DEF Ordered
<1> DEFINE a == Append(s, n + 1)
<1>2. /\ Len(a) = Len(s) + 1 /\ a[Len(s) + 1] = n + 1 /\ Len(s) \in Nat
      /\ \A i \in 1 .. Len(s) : a[i] = s[i]
  OBVIOUS
<1> HIDE DEF a
<1>3. \A i, j \in 1 .. Len(a) : i < j => a[i] < a[j]
  <2> SUFFICES ASSUME NEW i \in 1 .. Len(a), NEW j \in 1 .. Len(a), i < j PROVE a[i] < a[j]
    OBVIOUS
  <2>1. i \in 1 .. Len(s) /\ a[i] = s[i] /\ a[i] \in 1 .. n
    BY <1>1, <1>2
  <2>2. CASE j = Len(s) + 1
    BY <1>2, <2>1, <2>2
  <2>3. CASE j # Len(s) + 1
    <3>1. j \in 1 .. Len(s) /\ a[j] = s[j]
      BY <1>2, <2>3
    <3> QED
      BY <2>1, <3>1 DEF Ordered
  <2> QED
    BY <2>2, <2>3
<1>4. {a[i] : i \in 1 .. Len(a)} = {s[i] : i \in 1 .. Len(s)} \cup {n + 1}
  <2>1. \A i \in 1 .. Len(a) : i \in 1 .. Len(s) \/ i = Len(s) + 1
    BY <1>2
  <2>2. Len(s) + 1 \in 1 .. Len(a) /\ \A i \in 1 .. Len(s) : i \in 1 .. Len(a)
    BY <1>2
  <2> QED
    BY <1>2, <2>1, <2>2
<1>5. (1 .. n + 1) \ out = ((1 .. n) \ out) \cup {n + 1}
  OBVIOUS
<1>6. (1 .. n + 1) \ (out \cup {n + 1}) = (1 .. n) \ out
  OBVIOUS
<1> QED
  BY <1>3, <1>4, <1>5, <1>6 DEF Ordered, a

LEMMA PrintedIs ==
    ASSUME TypeOK
    PROVE  /\ PrintedInOrder <=> Ordered(printed \o queue, received, dropped)
           /\ printed \o queue \in Seq(Frame)
<1>1. printed \in Seq(Frame) /\ queue \in Seq(Frame) /\ Frame \subseteq Nat
  BY DEF TypeOK, Frame
<1>2. printed \o queue \in Seq(Frame) /\ DOMAIN (printed \o queue) = 1 .. Len(printed \o queue)
  BY <1>1
<1> QED
  BY <1>2 DEF PrintedInOrder, Ordered

\* What has been sent, and is waiting to be.
Numbered(s, n) == Len(s) = n /\ \A i \in 1 .. Len(s) : s[i] = i

LEMMA NumberedAppend ==
    ASSUME NEW s \in Seq(Frame), NEW n \in Nat, n + 1 \in Frame, Numbered(s, n)
    PROVE  Numbered(Append(s, n + 1), n + 1)
BY DEF Numbered

EchoCount ==
    IF test # "echo" THEN accepted
    ELSE IF stopped /\ received > 0 THEN received - 1 ELSE received

LEMMA EchoedIs ==
    ASSUME TypeOK
    PROVE  /\ EchoedInOrder <=> Numbered(echoed \o tx, EchoCount)
           /\ echoed \o tx \in Seq(Frame) /\ EchoCount \in Nat
<1>1. echoed \in Seq(Frame) /\ tx \in Seq(Frame) /\ Frame \subseteq Nat
  BY DEF TypeOK, Frame
<1>2. echoed \o tx \in Seq(Frame) /\ DOMAIN (echoed \o tx) = 1 .. Len(echoed \o tx)
  BY <1>1
<1>3. EchoCount \in Nat
  BY CanTestAssumption DEF TypeOK, EchoCount
<1> QED
  BY <1>2, <1>3 DEF EchoedInOrder, Numbered, EchoCount

-----------------------------------------------------------------------------
(* The steps keep CanInv *)

LEMMA InitCanInv == Init => CanInv
<1> SUFFICES ASSUME Init PROVE CanInv
  OBVIOUS
<1>1. TypeOK
  <2>1. interrupts \in BOOLEAN /\ stopped \in BOOLEAN
    BY Zenon DEF Init
  <2> QED
    BY <2>1, CanTestAssumption DEF Init, TypeOK
<1>2. Flags
  BY DEF Init, Flags, Bits
<1>3. Reception
  <2>1. PrintedInOrder
    BY DEF Init, PrintedInOrder
  <2> QED
    BY <2>1 DEF Init, Reception
<1>4. EchoedInOrder
  BY DEF Init, EchoedInOrder
<1> QED
  BY <1>1, <1>2, <1>3, <1>4 DEF CanInv

\* A frame arrives: it is queued or dropped.
LEMMA ArrivesKeeps ==
    ASSUME CanInv, NEW form, Arrives(form), tx' \in Seq(Frame), Len(tx') <= TxLength, stopped' \in BOOLEAN
    PROVE  TypeOK' /\ Flags' /\ Reception' /\ received + 1 \in Frame
<1>1. /\ received \in Nat /\ received' = received + 1 /\ received + 1 \in Frame /\ dropped \subseteq Frame
      /\ queue \in Seq(Frame) /\ Len(queue) <= QueueLength /\ printed \in Seq(Frame)
      /\ received' \in 0 .. MaxFrames
  BY CanTestAssumption DEF CanInv, TypeOK, Arrives, Frame
<1>2. /\ UNCHANGED <<test, printed, accepted, echoed, task, interrupts>>
      /\ UNCHANGED <<can_err, can_err_data, tmp, raised, taken, errorCount>>
      /\ task \notin {"init", "setup"}
  BY DEF Arrives, flags
<1>3. \/ Len(queue) < QueueLength /\ queue' = Append(queue, received + 1) /\ dropped' = dropped
      \/ queue' = queue /\ dropped' = dropped \cup {received + 1}
  BY DEF Arrives, Enqueue
<1>4. queue' \in Seq(Frame) /\ Len(queue') <= QueueLength /\ dropped' \subseteq Frame
  <2>1. CASE queue' = Append(queue, received + 1) /\ Len(queue) < QueueLength /\ dropped' = dropped
    BY <1>1, <2>1, CanTestAssumption
  <2>2. CASE queue' = queue /\ dropped' = dropped \cup {received + 1}
    BY <1>1, <2>2
  <2> QED
    BY <1>3, <2>1, <2>2
<1>5. TypeOK'
  BY <1>1, <1>2, <1>4 DEF CanInv, TypeOK
<1>6. Flags'
  BY <1>2 DEF CanInv, Flags
<1>7. Ordered(printed \o queue, received, dropped) /\ dropped \subseteq 1 .. received /\ printed \o queue \in Seq(Frame)
  BY PrintedIs DEF CanInv, Reception
<1>8. Ordered(printed' \o queue', received', dropped')
  <2>1. /\ Ordered(Append(printed \o queue, received + 1), received + 1, dropped)
        /\ Ordered(printed \o queue, received + 1, dropped \cup {received + 1})
    BY <1>1, <1>7, OrderedAppend
  <2>2. printed \o Append(queue, received + 1) = Append(printed \o queue, received + 1)
    BY <1>1, AppendMoves
  <2> QED
    BY <1>1, <1>2, <1>3, <2>1, <2>2
<1>9. PrintedInOrder'
  <2>1. (printed' \o queue') \in Seq(Frame)
    BY <1>1, <1>2, <1>4
  <2>2. DOMAIN (printed' \o queue') = 1 .. Len(printed' \o queue')
    BY <2>1
  <2> QED
    BY <1>8, <2>2 DEF PrintedInOrder, Ordered
<1>10. dropped' \subseteq 1 .. received'
  <2>1. 1 .. received \subseteq 1 .. received' /\ received + 1 \in 1 .. received'
    BY <1>1
  <2> QED
    BY <1>3, <1>7, <2>1
<1> QED
  BY <1>1, <1>2, <1>5, <1>6, <1>9, <1>10 DEF Reception

LEMMA EchoKeeps == CanInv /\ can_test_msg_received => CanInv'
<1> SUFFICES ASSUME CanInv, can_test_msg_received PROVE CanInv'
  OBVIOUS
<1>1. Arrives("echo") /\ Echo(received + 1) /\ ~stopped /\ test = "echo" /\ test' = "echo"
  BY DEF can_test_msg_received, Arrives
<1>2. /\ received \in Nat /\ received' = received + 1 /\ received + 1 \in Frame
      /\ tx \in Seq(Frame) /\ Len(tx) <= TxLength /\ echoed \in Seq(Frame) /\ echoed' = echoed
  BY <1>1, CanTestAssumption DEF CanInv, TypeOK, Arrives, Frame
<1>3. \/ Len(tx) < TxLength /\ tx' = Append(tx, received + 1) /\ stopped' = FALSE
      \/ tx' = tx /\ stopped' = TRUE
  <2>1. stopped = FALSE
    BY <1>1 DEF CanInv, TypeOK
  <2> QED
    BY <1>1, <2>1 DEF Echo
<1>4. tx' \in Seq(Frame) /\ Len(tx') <= TxLength
  BY <1>2, <1>3, CanTestAssumption
<1>5. stopped' \in BOOLEAN
  BY <1>3, Zenon
<1>6. TypeOK' /\ Flags' /\ Reception'
  BY <1>1, <1>4, <1>5, ArrivesKeeps
<1>7. Numbered(echoed \o tx, received) /\ echoed \o tx \in Seq(Frame)
  BY <1>1, EchoedIs DEF CanInv, EchoCount
<1>8. EchoedInOrder'
  <2>1. echoed' \o tx' \in Seq(Frame) /\ DOMAIN (echoed' \o tx') = 1 .. Len(echoed' \o tx')
    BY <1>2, <1>4
  <2>2. CASE Len(tx) < TxLength /\ tx' = Append(tx, received + 1) /\ stopped' = FALSE
    <3>1. echoed \o Append(tx, received + 1) = Append(echoed \o tx, received + 1)
      BY <1>2, AppendMoves
    <3>2. Numbered(echoed' \o tx', received')
      BY <1>2, <1>7, <2>2, <3>1, NumberedAppend
    <3> QED
      BY <1>1, <2>1, <2>2, <3>2 DEF EchoedInOrder, Numbered
  <2>3. CASE tx' = tx /\ stopped' = TRUE
    <3>1. Numbered(echoed' \o tx', received' - 1) /\ received' > 0
      BY <1>2, <1>7, <2>3
    <3> QED
      BY <1>1, <2>1, <2>3, <3>1 DEF EchoedInOrder, Numbered
  <2> QED
    BY <1>3, <2>2, <2>3
<1> QED
  BY <1>6, <1>8 DEF CanInv

LEMMA DriverKeeps == CanInv /\ DriverReceives => CanInv'
<1> SUFFICES ASSUME CanInv, DriverReceives PROVE CanInv'
  OBVIOUS
<1>1. Arrives("recv") /\ UNCHANGED <<tx, stopped>> /\ test = "recv" /\ UNCHANGED <<test, echoed, accepted>>
  BY DEF DriverReceives, Arrives
<1>2. tx' \in Seq(Frame) /\ Len(tx') <= TxLength /\ stopped' \in BOOLEAN
  BY <1>1 DEF CanInv, TypeOK
<1>3. TypeOK' /\ Flags' /\ Reception'
  BY <1>1, <1>2, ArrivesKeeps
<1>4. EchoedInOrder'
  BY <1>1 DEF CanInv, EchoedInOrder
<1> QED
  BY <1>3, <1>4 DEF CanInv

\* An error sets both its flags at once, and only with the interrupts enabled.
LEMMA ErrorKeeps == CanInv /\ can_test_error => CanInv'
<1> SUFFICES ASSUME CanInv, can_test_error PROVE CanInv'
  OBVIOUS
<1>1. PICK e \in Errors :
        /\ can_err' = can_err \cup {e[1]}
        /\ can_err_data' = can_err_data \cup {e[2]}
        /\ raised' = raised \cup {e}
  BY DEF can_test_error
<1>2. /\ UNCHANGED <<test, tmp, taken, task, interrupts, stopped>>
      /\ UNCHANGED <<received, queue, printed, dropped, accepted, tx, echoed>>
      /\ interrupts /\ errorCount' = errorCount + 1 /\ errorCount < MaxErrors
  BY DEF can_test_error, frames
<1>3. e[1] \in 0 .. 6 /\ e[2] \in Nat
  BY CanTestAssumption
<1>4. TypeOK'
  <2>1. errorCount' \in 0 .. MaxErrors
    BY <1>2, CanTestAssumption DEF CanInv, TypeOK
  <2>2. can_err' \subseteq 0 .. 6 /\ can_err_data' \subseteq Nat /\ raised' \subseteq Errors
    BY <1>1, <1>3 DEF CanInv, TypeOK
  <2> QED
    BY <1>2, <2>1, <2>2 DEF CanInv, TypeOK
<1>5. Flags'
  <2>1. can_err' = Bits(raised').err /\ can_err_data' = Bits(raised').data
    BY <1>1 DEF CanInv, Flags, Bits
  <2>2. task \notin {"copy", "clear", "eint"}
    BY <1>2 DEF CanInv, Flags
  <2> QED
    BY <1>2, <2>1, <2>2 DEF CanInv, Flags
<1>6. Reception' /\ EchoedInOrder'
  BY <1>2 DEF CanInv, Reception, PrintedInOrder, EchoedInOrder
<1> QED
  BY <1>4, <1>5, <1>6 DEF CanInv

LEMMA TransmitKeeps == CanInv /\ Transmit => CanInv'
<1> SUFFICES ASSUME CanInv, Transmit PROVE CanInv'
  OBVIOUS
<1>1. /\ tx # <<>> /\ tx' = Tail(tx) /\ echoed' = Append(echoed, Head(tx))
      /\ UNCHANGED <<test, received, queue, printed, dropped, accepted, task, interrupts, stopped>>
      /\ UNCHANGED <<can_err, can_err_data, tmp, raised, taken, errorCount>>
  BY DEF Transmit, flags
<1>2. tx \in Seq(Frame) /\ echoed \in Seq(Frame) /\ Len(tx) <= TxLength
  BY DEF CanInv, TypeOK
<1>3. tx' \in Seq(Frame) /\ Len(tx') <= TxLength /\ echoed' \in Seq(Frame)
  BY <1>1, <1>2, CanTestAssumption
<1>4. echoed' \o tx' = echoed \o tx
  BY <1>1, <1>2, MoveHead
<1>5. TypeOK'
  BY <1>1, <1>3 DEF CanInv, TypeOK
<1>6. Flags' /\ Reception' /\ EchoedInOrder'
  BY <1>1, <1>4 DEF CanInv, Flags, Reception, PrintedInOrder, EchoedInOrder
<1> QED
  BY <1>5, <1>6 DEF CanInv

LEMMA SetupKeeps == CanInv /\ Setup => CanInv'
<1> SUFFICES ASSUME CanInv, Setup PROVE CanInv'
  OBVIOUS
<1>1. /\ UNCHANGED <<test, interrupts, received, queue, printed, dropped, accepted, tx, echoed>>
      /\ UNCHANGED <<can_err, can_err_data, tmp, raised, taken, errorCount>>
      /\ task \in {"init", "setup"} /\ ~stopped
      /\ \/ task' \in {"setup", "work"} /\ UNCHANGED stopped
         \/ stopped' = TRUE /\ UNCHANGED task
  BY DEF Setup, Step, frames, flags
<1>2. task' \in {"init", "setup", "work"} /\ received = 0
  BY <1>1 DEF CanInv, Reception
<1>3. stopped' \in BOOLEAN
  BY <1>1, Zenon DEF CanInv, TypeOK
<1>4. TypeOK'
  BY <1>1, <1>2, <1>3 DEF CanInv, TypeOK
<1>5. Flags' /\ Reception'
  BY <1>1, <1>2 DEF CanInv, Flags, Reception, PrintedInOrder
<1>6. EchoedInOrder'
  BY <1>1, <1>2 DEF CanInv, EchoedInOrder
<1> QED
  BY <1>4, <1>5, <1>6 DEF CanInv

LEMMA ReceiveKeeps == CanInv /\ Receive => CanInv'
<1> SUFFICES ASSUME CanInv, Receive PROVE CanInv'
  OBVIOUS
<1>1. /\ task = "work" /\ task' = "check" /\ queue # <<>>
      /\ printed' = Append(printed, Head(queue)) /\ queue' = Tail(queue)
      /\ UNCHANGED <<test, received, dropped, accepted, tx, echoed, interrupts, stopped>>
      /\ UNCHANGED <<can_err, can_err_data, tmp, raised, taken, errorCount>>
  BY DEF Receive, Step, flags
<1>2. queue \in Seq(Frame) /\ printed \in Seq(Frame) /\ Len(queue) <= QueueLength
  BY DEF CanInv, TypeOK
<1>3. queue' \in Seq(Frame) /\ Len(queue') <= QueueLength /\ printed' \in Seq(Frame)
  BY <1>1, <1>2, CanTestAssumption
<1>4. printed' \o queue' = printed \o queue
  BY <1>1, <1>2, MoveHead
<1>5. TypeOK'
  BY <1>1, <1>3 DEF CanInv, TypeOK
<1>6. Flags' /\ Reception' /\ EchoedInOrder'
  BY <1>1, <1>4 DEF CanInv, Flags, Reception, PrintedInOrder, EchoedInOrder
<1> QED
  BY <1>5, <1>6 DEF CanInv

LEMMA SendKeeps == CanInv /\ Send => CanInv'
<1> SUFFICES ASSUME CanInv, Send PROVE CanInv'
  OBVIOUS
<1>1. /\ test = "send" /\ task = "work" /\ task' = "check"
      /\ UNCHANGED <<test, received, queue, printed, dropped, echoed, interrupts, stopped>>
      /\ UNCHANGED <<can_err, can_err_data, tmp, raised, taken, errorCount>>
      /\ \/ /\ accepted < MaxFrames /\ Len(tx) < TxLength
            /\ accepted' = accepted + 1 /\ tx' = Append(tx, accepted + 1)
         \/ UNCHANGED <<accepted, tx>>
  BY DEF Send, Step, flags
<1>2. /\ tx \in Seq(Frame) /\ Len(tx) <= TxLength /\ accepted \in Nat /\ echoed \in Seq(Frame)
      /\ Frame \subseteq Nat
  BY DEF CanInv, TypeOK, Frame
<1>3. tx' \in Seq(Frame) /\ Len(tx') <= TxLength /\ accepted' \in 0 .. MaxFrames
  <2>1. CASE UNCHANGED <<accepted, tx>>
    BY <1>2, <2>1 DEF CanInv, TypeOK
  <2>2. CASE /\ accepted < MaxFrames /\ Len(tx) < TxLength
             /\ accepted' = accepted + 1 /\ tx' = Append(tx, accepted + 1)
    <3>1. accepted + 1 \in Frame /\ accepted' \in 0 .. MaxFrames
      BY <1>2, <2>2, CanTestAssumption DEF Frame
    <3> QED
      BY <1>2, <2>2, <3>1, CanTestAssumption
  <2> QED
    BY <1>1, <2>1, <2>2
<1>4. TypeOK'
  BY <1>1, <1>3 DEF CanInv, TypeOK
<1>5. Flags' /\ Reception'
  BY <1>1 DEF CanInv, Flags, Reception, PrintedInOrder
<1>6. EchoedInOrder'
  <2>1. Numbered(echoed \o tx, accepted) /\ echoed \o tx \in Seq(Frame)
    BY <1>1, EchoedIs DEF CanInv, EchoCount
  <2>2. CASE UNCHANGED <<accepted, tx>>
    BY <1>1, <2>2 DEF CanInv, EchoedInOrder
  <2>3. CASE accepted' = accepted + 1 /\ tx' = Append(tx, accepted + 1) /\ accepted < MaxFrames
    <3>1. accepted + 1 \in Frame
      BY <1>2, <2>3, CanTestAssumption DEF Frame
    <3>2. echoed' \o tx' = Append(echoed \o tx, accepted + 1)
      BY <1>1, <1>2, <2>3, <3>1, AppendMoves
    <3>3. Numbered(echoed' \o tx', accepted')
      BY <1>2, <2>1, <2>3, <3>1, <3>2, NumberedAppend
    <3>4. DOMAIN (echoed' \o tx') = 1 .. Len(echoed' \o tx')
      BY <1>1, <1>2, <1>3
    <3> QED
      BY <1>1, <3>3, <3>4 DEF EchoedInOrder, Numbered
  <2> QED
    BY <1>1, <2>2, <2>3
<1> QED
  BY <1>4, <1>5, <1>6 DEF CanInv

\* The task takes the flags: dint, copy, clear, eint.
LEMMA TakeKeeps ==
    CanInv /\ (TimeOut \/ Check \/ Dint \/ Copy \/ Clear \/ Eint \/ print_can_error) => CanInv'
<1> SUFFICES ASSUME CanInv, TimeOut \/ Check \/ Dint \/ Copy \/ Clear \/ Eint \/ print_can_error
             PROVE  CanInv'
  OBVIOUS
<1>1. /\ UNCHANGED <<test, stopped, errorCount, received, queue, printed, dropped, accepted, tx, echoed>>
      /\ task \notin {"init", "setup"}
      /\ task' \in {"work", "check", "dint", "copy", "clear", "eint", "print"}
  BY DEF TimeOut, Check, Dint, Copy, Clear, Eint, print_can_error, Step, frames, flags
<1>2. Reception' /\ EchoedInOrder'
  BY <1>1 DEF CanInv, Reception, PrintedInOrder, EchoedInOrder
<1>3. interrupts' \in BOOLEAN
  BY Zenon DEF TimeOut, Check, Dint, Copy, Clear, Eint, print_can_error, CanInv, TypeOK
<1>4. /\ can_err' \subseteq 0 .. 6 /\ can_err_data' \subseteq Nat
      /\ raised' \subseteq Errors /\ taken' \subseteq Errors
  BY DEF TimeOut, Check, Dint, Copy, Clear, Eint, print_can_error, CanInv, TypeOK, flags
<1>5. TypeOK'
  BY <1>1, <1>3, <1>4 DEF CanInv, TypeOK
<1>6. Flags'
  <2>1. CASE TimeOut \/ Check \/ print_can_error
    BY <2>1 DEF TimeOut, Check, print_can_error, Step, flags, CanInv, Flags
  <2>2. CASE Dint
    BY <2>2 DEF Dint, Step, flags, CanInv, Flags
  <2>3. CASE Copy
    <3>1. tmp' = Bits(raised)
      BY <2>3 DEF Copy, CanInv, Flags, Bits
    <3> QED
      BY <2>3, <3>1 DEF Copy, Step, CanInv, Flags
  <2>4. CASE Clear
    <3>1. tmp' = Bits(taken')
      BY <2>4 DEF Clear, Step, CanInv, Flags
    <3>2. can_err' = Bits(raised').err /\ can_err_data' = Bits(raised').data
      BY <2>4 DEF Clear, Bits
    <3> QED
      BY <2>4, <3>1, <3>2 DEF Clear, Step, CanInv, Flags
  <2>5. CASE Eint
    BY <2>5 DEF Eint, Step, flags, CanInv, Flags
  <2> QED
    BY <2>1, <2>2, <2>3, <2>4, <2>5
<1> QED
  BY <1>2, <1>5, <1>6 DEF CanInv

LEMMA ToggleKeeps == CanInv /\ Toggle => CanInv'
<1> SUFFICES ASSUME CanInv, Toggle PROVE CanInv'
  OBVIOUS
<1>1. /\ UNCHANGED <<test, task, interrupts, received, queue, printed, dropped, accepted, tx, echoed>>
      /\ UNCHANGED <<can_err, can_err_data, tmp, raised, taken, errorCount>>
      /\ stopped' \in BOOLEAN /\ test = "toggle"
  BY DEF Toggle, frames, flags
<1>2. TypeOK'
  BY <1>1 DEF CanInv, TypeOK
<1>3. Flags' /\ Reception'
  BY <1>1 DEF CanInv, Flags, Reception, PrintedInOrder
<1>4. EchoedInOrder'
  BY <1>1 DEF CanInv, EchoedInOrder
<1> QED
  BY <1>2, <1>3, <1>4 DEF CanInv

-----------------------------------------------------------------------------
(* Theorems *)

\* The inductive invariant: the flags are those of the errors raised, and the frames printed, queued
\* and sent account for those received.
THEOREM CanInductive == Spec => []CanInv
<1>1. CanInv /\ [Next]_vars => CanInv'
  <2> SUFFICES ASSUME CanInv, [Next]_vars PROVE CanInv'
    OBVIOUS
  <2>1. CASE can_task
    BY <2>1, SetupKeeps, ReceiveKeeps, SendKeeps, TakeKeeps, ToggleKeeps DEF can_task
  <2>2. CASE can_test_msg_received \/ DriverReceives \/ can_test_error \/ Transmit
    BY <2>2, EchoKeeps, DriverKeeps, ErrorKeeps, TransmitKeeps
  <2>3. CASE UNCHANGED vars
    BY <2>3 DEF vars, frames, flags, CanInv, TypeOK, Flags, Reception, PrintedInOrder, EchoedInOrder
  <2> QED
    BY <2>1, <2>2, <2>3 DEF Next
<1> QED
  BY <1>1, InitCanInv, PTL DEF Spec

\* can_task (can_test.c) prints the flags of every error since the last report and no others, although
\* the interrupt that sets them may come at any step but those between DINT and EINT.
THEOREM ReportsComplete == Spec => []ReportComplete
<1>1. CanInv => ReportComplete
  BY DEF CanInv, Flags, ReportComplete
<1> QED
  BY <1>1, CanInductive, PTL

\* The frames printed are those the callback received, in their order, but for those it found the
\* queue full for.
THEOREM PrintsInOrder == Spec => []PrintedInOrder
<1>1. CanInv => PrintedInOrder
  BY DEF CanInv, Reception
<1> QED
  BY <1>1, CanInductive, PTL

\* The callback sends every frame back once and in order, also one the queue refused, and stops at the
\* assertion of the first the controller has no room for.
THEOREM EchoesInOrder == Spec => []EchoedInOrder
<1>1. CanInv => EchoedInOrder
  BY DEF CanInv
<1> QED
  BY <1>1, CanInductive, PTL
=============================================================================
