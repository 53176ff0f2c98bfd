------------------------ MODULE RemoteControlProofs ------------------------
(***************************************************************************)
(* The remote control receiver, proved for any number of channels, any      *)
(* limits, periods and signals: what a reader gets, when a channel is       *)
(* dropped and when it is not, and how old the value of a steady signal is. *)
(***************************************************************************)
EXTENDS RemoteControl, FiniteSetTheorems, TLAPS

Pos == Period - ovf     \* time since the last overflow

-----------------------------------------------------------------------------
(* The failsafe *)

Types ==
    /\ TypeOK
    /\ \A c \in Channels : line[c].width <= Frame
    /\ got = 0 \/ IsPulse(got)

\* Before the scheduler runs no time has passed; the channels are set up in order.
Setup ==
    /\ \E n \in 0 .. setting.receivers : inUse = 0 .. n - 1
    /\ \A c \in Channels \ inUse : ch[c] = NoSignal
    /\ boot # "run" =>
          /\ ovf = Period
          /\ \A c \in Channels :
                /\ age[c] = Old /\ ch[c] = NoSignal /\ ~line[c].high /\ line[c].width = 0
                /\ c < setting.receivers => line[c].left \in setting.offsets

\* retry tells in which period of the timer the last measurement was accepted.
Failsafe ==
    \A c \in Channels :
        /\ ch[c].corret => age[c] <= IF ch[c].retry THEN Pos ELSE Period + Pos
        /\ age[c] < Pos => ch[c].corret /\ ch[c].retry
        /\ age[c] < Period + Pos => ch[c].corret

RcInv == Types /\ Setup /\ Failsafe

-----------------------------------------------------------------------------
(* A steady signal *)

\* The times of a servo signal: of two edges the capture timer sees only those of a pulse close
\* together; a frame is shorter than the period of the timer, by more than a pulse; and what is
\* measured across the end of the period is longer than any pulse.
ServoTimes ==
    /\ RC_MAX + RC_MAX <= Frame
    /\ Frame + RC_MAX <= Period
    /\ Period + RC_MAX <= UINT16_MAX
    /\ \A s \in Settings :
          (s.dropouts = {0} /\ ~s.mayFail /\ \A w \in s.widths : IsPulse(w)) => s.offsets \subseteq RC_MAX .. Period

\* Time since the last edge of a wire.
Since(l) == IF l.high THEN l.width - l.left ELSE Frame - l.width - l.left

\* Before the first pulse, and after the first edge: raw is where the edge was, in this period or
\* in the one before.
NoEdge(r, l, p) ==
    /\ l.width = 0 /\ ~l.high /\ ~r.corret /\ r.raw = 0
    /\ (RC_MAX <= p + l.left /\ p + l.left <= Period) \/ (p = 0 /\ l.left = 0)
RawIs(r, l, p) ==
    \/ r.raw = p - Since(l)
    \/ r.raw = 0 /\ p = Period /\ Since(l) = 0
    \/ r.raw = p - Since(l) + Period /\ p < Since(l)
Edge(r, l, s, p) ==
    /\ IsPulse(l.width) /\ l.width = s[1]
    /\ 0 <= Since(l)
    /\ RawIs(r, l, p)

\* A pulse that was dropped, because the period ended in it, makes the value one pulse older;
\* then the next one cannot be.
Recent(r, l, s, p) ==
    r.corret =>
        \/ ~l.high /\ r.value = s[1]
        \/ ~l.high /\ r.value = s[2] /\ (p + l.left <= Frame \/ (p = Period /\ l.left = Frame - l.width))
        \/ l.high /\ r.value = s[2]
        \/ l.high /\ r.value = s[3] /\ p + l.left <= Frame + l.width /\ Since(l) <= p

SteadyChannel(r, l, s, p) == NoEdge(r, l, p) \/ (Edge(r, l, s, p) /\ Recent(r, l, s, p))

SteadyInv == Steady => \A c \in inUse : SteadyChannel(ch[c], line[c], sent[c], Pos)

-----------------------------------------------------------------------------
(* Lemmas about the operators *)

LEMMA Constants ==
    /\ Period \in Nat /\ Period > 0 /\ RC_MIN \in Nat /\ RC_MAX \in Nat /\ RC_MIN < RC_MAX
    /\ RC_MAX < Period /\ UINT16_MAX \in Nat /\ Period <= UINT16_MAX /\ Frame \in Nat /\ Old \in Nat
    /\ RC_MAX_CHANNELS \in Nat /\ Old = 3 * Period
BY RcAssumption DEF Old

LEMMA WrapIs ==
    ASSUME NEW x \in 0 .. Period
    PROVE  x % Period = IF x = Period THEN 0 ELSE x
<1>1. CASE x = Period
  <2>1. Period = Period * 1 + 0
    BY Constants
  <2> QED
    BY <1>1, <2>1, Constants
<1>2. CASE x < Period
  BY <1>2, Constants
<1> QED
  BY <1>1, <1>2, Constants

LEMMA AcceptIs ==
    ASSUME NEW r \in [raw : 0 .. Period - 1, value : {0} \cup (RC_MIN + 1 .. RC_MAX - 1),
                      retry : BOOLEAN, corret : BOOLEAN],
           NEW width \in Int, NEW now \in 0 .. Period - 1
    PROVE  LET a == [Accept(r, width) EXCEPT !.raw = now] IN
           /\ a \in [raw : 0 .. Period - 1, value : {0} \cup (RC_MIN + 1 .. RC_MAX - 1),
                      retry : BOOLEAN, corret : BOOLEAN]
           /\ a.raw = now
           /\ IsPulse(width) => a.corret /\ a.retry /\ a.value = width
           /\ ~IsPulse(width) => a.corret = r.corret /\ a.retry = r.retry /\ a.value = r.value
<1>1. CASE IsPulse(width)
  <2>1. width \in RC_MIN + 1 .. RC_MAX - 1
    BY <1>1, Constants DEF IsPulse
  <2>2. Accept(r, width) = [r EXCEPT !.value = width, !.corret = TRUE, !.retry = TRUE]
    BY <1>1 DEF Accept
  <2> QED
    BY <1>1, <2>1, <2>2
<1>2. CASE ~IsPulse(width)
  <2>1. Accept(r, width) = r
    BY <1>2 DEF Accept
  <2> QED
    BY <1>2, <2>1
<1> QED
  BY <1>1, <1>2

Wire == [high : BOOLEAN, left : Nat, width : Nat]

\* Time d passes: at most up to the next edge.
LEMMA WiresPass ==
    ASSUME Types, NEW d \in Nat, \A e \in inUse : d <= line[e].left
    PROVE  /\ WiresAfter(d) \in [Channels -> Wire]
           /\ \A e \in Channels :
                 /\ WiresAfter(d)[e].high = line[e].high /\ WiresAfter(d)[e].width = line[e].width
                 /\ WiresAfter(d)[e].left = IF e \in inUse THEN line[e].left - d ELSE line[e].left
<1>1. line \in [Channels -> Wire]
  BY DEF Types, TypeOK, Wire
<1>2. ASSUME NEW e \in Channels
      PROVE  /\ WiresAfter(d)[e] \in Wire
             /\ WiresAfter(d)[e].high = line[e].high /\ WiresAfter(d)[e].width = line[e].width
             /\ WiresAfter(d)[e].left = IF e \in inUse THEN line[e].left - d ELSE line[e].left
  <2>1. line[e] \in Wire
    BY <1>1
  <2>2. CASE e \in inUse
    <3>1. WiresAfter(d)[e] = [line[e] EXCEPT !.left = line[e].left - d]
      BY <2>2 DEF WiresAfter
    <3>2. line[e].left - d \in Nat
      BY <2>1, <2>2 DEF Wire
    <3> QED
      BY <2>1, <2>2, <3>1, <3>2 DEF Wire
  <2>3. CASE e \notin inUse
    BY <2>1, <2>3 DEF WiresAfter
  <2> QED
    BY <2>2, <2>3
<1> QED
  BY <1>2 DEF WiresAfter

LEMMA AgesPass ==
    ASSUME Types, NEW d \in Nat
    PROVE  /\ AgesAfter(d) \in [Channels -> 0 .. Old]
           /\ \A e \in Channels :
                 AgesAfter(d)[e] = IF age[e] + d < Old THEN age[e] + d ELSE Old
<1>1. age \in [Channels -> 0 .. Old]
  BY DEF Types, TypeOK
<1> QED
  BY <1>1, Constants DEF AgesAfter

-----------------------------------------------------------------------------
(* The steps keep RcInv *)

ChannelRecord ==
    [raw : 0 .. Period - 1, value : {0} \cup (RC_MIN + 1 .. RC_MAX - 1), retry : BOOLEAN, corret : BOOLEAN]

LEMMA NoSignalTyped == NoSignal \in ChannelRecord /\ ~NoSignal.corret
<1>1. FALSE \in BOOLEAN
  BY Zenon
<1>2. 0 \in 0 .. Period - 1
  BY Constants
<1>3. ~NoSignal.corret
  BY DEF NoSignal
<1> QED
  BY <1>1, <1>2, <1>3 DEF NoSignal, ChannelRecord

LEMMA InitRcInv == Init => RcInv
<1> SUFFICES ASSUME Init PROVE RcInv
  OBVIOUS
<1>1. setting.receivers \in 1 .. RC_MAX_CHANNELS /\ setting.offsets \subseteq Nat
  BY RcAssumption DEF Init
<1>2. PICK first \in [0 .. setting.receivers - 1 -> setting.offsets] :
        line = [c \in Channels |->
                  [high |-> FALSE, width |-> 0, left |-> IF c < setting.receivers THEN first[c] ELSE 0]]
  BY DEF Init
<1>3. ASSUME NEW c \in Channels
      PROVE  /\ ~line[c].high /\ line[c].high \in BOOLEAN /\ line[c].width = 0 /\ line[c].left \in Nat
             /\ c < setting.receivers => line[c].left \in setting.offsets
             /\ line[c] = [high |-> FALSE, width |-> 0, left |-> line[c].left]
  <2>1. c \in Nat
    BY Constants DEF Channels
  <2>2. c < setting.receivers => first[c] \in setting.offsets
    BY <1>1, <2>1
  <2>3. line[c] = [high |-> FALSE, width |-> 0, left |-> IF c < setting.receivers THEN first[c] ELSE 0]
    BY <1>2
  <2>4. line[c].high = FALSE /\ line[c].width = 0
    BY <2>3
  <2>5. line[c].high \in BOOLEAN /\ ~line[c].high
    BY <2>4, Zenon
  <2> QED
    BY <1>1, <2>2, <2>3, <2>4, <2>5
<1>4. line \in [Channels -> Wire]
  BY <1>2, <1>3 DEF Wire
<1>5. ch \in [Channels -> ChannelRecord] /\ \A c \in Channels : ch[c] = NoSignal
  BY NoSignalTyped DEF Init
<1>6. age \in [Channels -> 0 .. Old] /\ \A c \in Channels : age[c] = Old
  BY Constants DEF Init
<1>7. sent \in [Channels -> [1 .. 3 -> Nat]]
  BY DEF Init
<1>8. task \in [chan : Channels, at : {"flag", "value"}]
  BY Constants, RcAssumption DEF Init, Channels
<1>9. Types
  BY <1>3, <1>4, <1>5, <1>6, <1>7, <1>8, Constants DEF Init, Types, TypeOK, Wire, ChannelRecord
<1>10. Setup
  <2>1. inUse = 0 .. 0 - 1 /\ 0 \in 0 .. setting.receivers
    BY <1>1 DEF Init
  <2> QED
    BY <1>3, <1>5, <1>6, <2>1 DEF Init, Setup
<1>11. Failsafe
  BY <1>5, <1>6, NoSignalTyped, Constants DEF Init, Failsafe, Pos
<1> QED
  BY <1>9, <1>10, <1>11 DEF RcInv

\* The next free channel is taken, or nothing more happens.
LEMMA SetupNext ==
    ASSUME RcInv, rc_setup
    PROVE  \E n \in 0 .. setting.receivers - 1 :
              /\ inUse = 0 .. n - 1 /\ n \in Channels
              /\ ch' = [ch EXCEPT ![n] = NoSignal]
              /\ inUse' \in {inUse, 0 .. n}
              /\ boot' \in {"setup", "assert"}
<1>1. PICK n \in 0 .. setting.receivers : inUse = 0 .. n - 1
  BY DEF RcInv, Setup
<1>2. setting.receivers \in 1 .. RC_MAX_CHANNELS
  BY RcAssumption DEF RcInv, Types, TypeOK
<1>3. n < setting.receivers
  <2>1. Cardinality(0 .. n - 1) = IF 0 > n - 1 THEN 0 ELSE (n - 1) - 0 + 1
    BY FS_Interval
  <2> QED
    BY <1>1, <1>2, <2>1 DEF rc_setup
<1>4. n \in Channels /\ n \in Free /\ \A c \in Free : c >= n
  BY <1>1, <1>2, <1>3, Constants DEF Channels, Free
<1>5. PICK c \in Free :
        /\ \A d \in Free : c <= d
        /\ ch' = [ch EXCEPT ![c] = NoSignal]
        /\ inUse' \in {inUse, inUse \cup {c}}
        /\ boot' \in {"setup", "assert"}
  BY DEF rc_setup
<1>6. c = n
  <2>1. c \in Int /\ c <= n /\ c >= n
    BY <1>4, <1>5, Constants DEF Free, Channels
  <2> QED
    BY <2>1, <1>1
<1>7. (0 .. n - 1) \cup {n} = 0 .. n
  BY <1>1
<1>8. n \in 0 .. setting.receivers - 1
  BY <1>1, <1>2, <1>3
<1>9. inUse' \in {inUse, 0 .. n} /\ ch' = [ch EXCEPT ![n] = NoSignal]
  BY <1>1, <1>5, <1>6, <1>7, Zenon
<1> QED
  BY <1>1, <1>4, <1>5, <1>8, <1>9, Zenon

LEMMA SetupKeeps == RcInv /\ rc_setup => RcInv'
<1> SUFFICES ASSUME RcInv, rc_setup PROVE RcInv'
  OBVIOUS
<1>1. PICK n \in 0 .. setting.receivers - 1 :
         /\ inUse = 0 .. n - 1 /\ n \in Channels
         /\ ch' = [ch EXCEPT ![n] = NoSignal]
         /\ inUse' \in {inUse, 0 .. n}
         /\ boot' \in {"setup", "assert"}
  BY SetupNext
<1>2. UNCHANGED <<setting, line, ovf, task, got, age, sent>> /\ boot = "setup"
  BY DEF rc_setup
<1>3. ch \in [Channels -> ChannelRecord] /\ \A c \in Channels : ch[c] = NoSignal
  BY <1>2 DEF RcInv, Types, TypeOK, ChannelRecord, Setup
<1>4. ch' \in [Channels -> ChannelRecord] /\ \A c \in Channels : ch'[c] = NoSignal
  BY <1>1, <1>3, NoSignalTyped
<1>5. setting.receivers \in 1 .. RC_MAX_CHANNELS
  BY RcAssumption DEF RcInv, Types, TypeOK
<1>6. inUse' \subseteq Channels
  <2>1. 0 .. n \subseteq Channels
    BY <1>1, <1>5, Constants DEF Channels
  <2> QED
    BY <1>1, <2>1 DEF RcInv, Types, TypeOK
<1>7. Types'
  BY <1>1, <1>2, <1>4, <1>6 DEF RcInv, Types, TypeOK, ChannelRecord
<1>8. \E m \in 0 .. setting'.receivers : inUse' = 0 .. m - 1
  <2>1. CASE inUse' = inUse
    BY <1>1, <1>2, <1>5, <2>1
  <2>2. CASE inUse' = 0 .. n
    <3>1. n + 1 \in 0 .. setting'.receivers /\ 0 .. n = 0 .. (n + 1) - 1
      BY <1>1, <1>2, <1>5
    <3> QED
      BY <2>2, <3>1
  <2> QED
    BY <1>1, <2>1, <2>2
<1>9. Setup'
  BY <1>2, <1>4, <1>8 DEF RcInv, Setup
<1>10. Failsafe'
  BY <1>2, <1>3, <1>4 DEF RcInv, Failsafe, Pos
<1> QED
  BY <1>7, <1>9, <1>10 DEF RcInv

LEMMA SchedulerKeeps == RcInv /\ StartScheduler => RcInv'
<1> SUFFICES ASSUME RcInv, StartScheduler PROVE RcInv'
  OBVIOUS
<1>1. Types'
  BY DEF StartScheduler, RcInv, Types, TypeOK
<1>2. Setup'
  BY DEF StartScheduler, RcInv, Setup
<1>3. Failsafe'
  BY DEF StartScheduler, RcInv, Failsafe, Pos
<1> QED
  BY <1>1, <1>2, <1>3 DEF RcInv

LEMMA ReadsKeep == RcInv /\ (rc_getFlag \/ rc_getValue) => RcInv'
<1> SUFFICES ASSUME RcInv, rc_getFlag \/ rc_getValue PROVE RcInv'
  OBVIOUS
<1>1. UNCHANGED <<setting, ch, inUse, boot, line, ovf, age, sent>>
  BY DEF rc_getFlag, rc_getValue
<1>2. task \in [chan : Channels, at : {"flag", "value"}]
  BY DEF RcInv, Types, TypeOK
<1>3. NextChannel \in Channels
  BY <1>2, RcAssumption DEF NextChannel, Channels
<1>4. task' \in [chan : Channels, at : {"flag", "value"}]
  <2>1. CASE rc_getFlag
    BY <1>2, <1>3, <2>1 DEF rc_getFlag
  <2>2. CASE rc_getValue
    BY <1>3, <2>2 DEF rc_getValue
  <2> QED
    BY <2>1, <2>2
<1>5. got' \in Nat /\ (got' = 0 \/ IsPulse(got'))
  <2>1. ch[task.chan].value \in {0} \cup (RC_MIN + 1 .. RC_MAX - 1)
    BY <1>2 DEF RcInv, Types, TypeOK
  <2> QED
    BY <2>1, Constants DEF rc_getFlag, rc_getValue, RcInv, Types, TypeOK, IsPulse
<1>6. Types'
  BY <1>1, <1>4, <1>5 DEF RcInv, Types, TypeOK, IsPulse
<1>7. Setup' /\ Failsafe'
  BY <1>1 DEF RcInv, Setup, Failsafe, Pos
<1> QED
  BY <1>6, <1>7 DEF RcInv

Now(d) == (Period - (ovf - d)) % Period

\* What an edge on channel c does, in one place.
LEMMA EdgeIs ==
    ASSUME RcInv, NEW c \in Channels, rc_IRQHandler(c),
           NEW d, d = line[c].left
    PROVE  /\ Running /\ c \in inUse /\ d \in Nat /\ d <= ovf
           /\ \A e \in inUse : d <= line[e].left
           /\ Now(d) \in 0 .. Period - 1 /\ Now(d) = (IF Pos + d = Period THEN 0 ELSE Pos + d)
           /\ Measure(ch[c].raw, Now(d)) \in Int
           /\ ch' = [ch EXCEPT ![c] = [Accept(@, Measure(ch[c].raw, Now(d))) EXCEPT !.raw = Now(d)]]
           /\ ovf' = ovf - d /\ ovf' \in 0 .. Period
           /\ age' = IF IsPulse(Measure(ch[c].raw, Now(d))) THEN [AgesAfter(d) EXCEPT ![c] = 0]
                                                            ELSE AgesAfter(d)
           /\ UNCHANGED <<setting, inUse, boot, task, got>>
<1>1. line[c] \in Wire /\ ch[c] \in ChannelRecord /\ ovf \in 0 .. Period
  BY DEF RcInv, Types, TypeOK, Wire, ChannelRecord
<1>2. d \in Nat /\ d <= ovf /\ Running /\ c \in inUse /\ \A e \in inUse : d <= line[e].left
  BY <1>1 DEF rc_IRQHandler, Wire
<1>3. Period - (ovf - d) \in 0 .. Period /\ Period - (ovf - d) = Pos + d /\ ovf - d \in 0 .. Period
  BY <1>1, <1>2, Constants DEF Pos
<1>4. Now(d) \in 0 .. Period - 1 /\ Now(d) = (IF Pos + d = Period THEN 0 ELSE Pos + d)
  BY <1>3, WrapIs, Constants DEF Now
<1>5. Measure(ch[c].raw, Now(d)) \in Int
  BY <1>1, <1>4, Constants DEF Measure, ChannelRecord
<1> QED
  BY <1>2, <1>3, <1>4, <1>5 DEF rc_IRQHandler, Now

LEMMA EdgeChannels ==
    ASSUME RcInv, NEW c \in Channels, rc_IRQHandler(c),
           NEW d, d = line[c].left, NEW w, w = Measure(ch[c].raw, Now(d))
    PROVE  /\ ch' \in [Channels -> ChannelRecord]
           /\ \A e \in Channels \ {c} : ch'[e] = ch[e]
           /\ ch'[c].raw = Now(d)
           /\ IsPulse(w) => ch'[c].corret /\ ch'[c].retry /\ ch'[c].value = w
           /\ ~IsPulse(w) => /\ ch'[c].corret = ch[c].corret /\ ch'[c].retry = ch[c].retry
                             /\ ch'[c].value = ch[c].value
<1>1. ch \in [Channels -> ChannelRecord]
  BY DEF RcInv, Types, TypeOK, ChannelRecord
<1>2. w \in Int /\ Now(d) \in 0 .. Period - 1 /\ ch' = [ch EXCEPT ![c] = [Accept(@, w) EXCEPT !.raw = Now(d)]]
  BY EdgeIs
<1> DEFINE a == [Accept(ch[c], w) EXCEPT !.raw = Now(d)]
<1>3. ch[c] \in ChannelRecord
  BY <1>1
<1>4. /\ a \in ChannelRecord /\ a.raw = Now(d)
      /\ IsPulse(w) => a.corret /\ a.retry /\ a.value = w
      /\ ~IsPulse(w) => a.corret = ch[c].corret /\ a.retry = ch[c].retry /\ a.value = ch[c].value
  BY <1>2, <1>3, AcceptIs DEF ChannelRecord
<1>5. ch' = [ch EXCEPT ![c] = a]
  BY <1>2
<1> HIDE DEF a
<1> QED
  BY <1>1, <1>4, <1>5

\* The transmitter: the wire of c, and those of the other channels.
LEMMA EdgeWires ==
    ASSUME RcInv, NEW c \in Channels, rc_IRQHandler(c), NEW d, d = line[c].left
    PROVE  /\ line' \in [Channels -> Wire] /\ sent' \in [Channels -> [1 .. 3 -> Nat]]
           /\ \A e \in Channels \ {c} :
                 /\ line'[e].high = line[e].high /\ line'[e].width = line[e].width
                 /\ line'[e].left = (IF e \in inUse THEN line[e].left - d ELSE line[e].left)
                 /\ sent'[e] = sent[e]
           /\ \/ /\ line[c].high /\ ~line'[c].high /\ line'[c].width = line[c].width /\ sent'[c] = sent[c]
                 /\ \E gap \in setting.dropouts : line'[c].left = Frame - line[c].width + gap
              \/ /\ ~line[c].high /\ line'[c].high /\ line'[c].width \in setting.widths
                 /\ line'[c].left = line'[c].width
                 /\ sent'[c][1] = line'[c].width /\ sent'[c][2] = sent[c][1] /\ sent'[c][3] = sent[c][2]
<1>1. /\ line \in [Channels -> Wire] /\ sent \in [Channels -> [1 .. 3 -> Nat]] /\ line[c].width <= Frame
      /\ setting.widths \subseteq 1 .. Frame - 1 /\ setting.dropouts \subseteq Nat
  BY RcAssumption DEF RcInv, Types, TypeOK, Wire
<1>2. d \in Nat /\ \A e \in inUse : d <= line[e].left
  BY EdgeIs
<1>3. /\ WiresAfter(d) \in [Channels -> Wire]
      /\ \A e \in Channels :
            /\ WiresAfter(d)[e].high = line[e].high /\ WiresAfter(d)[e].width = line[e].width
            /\ WiresAfter(d)[e].left = IF e \in inUse THEN line[e].left - d ELSE line[e].left
  BY <1>2, WiresPass DEF RcInv
<1>4. CASE line[c].high
  <2>1. Fall(c)
    BY <1>4 DEF rc_IRQHandler
  <2>2. PICK gap \in setting.dropouts :
           line' = [WiresAfter(d) EXCEPT
                     ![c] = [high |-> FALSE, width |-> line[c].width, left |-> Frame - line[c].width + gap]]
    BY <2>1 DEF Fall
  <2>3. sent' = sent
    BY <2>1 DEF Fall
  <2> DEFINE new == [high |-> FALSE, width |-> line[c].width, left |-> Frame - line[c].width + gap]
  <2>4. FALSE \in BOOLEAN
    BY Zenon
  <2>5. gap \in Nat /\ Frame - line[c].width + gap \in Nat /\ line[c].width \in Nat
    BY <1>1, <2>2, Constants DEF Wire
  <2>6. new \in Wire /\ ~new.high /\ new.width = line[c].width /\ new.left = Frame - line[c].width + gap
    BY <2>4, <2>5 DEF Wire
  <2>7. line' = [WiresAfter(d) EXCEPT ![c] = new]
    BY <2>2
  <2> HIDE DEF new
  <2>8. /\ line' \in [Channels -> Wire] /\ line'[c] = new
        /\ \A e \in Channels \ {c} : line'[e] = WiresAfter(d)[e]
    BY <1>3, <2>6, <2>7
  <2> QED
    BY <1>1, <1>3, <1>4, <2>3, <2>6, <2>8
<1>5. CASE ~line[c].high
  <2>1. Rise(c)
    BY <1>5 DEF rc_IRQHandler
  <2>2. PICK w \in setting.widths :
           /\ line' = [WiresAfter(d) EXCEPT ![c] = [high |-> TRUE, width |-> w, left |-> w]]
           /\ sent' = [sent EXCEPT ![c] = <<w, @[1], @[2]>>]
    BY <2>1 DEF Rise
  <2> DEFINE new == [high |-> TRUE, width |-> w, left |-> w]
  <2>3. TRUE \in BOOLEAN
    BY Zenon
  <2>4. w \in Nat
    BY <1>1, <2>2, Constants
  <2>5. new \in Wire /\ new.high /\ new.width = w /\ new.left = w
    BY <2>3, <2>4 DEF Wire
  <2>6. line' = [WiresAfter(d) EXCEPT ![c] = new]
    BY <2>2
  <2> HIDE DEF new
  <2>7. /\ line' \in [Channels -> Wire] /\ line'[c] = new
        /\ \A e \in Channels \ {c} : line'[e] = WiresAfter(d)[e]
    BY <1>3, <2>5, <2>6
  <2>8. sent[c] \in [1 .. 3 -> Nat] /\ <<w, sent[c][1], sent[c][2]>> \in [1 .. 3 -> Nat]
    BY <1>1, <2>4
  <2>9. /\ sent' \in [Channels -> [1 .. 3 -> Nat]]
        /\ \A e \in Channels \ {c} : sent'[e] = sent[e]
        /\ sent'[c] = <<w, sent[c][1], sent[c][2]>>
    BY <1>1, <2>2, <2>8
  <2> QED
    BY <1>3, <1>5, <2>2, <2>5, <2>7, <2>9
<1> QED
  BY <1>4, <1>5

LEMMA EdgeKeeps == RcInv /\ (\E c \in Channels : rc_IRQHandler(c)) => RcInv'
<1> SUFFICES ASSUME RcInv, NEW c \in Channels, rc_IRQHandler(c) PROVE RcInv'
  OBVIOUS
<1> DEFINE d == line[c].left
           w == Measure(ch[c].raw, Now(d))
<1>1. /\ Running /\ c \in inUse /\ d \in Nat /\ d <= ovf /\ ovf' = ovf - d /\ ovf' \in 0 .. Period
      /\ age' = IF IsPulse(w) THEN [AgesAfter(d) EXCEPT ![c] = 0] ELSE AgesAfter(d)
      /\ UNCHANGED <<setting, inUse, boot, task, got>>
  BY EdgeIs
<1>2. /\ ch' \in [Channels -> ChannelRecord]
      /\ \A e \in Channels \ {c} : ch'[e] = ch[e]
      /\ IsPulse(w) => ch'[c].corret /\ ch'[c].retry
      /\ ~IsPulse(w) => ch'[c].corret = ch[c].corret /\ ch'[c].retry = ch[c].retry
  BY EdgeChannels
<1>3. /\ AgesAfter(d) \in [Channels -> 0 .. Old]
      /\ \A e \in Channels : AgesAfter(d)[e] = IF age[e] + d < Old THEN age[e] + d ELSE Old
  BY <1>1, AgesPass DEF RcInv
<1>4. line' \in [Channels -> Wire] /\ sent' \in [Channels -> [1 .. 3 -> Nat]]
  BY EdgeWires
<1>5. \A e \in Channels : line'[e].width <= Frame
  <2>1. \A e \in Channels \ {c} : line'[e].width = line[e].width
    BY EdgeWires
  <2>2. line'[c].width = line[c].width \/ line'[c].width \in setting.widths
    BY EdgeWires
  <2>3. setting.widths \subseteq 1 .. Frame - 1
    BY RcAssumption DEF RcInv, Types, TypeOK
  <2> QED
    BY <2>1, <2>2, <2>3, Constants DEF RcInv, Types
<1> HIDE DEF d, w
<1>6. age' \in [Channels -> 0 .. Old]
  BY <1>1, <1>3, Constants
<1>7. Types'
  BY <1>1, <1>2, <1>4, <1>5, <1>6 DEF RcInv, Types, TypeOK, Wire, ChannelRecord, IsPulse
<1>8. Setup'
  BY <1>1, <1>2 DEF RcInv, Setup, Running
<1>9. Failsafe'
  <2> SUFFICES ASSUME NEW e \in Channels
               PROVE  /\ ch'[e].corret => age'[e] <= IF ch'[e].retry THEN Pos' ELSE Period + Pos'
                      /\ age'[e] < Pos' => ch'[e].corret /\ ch'[e].retry
                      /\ age'[e] < Period + Pos' => ch'[e].corret
    BY DEF Failsafe
  <2>1. /\ ch[e].corret => age[e] <= IF ch[e].retry THEN Pos ELSE Period + Pos
        /\ age[e] < Pos => ch[e].corret /\ ch[e].retry
        /\ age[e] < Period + Pos => ch[e].corret
    BY DEF RcInv, Failsafe
  <2>2. age[e] \in Nat /\ ovf \in 0 .. Period /\ Pos' = Pos + d /\ Pos \in 0 .. Period /\ Pos' \in 0 .. Period
    BY <1>1, Constants DEF RcInv, Types, TypeOK, Pos
  <2>3. CASE e = c /\ IsPulse(w)
    <3>1. age'[e] = 0
      BY <1>1, <1>3, <2>3
    <3>2. ch'[e].corret /\ ch'[e].retry
      BY <1>2, <2>3
    <3> QED
      BY <2>2, <3>1, <3>2, Constants
  <2>4. CASE ~(e = c /\ IsPulse(w))
    <3>1. age'[e] = IF age[e] + d < Old THEN age[e] + d ELSE Old
      BY <1>1, <1>3, <2>4
    <3>2. (ch'[e].corret <=> ch[e].corret) /\ (ch'[e].retry <=> ch[e].retry)
      BY <1>2, <2>4
    <3> QED
      BY <1>1, <2>1, <2>2, <3>1, <3>2, Constants
  <2> QED
    BY <2>3, <2>4
<1> QED
  BY <1>7, <1>8, <1>9 DEF RcInv

LEMMA OverflowIs ==
    ASSUME NEW r \in ChannelRecord
    PROVE  /\ Overflow(r) \in ChannelRecord
           /\ Overflow(r).raw = r.raw /\ Overflow(r).value = r.value /\ ~Overflow(r).retry
           /\ Overflow(r).corret <=> r.corret /\ r.retry
<1>1. FALSE \in BOOLEAN
  BY Zenon
<1>2. CASE r.retry
  BY <1>1, <1>2 DEF Overflow, ChannelRecord
<1>3. CASE ~r.retry
  BY <1>1, <1>3 DEF Overflow, ChannelRecord
<1> QED
  BY <1>2, <1>3

\* The period ends.
LEMMA OverflowKeeps == RcInv /\ rc_OverfowHandler => RcInv'
<1> SUFFICES ASSUME RcInv, rc_OverfowHandler PROVE RcInv'
  OBVIOUS
<1>1. /\ Running /\ ovf \in 0 .. Period /\ \A e \in inUse : ovf <= line[e].left
      /\ line' = WiresAfter(ovf) /\ age' = AgesAfter(ovf) /\ ovf' = Period
      /\ ch' = [c \in Channels |-> Overflow(ch[c])]
      /\ UNCHANGED <<setting, inUse, boot, task, got, sent>>
  BY DEF rc_OverfowHandler, RcInv, Types, TypeOK
<1>2. /\ line' \in [Channels -> Wire]
      /\ \A e \in Channels : line'[e].width = line[e].width
  BY <1>1, WiresPass DEF RcInv
<1>3. /\ age' \in [Channels -> 0 .. Old]
      /\ \A e \in Channels : age'[e] = IF age[e] + ovf < Old THEN age[e] + ovf ELSE Old
  BY <1>1, AgesPass DEF RcInv
<1>4. /\ ch \in [Channels -> ChannelRecord]
      /\ \A e \in Channels : ch[e] \in ChannelRecord /\ ch'[e] = Overflow(ch[e])
  BY <1>1 DEF RcInv, Types, TypeOK, ChannelRecord
<1>5. ch' \in [Channels -> ChannelRecord]
  BY <1>1, <1>4, OverflowIs
<1>6. Types'
  BY <1>1, <1>2, <1>3, <1>5, Constants DEF RcInv, Types, TypeOK, Wire, ChannelRecord, IsPulse
<1>7. Setup'
  <2>1. \A e \in Channels : ch[e] = NoSignal => ch'[e] = NoSignal
    <3> SUFFICES ASSUME NEW e \in Channels, ch[e] = NoSignal PROVE ch'[e] = NoSignal
      OBVIOUS
    <3>1. ~NoSignal.retry
      BY DEF NoSignal
    <3>2. ch'[e] = [NoSignal EXCEPT !.corret = FALSE]
      BY <1>4, <3>1 DEF Overflow
    <3> QED
      BY <3>2 DEF NoSignal
  <2> QED
    BY <1>1, <2>1 DEF RcInv, Setup, Running
<1>8. Failsafe'
  <2> SUFFICES ASSUME NEW e \in Channels
               PROVE  /\ ch'[e].corret => age'[e] <= IF ch'[e].retry THEN Pos' ELSE Period + Pos'
                      /\ age'[e] < Pos' => ch'[e].corret /\ ch'[e].retry
                      /\ age'[e] < Period + Pos' => ch'[e].corret
    BY DEF Failsafe
  <2>1. /\ ch[e].corret => age[e] <= IF ch[e].retry THEN Pos ELSE Period + Pos
        /\ age[e] < Pos => ch[e].corret /\ ch[e].retry
    BY DEF RcInv, Failsafe
  <2>2. age[e] \in Nat /\ Pos \in Nat /\ ovf \in Nat /\ Pos + ovf = Period /\ Pos' = 0
    BY <1>1, Constants DEF RcInv, Types, TypeOK, Pos
  <2>3. ~ch'[e].retry /\ (ch'[e].corret <=> ch[e].corret /\ ch[e].retry)
    BY <1>4, OverflowIs
  <2> QED
    BY <1>1, <1>3, <2>1, <2>2, <2>3, Constants
<1> QED
  BY <1>6, <1>7, <1>8 DEF RcInv

LEMMA StepRcInv == RcInv /\ [Next]_vars => RcInv'
<1> SUFFICES ASSUME RcInv, [Next]_vars PROVE RcInv'
  OBVIOUS
<1>1. CASE Next
  BY <1>1, SetupKeeps, SchedulerKeeps, EdgeKeeps, OverflowKeeps, ReadsKeep DEF Next
<1>2. CASE UNCHANGED vars
  BY <1>2 DEF vars, RcInv, Types, TypeOK, Setup, Failsafe, Pos, IsPulse
<1> QED
  BY <1>1, <1>2

-----------------------------------------------------------------------------
(* Steady signals: a channel over time, over the end of a period, at the    *)
(* end of a pulse and at the beginning of the next one                      *)

LEMMA PassKeeps ==
    ASSUME NEW r \in ChannelRecord, NEW l \in Wire, NEW m \in Wire, NEW s \in [1 .. 3 -> Nat],
           NEW p \in 0 .. Period, NEW d \in Nat, p + d <= Period, d <= l.left,
           m.high = l.high, m.width = l.width, m.left = l.left - d,
           SteadyChannel(r, l, s, p)
    PROVE  SteadyChannel(r, m, s, p + d)
<1>1. /\ l.left \in Nat /\ l.width \in Nat /\ r.raw \in 0 .. Period - 1 /\ m.left \in Nat
      /\ (m.high <=> l.high) /\ Since(m) = Since(l) + d /\ Since(l) \in Int
  BY Constants DEF Wire, ChannelRecord, Since
<1>2. CASE NoEdge(r, l, p)
  BY <1>1, <1>2, Constants DEF NoEdge, SteadyChannel
<1>3. CASE Edge(r, l, s, p) /\ Recent(r, l, s, p)
  <2>1. RawIs(r, m, p + d)
    BY <1>1, <1>3, Constants DEF Edge, RawIs
  <2>2. Edge(r, m, s, p + d)
    BY <1>1, <1>3, <2>1 DEF Edge
  <2>3. Recent(r, m, s, p + d)
    BY <1>1, <1>3, Constants DEF Recent
  <2> QED
    BY <2>2, <2>3 DEF SteadyChannel
<1> QED
  BY <1>2, <1>3 DEF SteadyChannel

LEMMA PeriodKeeps ==
    ASSUME ServoTimes,
           NEW r \in ChannelRecord, NEW q \in ChannelRecord, NEW l \in Wire, NEW s \in [1 .. 3 -> Nat],
           q.raw = r.raw, q.value = r.value, q.corret => r.corret,
           SteadyChannel(r, l, s, Period)
    PROVE  SteadyChannel(q, l, s, 0)
<1>1. /\ l.left \in Nat /\ l.width \in Nat /\ r.raw \in 0 .. Period - 1 /\ Since(l) \in Int
      /\ l.high => Since(l) <= l.width
      /\ ~l.high => Since(l) <= Frame
  BY Constants DEF Wire, ChannelRecord, Since
<1>2. CASE NoEdge(r, l, Period)
  BY <1>1, <1>2, Constants DEF NoEdge, SteadyChannel
<1>3. CASE Edge(r, l, s, Period) /\ Recent(r, l, s, Period)
  <2>1. l.width < RC_MAX /\ 0 <= Since(l) /\ Since(l) <= Period
    BY <1>1, <1>3, Constants DEF Edge, IsPulse, ServoTimes
  <2>2. RawIs(q, l, 0)
    BY <1>1, <1>3, <2>1, Constants DEF Edge, RawIs
  <2>3. Edge(q, l, s, 0)
    BY <1>3, <2>2 DEF Edge
  <2>4. Recent(q, l, s, 0)
    BY <1>1, <1>3, <2>1, Constants DEF Recent, ServoTimes
  <2> QED
    BY <2>3, <2>4 DEF SteadyChannel
<1> QED
  BY <1>2, <1>3 DEF SteadyChannel

CapturedAt(p) == IF p = Period THEN 0 ELSE p

\* Only what lies between two edges of one period can be taken for a pulse.
LEMMA MeasureIs ==
    ASSUME ServoTimes, NEW last \in 0 .. Period - 1, NEW now \in 0 .. Period - 1,
           IsPulse(Measure(last, now))
    PROVE  now > last /\ Measure(last, now) = now - last
BY Constants DEF Measure, IsPulse, ServoTimes

LEMMA FallKeeps ==
    ASSUME ServoTimes,
           NEW r \in ChannelRecord, NEW q \in ChannelRecord, NEW l \in Wire, NEW m \in Wire,
           NEW s \in [1 .. 3 -> Nat], NEW p \in 0 .. Period, p + l.left <= Period,
           l.high, ~m.high, m.width = l.width, m.left = Frame - l.width,
           NEW w, w = Measure(r.raw, CapturedAt(p + l.left)),
           q.raw = CapturedAt(p + l.left),
           IsPulse(w) => q.value = w,
           ~IsPulse(w) => q.corret = r.corret /\ q.value = r.value,
           SteadyChannel(r, l, s, p)
    PROVE  SteadyChannel(q, m, s, p + l.left)
<1> DEFINE now == CapturedAt(p + l.left)
<1>1. /\ l.left \in Nat /\ l.width \in Nat /\ r.raw \in 0 .. Period - 1 /\ m.left \in Nat
      /\ Since(l) = l.width - l.left /\ Since(m) = 0 /\ now \in 0 .. Period - 1
  BY Constants DEF Wire, ChannelRecord, Since, CapturedAt
<1>2. Edge(r, l, s, p) /\ Recent(r, l, s, p)
  BY DEF SteadyChannel, NoEdge
<1>3. l.width = s[1] /\ RC_MIN < l.width /\ l.width < RC_MAX /\ 0 <= Since(l) /\ RawIs(r, l, p)
  BY <1>2 DEF Edge, IsPulse
<1>4. Edge(q, m, s, p + l.left)
  <2>1. RawIs(q, m, p + l.left)
    BY <1>1, Constants DEF RawIs, CapturedAt
  <2> QED
    BY <1>1, <1>2, <2>1 DEF Edge
<1>5. CASE r.raw = p - Since(l) /\ p + l.left < Period
  <2>1. w = l.width
    BY <1>1, <1>3, <1>5, Constants DEF Measure, CapturedAt
  <2>2. q.value = s[1]
    BY <1>3, <2>1 DEF IsPulse
  <2> QED
    BY <1>4, <2>2 DEF SteadyChannel, Recent
<1>6. CASE ~(r.raw = p - Since(l) /\ p + l.left < Period)
  <2>1. ~IsPulse(w)
    <3>1. SUFFICES ASSUME IsPulse(w) PROVE FALSE
      OBVIOUS
    <3>2. now > r.raw
      BY <1>1, <3>1, MeasureIs
    <3>3. p + l.left # Period
      BY <1>1, <3>2 DEF CapturedAt
    <3>4. now = p + l.left
      BY <3>3 DEF CapturedAt
    <3> QED
      BY <1>1, <1>3, <1>6, <3>2, <3>3, <3>4, Constants DEF RawIs
  <2>2. q.corret = r.corret /\ q.value = r.value
    BY <2>1
  <2>3. (p + l.left) + m.left <= Frame \/ (p + l.left = Period /\ m.left = Frame - m.width)
    BY <1>1, <1>3, <1>6, Constants DEF RawIs
  <2>4. r.corret => r.value = s[2]
    <3>1. p + l.left <= Frame + l.width /\ Since(l) <= p => p + l.left < Period /\ r.raw = p - Since(l)
      BY <1>1, <1>3, Constants DEF RawIs, ServoTimes
    <3> QED
      BY <1>2, <1>6, <3>1 DEF Recent
  <2> QED
    BY <1>4, <2>2, <2>3, <2>4 DEF SteadyChannel, Recent
<1> QED
  BY <1>5, <1>6

LEMMA RiseKeeps ==
    ASSUME ServoTimes,
           NEW r \in ChannelRecord, NEW q \in ChannelRecord, NEW l \in Wire, NEW m \in Wire,
           NEW s \in [1 .. 3 -> Nat], NEW t \in [1 .. 3 -> Nat],
           NEW p \in 0 .. Period, p + l.left <= Period,
           ~l.high, m.high, IsPulse(m.width), m.left = m.width,
           t[1] = m.width, t[2] = s[1], t[3] = s[2],
           NEW w, w = Measure(r.raw, CapturedAt(p + l.left)),
           q.raw = CapturedAt(p + l.left),
           ~IsPulse(w) => q.corret = r.corret /\ q.value = r.value,
           SteadyChannel(r, l, s, p)
    PROVE  SteadyChannel(q, m, t, p + l.left)
<1> DEFINE now == CapturedAt(p + l.left)
<1>1. /\ l.left \in Nat /\ l.width \in Nat /\ r.raw \in 0 .. Period - 1 /\ m.left \in Nat
      /\ Since(l) = Frame - l.width - l.left /\ Since(m) = 0 /\ now \in 0 .. Period - 1
  BY Constants DEF Wire, ChannelRecord, Since, CapturedAt
<1>2. Edge(q, m, t, p + l.left)
  <2>1. RawIs(q, m, p + l.left)
    BY <1>1, Constants DEF RawIs, CapturedAt
  <2> QED
    BY <1>1, <2>1 DEF Edge
<1>3. ~IsPulse(w)
  <2>1. SUFFICES ASSUME IsPulse(w) PROVE FALSE
    OBVIOUS
  <2>2. now > r.raw /\ w = now - r.raw /\ w < RC_MAX
    BY <1>1, <2>1, MeasureIs DEF IsPulse
  <2>3. p + l.left # Period /\ now = p + l.left
    BY <1>1, <2>2 DEF CapturedAt
  <2>4. CASE NoEdge(r, l, p)
    BY <1>1, <2>2, <2>3, <2>4, Constants DEF NoEdge
  <2>5. CASE Edge(r, l, s, p)
    BY <1>1, <2>2, <2>3, <2>5, Constants DEF Edge, RawIs, IsPulse, ServoTimes
  <2> QED
    BY <2>4, <2>5 DEF SteadyChannel
<1>4. q.corret = r.corret /\ q.value = r.value
  BY <1>3
<1>5. Recent(q, m, t, p + l.left)
  <2>1. CASE NoEdge(r, l, p)
    BY <1>4, <2>1 DEF NoEdge, Recent
  <2>2. CASE Edge(r, l, s, p) /\ Recent(r, l, s, p)
    <3>1. l.width < RC_MAX /\ 0 <= Since(l) /\ RC_MIN < m.width
      BY <2>2 DEF Edge, IsPulse
    <3>2. p = Period /\ l.left = Frame - l.width => FALSE
      BY <1>1, <3>1, Constants DEF ServoTimes
    <3>3. p + l.left <= Frame => (p + l.left) + m.left <= Frame + m.width
      BY <1>1, Constants DEF Wire
    <3>4. r.corret => r.value = s[1] \/ (r.value = s[2] /\ p + l.left <= Frame)
      BY <2>2, <3>2 DEF Recent
    <3> QED
      BY <1>1, <1>4, <3>3, <3>4 DEF Recent
  <2> QED
    BY <2>1, <2>2 DEF SteadyChannel
<1> QED
  BY <1>2, <1>5 DEF SteadyChannel

\* Before the scheduler runs no channel has seen an edge.
LEMMA NewChannel ==
    ASSUME ServoTimes, Steady, setting \in Settings,
           NEW l \in Wire, ~l.high, l.width = 0, l.left \in setting.offsets, NEW s
    PROVE  SteadyChannel(NoSignal, l, s, 0)
<1>1. l.left \in RC_MAX .. Period
  BY DEF ServoTimes, Steady
<1>2. ~NoSignal.corret /\ NoSignal.raw = 0
  BY DEF NoSignal
<1>3. NoEdge(NoSignal, l, 0)
  BY <1>1, <1>2, Constants DEF NoEdge
<1> QED
  BY <1>3 DEF SteadyChannel

LEMMA BeforeEdges ==
    ASSUME ServoTimes, RcInv, boot # "run"
    PROVE  SteadyInv
<1> SUFFICES ASSUME Steady, NEW c \in inUse PROVE SteadyChannel(ch[c], line[c], sent[c], Pos)
  BY DEF SteadyInv
<1>1. c \in Channels /\ c \in Int /\ c < setting.receivers /\ setting \in Settings
  <2>1. PICK n \in 0 .. setting.receivers : inUse = 0 .. n - 1
    BY DEF RcInv, Setup
  <2>2. setting \in Settings /\ setting.receivers \in 1 .. RC_MAX_CHANNELS
    BY RcAssumption DEF RcInv, Types, TypeOK
  <2> QED
    BY <2>1, <2>2, Constants DEF Channels
<1>2. /\ ovf = Period /\ ch[c] = NoSignal /\ ~line[c].high /\ line[c].width = 0
      /\ line[c].left \in setting.offsets /\ line[c] \in Wire
  BY <1>1 DEF RcInv, Setup, Types, TypeOK, Wire
<1>3. Pos = 0
  BY <1>2, Constants DEF Pos
<1> QED
  BY <1>1, <1>2, <1>3, NewChannel

LEMMA SetupSteady ==
    ASSUME ServoTimes, RcInv, rc_setup
    PROVE  SteadyInv'
<1>1. /\ UNCHANGED <<setting, line, ovf, sent>> /\ boot # "run" /\ boot' # "run"
      /\ setting \in Settings /\ RcInv'
  BY SetupKeeps DEF rc_setup, RcInv, Types, TypeOK
<1> SUFFICES ASSUME Steady, NEW c \in inUse' PROVE SteadyChannel(ch'[c], line[c], sent[c], Pos)
  BY <1>1 DEF SteadyInv, Steady, IsPulse, Pos
<1>2. c \in Channels /\ c \in Int /\ c < setting.receivers
  <2>1. PICK n \in 0 .. setting'.receivers : inUse' = 0 .. n - 1
    BY <1>1 DEF RcInv, Setup
  <2> QED
    BY <1>1, <2>1, RcAssumption DEF Channels
<1>3. ch'[c] = NoSignal
  BY <1>1, <1>2 DEF RcInv, Setup
<1>4. /\ ovf = Period /\ ~line[c].high /\ line[c].width = 0
      /\ line[c].left \in setting.offsets /\ line[c] \in Wire
  BY <1>1, <1>2 DEF RcInv, Setup, Types, TypeOK, Wire
<1>5. Pos = 0
  BY <1>4, Constants DEF Pos
<1> QED
  BY <1>1, <1>3, <1>4, <1>5, NewChannel

LEMMA EdgeSteady ==
    ASSUME ServoTimes, RcInv, SteadyInv, NEW c \in Channels, rc_IRQHandler(c)
    PROVE  SteadyInv'
<1> DEFINE d == line[c].left
           w == Measure(ch[c].raw, Now(d))
<1>1. /\ c \in inUse /\ d \in Nat /\ d <= ovf /\ \A e \in inUse : d <= line[e].left
      /\ Now(d) = (IF Pos + d = Period THEN 0 ELSE Pos + d)
      /\ ovf' = ovf - d /\ UNCHANGED <<setting, inUse>>
  BY EdgeIs
<1>2. /\ ovf \in 0 .. Period /\ Pos \in 0 .. Period /\ Pos + d <= Period /\ Pos' = Pos + d
      /\ inUse \subseteq Channels
  BY <1>1, Constants DEF RcInv, Types, TypeOK, Pos
<1>3. /\ ch' \in [Channels -> ChannelRecord]
      /\ \A e \in Channels \ {c} : ch'[e] = ch[e]
      /\ ch'[c].raw = Now(d)
      /\ IsPulse(w) => ch'[c].corret /\ ch'[c].value = w
      /\ ~IsPulse(w) => ch'[c].corret = ch[c].corret /\ ch'[c].value = ch[c].value
  BY EdgeChannels
<1>4. /\ line' \in [Channels -> Wire] /\ sent' \in [Channels -> [1 .. 3 -> Nat]]
      /\ \A e \in Channels \ {c} :
            /\ line'[e].high = line[e].high /\ line'[e].width = line[e].width
            /\ line'[e].left = (IF e \in inUse THEN line[e].left - d ELSE line[e].left)
            /\ sent'[e] = sent[e]
      /\ \/ /\ line[c].high /\ ~line'[c].high /\ line'[c].width = line[c].width /\ sent'[c] = sent[c]
            /\ \E gap \in setting.dropouts : line'[c].left = Frame - line[c].width + gap
         \/ /\ ~line[c].high /\ line'[c].high /\ line'[c].width \in setting.widths
            /\ line'[c].left = line'[c].width
            /\ sent'[c][1] = line'[c].width /\ sent'[c][2] = sent[c][1] /\ sent'[c][3] = sent[c][2]
  BY EdgeWires
<1>5. /\ line \in [Channels -> Wire] /\ sent \in [Channels -> [1 .. 3 -> Nat]]
      /\ ch \in [Channels -> ChannelRecord]
  BY DEF RcInv, Types, TypeOK, Wire, ChannelRecord
<1> HIDE DEF w
<1> SUFFICES ASSUME Steady, NEW e \in inUse
             PROVE  SteadyChannel(ch'[e], line'[e], sent'[e], Pos + d)
  BY <1>1, <1>2 DEF SteadyInv, Steady, IsPulse
<1>6. SteadyChannel(ch[e], line[e], sent[e], Pos) /\ e \in Channels
  BY <1>2 DEF SteadyInv
<1>7. CASE e # c
  <2>1. /\ ch'[e] = ch[e] /\ sent'[e] = sent[e] /\ line'[e].high = line[e].high
        /\ line'[e].width = line[e].width /\ line'[e].left = line[e].left - d
    BY <1>3, <1>4, <1>6, <1>7
  <2>2. ch[e] \in ChannelRecord /\ line[e] \in Wire /\ line'[e] \in Wire /\ sent[e] \in [1 .. 3 -> Nat]
    BY <1>4, <1>5, <1>6
  <2> QED
    BY <1>1, <1>2, <1>6, <2>1, <2>2, PassKeeps
<1>8. CASE e = c
  <2>1. /\ ch[c] \in ChannelRecord /\ ch'[c] \in ChannelRecord /\ line[c] \in Wire /\ line'[c] \in Wire
        /\ sent[c] \in [1 .. 3 -> Nat] /\ sent'[c] \in [1 .. 3 -> Nat]
    BY <1>3, <1>4, <1>5
  <2>2. Now(d) = CapturedAt(Pos + d)
    BY <1>1 DEF CapturedAt
  <2>3. w = Measure(ch[c].raw, CapturedAt(Pos + line[c].left)) /\ ch'[c].raw = CapturedAt(Pos + line[c].left)
    BY <1>3, <2>2 DEF w
  <2>4. Pos + line[c].left <= Period /\ SteadyChannel(ch[c], line[c], sent[c], Pos)
    BY <1>2, <1>6, <1>8
  <2>5. CASE line[c].high
    <3>1. /\ ~line'[c].high /\ line'[c].width = line[c].width /\ sent'[c] = sent[c]
          /\ \E gap \in setting.dropouts : line'[c].left = Frame - line[c].width + gap
      BY <1>4, <2>5
    <3>2. line'[c].left = Frame - line[c].width
      <4>1. line[c].width \in Nat
        BY <2>1 DEF Wire
      <4> QED
        BY <3>1, <4>1, Constants DEF Steady
    <3>3. SteadyChannel(ch'[c], line'[c], sent[c], Pos + line[c].left)
      BY <1>2, <1>3, <2>1, <2>3, <2>4, <2>5, <3>1, <3>2, FallKeeps
    <3> QED
      BY <1>8, <3>1, <3>3
  <2>6. CASE ~line[c].high
    <3>1. /\ line'[c].high /\ IsPulse(line'[c].width) /\ line'[c].left = line'[c].width
          /\ sent'[c][1] = line'[c].width /\ sent'[c][2] = sent[c][1] /\ sent'[c][3] = sent[c][2]
      BY <1>4, <2>6 DEF Steady
    <3>2. SteadyChannel(ch'[c], line'[c], sent'[c], Pos + line[c].left)
      BY <1>2, <1>3, <2>1, <2>3, <2>4, <2>6, <3>1, RiseKeeps
    <3> QED
      BY <1>8, <3>2
  <2> QED
    BY <2>5, <2>6
<1> QED
  BY <1>7, <1>8

LEMMA OverflowSteady ==
    ASSUME ServoTimes, RcInv, SteadyInv, rc_OverfowHandler
    PROVE  SteadyInv'
<1>1. /\ ovf \in 0 .. Period /\ \A e \in inUse : ovf <= line[e].left
      /\ line' = WiresAfter(ovf) /\ ovf' = Period
      /\ ch' = [c \in Channels |-> Overflow(ch[c])]
      /\ UNCHANGED <<setting, inUse, sent>> /\ inUse \subseteq Channels
  BY DEF rc_OverfowHandler, RcInv, Types, TypeOK
<1>2. Pos \in 0 .. Period /\ Pos + ovf = Period /\ Pos' = 0 /\ ovf \in Nat
  BY <1>1, Constants DEF Pos
<1> SUFFICES ASSUME Steady, NEW e \in inUse
             PROVE  SteadyChannel(ch'[e], line'[e], sent[e], 0)
  BY <1>1, <1>2 DEF SteadyInv, Steady, IsPulse
<1>3. e \in Channels /\ SteadyChannel(ch[e], line[e], sent[e], Pos)
  BY <1>1 DEF SteadyInv
<1>4. /\ line[e] \in Wire /\ sent[e] \in [1 .. 3 -> Nat] /\ ch[e] \in ChannelRecord
  BY <1>3 DEF RcInv, Types, TypeOK, Wire, ChannelRecord
<1>5. /\ line'[e] \in Wire /\ line'[e].high = line[e].high /\ line'[e].width = line[e].width
      /\ line'[e].left = line[e].left - ovf
  BY <1>1, <1>2, <1>3, WiresPass DEF RcInv
<1>6. SteadyChannel(ch[e], line'[e], sent[e], Period)
  <2>1. SteadyChannel(ch[e], line'[e], sent[e], Pos + ovf)
    BY <1>1, <1>2, <1>3, <1>4, <1>5, PassKeeps
  <2> QED
    BY <1>2, <2>1
<1>7. /\ ch'[e] \in ChannelRecord /\ ch'[e].raw = ch[e].raw /\ ch'[e].value = ch[e].value
      /\ ch'[e].corret => ch[e].corret
  <2>1. ch'[e] = Overflow(ch[e])
    BY <1>1, <1>3
  <2> QED
    BY <1>4, <2>1, OverflowIs
<1> QED
  BY <1>4, <1>5, <1>6, <1>7, PeriodKeeps

LEMMA StepSteady ==
    ASSUME ServoTimes, RcInv, SteadyInv, [Next]_vars
    PROVE  SteadyInv'
<1>1. CASE rc_setup
  BY <1>1, SetupSteady
<1>2. CASE \E c \in Channels : rc_IRQHandler(c)
  BY <1>2, EdgeSteady
<1>3. CASE rc_OverfowHandler
  BY <1>3, OverflowSteady
<1>4. CASE StartScheduler \/ rc_getFlag \/ rc_getValue \/ UNCHANGED vars
  <2>1. UNCHANGED <<setting, ch, inUse, line, ovf, sent>>
    BY <1>4 DEF StartScheduler, rc_getFlag, rc_getValue, vars
  <2> QED
    BY <2>1 DEF SteadyInv, Steady, IsPulse, Pos
<1> QED
  BY <1>1, <1>2, <1>3, <1>4 DEF Next

-----------------------------------------------------------------------------
(* Steady signals are not dropped: a channel that lives on the grace of the *)
(* last overflow gets a pulse that is measured before the next one.         *)

\* The pulse under way began in this period no later than a frame after its start, or before it;
\* or the next one will begin by then: either way it, or the one after it, is within the period.
Bridged(r, l, p) ==
    (r.corret /\ ~r.retry) => IF l.high THEN p - Since(l) <= Frame ELSE p + l.left <= Frame

BridgeInv == Steady => \A c \in inUse : Bridged(ch[c], line[c], Pos)

LEMMA BridgedPasses ==
    ASSUME NEW r \in ChannelRecord, NEW l \in Wire, NEW m \in Wire, NEW p \in 0 .. Period,
           NEW d \in Nat, m.high = l.high, m.width = l.width, m.left = l.left - d,
           Bridged(r, l, p)
    PROVE  Bridged(r, m, p + d)
<1>1. l.left \in Nat /\ l.width \in Nat /\ m.left \in Nat /\ (m.high <=> l.high)
  BY DEF Wire
<1>2. l.high => Since(l) = l.width - l.left /\ Since(m) = l.width - (l.left - d)
  BY <1>1 DEF Since
<1> QED
  BY <1>1, <1>2, Constants DEF Bridged

\* At an overflow a channel that is believed has retry set, and keeps its value for one more period.
LEMMA RetryAtOverflow ==
    ASSUME ServoTimes, NEW r \in ChannelRecord, NEW l \in Wire, NEW s \in [1 .. 3 -> Nat],
           SteadyChannel(r, l, s, Period), Bridged(r, l, Period), r.corret
    PROVE  r.retry
<1>1. Edge(r, l, s, Period)
  BY DEF SteadyChannel, NoEdge
<1>2. l.left \in Nat /\ l.width \in Nat /\ l.width < RC_MAX /\ (l.high => Since(l) <= l.width)
  BY <1>1 DEF Wire, Since, Edge, IsPulse
<1>3. l.high => Period - Since(l) > Frame
  BY <1>2, Constants DEF ServoTimes, Wire, Since
<1>4. Period + l.left > Frame
  BY <1>2, Constants DEF ServoTimes
<1>5. l.high => ~(Period - Since(l) <= Frame)
  <2>1. Since(l) \in Int
    BY <1>2, Constants DEF Since
  <2> QED
    BY <1>3, <2>1, Constants
<1>6. ~(Period + l.left <= Frame)
  BY <1>2, <1>4, Constants
<1> QED
  BY <1>5, <1>6, Zenon DEF Bridged

LEMMA BridgedOverPeriod ==
    ASSUME ServoTimes, NEW q \in ChannelRecord, NEW l \in Wire, NEW s \in [1 .. 3 -> Nat],
           SteadyChannel(q, l, s, 0)
    PROVE  Bridged(q, l, 0)
<1> SUFFICES ASSUME q.corret PROVE Bridged(q, l, 0)
  BY DEF Bridged
<1>1. Edge(q, l, s, 0)
  BY DEF SteadyChannel, NoEdge
<1>2. l.left \in Nat /\ l.width \in Nat /\ 0 <= Since(l)
  BY <1>1 DEF Edge, Wire
<1>3. CASE l.high
  BY <1>2, <1>3, Constants DEF Bridged, Since
<1>4. CASE ~l.high
  <2>1. Since(l) = Frame - l.width - l.left
    BY <1>4 DEF Since
  <2> QED
    BY <1>2, <1>4, <2>1, Constants DEF Bridged
<1> QED
  BY <1>3, <1>4

\* The end of a pulse that began before this period, or so late in it that it was seen whole, or so
\* late that the period ends in it.
LEMMA BridgedFall ==
    ASSUME ServoTimes,
           NEW r \in ChannelRecord, NEW q \in ChannelRecord, NEW l \in Wire, NEW m \in Wire,
           NEW s \in [1 .. 3 -> Nat], NEW p \in 0 .. Period, p + l.left <= Period,
           l.high, ~m.high, m.left = Frame - l.width,
           NEW w, w = Measure(r.raw, CapturedAt(p + l.left)),
           IsPulse(w) => q.retry,
           ~IsPulse(w) => q.corret = r.corret /\ q.retry = r.retry,
           SteadyChannel(r, l, s, p), Bridged(r, l, p)
    PROVE  Bridged(q, m, p + l.left)
<1> SUFFICES ASSUME ~q.retry, q.corret PROVE (p + l.left) + m.left <= Frame
  BY DEF Bridged
<1>1. ~IsPulse(w) /\ r.corret /\ ~r.retry
  BY Zenon
<1>2. Edge(r, l, s, p)
  BY DEF SteadyChannel, NoEdge
<1>3. /\ l.left \in Nat /\ l.width \in Nat /\ r.raw \in 0 .. Period - 1
      /\ Since(l) = l.width - l.left /\ 0 <= Since(l)
      /\ RC_MIN < l.width /\ l.width < RC_MAX /\ RawIs(r, l, p)
  BY <1>2 DEF Wire, ChannelRecord, Since, Edge, IsPulse
<1>4. p - Since(l) <= Frame
  BY <1>1 DEF Bridged
<1>5. p + l.left < Period
  BY <1>3, <1>4, Constants DEF ServoTimes
<1>6. r.raw # p - Since(l)
  <2> SUFFICES ASSUME r.raw = p - Since(l) PROVE FALSE
    OBVIOUS
  <2>1. CapturedAt(p + l.left) = p + l.left /\ p + l.left > r.raw
    BY <1>3, <1>5, Constants DEF CapturedAt
  <2>2. w = l.width
    BY <1>3, <2>1, Constants DEF Measure
  <2> QED
    BY <1>1, <1>3, <2>2 DEF IsPulse
<1>7. p < Since(l)
  BY <1>3, <1>4, <1>6, Constants DEF RawIs, ServoTimes
<1> QED
  BY <1>3, <1>7, Constants DEF Wire

\* A pulse begins: what lies before it is too long to be taken for one.
LEMMA BridgedRise ==
    ASSUME ServoTimes,
           NEW r \in ChannelRecord, NEW q \in ChannelRecord, NEW l \in Wire, NEW m \in Wire,
           NEW p \in 0 .. Period, ~l.high, m.high, m.left = m.width,
           q.retry \/ (q.corret = r.corret /\ q.retry = r.retry),
           Bridged(r, l, p)
    PROVE  Bridged(q, m, p + l.left)
<1> SUFFICES ASSUME ~q.retry, q.corret PROVE (p + l.left) - Since(m) <= Frame
  BY DEF Bridged
<1>1. r.corret /\ ~r.retry
  BY Zenon
<1>2. p + l.left <= Frame
  BY <1>1 DEF Bridged
<1>3. Since(m) = 0 /\ l.left \in Nat
  BY DEF Since, Wire
<1> QED
  BY <1>2, <1>3, Constants

LEMMA BridgeBeforeEdges == ASSUME RcInv, boot # "run" PROVE BridgeInv
<1>1. \A c \in Channels : ~ch[c].corret
  BY NoSignalTyped DEF RcInv, Setup
<1>2. inUse \subseteq Channels
  BY DEF RcInv, Types, TypeOK
<1> QED
  BY <1>1, <1>2 DEF BridgeInv, Bridged

LEMMA EdgeBridges ==
    ASSUME ServoTimes, RcInv, SteadyInv, BridgeInv, NEW c \in Channels, rc_IRQHandler(c)
    PROVE  BridgeInv'
<1> DEFINE d == line[c].left
           w == Measure(ch[c].raw, Now(d))
<1>1. /\ c \in inUse /\ d \in Nat /\ d <= ovf /\ \A e \in inUse : d <= line[e].left
      /\ Now(d) = (IF Pos + d = Period THEN 0 ELSE Pos + d)
      /\ ovf' = ovf - d /\ UNCHANGED <<setting, inUse>>
  BY EdgeIs
<1>2. /\ ovf \in 0 .. Period /\ Pos \in 0 .. Period /\ Pos + d <= Period /\ Pos' = Pos + d
      /\ inUse \subseteq Channels
  BY <1>1, Constants DEF RcInv, Types, TypeOK, Pos
<1>3. /\ ch' \in [Channels -> ChannelRecord]
      /\ \A e \in Channels \ {c} : ch'[e] = ch[e]
      /\ IsPulse(w) => ch'[c].retry
      /\ ~IsPulse(w) => ch'[c].corret = ch[c].corret /\ ch'[c].retry = ch[c].retry
  BY EdgeChannels
<1>4. /\ line' \in [Channels -> Wire]
      /\ \A e \in Channels \ {c} :
            /\ line'[e].high = line[e].high /\ line'[e].width = line[e].width
            /\ line'[e].left = (IF e \in inUse THEN line[e].left - d ELSE line[e].left)
      /\ \/ /\ line[c].high /\ ~line'[c].high
            /\ \E gap \in setting.dropouts : line'[c].left = Frame - line[c].width + gap
         \/ ~line[c].high /\ line'[c].high /\ line'[c].left = line'[c].width
  BY EdgeWires
<1>5. /\ line \in [Channels -> Wire] /\ sent \in [Channels -> [1 .. 3 -> Nat]]
      /\ ch \in [Channels -> ChannelRecord]
  BY DEF RcInv, Types, TypeOK, Wire, ChannelRecord
<1> HIDE DEF w
<1> SUFFICES ASSUME Steady, NEW e \in inUse PROVE Bridged(ch'[e], line'[e], Pos + d)
  BY <1>1, <1>2 DEF BridgeInv, Steady, IsPulse
<1>6. SteadyChannel(ch[e], line[e], sent[e], Pos) /\ Bridged(ch[e], line[e], Pos) /\ e \in Channels
  BY <1>2 DEF SteadyInv, BridgeInv
<1>7. CASE e # c
  <2>1. /\ ch'[e] = ch[e] /\ line'[e].high = line[e].high
        /\ line'[e].width = line[e].width /\ line'[e].left = line[e].left - d
    BY <1>3, <1>4, <1>6, <1>7
  <2>2. ch[e] \in ChannelRecord /\ line[e] \in Wire /\ line'[e] \in Wire
    BY <1>4, <1>5, <1>6
  <2> QED
    BY <1>1, <1>2, <1>6, <2>1, <2>2, BridgedPasses
<1>8. CASE e = c
  <2>1. /\ ch[c] \in ChannelRecord /\ ch'[c] \in ChannelRecord /\ line[c] \in Wire /\ line'[c] \in Wire
        /\ sent[c] \in [1 .. 3 -> Nat]
    BY <1>3, <1>4, <1>5
  <2>2. w = Measure(ch[c].raw, CapturedAt(Pos + line[c].left))
    BY <1>1 DEF w, CapturedAt
  <2>3. Pos + line[c].left <= Period /\ SteadyChannel(ch[c], line[c], sent[c], Pos) /\ Bridged(ch[c], line[c], Pos)
    BY <1>2, <1>6, <1>8
  <2>4. CASE line[c].high
    <3>1. ~line'[c].high /\ \E gap \in setting.dropouts : line'[c].left = Frame - line[c].width + gap
      BY <1>4, <2>4
    <3>2. line'[c].left = Frame - line[c].width
      <4>1. line[c].width \in Nat
        BY <2>1 DEF Wire
      <4> QED
        BY <3>1, <4>1, Constants DEF Steady
    <3> QED
      BY <1>2, <1>3, <1>8, <2>1, <2>2, <2>3, <2>4, <3>1, <3>2, BridgedFall
  <2>5. CASE ~line[c].high
    <3>1. line'[c].high /\ line'[c].left = line'[c].width
      BY <1>4, <2>5
    <3>2. ch'[c].retry \/ (ch'[c].corret = ch[c].corret /\ ch'[c].retry = ch[c].retry)
      BY <1>3
    <3> QED
      BY <1>2, <1>8, <2>1, <2>3, <2>5, <3>1, <3>2, BridgedRise
  <2> QED
    BY <2>4, <2>5
<1> QED
  BY <1>7, <1>8

\* The overflow: what was believed is believed on.
LEMMA OverflowBridges ==
    ASSUME ServoTimes, RcInv, SteadyInv, BridgeInv, rc_OverfowHandler
    PROVE  BridgeInv' /\ (Steady => \A c \in inUse : ch[c].corret => ch'[c].corret)
<1>1. /\ ovf \in 0 .. Period /\ \A e \in inUse : ovf <= line[e].left
      /\ line' = WiresAfter(ovf) /\ ovf' = Period
      /\ ch' = [c \in Channels |-> Overflow(ch[c])]
      /\ UNCHANGED <<setting, inUse, sent>> /\ inUse \subseteq Channels
  BY DEF rc_OverfowHandler, RcInv, Types, TypeOK
<1>2. Pos \in 0 .. Period /\ Pos + ovf = Period /\ Pos' = 0 /\ ovf \in Nat
  BY <1>1, Constants DEF Pos
<1>3. SteadyInv' /\ RcInv'
  BY OverflowSteady, OverflowKeeps
<1> SUFFICES ASSUME Steady, NEW e \in inUse
             PROVE  Bridged(ch'[e], line'[e], 0) /\ (ch[e].corret => ch'[e].corret)
  BY <1>1, <1>2 DEF BridgeInv, Steady, IsPulse
<1>4. /\ e \in Channels /\ SteadyChannel(ch[e], line[e], sent[e], Pos) /\ Bridged(ch[e], line[e], Pos)
      /\ SteadyChannel(ch'[e], line'[e], sent[e], 0)
  BY <1>1, <1>2, <1>3 DEF SteadyInv, BridgeInv, Steady, IsPulse
<1>5. /\ line[e] \in Wire /\ sent[e] \in [1 .. 3 -> Nat] /\ ch[e] \in ChannelRecord
      /\ line'[e] \in Wire /\ ch'[e] \in ChannelRecord
  BY <1>3, <1>4 DEF RcInv, Types, TypeOK, Wire, ChannelRecord
<1>6. /\ line'[e].high = line[e].high /\ line'[e].width = line[e].width
      /\ line'[e].left = line[e].left - ovf
  BY <1>1, <1>2, <1>4, WiresPass DEF RcInv
<1>7. SteadyChannel(ch[e], line'[e], sent[e], Period)
  <2>1. SteadyChannel(ch[e], line'[e], sent[e], Pos + ovf)
    BY <1>1, <1>2, <1>4, <1>5, <1>6, PassKeeps
  <2> QED
    BY <1>2, <2>1
<1>8. Bridged(ch[e], line'[e], Period)
  <2>1. Bridged(ch[e], line'[e], Pos + ovf)
    BY <1>2, <1>4, <1>5, <1>6, BridgedPasses
  <2> QED
    BY <1>2, <2>1
<1>9. ch[e].corret => ch[e].retry
  BY <1>5, <1>7, <1>8, RetryAtOverflow
<1>10. ch'[e] = Overflow(ch[e])
  BY <1>1, <1>4
<1> QED
  BY <1>4, <1>5, <1>9, <1>10, OverflowIs, BridgedOverPeriod

LEMMA StepBridges ==
    ASSUME ServoTimes, RcInv, SteadyInv, BridgeInv, [Next]_vars
    PROVE  BridgeInv'
<1>1. CASE rc_setup
  <2>1. RcInv' /\ boot' # "run"
    BY <1>1, SetupKeeps DEF rc_setup
  <2>2. \A c \in Channels : ~ch'[c].corret
    BY <2>1, NoSignalTyped DEF RcInv, Setup
  <2>3. inUse' \subseteq Channels
    BY <2>1 DEF RcInv, Types, TypeOK
  <2> QED
    BY <2>2, <2>3 DEF BridgeInv, Bridged
<1>2. CASE \E c \in Channels : rc_IRQHandler(c)
  BY <1>2, EdgeBridges
<1>3. CASE rc_OverfowHandler
  BY <1>3, OverflowBridges
<1>4. CASE StartScheduler \/ rc_getFlag \/ rc_getValue \/ UNCHANGED vars
  <2>1. UNCHANGED <<setting, ch, inUse, line, ovf>>
    BY <1>4 DEF StartScheduler, rc_getFlag, rc_getValue, vars
  <2> QED
    BY <2>1 DEF BridgeInv, Steady, IsPulse, Pos
<1> QED
  BY <1>1, <1>2, <1>3, <1>4 DEF Next

\* A steady channel that is believed is so after every step.
LEMMA StepKeepsOn ==
    ASSUME ServoTimes, RcInv, SteadyInv, BridgeInv, [Next]_vars,
           NEW c \in Channels, Steady, ch[c].corret
    PROVE  ch'[c].corret
<1>1. c \in inUse
  BY NoSignalTyped DEF RcInv, Setup
<1>2. CASE rc_setup
  <2>1. ch[c] = NoSignal
    BY <1>2 DEF RcInv, Setup, rc_setup
  <2> QED
    BY <2>1, NoSignalTyped
<1>3. CASE \E e \in Channels : rc_IRQHandler(e)
  <2>1. PICK e \in Channels : rc_IRQHandler(e)
    BY <1>3
  <2>2. /\ \A f \in Channels \ {e} : ch'[f] = ch[f]
        /\ ch'[e].corret \/ ch'[e].corret = ch[e].corret
    BY <2>1, EdgeChannels
  <2> QED
    BY <2>2
<1>4. CASE rc_OverfowHandler
  BY <1>1, <1>4, OverflowBridges
<1>5. CASE StartScheduler \/ rc_getFlag \/ rc_getValue \/ UNCHANGED vars
  BY <1>5 DEF StartScheduler, rc_getFlag, rc_getValue, vars
<1> QED
  BY <1>2, <1>3, <1>4, <1>5 DEF Next

-----------------------------------------------------------------------------
(* Theorems *)

\* The inductive invariant: types, the setup in order, and what retry and corret say about the age
\* of the last accepted measurement.
THEOREM RcInductive == Spec => []RcInv
<1>1. Init => RcInv
  BY InitRcInv
<1>2. RcInv /\ [Next]_vars => RcInv'
  BY StepRcInv
<1> QED
  BY <1>1, <1>2, PTL DEF Spec

\* rc_get (remote_control.c) reads flag and value in two steps, interrupts between: it returns 0 or a
\* width between RC_MIN and RC_MAX.
THEOREM ResultPlausible == Spec => []ResultInRange
<1>1. RcInv => ResultInRange
  BY DEF RcInv, Types, ResultInRange
<1> QED
  BY <1>1, RcInductive, PTL

\* Whatever the captures measure, two periods after the last accepted measurement the channel is not
\* believed any more.
THEOREM FailsafeDrops == Spec => []StaleIsDropped
<1>1. RcInv => StaleIsDropped
  <2> SUFFICES ASSUME RcInv, NEW c \in Channels, ch[c].corret PROVE age[c] <= 2 * Period
    BY DEF StaleIsDropped
  <2>1. Pos \in 0 .. Period /\ age[c] \in Nat
    BY Constants DEF RcInv, Types, TypeOK, Pos
  <2>2. age[c] <= IF ch[c].retry THEN Pos ELSE Period + Pos
    BY DEF RcInv, Failsafe
  <2> QED
    BY <2>1, <2>2, Constants
<1> QED
  BY <1>1, RcInductive, PTL

\* Comment of remote_control.c, "Wait unil next Overfow": a channel survives the first overflow after
\* an accepted measurement.
THEOREM GraceHolds == Spec => []GraceIsKept
<1>1. RcInv => GraceIsKept
  <2> SUFFICES ASSUME RcInv, NEW c \in Channels, age[c] < 2 * Period - ovf PROVE ch[c].corret
    BY DEF GraceIsKept
  <2>1. ovf \in Int /\ 2 * Period - ovf = Period + Pos
    BY Constants DEF RcInv, Types, TypeOK, Pos
  <2> QED
    BY <2>1 DEF RcInv, Failsafe
<1> QED
  BY <1>1, RcInductive, PTL

\* For any servo signal (ServoTimes: the code's limits and the transmitter's frame satisfy it) without
\* dropouts, the value of a believed channel is the width of one of the last three pulses.
THEOREM SteadyRecency ==
    ASSUME ServoTimes
    PROVE  Spec => []SteadyIsRecent
<1>1. Init => RcInv /\ SteadyInv
  <2>1. Init => boot # "run"
    BY DEF Init
  <2> QED
    BY <2>1, InitRcInv, BeforeEdges
<1>2. RcInv /\ SteadyInv /\ [Next]_vars => (RcInv /\ SteadyInv)'
  BY StepRcInv, StepSteady
<1>3. RcInv /\ SteadyInv => SteadyIsRecent
  <2> SUFFICES ASSUME RcInv, SteadyInv, NEW c \in Channels, Steady, ch[c].corret
               PROVE  \E i \in 1 .. 3 : ch[c].value = sent[c][i]
    BY DEF SteadyIsRecent
  <2>1. c \in inUse
    BY NoSignalTyped DEF RcInv, Setup
  <2>2. SteadyChannel(ch[c], line[c], sent[c], Pos)
    BY <2>1 DEF SteadyInv
  <2> QED
    BY <2>2 DEF SteadyChannel, NoEdge, Recent
<1> QED
  BY <1>1, <1>2, <1>3, PTL DEF Spec
\* The flags that overflow and capture interrupt share (remote_control.c:75) lose no steady signal:
\* once a channel is believed no step drops it, whatever the phase of its frame against the timer.
THEOREM SteadyIsKept ==
    ASSUME ServoTimes
    PROVE  Spec => SteadyNeverDropped
<1> DEFINE All == RcInv /\ SteadyInv /\ BridgeInv
           Kept == \A c \in Channels : (Steady /\ ch[c].corret) => ch'[c].corret
<1>1. Init => All
  <2>1. Init => boot # "run"
    BY DEF Init
  <2> QED
    BY <2>1, InitRcInv, BeforeEdges, BridgeBeforeEdges
<1>2. All /\ [Next]_vars => All'
  BY StepRcInv, StepSteady, StepBridges
<1>3. All /\ [Next]_vars => [Kept]_vars
  BY StepKeepsOn
<1> QED
  BY <1>1, <1>2, <1>3, PTL DEF Spec, SteadyNeverDropped
=============================================================================
