--------------------------- MODULE CrsfBridgeProofs ---------------------------
(* What the CRSF bridge keeps for any timeouts, sleeps and socket sizes.      *)
EXTENDS CrsfBridge, SequenceTheorems, TLAPS

(* A handle exists only in a running bridge, and only in CRSF mode. *)
HandleInv ==
    /\ PortOnlyInCrsf
    /\ proc \in {"off", "connect", "retry"} => ser = "none"

(* How long datagrams have waited: a running bridge has emptied the socket by *)
(* the end of each pass, a sleeping one finds what came during the sleep.     *)
NoOlder(n) == \A i \in 1..Len(queue) : queue[i].age <= n
WaitingInv ==
    /\ proc \in {"off", "connect", "retry"} => queue = <<>>
    /\ proc = "run" => NoOlder(IF passed THEN 0 ELSE ReopenSleep)
    /\ proc = "asleep" => /\ left <= ReopenSleep
                          /\ passed => left = ReopenSleep
                          /\ NoOlder(ReopenSleep - left)

(* Sticks that count as fresh waited for a sleep at most before. *)
ChannelInv == fresh <= FailsafeTimeout => channels <= fresh + ReopenSleep

IInv == TypeOK /\ HandleInv /\ WaitingInv /\ ChannelInv /\ SticksAreRecent

LEMMA ConstantsNat ==
    /\ FailsafeTimeout \in Nat /\ FailsafeTimeout > 0
    /\ ReopenSleep \in Nat /\ ReopenSleep > 0
    /\ ConnectRetry \in Nat /\ ConnectRetry > 0
    /\ MaxArrivals \in Nat /\ MaxQueue \in Nat /\ MaxFaults \in Nat
    /\ Oldest \in Nat /\ Oldest = FailsafeTimeout + ReopenSleep + 1
    /\ Ages = 0..Oldest
    /\ DefaultMode \in Modes
  BY BridgeAssumption DEF Oldest, Ages

LEMMA OlderAge == \A n \in Ages : Older(n) \in Ages /\ Older(n) <= n + 1 /\ n <= Older(n)
  BY ConstantsNat DEF Older

LEMMA InitInv == Init => IInv
  <1> SUFFICES ASSUME Init PROVE IInv
    OBVIOUS
  <1>1. <<>> \in Seq(Datagrams) /\ Len(<<>>) = 0
    OBVIOUS
  <1>2. TypeOK
    <2>1. /\ port \in BOOLEAN /\ failsafe \in BOOLEAN /\ passed \in BOOLEAN /\ sent \in BOOLEAN
          /\ proc \in {"off", "connect", "run", "asleep", "retry"}
          /\ mode \in Modes /\ ser \in {"none", "works", "broken"}
      BY ConstantsNat DEF Init
    <2>2. queue \in Seq(Datagrams) /\ Len(queue) <= MaxQueue
      BY <1>1, ConstantsNat DEF Init
    <2>3. /\ left \in 0..(ReopenSleep + ConnectRetry)
          /\ channels \in Ages /\ fresh \in Ages
          /\ arrived \in 0..MaxArrivals /\ faults \in 0..MaxFaults
      BY ConstantsNat DEF Init
    <2>4. frame \in [live : BOOLEAN, age : Ages]
      BY ConstantsNat DEF Init, NoFrame
    <2> QED
      BY <2>1, <2>2, <2>3, <2>4 DEF TypeOK
  <1>3. HandleInv
    BY DEF Init, HandleInv, PortOnlyInCrsf
  <1>4. WaitingInv
    BY DEF Init, WaitingInv
  <1>5. ChannelInv /\ SticksAreRecent
    BY ConstantsNat DEF Init, ChannelInv, SticksAreRecent, NoFrame
  <1> QED
    BY <1>2, <1>3, <1>4, <1>5 DEF IInv

(* The socket: a datagram more, one less, all of them a tick older. *)
LEMMA QueueAppend ==
    ASSUME queue \in Seq(Datagrams), NEW d \in Datagrams, NEW n \in Nat,
           NoOlder(n), d.age = 0, queue' = Append(queue, d)
    PROVE  /\ queue' \in Seq(Datagrams) /\ Len(queue') = Len(queue) + 1
           /\ NoOlder(n)'
  <1>1. queue' \in Seq(Datagrams) /\ Len(queue') = Len(queue) + 1
    OBVIOUS
  <1>2. ASSUME NEW i \in 1..Len(queue') PROVE queue'[i].age <= n
    <2>1. CASE i = Len(queue) + 1
      BY <1>1, <2>1
    <2>2. CASE i # Len(queue) + 1
      <3>1. i \in 1..Len(queue) /\ queue'[i] = queue[i]
        BY <1>1, <1>2, <2>2
      <3> QED
        BY <3>1 DEF NoOlder
    <2> QED
      BY <2>1, <2>2
  <1> QED
    BY <1>1, <1>2 DEF NoOlder

LEMMA QueueTail ==
    ASSUME queue \in Seq(Datagrams), queue # <<>>, NEW n \in Nat,
           NoOlder(n), queue' = Tail(queue)
    PROVE  /\ queue' \in Seq(Datagrams) /\ Len(queue') = Len(queue) - 1
           /\ Head(queue) \in Datagrams /\ Head(queue).age <= n
           /\ NoOlder(n)'
  <1>1. queue' \in Seq(Datagrams) /\ Len(queue') = Len(queue) - 1 /\ Len(queue) \in Nat
    OBVIOUS
  <1>2. Len(queue) >= 1 /\ Head(queue) = queue[1] /\ Head(queue) \in Datagrams
    OBVIOUS
  <1>3. ASSUME NEW i \in 1..Len(queue') PROVE queue'[i].age <= n
    <2>1. queue'[i] = queue[i + 1] /\ i + 1 \in 1..Len(queue)
      BY <1>1, <1>3
    <2> QED
      BY <2>1 DEF NoOlder
  <1>4. Head(queue).age <= n
    BY <1>2 DEF NoOlder
  <1> QED
    BY <1>1, <1>2, <1>3, <1>4 DEF NoOlder

LEMMA QueueTick ==
    ASSUME queue \in Seq(Datagrams), NEW n \in Nat, NoOlder(n),
           queue' = [i \in DOMAIN queue |-> [queue[i] EXCEPT !.age = Older(@)]]
    PROVE  /\ queue' \in Seq(Datagrams) /\ Len(queue') = Len(queue)
           /\ (queue = <<>> => queue' = <<>>)
           /\ NoOlder(n + 1)'
  <1>1. DOMAIN queue = 1..Len(queue) /\ Len(queue) \in Nat
    OBVIOUS
  <1>2. ASSUME NEW i \in 1..Len(queue)
        PROVE  /\ [queue[i] EXCEPT !.age = Older(@)] \in Datagrams
               /\ [queue[i] EXCEPT !.age = Older(@)].age <= n + 1
    <2>1. queue[i] \in Datagrams
      BY <1>1, <1>2
    <2>2. queue[i].age \in Ages /\ queue[i].age <= n
      BY <2>1 DEF Datagrams, NoOlder
    <2>3. Older(queue[i].age) \in Ages /\ Older(queue[i].age) <= queue[i].age + 1
      BY <2>2, OlderAge
    <2>4. [queue[i] EXCEPT !.age = Older(@)] \in Datagrams
      BY <2>1, <2>3 DEF Datagrams
    <2>5. [queue[i] EXCEPT !.age = Older(@)].age = Older(queue[i].age)
      BY <2>1 DEF Datagrams
    <2> QED
      BY <2>2, <2>3, <2>4, <2>5, ConstantsNat
  <1>3. queue' \in [1..Len(queue) -> Datagrams]
    BY <1>1, <1>2
  <1>4. queue' \in Seq(Datagrams) /\ Len(queue') = Len(queue)
    BY <1>1, <1>3
  <1>5. \A i \in 1..Len(queue) : queue'[i].age <= n + 1
    BY <1>1, <1>2
  <1>6. queue = <<>> => queue' = <<>>
    BY <1>4
  <1> QED
    BY <1>4, <1>5, <1>6 DEF NoOlder

(* One action at a time: first those that leave the socket's contents alone. *)
LEMMA TypeStep == TypeOK /\ WaitingInv /\ [Next]_vars => TypeOK'
  <1> SUFFICES ASSUME TypeOK, WaitingInv, [Next]_vars PROVE TypeOK'
    OBVIOUS
  <1> USE ConstantsNat
  <1>e. <<>> \in Seq(Datagrams) /\ Len(<<>>) = 0
    OBVIOUS
  <1>f. frame \in [live : BOOLEAN, age : Ages] /\ channels \in Ages /\ 0 \in Ages
    BY DEF TypeOK
  <1>n. /\ left \in 0..(ReopenSleep + ConnectRetry)
        /\ arrived \in 0..MaxArrivals /\ faults \in 0..MaxFaults
    BY DEF TypeOK
  <1>q. queue \in Seq(Datagrams) /\ Len(queue) \in Nat /\ Len(queue) <= MaxQueue
    BY DEF TypeOK
  <1>1. CASE Arrive
    <2>1. PICK kind \in {"sticks", "other"} \cup Modes :
            queue' = Append(queue, [kind |-> kind, age |-> 0])
      BY <1>1 DEF Arrive
    <2>2. [kind |-> kind, age |-> 0] \in Datagrams
      BY <2>1 DEF Datagrams
    <2>3. queue' \in Seq(Datagrams) /\ Len(queue') = Len(queue) + 1
      BY <1>q, <2>1, <2>2
    <2>4. Len(queue') <= MaxQueue
      BY <1>1, <1>q, <2>3 DEF Arrive
    <2> QED
      BY <1>1, <2>3, <2>4 DEF Arrive, TypeOK, fields, clock
  <1>2. CASE PortFlips
    BY <1>2 DEF PortFlips, TypeOK, socket, clock
  <1>3. CASE WriteBreaks
    BY <1>3 DEF WriteBreaks, TypeOK, socket, clock
  <1>4. CASE Stop
    <2>1. queue' \in Seq(Datagrams) /\ Len(queue') <= MaxQueue
      BY <1>4, <1>e DEF Stop
    <2>2. /\ proc' = "off" /\ ser' = "none" /\ left' = 0 /\ passed' = FALSE
          /\ faults < MaxFaults /\ faults' = faults + 1
          /\ UNCHANGED <<port, arrived, mode, channels, fresh, failsafe, frame, sent>>
      BY <1>4 DEF Stop
    <2>3. left' \in 0..(ReopenSleep + ConnectRetry) /\ faults' \in 0..MaxFaults
      BY <1>n, <2>2
    <2>4. passed' \in BOOLEAN
      BY <2>2
    <2> QED
      BY <2>1, <2>2, <2>3, <2>4 DEF TypeOK
  <1>5. CASE Start
    BY <1>5 DEF Start, TypeOK, socket, clock
  <1>6. CASE Connect
    <2>1. queue' \in Seq(Datagrams) /\ Len(queue') <= MaxQueue
      <3>1. CASE queue' = <<>>
        BY <1>e, <3>1
      <3>2. CASE queue' = queue
        BY <1>q, <3>2
      <3> QED
        BY <1>6, <3>1, <3>2 DEF Connect, Abort
    <2> QED
      BY <1>6, <2>1 DEF Connect, Abort, TypeOK
  <1>7. CASE Wake
    BY <1>7 DEF Wake, TypeOK, socket, fields, clock
  <1>8. ASSUME queue # <<>>, queue' = Tail(queue)
        PROVE  queue' \in Seq(Datagrams) /\ Len(queue') <= MaxQueue /\ Head(queue) \in Datagrams
    BY <1>8 DEF TypeOK
  <1>9. CASE TakeSticks
    <2>1. queue' \in Seq(Datagrams) /\ Len(queue') <= MaxQueue /\ Head(queue).age \in Ages
      BY <1>8, <1>9 DEF TakeSticks, Take, Datagrams
    <2> QED
      BY <1>9, <2>1 DEF TakeSticks, TypeOK, clock
  <1>10. CASE TakeIgnored
    BY <1>8, <1>10 DEF TakeIgnored, Take, TypeOK, fields, clock
  <1>11. CASE TakeCrsf
    <2>1. queue' \in Seq(Datagrams) /\ Len(queue') <= MaxQueue
      <3>1. CASE queue' = <<>>
        BY <1>e, <3>1
      <3>2. CASE queue # <<>> /\ queue' = Tail(queue)
        BY <1>8, <3>2
      <3> QED
        BY <1>11, <3>1, <3>2 DEF TakeCrsf, Take, Abort
    <2> QED
      BY <1>11, <2>1 DEF TakeCrsf, Abort, TypeOK, Modes
  <1>12. CASE TakeMavlink
    BY <1>8, <1>12 DEF TakeMavlink, Take, TypeOK, clock, Modes
  <1>13. CASE Pass
    <2>1. /\ frame' \in [live : BOOLEAN, age : Ages]
          /\ failsafe' \in BOOLEAN /\ sent' \in BOOLEAN
          /\ left' \in 0..(ReopenSleep + ConnectRetry)
      <3>1. CASE mode = "crsf" /\ ser # "none"
        <4>1. InFailsafe \in BOOLEAN
          BY DEF InFailsafe, LinkAlive
        <4>2. failsafe' \in BOOLEAN
          BY <1>13, <3>1, <4>1 DEF Pass
        <4>3. frame' = frame \/ frame' = [live |-> ~InFailsafe,
                                         age |-> IF InFailsafe THEN 0 ELSE channels]
          BY <1>13, <3>1 DEF Pass
        <4>4. /\ [live |-> FALSE, age |-> 0] \in [live : BOOLEAN, age : Ages]
              /\ [live |-> TRUE, age |-> channels] \in [live : BOOLEAN, age : Ages]
          BY <1>f
        <4>5. \/ frame' = frame
              \/ frame' = [live |-> FALSE, age |-> 0]
              \/ frame' = [live |-> TRUE, age |-> channels]
          BY <4>1, <4>3
        <4>6. frame' \in [live : BOOLEAN, age : Ages]
          BY <1>f, <4>4, <4>5
        <4>7. (sent' = sent \/ sent' = TRUE) /\ (left' = left \/ left' = ReopenSleep)
          BY <1>13, <3>1 DEF Pass
        <4>8. sent' \in BOOLEAN
          BY <4>7 DEF TypeOK
        <4>9. left' \in 0..(ReopenSleep + ConnectRetry)
          BY <1>n, <4>7
        <4> QED
          BY <4>2, <4>6, <4>8, <4>9
      <3>2. CASE ~(mode = "crsf" /\ ser # "none")
        <4>1. UNCHANGED <<failsafe, frame, sent, left>>
          BY <1>13, <3>2 DEF Pass
        <4> QED
          BY <4>1 DEF TypeOK
      <3> QED
        BY <3>1, <3>2
    <2>2. /\ proc' \in {"run", "asleep"} /\ ser' \in {"none", "works", "broken"}
          /\ passed' = TRUE
          /\ UNCHANGED <<port, queue, arrived, mode, channels, fresh, faults>>
      BY <1>13 DEF Pass, TypeOK, socket
    <2> QED
      BY <2>1, <2>2 DEF TypeOK
  <1>14. CASE Tick
    <2>1. queue' \in Seq(Datagrams) /\ Len(queue') = Len(queue)
      <3>1. \A i \in 1..Len(queue) : queue[i] \in Datagrams
        BY <1>q
      <3>2. \A i \in 1..Len(queue) : queue[i].age <= Oldest
        BY <3>1 DEF Datagrams
      <3> QED
        BY <1>14, <1>q, <3>2, QueueTick DEF Tick, NoOlder
    <2>2. channels' \in Ages /\ fresh' \in Ages
      BY <1>14, OlderAge DEF Tick, TypeOK
    <2>3. Len(queue') <= MaxQueue
      BY <1>q, <2>1
    <2>4. /\ left' = IF left > 0 THEN left - 1 ELSE 0
          /\ passed' = FALSE /\ sent' = FALSE /\ arrived' = 0
          /\ UNCHANGED <<port, proc, mode, ser, failsafe, frame, faults>>
      BY <1>14 DEF Tick
    <2>5. left' \in 0..(ReopenSleep + ConnectRetry) /\ arrived' \in 0..MaxArrivals
      BY <1>n, <2>4
    <2>6. passed' \in BOOLEAN /\ sent' \in BOOLEAN
      BY <2>4
    <2> QED
      BY <2>1, <2>2, <2>3, <2>4, <2>5, <2>6 DEF TypeOK
  <1>15. CASE UNCHANGED vars
    BY <1>15 DEF vars, TypeOK, socket, fields, clock
  <1> QED
    BY <1>1, <1>2, <1>3, <1>4, <1>5, <1>6, <1>7, <1>9, <1>10, <1>11, <1>12, <1>13, <1>14, <1>15
       DEF Next, Bridge

LEMMA HandleStep == TypeOK /\ HandleInv /\ [Next]_vars => HandleInv'
  <1> SUFFICES ASSUME TypeOK, HandleInv, [Next]_vars PROVE HandleInv'
    OBVIOUS
  <1> USE DEF HandleInv, PortOnlyInCrsf
  <1>1. CASE Arrive \/ PortFlips \/ WriteBreaks \/ Stop \/ Start \/ Tick
    BY <1>1 DEF Arrive, PortFlips, WriteBreaks, Stop, Start, Tick, socket, fields, clock
  <1>2. CASE Connect \/ Wake
    BY <1>2 DEF Connect, Wake, Abort, fields
  <1>3. CASE TakeSticks \/ TakeIgnored \/ TakeCrsf \/ TakeMavlink
    BY <1>3 DEF TakeSticks, TakeIgnored, TakeCrsf, TakeMavlink, Take, Abort, fields
  <1>4. CASE Pass
    BY <1>4 DEF Pass
  <1>5. CASE UNCHANGED vars
    BY <1>5 DEF vars, fields
  <1> QED
    BY <1>1, <1>2, <1>3, <1>4, <1>5 DEF Next, Bridge

LEMMA WaitingStep == TypeOK /\ WaitingInv /\ [Next]_vars => WaitingInv'
  <1> SUFFICES ASSUME TypeOK, WaitingInv, [Next]_vars PROVE WaitingInv'
    OBVIOUS
  <1> USE ConstantsNat
  <1>e. queue' = <<>> => \A n \in Nat : NoOlder(n)'
    BY DEF NoOlder
  <1>1. CASE Arrive
    <2>1. PICK kind \in {"sticks", "other"} \cup Modes :
            queue' = Append(queue, [kind |-> kind, age |-> 0])
      BY <1>1 DEF Arrive
    <2>2. [kind |-> kind, age |-> 0] \in Datagrams
      BY <2>1 DEF Datagrams
    <2>3. \A n \in Nat : NoOlder(n) => NoOlder(n)'
      BY <2>1, <2>2, QueueAppend DEF TypeOK
    <2>4. proc \in {"run", "asleep"} /\ UNCHANGED <<proc, left, passed>>
      BY <1>1 DEF Arrive, Listening, clock
    <2>5. CASE proc = "run"
      BY <2>3, <2>4, <2>5 DEF WaitingInv
    <2>6. CASE proc = "asleep"
      <3>1. ReopenSleep - left \in Nat
        BY <2>6 DEF WaitingInv, TypeOK
      <3> QED
        BY <2>3, <2>4, <2>6, <3>1 DEF WaitingInv
    <2> QED
      BY <2>4, <2>5, <2>6
  <1>2. CASE PortFlips \/ WriteBreaks
    BY <1>2 DEF PortFlips, WriteBreaks, WaitingInv, NoOlder, socket, clock
  <1>3. CASE Stop
    BY <1>3 DEF Stop, WaitingInv
  <1>4. CASE Start
    BY <1>4 DEF Start, WaitingInv, socket, clock
  <1>5. CASE Connect
    BY <1>5, <1>e DEF Connect, Abort, WaitingInv
  <1>6. CASE Wake
    BY <1>6 DEF Wake, WaitingInv, NoOlder, TypeOK, socket, fields, clock
  <1>7. ASSUME proc = "run", queue # <<>>, queue' = Tail(queue), UNCHANGED <<proc, left, passed>>
        PROVE  WaitingInv'
    <2>1. \A n \in Nat : NoOlder(n) => NoOlder(n)'
      BY <1>7, QueueTail DEF TypeOK
    <2> QED
      BY <1>7, <2>1 DEF WaitingInv
  <1>8. CASE TakeSticks \/ TakeIgnored \/ TakeMavlink
    BY <1>7, <1>8 DEF TakeSticks, TakeIgnored, TakeMavlink, Take, clock
  <1>9. CASE TakeCrsf
    <2>1. CASE port
      BY <1>7, <1>9, <2>1 DEF TakeCrsf, Take
    <2>2. CASE ~port
      BY <1>9, <2>2 DEF TakeCrsf, Abort, WaitingInv
    <2> QED
      BY <2>1, <2>2
  <1>10. CASE Pass
    <2>1. queue' = <<>> /\ passed' = TRUE /\ proc' \in {"run", "asleep"}
      BY <1>10 DEF Pass, socket
    <2>2. proc' = "asleep" => left' = ReopenSleep
      BY <1>10 DEF Pass
    <2> QED
      BY <1>e, <2>1, <2>2 DEF WaitingInv
  <1>11. CASE Tick
    <2>1. \A n \in Nat : NoOlder(n) => NoOlder(n + 1)'
      BY <1>11, QueueTick DEF Tick, TypeOK
    <2>2. queue = <<>> => queue' = <<>>
      BY <1>11, QueueTick DEF Tick, TypeOK, NoOlder
    <2>3. proc' = proc /\ passed' = FALSE
      BY <1>11 DEF Tick
    <2>4. CASE proc = "run"
      <3>1. NoOlder(0)
        BY <1>11, <2>4 DEF Tick, WaitingInv
      <3>2. NoOlder(1)'
        BY <2>1, <3>1
      <3>3. NoOlder(ReopenSleep)'
        <4>1. queue' \in Seq(Datagrams)
          BY <1>11, <3>1, QueueTick DEF Tick, TypeOK
        <4>2. \A i \in 1..Len(queue') : queue'[i] \in Datagrams
          BY <4>1
        <4>3. \A i \in 1..Len(queue') : queue'[i].age \in Nat
          BY <4>2 DEF Datagrams
        <4> QED
          BY <3>2, <4>3 DEF NoOlder
      <3> QED
        BY <2>3, <2>4, <3>3 DEF WaitingInv
    <2>5. CASE proc = "asleep"
      <3>1. left \in Nat /\ left > 0 /\ left <= ReopenSleep /\ left' = left - 1
        BY <1>11, <2>5 DEF Tick, WaitingInv, TypeOK
      <3>2. NoOlder(ReopenSleep - left) /\ ReopenSleep - left \in Nat
        BY <2>5, <3>1 DEF WaitingInv
      <3>3. \A i \in 1..Len(queue') : queue'[i].age <= ReopenSleep - left + 1
        BY <2>1, <3>2 DEF NoOlder
      <3>4. ReopenSleep - left' = ReopenSleep - left + 1
        BY <3>1
      <3>5. NoOlder(ReopenSleep - left)'
        BY <3>3, <3>4 DEF NoOlder
      <3> QED
        BY <2>3, <2>5, <3>1, <3>5 DEF WaitingInv
    <2>6. CASE proc \notin {"run", "asleep"}
      BY <2>2, <2>3, <2>6 DEF WaitingInv
    <2> QED
      BY <2>4, <2>5, <2>6
  <1>12. CASE UNCHANGED vars
    BY <1>12 DEF vars, WaitingInv, NoOlder, socket, clock
  <1> QED
    BY <1>1, <1>2, <1>3, <1>4, <1>5, <1>6, <1>8, <1>9, <1>10, <1>11, <1>12 DEF Next, Bridge

(* Sticks: what is read waited for a sleep at most, what is written is fresh. *)
LEMMA ChannelStep == TypeOK /\ WaitingInv /\ ChannelInv /\ [Next]_vars => ChannelInv'
  <1> SUFFICES ASSUME TypeOK, WaitingInv, ChannelInv, [Next]_vars PROVE ChannelInv'
    OBVIOUS
  <1> USE ConstantsNat
  <1>1. CASE TakeSticks
    <2>1. NoOlder(ReopenSleep)
      <3>1. \A i \in 1..Len(queue) : queue[i] \in Datagrams
        BY DEF TypeOK
      <3>2. \A i \in 1..Len(queue) : queue[i].age \in Nat
        BY <3>1 DEF Datagrams
      <3> QED
        BY <1>1, <3>2 DEF TakeSticks, Take, WaitingInv, NoOlder, TypeOK
    <2>2. Head(queue).age <= ReopenSleep
      BY <1>1, <2>1, QueueTail DEF TakeSticks, Take, TypeOK
    <2> QED
      BY <1>1, <2>2 DEF TakeSticks, ChannelInv
  <1>2. CASE Tick
    <2>1. /\ channels' \in Ages /\ channels' <= channels + 1
          /\ channels \in Ages /\ fresh \in Ages
      BY <1>2, OlderAge DEF Tick, TypeOK
    <2>2. fresh' <= FailsafeTimeout => fresh' = fresh + 1
      BY <1>2, <2>1 DEF Tick, Older
    <2> QED
      BY <2>1, <2>2 DEF ChannelInv
  <1>3. CASE Start
    BY <1>3 DEF Start, ChannelInv
  <1>4. CASE Arrive \/ PortFlips \/ WriteBreaks \/ Stop
    BY <1>4 DEF Arrive, PortFlips, WriteBreaks, Stop, ChannelInv, fields
  <1>5. CASE Connect \/ Wake \/ TakeIgnored \/ TakeCrsf \/ TakeMavlink \/ Pass
    BY <1>5 DEF Connect, Wake, TakeIgnored, TakeCrsf, TakeMavlink, Pass, ChannelInv, fields
  <1>6. CASE UNCHANGED vars
    BY <1>6 DEF vars, ChannelInv, fields
  <1> QED
    BY <1>1, <1>2, <1>3, <1>4, <1>5, <1>6 DEF Next, Bridge

LEMMA FrameStep == TypeOK /\ ChannelInv /\ SticksAreRecent /\ [Next]_vars => SticksAreRecent'
  <1> SUFFICES ASSUME TypeOK, ChannelInv, SticksAreRecent, [Next]_vars PROVE SticksAreRecent'
    OBVIOUS
  <1>1. CASE Pass
    <2>1. CASE InFailsafe
      <3>1. frame' = frame \/ frame' = [live |-> FALSE, age |-> 0]
        BY <1>1, <2>1 DEF Pass
      <3>2. frame' = frame \/ ~frame'.live
        BY <3>1
      <3> QED
        BY <3>2 DEF SticksAreRecent
    <2>2. CASE ~InFailsafe
      <3>1. frame' = frame \/ frame'.age = channels
        BY <1>1, <2>2 DEF Pass
      <3>2. fresh <= FailsafeTimeout /\ fresh \in Nat /\ channels \in Nat
        BY <2>2, ConstantsNat DEF InFailsafe, LinkAlive, TypeOK
      <3>3. channels <= FailsafeTimeout + ReopenSleep
        BY <3>2, ConstantsNat DEF ChannelInv
      <3> QED
        BY <3>1, <3>3 DEF SticksAreRecent
    <2> QED
      BY <2>1, <2>2
  <1>2. CASE Arrive \/ PortFlips \/ WriteBreaks \/ Stop \/ Start \/ Tick
    BY <1>2 DEF Arrive, PortFlips, WriteBreaks, Stop, Start, Tick, SticksAreRecent
  <1>3. CASE Connect \/ Wake \/ TakeSticks \/ TakeIgnored \/ TakeCrsf \/ TakeMavlink
    BY <1>3 DEF Connect, Wake, TakeSticks, TakeIgnored, TakeCrsf, TakeMavlink, SticksAreRecent
  <1>4. CASE UNCHANGED vars
    BY <1>4 DEF vars, SticksAreRecent
  <1> QED
    BY <1>1, <1>2, <1>3, <1>4 DEF Next, Bridge

LEMMA Invariant == Spec => []IInv
  <1>1. Init => IInv
    BY InitInv
  <1>2. IInv /\ [Next]_vars => IInv'
    BY TypeStep, HandleStep, WaitingStep, ChannelStep, FrameStep DEF IInv
  <1> QED
    BY <1>1, <1>2, PTL DEF Spec

(* The bridge's fields stay what the code takes them for, whatever arrives,   *)
(* breaks or restarts.                                                        *)
THEOREM TypeCorrect == Spec => []TypeOK
  <1>1. IInv => TypeOK
    BY DEF IInv
  <1> QED
    BY <1>1, Invariant, PTL

(* In MAVLink mode the bridge holds no handle of the UART, so the MAVLink     *)
(* router may have it: through failed openings, reconnections and retries.    *)
THEOREM PortReleased == Spec => []PortOnlyInCrsf
  <1>1. IInv => PortOnlyInCrsf
    BY DEF IInv, HandleInv
  <1> QED
    BY <1>1, Invariant, PTL

(* No frame to the flight controller carries sticks older than the failsafe   *)
(* timeout and the sleep of a failed reopening, for any values of the two.    *)
THEOREM FramesAreRecent == Spec => []SticksAreRecent
  <1>1. IInv => SticksAreRecent
    BY DEF IInv
  <1> QED
    BY <1>1, Invariant, PTL
=============================================================================
