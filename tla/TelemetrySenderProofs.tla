------------------------ MODULE TelemetrySenderProofs -------------------------
(* Theorems about TelemetrySender for every size of the deque and of a batch,  *)
(* any number of messages and of restarts.                                     *)
EXTENDS TelemetrySender, SequenceTheorems, TLAPS

\* What deque.append leaves: the new element last, what was there at most
\* shifted by one.
LEMMA PushFacts ==
    ASSUME NEW q \in Seq(Msgs), Len(q) <= QueueMax, NEW m \in Msgs
    PROVE  /\ Push(q, m) \in Seq(Msgs)
           /\ Len(Push(q, m)) <= QueueMax /\ Len(Push(q, m)) <= Len(q) + 1
           /\ Len(Push(q, m)) > 0
           /\ Push(q, m)[Len(Push(q, m))] = m
           /\ \E k \in 0..1 : /\ Len(Push(q, m)) = Len(q) - k + 1
                              /\ \A i \in 1..(Len(q) - k) : Push(q, m)[i] = q[i + k]
<1>1. CASE Len(q) < QueueMax
  <2>1. Push(q, m) = Append(q, m)
    BY <1>1 DEF Push
  <2> QED BY <1>1, <2>1, SenderAssumption
<1>2. CASE ~(Len(q) < QueueMax)
  <2>1. Push(q, m) = Append(Tail(q), m)
    BY <1>2 DEF Push
  <2>2. Len(q) = QueueMax /\ q # <<>>
    BY <1>2, SenderAssumption
  <2>3. Tail(q) \in Seq(Msgs) /\ Len(Tail(q)) = Len(q) - 1
    BY <2>2
  <2>4. \A i \in 1..(Len(q) - 1) : Tail(q)[i] = q[i + 1]
    BY <2>2
  <2> QED BY <2>1, <2>2, <2>3, <2>4, SenderAssumption
<1> QED BY <1>1, <1>2

LEMMA FrontFacts ==
    ASSUME NEW q \in Seq(Msgs), q # <<>>
    PROVE  /\ Front(q) \in Seq(Msgs) /\ Len(Front(q)) = Len(q) - 1
           /\ \A i \in 1..(Len(q) - 1) : Front(q)[i] = q[i]
           /\ Last(q) \in Msgs /\ Last(q) = q[Len(q)] /\ Len(q) > 0
<1>1. Len(q) \in Nat /\ Len(q) > 0 /\ \A i \in 1..Len(q) : q[i] \in Msgs
  OBVIOUS
<1>2. Front(q) = SubSeq(q, 1, Len(q) - 1)
  BY DEF Front
<1>3. /\ SubSeq(q, 1, Len(q) - 1) \in Seq(Msgs)
      /\ Len(SubSeq(q, 1, Len(q) - 1)) = Len(q) - 1
      /\ \A i \in 1..(Len(q) - 1) : SubSeq(q, 1, Len(q) - 1)[i] = q[i]
  <2>1. 1 \in Int /\ Len(q) - 1 \in Int /\ \A i \in 1..(Len(q) - 1) : q[i] \in Msgs
    BY <1>1
  <2>2. SubSeq(q, 1, Len(q) - 1) \in Seq(Msgs)
    BY <2>1, SubSeqProperties
  <2>3. Len(SubSeq(q, 1, Len(q) - 1)) = Len(q) - 1
    <3>1. \A n \in Int : (\A i \in 1..n : q[i] \in Msgs)
            => Len(SubSeq(q, 1, n)) = IF 1 <= n THEN n - 1 + 1 ELSE 0
      BY SubSeqProperties
    <3>2. Len(SubSeq(q, 1, Len(q) - 1)) = IF 1 <= Len(q) - 1 THEN Len(q) - 1 - 1 + 1 ELSE 0
      BY <2>1, <3>1
    <3> QED BY <1>1, <3>2
  <2>4. ASSUME NEW i \in 1..(Len(q) - 1)
        PROVE  SubSeq(q, 1, Len(q) - 1)[i] = q[i]
    BY <1>1, <2>1, SubSeqProperties
  <2> QED BY <2>2, <2>3, <2>4
<1>4. Last(q) = q[Len(q)]
  BY DEF Last
<1> QED BY <1>1, <1>2, <1>3, <1>4

\* What deque.appendleft leaves.
LEMMA PushFrontFacts ==
    ASSUME NEW q \in Seq(Msgs), Len(q) <= QueueMax, NEW m \in Msgs
    PROVE  /\ PushFront(q, m) \in Seq(Msgs)
           /\ Len(PushFront(q, m)) <= QueueMax /\ Len(PushFront(q, m)) <= Len(q) + 1
           /\ Len(PushFront(q, m)) > 0 /\ PushFront(q, m)[1] = m
           /\ \A i \in 2..Len(PushFront(q, m)) : PushFront(q, m)[i] = q[i - 1]
<1>1. CASE Len(q) < QueueMax
  <2>1. PushFront(q, m) = <<m>> \o q
    BY <1>1 DEF PushFront
  <2> QED BY <1>1, <2>1, SenderAssumption
<1>2. CASE ~(Len(q) < QueueMax)
  <2>1. PushFront(q, m) = <<m>> \o Front(q)
    BY <1>2 DEF PushFront
  <2>2. Len(q) = QueueMax /\ q # <<>>
    BY <1>2, SenderAssumption
  <2>3. /\ Front(q) \in Seq(Msgs) /\ Len(Front(q)) = Len(q) - 1
        /\ \A i \in 1..(Len(q) - 1) : Front(q)[i] = q[i]
    BY <2>2, FrontFacts
  <2> QED BY <2>1, <2>2, <2>3, SenderAssumption
<1> QED BY <1>1, <1>2

-----------------------------------------------------------------------------
(* The labels of the two workers tell what _active and the batch are. *)
LabelInv ==
    /\ poll \in {"start", "clear"} => ~active
    /\ poll = "stop" => active
    /\ send \in {"sleep", "dead"} => batch = <<>>
    /\ send \in {"post", "requeue"} => batch # <<>>
    /\ send = "pop" => Len(batch) < BatchMax

IInv == TypeOK /\ LabelInv /\ StoppedHoldsLittle

LEMMA ConstantsNat ==
    /\ QueueMax \in Nat /\ QueueMax > 0 /\ BatchMax \in Nat /\ BatchMax > 0
    /\ MaxMsgs \in Nat /\ MaxRestarts \in Nat
    /\ <<>> \in Seq(Msgs) /\ Len(<<>>) = 0
  BY SenderAssumption

LEMMA RangeFacts == ASSUME NEW q \in Seq(Msgs) PROVE Range(q) \subseteq Msgs
  BY DEF Range

LEMMA InitInv == Init => IInv
<1> SUFFICES ASSUME Init PROVE IInv
  OBVIOUS
<1>1. queue \in Seq(Msgs) /\ Len(queue) = 0 /\ batch \in Seq(Msgs) /\ Len(batch) = 0
  BY ConstantsNat DEF Init
<1>2. TypeOK
  <2>1. /\ reader \in {"waiting", "reading", "dead"} /\ fresh \in BOOLEAN /\ active \in BOOLEAN
        /\ poll \in {"sleep", "start", "stop", "clear"}
        /\ send \in {"sleep", "fill", "pop", "post", "requeue", "dead"}
        /\ lossy \in BOOLEAN /\ registered \in BOOLEAN
        /\ stray \subseteq Msgs /\ logged \subseteq Msgs /\ sent \subseteq Msgs
    BY DEF Init
  <2>2. made \in 0..MaxMsgs /\ late \in 0..MaxMsgs /\ restarts \in 0..MaxRestarts
    BY ConstantsNat DEF Init
  <2> QED BY <1>1, <2>1, <2>2, ConstantsNat DEF TypeOK
<1>3. LabelInv
  BY DEF Init, LabelInv
<1>4. StoppedHoldsLittle
  BY <1>1, ConstantsNat DEF Init, StoppedHoldsLittle
<1> QED BY <1>2, <1>3, <1>4 DEF IInv

LEMMA ReadingInv == IInv /\ Reading => IInv'
<1> SUFFICES ASSUME IInv, Reading PROVE IInv'
  OBVIOUS
<1> USE DEF IInv
<1>1. CASE Connect
  BY <1>1 DEF Connect, TypeOK, LabelInv, StoppedHoldsLittle, server
<1>2. CASE ReaderBreaks
  BY <1>2 DEF ReaderBreaks, TypeOK, LabelInv, StoppedHoldsLittle, server
<1>3. CASE Receive
  BY <1>3, ConstantsNat DEF Receive, TypeOK, LabelInv, StoppedHoldsLittle, server
<1>4. CASE Enqueue
  <2>1. late \in Msgs
    BY <1>4, ConstantsNat DEF Enqueue, TypeOK, Msgs
  <2>2. /\ queue' \in Seq(Msgs) /\ Len(queue') <= QueueMax
        /\ Len(queue') <= Len(queue) + 1
    BY <1>4, <2>1, PushFacts DEF Enqueue, TypeOK
  <2>3. TypeOK'
    BY <1>4, <2>2, ConstantsNat DEF Enqueue, TypeOK, server
  <2>4. LabelInv'
    BY <1>4 DEF Enqueue, LabelInv
  <2>5. StoppedHoldsLittle'
    BY <1>4, <2>2, ConstantsNat DEF Enqueue, TypeOK, StoppedHoldsLittle
  <2> QED BY <2>3, <2>4, <2>5
<1>5. CASE FlowStops
  BY <1>5 DEF FlowStops, TypeOK, LabelInv, StoppedHoldsLittle, server
<1> QED BY <1>1, <1>2, <1>3, <1>4, <1>5 DEF Reading

LEMMA PollingInv == IInv /\ Polling => IInv'
<1> SUFFICES ASSUME IInv, Polling PROVE IInv'
  OBVIOUS
<1> USE DEF IInv, Poll
<1>1. CASE PollLook
  BY <1>1 DEF PollLook, TypeOK, LabelInv, StoppedHoldsLittle, server
<1>2. CASE PollStart
  BY <1>2 DEF PollStart, TypeOK, LabelInv, StoppedHoldsLittle, server
<1>3. CASE PollStop
  BY <1>3 DEF PollStop, TypeOK, LabelInv, StoppedHoldsLittle, server
<1>4. CASE PollClear
  BY <1>4, ConstantsNat DEF PollClear, TypeOK, LabelInv, StoppedHoldsLittle, server
<1> QED BY <1>1, <1>2, <1>3, <1>4 DEF Polling

LEMMA SendingInv == IInv /\ Sending => IInv'
<1> SUFFICES ASSUME IInv, Sending PROVE IInv'
  OBVIOUS
<1> USE DEF IInv, Send
<1>0. /\ Len(queue) \in Nat /\ Len(batch) \in Nat /\ Range(batch) \subseteq Msgs
  BY RangeFacts DEF TypeOK
<1>1. CASE SendWake
  BY <1>1, ConstantsNat DEF SendWake, TypeOK, LabelInv, StoppedHoldsLittle, server
<1>2. CASE Fill
  BY <1>2, ConstantsNat DEF Fill, TypeOK, LabelInv, StoppedHoldsLittle, server
<1>3. CASE Pop
  <2>1. /\ queue # <<>> /\ batch' = Append(batch, Head(queue)) /\ queue' = Tail(queue)
        /\ Head(queue) \in Msgs
    BY <1>3 DEF Pop, TypeOK
  <2>2. /\ batch' \in Seq(Msgs) /\ Len(batch') = Len(batch) + 1
    BY <2>1 DEF TypeOK
  <2>3. /\ queue' \in Seq(Msgs) /\ Len(queue') = Len(queue) - 1
    BY <2>1 DEF TypeOK
  <2>4. Len(batch) < BatchMax
    BY <1>3 DEF Pop, LabelInv
  <2>5. TypeOK'
    BY <1>3, <2>2, <2>3, <2>4, <1>0, ConstantsNat DEF Pop, TypeOK, server
  <2>6. LabelInv'
    BY <1>3 DEF Pop, LabelInv
  <2>7. StoppedHoldsLittle'
    BY <1>3, <2>2, <2>3, <1>0, ConstantsNat DEF Pop, StoppedHoldsLittle
  <2> QED BY <2>5, <2>6, <2>7
<1>4. CASE PopEmpty
  BY <1>4, ConstantsNat, <1>0 DEF PopEmpty, TypeOK, LabelInv, StoppedHoldsLittle, server
<1>5. CASE Posted
  BY <1>5, ConstantsNat, <1>0 DEF Posted, TypeOK, LabelInv, StoppedHoldsLittle
<1>6. CASE Refused
  BY <1>6, ConstantsNat DEF Refused, TypeOK, LabelInv, StoppedHoldsLittle, server
<1>7. CASE PostFails
  BY <1>7, ConstantsNat, <1>0 DEF PostFails, TypeOK, LabelInv, StoppedHoldsLittle
<1>8. CASE Requeue
  <2>1. batch # <<>> /\ batch \in Seq(Msgs)
    BY <1>8 DEF Requeue, LabelInv, TypeOK
  <2>2. /\ batch' \in Seq(Msgs) /\ Len(batch') = Len(batch) - 1
        /\ Last(batch) \in Msgs
    BY <1>8, <2>1, FrontFacts DEF Requeue
  <2>3. /\ queue' \in Seq(Msgs) /\ Len(queue') <= QueueMax
        /\ Len(queue') <= Len(queue) + 1
    BY <1>8, <2>2, PushFrontFacts DEF Requeue, TypeOK
  <2>4. TypeOK'
    BY <1>8, <2>2, <2>3, <1>0, ConstantsNat DEF Requeue, TypeOK, server
  <2>5. LabelInv'
    <3>1. CASE Len(batch) = 1
      <4>1. batch' = <<>>
        BY <2>2, <3>1
      <4> QED BY <1>8, <3>1, <4>1 DEF Requeue, LabelInv
    <3>2. CASE Len(batch) # 1
      <4>1. batch' # <<>>
        BY <2>1, <2>2, <3>2
      <4> QED BY <1>8, <3>2, <4>1 DEF Requeue, LabelInv
    <3> QED BY <3>1, <3>2
  <2>6. StoppedHoldsLittle'
    BY <1>8, <2>2, <2>3, <1>0, ConstantsNat DEF Requeue, StoppedHoldsLittle
  <2> QED BY <2>4, <2>5, <2>6
<1> QED BY <1>1, <1>2, <1>3, <1>4, <1>5, <1>6, <1>7, <1>8 DEF Sending

LEMMA OtherInv ==
    IInv /\ (StrayServed \/ Registered \/ NetworkClears \/ Restart) => IInv'
<1> SUFFICES ASSUME IInv, StrayServed \/ Registered \/ NetworkClears \/ Restart
             PROVE  IInv'
  OBVIOUS
<1> USE DEF IInv
<1>1. CASE StrayServed
  BY <1>1 DEF StrayServed, TypeOK, LabelInv, StoppedHoldsLittle
<1>2. CASE Registered
  BY <1>2 DEF Registered, TypeOK, LabelInv, StoppedHoldsLittle
<1>3. CASE NetworkClears
  BY <1>3 DEF NetworkClears, TypeOK, LabelInv, StoppedHoldsLittle
<1>4. CASE Restart
  <2>1. Range(batch) \subseteq Msgs
    BY RangeFacts DEF TypeOK
  <2>2. stray' \subseteq Msgs
    BY <1>4, <2>1 DEF Restart, TypeOK
  <2>0. queue' \in Seq(Msgs) /\ Len(queue') = 0 /\ batch' \in Seq(Msgs) /\ Len(batch') = 0
    BY <1>4, ConstantsNat DEF Restart
  <2>3. TypeOK'
    <3>1. /\ reader' \in {"waiting", "reading", "dead"} /\ fresh' \in BOOLEAN /\ active' \in BOOLEAN
          /\ poll' \in {"sleep", "start", "stop", "clear"}
          /\ send' \in {"sleep", "fill", "pop", "post", "requeue", "dead"}
          /\ lossy' \in BOOLEAN /\ registered' \in BOOLEAN
          /\ logged' \subseteq Msgs /\ sent' \subseteq Msgs
      BY <1>4 DEF Restart, TypeOK
    <3>2. made' \in 0..MaxMsgs /\ late' \in 0..MaxMsgs /\ restarts' \in 0..MaxRestarts
      BY <1>4, ConstantsNat DEF Restart, TypeOK
    <3> QED BY <2>0, <2>2, <3>1, <3>2, ConstantsNat DEF TypeOK
  <2>4. LabelInv'
    BY <1>4 DEF Restart, LabelInv
  <2>5. StoppedHoldsLittle'
    BY <1>4, ConstantsNat DEF Restart, StoppedHoldsLittle
  <2> QED BY <2>3, <2>4, <2>5
<1> QED BY <1>1, <1>2, <1>3, <1>4

LEMMA StepInv == IInv /\ [Next]_vars => IInv'
<1> SUFFICES ASSUME IInv, [Next]_vars PROVE IInv'
  OBVIOUS
<1>1. CASE UNCHANGED vars
  BY <1>1 DEF IInv, TypeOK, LabelInv, StoppedHoldsLittle, vars, server
<1> QED BY <1>1, ReadingInv, PollingInv, SendingInv, OtherInv DEF Next

\* Every variable keeps its type: the deque and the batch their maximal length.
THEOREM TypeCorrect == Spec => []TypeOK
<1>1. IInv => TypeOK
  BY DEF IInv
<1> QED BY <1>1, InitInv, StepInv, PTL DEF Spec

\* After a stop the board holds one batch and one message at most, for any sizes
\* of the deque and of a batch and however long the batch's request takes.
THEOREM LittleLeft == Spec => []StoppedHoldsLittle
<1>1. IInv => StoppedHoldsLittle
  BY DEF IInv
<1> QED BY <1>1, InitInv, StepInv, PTL DEF Spec

-----------------------------------------------------------------------------
(* Order.  Sequences are compared through their ranges: each operation on a   *)
(* deque adds one element at an end, or takes one from an end.                *)

Increasing(s) == \A i, j \in 1..Len(s) : i < j => s[i] < s[j]

LEMMA InRange ==
    ASSUME NEW q \in Seq(Msgs)
    PROVE  /\ \A x : x \in Range(q) <=> \E i \in 1..Len(q) : x = q[i]
           /\ \A x \in Range(q) : x \in Nat
           /\ \A i \in 1..Len(q) : q[i] \in Nat
           /\ Len(q) \in Nat
<1>1. DOMAIN q = 1..Len(q) /\ Len(q) \in Nat /\ \A i \in 1..Len(q) : q[i] \in Msgs
  OBVIOUS
<1>2. \A x \in Msgs : x \in Nat
  BY SenderAssumption DEF Msgs
<1> QED BY <1>1, <1>2 DEF Range

LEMMA AppendOrder ==
    ASSUME NEW q \in Seq(Msgs), NEW m \in Msgs
    PROVE  /\ Append(q, m) \in Seq(Msgs)
           /\ Range(Append(q, m)) = Range(q) \cup {m}
           /\ Increasing(q) /\ (\A x \in Range(q) : x < m) => Increasing(Append(q, m))
<1>1. /\ Append(q, m) \in Seq(Msgs) /\ Len(Append(q, m)) = Len(q) + 1
      /\ \A i \in 1..Len(q) : Append(q, m)[i] = q[i]
      /\ Append(q, m)[Len(q) + 1] = m
      /\ Len(q) \in Nat
  OBVIOUS
<1>2. Range(Append(q, m)) = Range(q) \cup {m}
  <2>1. \A x : x \in Range(Append(q, m)) <=> \E i \in 1..(Len(q) + 1) : x = Append(q, m)[i]
    <3> DEFINE p == Append(q, m)
    <3>1. p \in Seq(Msgs) /\ Len(p) = Len(q) + 1
      BY <1>1
    <3> HIDE DEF p
    <3>2. \A x : x \in Range(p) <=> \E i \in 1..(Len(q) + 1) : x = p[i]
      BY <3>1, InRange
    <3> QED BY <3>2 DEF p
  <2>2. \A x : x \in Range(q) <=> \E i \in 1..Len(q) : x = q[i]
    BY InRange
  <2>3. \A i : i \in 1..(Len(q) + 1) <=> i \in 1..Len(q) \/ i = Len(q) + 1
    BY <1>1
  <2> QED BY <1>1, <2>1, <2>2, <2>3
<1>3. Increasing(q) /\ (\A x \in Range(q) : x < m) => Increasing(Append(q, m))
  BY <1>1, InRange DEF Increasing
<1> QED BY <1>1, <1>2, <1>3

LEMMA TailOrder ==
    ASSUME NEW q \in Seq(Msgs), q # <<>>
    PROVE  /\ Tail(q) \in Seq(Msgs) /\ Head(q) \in Msgs
           /\ Range(q) = Range(Tail(q)) \cup {Head(q)}
           /\ Increasing(q) => /\ Increasing(Tail(q))
                               /\ \A x \in Range(Tail(q)) : Head(q) < x
<1>1. /\ Tail(q) \in Seq(Msgs) /\ Len(Tail(q)) = Len(q) - 1
      /\ \A i \in 1..(Len(q) - 1) : Tail(q)[i] = q[i + 1]
      /\ Head(q) = q[1] /\ Head(q) \in Msgs
      /\ Len(q) \in Nat /\ Len(q) > 0
  OBVIOUS
<1>2. /\ \A x : x \in Range(Tail(q)) <=> \E i \in 1..(Len(q) - 1) : x = q[i + 1]
      /\ \A x : x \in Range(q) <=> \E i \in 1..Len(q) : x = q[i]
  <2> DEFINE t == Tail(q)
  <2>1. /\ t \in Seq(Msgs) /\ Len(t) = Len(q) - 1
        /\ \A i \in 1..(Len(q) - 1) : t[i] = q[i + 1]
    BY <1>1
  <2> HIDE DEF t
  <2>2. \A x : x \in Range(t) <=> \E i \in 1..(Len(q) - 1) : x = q[i + 1]
    <3>1. \A x : x \in Range(t) <=> \E i \in 1..(Len(q) - 1) : x = t[i]
      BY <2>1, InRange
    <3> QED BY <2>1, <3>1
  <2>3. \A x : x \in Range(q) <=> \E i \in 1..Len(q) : x = q[i]
    BY InRange
  <2> QED BY <2>2, <2>3 DEF t
<1>3. Range(q) = Range(Tail(q)) \cup {Head(q)}
  <2>1. \A i : i \in 1..Len(q) <=> i = 1 \/ \E j \in 1..(Len(q) - 1) : i = j + 1
    <3>1. ASSUME NEW i \in 1..Len(q), i # 1 PROVE \E j \in 1..(Len(q) - 1) : i = j + 1
      <4>1. i - 1 \in 1..(Len(q) - 1) /\ i = (i - 1) + 1
        BY <1>1, <3>1
      <4> QED BY <4>1
    <3>2. ASSUME NEW j \in 1..(Len(q) - 1) PROVE j + 1 \in 1..Len(q)
      BY <1>1
    <3>3. 1 \in 1..Len(q)
      BY <1>1
    <3> QED BY <3>1, <3>2, <3>3
  <2> QED BY <1>1, <1>2, <2>1
<1>4. Increasing(q) => Increasing(Tail(q)) /\ \A x \in Range(Tail(q)) : Head(q) < x
  BY <1>1, <1>2 DEF Increasing
<1> QED BY <1>1, <1>3, <1>4

LEMMA FrontOrder ==
    ASSUME NEW q \in Seq(Msgs), q # <<>>
    PROVE  /\ Front(q) \in Seq(Msgs) /\ Last(q) \in Msgs
           /\ Range(q) = Range(Front(q)) \cup {Last(q)}
           /\ Increasing(q) => /\ Increasing(Front(q))
                               /\ \A x \in Range(Front(q)) : x < Last(q)
<1>1. /\ Front(q) \in Seq(Msgs) /\ Len(Front(q)) = Len(q) - 1
      /\ \A i \in 1..(Len(q) - 1) : Front(q)[i] = q[i]
      /\ Last(q) = q[Len(q)] /\ Last(q) \in Msgs
      /\ Len(q) \in Nat /\ Len(q) > 0
  BY FrontFacts
<1>2. /\ \A x : x \in Range(Front(q)) <=> \E i \in 1..(Len(q) - 1) : x = q[i]
      /\ \A x : x \in Range(q) <=> \E i \in 1..Len(q) : x = q[i]
  <2> DEFINE t == Front(q)
  <2>1. /\ t \in Seq(Msgs) /\ Len(t) = Len(q) - 1
        /\ \A i \in 1..(Len(q) - 1) : t[i] = q[i]
    BY <1>1
  <2> HIDE DEF t
  <2>2. \A x : x \in Range(t) <=> \E i \in 1..(Len(q) - 1) : x = q[i]
    <3>1. \A x : x \in Range(t) <=> \E i \in 1..Len(t) : x = t[i]
      BY <2>1, InRange
    <3>2. 1..Len(t) = 1..(Len(q) - 1)
      BY <2>1
    <3>3. \A x : (\E i \in 1..Len(t) : x = t[i]) <=> (\E i \in 1..(Len(q) - 1) : x = q[i])
      BY <2>1, <3>2, Zenon
    <3> QED BY <3>1, <3>3, Zenon
  <2>3. \A x : x \in Range(q) <=> \E i \in 1..Len(q) : x = q[i]
    BY InRange
  <2> QED BY <2>2, <2>3 DEF t
<1>3. Range(q) = Range(Front(q)) \cup {Last(q)}
  <2>1. \A i : i \in 1..Len(q) <=> i \in 1..(Len(q) - 1) \/ i = Len(q)
    BY <1>1
  <2> QED BY <1>1, <1>2, <2>1
<1>4. Increasing(q) => Increasing(Front(q)) /\ \A x \in Range(Front(q)) : x < Last(q)
  BY <1>1, <1>2 DEF Increasing
<1> QED BY <1>1, <1>3, <1>4

LEMMA PrependOrder ==
    ASSUME NEW q \in Seq(Msgs), NEW m \in Msgs
    PROVE  /\ <<m>> \o q \in Seq(Msgs)
           /\ Range(<<m>> \o q) = Range(q) \cup {m}
           /\ Increasing(q) /\ (\A x \in Range(q) : m < x) => Increasing(<<m>> \o q)
<1> DEFINE p == <<m>> \o q
<1>1. /\ p \in Seq(Msgs) /\ Len(p) = Len(q) + 1 /\ p[1] = m
      /\ \A i \in 1..Len(q) : p[i + 1] = q[i]
      /\ \A i \in 2..(Len(q) + 1) : p[i] = q[i - 1] /\ i - 1 \in 1..Len(q)
      /\ Len(q) \in Nat
  OBVIOUS
<1> HIDE DEF p
<1>2. /\ \A x : x \in Range(p) <=> \E i \in 1..(Len(q) + 1) : x = p[i]
      /\ \A x : x \in Range(q) <=> \E i \in 1..Len(q) : x = q[i]
  BY <1>1, InRange
<1>3. Range(p) = Range(q) \cup {m}
  <2>1. \A x \in Range(p) : x \in Range(q) \cup {m}
    <3>1. \A i \in 1..(Len(q) + 1) : i = 1 \/ i \in 2..(Len(q) + 1)
      BY <1>1
    <3> QED BY <1>1, <1>2, <3>1
  <2>2. m \in Range(p)
    <3>1. 1 \in 1..(Len(q) + 1)
      BY <1>1
    <3> QED BY <1>1, <1>2, <3>1
  <2>3. \A x \in Range(q) : x \in Range(p)
    <3>1. \A i \in 1..Len(q) : i + 1 \in 1..(Len(q) + 1)
      BY <1>1
    <3> QED BY <1>1, <1>2, <3>1
  <2> QED BY <2>1, <2>2, <2>3
<1>4. Increasing(q) /\ (\A x \in Range(q) : m < x) => Increasing(p)
  <2> SUFFICES ASSUME Increasing(q), \A x \in Range(q) : m < x,
                      NEW i \in 1..Len(p), NEW j \in 1..Len(p), i < j
               PROVE  p[i] < p[j]
    BY DEF Increasing
  <2>1. j \in 2..(Len(q) + 1) /\ j - 1 \in 1..Len(q) /\ p[j] = q[j - 1]
    BY <1>1
  <2>2. CASE i = 1
    BY <1>1, <1>2, <2>1, <2>2
  <2>3. CASE i # 1
    <3>1. i - 1 \in 1..Len(q) /\ p[i] = q[i - 1] /\ i - 1 < j - 1
      BY <1>1, <2>3
    <3> QED BY <2>1, <3>1 DEF Increasing
  <2> QED BY <2>2, <2>3
<1> QED BY <1>1, <1>3, <1>4 DEF p

LEMMA PushOrder ==
    ASSUME NEW q \in Seq(Msgs), Len(q) <= QueueMax, NEW m \in Msgs
    PROVE  /\ Range(Push(q, m)) \subseteq Range(q) \cup {m}
           /\ Len(q) < QueueMax => Range(q) \subseteq Range(Push(q, m))
           /\ \E x \in Msgs : Range(q) \subseteq Range(Push(q, m)) \cup {x}
           /\ Increasing(q) /\ (\A x \in Range(q) : x < m) => Increasing(Push(q, m))
<1>1. CASE Len(q) < QueueMax
  <2>1. Push(q, m) = Append(q, m)
    BY <1>1 DEF Push
  <2> QED BY <1>1, <2>1, AppendOrder
<1>2. CASE ~(Len(q) < QueueMax)
  <2>1. Push(q, m) = Append(Tail(q), m) /\ q # <<>>
    BY <1>2, SenderAssumption DEF Push
  <2>2. /\ Tail(q) \in Seq(Msgs) /\ Head(q) \in Msgs
        /\ Range(q) = Range(Tail(q)) \cup {Head(q)}
        /\ Increasing(q) => Increasing(Tail(q))
    BY <2>1, TailOrder
  <2>3. /\ Range(Append(Tail(q), m)) = Range(Tail(q)) \cup {m}
        /\ Increasing(Tail(q)) /\ (\A x \in Range(Tail(q)) : x < m)
             => Increasing(Append(Tail(q), m))
    BY <2>2, AppendOrder
  <2> QED BY <1>2, <2>1, <2>2, <2>3
<1> QED BY <1>1, <1>2

LEMMA PushFrontOrder ==
    ASSUME NEW q \in Seq(Msgs), Len(q) <= QueueMax, NEW m \in Msgs
    PROVE  /\ Range(PushFront(q, m)) \subseteq Range(q) \cup {m}
           /\ m \in Range(PushFront(q, m))
           /\ Len(q) < QueueMax => Range(q) \subseteq Range(PushFront(q, m))
           /\ \E x \in Msgs : Range(q) \subseteq Range(PushFront(q, m)) \cup {x}
           /\ Increasing(q) /\ (\A x \in Range(q) : m < x) => Increasing(PushFront(q, m))
<1>1. CASE Len(q) < QueueMax
  <2>1. PushFront(q, m) = <<m>> \o q
    BY <1>1 DEF PushFront
  <2> QED BY <1>1, <2>1, PrependOrder
<1>2. CASE ~(Len(q) < QueueMax)
  <2>1. PushFront(q, m) = <<m>> \o Front(q) /\ q # <<>>
    BY <1>2, SenderAssumption DEF PushFront
  <2>2. /\ Front(q) \in Seq(Msgs) /\ Last(q) \in Msgs
        /\ Range(q) = Range(Front(q)) \cup {Last(q)}
        /\ Increasing(q) => Increasing(Front(q))
    BY <2>1, FrontOrder
  <2>3. /\ Range(<<m>> \o Front(q)) = Range(Front(q)) \cup {m}
        /\ Increasing(Front(q)) /\ (\A x \in Range(Front(q)) : m < x)
             => Increasing(<<m>> \o Front(q))
    BY <2>2, PrependOrder
  <2> QED BY <1>2, <2>1, <2>2, <2>3
<1> QED BY <1>1, <1>2

\* InOrder, part by part; and what the server has answered for lies behind.
OrderInv ==
    /\ Increasing(batch) /\ Increasing(queue)
    /\ \A x \in Range(batch), y \in Range(queue) : x < y
    /\ \A x \in Held \cup sent : x <= made
    /\ late # 0 => late = made /\ late \notin Held \cup sent
    /\ sent \cap Held = {}

FullInv == IInv /\ OrderInv

LEMMA EmptyFacts == Range(<<>>) = {} /\ Increasing(<<>>)
  BY DEF Range, Increasing

LEMMA OrderInit == Init => OrderInv
  BY EmptyFacts DEF Init, OrderInv, Held

LEMMA OrderReading == FullInv /\ Reading => OrderInv'
<1> SUFFICES ASSUME FullInv, Reading PROVE OrderInv'
  OBVIOUS
<1>0. /\ queue \in Seq(Msgs) /\ Len(queue) <= QueueMax /\ batch \in Seq(Msgs)
      /\ made \in Nat /\ late \in Nat
      /\ Range(queue) \subseteq Nat /\ Range(batch) \subseteq Nat /\ sent \subseteq Nat
  BY InRange, ConstantsNat DEF FullInv, IInv, TypeOK, Msgs
<1>b. \A x \in Held \cup sent : x \in Nat
  BY <1>0 DEF Held
<1>c. /\ \A x \in Held \cup sent : x <= made
      /\ late # 0 => late = made /\ late \notin Held \cup sent
  BY DEF FullInv, OrderInv
<1>1. CASE UNCHANGED <<made, late, queue, batch, sent>>
  BY <1>1 DEF FullInv, OrderInv, Held
<1>2. CASE Receive /\ made' = made + 1 /\ late' = made + 1
  <2>1. UNCHANGED <<queue, batch, sent>>
    BY <1>2 DEF Receive
  <2>2. \A x \in Held \cup sent : x \in Nat /\ x <= made /\ x # made + 1
    BY <1>0, <1>b, <1>c
  <2> QED BY <1>0, <1>2, <2>1, <2>2 DEF FullInv, OrderInv, Held
<1>3. CASE Enqueue
  <2>1. late \in Msgs /\ late = made /\ late' = 0 /\ UNCHANGED <<made, batch, sent>>
    BY <1>3, ConstantsNat DEF Enqueue, FullInv, IInv, TypeOK, OrderInv, Msgs
  <2>2. \A x \in Held \cup sent : x \in Nat /\ x < late
    <3>1. late # 0
      BY <1>3 DEF Enqueue
    <3>2. \A x \in Held \cup sent : x \in Nat /\ x <= late /\ x # late
      BY <1>b, <1>c, <2>1, <3>1
    <3> QED BY <1>0, <3>2
  <2>3. Range(queue') \subseteq Range(queue) \cup {late} /\ Increasing(queue')
    BY <1>0, <1>3, <2>1, <2>2, PushOrder DEF Enqueue, FullInv, OrderInv, Held
  <2> QED BY <1>0, <2>1, <2>2, <2>3 DEF FullInv, OrderInv, Held
<1> QED
  BY <1>1, <1>2, <1>3 DEF Reading, Connect, ReaderBreaks, Receive, FlowStops

LEMMA OrderPolling == FullInv /\ Polling => OrderInv'
<1> SUFFICES ASSUME FullInv, Polling PROVE OrderInv'
  OBVIOUS
<1>1. UNCHANGED <<made, late, batch, sent>> /\ (queue' = queue \/ queue' = <<>>)
  BY DEF Polling, PollLook, PollStart, PollStop, PollClear
<1>2. CASE queue' = queue
  BY <1>1, <1>2 DEF FullInv, OrderInv, Held
<1>3. CASE queue' = <<>>
  <2>1. Range(queue') = {} /\ Increasing(queue')
    BY <1>3, EmptyFacts
  <2> QED BY <1>1, <2>1 DEF FullInv, OrderInv, Held
<1> QED BY <1>1, <1>2, <1>3

LEMMA OrderSending == FullInv /\ Sending => OrderInv'
<1> SUFFICES ASSUME FullInv, Sending PROVE OrderInv'
  OBVIOUS
<1>0. /\ queue \in Seq(Msgs) /\ Len(queue) <= QueueMax /\ batch \in Seq(Msgs)
      /\ made \in Nat /\ late \in Nat
      /\ Range(queue) \subseteq Nat /\ Range(batch) \subseteq Nat /\ sent \subseteq Nat
  BY InRange, ConstantsNat DEF FullInv, IInv, TypeOK, Msgs
<1>1. CASE UNCHANGED <<made, late, queue, batch, sent>>
  BY <1>1 DEF FullInv, OrderInv, Held
<1>2. CASE Pop
  <2>1. /\ queue # <<>> /\ batch' = Append(batch, Head(queue)) /\ queue' = Tail(queue)
        /\ UNCHANGED <<made, late, sent>>
    BY <1>2 DEF Pop
  <2>2. /\ Head(queue) \in Msgs /\ Range(queue) = Range(queue') \cup {Head(queue)}
        /\ Increasing(queue') /\ \A x \in Range(queue') : Head(queue) < x
    BY <1>0, <2>1, TailOrder DEF FullInv, OrderInv
  <2>3. \A x \in Range(batch) : x < Head(queue)
    BY <2>2 DEF FullInv, OrderInv
  <2>4. Range(batch') = Range(batch) \cup {Head(queue)} /\ Increasing(batch')
    BY <1>0, <2>1, <2>2, <2>3, AppendOrder DEF FullInv, OrderInv
  <2>5. Held' = Held
    BY <2>2, <2>4 DEF Held
  <2>6. \A x \in Range(batch'), y \in Range(queue') : x < y
    BY <2>2, <2>4 DEF FullInv, OrderInv
  <2> QED BY <2>1, <2>2, <2>4, <2>5, <2>6 DEF FullInv, OrderInv
<1>3. CASE PopEmpty
  <2>1. batch' = <<>> /\ UNCHANGED <<queue, made, late, sent>>
    BY <1>3 DEF PopEmpty
  <2>2. Range(batch') = {} /\ Increasing(batch')
    BY <2>1, EmptyFacts
  <2> QED BY <2>1, <2>2 DEF FullInv, OrderInv, Held
<1>4. CASE Posted
  <2>1. /\ batch' = <<>> /\ sent' = sent \cup Range(batch)
        /\ UNCHANGED <<queue, made, late>>
    BY <1>4 DEF Posted
  <2>2. Range(batch') = {} /\ Increasing(batch')
    BY <2>1, EmptyFacts
  <2>3. Held' \cup sent' = Held \cup sent /\ Held' = Range(queue)
    BY <2>1, <2>2 DEF Held
  <2>4. \A x \in Range(batch) : x \notin Range(queue)
    BY <1>0 DEF FullInv, OrderInv
  <2>5. sent' \cap Held' = {}
    BY <2>1, <2>3, <2>4 DEF FullInv, OrderInv, Held
  <2> QED BY <2>1, <2>2, <2>3, <2>5 DEF FullInv, OrderInv
<1>5. CASE Requeue
  <2>1. batch # <<>>
    BY <1>5 DEF Requeue, FullInv, IInv, LabelInv
  <2> DEFINE m == Last(batch)
  <2>2. /\ queue' = PushFront(queue, m) /\ batch' = Front(batch)
        /\ UNCHANGED <<made, late, sent>>
    BY <1>5 DEF Requeue
  <2>3. /\ m \in Msgs /\ Range(batch) = Range(batch') \cup {m}
        /\ Increasing(batch') /\ \A x \in Range(batch') : x < m
    BY <1>0, <2>1, <2>2, FrontOrder DEF FullInv, OrderInv
  <2>4. \A x \in Range(queue) : m < x
    BY <2>3 DEF FullInv, OrderInv
  <2>5. Range(queue') \subseteq Range(queue) \cup {m} /\ Increasing(queue')
    BY <1>0, <2>2, <2>3, <2>4, PushFrontOrder DEF FullInv, OrderInv
  <2> HIDE DEF m
  <2>6. Held' \subseteq Held
    BY <2>3, <2>5 DEF Held
  <2>7. \A x \in Range(batch'), y \in Range(queue') : x < y
    BY <2>3, <2>5 DEF FullInv, OrderInv
  <2> QED BY <2>2, <2>3, <2>5, <2>6, <2>7 DEF FullInv, OrderInv
<1> QED
  BY <1>1, <1>2, <1>3, <1>4, <1>5 DEF Sending, SendWake, Fill, Refused, PostFails, server

LEMMA OrderOther ==
    FullInv /\ (StrayServed \/ Registered \/ NetworkClears \/ Restart) => OrderInv'
<1> SUFFICES ASSUME FullInv, StrayServed \/ Registered \/ NetworkClears \/ Restart
             PROVE  OrderInv'
  OBVIOUS
<1>1. CASE UNCHANGED <<made, late, queue, batch, sent>>
  BY <1>1 DEF FullInv, OrderInv, Held
<1>2. CASE Restart
  <2>1. queue' = <<>> /\ batch' = <<>> /\ late' = 0 /\ UNCHANGED <<made, sent>>
    BY <1>2 DEF Restart
  <2>2. Range(queue') = {} /\ Increasing(queue') /\ Range(batch') = {} /\ Increasing(batch')
    BY <2>1, EmptyFacts
  <2> QED BY <2>1, <2>2 DEF FullInv, OrderInv, Held
<1> QED BY <1>1, <1>2 DEF StrayServed, Registered, NetworkClears

LEMMA FullStep == FullInv /\ [Next]_vars => FullInv'
<1>1. FullInv /\ UNCHANGED vars => OrderInv'
  BY DEF FullInv, OrderInv, Held, vars
<1> QED
  BY <1>1, StepInv, OrderReading, OrderPolling, OrderSending, OrderOther DEF FullInv, Next

LEMMA FullAlways == Spec => []FullInv
<1>1. Init => FullInv
  BY InitInv, OrderInit DEF FullInv
<1> QED BY <1>1, FullStep, PTL DEF Spec

\* A message the server has answered for is never sent again, however the sizes of
\* the deque and of a batch compare.
THEOREM NeverTwice == Spec => []SentOnce
<1>1. FullInv => SentOnce
  BY DEF FullInv, OrderInv, SentOnce
<1> QED BY <1>1, FullAlways, PTL

LEMMA ConcatOrder ==
    ASSUME NEW a \in Seq(Msgs), NEW b \in Seq(Msgs)
    PROVE  /\ a \o b \in Seq(Msgs)
           /\ Range(a \o b) \subseteq Range(a) \cup Range(b)
           /\ Increasing(a) /\ Increasing(b) /\ (\A x \in Range(a), y \in Range(b) : x < y)
                => Increasing(a \o b)
<1> DEFINE p == a \o b
<1>1. /\ p \in Seq(Msgs) /\ Len(p) = Len(a) + Len(b)
      /\ \A i \in 1..Len(a) : p[i] = a[i]
      /\ \A i \in (Len(a) + 1)..(Len(a) + Len(b)) : p[i] = b[i - Len(a)]
      /\ Len(a) \in Nat /\ Len(b) \in Nat
  OBVIOUS
<1> HIDE DEF p
<1>2. /\ \A x : x \in Range(p) <=> \E i \in 1..(Len(a) + Len(b)) : x = p[i]
      /\ \A x : x \in Range(a) <=> \E i \in 1..Len(a) : x = a[i]
      /\ \A x : x \in Range(b) <=> \E i \in 1..Len(b) : x = b[i]
  BY <1>1, InRange
<1>3. ASSUME NEW i \in 1..Len(p)
      PROVE  \/ i \in 1..Len(a) /\ p[i] = a[i] /\ p[i] \in Range(a)
             \/ /\ i \in (Len(a) + 1)..(Len(a) + Len(b))
                /\ i - Len(a) \in 1..Len(b) /\ p[i] = b[i - Len(a)] /\ p[i] \in Range(b)
  <2>1. CASE i \in 1..Len(a)
    BY <1>1, <1>2, <2>1
  <2>2. CASE i \notin 1..Len(a)
    <3>1. i \in (Len(a) + 1)..(Len(a) + Len(b)) /\ i - Len(a) \in 1..Len(b)
      BY <1>1, <2>2
    <3> QED BY <1>1, <1>2, <3>1
  <2> QED BY <2>1, <2>2
<1>4. Range(p) \subseteq Range(a) \cup Range(b)
  BY <1>1, <1>2, <1>3
<1>5. Increasing(a) /\ Increasing(b) /\ (\A x \in Range(a), y \in Range(b) : x < y)
        => Increasing(p)
  <2> SUFFICES ASSUME Increasing(a), Increasing(b),
                      \A x \in Range(a), y \in Range(b) : x < y,
                      NEW i \in 1..Len(p), NEW j \in 1..Len(p), i < j
               PROVE  p[i] < p[j]
    BY DEF Increasing
  <2>1. CASE j \in 1..Len(a)
    <3>1. i \in 1..Len(a)
      BY <1>1, <2>1
    <3> QED BY <1>1, <2>1, <3>1 DEF Increasing
  <2>2. CASE i \in 1..Len(a) /\ j \notin 1..Len(a)
    BY <1>3, <2>2
  <2>3. CASE i \notin 1..Len(a)
    <3>1. /\ i - Len(a) \in 1..Len(b) /\ p[i] = b[i - Len(a)]
          /\ j - Len(a) \in 1..Len(b) /\ p[j] = b[j - Len(a)]
          /\ i - Len(a) < j - Len(a)
      <4>1. j \notin 1..Len(a)
        BY <1>1, <2>3
      <4> QED BY <1>1, <1>3, <2>3, <4>1
    <3> QED BY <3>1 DEF Increasing
  <2> QED BY <2>1, <2>2, <2>3
<1> QED BY <1>1, <1>4, <1>5 DEF p

LEMMA FullGivesOrder == FullInv => InOrder
<1> SUFFICES ASSUME FullInv PROVE InOrder
  OBVIOUS
<1> DEFINE rear == IF late = 0 THEN <<>> ELSE <<late>>
           pending == batch \o queue \o rear
<1>1. /\ queue \in Seq(Msgs) /\ batch \in Seq(Msgs)
      /\ made \in Nat /\ late \in Nat
      /\ late # 0 => late \in Msgs
  BY ConstantsNat DEF FullInv, IInv, TypeOK, Msgs
<1>2. /\ batch \o queue \in Seq(Msgs) /\ Increasing(batch \o queue)
      /\ Range(batch \o queue) \subseteq Held
  BY <1>1, ConcatOrder DEF FullInv, OrderInv, Held
<1>3. /\ rear \in Seq(Msgs) /\ Increasing(rear) /\ Range(rear) \subseteq {late}
      /\ late = 0 => Range(rear) = {}
  <2>1. CASE late = 0
    BY <2>1, EmptyFacts, ConstantsNat
  <2>2. CASE late # 0
    <3>1. rear = <<late>> /\ late \in Msgs
      BY <1>1, <2>2
    <3>2. <<late>> \in Seq(Msgs) /\ Len(<<late>>) = 1 /\ <<late>>[1] = late
      BY <3>1
    <3>3. Increasing(<<late>>) /\ Range(<<late>>) \subseteq {late}
      BY <3>2 DEF Increasing, Range
    <3> QED BY <2>2, <3>1, <3>2, <3>3
  <2> QED BY <2>1, <2>2
<1>4. \A x \in Range(batch \o queue), y \in Range(rear) : x < y
  <2>1. \A x \in Held : x \in Nat
    BY <1>1, InRange DEF Held
  <2>2. late # 0 => \A x \in Held : x <= late /\ x # late
    BY DEF FullInv, OrderInv
  <2>3. late # 0 => \A x \in Held : x < late
    BY <1>1, <2>1, <2>2
  <2> QED BY <1>2, <1>3, <2>3
<1> HIDE DEF rear
<1>5. pending \in Seq(Msgs) /\ Increasing(pending)
  <2> DEFINE front == batch \o queue
  <2>1. front \in Seq(Msgs) /\ Increasing(front) /\ \A x \in Range(front), y \in Range(rear) : x < y
    BY <1>2, <1>4
  <2> HIDE DEF front
  <2>2. front \o rear \in Seq(Msgs) /\ Increasing(front \o rear)
    BY <1>3, <2>1, ConcatOrder
  <2> QED BY <2>2 DEF front
<1>6. DOMAIN pending = 1..Len(pending)
  BY <1>5
<1>7. \A i, j \in DOMAIN pending : i < j => pending[i] < pending[j]
  BY <1>5, <1>6 DEF Increasing
<1> QED BY <1>7 DEF InOrder, rear

\* Whatever is put back, and whatever a full deque drops at either end, the batch, the
\* deque and the message on its way keep the order in which they came in.
THEOREM OrderKept == Spec => []InOrder
BY FullAlways, FullGivesOrder, PTL

\* What LossExplained says of one step.
Explained ==
    LET lost == Held \ (Held' \cup logged')
    IN lost # {} => \/ Len(queue) = QueueMax /\ \E m \in lost : lost = {m}
                    \/ poll = "clear" /\ poll' = "sleep"
                    \/ send' = "dead" \/ restarts' # restarts

LEMMA StepExplained == FullInv /\ [Next]_vars => Explained
<1> SUFFICES ASSUME FullInv, [Next]_vars PROVE Explained
  OBVIOUS
<1>0. /\ queue \in Seq(Msgs) /\ Len(queue) <= QueueMax /\ Len(queue) \in Nat
      /\ batch \in Seq(Msgs)
  BY DEF FullInv, IInv, TypeOK
<1>1. CASE Held \subseteq Held' \cup logged'
  BY <1>1 DEF Explained
<1>2. CASE UNCHANGED <<queue, batch>>
  BY <1>1, <1>2 DEF Held
<1>3. CASE Len(queue) = QueueMax /\ \E x \in Msgs : Held \subseteq Held' \cup {x}
  BY <1>3 DEF Explained
<1>4. CASE Enqueue
  <2>1. late \in Msgs /\ queue' = Push(queue, late) /\ batch' = batch
    BY <1>4, ConstantsNat DEF Enqueue, FullInv, IInv, TypeOK, Msgs
  <2>2. /\ Len(queue) < QueueMax => Range(queue) \subseteq Range(queue')
        /\ \E x \in Msgs : Range(queue) \subseteq Range(queue') \cup {x}
    BY <1>0, <2>1, PushOrder
  <2>3. Len(queue) < QueueMax \/ Len(queue) = QueueMax
    BY <1>0, ConstantsNat
  <2> QED BY <1>1, <1>3, <2>1, <2>2, <2>3 DEF Held
<1>5. CASE Requeue
  <2>1. batch # <<>>
    BY <1>5 DEF Requeue, FullInv, IInv, LabelInv
  <2>2. /\ queue' = PushFront(queue, Last(batch)) /\ batch' = Front(batch)
        /\ Last(batch) \in Msgs /\ Range(batch) = Range(batch') \cup {Last(batch)}
    BY <1>0, <1>5, <2>1, FrontOrder DEF Requeue
  <2>3. /\ Last(batch) \in Range(queue')
        /\ Len(queue) < QueueMax => Range(queue) \subseteq Range(queue')
        /\ \E x \in Msgs : Range(queue) \subseteq Range(queue') \cup {x}
    BY <1>0, <2>2, PushFrontOrder
  <2>4. Len(queue) < QueueMax \/ Len(queue) = QueueMax
    BY <1>0, ConstantsNat
  <2> QED BY <1>1, <1>3, <2>2, <2>3, <2>4 DEF Held
<1>6. CASE Pop
  <2>1. /\ queue # <<>> /\ batch' = Append(batch, Head(queue)) /\ queue' = Tail(queue)
    BY <1>6 DEF Pop
  <2>2. Head(queue) \in Msgs /\ Range(queue) = Range(queue') \cup {Head(queue)}
    BY <1>0, <2>1, TailOrder
  <2>3. Range(batch') = Range(batch) \cup {Head(queue)}
    BY <1>0, <2>1, <2>2, AppendOrder
  <2> QED BY <1>1, <2>2, <2>3 DEF Held
<1>7. CASE PopEmpty
  BY <1>7 DEF PopEmpty, Send, Explained
<1>8. CASE Posted
  BY <1>1, <1>8 DEF Posted, Held
<1>9. CASE PollClear
  BY <1>9 DEF PollClear, Poll, Explained
<1>10. CASE Restart
  <2>1. restarts' # restarts
    BY <1>10, ConstantsNat DEF Restart, FullInv, IInv, TypeOK
  <2> QED BY <2>1 DEF Explained
<1>11. CASE Reading
  BY <1>2, <1>4, <1>11 DEF Reading, Connect, ReaderBreaks, Receive, FlowStops
<1>12. CASE Polling
  BY <1>2, <1>9, <1>12 DEF Polling, PollLook, PollStart, PollStop
<1>13. CASE Sending
  BY <1>2, <1>5, <1>6, <1>7, <1>8, <1>13 DEF Sending, SendWake, Fill, Refused, PostFails
<1>14. CASE StrayServed \/ Registered \/ NetworkClears \/ Restart \/ UNCHANGED vars
  BY <1>2, <1>10, <1>14 DEF StrayServed, Registered, NetworkClears, vars
<1> QED BY <1>11, <1>12, <1>13, <1>14 DEF Next

\* An accepted message is lost only one at a time from a full deque, by the stop of the
\* stream, with a sending thread that dies, or by a restart: retries lose nothing.
THEOREM NoOtherLoss == Spec => LossExplained
<1>1. FullInv /\ [Next]_vars => [Explained]_vars
  BY StepExplained
<1>2. LossExplained <=> [][Explained]_vars
  BY DEF LossExplained, Explained
<1> QED BY <1>1, <1>2, FullAlways, PTL DEF Spec

=============================================================================
