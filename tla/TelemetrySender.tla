--------------------------- MODULE TelemetrySender ----------------------------
(***************************************************************************)
(* telemetry-sender on a board: the thread that reads MAVLink fills a       *)
(* bounded deque, one that polls switches the stream on and off, one that   *)
(* sends posts batches to the admin server, which logs them.  The deque is  *)
(* shared without a lock.  Messages are numbered in the order they come.    *)
(***************************************************************************)
EXTENDS Naturals, Sequences, SequencesExt

CONSTANTS
    QueueMax,    \* QUEUE_MAXLEN
    BatchMax,    \* BATCH_MAX_SIZE
    MaxMsgs,     \* bound: messages accepted by enqueue()
    MaxRestarts  \* bound: restarts of the service

ASSUME SenderAssumption ==
    /\ QueueMax \in Nat \ {0} /\ BatchMax \in Nat \ {0}
    /\ MaxMsgs \in Nat /\ MaxRestarts \in Nat

VARIABLES
    reader,      \* MavlinkClient: "waiting" for a heartbeat, "reading", "dead"
    fresh,       \* _last_enqueue_ts is set, and less than NO_DATA_TIMEOUT old
    made,        \* messages accepted so far
    late,        \* the message enqueue() has seen _active for; 0 if none
    active,      \* _active
    queue,       \* _queue
    poll,        \* where _poll_worker is
    send,        \* where _send_worker is
    batch,       \* its batch; what is left of it while it is put back
    lossy,       \* the way to the server may fail
    registered,  \* the server has a row for this board
    stray,       \* batch of a request the board has given up, not yet served
    logged,      \* history: rows the server has inserted
    sent,        \* history: messages counted in _sent_total
    restarts

server == <<lossy, registered, stray, logged>>
vars == <<reader, fresh, made, late, active, queue, poll, send, batch, server, sent, restarts>>

Msgs == 1..MaxMsgs
Held == Range(queue) \cup Range(batch)   \* what the board can still send

Init ==
    /\ reader = "waiting" /\ fresh = FALSE
    /\ made = 0 /\ late = 0
    /\ active = FALSE /\ queue = <<>>
    /\ poll = "sleep"
    /\ send = "sleep" /\ batch = <<>>
    /\ lossy = TRUE /\ registered \in BOOLEAN
    /\ stray = {} /\ logged = {} /\ sent = {}
    /\ restarts = 0

-----------------------------------------------------------------------------
(* The thread of MavlinkClient, and the flow it sees. *)

Connect ==
    /\ reader = "waiting"
    /\ reader' = "reading"
    /\ UNCHANGED <<fresh, made, late, active, queue, poll, send, batch, server, sent, restarts>>

\* recv_match raises: the loop ends, and main() goes on sleeping.
ReaderBreaks ==
    /\ reader = "reading" /\ late = 0
    /\ reader' = "dead"
    /\ UNCHANGED <<fresh, made, late, active, queue, poll, send, batch, server, sent, restarts>>

\* enqueue() up to the test of _active; a message that fails it is not numbered.
Receive ==
    /\ reader = "reading" /\ late = 0 /\ made < MaxMsgs
    /\ fresh' = TRUE
    /\ IF active THEN made' = made + 1 /\ late' = made + 1
                 ELSE UNCHANGED <<made, late>>
    /\ UNCHANGED <<reader, active, queue, poll, send, batch, server, sent, restarts>>

\* deque.append: a full deque drops its first element.
Push(q, m) == Append(IF Len(q) < QueueMax THEN q ELSE Tail(q), m)

Enqueue ==
    /\ late # 0
    /\ queue' = Push(queue, late)
    /\ late' = 0
    /\ UNCHANGED <<reader, fresh, made, active, poll, send, batch, server, sent, restarts>>

\* Nothing for NO_DATA_TIMEOUT; no call of enqueue() takes that long.
FlowStops ==
    /\ fresh /\ late = 0
    /\ fresh' = FALSE
    /\ UNCHANGED <<reader, made, late, active, queue, poll, send, batch, server, sent, restarts>>

-----------------------------------------------------------------------------
(* _poll_worker *)

Poll(from, to) == poll = from /\ poll' = to

PollLook ==
    /\ \/ Poll("sleep", "start") /\ fresh /\ ~active
       \/ Poll("sleep", "stop") /\ ~fresh /\ active
    /\ UNCHANGED <<reader, fresh, made, late, active, queue, send, batch, server, sent, restarts>>

PollStart ==
    /\ Poll("start", "sleep")
    /\ active' = TRUE
    /\ UNCHANGED <<reader, fresh, made, late, queue, send, batch, server, sent, restarts>>

PollStop ==
    /\ Poll("stop", "clear")
    /\ active' = FALSE
    /\ UNCHANGED <<reader, fresh, made, late, queue, send, batch, server, sent, restarts>>

PollClear ==
    /\ Poll("clear", "sleep")
    /\ queue' = <<>>
    /\ UNCHANGED <<reader, fresh, made, late, active, send, batch, server, sent, restarts>>

-----------------------------------------------------------------------------
(* _send_worker *)

Send(from, to) == send = from /\ send' = to

\* Slip: a batch is sent only when it is a full one.
SendFullOnly ==
    /\ Send("sleep", "fill")
    /\ active /\ Len(queue) >= BatchMax
    /\ UNCHANGED <<reader, fresh, made, late, active, queue, poll, batch, server, sent, restarts>>

SendWake ==
    /\ Send("sleep", "fill")
    /\ active /\ queue # <<>>
    /\ UNCHANGED <<reader, fresh, made, late, active, queue, poll, batch, server, sent, restarts>>

\* The head of the for loop, the emptiness test, and the test of the batch after it.
Fill ==
    /\ IF Len(batch) < BatchMax /\ queue # <<>> THEN Send("fill", "pop")
       ELSE IF batch = <<>> THEN Send("fill", "sleep")
       ELSE Send("fill", "post")
    /\ UNCHANGED <<reader, fresh, made, late, active, queue, poll, batch, server, sent, restarts>>

Pop ==
    /\ queue # <<>>
    /\ Send("pop", "fill")
    /\ batch' = Append(batch, Head(queue))
    /\ queue' = Tail(queue)
    /\ UNCHANGED <<reader, fresh, made, late, active, poll, server, sent, restarts>>

\* The deque was cleared after the test: IndexError ends the thread.
PopEmpty ==
    /\ queue = <<>>
    /\ Send("pop", "dead")
    /\ batch' = <<>>
    /\ UNCHANGED <<reader, fresh, made, late, active, queue, poll, server, sent, restarts>>

\* Slip: an error in the accounting puts back what the server has taken.
PostedPutBack ==
    /\ registered
    /\ Send("post", "requeue")
    /\ logged' = logged \cup Range(batch)
    /\ sent' = sent \cup Range(batch)
    /\ UNCHANGED <<reader, fresh, made, late, active, queue, poll, batch, lossy, registered,
                   stray, restarts>>

\* ingest() stores the batch and the answer arrives.
Posted ==
    /\ registered
    /\ Send("post", "sleep")
    /\ logged' = logged \cup Range(batch)
    /\ sent' = sent \cup Range(batch)
    /\ batch' = <<>>
    /\ UNCHANGED <<reader, fresh, made, late, active, queue, poll, lossy, registered, stray, restarts>>

\* Slip: a refused batch is thrown away.
RefusedDropped ==
    /\ ~registered
    /\ Send("post", "sleep")
    /\ batch' = <<>>
    /\ UNCHANGED <<reader, fresh, made, late, active, queue, poll, server, sent, restarts>>

\* 403 unknown device: urlopen raises.
Refused ==
    /\ ~registered
    /\ Send("post", "requeue")
    /\ UNCHANGED <<reader, fresh, made, late, active, queue, poll, batch, server, sent, restarts>>

\* Not reached, no answer in time, a database that stays locked, or an answer
\* that is lost: the rows are never inserted, inserted already, or still to be.
PostFails ==
    /\ lossy
    /\ Send("post", "requeue")
    /\ \/ UNCHANGED <<logged, stray>>
       \/ registered /\ logged' = logged \cup Range(batch) /\ UNCHANGED stray
       \/ stray = {} /\ stray' = Range(batch) /\ UNCHANGED logged
    /\ UNCHANGED <<reader, fresh, made, late, active, queue, poll, batch, lossy, registered,
                   sent, restarts>>

\* deque.appendleft: a full deque drops its last element.
PushFront(q, m) == <<m>> \o (IF Len(q) < QueueMax THEN q ELSE Front(q))

\* Slip: the batch is put back first element first.
RequeueForward ==
    /\ send = "requeue"
    /\ queue' = PushFront(queue, Head(batch))
    /\ batch' = Tail(batch)
    /\ send' = IF Len(batch) = 1 THEN "sleep" ELSE "requeue"
    /\ UNCHANGED <<reader, fresh, made, late, active, poll, server, sent, restarts>>

\* One turn of `for item in reversed(batch)`.
Requeue ==
    /\ send = "requeue"
    /\ queue' = PushFront(queue, Last(batch))
    /\ batch' = Front(batch)
    /\ send' = IF Len(batch) = 1 THEN "sleep" ELSE "requeue"
    /\ UNCHANGED <<reader, fresh, made, late, active, poll, server, sent, restarts>>

-----------------------------------------------------------------------------
(* The server, the way to it, and systemd. *)

StrayServed ==
    /\ stray # {}
    /\ logged' = IF registered THEN logged \cup stray ELSE logged
    /\ stray' = {}
    /\ UNCHANGED <<reader, fresh, made, late, active, queue, poll, send, batch, lossy,
                   registered, sent, restarts>>

Registered ==
    /\ ~registered
    /\ registered' = TRUE
    /\ UNCHANGED <<reader, fresh, made, late, active, queue, poll, send, batch, lossy,
                   stray, logged, sent, restarts>>

NetworkClears ==
    /\ lossy
    /\ lossy' = FALSE
    /\ UNCHANGED <<reader, fresh, made, late, active, queue, poll, send, batch, registered,
                   stray, logged, sent, restarts>>

\* SIGTERM or a crash, and a new process; nothing is kept on disk.
Restart ==
    /\ restarts < MaxRestarts
    /\ restarts' = restarts + 1
    /\ reader' = "waiting" /\ fresh' = FALSE
    /\ late' = 0 /\ active' = FALSE /\ queue' = <<>>
    /\ poll' = "sleep" /\ send' = "sleep" /\ batch' = <<>>
    /\ stray' \in {stray} \cup IF send = "post" /\ stray = {} THEN {Range(batch)} ELSE {}
    /\ UNCHANGED <<made, lossy, registered, logged, sent>>

Reading == Connect \/ ReaderBreaks \/ Receive \/ Enqueue \/ FlowStops
Polling == PollLook \/ PollStart \/ PollStop \/ PollClear
Sending == \/ SendWake \/ Fill \/ Pop \/ PopEmpty
           \/ Posted \/ Refused \/ PostFails \/ Requeue

Next == Reading \/ Polling \/ Sending
        \/ StrayServed \/ Registered \/ NetworkClears \/ Restart

\* Threads that can run do run; the board is registered and the way to the
\* server clears some day.  Messages need not come.
Fairness ==
    /\ WF_vars(Enqueue) /\ WF_vars(Polling) /\ WF_vars(Sending)
    /\ WF_vars(Registered) /\ WF_vars(NetworkClears)

Spec == Init /\ [][Next]_vars /\ Fairness

-----------------------------------------------------------------------------
(* Properties. *)

TypeOK ==
    /\ reader \in {"waiting", "reading", "dead"}
    /\ fresh \in BOOLEAN
    /\ made \in 0..MaxMsgs /\ late \in 0..MaxMsgs
    /\ active \in BOOLEAN
    /\ queue \in Seq(Msgs) /\ Len(queue) <= QueueMax
    /\ poll \in {"sleep", "start", "stop", "clear"}
    /\ send \in {"sleep", "fill", "pop", "post", "requeue", "dead"}
    /\ batch \in Seq(Msgs) /\ Len(batch) <= BatchMax
    /\ lossy \in BOOLEAN /\ registered \in BOOLEAN
    /\ stray \subseteq Msgs /\ logged \subseteq Msgs /\ sent \subseteq Msgs
    /\ restarts \in 0..MaxRestarts

\* Retries never reorder or double what is still to be sent: the batch, the deque
\* behind it and the message on its way into it stand in the order they came in,
\* though a batch is put back one by one while the reader appends, each of them
\* making the full deque drop at its own end.
InOrder ==
    LET pending == batch \o queue \o (IF late = 0 THEN <<>> ELSE <<late>>)
    IN \A i, j \in DOMAIN pending : i < j => pending[i] < pending[j]

\* What survives a stop ("auto-stops (clears buffer)"): nothing but the batch that was
\* out when the deque was cleared, put back afterwards, and the one message whose
\* enqueue() had passed the test of _active.
StoppedHoldsLittle ==
    ~active /\ poll # "clear" =>
        Len(queue) + Len(batch) + (IF late = 0 THEN 0 ELSE 1) <= BatchMax + 1

\* A message that _sent_total counts is never sent again: the accounting stands inside
\* the try whose handler puts the batch back.
SentOnce == sent \cap Held = {}

\* No accepted message leaves the board unlogged, except one at a time when the deque
\* is full, by the stop, by a restart, or with a sending thread that dies.
LossExplained ==
    [][LET lost == Held \ (Held' \cup logged')
       IN lost # {} => \/ Len(queue) = QueueMax /\ \E m \in lost : lost = {m}
                       \/ poll = "clear" /\ poll' = "sleep"
                       \/ send' = "dead" \/ restarts' # restarts]_vars

\* However many refusals and lost answers come first: while the stream is on and the
\* sending thread lives, everything accepted leaves the board in the end (MaxMsgs
\* makes the flow finite, so that the deque can run dry).
Drains == []<>(Held = {} \/ ~active \/ send = "dead")

\* "send_worker: every BATCH_INTERVAL, flushes queue to server"
\* (telemetry_sender.py:70): while the stream is on, the (finite) flow leaves the deque.
Flushes == []<>(queue = <<>> \/ ~active)

=============================================================================
