----------------------------- MODULE LiveTelemetry -----------------------------
(***************************************************************************)
(* A board's positions on their way to the pilot's page: requests wait for  *)
(* the threads of the one gunicorn process; a POST is inserted and put into *)
(* the queue of every subscriber (telemetry_service.ingest,                 *)
(* telemetry_stream); an open page holds a thread that takes from its queue *)
(* and writes (routes/telemetry_api.py), and shows what it is sent          *)
(* (telemetry.html).  A position is two messages, its "lat" and its "lon".  *)
(***************************************************************************)
EXTENDS Naturals, Sequences, FiniteSets, Functions

CONSTANTS
    Threads,     \* --threads of gunicorn
    QueueMax,    \* QUEUE_MAXSIZE
    HistoryMax,  \* positions in the answer to /latest with its limit
    MaxPosts,    \* bound: batches, of one position each
    MaxLate,     \* bound: requests the board gives up while they are under way
    MaxStreams   \* bound: streams the page opens, one after the other

Posts == 1..MaxPosts
Streams == 1..MaxStreams
Axes == {"lat", "lon"}
Nothing == [lat |-> 0, lon |-> 0]

VARIABLES
    pool,     \* requests that wait for a thread
    awaited,  \* the POST whose answer the board waits for; 0 if none
    made, lates,
    at,       \* where each POST is
    todo,     \* the puts it still has to do, of a copy of _subscribers
    rows,     \* positions in the database
    subs,     \* _subscribers of the board, in order
    queue,    \* their queues
    stream,   \* where the thread of each stream is
    item,     \* the message, or the ping, it writes
    conn,     \* its connection: a "gone" one takes writes until the system gives it up
    got,      \* starlinkGps of the page
    tried,    \* history: the last message of each axis published to each stream
    raced,    \* history: streams where another thread came between the three calls of a put
    overlapped \* history: streams that two publishers had in their copies at the same time

post == <<awaited, made, lates, at, todo, rows>>
sse == <<subs, queue, stream, item, conn>>
vars == <<pool, post, sse, got, tried, raced, overlapped>>

TypeOK ==
    /\ pool \in Seq({"history", "post", "live"} \X Nat)
    /\ awaited \in Posts \cup {0} /\ made \in 0..MaxPosts /\ lates \in 0..MaxLate
    /\ at \in [Posts -> {"no", "waiting", "insert", "copy", "put", "full", "again", "done"}]
    /\ todo \in [Posts -> Seq(Streams \X Axes)] /\ rows \subseteq Posts
    /\ subs \in Seq(Streams) /\ queue \in [Streams -> Seq(Posts \X Axes)]
    /\ \A s \in Streams : Len(queue[s]) <= QueueMax
    /\ stream \in [Streams -> {"no", "waiting", "get", "write", "end", "ended"}]
    /\ conn \in [Streams -> {"no", "open", "gone", "dying", "dead"}]
    /\ got \in [Axes -> 0..MaxPosts] /\ {raced, overlapped} \subseteq SUBSET Streams

\* The page is loaded and asks for the history first (loadInitialState).
Init ==
    /\ pool = <<<<"history", 0>>>>
    /\ awaited = 0 /\ made = 0 /\ lates = 0
    /\ at = [n \in Posts |-> "no"] /\ todo = [n \in Posts |-> <<>>] /\ rows = {}
    /\ subs = <<>> /\ queue = [s \in Streams |-> <<>>]
    /\ stream = [s \in Streams |-> "no"] /\ item = [s \in Streams |-> <<0, "ping">>]
    /\ conn = [s \in Streams |-> "no"]
    /\ got = Nothing /\ tried = [s \in Streams |-> Nothing] /\ raced = {} /\ overlapped = {}

-----------------------------------------------------------------------------
(* The threads of the process. *)

Busy == {s \in Streams : stream[s] \in {"get", "write", "end"}}
Working == {n \in Posts : at[n] \in {"insert", "copy", "put", "full", "again"}}

\* A free thread takes the request that has waited longest.
Take(request) ==
    /\ pool # <<>> /\ Head(pool) = request
    /\ Cardinality(Busy) + Cardinality(Working) < Threads

-----------------------------------------------------------------------------
(* The board's batches. *)

Post ==
    /\ awaited = 0 /\ made < MaxPosts
    /\ made' = made + 1 /\ awaited' = made + 1
    /\ at' = [at EXCEPT ![made + 1] = "waiting"]
    /\ pool' = Append(pool, <<"post", made + 1>>)
    /\ UNCHANGED <<lates, todo, rows, sse, got, tried, raced, overlapped>>

\* The board posts on, and the server still serves what it has given up.
GivesUp ==
    /\ awaited # 0 /\ lates < MaxLate
    /\ awaited' = 0 /\ lates' = lates + 1
    /\ UNCHANGED <<pool, made, at, todo, rows, sse, got, tried, raced, overlapped>>

Goes(n, step) == at' = [at EXCEPT ![n] = step]

Ingest(n) ==
    /\ Take(<<"post", n>>) /\ pool' = Tail(pool) /\ Goes(n, "insert")
    /\ UNCHANGED <<awaited, made, lates, todo, rows, sse, got, tried, raced, overlapped>>

InsertRows(n) ==
    /\ at[n] = "insert" /\ rows' = rows \cup {n} /\ Goes(n, "copy")
    /\ UNCHANGED <<pool, awaited, made, lates, todo, sse, got, tried, raced, overlapped>>

\* A publisher still has the stream before it.
Puts(m, s) == \E i \in DOMAIN todo[m] : todo[m][i][1] = s

\* publish: to every subscriber of the copy, message by message.
Publish(n) ==
    /\ at[n] = "copy" /\ Goes(n, "put")
    /\ todo' = [todo EXCEPT ![n] = [i \in 1..2 * Len(subs) |->
                    <<subs[(i + 1) \div 2], IF i % 2 = 1 THEN "lat" ELSE "lon">>]]
    /\ overlapped' = overlapped \cup {s \in Range(subs) : \E m \in Posts : Puts(m, s)}
    /\ UNCHANGED <<pool, awaited, made, lates, rows, sse, got, tried, raced>>

To(n) == Head(todo[n])[1]
Axis(n) == Head(todo[n])[2]

Queued(n) == queue' = [queue EXCEPT ![To(n)] = Append(@, <<n, Axis(n)>>)]
NextPut(n) ==
    /\ todo' = [todo EXCEPT ![n] = Tail(@)]
    /\ tried' = [tried EXCEPT ![To(n)][Axis(n)] = n]

\* put_nowait, which a full queue refuses.
Put(n) ==
    /\ at[n] = "put" /\ todo[n] # <<>>
    /\ IF Len(queue[To(n)]) < QueueMax
         THEN Queued(n) /\ NextPut(n) /\ UNCHANGED at
         ELSE Goes(n, "full") /\ UNCHANGED <<queue, todo, tried>>
    /\ UNCHANGED <<pool, awaited, made, lates, rows, subs, stream, item, conn, got, raced, overlapped>>

\* The oldest makes room; the page's thread may have taken it, and others, meanwhile.
DropOldest(n) ==
    /\ at[n] = "full" /\ Goes(n, "again")
    /\ queue' = [queue EXCEPT ![To(n)] = IF @ = <<>> THEN @ ELSE Tail(@)]
    /\ raced' = (IF Len(queue[To(n)]) = QueueMax THEN raced ELSE raced \cup {To(n)})
    /\ UNCHANGED <<pool, awaited, made, lates, todo, rows, subs, stream, item, conn, got,
                   tried, overlapped>>

PutAgain(n) ==
    /\ at[n] = "again" /\ Goes(n, "put") /\ NextPut(n)
    /\ IF Len(queue[To(n)]) < QueueMax THEN Queued(n) /\ UNCHANGED raced
                                       ELSE raced' = raced \cup {To(n)} /\ UNCHANGED queue
    /\ UNCHANGED <<pool, awaited, made, lates, rows, subs, stream, item, conn, got, overlapped>>

Answered(n) ==
    /\ at[n] = "put" /\ todo[n] = <<>> /\ Goes(n, "done")
    /\ awaited' = (IF awaited = n THEN 0 ELSE awaited)
    /\ UNCHANGED <<pool, made, lates, todo, rows, sse, got, tried, raced, overlapped>>

-----------------------------------------------------------------------------
(* The page and its streams. *)

\* startLiveTelemetry, and the browser's own reconnection.
Opens(s) ==
    /\ conn[s] = "no" /\ \A r \in Streams : r < s => conn[r] # "no"
    /\ stream' = [stream EXCEPT ![s] = "waiting"]

\* The rows of the last minutes, oldest first, up to the limit; or the request fails.
History == {n \in rows : Cardinality({m \in rows : m <= n}) <= HistoryMax}

ServeHistory ==
    /\ Take(<<"history", 0>>)
    /\ pool' = Append(Tail(pool), <<"live", 1>>)
    /\ Opens(1) /\ conn' = [conn EXCEPT ![1] = "open"]
    /\ \/ LET last == Cardinality(History) IN
            \E n \in History \cup {0} :
                /\ Cardinality({m \in History : m <= n}) = last
                /\ got' = (IF n = 0 THEN got ELSE [lat |-> n, lon |-> n])
       \/ UNCHANGED got
    /\ UNCHANGED <<post, subs, queue, item, tried, raced, overlapped>>

\* The generator of api_telemetry_live starts.
Subscribe(s) ==
    /\ Take(<<"live", s>>) /\ pool' = Tail(pool)
    /\ subs' = Append(subs, s) /\ stream' = [stream EXCEPT ![s] = "get"]
    /\ UNCHANGED <<post, queue, item, conn, got, tried, raced, overlapped>>

GetMessage(s) ==
    /\ stream[s] = "get" /\ queue[s] # <<>>
    /\ item' = [item EXCEPT ![s] = Head(queue[s])] /\ queue' = [queue EXCEPT ![s] = Tail(@)]
    /\ stream' = [stream EXCEPT ![s] = "write"]
    /\ UNCHANGED <<pool, post, subs, conn, got, tried, raced, overlapped>>

\* Slip: get() without a timeout.
SlipPing(s) == stream[s] = "get" /\ queue[s] = <<>> /\ UNCHANGED vars

\* Nothing for 15 s.
Ping(s) ==
    /\ stream[s] = "get" /\ queue[s] = <<>>
    /\ item' = [item EXCEPT ![s] = <<0, "ping">>] /\ stream' = [stream EXCEPT ![s] = "write"]
    /\ UNCHANGED <<pool, post, subs, queue, conn, got, tried, raced, overlapped>>

\* processMsgs with one message: what a page shows of an axis is the last it was sent.
ShowMessage(s) ==
    IF item[s][1] = 0 THEN UNCHANGED got ELSE got' = [got EXCEPT ![item[s][2]] = item[s][1]]

\* updateStarlinkGps: the point of the marker, once both axes are known.
Point == IF 0 \in Range(got) THEN <<0, 0>> ELSE <<got["lat"], got["lon"]>>

\* yield: the open connection delivers, a broken one takes it, a dead one raises.
Write(s) ==
    /\ stream[s] = "write"
    /\ \/ conn[s] = "open" /\ ShowMessage(s) /\ UNCHANGED conn
       \/ conn[s] \in {"gone", "dying"} /\ conn' = [conn EXCEPT ![s] = "dying"] /\ UNCHANGED got
       \/ conn[s] = "dead" /\ UNCHANGED <<conn, got, overlapped>>
    /\ stream' = [stream EXCEPT ![s] = IF conn[s] = "dead" THEN "end" ELSE "get"]
    /\ UNCHANGED <<pool, post, subs, queue, item, tried, raced, overlapped>>

\* The finally of the generator: unsubscribe.
Unsubscribe(s) ==
    /\ stream[s] = "end" /\ stream' = [stream EXCEPT ![s] = "ended"]
    /\ subs' = SelectSeq(subs, LAMBDA r : r # s)
    /\ UNCHANGED <<pool, post, queue, item, conn, got, tried, raced, overlapped>>

\* The network drops the connection without closing it, and the browser opens another.
Breaks(s) ==
    /\ conn[s] = "open" /\ stream[s] \in {"get", "write"} /\ s < MaxStreams
    /\ Opens(s + 1) /\ conn' = [conn EXCEPT ![s] = "gone", ![s + 1] = "open"]
    /\ pool' = Append(pool, <<"live", s + 1>>)
    /\ UNCHANGED <<post, subs, queue, item, got, tried, raced, overlapped>>

\* What is written and never acknowledged ends the connection.
SystemGivesUp(s) ==
    /\ conn[s] = "dying" /\ conn' = [conn EXCEPT ![s] = "dead"]
    /\ UNCHANGED <<pool, post, subs, queue, stream, item, got, tried, raced, overlapped>>

-----------------------------------------------------------------------------
Posting(n) == \/ Ingest(n) \/ InsertRows(n) \/ Publish(n) \/ Put(n) \/ DropOldest(n)
              \/ PutAgain(n) \/ Answered(n)
Streaming(s) == Subscribe(s) \/ GetMessage(s) \/ Ping(s) \/ Write(s) \/ Unsubscribe(s)

Next ==
    \/ Post \/ GivesUp \/ ServeHistory
    \/ \E n \in Posts : Posting(n)
    \/ \E s \in Streams : Streaming(s) \/ Breaks(s) \/ SystemGivesUp(s)

\* Threads run, and the system gives up what is never acknowledged.
Fairness ==
    /\ WF_vars(ServeHistory)
    /\ \A n \in Posts : WF_vars(Posting(n))
    /\ \A s \in Streams : WF_vars(Streaming(s)) /\ WF_vars(SystemGivesUp(s))

Spec == Init /\ [][Next]_vars /\ Fairness

-----------------------------------------------------------------------------
\* Streams hold threads, and those of broken connections hold them on: even of a board that
\* sends nothing, whose queues stay empty, every batch is served in the end.
ServesIngest == []<>(\A n \in Posts : at[n] \in {"no", "done"})

\* What an open page ends showing of an axis is the last that was published of it, and both
\* axes are of one position unless two publishers had the page's stream in their copies at the
\* same time: then an axis of each may stay.  A full queue loses older messages only, as long
\* as it holds more messages than there are publishers, unless its thread or another publisher
\* comes between the refused put, the get that makes room and the second put, which no lock
\* holds together.
ShowsLast ==
    <>[](\A s \in Streams : conn[s] = "open" /\ s \notin raced =>
            LET last == <<tried[s]["lat"], tried[s]["lon"]>>
            IN \/ 0 \in Range(last)
               \/ Point = last /\ (s \in overlapped \/ last[1] = last[2]))
=============================================================================
