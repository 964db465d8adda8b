------------------------------- MODULE Vision --------------------------------
(***************************************************************************)
(* Image recognition of one board's stream: VisionSupervisor on the machine *)
(* with the GPU keeps one InferenceWorker (a thread) per board, the Flask   *)
(* threads start, switch and stop it, and each worker posts what it sees to *)
(* the admin server, which shows the last report that came.                 *)
(***************************************************************************)
EXTENDS Naturals

CONSTANTS
    Capabilities,  \* ALLOWED_CAPABILITIES
    Requests,      \* Flask threads
    None,
    MaxWorkers,    \* bound: workers ever started
    MaxFaults      \* bound: lost and late reports, models that fail, streams, restarts

VisionAssumption ==
    /\ None \notin Nat \cup Capabilities \cup Requests
    /\ MaxWorkers \in Nat /\ MaxFaults \in Nat

VARIABLES
    worker,      \* each worker: where its thread is, its capability, _stop_event, whether cap is open
    registered,  \* _workers[device_id], or None
    request,     \* each Flask thread: what it does, the worker it holds, the capability it wants
    lock,        \* the thread that sleeps while it holds _lock, or None
    stream,      \* the board's stream is published
    late,        \* reports whose POST timed out on the way
    latest,      \* _latest[device_id]: the capability of the report, or None
    started, faults

vars == <<worker, registered, request, lock, stream, late, latest, started, faults>>

Workers == 1..MaxWorkers
Fresh == [at |-> "none", capability |-> None, stopped |-> FALSE, open |-> FALSE]
Idle == [at |-> "idle", worker |-> None, capability |-> None]
Alive(w) == worker[w].at \notin {"none", "dead"}

TypeOK ==
    /\ worker \in [Workers -> [at : {"none", "load", "look", "open", "rest", "grab", "post", "dead"},
                               capability : Capabilities \cup {None}, stopped : BOOLEAN, open : BOOLEAN]]
    /\ registered \in Workers \cup {None}
    /\ request \in [Requests -> [at : {"idle", "switch", "pop"}, worker : Workers \cup {None},
                                 capability : Capabilities \cup {None}]]
    /\ lock \in Requests \cup {None}
    /\ stream \in BOOLEAN
    /\ late \subseteq Capabilities /\ latest \in Capabilities \cup {None}
    /\ started \in 0..MaxWorkers /\ faults \in 0..MaxFaults

Init ==
    /\ worker = [w \in Workers |-> Fresh]
    /\ registered = None /\ request = [r \in Requests |-> Idle] /\ lock = None
    /\ stream = TRUE /\ late = {} /\ latest = None
    /\ started = 0 /\ faults = 0

Fault == faults < MaxFaults /\ faults' = faults + 1

-----------------------------------------------------------------------------
(* VisionSupervisor. A start holds _lock while it joins the former worker;  *)
(* a stop pops the worker under _lock, and tells it to stop after that. The *)
(* join of a stop changes nothing and is left out.                           *)

\* A new worker under the workers `w` has left behind.
Spawn(c, workers) ==
    /\ started < MaxWorkers
    /\ started' = started + 1
    /\ worker' = [workers EXCEPT ![started + 1] = [Fresh EXCEPT !.at = "load", !.capability = c]]
    /\ registered' = started + 1

\* start() of another capability than the one that runs: existing.stop().
StartSwitches(r, c) ==
    /\ lock = None /\ request[r].at = "idle"
    /\ registered # None
    /\ Alive(registered) /\ worker[registered].capability # c
    /\ started < MaxWorkers
    /\ worker' = [worker EXCEPT ![registered].stopped = TRUE]
    /\ request' = [request EXCEPT ![r] = [at |-> "switch", worker |-> registered, capability |-> c]]
    /\ lock' = r
    /\ UNCHANGED <<registered, stream, late, latest, started, faults>>

\* The join returned: the thread has ended, or 5 seconds have passed.
Switch(r) ==
    /\ request[r].at = "switch"
    /\ Spawn(request[r].capability, worker)
    /\ request' = [request EXCEPT ![r] = Idle]
    /\ lock' = None
    /\ UNCHANGED <<stream, late, latest, faults>>

\* start() with no worker alive; with the same capability it only answers.
Start(r, c) ==
    /\ lock = None /\ request[r].at = "idle"
    /\ registered # None => ~Alive(registered)
    /\ Spawn(c, worker)
    /\ UNCHANGED <<request, lock, stream, late, latest, faults>>

Stop(r) ==
    /\ lock = None /\ request[r].at = "idle"
    /\ registered # None
    /\ registered' = None
    /\ request' = [request EXCEPT ![r] = [Idle EXCEPT !.at = "pop", !.worker = registered]]
    /\ UNCHANGED <<worker, lock, stream, late, latest, started, faults>>

\* Slip: the stop clears the board's entry once more when it has stopped the worker.
SlipStopWorker(r) ==
    /\ request[r].at = "pop"
    /\ worker' = [worker EXCEPT ![request[r].worker].stopped = TRUE]
    /\ registered' = None
    /\ request' = [request EXCEPT ![r] = Idle]
    /\ UNCHANGED <<lock, stream, late, latest, started, faults>>

StopWorker(r) ==
    /\ request[r].at = "pop"
    /\ worker' = [worker EXCEPT ![request[r].worker].stopped = TRUE]
    /\ request' = [request EXCEPT ![r] = Idle]
    /\ UNCHANGED <<registered, lock, stream, late, latest, started, faults>>

-----------------------------------------------------------------------------
(* InferenceWorker._run. Any of these steps may take long: the load of a    *)
(* model, the opening of the stream, a prediction, a POST.                   *)

Moves(w, from, to) ==
    /\ worker[w].at = from
    /\ worker' = [worker EXCEPT ![w].at = to]

Load(w) ==
    /\ Moves(w, "load", "look")
    /\ UNCHANGED <<registered, request, lock, stream, late, latest, started, faults>>

LoadFails(w) ==
    /\ Moves(w, "load", "dead") /\ Fault
    /\ UNCHANGED <<registered, request, lock, stream, late, latest, started>>

\* Slip: the event is looked at while the stream is being connected only.
SlipLook(w) ==
    /\ worker[w].at = "look"
    /\ worker' = [worker EXCEPT ![w].at =
                     IF worker[w].open THEN "grab" ELSE IF worker[w].stopped THEN "dead" ELSE "open"]
    /\ UNCHANGED <<registered, request, lock, stream, late, latest, started, faults>>

\* while not _stop_event.is_set()
Look(w) ==
    /\ worker[w].at = "look"
    /\ worker' = [worker EXCEPT ![w].at =
                     IF worker[w].stopped THEN "dead" ELSE IF worker[w].open THEN "grab" ELSE "open",
                                ![w].open = @ /\ ~worker[w].stopped]
    /\ UNCHANGED <<registered, request, lock, stream, late, latest, started, faults>>

\* _open_capture; the event is not looked at between the opening and the first frame.
Open(w) ==
    /\ worker[w].at = "open"
    /\ worker' = [worker EXCEPT ![w].at = IF stream THEN "grab" ELSE "rest", ![w].open = stream]
    /\ UNCHANGED <<registered, request, lock, stream, late, latest, started, faults>>

\* _stop_event.wait(RTSP_RECONNECT_BACKOFF_S)
Rest(w) ==
    /\ Moves(w, "rest", "look")
    /\ UNCHANGED <<registered, request, lock, stream, late, latest, started, faults>>

\* A frame that is due: retrieve and predict.
Grab(w) ==
    /\ stream /\ Moves(w, "grab", "post")
    /\ UNCHANGED <<registered, request, lock, stream, late, latest, started, faults>>

\* A frame that is not due, or is not decoded, or the model fails on it.
Skip(w) ==
    /\ stream /\ Moves(w, "grab", "look")
    /\ UNCHANGED <<registered, request, lock, stream, late, latest, started, faults>>

GrabFails(w) ==
    /\ ~stream /\ worker[w].at = "grab"
    /\ worker' = [worker EXCEPT ![w].at = "rest", ![w].open = FALSE]
    /\ UNCHANGED <<registered, request, lock, stream, late, latest, started, faults>>

\* _post_result, and report() on the server.
Post(w) ==
    /\ Moves(w, "post", "look")
    /\ latest' = worker[w].capability
    /\ UNCHANGED <<registered, request, lock, stream, late, started, faults>>

PostTimesOut(w) ==
    /\ Moves(w, "post", "look") /\ Fault
    /\ late' \in {late, late \cup {worker[w].capability}}
    /\ UNCHANGED <<registered, request, lock, stream, latest, started>>

-----------------------------------------------------------------------------
Arrive(c) ==
    /\ c \in late
    /\ late' = late \ {c} /\ latest' = c
    /\ UNCHANGED <<worker, registered, request, lock, stream, started, faults>>

StreamChanges ==
    /\ Fault /\ stream' = ~stream
    /\ UNCHANGED <<worker, registered, request, lock, late, latest, started>>

\* sirena-vision is restarted: its workers live in its memory only.
Restart ==
    /\ Fault
    /\ worker' = [w \in Workers |-> IF Alive(w) THEN [worker[w] EXCEPT !.at = "dead"] ELSE worker[w]]
    /\ registered' = None /\ request' = [r \in Requests |-> Idle] /\ lock' = None
    /\ UNCHANGED <<stream, late, latest, started>>

Works(w) == Load(w) \/ Look(w) \/ Open(w) \/ Rest(w) \/ GrabFails(w) \/ Post(w)

Next ==
    \/ \E r \in Requests :
          \/ \E c \in Capabilities : StartSwitches(r, c) \/ Start(r, c)
          \/ Switch(r) \/ Stop(r) \/ StopWorker(r)
    \/ \E w \in Workers : Works(w) \/ LoadFails(w) \/ Grab(w) \/ Skip(w) \/ PostTimesOut(w)
    \/ \E c \in Capabilities : Arrive(c)
    \/ StreamChanges \/ Restart

\* Threads run; a request is served; a frame is due time and again (interval_s);
\* a request that is on its way arrives.
Fairness ==
    /\ \A w \in Workers : WF_vars(Works(w)) /\ SF_vars(Grab(w))
    /\ \A r \in Requests : WF_vars(Switch(r)) /\ WF_vars(StopWorker(r))
    /\ \A c \in Capabilities : WF_vars(Arrive(c))

Spec == Init /\ [][Next]_vars /\ Fairness

-----------------------------------------------------------------------------
(* Safety: a worker that nobody has told to stop is the one the supervisor  *)
(* knows, or a stop request holds it and is about to tell it: no thread     *)
(* reads the stream and reports for ever out of reach of stop().             *)
NoOrphan ==
    \A w \in Workers :
        Alive(w) /\ ~worker[w].stopped =>
            \/ registered = w
            \/ \E r \in Requests : request[r].at = "pop" /\ request[r].worker = w

(* Liveness: once the board's worker stays the same, alive, and the stream   *)
(* stays up, the panel ends showing that worker's reports and no others,     *)
(* whatever the workers before it were doing when they were told to stop and *)
(* whichever of their reports came late.                                     *)
Runs(c) ==
    registered # None /\ stream
        /\ Alive(registered) /\ worker[registered].capability = c /\ ~worker[registered].stopped
ShowsWhatRuns == \A c \in Capabilities : <>[]Runs(c) => <>[](latest = c)
=============================================================================
