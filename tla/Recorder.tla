------------------------------- MODULE Recorder -------------------------------
(***************************************************************************)
(* recording_service on the admin server: one ffmpeg per board copies its    *)
(* stream into a file, started and stopped by the page's button from any     *)
(* HTTP thread. A file is named after the stream's directory and the second  *)
(* of its start.                                                             *)
(***************************************************************************)
EXTENDS Naturals, FiniteSets

CONSTANTS
    Boards,         \* a board's own stream has the board's name
    Requests,       \* HTTP threads
    None,
    MaxSecond,      \* bound: seconds
    MaxRecordings,  \* bound: ffmpeg processes ever started
    MaxFaults       \* bound: ffmpegs that fail to connect or die, restarts, deletions

RecorderAssumption ==
    /\ None \notin Nat \cup Boards \cup Requests
    /\ {MaxSecond, MaxRecordings, MaxFaults} \subseteq Nat

VARIABLES
    entry,      \* _active[device_id], a recording or None
    recording,  \* each ffmpeg: its board, its file, where the process is
    lock,       \* the thread that holds _lock while it sleeps, or None
    request,    \* each thread: what it does and to which recording
    files,      \* the mp4 files there are
    owed,       \* history: recordings begun that no failed start and no deletion took back
    second, started, faults

vars == <<entry, recording, lock, request, files, owed, second, started, faults>>

Recordings == 1..MaxRecordings
Streams == Boards
Files == Streams \X (0..MaxSecond)
Fresh == [board |-> None, file |-> <<None, 0>>, process |-> "none"]
Idle == [at |-> "idle", recording |-> None]

Runs(r) == recording[r].process = "runs"
Active(b) == entry[b] # None /\ Runs(entry[b])

TypeOK ==
    /\ entry \in [Boards -> Recordings \cup {None}]
    /\ recording \in [Recordings -> [board : Boards \cup {None}, file : Files \cup {<<None, 0>>},
                                     process : {"none", "runs", "ended"}]]
    /\ lock \in Requests \cup {None}
    /\ request \in [Requests -> [at : {"idle", "settle", "end"}, recording : Recordings \cup {None}]]
    /\ files \subseteq Files /\ owed \subseteq Recordings
    /\ second \in 0..MaxSecond /\ started \in 0..MaxRecordings /\ faults \in 0..MaxFaults

Init ==
    /\ entry = [b \in Boards |-> None]
    /\ recording = [r \in Recordings |-> Fresh]
    /\ lock = None /\ request = [t \in Requests |-> Idle]
    /\ files = {} /\ owed = {}
    /\ second = 0 /\ started = 0 /\ faults = 0

Fault == faults < MaxFaults /\ faults' = faults + 1
Free(t) == request[t] = Idle /\ lock = None

-----------------------------------------------------------------------------
(* start: under the lock, its 0.8 s of waiting included. *)

\* video_service: the board's stream or, when it is not published, the only one that is.
StreamName(b, published) ==
    IF b \notin published /\ Cardinality(published) = 1 THEN CHOOSE s \in published : TRUE ELSE b

\* ffmpeg does not overwrite a file (-nostdin without -y): it ends at once.
Start(t, b) ==
    /\ Free(t) /\ ~Active(b)
    /\ started < MaxRecordings /\ started' = started + 1
    /\ \E published \in SUBSET Streams :
         LET file == <<StreamName(b, published), second>> IN
         \/ /\ file \notin files /\ files' = files \cup {file}
            /\ recording' = [recording EXCEPT ![started'] =
                                 [board |-> b, file |-> file, process |-> "runs"]]
            /\ owed' = owed \cup {started'}
            /\ UNCHANGED faults
         \/ /\ recording' = [recording EXCEPT ![started'] =
                                 [board |-> b, file |-> file, process |-> "ended"]]
            /\ (file \in files /\ UNCHANGED faults) \/ Fault
            /\ UNCHANGED <<files, owed>>
    /\ lock' = t
    /\ request' = [request EXCEPT ![t] = [at |-> "settle", recording |-> started']]
    /\ UNCHANGED <<entry, second>>

\* The file of a start that failed is removed, whoever wrote it.
StartFails(t) ==
    LET r == request[t].recording IN
    /\ request[t].at = "settle" /\ ~Runs(r)
    /\ files' = files \ {recording[r].file} /\ owed' = owed \ {r}
    /\ lock' = None /\ request' = [request EXCEPT ![t] = Idle]
    /\ UNCHANGED <<entry, recording, second, started, faults>>

Started(t) ==
    LET r == request[t].recording IN
    /\ request[t].at = "settle" /\ Runs(r)
    /\ entry' = [entry EXCEPT ![recording[r].board] = r]
    /\ lock' = None /\ request' = [request EXCEPT ![t] = Idle]
    /\ UNCHANGED <<recording, files, owed, second, started, faults>>

-----------------------------------------------------------------------------
(* stop: takes the entry out under the lock, ends the process after it. *)

Stop(t, b) ==
    /\ Free(t) /\ entry[b] # None
    /\ entry' = [entry EXCEPT ![b] = None]
    /\ request' = [request EXCEPT ![t] = [at |-> "end", recording |-> entry[b]]]
    /\ UNCHANGED <<recording, lock, files, owed, second, started, faults>>

\* SIGTERM, after five seconds SIGKILL; then the log is removed.
Stopped(t) ==
    LET r == request[t].recording IN
    /\ request[t].at = "end"
    /\ recording' = [recording EXCEPT ![r].process = "ended"]
    /\ request' = [request EXCEPT ![t] = Idle]
    /\ UNCHANGED <<entry, lock, files, owed, second, started, faults>>

-----------------------------------------------------------------------------
(* status: forgets an ffmpeg that ended by itself. *)

\* Slip: the file is cleaned up with the log.
SlipStatus(t, b) ==
    /\ Free(t) /\ entry[b] # None /\ ~Runs(entry[b])
    /\ entry' = [entry EXCEPT ![b] = None]
    /\ files' = files \ {recording[entry[b]].file}
    /\ UNCHANGED <<recording, lock, request, owed, second, started, faults>>

Status(t, b) ==
    /\ Free(t) /\ entry[b] # None /\ ~Runs(entry[b])
    /\ entry' = [entry EXCEPT ![b] = None]
    /\ UNCHANGED <<recording, lock, request, files, owed, second, started, faults>>

-----------------------------------------------------------------------------
(* What happens around it. *)

\* The stream breaks off.
Dies(r) ==
    /\ Runs(r) /\ Fault
    /\ recording' = [recording EXCEPT ![r].process = "ended"]
    /\ UNCHANGED <<entry, lock, request, files, owed, second, started>>

\* device_service.delete_device removes the directory of the board's own stream; nobody
\* stops the recording.
DeleteBoard(b) ==
    /\ Fault
    /\ files' = {f \in files : f[1] # b}
    /\ owed' = {r \in owed : recording[r].file[1] # b}
    /\ UNCHANGED <<entry, recording, lock, request, second, started>>

\* The service is restarted, and systemd ends its ffmpegs with it.
Restart ==
    /\ Fault
    /\ entry' = [b \in Boards |-> None]
    /\ recording' = [r \in Recordings |->
                        IF Runs(r) THEN [recording[r] EXCEPT !.process = "ended"] ELSE recording[r]]
    /\ lock' = None /\ request' = [t \in Requests |-> Idle]
    /\ UNCHANGED <<files, owed, second, started>>

Tick ==
    /\ second < MaxSecond /\ second' = second + 1
    /\ UNCHANGED <<entry, recording, lock, request, files, owed, started, faults>>

Next ==
    \/ \E t \in Requests : \/ StartFails(t) \/ Started(t) \/ Stopped(t)
                           \/ \E b \in Boards : Start(t, b) \/ Stop(t, b) \/ Status(t, b)
    \/ \E r \in Recordings : Dies(r)
    \/ \E b \in Boards : DeleteBoard(b)
    \/ Restart \/ Tick

Spec == Init /\ [][Next]_vars

-----------------------------------------------------------------------------
\* Two recordings of one second in one directory have one name.
Clash(r) == \E q \in Recordings : q # r /\ recording[q].file = recording[r].file

\* A recording that has begun keeps its file, whatever is started, stopped,
\* asked about or breaks off meanwhile; but for a second start with its name, which fails
\* and removes it.
RecordingsAreKept == \A r \in owed : recording[r].file \in files \/ Clash(r)

\* An ffmpeg that runs can be stopped: it is its board's, or a request has it in hand.
NoStrayRecording ==
    \A r \in Recordings : Runs(r) => \/ entry[recording[r].board] = r
                                     \/ \E t \in Requests : request[t].recording = r
=============================================================================
