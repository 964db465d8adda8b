------------------------------ MODULE MC_Services ------------------------------
(***************************************************************************)
(* Services with a life cycle of their own: the update of a board            *)
(* (BoardUpdate; two threads of the server, one merge), the vision service   *)
(* (Vision; two capabilities, two Flask threads), the recording of video     *)
(* (Recorder; two boards, two threads, three recordings in two seconds) and *)
(* the units of a board (BoardManager; the video chain and the mesh, two    *)
(* requests at once).  A behaviour follows one of them ("part").            *)
(***************************************************************************)
EXTENDS MC_BoardUpdate

CONSTANTS classifier, detector, Capabilities, r1, r2, Requests, MaxWorkers, MaxVisionFaults,
    b1, b2, Boards, MaxSecond, MaxRecordings, MaxRecordFaults

TwoCapabilities == {classifier, detector}
TwoRequests == {r1, r2}
TwoBoards == {b1, b2}

VARIABLES part, worker, registered, request, lock, stream, late, latest, started, visionFaults,
    entry, recording, recordLock, recordRequest, files, owed, second, recorded, recordFaults,
    units, again, root, calls, steps, bad, off, skipped, ended, asked, unitFaults

Vis == INSTANCE Vision WITH MaxFaults <- MaxVisionFaults, faults <- visionFaults

vision == <<worker, registered, request, lock, stream, late, latest, started, visionFaults>>

Rec == INSTANCE Recorder WITH
    MaxFaults <- MaxRecordFaults,
    lock <- recordLock, request <- recordRequest, started <- recorded, faults <- recordFaults

records == <<entry, recording, recordLock, recordRequest, files, owed, second, recorded,
             recordFaults>>

Board == INSTANCE BoardManager WITH
    Names <- {"video_manager", "video_relay", "srt_relay_capture", "mesh"}, Threads <- {1, 2},
    Boot <- 0, MaxRequests <- 2, MaxFaults <- 1, requests <- asked, faults <- unitFaults,
    unit <- units, manager <- root, cut <- ended

ASSUME ServicesBounds == Vis!VisionAssumption /\ Rec!RecorderAssumption

unitsPart == <<units, again, root, calls, steps, bad, off, skipped, ended, asked, unitFaults>>

PartsInit ==
    /\ Init /\ Vis!Init /\ Rec!Init /\ Board!Init
    /\ part \in {"update", "vision", "recorder", "units"}

PartsNext ==
    \/ part = "update" /\ Next /\ UNCHANGED <<vision, records, unitsPart, part>>
    \/ part = "vision" /\ Vis!Next /\ UNCHANGED <<vars, records, unitsPart, part>>
    \/ part = "recorder" /\ Rec!Next /\ UNCHANGED <<vars, vision, unitsPart, part>>
    \/ part = "units" /\ Board!Next /\ UNCHANGED <<vars, vision, records, part>>

PartsSpec == PartsInit /\ [][PartsNext]_<<vars, vision, records, unitsPart, part>>

(* A part that does not run keeps its initial state, where its invariants hold; *)
(* what a part must do in the end, it does when it is scheduled fairly.          *)

\* No vision worker reports for ever, and no ffmpeg records, out of reach of stop().
NoOrphan == Vis!NoOrphan /\ Rec!NoStrayRecording

\* A recording that has begun keeps its file, but for another of its name.
RecordingsAreKept == Rec!RecordingsAreKept

\* The server learns the version a board that is up runs.
UpdateVersionIsReported == part = "update" /\ Fairness => VersionIsReported

\* The page ends showing the capability that runs.
VisionShowsWhatRuns == part = "vision" /\ Vis!Fairness => Vis!ShowsWhatRuns

\* A board's services end running, but those that were stopped, skipped or cut off.
UnitsStayUp == part = "units" /\ Board!Fairness => Board!StaysUp
=============================================================================
