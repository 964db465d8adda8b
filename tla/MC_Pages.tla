------------------------------- MODULE MC_Pages --------------------------------
(***************************************************************************)
(* What a pilot's page shows of a board: its video (VideoPlayer; two calls  *)
(* of connectStream under way, two clicks, one fault) and its position      *)
(* (LiveTelemetry, with two batches and queues of three messages).  "live": *)
(* two threads of the server, for which three streams compete, two of them  *)
(* broken.  "busy": three threads and one stream, so that two publishers    *)
(* run at once beside it.  A behaviour follows one of them ("part").        *)
(***************************************************************************)
EXTENDS VideoPlayer

VARIABLES part,
    pool, awaited, made, lates, postAt, todo, rows, subs, queue, stream, item, conn, got,
    tried, raced, overlapped

Live == INSTANCE LiveTelemetry WITH
    Threads <- 2, QueueMax <- 3, HistoryMax <- 1, MaxPosts <- 2, MaxLate <- 1, MaxStreams <- 3,
    at <- postAt
Busy == INSTANCE LiveTelemetry WITH
    Threads <- 3, QueueMax <- 3, HistoryMax <- 1, MaxPosts <- 2, MaxLate <- 1, MaxStreams <- 1,
    at <- postAt

live == <<pool, awaited, made, lates, postAt, todo, rows, subs, queue, stream, item, conn,
          got, tried, raced, overlapped>>

\* The second and the third stream are not used by "busy".
PartsInit ==
    /\ Init /\ Live!Init /\ part \in {"player", "live", "busy"}

PartsNext ==
    \/ part = "player" /\ Next /\ UNCHANGED <<live, part>>
    \/ part = "live" /\ Live!Next /\ UNCHANGED <<vars, part>>
    \/ part = "busy" /\ Busy!Next /\ UNCHANGED <<vars, part>>

PartsSpec == PartsInit /\ [][PartsNext]_<<vars, live, part>>

(* What a part must do in the end, it does when it is scheduled fairly. *)

\* A camera that stays published is seen in the end; one that records is not.
PlayerReturns == part = "player" /\ Fairness => PictureReturns /\ RecordingIsBlocked

\* The server serves what boards post, whatever streams are broken; a page ends with the
\* last position, also of two publishers at once.
LiveServesAndShows ==
    /\ part = "live" /\ Live!Fairness => Live!ServesIngest /\ Live!ShowsLast
    /\ part = "busy" /\ Busy!Fairness => Busy!ServesIngest /\ Busy!ShowsLast
=============================================================================
