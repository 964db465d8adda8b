------------------------------ MODULE CrsfBridge ------------------------------
(***************************************************************************)
(* crsf_daemon and its CRSFBridge: one thread that reads sticks and mode    *)
(* commands from UDP and writes RC frames to the flight controller's UART.  *)
(*                                                                          *)
(* Time is counted in ticks (a quarter of a second stands behind the values *)
(* of the .cfg).  The loop runs at 150 Hz, so a tick does not pass before a *)
(* running bridge has reached the end of a pass.                            *)
(***************************************************************************)
EXTENDS Naturals, Sequences

CONSTANTS
    DefaultMode,     \* SIRENA_CONTROL_MODE
    FailsafeTimeout, \* CRSF_FAILSAFE_TIMEOUT_SEC, in ticks
    ReopenSleep,     \* time.sleep(1.0) of _reconnect_uart, in ticks
    ConnectRetry,    \* CONNECT_RETRY, in ticks
    MaxArrivals,     \* bound: datagrams that arrive within one tick
    MaxQueue,        \* bound: datagrams the socket holds, further ones are dropped
    MaxFaults        \* bound: faults of the port and stops of the process

Modes == {"mavlink", "crsf"}

ASSUME BridgeAssumption ==
    /\ DefaultMode \in Modes
    /\ {FailsafeTimeout, ReopenSleep, ConnectRetry} \subseteq Nat \ {0}
    /\ {MaxArrivals, MaxQueue, MaxFaults} \subseteq Nat

VARIABLES
    port,      \* the UART exists: it can be opened
    proc,      \* where the process is: "off", "connect", "run", "asleep" in
               \* _reconnect_uart, "retry" in the daemon's sleep
    left,      \* ticks left of a sleep
    mode,      \* self.mode
    ser,       \* self.ser: "none", or an open handle that works or not
    queue,     \* datagrams in the socket, each with its age
    channels,  \* age of the sticks in self.channels, since they reached the board
    fresh,     \* ticks since _last_packet_ts
    failsafe,  \* self._in_failsafe
    frame,     \* history: the last frame written and the age of its sticks then
    passed,    \* a pass has ended since the last tick
    sent,      \* a frame was written since the last tick
    arrived,   \* datagrams that arrived since the last tick
    faults

socket == <<queue, arrived>>
fields == <<mode, ser, channels, fresh, failsafe>>
clock == <<left, passed, sent>>
vars == <<port, proc, socket, fields, frame, clock, faults>>

Oldest == FailsafeTimeout + ReopenSleep + 1     \* ages are counted up to here
Ages == 0..Oldest
Older(n) == IF n < Oldest THEN n + 1 ELSE n

NoFrame == [live |-> FALSE, age |-> 0]

Init ==
    /\ port \in BOOLEAN
    /\ proc = "connect"
    /\ queue = <<>> /\ arrived = 0
    /\ mode = DefaultMode /\ ser = "none"
    /\ channels = Oldest /\ fresh = Oldest /\ failsafe = TRUE
    /\ frame = NoFrame
    /\ left = 0 /\ passed = FALSE /\ sent = FALSE
    /\ faults = 0

-----------------------------------------------------------------------------
(* The surroundings: the pilot's program, the port, systemd. *)

Listening == proc \in {"run", "asleep"}

\* A datagram reaches the board; a closed or full socket drops it.
Arrive ==
    /\ arrived < MaxArrivals
    /\ Listening /\ Len(queue) < MaxQueue
    /\ \E kind \in {"sticks", "other"} \cup Modes :
        queue' = Append(queue, [kind |-> kind, age |-> 0])
    /\ arrived' = arrived + 1
    /\ UNCHANGED <<port, proc, fields, frame, clock, faults>>

\* The device node goes away, and with it the handle, or comes back: a handle
\* that is still open stays useless.
PortFlips ==
    /\ faults < MaxFaults
    /\ port' = ~port
    /\ ser' = IF ser = "none" THEN ser ELSE "broken"
    /\ faults' = faults + 1
    /\ UNCHANGED <<proc, socket, mode, channels, fresh, failsafe, frame, clock>>

\* The handle fails though the device can be opened anew.
WriteBreaks ==
    /\ faults < MaxFaults /\ ser = "works"
    /\ ser' = "broken"
    /\ faults' = faults + 1
    /\ UNCHANGED <<port, proc, socket, mode, channels, fresh, failsafe, frame, clock>>

\* SIGTERM (stop, disconnect, exit) or a crash: descriptors close either way.
Stop ==
    /\ faults < MaxFaults /\ proc # "off"
    /\ proc' = "off"
    /\ ser' = "none" /\ queue' = <<>>
    /\ left' = 0 /\ passed' = FALSE
    /\ faults' = faults + 1
    /\ UNCHANGED <<port, arrived, mode, channels, fresh, failsafe, frame, sent>>

Start ==
    /\ proc = "off"
    /\ proc' = "connect"
    /\ mode' = DefaultMode /\ failsafe' = TRUE
    /\ channels' = Oldest /\ fresh' = Oldest
    /\ UNCHANGED <<port, ser, socket, frame, clock, faults>>

-----------------------------------------------------------------------------
(* The bridge. *)

\* The daemon's `except Exception`: disconnect, then wait.  Mode, sticks and
\* the failsafe flag survive in the object.
Abort ==
    /\ proc' = "retry" /\ left' = ConnectRetry
    /\ ser' = "none" /\ queue' = <<>>

\* Slip: the UART is opened whatever the mode.
ConnectAlways ==
    /\ proc = "connect"
    /\ IF port
       THEN ser' = "works" /\ proc' = "run" /\ UNCHANGED <<queue, left>>
       ELSE Abort
    /\ UNCHANGED <<port, arrived, mode, channels, fresh, failsafe, frame, passed, sent, faults>>

\* connect(), with _ensure_serial in CRSF mode; run() follows.
Connect ==
    /\ proc = "connect"
    /\ IF mode = "crsf" /\ ~port
       THEN Abort
       ELSE /\ ser' = IF mode = "crsf" THEN "works" ELSE "none"
            /\ proc' = "run"
            /\ UNCHANGED <<queue, left>>
    /\ UNCHANGED <<port, arrived, mode, channels, fresh, failsafe, frame, passed, sent, faults>>

\* Slip: the daemon gives up at the first error.
WakeOfBridgeOnly ==
    /\ proc = "asleep" /\ left = 0
    /\ proc' = "run"
    /\ UNCHANGED <<port, socket, fields, frame, clock, faults>>

\* The daemon's sleep, or the one in _reconnect_uart, is over.
Wake ==
    /\ proc \in {"retry", "asleep"} /\ left = 0
    /\ proc' = IF proc = "retry" THEN "connect" ELSE "run"
    /\ UNCHANGED <<port, socket, fields, frame, clock, faults>>

Take(kinds) ==
    /\ proc = "run" /\ queue # <<>>
    /\ Head(queue).kind \in kinds

\* A datagram of 32 bytes: clamped, and stamped with the time it is read.
TakeSticks ==
    /\ Take({"sticks"})
    /\ queue' = Tail(queue)
    /\ channels' = Head(queue).age
    /\ fresh' = 0
    /\ UNCHANGED <<port, proc, arrived, mode, ser, failsafe, frame, clock, faults>>

\* Neither sticks nor a command, an unknown mode, or the present one.
TakeIgnored ==
    /\ Take({"other", mode})
    /\ queue' = Tail(queue)
    /\ UNCHANGED <<port, proc, arrived, fields, frame, clock, faults>>

\* _set_mode; an UART that cannot be opened raises, in the new mode already.
TakeCrsf ==
    /\ Take({"crsf"}) /\ mode # "crsf"
    /\ mode' = "crsf"
    /\ failsafe' = TRUE
    /\ IF port
       THEN ser' = "works" /\ queue' = Tail(queue) /\ UNCHANGED <<proc, left>>
       ELSE Abort
    /\ UNCHANGED <<port, arrived, channels, fresh, frame, passed, sent, faults>>

TakeMavlink ==
    /\ Take({"mavlink"}) /\ mode # "mavlink"
    /\ mode' = "mavlink"
    /\ ser' = "none"
    /\ queue' = Tail(queue)
    /\ UNCHANGED <<port, proc, arrived, channels, fresh, failsafe, frame, clock, faults>>

LinkAlive == fresh <= FailsafeTimeout

\* Slip: once lifted, the failsafe is not entered again.
FailsafeOnceOnly == failsafe /\ ~LinkAlive

\* _update_failsafe, before every frame.
InFailsafe == ~LinkAlive

\* The socket is empty and next_send is due.  A failing write closes the
\* handle, tries to open another one at once, and sleeps if there is none.
Pass ==
    /\ proc = "run" /\ queue = <<>>
    /\ passed' = TRUE
    /\ IF mode = "crsf" /\ ser # "none"
       THEN LET lost == InFailsafe IN
            /\ failsafe' = lost
            /\ \/ /\ ser = "works"
                  /\ frame' = [live |-> ~lost, age |-> IF lost THEN 0 ELSE channels]
                  /\ sent' = TRUE
                  /\ UNCHANGED <<ser, proc, left>>
               \/ /\ ser = "broken" /\ port
                  /\ ser' = "works"
                  /\ UNCHANGED <<frame, sent, proc, left>>
               \/ /\ ser = "broken" /\ ~port
                  /\ ser' = "none"
                  /\ proc' = "asleep" /\ left' = ReopenSleep
                  /\ UNCHANGED <<frame, sent>>
       ELSE UNCHANGED <<failsafe, ser, frame, sent, proc, left>>
    /\ UNCHANGED <<port, socket, mode, channels, fresh, faults>>

Tick ==
    /\ \/ proc = "run" /\ passed
       \/ proc \in {"retry", "asleep"} /\ left > 0
       \/ proc = "off"
    /\ left' = IF left > 0 THEN left - 1 ELSE 0
    /\ queue' = [i \in DOMAIN queue |-> [queue[i] EXCEPT !.age = Older(@)]]
    /\ channels' = Older(channels)
    /\ fresh' = Older(fresh)
    /\ passed' = FALSE /\ sent' = FALSE /\ arrived' = 0
    /\ UNCHANGED <<port, proc, mode, ser, failsafe, frame, faults>>

-----------------------------------------------------------------------------
Bridge == Connect \/ Wake \/ TakeSticks \/ TakeIgnored \/ TakeCrsf \/ TakeMavlink \/ Pass
Next == Arrive \/ PortFlips \/ WriteBreaks \/ Stop \/ Start \/ Bridge \/ Tick

\* The thread runs, the clock runs, and the unit is started again.
Fairness == WF_vars(Bridge) /\ WF_vars(Pass) /\ WF_vars(Tick) /\ WF_vars(Start)

Spec == Init /\ [][Next]_vars /\ Fairness

-----------------------------------------------------------------------------
(* Properties. *)

Datagrams == [kind : {"sticks", "other"} \cup Modes, age : Ages]
TypeOK ==
    /\ port \in BOOLEAN /\ failsafe \in BOOLEAN /\ passed \in BOOLEAN /\ sent \in BOOLEAN
    /\ proc \in {"off", "connect", "run", "asleep", "retry"}
    /\ left \in 0..(ReopenSleep + ConnectRetry)
    /\ mode \in Modes /\ ser \in {"none", "works", "broken"}
    /\ queue \in Seq(Datagrams) /\ Len(queue) <= MaxQueue
    /\ channels \in Ages /\ fresh \in Ages
    /\ frame \in [live : BOOLEAN, age : Ages]
    /\ arrived \in 0..MaxArrivals /\ faults \in 0..MaxFaults

\* The flag of the mode governs who owns the port: outside CRSF mode the bridge
\* holds no handle, through failed openings, reconnections and the daemon's
\* retries, which keep the mode of before.
PortOnlyInCrsf == mode = "mavlink" => ser = "none"

\* No frame carries sticks older than the failsafe timeout and the one sleep
\* during which datagrams wait in the socket unread: they are stamped with
\* the time of reading, so what waited counts as fresh.
SticksAreRecent == frame.live => frame.age <= FailsafeTimeout + ReopenSleep

\* With the sticks gone frames keep coming, so that the flight controller does
\* not fall into a failsafe of its own: once the mode is CRSF and the port is
\* there for good, frames are written again and again, unless a reopening has
\* failed and nobody has switched the mode since.
Stuck == proc = "run" /\ ser = "none"
KeepsSending ==
    <>[](mode = "crsf" /\ port) => ([]<>sent \/ <>[]Stuck)

\* The bridge reconnects the UART after an input or output error: with the port
\* there for good and the mode CRSF, frames are written again and again.
Reconnects == <>[](mode = "crsf" /\ port) => []<>sent
=============================================================================
