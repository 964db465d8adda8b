----------------------------- MODULE FireDevice ------------------------------
(***************************************************************************)
(* fire_device_status_daemon.py: a device sends frames of four bytes over a *)
(* serial line, the daemon looks for the header, reads three bytes more,    *)
(* checks the CRC and shows the status over MAVLink. Bytes are lost and     *)
(* damaged on the line, and the daemon may start in the middle of a frame.  *)
(***************************************************************************)
EXTENDS Naturals, Sequences, Crc

CONSTANTS
    Statuses,    \* pairs of a state byte (bit 7: the external connection) and an error byte
    Bits,        \* bits of a byte that may be damaged, as numbers
    None,
    MaxLine,     \* bound: bytes the daemon has not read yet
    MaxChanges,  \* bound: changes of the device's status
    MaxLost, MaxDamaged, MaxRestarts  \* bounds of the faults

VARIABLES
    full,     \* the firmware's CRC covers state and error, as documented; else the state only
    status,   \* <<state, error>> of the device
    frame,    \* what the device has yet to send of a frame
    line,     \* bytes on the way and in the port's buffer
    payload,  \* what uart.read(3) has so far; None: the daemon looks for a header
    shown,    \* last_status, published
    been,     \* history: states the device has been in
    changes, lost, damaged, restarts

device == <<full, status, frame, been, changes>>
daemon == <<payload, shown>>
faults == <<lost, damaged, restarts>>
vars == <<device, line, daemon, faults>>

HEADER == 255

\* STATE_NAMES and ERROR_NAMES: the statuses the protocol has.
Documented ==
    {<<state + 128 * external, error>> :
        state \in 0..9, external \in 0..1, error \in (0..14) \cup (20..22)}

FireDeviceAssumption ==
    /\ Statuses \subseteq Documented
    /\ Bits \subseteq {1, 2, 4, 8, 16, 32, 64, 128}
    /\ {MaxLine, MaxChanges, MaxLost, MaxDamaged, MaxRestarts} \subseteq Nat

TypeOK ==
    /\ full \in BOOLEAN
    /\ status \in Statuses
    /\ frame \in Seq(Byte) /\ line \in Seq(Byte) /\ Len(line) <= MaxLine
    /\ payload = None \/ (payload \in Seq(Byte) /\ Len(payload) < 3)
    /\ shown = None \/ shown \in [state_id : 0..127, error_id : Byte, external_ok : 0..1]
    /\ been \subseteq {s[1] : s \in Statuses}
    /\ changes \in 0..MaxChanges /\ lost \in 0..MaxLost
    /\ damaged \in 0..MaxDamaged /\ restarts \in 0..MaxRestarts

-----------------------------------------------------------------------------
CrcOfState(state) == Crc8[state]
CrcOfBoth(state, error) == Crc8[Xor(Crc8[state], error)]

Crcs(state, error) == {CrcOfState(state), CrcOfBoth(state, error)}
ValidCrc(state, error, crc) == crc \in Crcs(state, error)

\* A frame of the status has one header; and without its state byte it does not pass, with
\* the header of the next frame, for another.
Tells(state, error) ==
    /\ HEADER \notin {state, error} \cup Crcs(state, error)
    /\ \A crc \in Crcs(state, error) : ~ValidCrc(error, crc, HEADER)

StatusOf(state, error) ==
    [state_id |-> state % 128, error_id |-> error, external_ok |-> state \div 128]

Init ==
    /\ full \in BOOLEAN
    /\ status \in Statuses /\ been = {status[1]}
    /\ frame = <<>> /\ line = <<>>
    /\ payload = None /\ shown = None
    /\ changes = 0 /\ lost = 0 /\ damaged = 0 /\ restarts = 0

-----------------------------------------------------------------------------
(* The device and the line.                                                  *)

Change ==
    /\ changes < MaxChanges /\ changes' = changes + 1
    /\ status' \in Statuses \ {status}
    /\ been' = been \cup {status'[1]}
    /\ UNCHANGED <<full, frame, line, daemon, faults>>

\* Every 200 ms.
NewFrame ==
    /\ frame = <<>>
    /\ frame' = <<HEADER, status[1], status[2],
                  IF full THEN CrcOfBoth(status[1], status[2]) ELSE CrcOfState(status[1])>>
    /\ UNCHANGED <<full, status, been, changes, line, daemon, faults>>

Send ==
    /\ frame # <<>> /\ Len(line) < MaxLine
    /\ line' = Append(line, Head(frame)) /\ frame' = Tail(frame)
    /\ UNCHANGED <<full, status, been, changes, daemon, faults>>

Lose ==
    /\ frame # <<>> /\ lost < MaxLost /\ lost' = lost + 1
    /\ frame' = Tail(frame)
    /\ UNCHANGED <<full, status, been, changes, line, daemon, damaged, restarts>>

\* One bit of the byte arrives inverted.
Damage ==
    /\ frame # <<>> /\ damaged < MaxDamaged /\ damaged' = damaged + 1 /\ Len(line) < MaxLine
    /\ \E bit \in Bits : line' = Append(line, Xor(Head(frame), bit))
    /\ frame' = Tail(frame)
    /\ UNCHANGED <<full, status, been, changes, daemon, lost, restarts>>

-----------------------------------------------------------------------------
(* _read_status, one byte at a time.                                         *)

\* Slip: the first byte after a frame is taken for the next header, unread.
SlipReadHeader ==
    /\ payload = None /\ line # <<>>
    /\ payload' = <<>>
    /\ line' = Tail(line)
    /\ UNCHANGED <<device, shown, faults>>

ReadHeader ==
    /\ payload = None /\ line # <<>>
    /\ payload' = IF Head(line) = HEADER THEN <<>> ELSE None
    /\ line' = Tail(line)
    /\ UNCHANGED <<device, shown, faults>>

\* Slip: a wrong CRC is counted, and the frame is shown all the same.
SlipParseFrame(bytes) == StatusOf(bytes[1], bytes[2])

ParseFrame(bytes) ==
    IF ValidCrc(bytes[1], bytes[2], bytes[3]) THEN StatusOf(bytes[1], bytes[2]) ELSE None

\* _publish_if_due: the same status is published every 200 ms at most, another at once.
Publish(read) == IF read = None THEN shown ELSE read

ReadPayload ==
    /\ payload # None /\ line # <<>>
    /\ LET bytes == Append(payload, Head(line))
       IN  IF Len(bytes) < 3
             THEN payload' = bytes /\ UNCHANGED shown
             ELSE payload' = None /\ shown' = Publish(ParseFrame(bytes))
    /\ line' = Tail(line)
    /\ UNCHANGED <<device, faults>>

\* Half a second without the three bytes: what came of them is dropped.
Timeout ==
    /\ payload # None /\ line = <<>> /\ frame = <<>>
    /\ payload' = None
    /\ UNCHANGED <<device, line, shown, faults>>

Restart ==
    /\ restarts < MaxRestarts /\ restarts' = restarts + 1
    /\ payload' = None /\ shown' = None
    /\ UNCHANGED <<device, line, lost, damaged>>

Next ==
    \/ Change \/ NewFrame \/ Send \/ Lose \/ Damage
    \/ ReadHeader \/ ReadPayload \/ Timeout \/ Restart

\* The device keeps sending and the daemon keeps reading.
Fairness == WF_vars(NewFrame) /\ WF_vars(Send) /\ WF_vars(ReadHeader) /\ WF_vars(ReadPayload)

Spec == Init /\ [][Next]_vars /\ Fairness

-----------------------------------------------------------------------------
(* Safety: a byte lost on the line, wherever it falls in a frame, does not   *)
(* make the daemon show a state the device has not been in: the bytes of two *)
(* frames that run into one another do not pass for a third. (Two may: with  *)
(* the state byte 0 and the header after it lost, error, CRC and the next    *)
(* state byte 0 are a frame with a valid CRC.)                               *)
LossShowsNoFalseState ==
    damaged = 0 /\ lost <= 1 /\ shown # None =>
        \E s \in been : shown.state_id = s % 128 /\ shown.external_ok = s \div 128

(* Liveness: when the device's status rests and the line is quiet, the       *)
(* daemon ends showing that status, wherever in a frame it was left.         *)
Resyncs == <>[](shown = StatusOf(status[1], status[2]))
=============================================================================
