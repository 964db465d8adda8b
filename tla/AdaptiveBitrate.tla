--------------------------- MODULE AdaptiveBitrate ---------------------------
(***************************************************************************)
(* The controller of the encoder's bitrate                                  *)
(* (video_module/capture_relay/adaptive_bitrate.py), closed over the link   *)
(* it sends into: four times a second it reads the round trip, the packets  *)
(* sent and those lost, and sets the bitrate of the next quarter.           *)
(*                                                                          *)
(* The link is the bottleneck of the code's own tests: a buffer before a    *)
(* capacity, which drops what does not fit, and on a satellite link a gap   *)
(* every 15 s.  The capacity may change, and packets may be lost at random, *)
(* a bounded number of times.                                               *)
(*                                                                          *)
(* Rates are whole kbit/s as in the code; times are milliseconds and shares *)
(* thousandths, where the code has floating point.                          *)
(***************************************************************************)
EXTENDS Integers, Sequences, FiniteSetsExt

CONSTANTS
    Target,          \* target_kbps
    Floor,           \* min_kbps
    BaseWindow,      \* base_rtt_window_s, in ticks
    Capacities,      \* of the link, in kbit/s
    Lines,           \* kinds of link: round trip and buffer in ms, and whether it
                     \* has a satellite's gaps
    Cycle, GapAt,    \* length of the satellite's cycle and its gap, in ticks
    Step,            \* bound: the link changes at every so many ticks
    MaxChanges,      \* bound: changes of the capacity
    MaxBursts        \* bound: ticks with random losses

(* min_kbps is no more than the target (adaptive_bitrate.py:97). *)
AdaptiveBitrateAssumption ==
    /\ Target \in Nat /\ Floor \in 0..Target
    /\ {BaseWindow, Cycle, Step} \subseteq Nat \ {0}
    /\ Capacities \subseteq Nat \ {0}
    /\ \A l \in Lines : l.rtt \in Nat \ {0} /\ l.buffer \in Nat
    /\ {MaxChanges, MaxBursts} \subseteq Nat

Interval == 250           \* interval_s
QueueDelay == 30          \* queue_delay_ms
StandingQueue == 15       \* standing_queue_ms
LossLow == 20             \* loss_low
LossHigh == 100           \* loss_high
HoldAfterDecrease == 500  \* hold_after_decrease_s
MaxHold == 3000           \* max_hold_s
SettleFor == 3000         \* settle_s
FastProbeAfter == 10000   \* fast_probe_after_s
Never == -1

VARIABLES
    kbps,       \* current_kbps
    rtts,       \* _rtts, a place for each tick of the window; 0 is none
    loss,       \* _loss, likewise: sent and lost of the last four ticks
    queue,      \* _prev_queue, in ms
    overuse,    \* _overuse_run
    lossOnly,   \* _loss_only_run
    high,       \* ticks the queue has been above QueueDelay (_queue_high_since)
    hold,       \* ms to _hold_until
    cut,        \* the last cut: ms until its effect shows and until its least
                \* pause is over, and the queue it met
    last,       \* the last overuse: ms since, and the capacity it showed
    line,       \* link: its kind
    backlog,    \* link: what waits in its buffer, in kbit/s times a tick
    capacity,   \* link: kbit/s
    phase,      \* ticks into the satellite's cycle
    calm,       \* history: ticks since the link last changed
    changes, bursts

controller == <<kbps, rtts, loss, queue, overuse, lossOnly, high, hold, cut, last>>
link == <<line, backlog, capacity, phase, calm, changes, bursts>>
vars == <<controller, link>>

Larger(a, b) == IF a > b THEN a ELSE b
Smaller(a, b) == IF a < b THEN a ELSE b
Sooner(ms) == Larger(0, ms - Interval)

NoLoss == [sent |-> 0, lost |-> 0]
CalmMax == 240   \* bound of the history: a minute

MaxRtt == line.rtt + line.buffer + 70

(* A measured round trip is never below the line's own, so the queue above the
   base is never negative and never longer than the buffer and the gap make it. *)
TypeOK ==
    /\ kbps \in Floor..Target
    /\ rtts \in [1..BaseWindow -> {0} \cup (line.rtt..MaxRtt)]
    /\ loss \in [1..4 -> [sent : 0..Target, lost : Nat]]
    /\ queue \in Never..line.buffer + 70 /\ overuse \in 0..2 /\ lossOnly \in 0..3
    /\ high \in 0..5 /\ hold \in 0..Larger(MaxHold, 2 * MaxRtt)
    /\ cut \in [shows : Nat, pause : Nat, queue : Never..line.buffer + 70]
    /\ last \in [ago : 0..FastProbeAfter + Interval, kbps : 0..Target]
    /\ line \in Lines /\ capacity \in Capacities
    /\ backlog \in Nat /\ backlog * Interval =< capacity * line.buffer
    /\ phase \in 0..Cycle - 1 /\ calm \in 0..CalmMax
    /\ changes \in 0..MaxChanges /\ bursts \in 0..MaxBursts

Init ==
    /\ kbps = Larger(Floor, Target \div 2)
    /\ rtts = [i \in 1..BaseWindow |-> 0] /\ loss = [i \in 1..4 |-> NoLoss]
    /\ queue = Never /\ overuse = 0 /\ lossOnly = 0 /\ high = 0 /\ hold = 0
    /\ cut = [shows |-> 0, pause |-> 0, queue |-> Never]
    /\ last = [ago |-> FastProbeAfter + Interval, kbps |-> 0]
    /\ line \in Lines /\ backlog = 0 /\ capacity \in Capacities
    /\ phase = 0 /\ calm = 0 /\ changes = 0 /\ bursts = 0

-----------------------------------------------------------------------------
(* What a tick measures *)

Known(window) == {window[i] : i \in 1..BaseWindow} \ {0}
Base(window) == IF Known(window) = {} THEN 0 ELSE Min(Known(window))

(* _loss_ratio, over the entries of the window from a place on *)
LossRatio(window, from) ==
    LET of(i) == IF i < from THEN NoLoss ELSE window[i]
        sent == of(1).sent + of(2).sent + of(3).sent + of(4).sent
        lost == of(1).lost + of(2).lost + of(3).lost + of(4).lost
    IN  IF sent = 0 THEN 0 ELSE Smaller(1000, (1000 * lost) \div sent)

(* Slip: the guard begins with the second tick of the gap. *)
SlipGuardActive == Base(rtts) >= 15 /\ phase * Interval > 12000 /\ phase * Interval < 13500

(* The satellite's gap falls between 11.8 s and 13.5 s of its cycle; base_rtt
   tells a satellite link (starlink_guard "auto", starlink_min_rtt_ms).       *)
GuardActive == Base(rtts) >= 15 /\ phase * Interval >= 11800 /\ phase * Interval < 13500

Signals(rtt, packets) ==
    LET window == Append(Tail(rtts), rtt)
        lossWindow == Append(Tail(loss), packets)
        q == rtt - Base(window)
        growth == IF queue = Never THEN 0 ELSE ((q - queue) * 1000) \div Interval
        share == LossRatio(lossWindow, 1)
        runs == IF q > QueueDelay /\ growth >= 0 THEN Smaller(overuse + 1, 2) ELSE 0
        recent == IF LossRatio(lossWindow, 3) > LossHigh /\ q < StandingQueue
                  THEN Smaller(lossOnly + 1, 3) ELSE 0
        draining == growth < 0 /\ q >= StandingQueue
    IN  [rtt |-> rtt, rtts |-> window, loss |-> lossWindow,
         queue |-> q, growth |-> growth, share |-> share,
         overuse |-> runs, lossOnly |-> recent,
         high |-> IF q > QueueDelay THEN Smaller(high + 1, 5) ELSE 0,
         delayOveruse |-> runs >= 2,
         lossOveruse |->
            \/ recent >= 3
            \/ share > LossHigh /\ q >= StandingQueue /\ ~draining
            \/ share >= LossLow /\ q >= StandingQueue /\ growth >= 0]

-----------------------------------------------------------------------------
(* What it decides *)

Set(rate) == kbps' = Larger(Floor, Smaller(Target, rate))

(* A cut starts its pause; a decision that is not a cut lets it run.  Times are
   kept as the next tick will find them.                                      *)
Pause(s, length) ==
    LET least == Larger(HoldAfterDecrease, 2 * s.rtt)
    IN  /\ cut' = [shows |-> s.rtt, pause |-> Sooner(least), queue |-> s.queue]
        /\ hold' = Sooner(Larger(least, length))
Overuse(estimate) == last' = [ago |-> Interval, kbps |-> estimate]
NoCut ==
    /\ cut' = [cut EXCEPT !.shows = Sooner(@), !.pause = Sooner(@)]
    /\ hold' = Sooner(hold)
    /\ last' = [last EXCEPT !.ago = Smaller(@ + Interval, FastProbeAfter + Interval)]

(* Slip: only losses count as overuse. *)
SlipOverused(s) == s.lossOveruse

Overused(s) == s.delayOveruse \/ s.lossOveruse
Standing(s) == s.high >= 5 /\ ~Overused(s) /\ hold = 0

(* The queue stands: drain it within about a second. *)
Drain(s) ==
    /\ Standing(s)
    /\ Set((kbps * Larger(500, Smaller(850, 1000 - s.queue))) \div 1000)
    /\ Pause(s, 0)
    /\ Overuse(kbps)
    /\ high' = 1
    /\ loss' = s.loss /\ overuse' = s.overuse

(* The pause after a cut is broken when it had no effect. *)
MayCut(s) ==
    \/ hold = 0
    \/ /\ cut.shows = 0
       /\ \/ cut.queue # Never /\ cut.pause = 0 /\ s.queue >= cut.queue - 10
          \/ s.growth > 50

(* The capacity, by the losses and by the growth of the queue. *)
Estimates(s) ==
    LET capped == Smaller(s.share, IF s.queue > QueueDelay THEN 500 ELSE 250)
    IN  (IF s.lossOveruse /\ s.share > 0 THEN {(kbps * (1000 - capped)) \div 1000} ELSE {})
        \cup (IF s.growth > 0 THEN {(kbps * 1000) \div (1000 + s.growth)} ELSE {})

CutBack(s) ==
    /\ ~Standing(s) /\ Overused(s) /\ MayCut(s)
    /\ LET estimate == IF Estimates(s) = {} THEN kbps ELSE Min(Estimates(s))
           rate == Larger((kbps * 30) \div 100, Smaller((kbps * 85) \div 100, (estimate * 85) \div 100))
       IN  /\ Set(rate)
           /\ Pause(s, IF estimate > kbps' /\ s.queue > 0
                       THEN Smaller(MaxHold, (s.queue * estimate) \div (estimate - kbps'))
                       ELSE 0)
           /\ Overuse(estimate)
    /\ loss' = [i \in 1..4 |-> NoLoss] /\ overuse' = 0
    /\ high' = s.high

(* Everything but a cut keeps what was measured. *)
Kept(s) == loss' = s.loss /\ overuse' = s.overuse /\ high' = s.high /\ NoCut

OveruseHeld(s) ==
    /\ ~Standing(s) /\ Overused(s) /\ ~MayCut(s)
    /\ UNCHANGED kbps /\ Kept(s)

Settled(s) == ~Standing(s) /\ ~Overused(s)

Hold(s) ==
    /\ Settled(s) /\ (hold > 0 \/ s.queue >= StandingQueue)
    /\ UNCHANGED kbps /\ Kept(s)

May(s) == Settled(s) /\ hold = 0 /\ s.queue < StandingQueue

(* 50 kbit/s a second *)
Additive == (4 * kbps + 50) \div 4

Lossy(s) ==
    /\ May(s) /\ s.share >= LossLow
    /\ Set(Additive) /\ Kept(s)

(* _increase: a quarter of a second at 1.25 or 1.08 a second *)
Increase(s) ==
    LET fast == \/ last.ago > FastProbeAfter
                \/ 2 * kbps < last.kbps
                \/ last.kbps > 0 /\ 10 * kbps > 11 * last.kbps
        near == 9 * last.kbps =< 10 * kbps /\ 10 * kbps =< 11 * last.kbps
    IN  /\ May(s) /\ s.share < LossLow
        /\ Kept(s)
        /\ CASE ~fast /\ near /\ last.ago < SettleFor -> UNCHANGED kbps
             [] ~fast /\ near /\ last.ago >= SettleFor -> Set(Additive)
             [] ~fast /\ ~near -> Set((kbps * 10194) \div 10000)
             [] OTHER -> Set((kbps * 10574) \div 10000)

(* In the satellite's gap nothing is measured and nothing decided. *)
Guarded ==
    /\ rtts' = Append(Tail(rtts), 0) /\ loss' = Append(Tail(loss), NoLoss)
    /\ queue' = Never /\ overuse' = 0
    /\ high' = IF high > 0 THEN Smaller(high + 1, 5) ELSE 0
    /\ NoCut
    /\ UNCHANGED <<kbps, lossOnly>>

Decide(s) ==
    /\ rtts' = s.rtts /\ queue' = s.queue /\ lossOnly' = s.lossOnly
    /\ Drain(s) \/ CutBack(s) \/ OveruseHeld(s) \/ Hold(s) \/ Lossy(s) \/ Increase(s)

-----------------------------------------------------------------------------
(* The link *)

InGap == line.gaps /\ phase = GapAt

(* A quarter of a second passes: what the buffer cannot hold is lost. *)
Tick(burst) ==
    LET waiting == Larger(0, backlog + kbps - capacity')
        room == (capacity' * line.buffer) \div Interval
        gap == IF InGap THEN [ms |-> 70, lost |-> (kbps * 2) \div 5] ELSE [ms |-> 0, lost |-> 0]
        lost == Larger(0, waiting - room) + gap.lost + burst
    IN  /\ backlog' = Smaller(waiting, room)
        /\ phase' = (phase + 1) % Cycle
        /\ IF GuardActive THEN Guarded
           ELSE \E s \in {Signals(line.rtt + (backlog' * Interval) \div capacity' + gap.ms,
                                  [sent |-> kbps, lost |-> lost])} : Decide(s)

Steady ==
    /\ UNCHANGED <<line, capacity, changes, bursts>> /\ calm' = Smaller(calm + 1, CalmMax)
    /\ Tick(0)

Change(to) ==
    /\ changes < MaxChanges /\ changes' = changes + 1 /\ phase % Step = 0
    /\ to # capacity /\ capacity' = to /\ calm' = 0 /\ UNCHANGED <<line, bursts>>
    /\ Tick(0)

(* Random losses: a few packets, or most of a quarter. *)
Burst(thousandths) ==
    /\ bursts < MaxBursts /\ bursts' = bursts + 1 /\ phase % Step = 0
    /\ calm' = 0 /\ UNCHANGED <<line, capacity, changes>>
    /\ Tick((kbps * thousandths) \div 1000)

Next ==
    \/ Steady
    \/ \E to \in Capacities : Change(to)
    \/ \E thousandths \in {30, 600} : Burst(thousandths)

(* The main loop's timer goes on (GLib.timeout_add). *)
Fairness == WF_vars(Next)

Spec == Init /\ [][Next]_vars /\ Fairness

-----------------------------------------------------------------------------
(***************************************************************************)
(* Fifteen seconds after the link last changed the bitrate uses most of     *)
(* what the link carries, and after thirty on an ample link it is the       *)
(* target, and stays there: neither a cut that went too deep, nor random    *)
(* losses, nor the satellite's gaps keep it down                            *)
(* (adaptive_bitrate.py:43-50, test_adaptive_bitrate.py:75, :104 and :175). *)
(***************************************************************************)
FollowsLink ==
    /\ calm >= 60 => 10 * kbps >= Smaller(10 * Target, 6 * capacity)
    /\ calm >= 120 /\ capacity >= 2 * Target => kbps = Target

(***************************************************************************)
(* From the same moment on no more than 200 ms wait in the link's buffer,   *)
(* also while the satellite's gap hides the queue from the controller and   *)
(* while it probes: what the buffer could not hold would be lost            *)
(* (adaptive_bitrate.py:26-39).                                            *)
(***************************************************************************)
ShortQueue == calm >= 60 /\ capacity >= Floor => backlog * Interval =< capacity * 200

(***************************************************************************)
(* What moves the bitrate: it rises only when no queue stands and no pause  *)
(* runs, it falls only for a queue or for losses that last, never below 30% *)
(* of itself and never before the last cut could show its effect, and in    *)
(* the satellite's gap it does not move (adaptive_bitrate.py:13-44).        *)
(***************************************************************************)
MovesForAReason ==
    /\ kbps' > kbps => hold = 0 /\ queue' \in 0..StandingQueue - 1
    /\ kbps' < kbps => /\ queue' >= StandingQueue \/ lossOnly' >= 3
                       /\ kbps' >= (kbps * 30) \div 100
                       /\ hold = 0 \/ cut.shows = 0
    /\ GuardActive => kbps' = kbps
=============================================================================
