------------------------------ MODULE LinksProofs ------------------------------
(***************************************************************************)
(* A board that saw its dish jump does not send the dish's positions until  *)
(* the block is over, for every block, poll and deadline.  What the choice  *)
(* reads is the verdict, so the invariant ties the verdict to the time      *)
(* since the jump: as long as that is short of the block, the remaining     *)
(* block makes up the difference and the dish is not stable.                *)
(***************************************************************************)
EXTENDS MC_Links, Sequences, SequenceTheorems, WellFoundedInduction, TLAPS

BlockCoversCalm ==
    calm < SpoofBlock => spoofed /\ ~stable /\ block = SpoofBlock - calm

NapLasts == worker = "nap" => nap > 0

IInv == TypeOK /\ BlockCoversCalm /\ NapLasts

LEMMA ConstantsAreNumbers ==
    ASSUME GpsHubAssumption
    PROVE  /\ Oldest \in Nat /\ Longest \in Nat /\ ErrorPause \in Nat \ {0}
           /\ Allowed(MaxFaults) \in Nat
           /\ FailThreshold \in Nat \ {0} /\ SpoofBlock \in Nat \ {0}
           /\ {WarmUp, Forecast, ManualHold, MaxFaults, MaxCommands} \subseteq Nat
<1>1. /\ {Poll, Retry, Deadline, FailThreshold, ErrorPause, SpoofBlock} \subseteq Nat \ {0}
      /\ MaxFaults \in Nat
  BY DEF GpsHubAssumption
<1> DEFINE round == Poll + Deadline
           extra == Poll + Deadline + ErrorPause
<1>2. /\ round \in Nat /\ extra \in Nat /\ Longest \in Nat
      /\ FailThreshold \in Nat \ {0}
  BY <1>1 DEF Longest
<1> HIDE DEF round, extra
<1>3. FailThreshold * round \in Nat /\ MaxFaults * extra \in Nat
  BY <1>1, <1>2
<1>4. Allowed(MaxFaults) \in Nat
  BY <1>3 DEF Allowed, Oldest, round, extra
<1> QED
  BY <1>1, <1>2, <1>3, <1>4 DEF GpsHubAssumption, Oldest, round

(* A position of the dish is chosen only on a verdict that it is stable.     *)
LEMMA PositionIsStable ==
    ASSUME stable \in BOOLEAN, Choice = "position"
    PROVE  stable
<1>1. Effective = "position"
  BY DEF Choice
<1>2. mode # "BEITIAN" /\ ~(mode # "BEITIAN" /\ avail /\ ~stable)
  BY <1>1 DEF Effective
<1>3. avail
  BY <1>1, <1>2 DEF Effective
<1> QED
  BY <1>2, <1>3

LEMMA BlockingSuffices ==
    ASSUME IInv
    PROVE  JumpsAreBlocked
BY PositionIsStable DEF IInv, TypeOK, BlockCoversCalm, JumpsAreBlocked

LEMMA InitEstablishes ==
    ASSUME GpsHubAssumption, Init
    PROVE  IInv
<1>1. BlockCoversCalm
  BY ConstantsAreNumbers DEF Init, BlockCoversCalm
<1>2. /\ since \in 0..Longest /\ age \in 0..Allowed(MaxFaults) + 1 /\ nap \in 0..ErrorPause
      /\ missed \in 0..faults
      /\ fails \in 0..FailThreshold /\ window \in 0..WarmUp + 1
      /\ block \in 0..SpoofBlock /\ calm \in 0..SpoofBlock
      /\ ahead \in 0..Forecast /\ hold \in 0..ManualHold
      /\ faults \in 0..MaxFaults /\ commands \in 0..MaxCommands
  BY ConstantsAreNumbers DEF Init
<1>3. TypeOK /\ NapLasts
  BY <1>2 DEF Init, TypeOK, NapLasts
<1> QED
  BY <1>1, <1>3 DEF IInv

-----------------------------------------------------------------------------
(* Each verdict keeps the tie: a jump starts the count and the block anew,
   any other answer is still blocked while both run.                         *)
LEMMA JudgeKeepsTie ==
    ASSUME GpsHubAssumption, IInv, Judge
    PROVE  /\ calm' \in 0..SpoofBlock /\ block' \in 0..SpoofBlock
           /\ spoofed' \in BOOLEAN /\ stable' \in BOOLEAN
           /\ BlockCoversCalm'
<1>1. PICK jumped \in BOOLEAN :
        /\ calm' = IF jumped THEN 0 ELSE calm
        /\ block' = IF jumped THEN SpoofBlock ELSE block
        /\ spoofed' = (jumped \/ (spoofed /\ block > 0))
        /\ stable' = ~(jumped \/ (spoofed /\ block > 0))
  BY DEF Judge
<1>2. /\ SpoofBlock \in Nat \ {0}
      /\ calm \in 0..SpoofBlock /\ block \in 0..SpoofBlock
      /\ calm < SpoofBlock => spoofed /\ block = SpoofBlock - calm
  BY ConstantsAreNumbers DEF GpsHubAssumption, IInv, TypeOK, BlockCoversCalm
<1>3. CASE jumped
  <2>1. spoofed' /\ ~stable' /\ spoofed' \in BOOLEAN /\ stable' \in BOOLEAN
    BY <1>1, <1>3, Zenon
  <2>2. calm' = 0 /\ block' = SpoofBlock
    BY <1>1, <1>3
  <2> QED
    BY <1>2, <2>1, <2>2 DEF BlockCoversCalm
<1>4. CASE ~jumped
  <2>1. calm' = calm /\ block' = block
    BY <1>1, <1>4
  <2>2. spoofed' \in BOOLEAN /\ stable' \in BOOLEAN
    BY <1>1, Zenon
  <2>3. spoofed /\ block > 0 => spoofed' /\ ~stable'
    BY <1>1, Zenon
  <2> QED
    BY <1>2, <2>1, <2>2, <2>3 DEF BlockCoversCalm
<1> QED
  BY <1>3, <1>4

(* Time takes from the block what it adds to the time since the jump.        *)
LEMMA TickKeeps ==
    ASSUME GpsHubAssumption, IInv, Tick
    PROVE  IInv'
<1>1. /\ Allowed(MaxFaults) \in Nat /\ Longest \in Nat /\ ErrorPause \in Nat
      /\ SpoofBlock \in Nat \ {0} /\ Forecast \in Nat /\ ManualHold \in Nat
  BY ConstantsAreNumbers
<1>2. TypeOK'
  <2>1. worker' \in {"sleep", "look", "ask", "stored", "nap", "dead"}
    BY DEF Tick, IInv, TypeOK
  <2>2. since' \in 0..Longest /\ age' \in 0..Allowed(MaxFaults) + 1 /\ calm' \in 0..SpoofBlock
    BY <1>1 DEF Tick, IInv, TypeOK, Later
  <2>3. block' \in 0..SpoofBlock /\ ahead' \in 0..Forecast /\ hold' \in 0..ManualHold
    BY <1>1 DEF Tick, IInv, TypeOK, Sooner
  <2>4. nap' \in 0..ErrorPause
    BY <1>1 DEF Tick, IInv, TypeOK, NapLasts
  <2> QED
    BY <2>1, <2>2, <2>3, <2>4 DEF Tick, IInv, TypeOK
<1>3. BlockCoversCalm'
  BY <1>1 DEF Tick, IInv, TypeOK, BlockCoversCalm, Later, Sooner
<1>4. NapLasts'
  BY <1>1 DEF Tick, IInv, TypeOK, NapLasts
<1> QED
  BY <1>2, <1>3, <1>4 DEF IInv

(* The thread of the dish: a request, what it brings, and the verdict.       *)
LEMMA LookKeeps ==
    ASSUME GpsHubAssumption, IInv, Look
    PROVE  IInv'
<1>1. Longest \in Nat
  BY ConstantsAreNumbers
<1> QED
  BY <1>1 DEF Look, IInv, TypeOK, BlockCoversCalm, NapLasts, dish, verdict

LEMMA FailsKeeps ==
    ASSUME GpsHubAssumption, IInv, faults < MaxFaults, faults' = faults + 1,
           NEW a \in BOOLEAN, NEW n \in 0..FailThreshold, Fails(a, n)
    PROVE  /\ worker' \in {"sleep", "nap", "dead"} /\ nap' \in 0..ErrorPause
           /\ avail' \in BOOLEAN /\ fails' \in 0..FailThreshold
           /\ faults' \in 0..MaxFaults /\ missed' \in 0..faults'
           /\ NapLasts'
<1>1. /\ ErrorPause \in Nat \ {0} /\ FailThreshold \in Nat \ {0} /\ MaxFaults \in Nat
      /\ nap \in 0..ErrorPause /\ faults \in 0..MaxFaults /\ missed \in 0..faults
  BY ConstantsAreNumbers DEF IInv, TypeOK
<1>2. CASE Registers(a, n)
  BY <1>1, <1>2 DEF Registers, NapLasts
<1>3. CASE LogFails(a, n)
  BY <1>1, <1>3 DEF LogFails, NapLasts
<1> QED
  BY <1>2, <1>3 DEF Fails

LEMMA AnswerKeeps ==
    ASSUME GpsHubAssumption, IInv, Answer
    PROVE  IInv'
<1>1. /\ Allowed(MaxFaults) \in Nat /\ FailThreshold \in Nat \ {0} /\ MaxFaults \in Nat
      /\ TRUE \in BOOLEAN /\ 0 \in 0..FailThreshold
      /\ avail \in BOOLEAN /\ fails \in 0..FailThreshold
  BY ConstantsAreNumbers DEF IInv, TypeOK
<1>2. BlockCoversCalm'
  BY DEF Answer, Store, NoFix, Failure, IInv, BlockCoversCalm, verdict
<1>3. ASSUME NEW kind \in {"fix", "jump"}, Store(kind)
      PROVE  TypeOK' /\ NapLasts'
  BY <1>1, <1>3 DEF Store, IInv, TypeOK, NapLasts, verdict
<1>4. CASE NoFix
  <2>1. /\ worker' \in {"sleep", "nap", "dead"} /\ nap' \in 0..ErrorPause
        /\ avail' \in BOOLEAN /\ fails' \in 0..FailThreshold
        /\ faults' \in 0..MaxFaults /\ missed' \in 0..faults' /\ NapLasts'
    BY <1>1, <1>4, FailsKeeps DEF NoFix
  <2> QED
    BY <1>1, <1>2, <1>4, <2>1 DEF NoFix, IInv, TypeOK, verdict
<1>5. CASE Failure
  <2>1. /\ worker' \in {"sleep", "nap", "dead"} /\ nap' \in 0..ErrorPause
        /\ avail' \in BOOLEAN /\ fails' \in 0..FailThreshold
        /\ faults' \in 0..MaxFaults /\ missed' \in 0..faults' /\ NapLasts'
    BY <1>1, <1>5, FailsKeeps DEF Failure
  <2> QED
    BY <1>1, <1>2, <1>5, <2>1 DEF Failure, IInv, TypeOK, verdict
<1> QED
  BY <1>2, <1>3, <1>4, <1>5 DEF Answer, IInv

LEMMA VerdictKeeps ==
    ASSUME GpsHubAssumption, IInv, Verdict
    PROVE  IInv'
<1>1. WarmUp \in Nat /\ Forecast \in Nat
  BY ConstantsAreNumbers
<1>2. Judge
  BY DEF Verdict
<1>3. /\ calm' \in 0..SpoofBlock /\ block' \in 0..SpoofBlock
      /\ spoofed' \in BOOLEAN /\ stable' \in BOOLEAN
      /\ BlockCoversCalm'
  BY <1>2, JudgeKeepsTie
<1>4. window' \in 0..WarmUp + 1
  BY <1>1 DEF Verdict, Appended, IInv, TypeOK
<1>5. ahead' \in 0..Forecast
  BY <1>1 DEF Verdict, IInv, TypeOK
<1>6. worker' \in {"sleep", "look", "ask", "stored"}
  BY DEF Verdict
<1> QED
  BY <1>3, <1>4, <1>5, <1>6 DEF Verdict, IInv, TypeOK, NapLasts, dish

(* The main loop, the receiver and the commands leave the verdict alone.     *)
LEMMA OthersKeep ==
    ASSUME GpsHubAssumption, IInv,
           \/ MainLoop \/ SetManual
           \/ \E sentence \in {"fix", "void"} : BeitianReads(sentence)
           \/ \E to \in {"STARLINK", "BEITIAN"} : LedControl(to)
    PROVE  IInv'
<1>1. ManualHold \in Nat /\ MaxCommands \in Nat
  BY ConstantsAreNumbers
<1>2. CASE MainLoop
  BY <1>2 DEF MainLoop, Source, IInv, TypeOK, BlockCoversCalm, NapLasts, dish, verdict
<1>3. CASE SetManual
  BY <1>1, <1>3 DEF SetManual, IInv, TypeOK, BlockCoversCalm, NapLasts, dish, verdict
<1>4. ASSUME NEW sentence \in {"fix", "void"}, BeitianReads(sentence)
      PROVE  IInv'
  BY <1>4 DEF BeitianReads, IInv, TypeOK, BlockCoversCalm, NapLasts, dish, verdict
<1>5. ASSUME NEW to \in {"STARLINK", "BEITIAN"}, LedControl(to)
      PROVE  IInv'
  BY <1>1, <1>5 DEF LedControl, IInv, TypeOK, BlockCoversCalm, NapLasts, dish, verdict
<1> QED
  BY <1>2, <1>3, <1>4, <1>5

LEMMA StepKeeps ==
    ASSUME GpsHubAssumption, IInv, [Next]_vars
    PROVE  IInv'
<1>1. CASE UNCHANGED vars
  BY <1>1 DEF vars, dish, verdict, IInv, TypeOK, BlockCoversCalm, NapLasts
<1>2. CASE Next
  BY <1>2, LookKeeps, AnswerKeeps, VerdictKeeps, TickKeeps, OthersKeep DEF Next
<1> QED
  BY <1>1, <1>2

-----------------------------------------------------------------------------
(***************************************************************************)
(* The values the four threads share stay in their types: no counter of     *)
(* failures passes its threshold and no deadline its length                 *)
(* (main.py:369-387, 485-583).                                              *)
(***************************************************************************)
THEOREM GpsTypeCorrect == GpsHubAssumption /\ Spec => []TypeOK
<1> SUFFICES ASSUME GpsHubAssumption
             PROVE  Spec => []TypeOK
  OBVIOUS
<1>1. Init => IInv
  BY InitEstablishes
<1>2. IInv /\ [Next]_vars => IInv'
  BY StepKeeps
<1>3. IInv => TypeOK
  BY DEF IInv
<1> QED
  BY <1>1, <1>2, <1>3, PTL DEF Spec

(***************************************************************************)
(* After a jump none of the dish's positions is sent for                    *)
(* GPS_SPOOF_BLOCK_SEC, whatever the dish answers, the ground station       *)
(* commands and the receiver reports meanwhile (main.py:369-387).           *)
(***************************************************************************)
THEOREM JumpsStayBlocked == GpsHubAssumption /\ Spec => []JumpsAreBlocked
<1> SUFFICES ASSUME GpsHubAssumption
             PROVE  Spec => []JumpsAreBlocked
  OBVIOUS
<1>1. Init => IInv
  BY InitEstablishes
<1>2. IInv /\ [Next]_vars => IInv'
  BY StepKeeps
<1>3. IInv => JumpsAreBlocked
  BY BlockingSuffices
<1> QED
  BY <1>1, <1>2, <1>3, PTL DEF Spec

-----------------------------------------------------------------------------
(***************************************************************************)
(* How old a position may get.  A round is a poll and the longest request.  *)
(* While the dish counts as available, each failure accounts for one round  *)
(* of the age, each one that was not registered for a round and the pause,  *)
(* and what is left is the time since the last request ended and, in a      *)
(* request, the time it has taken.                                          *)
(***************************************************************************)
Round == Poll + Deadline
Unlogged == Poll + Deadline + ErrorPause
Spent == fails * Round + missed * Unlogged

AgeInv ==
    avail =>
      /\ fails < FailThreshold
      /\ worker = "sleep" => \/ age =< Spent
                             \/ since < Poll /\ age =< Spent + since
      /\ worker = "look" => since > 0 /\ \/ age =< Spent + 1
                                         \/ since =< Poll /\ age =< Spent + since
      /\ worker = "ask" => since =< Deadline /\ age =< Spent + Poll + since
      /\ worker = "stored" => age = 0
      /\ worker = "nap" => age + nap =< Spent

LEMMA RoundFacts ==
    ASSUME GpsHubAssumption, NEW n \in 0..FailThreshold
    PROVE  /\ Poll \in Nat \ {0} /\ Deadline \in Nat \ {0} /\ Round = Poll + Deadline
           /\ n * Round \in Nat /\ (n + 1) * Round = n * Round + Round
           /\ n < FailThreshold => n * Round + Round =< Oldest
<1>1. Poll \in Nat \ {0} /\ Deadline \in Nat \ {0} /\ FailThreshold \in Nat \ {0}
  BY DEF GpsHubAssumption
<1>2. Round \in Nat /\ Oldest = FailThreshold * Round
  BY <1>1 DEF Round, Oldest
<1>3. n \in Nat /\ n * Round \in Nat /\ (n + 1) * Round = n * Round + Round
  BY <1>1, <1>2
<1>4. ASSUME n < FailThreshold
      PROVE  n * Round + Round =< Oldest
  <2> DEFINE m == FailThreshold - (n + 1)
  <2>1. m \in Nat /\ FailThreshold = (n + 1) + m
    BY <1>1, <1>3, <1>4
  <2> HIDE DEF m
  <2>2. m * Round \in Nat /\ ((n + 1) + m) * Round = (n + 1) * Round + m * Round
    BY <1>2, <1>3, <2>1
  <2> QED
    BY <1>2, <1>3, <2>1, <2>2
<1> QED
  BY <1>1, <1>3, <1>4 DEF Round

(* What the failures account for, and what one more of either kind adds.     *)
LEMMA SpentFacts ==
    ASSUME GpsHubAssumption, IInv
    PROVE  /\ Spent \in Nat
           /\ fails < FailThreshold => Spent + Round =< Allowed(missed)
           /\ (fails + 1) * Round + missed * Unlogged = Spent + Round
           /\ fails * Round + (missed + 1) * Unlogged = Spent + Unlogged
           /\ 0 * Round + (missed + 1) * Unlogged >= Unlogged
           /\ 1 * Round + missed * Unlogged \in Nat
           /\ Unlogged = Round + ErrorPause /\ ErrorPause \in Nat
<1>1. /\ fails \in 0..FailThreshold /\ missed \in Nat /\ ErrorPause \in Nat /\ Oldest \in Nat
      /\ Poll \in Nat /\ Deadline \in Nat
  BY ConstantsAreNumbers DEF IInv, TypeOK, GpsHubAssumption
<1>2. /\ Round \in Nat /\ Round = Poll + Deadline /\ fails * Round \in Nat
      /\ (fails + 1) * Round = fails * Round + Round
      /\ fails < FailThreshold => fails * Round + Round =< Oldest
  BY <1>1, RoundFacts
<1>3. Unlogged \in Nat /\ Unlogged = Round + ErrorPause
  BY <1>1 DEF Unlogged, Round
<1>4. missed * Unlogged \in Nat /\ (missed + 1) * Unlogged = missed * Unlogged + Unlogged
  BY <1>1, <1>3
<1>5. 0 * Round = 0 /\ 1 * Round = Round
  BY <1>2
<1>6. Allowed(missed) = Oldest + missed * Unlogged
  BY DEF Allowed, Unlogged
<1> HIDE DEF Round, Unlogged
<1> QED
  BY <1>1, <1>2, <1>3, <1>4, <1>5, <1>6 DEF Spent

LEMMA AgeSuffices ==
    ASSUME GpsHubAssumption, IInv, AgeInv
    PROVE  StarlinkIsRecent
<1> SUFFICES ASSUME Choice = "position", worker # "dead"
             PROVE  age =< Allowed(missed)
  BY DEF StarlinkIsRecent
<1>1. avail
  BY PositionIsStable DEF Choice, Effective, IInv, TypeOK
<1>2. /\ fails \in 0..FailThreshold /\ fails < FailThreshold
      /\ age \in Nat /\ since \in Nat /\ nap \in Nat
      /\ worker \in {"sleep", "look", "ask", "stored", "nap"}
  BY <1>1, ConstantsAreNumbers DEF AgeInv, IInv, TypeOK
<1>3. Spent \in Nat /\ Spent + Round =< Allowed(missed)
  BY <1>2, SpentFacts
<1>4. Allowed(missed) \in Nat
  <2>1. missed \in Nat /\ Unlogged \in Nat /\ Oldest \in Nat
    BY ConstantsAreNumbers DEF IInv, TypeOK, GpsHubAssumption, Unlogged
  <2>2. missed * Unlogged \in Nat
    BY <2>1
  <2> QED
    BY <2>1, <2>2 DEF Allowed, Unlogged
<1>5. Poll \in Nat \ {0} /\ Deadline \in Nat \ {0} /\ Round = Poll + Deadline
  BY <1>2, RoundFacts
<1>6. age =< Spent + Round
  BY <1>1, <1>2, <1>3, <1>5 DEF AgeInv
<1> QED
  BY <1>2, <1>3, <1>4, <1>5, <1>6

(* A failure adds a round if it is registered, a round and the pause if the
   thread sleeps after it.                                                   *)
LEMMA FailsSpend ==
    ASSUME GpsHubAssumption, IInv, NEW a \in BOOLEAN, NEW n \in 0..FailThreshold,
           Fails(a, n), avail', n < FailThreshold
    PROVE  /\ fails' < FailThreshold
           /\ \/ worker' = "sleep" /\ fails' = n + 1 /\ missed' = missed
              \/ worker' = "nap" /\ nap' = ErrorPause /\ fails' = n /\ missed' = missed + 1
              \/ worker' = "dead"
<1>1. FailThreshold \in Nat \ {0}
  BY ConstantsAreNumbers
<1>2. CASE Registers(a, n)
  BY <1>1, <1>2 DEF Registers
<1>3. CASE LogFails(a, n)
  BY <1>1, <1>3 DEF LogFails
<1> QED
  BY <1>2, <1>3 DEF Fails

LEMMA AgeKept ==
    ASSUME AgeInv, UNCHANGED <<worker, since, dish>>
    PROVE  AgeInv'
BY DEF AgeInv, dish, Spent, Round, Unlogged

(* A second of the pause takes from it what it adds to the age.             *)
LEMMA NapSpends ==
    ASSUME NEW a \in Nat, NEW later \in Nat, NEW n \in Nat, NEW spent \in Nat,
           later =< a + 1, n > 0, a + n =< spent
    PROVE  later + (n - 1) =< spent /\ (n = 1 => later =< spent + 1)
OBVIOUS

(* A verdict is taken with the position just stored; nothing but the dish's
   thread and the clock touches what the age depends on.                     *)
LEMMA AgeStep ==
    ASSUME GpsHubAssumption, IInv, AgeInv, [Next]_vars
    PROVE  AgeInv'
<1> SUFFICES ASSUME avail'
             PROVE  AgeInv'
  BY DEF AgeInv
<1>1. /\ fails \in 0..FailThreshold /\ FailThreshold \in Nat \ {0} /\ 0 \in 0..FailThreshold
      /\ age \in Nat /\ since \in Nat /\ nap \in Nat /\ avail \in BOOLEAN /\ missed \in Nat
      /\ worker \in {"sleep", "look", "ask", "stored", "nap", "dead"}
  BY ConstantsAreNumbers DEF IInv, TypeOK
<1>2. Poll \in Nat \ {0} /\ Deadline \in Nat \ {0} /\ Round = Poll + Deadline
  BY <1>1, RoundFacts
<1>3. /\ Spent \in Nat /\ Unlogged = Round + ErrorPause /\ ErrorPause \in Nat
      /\ (fails + 1) * Round + missed * Unlogged = Spent + Round
      /\ fails * Round + (missed + 1) * Unlogged = Spent + Unlogged
      /\ 0 * Round + (missed + 1) * Unlogged >= Unlogged
      /\ 1 * Round + missed * Unlogged \in Nat
  BY SpentFacts
<1>4. Spent' = fails' * Round + missed' * Unlogged
  BY DEF Spent, Round, Unlogged
<1>5. ASSUME fails' = fails, missed' = missed
      PROVE  Spent' = Spent
  BY <1>5 DEF Spent, Round, Unlogged
<1>6. ASSUME UNCHANGED <<worker, since, dish>>
      PROVE  AgeInv'
  BY <1>6, AgeKept
<1>7. CASE Look
  <2>1. avail /\ fails' = fails /\ age' = age /\ Spent' = Spent
    BY <1>5, <1>7 DEF Look, dish
  <2>2. age =< Spent + Poll
    BY <1>1, <1>2, <1>3, <1>7, <2>1 DEF Look, AgeInv
  <2>3. CASE since >= Poll
    <3>1. worker' = "ask" /\ since' = 0
      BY <1>7, <2>1, <2>3 DEF Look
    <3> QED
      BY <1>1, <1>2, <1>3, <2>1, <2>2, <3>1 DEF AgeInv
  <2>4. CASE ~(since >= Poll)
    <3>1. worker' = "sleep" /\ since' = since
      BY <1>7, <2>1, <2>4 DEF Look
    <3> QED
      BY <1>1, <1>2, <1>3, <1>7, <2>1, <2>4, <3>1 DEF Look, AgeInv
  <2> QED
    BY <2>3, <2>4
<1>8. ASSUME NEW kind \in {"fix", "jump"}, Store(kind)
      PROVE  AgeInv'
  BY <1>1, <1>8 DEF Store, AgeInv
<1>9. CASE NoFix
  <2>1. /\ age' = 0 /\ fails' < FailThreshold
        /\ \/ worker' = "sleep" /\ fails' = 1 /\ missed' = missed
           \/ worker' = "nap" /\ nap' = ErrorPause /\ fails' = 0 /\ missed' = missed + 1
           \/ worker' = "dead"
    <3>0. 0 < FailThreshold /\ TRUE \in BOOLEAN
      BY <1>1
    <3>1. Fails(TRUE, 0) /\ age' = 0
      BY <1>9, Zenon DEF NoFix
    <3>2. /\ fails' < FailThreshold
          /\ \/ worker' = "sleep" /\ fails' = 0 + 1 /\ missed' = missed
             \/ worker' = "nap" /\ nap' = ErrorPause /\ fails' = 0 /\ missed' = missed + 1
             \/ worker' = "dead"
      BY <1>1, <3>0, <3>1, FailsSpend
    <3> QED
      BY <3>1, <3>2
  <2>2. CASE worker' = "sleep" /\ fails' = 1 /\ missed' = missed
    <3>1. age' =< Spent'
      BY <1>3, <1>4, <2>1, <2>2
    <3> QED
      BY <2>1, <2>2, <3>1 DEF AgeInv
  <2>3. CASE worker' = "nap" /\ nap' = ErrorPause /\ fails' = 0 /\ missed' = missed + 1
    <3>1. Spent' >= Unlogged
      BY <1>3, <1>4, <2>3
    <3>2. age' + nap' =< Spent'
      <4>1. Spent' = 0 * Round + (missed + 1) * Unlogged
        BY <1>4, <2>3
      <4>2. Spent' \in Nat
        BY <1>1, <1>2, <1>3, <4>1
      <4> QED
        BY <1>2, <1>3, <2>1, <2>3, <3>1, <4>2
    <3> QED
      BY <2>1, <2>3, <3>2 DEF AgeInv
  <2>4. CASE worker' = "dead"
    BY <2>1, <2>4 DEF AgeInv
  <2> QED
    BY <2>1, <2>2, <2>3, <2>4
<1>10. CASE Failure
  <2>1. avail
    BY <1>10 DEF Failure, Fails, Registers, LogFails
  <2>2. since =< Deadline /\ age =< Spent + Poll + since /\ fails < FailThreshold
    BY <1>10, <2>1 DEF Failure, AgeInv
  <2>3. /\ age' = age /\ fails' < FailThreshold
        /\ \/ worker' = "sleep" /\ fails' = fails + 1 /\ missed' = missed
           \/ worker' = "nap" /\ nap' = ErrorPause /\ fails' = fails /\ missed' = missed + 1
           \/ worker' = "dead"
    BY <1>1, <1>10, <2>2, FailsSpend DEF Failure
  <2>4. CASE worker' = "sleep" /\ fails' = fails + 1 /\ missed' = missed
    <3>1. Spent' = Spent + Round
      BY <1>3, <1>4, <2>4
    <3>2. age' =< Spent'
      BY <1>1, <1>2, <1>3, <2>2, <2>3, <3>1
    <3> QED
      BY <2>3, <2>4, <3>2 DEF AgeInv
  <2>5. CASE worker' = "nap" /\ nap' = ErrorPause /\ fails' = fails /\ missed' = missed + 1
    <3>1. Spent' = Spent + Unlogged
      BY <1>3, <1>4, <2>5
    <3>2. age' + nap' =< Spent'
      BY <1>1, <1>2, <1>3, <2>2, <2>3, <2>5, <3>1
    <3> QED
      BY <2>3, <2>5, <3>2 DEF AgeInv
  <2>6. CASE worker' = "dead"
    BY <2>3, <2>6 DEF AgeInv
  <2> QED
    BY <2>3, <2>4, <2>5, <2>6
<1>11. CASE Verdict
  <2>1. /\ avail /\ fails' = fails /\ age' = age /\ worker = "stored" /\ worker' = "sleep"
        /\ Spent' = Spent
    BY <1>5, <1>11 DEF Verdict, dish
  <2> QED
    BY <1>1, <1>3, <2>1 DEF AgeInv
<1>12. CASE Tick
  <2>1. /\ avail /\ fails' = fails /\ Spent' = Spent /\ fails' < FailThreshold
        /\ age' =< age + 1 /\ age' \in Nat
        /\ since' =< since + 1 /\ since' \in Nat \ {0}
    <3>1. Longest \in Nat \ {0} /\ Allowed(MaxFaults) \in Nat
      BY ConstantsAreNumbers DEF GpsHubAssumption, Longest
    <3> QED
      BY <1>1, <1>5, <1>12, <3>1 DEF Tick, Later, AgeInv
  <2>2. CASE worker = "sleep"
    <3>1. worker' = "look"
      BY <1>12, <2>2 DEF Tick
    <3>2. CASE age =< Spent
      <4>1. age' =< Spent' + 1 /\ since' > 0
        BY <1>1, <1>3, <2>1, <3>2
      <4> QED
        BY <2>1, <3>1, <4>1 DEF AgeInv
    <3>3. CASE since < Poll /\ age =< Spent + since
      <4>1. since < Longest
        BY <1>1, <1>2, <3>3 DEF Longest, GpsHubAssumption
      <4>2. since' = since + 1
        BY <1>12, <4>1 DEF Tick, Later
      <4> QED
        BY <1>1, <1>2, <1>3, <2>1, <3>1, <3>3, <4>2 DEF AgeInv
    <3> QED
      BY <2>1, <2>2, <3>2, <3>3 DEF AgeInv
  <2>3. CASE worker = "ask"
    <3>1. worker' = "ask" /\ since < Deadline
      BY <1>12, <2>3 DEF Tick
    <3>2. since < Longest
      BY <1>1, <1>2, <3>1 DEF Longest, GpsHubAssumption
    <3>3. since' = since + 1
      BY <1>12, <3>2 DEF Tick, Later
    <3> QED
      BY <1>1, <1>2, <1>3, <2>1, <2>3, <3>1, <3>3 DEF AgeInv
  <2>4. CASE worker = "nap"
    <3>1. nap' = nap - 1 /\ worker' = (IF nap = 1 THEN "look" ELSE "nap")
      BY <1>12, <2>4 DEF Tick
    <3>2. age + nap =< Spent /\ nap > 0
      BY <2>1, <2>4 DEF AgeInv, IInv, NapLasts
    <3>3. age' + nap' =< Spent' /\ nap' \in Nat /\ (nap = 1 => age' =< Spent' + 1)
      <4>1. nap \in Nat /\ nap' = nap - 1 /\ nap' \in Nat
        BY <1>1, <3>1, <3>2
      <4>2. age \in Nat /\ age' \in Nat /\ Spent \in Nat /\ age' =< age + 1
        BY <1>1, <1>3, <2>1
      <4>3. age' + (nap - 1) =< Spent /\ (nap = 1 => age' =< Spent + 1)
        BY <3>2, <4>1, <4>2, NapSpends
      <4> QED
        BY <2>1, <4>1, <4>3
    <3> QED
      BY <2>1, <3>1, <3>3 DEF AgeInv
  <2>5. CASE worker = "dead"
    <3>1. worker' = "dead"
      BY <1>12, <2>5 DEF Tick
    <3> QED
      BY <2>1, <3>1 DEF AgeInv
  <2> QED
    BY <1>12, <2>2, <2>3, <2>4, <2>5 DEF Tick
<1>13. CASE UNCHANGED vars
  BY <1>6, <1>13 DEF vars
<1>14. CASE MainLoop \/ SetManual
  BY <1>6, <1>14 DEF MainLoop, SetManual
<1>15. ASSUME NEW sentence \in {"fix", "void"}, BeitianReads(sentence)
       PROVE  AgeInv'
  BY <1>6, <1>15 DEF BeitianReads
<1>16. ASSUME NEW to \in {"STARLINK", "BEITIAN"}, LedControl(to)
       PROVE  AgeInv'
  BY <1>6, <1>16 DEF LedControl
<1> QED
  BY <1>7, <1>8, <1>9, <1>10, <1>11, <1>12, <1>13, <1>14, <1>15, <1>16 DEF Next, Answer

(***************************************************************************)
(* A position of the dish that is sent as the board's is no older than the  *)
(* failures in a row that give the dish up, for every poll, deadline and    *)
(* threshold, each failure that could not be logged adding a request and    *)
(* the pause: an answer without a fix, a block or a change of mode never    *)
(* keeps an old one in use, only a thread that has ended does               *)
(* (main.py:553-583).                                                       *)
(***************************************************************************)
THEOREM PositionsAreRecent == GpsHubAssumption /\ Spec => []StarlinkIsRecent
<1> SUFFICES ASSUME GpsHubAssumption
             PROVE  Spec => []StarlinkIsRecent
  OBVIOUS
<1>1. Init => IInv /\ AgeInv
  BY InitEstablishes DEF Init, AgeInv
<1>2. IInv /\ AgeInv /\ [Next]_vars => IInv' /\ AgeInv'
  BY StepKeeps, AgeStep
<1>3. IInv /\ AgeInv => StarlinkIsRecent
  BY AgeSuffices
<1> QED
  BY <1>1, <1>2, <1>3, PTL DEF Spec
-----------------------------------------------------------------------------
(***************************************************************************)
(* The fire device.  What is read and what is still to come, one after      *)
(* another, is all that matters to the next frames the daemon takes.        *)
(***************************************************************************)
Pending == (IF payload = None THEN <<>> ELSE <<Fire!HEADER>> \o payload) \o line \o frame

(* Bytes of a frame the device has sent; or two of its three, as a loss leaves them. *)
Whole(states, a, b, c) ==
    /\ a \in states /\ <<a, b>> \in Fire!Documented /\ c \in Fire!Crcs(a, b)
TwoOf(states, a, b) ==
    \E st \in Fire!Documented : \E crc \in Fire!Crcs(st[1], st[2]) :
        /\ st[1] \in states
        /\ \/ a = st[1]
           \/ a = st[2] /\ b = crc
        /\ {a, b} \subseteq {st[1], st[2], crc}

WholeAt(states, bytes, i) ==
    i + 3 <= Len(bytes) /\ Whole(states, bytes[i + 1], bytes[i + 2], bytes[i + 3])
CutAt(states, bytes, i) ==
    /\ i + 2 <= Len(bytes) /\ TwoOf(states, bytes[i + 1], bytes[i + 2])
    /\ i + 3 <= Len(bytes) => bytes[i + 3] = Fire!HEADER
HeaderAt(states, losses, bytes, i) ==
    \/ /\ WholeAt(states, bytes, i)
       /\ losses = 0 /\ i + 4 <= Len(bytes) => bytes[i + 4] = Fire!HEADER
    \/ losses = 1 /\ CutAt(states, bytes, i)
FramesIn(states, losses, bytes) ==
    \A i \in 1..Len(bytes) :
        bytes[i] = Fire!HEADER => HeaderAt(states, losses, bytes, i)

TrueState == shown # None =>
    \E s \in been : shown.state_id = s % 128 /\ shown.external_ok = s \div 128

FireInv ==
    /\ Fire!TypeOK
    /\ Len(frame) <= 4 /\ status[1] \in been
    /\ damaged = 0 /\ lost <= 1 => FramesIn(been, lost, Pending) /\ TrueState

-----------------------------------------------------------------------------
(* Bytes.                                                                    *)

LEMMA XorIsByte ==
    ASSUME NEW a \in Nat, NEW b \in Nat
    PROVE  Fire!Xor(a, b) \in Fire!Byte
<1>1. /\ Fire!Differ(a, b, 1) \in {0, 1} /\ Fire!Differ(a, b, 2) \in {0, 2}
      /\ Fire!Differ(a, b, 4) \in {0, 4} /\ Fire!Differ(a, b, 8) \in {0, 8}
      /\ Fire!Differ(a, b, 16) \in {0, 16} /\ Fire!Differ(a, b, 32) \in {0, 32}
      /\ Fire!Differ(a, b, 64) \in {0, 64} /\ Fire!Differ(a, b, 128) \in {0, 128}
  BY DEF Fire!Differ
<1> QED
  BY <1>1 DEF Fire!Xor, Fire!Byte

LEMMA ShiftIsByte ==
    ASSUME NEW a \in Fire!Byte
    PROVE  Fire!Shift(a) \in Fire!Byte
<1>1. CASE a >= 128
  <2>1. (a * 2) % 256 \in Nat
    BY DEF Fire!Byte
  <2> QED
    BY <1>1, <2>1, XorIsByte DEF Fire!Shift
<1>2. CASE ~(a >= 128)
  BY <1>2 DEF Fire!Shift, Fire!Byte
<1> QED
  BY <1>1, <1>2

LEMMA CrcIsByte ==
    /\ Fire!Crc8 \in [Fire!Byte -> Fire!Byte]
    /\ \A state, error \in Fire!Byte : Fire!Crcs(state, error) \subseteq Fire!Byte
<1>1. \A b \in Fire!Byte : Fire!Shift(Fire!Shift(Fire!Shift(Fire!Shift(
          Fire!Shift(Fire!Shift(Fire!Shift(Fire!Shift(b)))))))) \in Fire!Byte
  BY ShiftIsByte
<1>2. Fire!Crc8 \in [Fire!Byte -> Fire!Byte]
  BY <1>1 DEF Fire!Crc8
<1>3. ASSUME NEW state \in Fire!Byte, NEW error \in Fire!Byte
      PROVE  Fire!Crcs(state, error) \subseteq Fire!Byte
  <2>1. Fire!Crc8[state] \in Fire!Byte
    BY <1>2
  <2>2. Fire!Byte \subseteq Nat
    BY DEF Fire!Byte
  <2>3. Fire!Xor(Fire!Crc8[state], error) \in Fire!Byte
    BY <2>1, <2>2, XorIsByte
  <2> QED
    BY <1>2, <2>1, <2>3 DEF Fire!Crcs, Fire!CrcOfState, Fire!CrcOfBoth
<1> QED
  BY <1>2, <1>3

LEMMA DocumentedBytes ==
    ASSUME NEW st \in Fire!Documented
    PROVE  /\ st[1] \in Fire!Byte /\ st[2] \in Fire!Byte /\ st = <<st[1], st[2]>>
           /\ Fire!Crcs(st[1], st[2]) \subseteq Fire!Byte
<1>1. PICK state \in 0..9, external \in 0..1, error \in (0..14) \cup (20..22) :
          st = <<state + 128 * external, error>>
  BY DEF Fire!Documented
<1>2. st[1] \in Fire!Byte /\ st[2] \in Fire!Byte /\ st = <<st[1], st[2]>>
  BY <1>1 DEF Fire!Byte
<1> QED
  BY <1>2, CrcIsByte
(* A frame that is read whole shows a state the device has been in; one that *)
(* lost a byte shows such a state, or its CRC is wrong.                      *)
LEMMA WholeFacts ==
    ASSUME NEW states, NEW a, NEW b, NEW c, Whole(states, a, b, c)
    PROVE  /\ a \in states
           /\ a # Fire!HEADER /\ b # Fire!HEADER /\ c # Fire!HEADER
           /\ TwoOf(states, b, c) /\ TwoOf(states, a, c) /\ TwoOf(states, a, b)
<1> DEFINE st == <<a, b>>
<1>1. st \in Fire!Documented /\ st[1] = a /\ st[2] = b /\ c \in Fire!Crcs(st[1], st[2])
  BY DEF Whole
<1>2. Fire!Tells(a, b)
  BY <1>1, FramesTell
<1>3. a \in states
  BY DEF Whole
<1>4. Fire!HEADER \notin {a, b, c}
  BY <1>1, <1>2 DEF Fire!Tells
<1> HIDE DEF st
<1>5. TwoOf(states, b, c)
  BY <1>1, <1>3 DEF TwoOf
<1>6. TwoOf(states, a, c)
  BY <1>1, <1>3 DEF TwoOf
<1>7. TwoOf(states, a, b)
  BY <1>1, <1>3 DEF TwoOf
<1> QED
  BY <1>3, <1>4, <1>5, <1>6, <1>7

LEMMA TwoFacts ==
    ASSUME NEW states, NEW a, NEW b, TwoOf(states, a, b)
    PROVE  /\ a # Fire!HEADER /\ b # Fire!HEADER
           /\ a \in states \/ ~Fire!ValidCrc(a, b, Fire!HEADER)
<1>1. PICK st \in Fire!Documented : \E crc \in Fire!Crcs(st[1], st[2]) :
          /\ st[1] \in states
          /\ \/ a = st[1]
             \/ a = st[2] /\ b = crc
          /\ {a, b} \subseteq {st[1], st[2], crc}
  BY DEF TwoOf
<1>2. PICK crc \in Fire!Crcs(st[1], st[2]) :
          /\ st[1] \in states
          /\ \/ a = st[1]
             \/ a = st[2] /\ b = crc
          /\ {a, b} \subseteq {st[1], st[2], crc}
  BY <1>1
<1>3. Fire!Tells(st[1], st[2])
  BY FramesTell
<1>4. Fire!HEADER \notin {st[1], st[2], crc}
  BY <1>2, <1>3 DEF Fire!Tells
<1>5. ~Fire!ValidCrc(st[2], crc, Fire!HEADER)
  BY <1>2, <1>3 DEF Fire!Tells
<1> QED
  BY <1>2, <1>4, <1>5

LEMMA WholeGrows ==
    ASSUME NEW states, NEW more, states \subseteq more, NEW a, NEW b
    PROVE  /\ \A c : Whole(states, a, b, c) => Whole(more, a, b, c)
           /\ TwoOf(states, a, b) => TwoOf(more, a, b)
<1>1. \A c : Whole(states, a, b, c) => Whole(more, a, b, c)
  BY DEF Whole
<1>2. ASSUME TwoOf(states, a, b)
      PROVE  TwoOf(more, a, b)
  BY <1>2 DEF TwoOf
<1> QED
  BY <1>1, <1>2
-----------------------------------------------------------------------------
(* What is done to the bytes: the first are read, a frame is added, one is lost. *)

LEMMA ReadKeeps ==
    ASSUME NEW states, NEW losses, NEW bytes \in Seq(Fire!Byte), NEW rest \in Seq(Fire!Byte),
           NEW n \in Nat, Len(bytes) = n + Len(rest),
           \A i \in 1..Len(rest) : rest[i] = bytes[n + i],
           FramesIn(states, losses, bytes)
    PROVE  FramesIn(states, losses, rest)
<1> SUFFICES ASSUME NEW i \in 1..Len(rest), rest[i] = Fire!HEADER
             PROVE  HeaderAt(states, losses, rest, i)
  BY DEF FramesIn
<1>1. n + i \in 1..Len(bytes) /\ bytes[n + i] = Fire!HEADER
  OBVIOUS
<1>2. HeaderAt(states, losses, bytes, n + i)
  BY <1>1 DEF FramesIn
<1>3. \A k \in 1..4 : /\ i + k <= Len(rest) <=> n + i + k <= Len(bytes)
                      /\ i + k <= Len(rest) => rest[i + k] = bytes[n + i + k]
  <2> SUFFICES ASSUME NEW k \in 1..4
               PROVE  /\ i + k <= Len(rest) <=> n + i + k <= Len(bytes)
                      /\ i + k <= Len(rest) => rest[i + k] = bytes[n + i + k]
    OBVIOUS
  <2>1. i + k <= Len(rest) <=> n + i + k <= Len(bytes)
    OBVIOUS
  <2>2. ASSUME i + k <= Len(rest)
        PROVE  rest[i + k] = bytes[n + i + k]
    <3>1. i + k \in 1..Len(rest)
      BY <2>2
    <3>2. rest[i + k] = bytes[n + (i + k)]
      BY <3>1
    <3>3. n + (i + k) = n + i + k
      OBVIOUS
    <3> QED
      BY <3>2, <3>3
  <2> QED
    BY <2>1, <2>2
<1>4. WholeAt(states, bytes, n + i) => WholeAt(states, rest, i)
  BY <1>3 DEF WholeAt
<1>5. CutAt(states, bytes, n + i) => CutAt(states, rest, i)
  BY <1>3 DEF CutAt
<1>6. i + 4 <= Len(rest) /\ bytes[n + i + 4] = Fire!HEADER => rest[i + 4] = Fire!HEADER
  BY <1>3
<1>7. i + 4 <= Len(rest) <=> n + i + 4 <= Len(bytes)
  BY <1>3
<1> QED
  BY <1>2, <1>4, <1>5, <1>6, <1>7 DEF HeaderAt

LEMMA StatesGrow ==
    ASSUME NEW states, NEW more, states \subseteq more, NEW losses, NEW bytes,
           FramesIn(states, losses, bytes)
    PROVE  FramesIn(more, losses, bytes)
<1> SUFFICES ASSUME NEW i \in 1..Len(bytes), bytes[i] = Fire!HEADER
             PROVE  HeaderAt(more, losses, bytes, i)
  BY DEF FramesIn
<1>1. HeaderAt(states, losses, bytes, i)
  BY DEF FramesIn
<1>2. WholeAt(states, bytes, i) => WholeAt(more, bytes, i)
  BY WholeGrows DEF WholeAt
<1>3. CutAt(states, bytes, i) => CutAt(more, bytes, i)
  BY WholeGrows DEF CutAt
<1> QED
  BY <1>1, <1>2, <1>3 DEF HeaderAt

LEMMA FrameAdded ==
    ASSUME NEW states, NEW losses, NEW bytes \in Seq(Fire!Byte), NEW longer \in Seq(Fire!Byte),
           NEW a, NEW b, NEW c, Whole(states, a, b, c), FramesIn(states, losses, bytes),
           Len(longer) = Len(bytes) + 4,
           \A i \in 1..Len(bytes) : longer[i] = bytes[i],
           longer[Len(bytes) + 1] = Fire!HEADER, longer[Len(bytes) + 2] = a,
           longer[Len(bytes) + 3] = b, longer[Len(bytes) + 4] = c
    PROVE  FramesIn(states, losses, longer)
<1> SUFFICES ASSUME NEW i \in 1..Len(longer), longer[i] = Fire!HEADER
             PROVE  HeaderAt(states, losses, longer, i)
  BY DEF FramesIn
<1>0. a # Fire!HEADER /\ b # Fire!HEADER /\ c # Fire!HEADER
  BY WholeFacts
<1>1. CASE i = Len(bytes) + 1
  <2>1. /\ longer[i + 1] = a /\ longer[i + 2] = b /\ longer[i + 3] = c
        /\ i + 3 <= Len(longer) /\ ~(i + 4 <= Len(longer))
    BY <1>1
  <2> QED
    BY <2>1 DEF HeaderAt, WholeAt
<1>2. CASE i \in 1..Len(bytes)
  <2>1. HeaderAt(states, losses, bytes, i)
    BY <1>2 DEF FramesIn
  <2>2. CASE /\ WholeAt(states, bytes, i)
             /\ losses = 0 /\ i + 4 <= Len(bytes) => bytes[i + 4] = Fire!HEADER
    <3>1. /\ i + 3 <= Len(bytes) /\ i + 3 <= Len(longer)
          /\ longer[i + 1] = bytes[i + 1] /\ longer[i + 2] = bytes[i + 2]
          /\ longer[i + 3] = bytes[i + 3]
      BY <1>2, <2>2 DEF WholeAt
    <3>2. losses = 0 /\ i + 4 <= Len(longer) => longer[i + 4] = Fire!HEADER
      <4>1. CASE i + 4 <= Len(bytes)
        BY <1>2, <2>2, <4>1
      <4>2. CASE ~(i + 4 <= Len(bytes))
        <5>1. i + 4 = Len(bytes) + 1
          BY <1>2, <3>1, <4>2
        <5> QED
          BY <5>1
      <4> QED
        BY <4>1, <4>2
    <3> QED
      BY <2>2, <3>1, <3>2 DEF HeaderAt, WholeAt
  <2>3. CASE losses = 1 /\ CutAt(states, bytes, i)
    <3>1. /\ i + 2 <= Len(bytes)
          /\ longer[i + 1] = bytes[i + 1] /\ longer[i + 2] = bytes[i + 2]
      BY <1>2, <2>3 DEF CutAt
    <3>2. longer[i + 3] = Fire!HEADER
      <4>1. CASE i + 3 <= Len(bytes)
        BY <1>2, <2>3, <4>1 DEF CutAt
      <4>2. CASE ~(i + 3 <= Len(bytes))
        <5>1. i + 3 = Len(bytes) + 1
          BY <1>2, <3>1, <4>2
        <5> QED
          BY <5>1
      <4> QED
        BY <4>1, <4>2
    <3>3. i + 2 <= Len(longer)
      BY <1>2, <3>1
    <3> QED
      BY <2>3, <3>1, <3>2, <3>3 DEF HeaderAt, CutAt
  <2> QED
    BY <2>1, <2>2, <2>3 DEF HeaderAt
<1>3. i \in 1..Len(bytes) \/ i = Len(bytes) + 1 \/ i = Len(bytes) + 2
      \/ i = Len(bytes) + 3 \/ i = Len(bytes) + 4
  OBVIOUS
<1> QED
  BY <1>0, <1>1, <1>2, <1>3

(* The byte at "gone" is one of the last four: the frame on its way. *)
LEMMA LossKeeps ==
    ASSUME NEW states, NEW bytes \in Seq(Fire!Byte), NEW rest \in Seq(Fire!Byte),
           NEW gone \in 1..Len(bytes), Len(bytes) =< gone + 3,
           FramesIn(states, 0, bytes), Len(bytes) = Len(rest) + 1,
           \A i \in 1..(gone - 1) : rest[i] = bytes[i],
           \A i \in gone..Len(rest) : rest[i] = bytes[i + 1]
    PROVE  FramesIn(states, 1, rest)
<1> SUFFICES ASSUME NEW i \in 1..Len(rest), rest[i] = Fire!HEADER
             PROVE  HeaderAt(states, 1, rest, i)
  BY DEF FramesIn
<1>1. CASE i >= gone
  <2>1. i + 1 \in 1..Len(bytes) /\ bytes[i + 1] = Fire!HEADER
    BY <1>1
  <2>2. HeaderAt(states, 0, bytes, i + 1)
    BY <2>1 DEF FramesIn
  <2>3. (i + 1) + 3 <= Len(bytes)
    BY <2>2 DEF HeaderAt, WholeAt
  <2> QED
    BY <1>1, <2>3
<1>2. CASE i < gone
  <2>1. i \in 1..Len(bytes) /\ bytes[i] = Fire!HEADER
    BY <1>2
  <2>2. /\ WholeAt(states, bytes, i)
        /\ i + 4 <= Len(bytes) => bytes[i + 4] = Fire!HEADER
    <3>1. HeaderAt(states, 0, bytes, i)
      BY <2>1 DEF FramesIn
    <3> QED
      BY <3>1 DEF HeaderAt
  <2>3. CASE i + 3 < gone
    <3>1. i + 3 <= Len(rest) /\ {i + 1, i + 2, i + 3} \subseteq 1..(gone - 1)
      BY <1>2, <2>3
    <3>2. /\ rest[i + 1] = bytes[i + 1] /\ rest[i + 2] = bytes[i + 2]
          /\ rest[i + 3] = bytes[i + 3]
      BY <3>1
    <3>3. WholeAt(states, rest, i)
      BY <2>2, <3>1, <3>2 DEF WholeAt
    <3>4. 1 # 0
      OBVIOUS
    <3> QED
      BY <3>3, <3>4 DEF HeaderAt
  <2>4. CASE gone <= i + 3
    <3>1. i + 3 = Len(bytes)
      <4> SUFFICES ASSUME i + 4 <= Len(bytes)
                   PROVE  FALSE
        BY <2>2 DEF WholeAt
      <4>1. i + 4 \in 1..Len(bytes) /\ bytes[i + 4] = Fire!HEADER
        BY <2>2
      <4>2. HeaderAt(states, 0, bytes, i + 4)
        BY <4>1 DEF FramesIn
      <4>3. (i + 4) + 3 <= Len(bytes)
        BY <4>2 DEF HeaderAt, WholeAt
      <4> QED
        BY <2>4, <4>3
    <3>2. Whole(states, bytes[i + 1], bytes[i + 2], bytes[i + 3])
      BY <2>2 DEF WholeAt
    <3>3. TwoOf(states, rest[i + 1], rest[i + 2])
      <4>1. CASE gone = i + 1
        <5>1. i + 1 \in gone..Len(rest) /\ i + 2 \in gone..Len(rest)
          BY <3>1, <4>1
        <5>2. rest[i + 1] = bytes[(i + 1) + 1] /\ rest[i + 2] = bytes[(i + 2) + 1]
          BY <5>1
        <5>3. (i + 1) + 1 = i + 2 /\ (i + 2) + 1 = i + 3
          OBVIOUS
        <5> QED
          BY <3>2, <5>2, <5>3, WholeFacts
      <4>2. CASE gone = i + 2
        <5>1. rest[i + 1] = bytes[i + 1] /\ rest[i + 2] = bytes[i + 3]
          BY <3>1, <4>2
        <5> QED
          BY <3>2, <5>1, WholeFacts
      <4>3. CASE gone = i + 3
        <5>1. rest[i + 1] = bytes[i + 1] /\ rest[i + 2] = bytes[i + 2]
          BY <3>1, <4>3
        <5> QED
          BY <3>2, <5>1, WholeFacts
      <4> QED
        BY <1>2, <2>4, <4>1, <4>2, <4>3
    <3>4. i + 2 <= Len(rest) /\ ~(i + 3 <= Len(rest))
      BY <3>1
    <3> QED
      BY <3>3, <3>4 DEF HeaderAt, CutAt
  <2> QED
    BY <2>3, <2>4
<1> QED
  BY <1>1, <1>2
LEMMA ConcatAt ==
    ASSUME NEW r \in Seq(Fire!Byte), NEW t \in Seq(Fire!Byte)
    PROVE  /\ r \o t \in Seq(Fire!Byte) /\ Len(r) \in Nat /\ Len(t) \in Nat
           /\ Len(r \o t) = Len(r) + Len(t)
           /\ \A i \in 1..Len(r) : (r \o t)[i] = r[i]
           /\ \A i \in 1..Len(t) : (r \o t)[Len(r) + i] = t[i]
<1>1. /\ r \o t \in Seq(Fire!Byte) /\ Len(r) \in Nat /\ Len(t) \in Nat
      /\ Len(r \o t) = Len(r) + Len(t)
  BY ConcatProperties, LenProperties
<1>2. \A i \in 1..Len(r) + Len(t) :
          (r \o t)[i] = IF i <= Len(r) THEN r[i] ELSE t[i - Len(r)]
  BY ConcatProperties
<1>3. ASSUME NEW i \in 1..Len(r)
      PROVE  (r \o t)[i] = r[i]
  BY <1>1, <1>2
<1>4. ASSUME NEW i \in 1..Len(t)
      PROVE  (r \o t)[Len(r) + i] = t[i]
  <2>1. /\ Len(r) + i \in 1..Len(r) + Len(t) /\ ~(Len(r) + i <= Len(r))
        /\ (Len(r) + i) - Len(r) = i
    BY <1>1
  <2> QED
    BY <1>2, <2>1
<1> QED
  BY <1>1, <1>3, <1>4

LEMMA Regroup ==
    \A r, s, t \in Seq(Fire!Byte) : (r \o s) \o t = r \o (s \o t)
BY ConcatAssociative

LEMMA SplitHead ==
    ASSUME NEW s \in Seq(Fire!Byte), s # <<>>
    PROVE  /\ Head(s) \in Fire!Byte /\ Tail(s) \in Seq(Fire!Byte)
           /\ <<Head(s)>> \in Seq(Fire!Byte)
           /\ Len(s) \in Nat \ {0} /\ Len(Tail(s)) = Len(s) - 1
           /\ \A i \in 1..Len(Tail(s)) : Tail(s)[i] = s[i + 1]
           /\ s = <<Head(s)>> \o Tail(s)
<1>1. /\ Head(s) \in Fire!Byte /\ Tail(s) \in Seq(Fire!Byte) /\ Len(Tail(s)) = Len(s) - 1
      /\ \A i \in 1..Len(Tail(s)) : Tail(s)[i] = s[i + 1]
  BY HeadTailProperties
<1>2. Len(s) \in Nat \ {0}
  BY EmptySeq
<1> DEFINE h == <<Head(s)>>
           t == Tail(s)
<1>3. h \in Seq(Fire!Byte) /\ Len(h) = 1 /\ h[1] = s[1]
  BY <1>1
<1> HIDE DEF h
<1>4. h \o t \in Seq(Fire!Byte) /\ Len(s) = Len(h \o t)
  <2>1. t \in Seq(Fire!Byte) /\ Len(t) = Len(s) - 1
    BY <1>1
  <2> HIDE DEF t
  <2>2. h \o t \in Seq(Fire!Byte) /\ Len(h \o t) = Len(h) + Len(t)
    BY <1>3, <2>1, ConcatAt
  <2> QED
    BY <1>2, <1>3, <2>1, <2>2
<1>5. ASSUME NEW i \in 1..Len(s)
      PROVE  s[i] = (h \o t)[i]
  <2>1. t \in Seq(Fire!Byte) /\ Len(t) = Len(s) - 1 /\ \A j \in 1..Len(t) : t[j] = s[j + 1]
    BY <1>1
  <2> HIDE DEF t
  <2>2. CASE i = 1
    <3>1. \A k \in 1..Len(h) : (h \o t)[k] = h[k]
      BY <1>3, <2>1, ConcatAt
    <3>2. 1 \in 1..Len(h)
      BY <1>3
    <3>3. (h \o t)[1] = h[1]
      BY <3>1, <3>2
    <3> QED
      BY <1>3, <2>2, <3>3
  <2>3. CASE i # 1
    <3>1. i - 1 \in 1..Len(t) /\ (i - 1) + 1 = i /\ 1 + (i - 1) = i
      BY <1>2, <2>1, <2>3
    <3>2. (h \o t)[Len(h) + (i - 1)] = t[i - 1]
      BY <1>3, <2>1, <3>1, ConcatAt
    <3>3. t[i - 1] = s[(i - 1) + 1]
      BY <2>1, <3>1
    <3> QED
      BY <1>3, <3>1, <3>2, <3>3
  <2> QED
    BY <2>2, <2>3
<1>6. t \in Seq(Fire!Byte)
  BY <1>1
<1> HIDE DEF t
<1>7. s = h \o t
  BY <1>4, <1>5, SeqEqual
<1> QED
  BY <1>1, <1>2, <1>3, <1>7 DEF h, t

LEMMA RestKeeps ==
    ASSUME NEW states, NEW losses, NEW read \in Seq(Fire!Byte), NEW rest \in Seq(Fire!Byte),
           FramesIn(states, losses, read \o rest)
    PROVE  FramesIn(states, losses, rest)
<1> DEFINE bytes == read \o rest
           n == Len(read)
<1>1. bytes \in Seq(Fire!Byte) /\ n \in Nat /\ Len(bytes) = n + Len(rest)
  BY ConcatAt
<1>2. \A i \in 1..Len(rest) : rest[i] = bytes[n + i]
  BY ConcatAt
<1>3. FramesIn(states, losses, bytes)
  OBVIOUS
<1> HIDE DEF bytes, n
<1> QED
  BY <1>1, <1>2, <1>3, ReadKeeps

LEMMA FrameKeeps ==
    ASSUME NEW states, NEW losses, NEW bytes \in Seq(Fire!Byte),
           NEW a \in Fire!Byte, NEW b \in Fire!Byte, NEW c \in Fire!Byte,
           Whole(states, a, b, c), FramesIn(states, losses, bytes)
    PROVE  FramesIn(states, losses, bytes \o <<Fire!HEADER, a, b, c>>)
<1> DEFINE new == <<Fire!HEADER, a, b, c>>
           longer == bytes \o new
<1>1. /\ new \in Seq(Fire!Byte) /\ Len(new) = 4
      /\ new[1] = Fire!HEADER /\ new[2] = a /\ new[3] = b /\ new[4] = c
  BY DEF Fire!HEADER, Fire!Byte
<1> HIDE DEF new
<1>2. /\ longer \in Seq(Fire!Byte) /\ Len(longer) = Len(bytes) + Len(new)
      /\ \A i \in 1..Len(bytes) : longer[i] = bytes[i]
      /\ \A k \in 1..Len(new) : longer[Len(bytes) + k] = new[k]
  BY <1>1, ConcatAt
<1> HIDE DEF longer
<1>3. /\ Len(longer) = Len(bytes) + 4
      /\ \A k \in 1..4 : longer[Len(bytes) + k] = new[k]
  BY <1>1, <1>2
<1>4. /\ longer[Len(bytes) + 1] = Fire!HEADER /\ longer[Len(bytes) + 2] = a
      /\ longer[Len(bytes) + 3] = b /\ longer[Len(bytes) + 4] = c
  BY <1>1, <1>3
<1>5. FramesIn(states, losses, longer)
  BY <1>2, <1>3, <1>4, FrameAdded
<1> QED
  BY <1>5 DEF longer, new

LEMMA LostFromFrame ==
    ASSUME NEW states, NEW before \in Seq(Fire!Byte), NEW sent \in Seq(Fire!Byte),
           sent # <<>>, Len(sent) =< 4, FramesIn(states, 0, before \o sent)
    PROVE  FramesIn(states, 1, before \o Tail(sent))
<1> DEFINE bytes == before \o sent
           rest == before \o Tail(sent)
           gone == Len(before) + 1
<1> DEFINE left == Tail(sent)
<1>1. /\ left \in Seq(Fire!Byte) /\ Len(left) = Len(sent) - 1
      /\ \A i \in 1..Len(left) : left[i] = sent[i + 1]
      /\ Len(sent) \in Nat \ {0}
  BY SplitHead
<1> HIDE DEF left
<1>2. /\ bytes \in Seq(Fire!Byte) /\ Len(bytes) = Len(before) + Len(sent)
      /\ Len(before) \in Nat
      /\ \A i \in 1..Len(before) : bytes[i] = before[i]
      /\ \A i \in 1..Len(sent) : bytes[Len(before) + i] = sent[i]
  BY ConcatAt
<1>3. /\ rest \in Seq(Fire!Byte) /\ Len(rest) = Len(before) + Len(left)
      /\ \A i \in 1..Len(before) : rest[i] = before[i]
      /\ \A i \in 1..Len(left) : rest[Len(before) + i] = left[i]
  BY <1>1, ConcatAt DEF left
<1>4. FramesIn(states, 0, bytes)
  OBVIOUS
<1> HIDE DEF bytes, rest
<1>5. gone \in 1..Len(bytes) /\ Len(bytes) =< gone + 3 /\ Len(bytes) = Len(rest) + 1
  BY <1>1, <1>2, <1>3
<1>6. \A i \in 1..(gone - 1) : rest[i] = bytes[i]
  BY <1>2, <1>3
<1>7. \A i \in gone..Len(rest) : rest[i] = bytes[i + 1]
  <2> SUFFICES ASSUME NEW i \in gone..Len(rest)
               PROVE  rest[i] = bytes[i + 1]
    OBVIOUS
  <2> DEFINE k == i - Len(before)
  <2>1. /\ k \in 1..Len(left) /\ k + 1 \in 1..Len(sent)
        /\ Len(before) + k = i /\ Len(before) + (k + 1) = i + 1
    BY <1>1, <1>2, <1>3
  <2> HIDE DEF k
  <2>2. rest[i] = left[k] /\ bytes[i + 1] = sent[k + 1]
    BY <1>2, <1>3, <2>1
  <2> QED
    BY <1>1, <2>1, <2>2
<1> HIDE DEF gone
<1>8. FramesIn(states, 1, rest)
  BY <1>2, <1>3, <1>4, <1>5, <1>6, <1>7, LossKeeps
<1> QED
  BY <1>8 DEF rest, left

(* What the daemon takes for a frame shows a true state, if its CRC is right. *)
LEMMA TakenIsTrue ==
    ASSUME NEW states, NEW losses, NEW taken \in Seq(Fire!Byte), Len(taken) = 3,
           NEW rest \in Seq(Fire!Byte),
           FramesIn(states, losses, (<<Fire!HEADER>> \o taken) \o rest),
           Fire!ValidCrc(taken[1], taken[2], taken[3])
    PROVE  taken[1] \in states
<1> DEFINE h == <<Fire!HEADER>>
           bytes == (h \o taken) \o rest
<1>1. h \in Seq(Fire!Byte) /\ Len(h) = 1 /\ h[1] = Fire!HEADER
  BY DEF Fire!HEADER, Fire!Byte
<1> HIDE DEF h
<1> DEFINE frm == h \o taken
<1>2. /\ frm \in Seq(Fire!Byte) /\ Len(frm) = 4
      /\ frm[1] = h[1] /\ \A i \in 1..3 : frm[1 + i] = taken[i]
  <2>1. /\ frm \in Seq(Fire!Byte) /\ Len(frm) = Len(h) + Len(taken)
        /\ \A i \in 1..Len(h) : frm[i] = h[i]
        /\ \A i \in 1..Len(taken) : frm[Len(h) + i] = taken[i]
    BY <1>1, ConcatAt
  <2> HIDE DEF frm
  <2> QED
    BY <1>1, <2>1
<1>3. /\ bytes \in Seq(Fire!Byte) /\ Len(bytes) >= 4
      /\ \A i \in 1..4 : bytes[i] = frm[i]
  <2>1. frm \in Seq(Fire!Byte) /\ Len(frm) = 4
    BY <1>2
  <2> HIDE DEF frm
  <2>2. /\ frm \o rest \in Seq(Fire!Byte) /\ Len(rest) \in Nat
        /\ Len(frm \o rest) = Len(frm) + Len(rest)
        /\ \A i \in 1..Len(frm) : (frm \o rest)[i] = frm[i]
    BY <2>1, ConcatAt
  <2>3. bytes = frm \o rest
    BY DEF frm
  <2> QED
    BY <2>1, <2>2, <2>3
<1>4. FramesIn(states, losses, bytes)
  BY DEF h
<1> HIDE DEF bytes, frm
<1>5. /\ bytes[1] = Fire!HEADER /\ bytes[2] = taken[1] /\ bytes[3] = taken[2]
      /\ bytes[4] = taken[3]
  BY <1>1, <1>2, <1>3
<1>6. HeaderAt(states, losses, bytes, 1)
  <2>1. 1 \in 1..Len(bytes)
    BY <1>3, <1>5 DEF FramesIn
  <2> QED
    BY <1>4, <1>5, <2>1 DEF FramesIn
<1>7. CASE WholeAt(states, bytes, 1)
  <2>1. Whole(states, taken[1], taken[2], taken[3])
    BY <1>5, <1>7 DEF WholeAt
  <2> QED
    BY <2>1, WholeFacts
<1>8. CASE CutAt(states, bytes, 1)
  <2>1. TwoOf(states, taken[1], taken[2])
    BY <1>5, <1>8 DEF CutAt
  <2>2. taken[3] = Fire!HEADER
    BY <1>3, <1>5, <1>8 DEF CutAt
  <2> QED
    BY <2>1, <2>2, TwoFacts
<1> QED
  BY <1>6, <1>7, <1>8 DEF HeaderAt
-----------------------------------------------------------------------------
(* Every step keeps the bytes' shape and the truth of what is shown.         *)

LEMMA BytesOfTheDevice ==
    ASSUME NEW st \in Statuses
    PROVE  /\ st \in Fire!Documented /\ st[1] \in Fire!Byte /\ st[2] \in Fire!Byte
           /\ st = <<st[1], st[2]>>
           /\ Fire!CrcOfState(st[1]) \in Fire!Byte /\ Fire!CrcOfBoth(st[1], st[2]) \in Fire!Byte
<1>1. st \in Fire!Documented
  BY FireBounds DEF Fire!FireDeviceAssumption
<1> QED
  BY <1>1, DocumentedBytes DEF Fire!Crcs

Before == IF payload = None THEN <<>> ELSE <<Fire!HEADER>> \o payload

PendingSplit ==
    /\ Before \in Seq(Fire!Byte) /\ Pending = (Before \o line) \o frame
    /\ Pending = Before \o (line \o frame)
    /\ Before \o line \in Seq(Fire!Byte) /\ line \o frame \in Seq(Fire!Byte)
    /\ <<Fire!HEADER>> \in Seq(Fire!Byte)

LEMMA PendingBytes == Fire!TypeOK => PendingSplit
<1> SUFFICES ASSUME Fire!TypeOK
             PROVE  PendingSplit
  OBVIOUS
<1>1. line \in Seq(Fire!Byte) /\ frame \in Seq(Fire!Byte)
      /\ (payload = None \/ payload \in Seq(Fire!Byte))
  BY DEF Fire!TypeOK
<1>2. <<Fire!HEADER>> \in Seq(Fire!Byte)
  BY DEF Fire!HEADER, Fire!Byte
<1>3. Before \in Seq(Fire!Byte)
  <2>1. CASE payload = None
    BY <2>1 DEF Before
  <2>2. CASE payload # None
    <3>1. payload \in Seq(Fire!Byte)
      BY <1>1, <2>2
    <3>2. <<Fire!HEADER>> \o payload \in Seq(Fire!Byte)
      BY <1>2, <3>1, ConcatAt
    <3> QED
      BY <2>2, <3>2 DEF Before
  <2> QED
    BY <2>1, <2>2
<1>4. Pending = (Before \o line) \o frame
  BY DEF Pending, Before
<1>5. (Before \o line) \o frame = Before \o (line \o frame)
  BY <1>1, <1>3, ConcatAssociative
<1>6. Before \o line \in Seq(Fire!Byte) /\ line \o frame \in Seq(Fire!Byte)
  BY <1>1, <1>3, ConcatAt
<1> QED
  BY <1>2, <1>3, <1>4, <1>5, <1>6 DEF PendingSplit

LEMMA FireInitTrue ==
    ASSUME Fire!Init
    PROVE  FireInv
<1>1. Fire!TypeOK
  <2>1. {MaxLine, MaxChanges, MaxLost, MaxDamaged, MaxRestarts} \subseteq Nat
    BY FireBounds DEF Fire!FireDeviceAssumption
  <2>2. <<>> \in Seq(Fire!Byte) /\ Len(<<>>) = 0
    OBVIOUS
  <2> QED
    BY <2>1, <2>2 DEF Fire!Init, Fire!TypeOK
<1>2. Pending = <<>>
  BY DEF Pending, Fire!Init
<1>3. FramesIn(been, lost, Pending)
  BY <1>2 DEF FramesIn
<1>4. TrueState
  BY DEF TrueState, Fire!Init
<1>5. Len(frame) <= 4 /\ status[1] \in been
  BY DEF Fire!Init
<1> QED
  BY <1>1, <1>3, <1>4, <1>5 DEF FireInv

LEMMA BitsOfBytes ==
    /\ \A b \in Fire!Byte : b % 128 \in 0..127 /\ b \div 128 \in 0..1
    /\ Fire!Byte \subseteq Nat /\ Bits \subseteq Nat
<1>1. \A b \in Fire!Byte : b % 128 \in 0..127 /\ b \div 128 \in 0..1
  BY DEF Fire!Byte
<1>2. Fire!Byte \subseteq Nat
  BY DEF Fire!Byte
<1>3. Bits \subseteq Nat
  BY FireBounds DEF Fire!FireDeviceAssumption
<1> QED
  BY <1>1, <1>2, <1>3

LEMMA FireTypesKept ==
    ASSUME Fire!TypeOK, Len(frame) <= 4, [Fire!Next]_Fire!vars
    PROVE  Fire!TypeOK' /\ Len(frame)' <= 4
<1>0. {MaxLine, MaxChanges, MaxLost, MaxDamaged, MaxRestarts} \subseteq Nat
  BY FireBounds DEF Fire!FireDeviceAssumption
<1> USE <1>0 DEF Fire!TypeOK, Fire!device, Fire!daemon, Fire!faults
<1>1. CASE Fire!Change
  BY <1>1 DEF Fire!Change
<1>2. CASE Fire!NewFrame
  <2>1. Fire!HEADER \in Fire!Byte
    BY DEF Fire!HEADER, Fire!Byte
  <2>2. PICK crc \in Fire!Byte : frame' = <<Fire!HEADER, status[1], status[2], crc>>
    BY <1>2, BytesOfTheDevice DEF Fire!NewFrame
  <2>3. status[1] \in Fire!Byte /\ status[2] \in Fire!Byte
    BY BytesOfTheDevice
  <2>4. frame' \in Seq(Fire!Byte) /\ Len(frame') = 4
    BY <2>1, <2>2, <2>3
  <2> QED
    BY <1>2, <2>4 DEF Fire!NewFrame
<1>3. CASE Fire!Send
  <2>1. frame # <<>> /\ Len(line) < MaxLine
        /\ line' = Append(line, Head(frame)) /\ frame' = Tail(frame)
    BY <1>3 DEF Fire!Send
  <2>2. Head(frame) \in Fire!Byte /\ frame' \in Seq(Fire!Byte)
        /\ Len(frame) \in Nat \ {0} /\ Len(frame') = Len(frame) - 1
    BY <2>1, SplitHead
  <2>3. line' \in Seq(Fire!Byte) /\ Len(line') = Len(line) + 1
    BY <2>1, <2>2
  <2>4. Len(line') <= MaxLine /\ Len(frame') <= 4
    BY <2>1, <2>2, <2>3
  <2> QED
    BY <1>3, <2>2, <2>3, <2>4 DEF Fire!Send
<1>4. CASE Fire!Lose
  <2>1. frame # <<>> /\ frame' = Tail(frame)
    BY <1>4 DEF Fire!Lose
  <2>2. frame' \in Seq(Fire!Byte) /\ Len(frame) \in Nat \ {0} /\ Len(frame') = Len(frame) - 1
    BY <2>1, SplitHead
  <2> QED
    BY <1>4, <2>2 DEF Fire!Lose
<1>5. CASE Fire!Damage
  <2>1. frame # <<>> /\ frame' = Tail(frame) /\ Len(line) < MaxLine
    BY <1>5 DEF Fire!Damage
  <2>2. PICK bit \in Bits : line' = Append(line, Fire!Xor(Head(frame), bit))
    BY <1>5 DEF Fire!Damage
  <2>3. Head(frame) \in Fire!Byte /\ frame' \in Seq(Fire!Byte)
        /\ Len(frame) \in Nat \ {0} /\ Len(frame') = Len(frame) - 1
    BY <2>1, SplitHead
  <2>4. Fire!Xor(Head(frame), bit) \in Fire!Byte
    <3>1. bit \in Nat /\ Head(frame) \in Nat
      BY <2>3, BitsOfBytes
    <3> QED
      BY <3>1, XorIsByte
  <2>5. line' \in Seq(Fire!Byte) /\ Len(line') = Len(line) + 1
    BY <2>2, <2>4
  <2>6. Len(line') <= MaxLine /\ Len(frame') <= 4
    BY <2>1, <2>3, <2>5
  <2> QED
    BY <1>5, <2>3, <2>5, <2>6 DEF Fire!Damage
<1>6. CASE Fire!ReadHeader
  <2>1. line # <<>> /\ line' = Tail(line) /\ payload' \in {<<>>, None}
    BY <1>6 DEF Fire!ReadHeader
  <2>2. line' \in Seq(Fire!Byte) /\ Len(line) \in Nat \ {0} /\ Len(line') = Len(line) - 1
    BY <2>1, SplitHead
  <2>3. \A S : <<>> \in Seq(S) /\ Len(<<>>) < 3
    BY EmptySeq
  <2>4. payload' = None \/ (payload' \in Seq(Fire!Byte) /\ Len(payload') < 3)
    BY <2>1, <2>3, Zenon
  <2>5. Len(line') <= MaxLine
    BY <2>2
  <2> QED
    BY <1>6, <2>2, <2>4, <2>5 DEF Fire!ReadHeader
<1>7. CASE Fire!ReadPayload
  <2> DEFINE bytes == Append(payload, Head(line))
  <2>1. /\ payload # None /\ line # <<>> /\ line' = Tail(line)
        /\ IF Len(bytes) < 3 THEN payload' = bytes /\ UNCHANGED shown
           ELSE payload' = None /\ shown' = Fire!Publish(Fire!ParseFrame(bytes))
    BY <1>7 DEF Fire!ReadPayload
  <2>2. /\ Head(line) \in Fire!Byte /\ line' \in Seq(Fire!Byte)
        /\ Len(line) \in Nat \ {0} /\ Len(line') = Len(line) - 1
    BY <2>1, SplitHead
  <2>3. bytes \in Seq(Fire!Byte) /\ Len(bytes) <= 3
    <3>1. payload \in Seq(Fire!Byte) /\ Len(payload) < 3
      BY <2>1
    <3>2. bytes \in Seq(Fire!Byte) /\ Len(bytes) = Len(payload) + 1
      BY <2>2, <3>1, AppendProperties
    <3> QED
      BY <3>1, <3>2
  <2> HIDE DEF bytes
  <2>4. payload' = None \/ (payload' \in Seq(Fire!Byte) /\ Len(payload') < 3)
    BY <2>1, <2>3
  <2>5. Len(line') <= MaxLine
    BY <2>2
  <2>6. shown' = None \/ shown' \in [state_id : 0..127, error_id : Fire!Byte, external_ok : 0..1]
    <3>1. CASE Len(bytes) < 3
      BY <2>1, <3>1
    <3>2. CASE ~(Len(bytes) < 3)
      <4>1. bytes[1] \in Fire!Byte /\ bytes[2] \in Fire!Byte
        BY <2>3, <3>2
      <4>2. Fire!StatusOf(bytes[1], bytes[2])
                \in [state_id : 0..127, error_id : Fire!Byte, external_ok : 0..1]
        <5>1. bytes[1] % 128 \in 0..127 /\ bytes[1] \div 128 \in 0..1
          BY <4>1, BitsOfBytes
        <5> QED
          BY <4>1, <5>1 DEF Fire!StatusOf
      <4>3. shown' = Fire!Publish(Fire!ParseFrame(bytes))
        BY <2>1, <3>2
      <4>4. Fire!ParseFrame(bytes) \in {Fire!StatusOf(bytes[1], bytes[2]), None}
        BY DEF Fire!ParseFrame
      <4> QED
        BY <4>2, <4>3, <4>4 DEF Fire!Publish
    <3> QED
      BY <3>1, <3>2
  <2> QED
    BY <1>7, <2>2, <2>4, <2>5, <2>6 DEF Fire!ReadPayload
<1>8. CASE Fire!Timeout
  BY <1>8 DEF Fire!Timeout
<1>9. CASE Fire!Restart
  BY <1>9 DEF Fire!Restart
<1>10. CASE UNCHANGED Fire!vars
  BY <1>10 DEF Fire!vars
<1> QED
  BY <1>1, <1>2, <1>3, <1>4, <1>5, <1>6, <1>7, <1>8, <1>9, <1>10 DEF Fire!Next
(* Reading drops bytes from the front of what is pending, or none; a frame    *)
(* reaches the daemon whole.                                                  *)
LEMMA FireFramesKept ==
    ASSUME FireInv, [Fire!Next]_Fire!vars, damaged' = 0, lost' <= 1
    PROVE  FramesIn(been, lost, Pending) /\ TrueState /\ FramesIn(been', lost', Pending')
<1>1. /\ Fire!TypeOK /\ Len(frame) <= 4 /\ damaged \in Nat /\ lost \in Nat
      /\ line \in Seq(Fire!Byte) /\ frame \in Seq(Fire!Byte)
      /\ (payload = None \/ (payload \in Seq(Fire!Byte) /\ Len(payload) < 3))
  BY FireBounds DEF FireInv, Fire!TypeOK, Fire!FireDeviceAssumption
<1>2. damaged = 0 /\ lost <= lost' /\ ~Fire!Damage
      /\ (lost' = lost \/ (Fire!Lose /\ lost' = lost + 1))
  BY <1>1 DEF Fire!Next, Fire!vars, Fire!device, Fire!daemon, Fire!faults, Fire!Change,
       Fire!NewFrame, Fire!Send, Fire!Lose, Fire!Damage, Fire!ReadHeader, Fire!ReadPayload,
       Fire!Timeout, Fire!Restart
<1>3. FramesIn(been, lost, Pending) /\ TrueState
  BY <1>1, <1>2 DEF FireInv
<1>4. PendingSplit
  BY <1>1, PendingBytes
<1>5. Fire!TypeOK' /\ PendingSplit'
  <2>1. Fire!TypeOK'
    BY <1>1, FireTypesKept
  <2> QED
    BY <2>1, PendingBytes, PTL
<1>6. CASE Fire!Change
  <2>1. been \subseteq been' /\ Pending' = Pending /\ lost' = lost
    BY <1>6 DEF Fire!Change, Fire!daemon, Fire!faults, Pending
  <2> QED
    BY <1>3, <2>1, StatesGrow
<1>7. CASE Fire!NewFrame
  <2> DEFINE crc == IF full THEN Fire!CrcOfBoth(status[1], status[2])
                    ELSE Fire!CrcOfState(status[1])
  <2>1. /\ frame = <<>> /\ been' = been /\ lost' = lost /\ Before' = Before /\ line' = line
        /\ frame' = <<Fire!HEADER, status[1], status[2], crc>>
    BY <1>7 DEF Fire!NewFrame, Fire!daemon, Fire!faults, Before
  <2>2. Pending = Before \o line
    BY <1>4, <2>1, ConcatEmptySeq DEF PendingSplit
  <2>3. /\ status \in Fire!Documented /\ status = <<status[1], status[2]>>
        /\ status[1] \in Fire!Byte /\ status[2] \in Fire!Byte /\ crc \in Fire!Byte
    BY <1>1, BytesOfTheDevice DEF Fire!TypeOK
  <2>4. crc \in Fire!Crcs(status[1], status[2])
    BY DEF Fire!Crcs
  <2>5. status[1] \in been
    BY DEF FireInv
  <2> HIDE DEF crc
  <2>6. Whole(been, status[1], status[2], crc)
    BY <2>3, <2>4, <2>5 DEF Whole
  <2>7. FramesIn(been, lost, Pending \o frame')
    BY <1>3, <1>4, <2>1, <2>2, <2>3, <2>6, FrameKeeps DEF PendingSplit
  <2>8. Pending' = Pending \o frame'
    BY <1>5, <2>1, <2>2 DEF PendingSplit
  <2> QED
    BY <1>3, <2>1, <2>7, <2>8
<1>8. CASE Fire!Send
  <2>1. /\ frame # <<>> /\ line' = Append(line, Head(frame)) /\ frame' = Tail(frame)
        /\ Before' = Before /\ been' = been /\ lost' = lost
    BY <1>8 DEF Fire!Send, Fire!daemon, Fire!faults, Before
  <2> DEFINE h == <<Head(frame)>>
  <2>2. /\ Head(frame) \in Fire!Byte /\ h \in Seq(Fire!Byte) /\ frame' \in Seq(Fire!Byte)
        /\ frame = h \o frame'
    BY <1>1, <2>1, SplitHead
  <2>3. line' = line \o h
    BY <1>1, <2>1, <2>2, AppendIsConcat
  <2> HIDE DEF h
  <2>4. line' \o frame' = line \o frame
    <3>1. (line \o h) \o frame' = line \o (h \o frame')
      <4>1. line \in Seq(Fire!Byte) /\ h \in Seq(Fire!Byte) /\ frame' \in Seq(Fire!Byte)
        BY <1>1, <2>2
      <4> QED
        BY <4>1, Regroup, Zenon
    <3> QED
      BY <2>2, <2>3, <3>1
  <2>5. Pending' = Pending
    BY <1>4, <1>5, <2>1, <2>4 DEF PendingSplit
  <2> QED
    BY <1>3, <2>1, <2>5
<1>9. CASE Fire!Lose
  <2>1. /\ frame # <<>> /\ frame' = Tail(frame) /\ line' = line
        /\ Before' = Before /\ been' = been /\ lost' = lost + 1
    BY <1>9 DEF Fire!Lose, Fire!daemon, Before
  <2>2. lost = 0 /\ lost' = 1 /\ Len(frame) <= 4
    BY <1>1, <2>1
  <2>3. FramesIn(been, 1, (Before \o line) \o Tail(frame))
    BY <1>1, <1>3, <1>4, <2>1, <2>2, LostFromFrame DEF PendingSplit
  <2>4. Pending' = (Before \o line) \o Tail(frame)
    BY <1>5, <2>1 DEF PendingSplit
  <2> QED
    BY <1>3, <2>1, <2>2, <2>3, <2>4
<1>10. CASE Fire!ReadHeader
  <2>1. /\ payload = None /\ line # <<>> /\ line' = Tail(line) /\ frame' = frame
        /\ payload' = IF Head(line) = Fire!HEADER THEN <<>> ELSE None
        /\ been' = been /\ lost' = lost
    BY <1>10 DEF Fire!ReadHeader, Fire!device, Fire!faults
  <2> DEFINE h == <<Head(line)>>
  <2>2. /\ h \in Seq(Fire!Byte) /\ line' \in Seq(Fire!Byte) /\ line = h \o line'
    BY <1>1, <2>1, SplitHead
  <2>3. Before = <<>> /\ Pending = line \o frame
    BY <1>1, <1>4, <2>1, ConcatEmptySeq DEF PendingSplit, Before
  <2>4. Before' = h \/ Before' = <<>>
    <3>1. CASE payload' = None
      BY <3>1 DEF Before
    <3>2. CASE payload' # None
      <4>1. Before' = <<Fire!HEADER>> \o <<>> /\ Head(line) = Fire!HEADER
        BY <2>1, <3>2 DEF Before
      <4>2. <<Fire!HEADER>> \o <<>> = <<Fire!HEADER>>
        BY <1>4, ConcatEmptySeq DEF PendingSplit
      <4> QED
        BY <4>1, <4>2
    <3> QED
      BY <3>1, <3>2
  <2> HIDE DEF h
  <2>5. line' \o frame \in Seq(Fire!Byte) /\ Pending = h \o (line' \o frame)
    <3>1. (h \o line') \o frame = h \o (line' \o frame)
      <4>1. h \in Seq(Fire!Byte) /\ line' \in Seq(Fire!Byte) /\ frame \in Seq(Fire!Byte)
        BY <1>1, <2>2
      <4> QED
        BY <4>1, Regroup, Zenon
    <3>2. line' \o frame \in Seq(Fire!Byte)
      BY <1>1, <2>2, ConcatAt
    <3> QED
      BY <2>2, <2>3, <3>1, <3>2
  <2>6. Pending' = Pending \/ Pending' = line' \o frame
    BY <1>5, <2>1, <2>4, <2>5, ConcatEmptySeq DEF PendingSplit
  <2>7. FramesIn(been, lost, line' \o frame)
    BY <1>3, <2>2, <2>5, RestKeeps
  <2> QED
    BY <1>3, <2>1, <2>6, <2>7
<1>11. CASE Fire!ReadPayload
  <2> DEFINE bytes == Append(payload, Head(line))
             h == <<Head(line)>>
             begin == <<Fire!HEADER>>
  <2>1. /\ payload # None /\ line # <<>> /\ line' = Tail(line) /\ frame' = frame
        /\ payload' = bytes \/ payload' = None
        /\ been' = been /\ lost' = lost
    BY <1>11 DEF Fire!ReadPayload, Fire!device, Fire!faults
  <2>2. /\ h \in Seq(Fire!Byte) /\ line' \in Seq(Fire!Byte) /\ line = h \o line'
        /\ Head(line) \in Fire!Byte /\ payload \in Seq(Fire!Byte)
    BY <1>1, <2>1, SplitHead
  <2>3. bytes \in Seq(Fire!Byte) /\ bytes = payload \o h
    BY <2>2, AppendIsConcat, AppendProperties
  <2>4. begin \in Seq(Fire!Byte) /\ Before = begin \o payload
    BY <1>4, <2>1 DEF PendingSplit, Before
  <2>5. Before' = begin \o bytes \/ Before' = <<>>
    BY <2>1 DEF Before
  <2> HIDE DEF bytes, h, begin
  <2>6. /\ begin \o bytes \in Seq(Fire!Byte) /\ line' \o frame \in Seq(Fire!Byte)
        /\ Pending = (begin \o bytes) \o (line' \o frame)
    <3>1. begin \o bytes \in Seq(Fire!Byte) /\ line' \o frame \in Seq(Fire!Byte)
      BY <1>1, <2>2, <2>3, <2>4, ConcatAt
    <3>2. (h \o line') \o frame = h \o (line' \o frame)
      <4>1. h \in Seq(Fire!Byte) /\ line' \in Seq(Fire!Byte) /\ frame \in Seq(Fire!Byte)
        BY <1>1, <2>2
      <4> QED
        BY <4>1, Regroup
    <3>3. begin \o bytes = Before \o h
      <4>1. (begin \o payload) \o h = begin \o (payload \o h)
        <5>1. begin \in Seq(Fire!Byte) /\ payload \in Seq(Fire!Byte) /\ h \in Seq(Fire!Byte)
          BY <2>2, <2>4
        <5> QED
          BY <5>1, Regroup, Zenon
      <4> QED
        BY <2>3, <2>4, <4>1
    <3>4. (Before \o h) \o (line' \o frame) = Before \o (h \o (line' \o frame))
      <4>1. Before \in Seq(Fire!Byte)
        BY <1>4 DEF PendingSplit
      <4>2. h \in Seq(Fire!Byte) /\ line' \o frame \in Seq(Fire!Byte)
        BY <2>2, <3>1
      <4> QED
        BY <4>1, <4>2, Regroup, Zenon
    <3>5. Pending = Before \o (line \o frame)
      BY <1>4 DEF PendingSplit
    <3> QED
      BY <2>2, <3>1, <3>2, <3>3, <3>4, <3>5
  <2>7. Pending' = Pending \/ Pending' = line' \o frame
    BY <1>5, <2>1, <2>5, <2>6, ConcatEmptySeq DEF PendingSplit
  <2>8. FramesIn(been, lost, line' \o frame)
    BY <1>3, <2>6, RestKeeps
  <2> QED
    BY <1>3, <2>1, <2>7, <2>8
<1>12. CASE Fire!Timeout \/ Fire!Restart
  <2>1. /\ payload' = None /\ line' = line /\ frame' = frame /\ been' = been /\ lost' = lost
    BY <1>12 DEF Fire!Timeout, Fire!Restart, Fire!device, Fire!faults
  <2>2. Before' = <<>> /\ Pending' = line \o frame
    BY <1>1, <1>5, <2>1, ConcatEmptySeq DEF PendingSplit, Before
  <2>3. FramesIn(been, lost, line \o frame)
    BY <1>3, <1>4, RestKeeps DEF PendingSplit
  <2> QED
    BY <1>3, <2>1, <2>2, <2>3
<1>13. CASE UNCHANGED Fire!vars
  <2>1. Pending' = Pending /\ been' = been /\ lost' = lost
    BY <1>13 DEF Fire!vars, Fire!device, Fire!daemon, Fire!faults, Pending
  <2> QED
    BY <1>3, <2>1
<1> QED
  BY <1>2, <1>6, <1>7, <1>8, <1>9, <1>10, <1>11, <1>12, <1>13 DEF Fire!Next
LEMMA FireShownKept ==
    ASSUME FireInv, [Fire!Next]_Fire!vars, damaged' = 0, lost' <= 1
    PROVE  TrueState'
<1>1. /\ Fire!TypeOK /\ FramesIn(been, lost, Pending) /\ TrueState /\ PendingSplit
      /\ line \in Seq(Fire!Byte) /\ frame \in Seq(Fire!Byte)
      /\ (payload = None \/ (payload \in Seq(Fire!Byte) /\ Len(payload) < 3))
  BY FireFramesKept, PendingBytes DEF FireInv, Fire!TypeOK
<1>2. been \subseteq been'
  BY DEF Fire!Next, Fire!vars, Fire!device, Fire!daemon, Fire!faults, Fire!Change,
       Fire!NewFrame, Fire!Send, Fire!Lose, Fire!Damage, Fire!ReadHeader, Fire!ReadPayload,
       Fire!Timeout, Fire!Restart
<1>3. CASE shown' = shown
  BY <1>1, <1>2, <1>3 DEF TrueState
<1>4. CASE shown' = None
  BY <1>4 DEF TrueState
<1>5. CASE shown' # shown /\ shown' # None
  <2> DEFINE bytes == Append(payload, Head(line))
             h == <<Head(line)>>
             begin == <<Fire!HEADER>>
             to == Tail(line) \o frame
  <2>1. Fire!ReadPayload
    BY <1>5 DEF Fire!Next, Fire!vars, Fire!device, Fire!daemon, Fire!faults, Fire!Change,
         Fire!NewFrame, Fire!Send, Fire!Lose, Fire!Damage, Fire!ReadHeader, Fire!Timeout,
         Fire!Restart
  <2>2. /\ payload # None /\ line # <<>>
        /\ ~(Len(bytes) < 3) /\ shown' = Fire!Publish(Fire!ParseFrame(bytes))
    BY <1>5, <2>1 DEF Fire!ReadPayload
  <2>3. /\ h \in Seq(Fire!Byte) /\ Tail(line) \in Seq(Fire!Byte) /\ line = h \o Tail(line)
        /\ Head(line) \in Fire!Byte /\ payload \in Seq(Fire!Byte) /\ Len(payload) < 3
    BY <1>1, <2>2, SplitHead
  <2>4. bytes \in Seq(Fire!Byte) /\ bytes = payload \o h /\ Len(bytes) = Len(payload) + 1
    BY <2>3, AppendIsConcat, AppendProperties
  <2>5. begin \in Seq(Fire!Byte) /\ Before = begin \o payload
    BY <1>1, <2>2 DEF PendingSplit, Before
  <2> HIDE DEF bytes, h, begin
  <2>6. begin \o bytes \in Seq(Fire!Byte) /\ to \in Seq(Fire!Byte)
    BY <1>1, <2>3, <2>4, <2>5, ConcatAt
  <2>7. Pending = (begin \o bytes) \o to
    <3>1. (h \o Tail(line)) \o frame = h \o to
      <4>1. h \in Seq(Fire!Byte) /\ Tail(line) \in Seq(Fire!Byte) /\ frame \in Seq(Fire!Byte)
        BY <1>1, <2>3
      <4> QED
        BY <4>1, Regroup, Zenon
    <3>2. (begin \o payload) \o h = begin \o bytes
      <4>1. begin \in Seq(Fire!Byte) /\ payload \in Seq(Fire!Byte) /\ h \in Seq(Fire!Byte)
        BY <2>3, <2>4, <2>5
      <4>2. (begin \o payload) \o h = begin \o (payload \o h)
        BY <4>1, Regroup, Zenon
      <4> QED
        BY <2>4, <4>2
    <3>3. (Before \o h) \o to = Before \o (h \o to)
      <4>1. Before \in Seq(Fire!Byte)
        BY <1>1 DEF PendingSplit
      <4> QED
        <5>1. h \in Seq(Fire!Byte) /\ to \in Seq(Fire!Byte)
          BY <2>3, <2>6
        <5> QED
          BY <4>1, <5>1, Regroup, Zenon
    <3>4. Pending = Before \o (line \o frame)
      BY <1>1 DEF PendingSplit
    <3> HIDE DEF to
    <3> QED
      BY <2>3, <2>5, <3>1, <3>2, <3>3, <3>4
  <2> HIDE DEF to
  <2>8. Len(bytes) = 3
    BY <2>2, <2>3, <2>4
  <2>9. /\ Fire!ValidCrc(bytes[1], bytes[2], bytes[3])
        /\ shown' = Fire!StatusOf(bytes[1], bytes[2])
    BY <1>5, <2>2 DEF Fire!Publish, Fire!ParseFrame
  <2>10. bytes[1] \in been
    BY <1>1, <2>4, <2>6, <2>7, <2>8, <2>9, TakenIsTrue DEF begin
  <2>11. shown'.state_id = bytes[1] % 128 /\ shown'.external_ok = bytes[1] \div 128
    BY <2>9 DEF Fire!StatusOf
  <2> QED
    BY <1>2, <2>10, <2>11 DEF TrueState
<1> QED
  BY <1>3, <1>4, <1>5

LEMMA FireStep ==
    ASSUME FireInv, [Fire!Next]_Fire!vars
    PROVE  FireInv'
<1>1. Fire!TypeOK' /\ Len(frame)' <= 4
  BY FireTypesKept DEF FireInv
<1>2. status[1]' \in been'
  BY DEF FireInv, Fire!Next, Fire!vars, Fire!device, Fire!daemon, Fire!faults, Fire!Change,
       Fire!NewFrame, Fire!Send, Fire!Lose, Fire!Damage, Fire!ReadHeader, Fire!ReadPayload,
       Fire!Timeout, Fire!Restart
<1>3. damaged' = 0 /\ lost' <= 1 => FramesIn(been, lost, Pending)' /\ TrueState'
  BY FireFramesKept, FireShownKept
<1> QED
  BY <1>1, <1>2, <1>3 DEF FireInv

(* A run follows one part: the others keep what they began with. *)
LEMMA PartsFireStep ==
    ASSUME FireInv, [PartsNext]_<<vars, fire, bitrate, part>>
    PROVE  FireInv'
<1>1. CASE part = "fire" /\ Fire!Next
  BY <1>1, FireStep
<1>2. CASE UNCHANGED fire
  <2>1. UNCHANGED Fire!vars
    BY <1>2 DEF fire, Fire!vars, Fire!device, Fire!daemon, Fire!faults
  <2> QED
    BY <2>1, FireStep
<1> QED
  BY <1>1, <1>2 DEF PartsNext

(***************************************************************************)
(* The bytes on the line, what the daemon has of a frame and what it shows  *)
(* stay in their types: the bytes of a frame and their CRCs are bytes, and  *)
(* the line holds no more than its buffer                                   *)
(* (fire_device_status_daemon.py:83-122, 174-191).                         *)
(***************************************************************************)
THEOREM FireTypeCorrect == PartsSpec => []Fire!TypeOK
<1>1. PartsInit => FireInv
  BY FireInitTrue DEF PartsInit
<1>2. FireInv /\ [PartsNext]_<<vars, fire, bitrate, part>> => FireInv'
  BY PartsFireStep
<1>3. FireInv => Fire!TypeOK
  BY DEF FireInv
<1> QED
  BY <1>1, <1>2, <1>3, PTL DEF PartsSpec

(***************************************************************************)
(* For every table of statuses the protocol names, every length of the      *)
(* line, however often the status changes and the daemon restarts in the    *)
(* middle of a frame: with one byte lost, wherever it falls, no state is     *)
(* shown that the device has not been in (fire_device_status_daemon.py:     *)
(* 102-122, 174-191).  Every header still to be read stands before a whole  *)
(* frame or before two of its three bytes and the next header; of those the *)
(* protocol's statuses leave none with a valid CRC that shows another state. *)
(***************************************************************************)
THEOREM NoFalseState == PartsSpec => []LossShowsNoFalseState
<1>1. PartsInit => FireInv
  BY FireInitTrue DEF PartsInit
<1>2. FireInv /\ [PartsNext]_<<vars, fire, bitrate, part>> => FireInv'
  BY PartsFireStep
<1>3. FireInv => LossShowsNoFalseState
  BY DEF FireInv, LossShowsNoFalseState, Fire!LossShowsNoFalseState, TrueState
<1> QED
  BY <1>1, <1>2, <1>3, PTL DEF PartsSpec

-----------------------------------------------------------------------------
(***************************************************************************)
(* The bitrate.  Every measured round trip is at least the line's own, so   *)
(* the base, which is the least of a window that holds the last one, is     *)
(* between the two and the queue above it is a time the buffer can hold.    *)
(* From there each decision is arithmetic: an estimate is a share of the    *)
(* rate, a cut at least 30% of it, and a pause no more than its bound.      *)
(***************************************************************************)

LEMMA MinOfNats ==
    ASSUME NEW S \in SUBSET Nat, S # {}
    PROVE  Bitrate!Min(S) \in S /\ \A y \in S : Bitrate!Min(S) <= y
<1>1. \E x \in S : \A y \in S : ~ (<<y, x>> \in OpToRel(<, Nat))
  BY NatLessThanWellFounded, WFMin, Zenon
<1>2. \A x, y \in Nat : y < x => <<y, x>> \in OpToRel(<, Nat)
  BY Zenon DEF OpToRel
<1>3. \E x \in S : \A y \in S : ~ (y < x)
  BY <1>1, <1>2, Zenon
<1>4. \E x \in S : \A y \in S : x <= y
  BY <1>3
<1> QED
  BY <1>4 DEF Bitrate!Min

LEMMA TimesKeepsOrder ==
    ASSUME NEW k \in Nat, NEW a \in Int, NEW b \in Int, a <= b
    PROVE  k * a <= k * b
<1>1. k * (b - a) >= 0
  OBVIOUS
<1>2. k * (b - a) = k * b - k * a
  OBVIOUS
<1> QED
  BY <1>1, <1>2

LEMMA DivBound ==
    ASSUME NEW x \in Nat, NEW m \in Nat \ {0}, NEW k \in Nat, x <= k * m
    PROVE  x \div m \in 0..k
<1> DEFINE q == x \div m
<1>1. q \in Nat /\ m * q <= x
  OBVIOUS
<1>2. CASE q >= k + 1
  <2>1. m * (k + 1) <= m * q
    BY <1>1, <1>2, TimesKeepsOrder
  <2>2. m * (k + 1) = k * m + m
    OBVIOUS
  <2> QED
    BY <1>1, <2>1, <2>2
<1> QED
  BY <1>1, <1>2

LEMMA Slide ==
    ASSUME NEW S, NEW n \in Nat \ {0}, NEW w \in [1..n -> S], NEW e \in S
    PROVE  /\ Append(Tail(w), e) \in [1..n -> S]
           /\ Append(Tail(w), e)[n] = e
<1>1. w \in Seq(S) /\ Len(w) = n /\ w # <<>>
  OBVIOUS
<1>2. Tail(w) \in Seq(S) /\ Len(Tail(w)) = n - 1
  BY <1>1, HeadTailProperties
<1>3. /\ Append(Tail(w), e) \in Seq(S) /\ Len(Append(Tail(w), e)) = n
      /\ Append(Tail(w), e)[n] = e
  BY <1>2, AppendProperties
<1> QED
  BY <1>3, LenProperties

LEMMA BaseWithin ==
    ASSUME NEW w, BaseWindow \in Nat \ {0}, NEW lo \in Nat \ {0}, NEW hi \in Nat,
           w \in [1..BaseWindow -> {0} \cup (lo..hi)], w[BaseWindow] # 0
    PROVE  Bitrate!Base(w) \in lo..w[BaseWindow]
<1> DEFINE known == Bitrate!Known(w)
<1>1. known \subseteq lo..hi /\ w[BaseWindow] \in known
  BY DEF Bitrate!Known
<1>2. Bitrate!Base(w) = Bitrate!Min(known) /\ w[BaseWindow] \in Nat
  BY <1>1 DEF Bitrate!Base
<1>3. Bitrate!Min(known) \in known /\ Bitrate!Min(known) <= w[BaseWindow]
  <2>1. known \in SUBSET Nat /\ known # {}
    BY <1>1
  <2> QED
    BY <1>1, <2>1, MinOfNats
<1> HIDE DEF known
<1>4. Bitrate!Min(known) \in lo..hi
  BY <1>1, <1>3
<1>5. Bitrate!Min(known) \in lo..w[BaseWindow]
  BY <1>2, <1>3, <1>4
<1> QED
  BY <1>2, <1>5

LEMMA SetKeeps ==
    ASSUME Target \in Nat, Floor \in 0..Target, kbps \in Floor..Target,
           NEW rate \in Int, Bitrate!Set(rate)
    PROVE  /\ kbps' \in Floor..Target
           /\ rate <= kbps => kbps' <= kbps /\ rate <= kbps'
           /\ rate >= kbps => kbps' >= kbps
BY DEF Bitrate!Set, Bitrate!Larger, Bitrate!Smaller

(* The longest round trip of the line: a full buffer and the satellite's gap. *)
Worst == link.rtt + link.buffer + 70
Rtts == {0} \cup (link.rtt..Worst)
Packets == [sent : 0..Target, lost : Nat]

BitrateNumbers ==
    /\ Target \in Nat /\ Floor \in 0..Target /\ BaseWindow \in Nat \ {0}
    /\ link.rtt \in Nat \ {0} /\ link.buffer \in Nat /\ capacity \in Nat \ {0}

LEMMA BitrateConstants ==
    ASSUME Bitrate!TypeOK
    PROVE  BitrateNumbers
BY BitrateBounds DEF Bitrate!AdaptiveBitrateAssumption, Bitrate!TypeOK, BitrateNumbers

(* What a tick's measurement is worth. *)
Measured(s) ==
    /\ s.rtt \in link.rtt..Worst
    /\ s.rtts \in [1..BaseWindow -> Rtts]
    /\ s.loss \in [1..4 -> Packets]
    /\ s.queue \in 0..link.buffer + 70 /\ s.growth \in Int /\ s.share \in Nat /\ s.share <= 1000
    /\ s.overuse \in 0..2 /\ s.lossOnly \in 0..3 /\ s.high \in 0..5
    /\ s.high >= 5 => s.queue > 30
    /\ s.delayOveruse => s.queue > 30
    /\ s.lossOveruse => s.queue >= 15 \/ s.lossOnly >= 3

LEMMA WindowsSlide ==
    ASSUME BaseWindow \in Nat \ {0}, NEW R, rtts \in [1..BaseWindow -> R], NEW e \in R
    PROVE  /\ Append(Tail(rtts), e) \in [1..BaseWindow -> R]
           /\ Append(Tail(rtts), e)[BaseWindow] = e
<1>1. Append(Tail(rtts), e) \in [1..BaseWindow -> R]
  BY Slide
<1>2. Append(Tail(rtts), e)[BaseWindow] = e
  BY Slide
<1> QED
  BY <1>1, <1>2

LEMMA RatioWithin ==
    ASSUME NEW w \in [1..4 -> Packets], NEW from \in 1..4, Target \in Nat
    PROVE  Bitrate!LossRatio(w, from) \in Nat /\ Bitrate!LossRatio(w, from) <= 1000
<1> DEFINE of(i) == IF i < from THEN Bitrate!NoLoss ELSE w[i]
           sent == of(1).sent + of(2).sent + of(3).sent + of(4).sent
           lostOf == of(1).lost + of(2).lost + of(3).lost + of(4).lost
<1>1. \A i \in 1..4 : of(i).sent \in Nat /\ of(i).lost \in Nat
  BY DEF Packets, Bitrate!NoLoss
<1>2. sent \in Nat /\ lostOf \in Nat
  <2> HIDE DEF of
  <2> QED
    BY <1>1
<1>3. Bitrate!LossRatio(w, from) =
        IF sent = 0 THEN 0 ELSE Bitrate!Smaller(1000, (1000 * lostOf) \div sent)
  BY DEF Bitrate!LossRatio
<1> HIDE DEF sent, lostOf
<1>4. sent # 0 => (1000 * lostOf) \div sent \in Nat
  BY <1>2
<1> QED
  BY <1>2, <1>3, <1>4 DEF Bitrate!Smaller

LEMMA SignalsAreMeasured ==
    ASSUME Bitrate!TypeOK,
           NEW rtt \in link.rtt..Worst, NEW packets \in Packets
    PROVE  Measured(Bitrate!Signals(rtt, packets))
<1> DEFINE slid == Append(Tail(rtts), rtt)
           lossWindow == Append(Tail(loss), packets)
           q == rtt - Bitrate!Base(slid)
           growth == IF queue = Bitrate!Never THEN 0 ELSE ((q - queue) * 1000) \div Bitrate!Interval
           share == Bitrate!LossRatio(lossWindow, 1)
           later == Bitrate!LossRatio(lossWindow, 3)
           runs == IF q > Bitrate!QueueDelay /\ growth >= 0 THEN Bitrate!Smaller(overuse + 1, 2) ELSE 0
           recent == IF later > Bitrate!LossHigh /\ q < Bitrate!StandingQueue
                     THEN Bitrate!Smaller(lossOnly + 1, 3) ELSE 0
           draining == growth < 0 /\ q >= Bitrate!StandingQueue
           s == Bitrate!Signals(rtt, packets)
<1>1. BitrateNumbers
  BY BitrateConstants
<1>2. Worst \in Nat /\ link.rtt \in Nat \ {0} /\ Worst = Bitrate!MaxRtt
  BY <1>1 DEF BitrateNumbers, Worst, Bitrate!MaxRtt
<1>3. /\ slid \in [1..BaseWindow -> Rtts]
      /\ slid[BaseWindow] = rtt
  <2>1. rtts \in [1..BaseWindow -> Rtts] /\ BaseWindow \in Nat \ {0}
    BY <1>1, <1>2 DEF Bitrate!TypeOK, BitrateNumbers, Rtts
  <2>2. rtt \in Rtts
    BY DEF Rtts
  <2>3. /\ Append(Tail(rtts), rtt) \in [1..BaseWindow -> Rtts]
        /\ Append(Tail(rtts), rtt)[BaseWindow] = rtt
    BY <2>1, <2>2, WindowsSlide
  <2> QED
    BY <2>3
<1>4. lossWindow \in [1..4 -> Packets]
  <2>1. loss \in [1..4 -> Packets]
    BY DEF Bitrate!TypeOK, Packets
  <2>2. 4 \in Nat \ {0}
    OBVIOUS
  <2>3. Append(Tail(loss), packets) \in [1..4 -> Packets]
    BY <2>1, <2>2, Slide, Zenon
  <2> QED
    BY <2>3
<1>5. q \in 0..link.buffer + 70
  <2>1. rtt \in Nat /\ rtt # 0
    BY <1>2
  <2>2. Bitrate!Base(slid) \in link.rtt..rtt
    <3>1. BaseWindow \in Nat \ {0}
      BY <1>1 DEF BitrateNumbers
    <3> HIDE DEF slid
    <3> QED
      BY <1>2, <1>3, <2>1, <3>1, BaseWithin DEF Rtts
  <2> HIDE DEF slid
  <2> QED
    BY <1>1, <1>2, <2>1, <2>2 DEF BitrateNumbers, Worst
<1>6. share \in Nat /\ share <= 1000 /\ later \in Nat
  <2>1. Target \in Nat /\ 1 \in 1..4 /\ 3 \in 1..4
    BY <1>1 DEF BitrateNumbers
  <2> HIDE DEF lossWindow
  <2>2. Bitrate!LossRatio(lossWindow, 1) \in Nat /\ Bitrate!LossRatio(lossWindow, 1) <= 1000
    BY <1>4, <2>1, RatioWithin
  <2>3. Bitrate!LossRatio(lossWindow, 3) \in Nat
    BY <1>4, <2>1, RatioWithin
  <2> QED
    BY <2>2, <2>3
<1> HIDE DEF slid, lossWindow, q, share, later
<1>7. growth \in Int
  <2>1. queue \in Int
    BY <1>1 DEF Bitrate!TypeOK, BitrateNumbers, Bitrate!Never
  <2> QED
    BY <1>5, <2>1 DEF Bitrate!Interval
<1> HIDE DEF growth
<1>8. /\ runs \in 0..2 /\ (runs >= 2 => q > 30)
      /\ recent \in 0..3
  <2>1. overuse \in 0..2 /\ lossOnly \in 0..3 /\ q \in Int
    BY <1>1, <1>5 DEF Bitrate!TypeOK, BitrateNumbers
  <2>2. runs \in 0..2 /\ (runs >= 2 => q > 30)
    BY <1>7, <2>1 DEF Bitrate!Smaller, Bitrate!QueueDelay
  <2>3. recent \in 0..3
    BY <2>1 DEF Bitrate!Smaller
  <2> QED
    BY <2>2, <2>3
<1> HIDE DEF runs, recent, draining
<1>9. s = [rtt |-> rtt, rtts |-> slid, loss |-> lossWindow,
         queue |-> q, growth |-> growth, share |-> share,
         overuse |-> runs, lossOnly |-> recent,
         high |-> IF q > Bitrate!QueueDelay THEN Bitrate!Smaller(high + 1, 5) ELSE 0,
         delayOveruse |-> runs >= 2,
         lossOveruse |->
            \/ recent >= 3
            \/ share > Bitrate!LossHigh /\ q >= Bitrate!StandingQueue /\ ~draining
            \/ share >= Bitrate!LossLow /\ q >= Bitrate!StandingQueue /\ growth >= 0]
  BY DEF Bitrate!Signals, slid, lossWindow, q, growth, share, later, runs, recent, draining
<1>10. /\ s.high \in 0..5 /\ (s.high >= 5 => s.queue > 30)
  BY <1>5, <1>9 DEF Bitrate!TypeOK, Bitrate!Smaller, Bitrate!QueueDelay
<1>11. /\ s.delayOveruse => s.queue > 30
       /\ s.lossOveruse => s.queue >= 15 \/ s.lossOnly >= 3
  <2> HIDE DEF s
  <2>1. s.delayOveruse <=> runs >= 2
    BY <1>9
  <2>2. s.lossOveruse <=>
            (\/ recent >= 3
             \/ share > Bitrate!LossHigh /\ q >= Bitrate!StandingQueue /\ ~draining
             \/ share >= Bitrate!LossLow /\ q >= Bitrate!StandingQueue /\ growth >= 0)
    BY <1>9
  <2>3. s.queue = q /\ s.lossOnly = recent
    BY <1>9
  <2> QED
    BY <1>8, <2>1, <2>2, <2>3 DEF Bitrate!StandingQueue
<1>12. /\ s.rtt = rtt /\ s.rtts = slid /\ s.loss = lossWindow /\ s.queue = q
       /\ s.growth = growth /\ s.share = share /\ s.overuse = runs /\ s.lossOnly = recent
  BY <1>9
<1>13. Measured(s)
  <2> HIDE DEF s
  <2> QED
    BY <1>3, <1>4, <1>5, <1>6, <1>7, <1>8, <1>10, <1>11, <1>12 DEF Measured
<1> QED
  BY <1>13

Cuts == [shows : Nat, pause : Nat, queue : -1..link.buffer + 70]
LongAgo == Bitrate!FastProbeAfter + Bitrate!Interval
Lasts == [ago : 0..LongAgo, kbps : 0..Target]
Pauses == 0..Bitrate!Larger(3000, 2 * Worst)

(* What the controller keeps between two ticks, apart from the rate and what it
   measures.                                                                   *)
KeptTyped ==
    /\ loss' \in [1..4 -> Packets] /\ overuse' \in 0..2 /\ high' \in 0..5
    /\ pause' \in Pauses /\ cut' \in Cuts /\ last' \in Lasts

RateMoves(s) ==
    /\ kbps' \in Floor..Target
    /\ kbps' > kbps => pause = 0 /\ s.queue < 15
    /\ kbps' < kbps => /\ s.queue >= 15 \/ s.lossOnly >= 3
                       /\ kbps' >= (kbps * 30) \div 100
                       /\ pause = 0 \/ cut.shows = 0

LEMMA BitrateTypes ==
    ASSUME Bitrate!TypeOK
    PROVE  /\ kbps \in Floor..Target /\ high \in 0..5 /\ overuse \in 0..2
           /\ loss \in [1..4 -> Packets]
           /\ pause \in Pauses /\ cut \in Cuts /\ last \in Lasts
<1>1. BitrateNumbers
  BY BitrateConstants
<1>2. Worst = Bitrate!MaxRtt
  BY DEF Worst, Bitrate!MaxRtt
<1>3. pause \in Pauses
  BY <1>2 DEF Bitrate!TypeOK, Pauses, Bitrate!MaxHold
<1>4. cut \in Cuts
  BY DEF Bitrate!TypeOK, Cuts, Bitrate!Never
<1>5. last \in Lasts
  BY DEF Bitrate!TypeOK, Lasts, LongAgo
<1>6. loss \in [1..4 -> Packets]
  BY DEF Bitrate!TypeOK, Packets
<1> QED
  BY <1>3, <1>4, <1>5, <1>6 DEF Bitrate!TypeOK

LEMMA PausesCover ==
    ASSUME BitrateNumbers, NEW p \in Nat, p <= 3000 \/ p <= 2 * Worst
    PROVE  p \in Pauses /\ Bitrate!Sooner(p) \in Pauses /\ Bitrate!Sooner(p) \in Nat
<1>1. Worst \in Nat
  BY DEF BitrateNumbers, Worst
<1> QED
  BY <1>1 DEF Pauses, Bitrate!Sooner, Bitrate!Larger, Bitrate!Interval

LEMMA NoCutKeeps ==
    ASSUME Bitrate!TypeOK, Bitrate!NoCut
    PROVE  pause' \in Pauses /\ cut' \in Cuts /\ last' \in Lasts
<1>1. BitrateNumbers /\ pause \in Pauses /\ cut \in Cuts /\ last \in Lasts
  BY BitrateConstants, BitrateTypes
<1>2. Worst \in Nat
  BY <1>1 DEF BitrateNumbers, Worst
<1>3. pause' \in Pauses
  BY <1>1, <1>2 DEF Bitrate!NoCut, Bitrate!Sooner, Bitrate!Larger, Bitrate!Interval, Pauses
<1>4. cut' \in Cuts
  <2>1. cut.shows \in Nat /\ cut.pause \in Nat
    BY <1>1 DEF Cuts
  <2>2. Bitrate!Sooner(cut.shows) \in Nat /\ Bitrate!Sooner(cut.pause) \in Nat
    BY <2>1 DEF Bitrate!Sooner, Bitrate!Larger, Bitrate!Interval
  <2>3. cut' = [cut EXCEPT !.shows = Bitrate!Sooner(cut.shows), !.pause = Bitrate!Sooner(cut.pause)]
    BY DEF Bitrate!NoCut
  <2> QED
    BY <1>1, <2>2, <2>3 DEF Cuts
<1>5. last' \in Lasts
  <2>1. last.ago \in 0..LongAgo /\ LongAgo \in Nat /\ Bitrate!Interval \in Nat
    BY <1>1 DEF Lasts, LongAgo, Bitrate!Interval, Bitrate!FastProbeAfter
  <2>2. Bitrate!Smaller(last.ago + Bitrate!Interval, LongAgo) \in 0..LongAgo
    BY <2>1 DEF Bitrate!Smaller
  <2>3. last' = [last EXCEPT !.ago = Bitrate!Smaller(last.ago + Bitrate!Interval, LongAgo)]
    BY DEF Bitrate!NoCut, LongAgo
  <2> QED
    BY <1>1, <2>2, <2>3 DEF Lasts
<1> QED
  BY <1>3, <1>4, <1>5

LEMMA KeptKeeps ==
    ASSUME Bitrate!TypeOK, NEW s, Measured(s), Bitrate!Kept(s)
    PROVE  KeptTyped
<1>1. pause' \in Pauses /\ cut' \in Cuts /\ last' \in Lasts
  BY NoCutKeeps DEF Bitrate!Kept
<1> QED
  BY <1>1 DEF Bitrate!Kept, Measured, KeptTyped

LEMMA PauseKeeps ==
    ASSUME BitrateNumbers, NEW s, Measured(s), NEW length \in 0..Bitrate!MaxHold, Bitrate!Pause(s, length)
    PROVE  pause' \in Pauses /\ cut' \in Cuts
<1>1. Worst \in Nat /\ s.rtt \in 0..Worst /\ s.queue \in -1..link.buffer + 70
  <2>1. Worst \in Nat /\ link.rtt \in Nat /\ link.buffer + 70 \in Nat
    BY DEF BitrateNumbers, Worst
  <2>2. s.rtt \in link.rtt..Worst /\ s.queue \in 0..link.buffer + 70
    BY DEF Measured
  <2> QED
    BY <2>1, <2>2
<1> DEFINE least == Bitrate!Larger(Bitrate!HoldAfterDecrease, 2 * s.rtt)
           long == Bitrate!Larger(least, length)
<1>2. /\ least \in Nat /\ (least <= 3000 \/ least <= 2 * Worst)
      /\ long \in Nat /\ (long <= 3000 \/ long <= 2 * Worst)
  <2>1. length \in Nat /\ length <= 3000
    BY DEF Bitrate!MaxHold
  <2> QED
    BY <1>1, <2>1 DEF Bitrate!Larger, Bitrate!HoldAfterDecrease
<1>3. cut' = [shows |-> s.rtt, pause |-> Bitrate!Sooner(least), queue |-> s.queue]
      /\ pause' = Bitrate!Sooner(long)
  BY DEF Bitrate!Pause
<1> HIDE DEF least, long
<1>4. pause' \in Pauses /\ Bitrate!Sooner(least) \in Nat
  BY <1>2, <1>3, PausesCover
<1> QED
  BY <1>1, <1>3, <1>4 DEF Cuts

LEMMA OveruseKeeps ==
    ASSUME NEW estimate \in 0..Target, Bitrate!Overuse(estimate)
    PROVE  last' \in Lasts
<1>1. Bitrate!Interval \in 0..LongAgo
  BY DEF LongAgo, Bitrate!Interval, Bitrate!FastProbeAfter
<1> QED
  BY <1>1 DEF Bitrate!Overuse, Lasts

LEMMA RateStays ==
    ASSUME BitrateNumbers, kbps \in Floor..Target, UNCHANGED kbps, NEW s
    PROVE  RateMoves(s)
BY DEF RateMoves, BitrateNumbers

LEMMA HeldKeeps ==
    ASSUME Bitrate!TypeOK, NEW s, Measured(s), Bitrate!OveruseHeld(s) \/ Bitrate!Hold(s)
    PROVE  KeptTyped /\ RateMoves(s)
<1>1. Bitrate!Kept(s) /\ UNCHANGED kbps
  BY DEF Bitrate!OveruseHeld, Bitrate!Hold
<1> QED
  BY <1>1, KeptKeeps, RateStays, BitrateConstants, BitrateTypes

LEMMA RaisedKeeps ==
    ASSUME Bitrate!TypeOK, NEW s, Measured(s), Bitrate!Lossy(s) \/ Bitrate!Increase(s)
    PROVE  KeptTyped /\ RateMoves(s)
<1>1. /\ Target \in Nat /\ Floor \in 0..Target /\ kbps \in Floor..Target /\ kbps \in Nat
      /\ BitrateNumbers
  BY BitrateConstants, BitrateTypes DEF BitrateNumbers
<1>2. Bitrate!Kept(s) /\ pause = 0 /\ s.queue < 15
  BY DEF Bitrate!Lossy, Bitrate!Increase, Bitrate!May, Bitrate!StandingQueue
<1>3. kbps' \in Floor..Target /\ kbps' >= kbps
  <2>1. CASE UNCHANGED kbps
    BY <1>1, <2>1
  <2>2. CASE \E rate \in Int : rate >= kbps /\ Bitrate!Set(rate)
    BY <1>1, <2>2, SetKeeps
  <2>3. /\ Bitrate!Additive \in Int /\ Bitrate!Additive >= kbps
        /\ (kbps * 10194) \div 10000 \in Int /\ (kbps * 10194) \div 10000 >= kbps
        /\ (kbps * 10574) \div 10000 \in Int /\ (kbps * 10574) \div 10000 >= kbps
    BY <1>1 DEF Bitrate!Additive
  <2>4. \/ UNCHANGED kbps \/ Bitrate!Set(Bitrate!Additive)
        \/ Bitrate!Set((kbps * 10194) \div 10000) \/ Bitrate!Set((kbps * 10574) \div 10000)
    BY DEF Bitrate!Lossy, Bitrate!Increase
  <2> QED
    BY <2>1, <2>2, <2>3, <2>4
<1>4. RateMoves(s)
  BY <1>1, <1>2, <1>3 DEF RateMoves
<1> QED
  BY <1>2, <1>4, KeptKeeps

LEMMA ShareOfRate ==
    ASSUME NEW k \in Nat, NEW a \in Nat, NEW m \in Nat \ {0}, a <= m
    PROVE  (k * a) \div m \in 0..k
<1>1. k * a \in Nat /\ k * a <= k * m
  BY TimesKeepsOrder
<1> QED
  BY <1>1, DivBound

LEMMA DrainKeeps ==
    ASSUME Bitrate!TypeOK, NEW s, Measured(s), Bitrate!Drain(s)
    PROVE  KeptTyped /\ RateMoves(s)
<1> DEFINE f == Bitrate!Larger(500, Bitrate!Smaller(850, 1000 - s.queue))
           rate == (kbps * f) \div 1000
<1>1. /\ Target \in Nat /\ Floor \in 0..Target /\ kbps \in Floor..Target /\ kbps \in Nat
      /\ BitrateNumbers
  BY BitrateConstants, BitrateTypes DEF BitrateNumbers
<1>2. /\ s.high >= 5 /\ pause = 0 /\ Bitrate!Set(rate) /\ Bitrate!Pause(s, 0)
      /\ Bitrate!Overuse(kbps) /\ high' = 1 /\ loss' = s.loss /\ overuse' = s.overuse
  BY DEF Bitrate!Drain, Bitrate!Standing
<1>3. s.queue \in Int /\ s.queue > 30
  BY <1>1, <1>2 DEF Measured, BitrateNumbers
<1>4. f \in Nat /\ 500 <= f /\ f <= 1000
  BY <1>3 DEF Bitrate!Larger, Bitrate!Smaller
<1> HIDE DEF f
<1>5. rate \in 0..kbps
  BY <1>1, <1>4, ShareOfRate
<1>6. rate >= (kbps * 30) \div 100
  <2>1. kbps * f \in Nat /\ kbps * 500 <= kbps * f
    BY <1>1, <1>4, TimesKeepsOrder
  <2>2. (kbps * 500) \div 1000 >= (kbps * 30) \div 100
    BY <1>1
  <2> HIDE DEF rate
  <2> DEFINE x == kbps * f
  <2>3. rate = x \div 1000
    BY DEF rate
  <2> HIDE DEF x
  <2>4. x \in Nat /\ kbps * 500 <= x
    BY <2>1 DEF x
  <2>5. x \div 1000 >= (kbps * 500) \div 1000
    BY <1>1, <2>4
  <2>6. rate \in Int /\ (kbps * 500) \div 1000 \in Int /\ (kbps * 30) \div 100 \in Int
    BY <1>1, <1>5
  <2> QED
    BY <2>2, <2>3, <2>5, <2>6
<1> HIDE DEF rate
<1>7. kbps' \in Floor..Target /\ kbps' <= kbps /\ rate <= kbps'
  BY <1>1, <1>2, <1>5, SetKeeps
<1>8. RateMoves(s)
  BY <1>1, <1>2, <1>3, <1>5, <1>6, <1>7 DEF RateMoves
<1>9. pause' \in Pauses /\ cut' \in Cuts
  <2>1. 0 \in 0..Bitrate!MaxHold
    BY DEF Bitrate!MaxHold
  <2> QED
    BY <1>1, <1>2, <2>1, PauseKeeps
<1>10. last' \in Lasts
  BY <1>1, <1>2, OveruseKeeps
<1> QED
  BY <1>2, <1>8, <1>9, <1>10 DEF KeptTyped, Measured

LEMMA EstimatesWithin ==
    ASSUME kbps \in Nat, NEW s, Measured(s)
    PROVE  Bitrate!Estimates(s) \subseteq 0..kbps
<1> DEFINE capped == Bitrate!Smaller(s.share, IF s.queue > Bitrate!QueueDelay THEN 500 ELSE 250)
           byLoss == (kbps * (1000 - capped)) \div 1000
           byGrowth == (kbps * 1000) \div (1000 + s.growth)
<1>1. 1000 - capped \in Nat /\ 1000 - capped <= 1000
  <2>1. s.share \in Nat /\ s.share <= 1000
    BY DEF Measured
  <2>2. (IF s.queue > Bitrate!QueueDelay THEN 500 ELSE 250) \in {500, 250}
    OBVIOUS
  <2> QED
    BY <2>1, <2>2 DEF Bitrate!Smaller
<1>2. byLoss \in 0..kbps
  <2> HIDE DEF capped
  <2> QED
    BY <1>1, ShareOfRate
<1>3. s.growth > 0 => byGrowth \in 0..kbps
  <2>1. s.growth \in Int
    BY DEF Measured
  <2>2. s.growth > 0 => 1000 + s.growth \in Nat \ {0} /\ 1000 <= 1000 + s.growth
    BY <2>1
  <2> QED
    BY <2>2, ShareOfRate
<1>4. Bitrate!Estimates(s) \subseteq {byLoss} \cup (IF s.growth > 0 THEN {byGrowth} ELSE {})
  BY DEF Bitrate!Estimates
<1> HIDE DEF byLoss, byGrowth
<1> QED
  BY <1>2, <1>3, <1>4

LEMMA DifferenceIsPositive == \A a, b \in Int : a > b => a - b \in Nat \ {0}
OBVIOUS

LEMMA CutBackKeeps ==
    ASSUME Bitrate!TypeOK, NEW s, Measured(s), Bitrate!CutBack(s)
    PROVE  KeptTyped /\ RateMoves(s)
<1> DEFINE estimate == IF Bitrate!Estimates(s) = {} THEN kbps ELSE Bitrate!Min(Bitrate!Estimates(s))
           rate == Bitrate!Larger((kbps * 30) \div 100,
                                  Bitrate!Smaller((kbps * 85) \div 100, (estimate * 85) \div 100))
           length == IF estimate > kbps' /\ s.queue > 0
                     THEN Bitrate!Smaller(Bitrate!MaxHold, (s.queue * estimate) \div (estimate - kbps'))
                     ELSE 0
<1>1. /\ Target \in Nat /\ Floor \in 0..Target /\ kbps \in Floor..Target /\ kbps \in Nat
      /\ BitrateNumbers
  BY BitrateConstants, BitrateTypes DEF BitrateNumbers
<1>2. Bitrate!Overused(s) /\ Bitrate!MayCut(s)
  BY DEF Bitrate!CutBack
<1>3. /\ Bitrate!Set(rate) /\ Bitrate!Pause(s, length) /\ Bitrate!Overuse(estimate)
      /\ loss' = [i \in 1..4 |-> Bitrate!NoLoss] /\ overuse' = 0 /\ high' = s.high
  BY DEF Bitrate!CutBack
<1>4. estimate \in 0..kbps
  <2>1. Bitrate!Estimates(s) \subseteq 0..kbps
    BY <1>1, EstimatesWithin
  <2>2. CASE Bitrate!Estimates(s) = {}
    BY <1>1, <2>2
  <2>3. CASE Bitrate!Estimates(s) # {}
    <3>1. Bitrate!Estimates(s) \in SUBSET Nat
      BY <1>1, <2>1
    <3>2. Bitrate!Min(Bitrate!Estimates(s)) \in Bitrate!Estimates(s)
      BY <2>3, <3>1, MinOfNats
    <3> QED
      BY <2>1, <2>3, <3>2
  <2> QED
    BY <2>2, <2>3
<1> HIDE DEF estimate
<1>5. rate \in Int /\ rate <= kbps /\ rate >= (kbps * 30) \div 100
  BY <1>1, <1>4 DEF Bitrate!Larger, Bitrate!Smaller
<1> HIDE DEF rate
<1>6. kbps' \in Floor..Target /\ kbps' <= kbps /\ rate <= kbps'
  BY <1>1, <1>3, <1>5, SetKeeps
<1>7. s.queue \in Nat
  BY <1>1 DEF Measured, BitrateNumbers
<1>8. s.queue >= 15 \/ s.lossOnly >= 3
  <2>1. CASE s.delayOveruse
    BY <1>7, <2>1 DEF Measured
  <2>2. CASE s.lossOveruse
    BY <2>2 DEF Measured
  <2> QED
    BY <1>2, <2>1, <2>2 DEF Bitrate!Overused
<1>9. pause = 0 \/ cut.shows = 0
  BY <1>2 DEF Bitrate!MayCut
<1>10. RateMoves(s)
  <2>1. kbps' \in Int /\ (kbps * 30) \div 100 \in Int
    BY <1>1, <1>6
  <2> QED
    BY <1>1, <1>5, <1>6, <1>8, <1>9, <2>1 DEF RateMoves
<1>11. length \in 0..Bitrate!MaxHold
  <2>1. CASE estimate > kbps' /\ s.queue > 0
    <3> DEFINE gap == estimate - kbps'
               much == s.queue * estimate
    <3>1. gap \in Nat \ {0}
      <4>1. estimate \in Int /\ kbps' \in Int /\ estimate > kbps'
        BY <1>1, <1>4, <1>6, <2>1
      <4>2. estimate - kbps' \in Nat \ {0}
        BY <4>1, DifferenceIsPositive
      <4> QED
        BY <4>2
    <3>0. much \in Nat
      <4>1. estimate \in Nat
        BY <1>1, <1>4
      <4> QED
        BY <1>7, <4>1
    <3>2. length = Bitrate!Smaller(Bitrate!MaxHold, much \div gap)
      BY <2>1
    <3> HIDE DEF gap, much, length
    <3>3. much \div gap \in Nat /\ Bitrate!MaxHold \in Nat
      BY <3>0, <3>1 DEF Bitrate!MaxHold
    <3> QED
      BY <3>2, <3>3 DEF Bitrate!Smaller
  <2>2. CASE ~ (estimate > kbps' /\ s.queue > 0)
    <3>1. length = 0
      BY <2>2
    <3> HIDE DEF length
    <3> QED
      BY <3>1 DEF Bitrate!MaxHold
  <2> QED
    BY <2>1, <2>2
<1> HIDE DEF length
<1>12. pause' \in Pauses /\ cut' \in Cuts
  BY <1>1, <1>3, <1>11, PauseKeeps
<1>13. last' \in Lasts
  BY <1>1, <1>3, <1>4, OveruseKeeps
<1>14. loss' \in [1..4 -> Packets]
  BY <1>1, <1>3 DEF Packets, Bitrate!NoLoss
<1>15. high' \in 0..5 /\ overuse' \in 0..2
  BY <1>3 DEF Measured
<1> QED
  BY <1>10, <1>12, <1>13, <1>14, <1>15 DEF KeptTyped

LEMMA DecideKeeps ==
    ASSUME Bitrate!TypeOK, NEW s, Measured(s), Bitrate!Decide(s)
    PROVE  /\ KeptTyped /\ RateMoves(s)
           /\ rtts' = s.rtts /\ queue' = s.queue /\ lossOnly' = s.lossOnly
<1>1. /\ rtts' = s.rtts /\ queue' = s.queue /\ lossOnly' = s.lossOnly
      /\ \/ Bitrate!Drain(s) \/ Bitrate!CutBack(s)
         \/ Bitrate!OveruseHeld(s) \/ Bitrate!Hold(s)
         \/ Bitrate!Lossy(s) \/ Bitrate!Increase(s)
  BY DEF Bitrate!Decide
<1>2. CASE Bitrate!Drain(s)
  BY <1>1, <1>2, DrainKeeps
<1>3. CASE Bitrate!CutBack(s)
  BY <1>1, <1>3, CutBackKeeps
<1>4. CASE Bitrate!OveruseHeld(s) \/ Bitrate!Hold(s)
  BY <1>1, <1>4, HeldKeeps
<1>5. CASE Bitrate!Lossy(s) \/ Bitrate!Increase(s)
  BY <1>1, <1>5, RaisedKeeps
<1> QED
  BY <1>1, <1>2, <1>3, <1>4, <1>5

(* What a tick leaves of the controller. *)
ControllerAfter ==
    /\ KeptTyped /\ kbps' \in Floor..Target
    /\ rtts' \in [1..BaseWindow -> Rtts]
    /\ queue' \in -1..link.buffer + 70 /\ lossOnly' \in 0..3

LEMMA GuardedKeeps ==
    ASSUME Bitrate!TypeOK, Bitrate!Guarded
    PROVE  ControllerAfter /\ kbps' = kbps
<1>1. /\ rtts' = Append(Tail(rtts), 0) /\ loss' = Append(Tail(loss), Bitrate!NoLoss)
      /\ queue' = -1 /\ overuse' = 0 /\ Bitrate!NoCut /\ UNCHANGED <<kbps, lossOnly>>
      /\ high' = IF high > 0 THEN Bitrate!Smaller(high + 1, 5) ELSE 0
  BY DEF Bitrate!Guarded, Bitrate!Never
<1>2. BitrateNumbers /\ high \in 0..5 /\ kbps \in Floor..Target /\ loss \in [1..4 -> Packets]
  BY BitrateConstants, BitrateTypes
<1>3. pause' \in Pauses /\ cut' \in Cuts /\ last' \in Lasts
  BY <1>1, NoCutKeeps
<1>4. loss' \in [1..4 -> Packets]
  <2>1. Bitrate!NoLoss \in Packets /\ 4 \in Nat \ {0}
    BY <1>2 DEF Bitrate!NoLoss, Packets, BitrateNumbers
  <2>2. Append(Tail(loss), Bitrate!NoLoss) \in [1..4 -> Packets]
    BY <1>2, <2>1, Slide, Zenon
  <2> QED
    BY <1>1, <2>2
<1>5. rtts' \in [1..BaseWindow -> Rtts]
  <2>1. 0 \in Rtts /\ BaseWindow \in Nat \ {0}
    BY <1>2 DEF Rtts, BitrateNumbers
  <2>2. rtts \in [1..BaseWindow -> Rtts]
    BY DEF Bitrate!TypeOK, Rtts, Worst, Bitrate!MaxRtt
  <2>3. Append(Tail(rtts), 0) \in [1..BaseWindow -> Rtts]
    BY <2>1, <2>2, WindowsSlide
  <2> QED
    BY <1>1, <2>3
<1>6. high' \in 0..5
  BY <1>1, <1>2 DEF Bitrate!Smaller
<1>7. queue' \in -1..link.buffer + 70
  BY <1>1, <1>2 DEF BitrateNumbers
<1>8. lossOnly' \in 0..3
  BY <1>1 DEF Bitrate!TypeOK
<1> QED
  BY <1>1, <1>2, <1>3, <1>4, <1>5, <1>6, <1>7, <1>8 DEF ControllerAfter, KeptTyped

LEMMA TimesIsNatural == \A b \in Nat : b * 250 \in Nat
OBVIOUS

LEMMA AtMostTrans == \A a, b, c \in Int : a <= b /\ b <= c => a <= c
OBVIOUS

LEMMA TickKeepsRate ==
    ASSUME Bitrate!TypeOK, NEW burst \in Nat, Bitrate!Tick(burst),
           link' = link, capacity' \in Capacities
    PROVE  /\ ControllerAfter
           /\ backlog' \in Nat /\ backlog' * 250 <= capacity' * link.buffer
           /\ phase' \in 0..Cycle - 1
           /\ Bitrate!MovesForAReason
<1> DEFINE waiting == Bitrate!Larger(0, backlog + kbps - capacity')
           room == (capacity' * link.buffer) \div 250
           gap == IF Bitrate!InGap THEN [ms |-> 70, lost |-> (kbps * 2) \div 5]
                  ELSE [ms |-> 0, lost |-> 0]
           lostNow == Bitrate!Larger(0, waiting - room) + gap.lost + burst
           rtt == link.rtt + (backlog' * 250) \div capacity' + gap.ms
           packets == [sent |-> kbps, lost |-> lostNow]
           s == Bitrate!Signals(rtt, packets)
<1>1. /\ BitrateNumbers /\ kbps \in Floor..Target /\ kbps \in 0..Target /\ kbps \in Nat
      /\ backlog \in Nat /\ capacity' \in Nat \ {0} /\ link.buffer \in Nat
      /\ link.rtt \in Nat /\ Cycle \in Nat \ {0} /\ phase \in Nat
  <2>1. /\ BitrateNumbers /\ kbps \in Floor..Target /\ Target \in Nat /\ Floor \in 0..Target
        /\ link.buffer \in Nat /\ link.rtt \in Nat
    BY BitrateConstants, BitrateTypes DEF BitrateNumbers
  <2>2. Cycle \in Nat \ {0} /\ capacity' \in Nat \ {0}
    BY BitrateBounds DEF Bitrate!AdaptiveBitrateAssumption
  <2>3. backlog \in Nat /\ phase \in 0..Cycle - 1
    BY DEF Bitrate!TypeOK
  <2> QED
    BY <2>1, <2>2, <2>3
<1>2. /\ backlog' = Bitrate!Smaller(waiting, room) /\ phase' = (phase + 1) % Cycle
      /\ IF Bitrate!GuardActive THEN Bitrate!Guarded ELSE Bitrate!Decide(s)
  BY DEF Bitrate!Tick, Bitrate!Interval
<1>3. waiting \in Nat /\ room \in Nat /\ room * 250 <= capacity' * link.buffer
  <2>1. waiting \in Nat
    <3>1. backlog + kbps - capacity' \in Int
      BY <1>1
    <3> QED
      BY <3>1 DEF Bitrate!Larger
  <2> DEFINE all == capacity' * link.buffer
  <2>2. all \in Nat
    BY <1>1
  <2> HIDE DEF all
  <2>3. all \div 250 \in Nat /\ (all \div 250) * 250 <= all
    BY <2>2
  <2> QED
    BY <2>1, <2>3 DEF all
<1>4. gap.ms \in 0..70 /\ gap.lost \in Nat
  BY <1>1
<1> HIDE DEF waiting, room, gap
<1>5. backlog' \in Nat /\ backlog' * 250 <= room * 250
  BY <1>2, <1>3 DEF Bitrate!Smaller
<1>6. backlog' * 250 <= capacity' * link.buffer
  <2> DEFINE all == capacity' * link.buffer
  <2>1. all \in Nat /\ room * 250 <= all
    BY <1>1, <1>3
  <2> HIDE DEF all
  <2>2. room \in Nat /\ backlog' \in Nat /\ backlog' * 250 <= room * 250
    BY <1>3, <1>5
  <2>3. backlog' * 250 \in Int /\ room * 250 \in Int /\ all \in Int
    BY <2>1, <2>2
  <2>4. backlog' * 250 <= all
    BY <2>1, <2>2, <2>3, AtMostTrans, Zenon
  <2> QED
    BY <2>4 DEF all
<1>7. phase' \in 0..Cycle - 1
  BY <1>1, <1>2
<1>8. CASE Bitrate!GuardActive
  <2>1. ControllerAfter /\ kbps' = kbps
    BY <1>2, <1>8, GuardedKeeps
  <2>2. ~ (kbps' > kbps) /\ ~ (kbps' < kbps)
    BY <1>1, <2>1
  <2> QED
    BY <1>5, <1>6, <1>7, <2>1, <2>2 DEF Bitrate!MovesForAReason
<1>9. CASE ~Bitrate!GuardActive
  <2>1. rtt \in link.rtt..Worst
    <3>1. (backlog' * 250) \div capacity' \in 0..link.buffer
      <4>1. backlog' * 250 \in Nat /\ backlog' * 250 <= link.buffer * capacity'
        <5>1. link.buffer * capacity' = capacity' * link.buffer
          BY <1>1
        <5>2. backlog' * 250 \in Nat
          BY <1>5, TimesIsNatural, Zenon
        <5> QED
          BY <1>6, <5>1, <5>2, Zenon
      <4> QED
        BY <1>1, <4>1, DivBound
    <3> QED
      BY <1>1, <1>4, <3>1 DEF Worst
  <2>2. packets \in Packets
    BY <1>1, <1>3, <1>4 DEF Packets, Bitrate!Larger
  <2> HIDE DEF rtt, packets
  <2>3. Measured(s)
    BY <2>1, <2>2, SignalsAreMeasured
  <2> HIDE DEF s
  <2>4. /\ KeptTyped /\ RateMoves(s)
        /\ rtts' = s.rtts /\ queue' = s.queue /\ lossOnly' = s.lossOnly
    BY <1>2, <1>9, <2>3, DecideKeeps
  <2>5. s.queue \in 0..link.buffer + 70
    BY <2>3 DEF Measured
  <2>6. ControllerAfter
    BY <1>1, <2>3, <2>4, <2>5 DEF ControllerAfter, Measured, RateMoves
  <2>7. Bitrate!MovesForAReason
    BY <1>1, <1>9, <2>4, <2>5 DEF Bitrate!MovesForAReason, RateMoves, Bitrate!StandingQueue
  <2> QED
    BY <1>5, <1>6, <1>7, <2>6, <2>7
<1> QED
  BY <1>8, <1>9

LEMMA BitrateStep ==
    ASSUME Bitrate!TypeOK, [Bitrate!Next]_bitrate
    PROVE  Bitrate!TypeOK' /\ (UNCHANGED bitrate \/ Bitrate!MovesForAReason)
<1>1. BitrateNumbers /\ kbps \in Nat /\ {2, MaxBursts} \subseteq Nat
  BY BitrateConstants, BitrateTypes, BitrateBounds
     DEF BitrateNumbers, Bitrate!AdaptiveBitrateAssumption
<1>2. CASE UNCHANGED bitrate
  BY <1>2 DEF bitrate, Bitrate!TypeOK, Bitrate!MaxRtt
<1>3. ASSUME NEW burst \in Nat, Bitrate!Tick(burst), link' = link, capacity' \in Capacities,
             steady' \in 0..Bitrate!CalmMax, linkChanges' \in 0..2, bursts' \in 0..MaxBursts
      PROVE  Bitrate!TypeOK' /\ Bitrate!MovesForAReason
  <2>1. /\ ControllerAfter
        /\ backlog' \in Nat /\ backlog' * 250 <= capacity' * link.buffer
        /\ phase' \in 0..Cycle - 1
        /\ Bitrate!MovesForAReason
    BY <1>3, TickKeepsRate
  <2>2. link \in Kinds
    BY DEF Bitrate!TypeOK
  <2>3. /\ kbps' \in Floor..Target /\ overuse' \in 0..2 /\ lossOnly' \in 0..3 /\ high' \in 0..5
        /\ loss' \in [1..4 -> [sent : 0..Target, lost : Nat]]
        /\ queue' \in Bitrate!Never..link'.buffer + 70
    BY <1>3, <2>1 DEF ControllerAfter, KeptTyped, Packets, Bitrate!Never
  <2>4. rtts' \in [1..BaseWindow -> {0} \cup (link'.rtt..Bitrate!MaxRtt')]
    BY <1>3, <2>1 DEF ControllerAfter, Rtts, Worst, Bitrate!MaxRtt
  <2>5. pause' \in 0..Bitrate!Larger(Bitrate!MaxHold, 2 * Bitrate!MaxRtt')
    BY <1>3, <2>1 DEF ControllerAfter, KeptTyped, Pauses, Worst, Bitrate!MaxRtt, Bitrate!MaxHold
  <2>6. cut' \in [shows : Nat, pause : Nat, queue : Bitrate!Never..link'.buffer + 70]
    BY <1>3, <2>1 DEF ControllerAfter, KeptTyped, Cuts, Bitrate!Never
  <2>7. last' \in [ago : 0..Bitrate!FastProbeAfter + Bitrate!Interval, kbps : 0..Target]
    BY <2>1 DEF ControllerAfter, KeptTyped, Lasts, LongAgo
  <2>8. backlog' \in Nat /\ backlog' * Bitrate!Interval =< capacity' * link'.buffer
    BY <1>3, <2>1 DEF Bitrate!Interval
  <2>9. Bitrate!TypeOK'
    BY <1>3, <2>1, <2>2, <2>3, <2>4, <2>5, <2>6, <2>7, <2>8 DEF Bitrate!TypeOK, Bitrate!Larger
  <2> QED
    BY <2>1, <2>9
<1>4. CASE Bitrate!Steady
  <2>1. /\ link' = link /\ capacity' = capacity /\ linkChanges' = linkChanges
        /\ bursts' = bursts /\ Bitrate!Tick(0)
        /\ steady' = Bitrate!Smaller(steady + 1, Bitrate!CalmMax)
    BY <1>4 DEF Bitrate!Steady
  <2>2. steady' \in 0..Bitrate!CalmMax
    BY <2>1 DEF Bitrate!TypeOK, Bitrate!Smaller, Bitrate!CalmMax
  <2>3. capacity \in Capacities /\ linkChanges \in 0..2 /\ bursts \in 0..MaxBursts
    BY DEF Bitrate!TypeOK
  <2> QED
    BY <1>3, <2>1, <2>2, <2>3
<1>5. ASSUME NEW to \in Capacities, Bitrate!Change(to)
      PROVE  Bitrate!TypeOK' /\ Bitrate!MovesForAReason
  <2>1. /\ link' = link /\ capacity' = to /\ linkChanges < 2 /\ linkChanges' = linkChanges + 1
        /\ bursts' = bursts /\ Bitrate!Tick(0) /\ steady' = 0
    BY <1>5 DEF Bitrate!Change
  <2>2. steady' \in 0..Bitrate!CalmMax
    BY <2>1 DEF Bitrate!CalmMax
  <2>3. linkChanges' \in 0..2 /\ bursts \in 0..MaxBursts
    BY <2>1 DEF Bitrate!TypeOK
  <2> QED
    BY <1>3, <1>5, <2>1, <2>2, <2>3
<1>6. ASSUME NEW thousandths \in {30, 600}, Bitrate!Burst(thousandths)
      PROVE  Bitrate!TypeOK' /\ Bitrate!MovesForAReason
  <2>1. /\ link' = link /\ capacity' = capacity /\ linkChanges' = linkChanges
        /\ bursts < MaxBursts /\ bursts' = bursts + 1 /\ steady' = 0
        /\ Bitrate!Tick((kbps * thousandths) \div 1000)
    BY <1>6 DEF Bitrate!Burst
  <2>2. steady' \in 0..Bitrate!CalmMax
    BY <2>1 DEF Bitrate!CalmMax
  <2>3. capacity \in Capacities /\ linkChanges \in 0..2 /\ bursts' \in 0..MaxBursts
    <3>1. capacity \in Capacities /\ linkChanges \in 0..2 /\ bursts \in 0..MaxBursts
      BY DEF Bitrate!TypeOK
    <3> QED
      BY <1>1, <2>1, <3>1
  <2>4. (kbps * thousandths) \div 1000 \in Nat
    BY <1>1
  <2> QED
    BY <1>3, <2>1, <2>2, <2>3, <2>4
<1> QED
  BY <1>2, <1>4, <1>5, <1>6 DEF Bitrate!Next

LEMMA BitrateInitTrue ==
    ASSUME Bitrate!Init
    PROVE  Bitrate!TypeOK
<1>1. /\ Target \in Nat /\ Floor \in 0..Target /\ BaseWindow \in Nat \ {0}
      /\ link.rtt \in Nat \ {0} /\ link.buffer \in Nat /\ capacity \in Nat \ {0}
      /\ Cycle \in Nat \ {0} /\ MaxBursts \in Nat
  BY BitrateBounds DEF Bitrate!AdaptiveBitrateAssumption, Bitrate!Init
<1>2. kbps \in Floor..Target
  BY <1>1 DEF Bitrate!Init, Bitrate!Larger
<1>3. backlog \in Nat /\ backlog * Bitrate!Interval =< capacity * link.buffer
  <2>1. backlog = 0 /\ capacity * link.buffer \in Nat
    BY <1>1 DEF Bitrate!Init
  <2> QED
    BY <2>1 DEF Bitrate!Interval
<1>4. loss \in [1..4 -> [sent : 0..Target, lost : Nat]]
  BY <1>1 DEF Bitrate!Init, Bitrate!NoLoss
<1>5. last \in [ago : 0..Bitrate!FastProbeAfter + Bitrate!Interval, kbps : 0..Target]
  BY <1>1 DEF Bitrate!Init, Bitrate!FastProbeAfter, Bitrate!Interval
<1>6. /\ queue \in Bitrate!Never..link.buffer + 70
      /\ cut \in [shows : Nat, pause : Nat, queue : Bitrate!Never..link.buffer + 70]
  BY <1>1 DEF Bitrate!Init, Bitrate!Never
<1>7. pause \in 0..Bitrate!Larger(Bitrate!MaxHold, 2 * Bitrate!MaxRtt)
  <2>1. 2 * Bitrate!MaxRtt \in Nat
    BY <1>1 DEF Bitrate!MaxRtt
  <2> QED
    BY <2>1 DEF Bitrate!Init, Bitrate!Larger, Bitrate!MaxHold
<1>8. phase \in 0..Cycle - 1 /\ bursts \in 0..MaxBursts /\ steady \in 0..Bitrate!CalmMax
  BY <1>1 DEF Bitrate!Init, Bitrate!CalmMax
<1>9. rtts \in [1..BaseWindow -> {0} \cup (link.rtt..Bitrate!MaxRtt)]
  BY DEF Bitrate!Init
<1> QED
  BY <1>2, <1>3, <1>4, <1>5, <1>6, <1>7, <1>8, <1>9 DEF Bitrate!Init, Bitrate!TypeOK

LEMMA PartsBitrateStep ==
    ASSUME [PartsNext]_<<vars, fire, bitrate, part>>
    PROVE  [Bitrate!Next]_bitrate
BY DEF PartsNext

(***************************************************************************)
(* For every target, floor, window, set of lines and set of capacities: the *)
(* bitrate stays between the floor and the target, the queue the controller *)
(* takes for real is never negative nor longer than the buffer, and what    *)
(* waits in the buffer fits in it (adaptive_bitrate.py:97-98 and :297-298). *)
(***************************************************************************)
THEOREM BitrateTypeCorrect == PartsSpec => []Bitrate!TypeOK
<1>1. PartsInit => Bitrate!TypeOK
  BY BitrateInitTrue DEF PartsInit
<1>2. Bitrate!TypeOK /\ [PartsNext]_<<vars, fire, bitrate, part>> => Bitrate!TypeOK'
  BY PartsBitrateStep, BitrateStep
<1> QED
  BY <1>1, <1>2, PTL DEF PartsSpec

(***************************************************************************)
(* In every step: the bitrate rises only without a queue and without a      *)
(* pause, falls only for a queue or for losses that last, never below 30%   *)
(* of itself, and never twice before the first cut could show its effect    *)
(* (adaptive_bitrate.py:13-44).                                             *)
(***************************************************************************)
THEOREM BitrateMoves == PartsSpec => [][Bitrate!MovesForAReason]_bitrate
<1>1. Bitrate!TypeOK /\ [PartsNext]_<<vars, fire, bitrate, part>>
        => [Bitrate!MovesForAReason]_bitrate
  BY PartsBitrateStep, BitrateStep
<1> QED
  BY <1>1, BitrateTypeCorrect, PTL DEF PartsSpec
=============================================================================
