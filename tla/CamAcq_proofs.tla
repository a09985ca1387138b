---------------------------- MODULE CamAcq_proofs ----------------------------
(***************************************************************************)
(* Safety of the acquisition commands of libcam for any number of          *)
(* exposures and any driver, and their refinement of CameraContract.       *)
(***************************************************************************)
EXTENDS CamAcq, SequenceTheorems, TLAPS

\* The exposure a blocking acquisition waits for is the last one started; it is
\* under way exactly until acquisitionInProgress drops to 0.
WaitInv ==
  waiting # <<>> =>
    /\ waiting = <<started>>
    /\ started \in Exposures
    /\ reply[started] = "none"
    /\ acquisitionInProgress # 0 => timerExpiration = started
    /\ acquisitionInProgress = 0 => timerExpiration = NULL /\ outcome[started] \in Ended

\* An armed timer belongs to the last exposure started, the only one exposing.
TimerInv ==
  /\ timerExpiration # NULL => timerExpiration = started
  /\ \A e \in Exposures : outcome[e] = "exposing" <=> timerExpiration = e
  /\ \A e \in Exposures : outcome[e] = "lost" => open = "released"
  /\ open = "released" => waiting = <<>> /\ timerExpiration = NULL

\* Exposures not started yet have no history, and an answer follows the end.
HistoryInv ==
  /\ \A e \in Exposures : e > started => outcome[e] = "none" /\ reply[e] = "none"
  /\ \A e \in Exposures : reply[e] # "none" => outcome[e] \in Ended

AcqInv == TypeOK /\ WaitInv /\ TimerInv /\ HistoryInv
-----------------------------------------------------------------------------
LEMMA NullNotExposure == NULL \notin Exposures /\ \A e \in Exposures : e \in Nat /\ e # NULL
  BY CamAcqAssumption DEF NULL, Exposures

\* Popping the only blocking acquisition leaves none.
LEMMA PopSingleton ==
  ASSUME NEW e
  PROVE  LET w == <<e>> IN /\ w[Len(w)] = e
                           /\ SubSeq(w, 1, Len(w) - 1) = <<>>
  OBVIOUS

LEMMA ExposureRange == \A e : e \in Exposures <=> e \in Nat /\ 1 <= e /\ e <= MaxAcq
  BY CamAcqAssumption DEF Exposures

LEMMA StartedNat == AcqInv => started \in Nat
<1>1. AcqInv => started \in 0..MaxAcq
  BY DEF AcqInv, TypeOK
<1> QED
  BY <1>1, CamAcqAssumption

LEMMA EmptyIsSeq == \A S : <<>> \in Seq(S)
  BY EmptySeq

\* A step that leaves the state of a part of the invariant alone preserves it.
LEMMA WaitFrame ==
  ASSUME WaitInv,
         UNCHANGED <<waiting, started, reply, acquisitionInProgress, timerExpiration, outcome>>
  PROVE  WaitInv'
  BY DEF WaitInv

LEMMA TimerFrame ==
  ASSUME TimerInv, UNCHANGED <<timerExpiration, started, outcome, open, waiting>>
  PROVE  TimerInv'
  BY DEF TimerInv

LEMMA HistoryFrame ==
  ASSUME HistoryInv, UNCHANGED <<started, outcome, reply>>
  PROVE  HistoryInv'
  BY DEF HistoryInv

LEMMA InitInv == Init => AcqInv
<1> SUFFICES ASSUME Init PROVE AcqInv
  OBVIOUS
<1>1. TypeOK
  <2>1. waiting = <<>> /\ started = 0
    BY DEF Init
  <2>2. waiting \in Seq(Exposures) /\ started \in 0..MaxAcq
    BY <2>1, CamAcqAssumption
  <2>3. outcome \in [Exposures -> Outcomes] /\ reply \in [Exposures -> {"none", "ok", "error"}]
    BY DEF Init, Outcomes
  <2>4. timerExpiration \in Exposures \cup {NULL}
    BY DEF Init
  <2>5. open \in {"open", "closed", "released"}
    BY DEF Init
  <2>6. acquisitionInProgress = 0
    BY DEF Init
  <2>7. acquisitionInProgress \in 0..2
    BY <2>6
  <2>8. /\ blockingAcquisition \in {0, 1}
        /\ driver \in Drivers
        /\ stop_detected \in {0, 1} /\ mode_stop_acq \in {0, 1} /\ clockbegin \in {0, 1}
        /\ msg \in {"", "start", "read", "dark"} /\ status \in {"stand", "exp", "read", "unset"}
    BY DEF Init
  <2> QED
    BY <2>2, <2>3, <2>4, <2>5, <2>7, <2>8 DEF TypeOK
<1>2. WaitInv
  BY DEF Init, WaitInv
<1>3. TimerInv
  BY NullNotExposure DEF Init, TimerInv
<1>4. HistoryInv
  BY DEF Init, HistoryInv
<1> QED
  BY <1>1, <1>2, <1>3, <1>4 DEF AcqInv

\* AcqRead ends the exposure of the armed timer, whichever way it takes.
LEMMA AcqReadStep ==
  ASSUME AcqInv, InUse, Dispatch, open # "released",
         NEW t, NEW f, AcqRead(timerExpiration, t, f),
         stop_detected' \in {0, 1},
         UNCHANGED <<driver, blockingAcquisition, mode_stop_acq, open, waiting, started,
                     reply>>
  PROVE  AcqInv'
<1>1. PICK r \in Ended :
        /\ AcqReadCommon(timerExpiration, r)
        /\ msg' \in {"", "start", "read", "dark"}
        /\ status' \in {"stand", "read"}
  BY DEF AcqRead, AcqReadDrop, AcqReadImage, MessageLeft, ErrorMessage, DriverMessage,
         Ended, AcqInv, TypeOK
<1>2. timerExpiration \in Exposures /\ timerExpiration = started
  BY DEF AcqInv, TypeOK, TimerInv, InUse
<1>3. outcome' = [outcome EXCEPT ![started] = r] /\ outcome'[started] = r
      /\ timerExpiration' = NULL /\ acquisitionInProgress' = 0 /\ clockbegin' = 0
  BY <1>1, <1>2 DEF AcqReadCommon, AcqInv, TypeOK
<1>4. TypeOK'
  <2>1. outcome' \in [Exposures -> Outcomes]
    BY <1>2, <1>3 DEF AcqInv, TypeOK, Outcomes, Ended
  <2> QED
    <3>1. /\ timerExpiration' \in Exposures \cup {NULL}
          /\ acquisitionInProgress' \in 0..2
          /\ clockbegin' \in {0, 1}
      BY <1>3
    <3>2. /\ waiting' \in Seq(Exposures) /\ started' \in 0..MaxAcq
          /\ reply' \in [Exposures -> {"none", "ok", "error"}]
      BY DEF AcqInv, TypeOK
    <3>3. /\ driver' \in Drivers /\ blockingAcquisition' \in {0, 1} /\ mode_stop_acq' \in {0, 1}
          /\ open' \in {"open", "closed", "released"}
      BY DEF AcqInv, TypeOK
    <3> QED
      BY <1>1, <2>1, <3>1, <3>2, <3>3 DEF TypeOK
<1>5. WaitInv'
  BY <1>1, <1>2, <1>3 DEF AcqInv, WaitInv
<1>6. TimerInv'
  BY <1>1, <1>2, <1>3, NullNotExposure DEF AcqInv, TimerInv, TypeOK, Ended
<1>7. HistoryInv'
  <2>1. \A e \in Exposures : outcome'[e] = IF e = started THEN r ELSE outcome[e]
    BY <1>2, <1>3 DEF AcqInv, TypeOK
  <2>2. ~(started > started)
    BY StartedNat
  <2> QED
    BY <1>1, <2>1, <2>2 DEF AcqInv, HistoryInv
<1> QED
  BY <1>4, <1>5, <1>6, <1>7 DEF AcqInv

\* While a blocking acquisition waits and the thread dispatches, its timer is armed.
LEMMA WaitBlocksStart ==
  ASSUME AcqInv, Dispatch, ~InUse
  PROVE  waiting = <<>>
  BY NullNotExposure DEF AcqInv, WaitInv, Dispatch, InUse

LEMMA NextInv == AcqInv /\ [Next]_vars => AcqInv'
<1> SUFFICES ASSUME AcqInv, [Next]_vars PROVE AcqInv'
  OBVIOUS
<1>1. CASE TimerFires
  BY <1>1, AcqReadStep DEF TimerFires, InUse, AcqInv, TypeOK
<1>2. ASSUME NEW b \in {0, 1}, AcqRefused(b) PROVE AcqInv'
  <2>1. TypeOK'
    <3>1. blockingAcquisition' \in {0, 1} /\ acquisitionInProgress' = acquisitionInProgress
      BY <1>2 DEF AcqRefused
    <3> QED
      BY <1>2, <3>1, Zenon DEF AcqRefused, AcqInv, TypeOK
  <2> QED
    BY <1>2, <2>1, WaitFrame, TimerFrame, HistoryFrame DEF AcqRefused, AcqInv
<1>3. ASSUME NEW b \in {0, 1}, AcqStartFails(b) PROVE AcqInv'
  <2>1. timerExpiration = NULL /\ waiting = <<>>
    BY <1>3, WaitBlocksStart DEF AcqStartFails, Command, MayStart, InUse
  <2> QED
    BY <1>3, <2>1, TimerFrame, HistoryFrame DEF AcqStartFails, MessageAtStart, AcqInv, TypeOK, WaitInv
<1>4. ASSUME NEW b \in {0, 1}, AcqStarts(b) PROVE AcqInv'
  <2>1. timerExpiration = NULL /\ waiting = <<>> /\ open # "released"
    BY <1>4, WaitBlocksStart DEF AcqStarts, Command, MayStart, InUse
  <2>2. started + 1 \in Exposures
    <3>1. started \in Nat /\ started < MaxAcq
      BY <1>4, StartedNat DEF AcqStarts
    <3> QED
      BY <3>1, CamAcqAssumption, ExposureRange
  <2>3. /\ started' = started + 1
        /\ timerExpiration' = started'
        /\ outcome' = [outcome EXCEPT ![started'] = "exposing"]
        /\ waiting' = IF b = 1 THEN <<started'>> ELSE <<>>
        /\ acquisitionInProgress' = IF b = 1 THEN 1 ELSE acquisitionInProgress
        /\ reply' = reply /\ open' = open
    <3>1. Append(<<>>, started + 1) = <<started + 1>>
      OBVIOUS
    <3> QED
      BY <1>4, <2>1, <3>1 DEF AcqStarts
  <2>4. TypeOK'
    <3>1. waiting' \in Seq(Exposures)
      BY <2>2, <2>3
    <3>2. started' \in 0..MaxAcq
      BY <2>2, <2>3, ExposureRange, CamAcqAssumption
    <3>3. outcome' \in [Exposures -> Outcomes]
      BY <2>2, <2>3 DEF AcqInv, TypeOK, Outcomes
    <3>4. timerExpiration' \in Exposures \cup {NULL}
      BY <2>2, <2>3
    <3> QED
      <4>1. blockingAcquisition' \in {0, 1} /\ stop_detected' \in {0, 1}
        BY <1>4 DEF AcqStarts
      <4>2. /\ msg' \in {"", "start", "read", "dark"} /\ clockbegin' \in {0, 1}
            /\ status' \in {"stand", "exp", "read", "unset"}
        BY <1>4 DEF AcqStarts, MessageAtStart
      <4>3. /\ driver' \in Drivers /\ mode_stop_acq' \in {0, 1}
            /\ open' \in {"open", "closed", "released"}
            /\ reply' \in [Exposures -> {"none", "ok", "error"}]
        BY <1>4 DEF AcqStarts, AcqInv, TypeOK
      <4>4. acquisitionInProgress' \in 0..2
        <5>1. acquisitionInProgress \in 0..2
          BY DEF AcqInv, TypeOK
        <5> QED
          BY <2>3, <5>1
      <4> QED
        BY <3>1, <3>2, <3>3, <3>4, <4>1, <4>2, <4>3, <4>4 DEF TypeOK
  <2>5. outcome[started'] = "none" /\ reply[started'] = "none"
    <3>1. started' > started
      BY <2>3, StartedNat
    <3> QED
      BY <2>2, <2>3, <3>1 DEF AcqInv, HistoryInv
  <2>6. WaitInv'
    BY <2>2, <2>3, <2>5 DEF WaitInv
  <2>7. TimerInv'
    BY <2>1, <2>2, <2>3, NullNotExposure DEF AcqInv, TimerInv, TypeOK
  <2>8. HistoryInv'
    <3>1. \A e \in Exposures : outcome'[e] = IF e = started' THEN "exposing" ELSE outcome[e]
      BY <2>2, <2>3 DEF AcqInv, TypeOK
    <3>2. \A e \in Exposures : e > started' => e > started /\ e # started'
      BY <2>3, ExposureRange, StartedNat
    <3> QED
      BY <2>3, <2>5, <3>1, <3>2 DEF AcqInv, HistoryInv
  <2> QED
    BY <2>4, <2>6, <2>7, <2>8 DEF AcqInv
<1>5. CASE AcqReturns
  <2>1. /\ waiting = <<started>> /\ started \in Exposures
        /\ timerExpiration = NULL /\ outcome[started] \in Ended
    BY <1>5 DEF AcqReturns, AcqInv, WaitInv
  <2>2. /\ waiting' = <<>> /\ timerExpiration' = NULL /\ outcome' = outcome
        /\ reply' = [reply EXCEPT ![started] = IF msg # "" THEN "error" ELSE "ok"]
    BY <1>5, <2>1, PopSingleton DEF AcqReturns, InUse
  <2> QED
    <3>1. TypeOK'
      <4>1. waiting' \in Seq(Exposures)
        BY <2>2, EmptyIsSeq
      <4>2. reply' \in [Exposures -> {"none", "ok", "error"}]
        BY <2>1, <2>2 DEF AcqInv, TypeOK
      <4> QED
        BY <1>5, <2>2, <4>1, <4>2 DEF AcqReturns, AcqInv, TypeOK
    <3>2. WaitInv'
      BY <2>2 DEF WaitInv
    <3>3. TimerInv'
      <4>1. started' = started /\ open' = open
        BY <1>5 DEF AcqReturns
      <4> QED
        BY <2>1, <2>2, <4>1 DEF AcqInv, TimerInv
    <3>4. HistoryInv'
      <4>1. \A e \in Exposures : e # started => reply'[e] = reply[e]
        BY <2>1, <2>2 DEF AcqInv, TypeOK
      <4>2. ~(started > started) /\ started' = started
        <5>1. started' = started
          BY <1>5 DEF AcqReturns
        <5> QED
          BY <5>1, StartedNat
      <4> QED
        BY <2>1, <2>2, <4>1, <4>2 DEF AcqInv, HistoryInv
    <3> QED
      BY <3>1, <3>2, <3>3, <3>4 DEF AcqInv
<1>6. CASE StopExposure
  <2>1. FlagAfterStopExp \in {0, 1}
    BY CamAcqAssumption DEF FlagAfterStopExp, AcqInv, TypeOK
  <2> QED
    BY <1>6, <2>1, AcqReadStep DEF StopExposure, Command
<1>7. CASE StopNothing
  <2>1. waiting = <<>>
    BY <1>7, WaitBlocksStart DEF StopNothing, Command
  <2> QED
    <3>1. TypeOK'
      <4>1. stop_detected' \in {0, 1} /\ status' \in {"stand", "exp", "read", "unset"}
        BY <1>7 DEF StopNothing, FlagAfterStopExp, AcqInv, TypeOK
      <4> QED
        <5>1. acquisitionInProgress' \in 0..2
          BY <1>7 DEF StopNothing
        <5>2. /\ driver' \in Drivers /\ mode_stop_acq' \in {0, 1}
              /\ open' \in {"open", "closed", "released"}
              /\ timerExpiration' \in Exposures \cup {NULL} /\ blockingAcquisition' \in {0, 1}
              /\ msg' \in {"", "start", "read", "dark"} /\ clockbegin' \in {0, 1}
          BY <1>7 DEF StopNothing, AcqInv, TypeOK
        <5>3. /\ waiting' \in Seq(Exposures) /\ started' \in 0..MaxAcq
              /\ outcome' \in [Exposures -> Outcomes]
              /\ reply' \in [Exposures -> {"none", "ok", "error"}]
          BY <1>7 DEF StopNothing, AcqInv, TypeOK
        <5> QED
          BY <4>1, <5>1, <5>2, <5>3 DEF TypeOK
    <3>2. WaitInv'
      BY <1>7, <2>1 DEF StopNothing, WaitInv
    <3> QED
      BY <1>7, <3>1, <3>2, TimerFrame, HistoryFrame DEF StopNothing, AcqInv
<1>8. ASSUME NEW m \in 0..2, StopMode(m) PROVE AcqInv'
  <2>1. mode_stop_acq' \in {0, 1}
    BY <1>8 DEF StopMode
  <2>2. TypeOK'
    BY <1>8, <2>1 DEF StopMode, AcqInv, TypeOK
  <2> QED
    BY <1>8, <2>2, WaitFrame, TimerFrame, HistoryFrame DEF StopMode, AcqInv
<1>9. CASE Close
  BY <1>9, WaitFrame, HistoryFrame DEF Close, Command, AcqInv, TypeOK, TimerInv
<1>10. CASE Release
  <2>1. \A e \in Exposures : outcome'[e] = IF e = timerExpiration THEN "lost" ELSE outcome[e]
    BY <1>10, NullNotExposure DEF Release, InUse, AcqInv, TypeOK
  <2>2. TypeOK'
    BY <1>10 DEF Release, AcqInv, TypeOK, Outcomes
  <2>3. TimerInv'
    BY <1>10, <2>1, NullNotExposure DEF Release, AcqInv, TimerInv
  <2>4. HistoryInv'
    BY <1>10, <2>1, NullNotExposure DEF Release, AcqInv, TimerInv, HistoryInv, TypeOK, Ended, Exposures
  <2> QED
    BY <1>10, <2>2, <2>3, <2>4 DEF Release, AcqInv, WaitInv
<1>11. CASE UNCHANGED vars
  <2>1. /\ UNCHANGED <<driver, timerExpiration, acquisitionInProgress, blockingAcquisition>>
        /\ UNCHANGED <<stop_detected, mode_stop_acq, msg, clockbegin, status, open>>
        /\ UNCHANGED <<waiting, started, outcome, reply>>
    BY <1>11 DEF vars
  <2>2. TypeOK'
    <3> DEFINE T == TypeOK
    <3>1. T
      BY DEF AcqInv
    <3>2. T' = T
      BY <2>1, Zenon DEF TypeOK
    <3> QED
      BY <3>1, <3>2
  <2> QED
    BY <2>1, <2>2, WaitFrame, TimerFrame, HistoryFrame DEF AcqInv
<1> QED
  BY <1>1, <1>2, <1>3, <1>4, <1>5, <1>6, <1>7, <1>8, <1>9, <1>10, <1>11 DEF Next

THEOREM AcqInvariant == Spec => []AcqInv
  BY InitInv, NextInv, PTL DEF Spec

\* Every field keeps to its values.
THEOREM TypeCorrect == Spec => []TypeOK
<1>1. AcqInv => TypeOK
  BY DEF AcqInv
<1> QED
  BY <1>1, AcqInvariant, PTL

\* At most one blocking acquisition waits, and for the exposure being timed.
THEOREM BlockingWaitUnique == Spec => []OneBlockingWait
<1>1. AcqInv => OneBlockingWait
  <2> SUFFICES ASSUME AcqInv PROVE OneBlockingWait
    OBVIOUS
  <2>1. CASE waiting = <<>>
    BY <2>1 DEF OneBlockingWait
  <2>2. CASE waiting # <<>>
    <3>1. Len(waiting) = 1 /\ DOMAIN waiting = {1} /\ waiting[1] = started
      BY <2>2 DEF AcqInv, WaitInv
    <3>2. acquisitionInProgress # 0 => timerExpiration = started
      BY <2>2 DEF AcqInv, WaitInv
    <3> QED
      BY <3>1, <3>2 DEF OneBlockingWait
  <2> QED
    BY <2>1, <2>2
<1> QED
  BY <1>1, AcqInvariant, PTL

\* An exposure is never left without its timer while the thread lives.
THEOREM ExposureTimed == Spec => []ExposureHasTimer
<1>1. AcqInv => ExposureHasTimer
  BY DEF AcqInv, TimerInv, ExposureHasTimer
<1> QED
  BY <1>1, AcqInvariant, PTL

\* A blocking acquisition is answered after its exposure only.
THEOREM AnswerAfterEnd == Spec => []ReplyAfterEnd
<1>1. AcqInv => ReplyAfterEnd
  BY DEF AcqInv, HistoryInv, ReplyAfterEnd
<1> QED
  BY <1>1, AcqInvariant, PTL
-----------------------------------------------------------------------------
(***************************************************************************)
(* The message.  cam->msg is empty from the start of a blocking exposure   *)
(* to its end, and what AcqRead leaves in it is about that exposure.       *)
(***************************************************************************)
Mistakes == {"dark", "failed"}

WaitMsgInv ==
  waiting # <<>> =>
    /\ acquisitionInProgress # 0 => msg = ""
    /\ acquisitionInProgress = 0 /\ msg # "" => outcome[started] \in Mistakes

MsgInv == WaitMsgInv /\ ErrorIsMine

LEMMA WaitMsgFrame ==
  ASSUME WaitMsgInv, UNCHANGED <<waiting, started, acquisitionInProgress, msg, outcome>>
  PROVE  WaitMsgInv'
  BY DEF WaitMsgInv

LEMMA ErrorFrame ==
  ASSUME ErrorIsMine, UNCHANGED <<outcome, reply>>
  PROVE  ErrorIsMine'
  BY DEF ErrorIsMine

LEMMA AcqReadMsg ==
  ASSUME AcqInv, MsgInv, InUse, Dispatch, NEW t, NEW f, AcqRead(timerExpiration, t, f),
         UNCHANGED <<waiting, started, reply>>
  PROVE  MsgInv'
<1>1. PICK r \in Ended : AcqReadCommon(timerExpiration, r)
                        /\ (waiting # <<>> /\ msg' # "" => r \in Mistakes)
  <2>1. waiting # <<>> => msg = ""
    BY DEF Dispatch, MsgInv, WaitMsgInv
  <2>2. CASE AcqReadDrop(timerExpiration, t)
    BY <2>1, <2>2 DEF AcqReadDrop, MessageLeft, ErrorMessage, Ended, Mistakes
  <2>3. CASE AcqReadImage(timerExpiration)
    BY <2>3 DEF AcqReadImage, MessageLeft, ErrorMessage, DriverMessage, Ended, Mistakes
  <2> QED
    BY <2>2, <2>3 DEF AcqRead
<1>2. timerExpiration \in Exposures /\ timerExpiration = started
  BY DEF AcqInv, TypeOK, TimerInv, InUse
<1>3. \A e \in Exposures : outcome'[e] = IF e = started THEN r ELSE outcome[e]
  BY <1>1, <1>2 DEF AcqReadCommon, AcqInv, TypeOK
<1>4. WaitMsgInv'
  <2>1. acquisitionInProgress' = 0
    BY <1>1 DEF AcqReadCommon
  <2> QED
    BY <1>1, <1>2, <1>3, <2>1 DEF WaitMsgInv
<1>5. ErrorIsMine'
  <2>1. reply[started] # "error"
    <3>1. outcome[started] = "exposing"
      BY <1>2 DEF AcqInv, TimerInv
    <3> QED
      BY <1>2, <3>1 DEF MsgInv, ErrorIsMine
  <2> QED
    BY <1>3, <2>1 DEF MsgInv, ErrorIsMine
<1> QED
  BY <1>4, <1>5 DEF MsgInv

LEMMA MsgStep == AcqInv /\ MsgInv /\ [Next]_vars => MsgInv'
<1> SUFFICES ASSUME AcqInv, MsgInv, [Next]_vars PROVE MsgInv'
  OBVIOUS
<1>1. CASE TimerFires
  BY <1>1, AcqReadMsg DEF TimerFires, InUse
<1>2. ASSUME NEW b \in {0, 1}, AcqRefused(b) PROVE MsgInv'
  BY <1>2, WaitMsgFrame, ErrorFrame DEF AcqRefused, MsgInv
<1>3. ASSUME NEW b \in {0, 1}, AcqStartFails(b) PROVE MsgInv'
  <2>1. waiting' = <<>>
    BY <1>3, WaitBlocksStart DEF AcqStartFails, Command, MayStart, InUse
  <2> QED
    BY <1>3, <2>1, ErrorFrame DEF AcqStartFails, MsgInv, WaitMsgInv
<1>4. ASSUME NEW b \in {0, 1}, AcqStarts(b) PROVE MsgInv'
  <2>1. waiting = <<>>
    BY <1>4, WaitBlocksStart DEF AcqStarts, Command, MayStart, InUse
  <2>2. WaitMsgInv'
    <3>1. /\ waiting' = IF b = 1 THEN Append(<<>>, started + 1) ELSE <<>>
          /\ acquisitionInProgress' = IF b = 1 THEN 1 ELSE acquisitionInProgress
          /\ msg' = ""
      BY <1>4, <2>1 DEF AcqStarts, MessageAtStart
    <3> QED
      BY <3>1 DEF WaitMsgInv
  <2>3. ErrorIsMine'
    <3>1. reply' = reply /\ outcome' = [outcome EXCEPT ![started + 1] = "exposing"]
      BY <1>4 DEF AcqStarts
    <3>2. started + 1 \in Exposures => outcome[started + 1] = "none"
      <4>1. started + 1 > started
        BY StartedNat
      <4> QED
        BY <4>1 DEF AcqInv, HistoryInv
    <3>3. \A e \in Exposures : outcome[e] \in Mistakes => outcome'[e] = outcome[e]
      BY <3>1, <3>2 DEF AcqInv, TypeOK, Mistakes
    <3> QED
      BY <3>1, <3>3 DEF MsgInv, ErrorIsMine, Mistakes
  <2> QED
    BY <2>2, <2>3 DEF MsgInv
<1>5. CASE AcqReturns
  <2>1. /\ waiting = <<started>> /\ started \in Exposures
        /\ timerExpiration = NULL /\ acquisitionInProgress = 0
    BY <1>5 DEF AcqReturns, AcqInv, WaitInv
  <2>2. /\ waiting' = <<>> /\ outcome' = outcome
        /\ reply' = [reply EXCEPT ![started] = IF msg # "" THEN "error" ELSE "ok"]
    BY <1>5, <2>1, PopSingleton DEF AcqReturns, InUse
  <2>3. msg # "" => outcome[started] \in Mistakes
    BY <2>1 DEF MsgInv, WaitMsgInv
  <2>4. ErrorIsMine'
    <3>1. \A e \in Exposures :
            reply'[e] = IF e = started THEN (IF msg # "" THEN "error" ELSE "ok") ELSE reply[e]
      BY <2>1, <2>2 DEF AcqInv, TypeOK
    <3>2. \A e \in Exposures : reply[e] = "error" => outcome[e] \in Mistakes
      BY DEF MsgInv, ErrorIsMine, Mistakes
    <3>3. ASSUME NEW e \in Exposures, reply'[e] = "error" PROVE outcome[e] \in Mistakes
      <4>1. CASE e = started
        BY <2>3, <3>1, <3>3, <4>1
      <4>2. CASE e # started
        BY <3>1, <3>2, <3>3, <4>2
      <4> QED
        BY <4>1, <4>2
    <3> QED
      BY <2>2, <3>3 DEF ErrorIsMine, Mistakes
  <2> QED
    BY <2>2, <2>4 DEF MsgInv, WaitMsgInv
<1>6. CASE StopExposure
  BY <1>6, AcqReadMsg DEF StopExposure, Command
<1>7. CASE StopNothing
  <2>1. waiting' = <<>>
    BY <1>7, WaitBlocksStart DEF StopNothing, Command
  <2> QED
    BY <1>7, <2>1, ErrorFrame DEF StopNothing, MsgInv, WaitMsgInv
<1>8. ASSUME NEW m \in 0..2, StopMode(m) PROVE MsgInv'
  BY <1>8, WaitMsgFrame, ErrorFrame DEF StopMode, MsgInv
<1>9. CASE Close
  BY <1>9, WaitMsgFrame, ErrorFrame DEF Close, MsgInv
<1>10. CASE Release
  <2>1. \A e \in Exposures : outcome[e] \in Mistakes => outcome'[e] = outcome[e]
    <3>1. InUse => outcome[timerExpiration] = "exposing" /\ timerExpiration \in Exposures
      BY DEF InUse, AcqInv, TypeOK, TimerInv
    <3> QED
      BY <1>10, <3>1 DEF Release, AcqInv, TypeOK, Mistakes
  <2>2. waiting' = <<>> /\ reply' = reply
    BY <1>10 DEF Release
  <2> QED
    BY <2>1, <2>2 DEF MsgInv, WaitMsgInv, ErrorIsMine, Mistakes
<1>11. CASE UNCHANGED vars
  BY <1>11, WaitMsgFrame, ErrorFrame DEF vars, MsgInv
<1> QED
  BY <1>1, <1>2, <1>3, <1>4, <1>5, <1>6, <1>7, <1>8, <1>9, <1>10, <1>11 DEF Next

\* A blocking acquisition never answers the error of another command.
THEOREM ErrorOwned == Spec => []ErrorIsMine
<1>1. Init => MsgInv
  BY DEF Init, MsgInv, WaitMsgInv, ErrorIsMine
<1>2. MsgInv => ErrorIsMine
  BY DEF MsgInv
<1> QED
  BY <1>1, <1>2, MsgStep, AcqInvariant, PTL DEF Spec
-----------------------------------------------------------------------------
(***************************************************************************)
(* The status.  AcqRead can drop an exposure only once stop_detected is    *)
(* set, which takes a driver whose stop_exp sets it; it leaves "read"      *)
(* behind when cmdCamStop freed the timer before it called AcqRead.        *)
(***************************************************************************)
StatusInv ==
  /\ stop_detected = 1 => driver.stopSetsFlag
  /\ StatusTellsExposure

LEMMA StatusFrame ==
  ASSUME StatusInv, UNCHANGED <<driver, stop_detected, open, status, timerExpiration>>
  PROVE  StatusInv'
  BY DEF StatusInv, StatusTellsExposure, InUse

\* An exposure ends: of a dropped one, only the timer can tell that it is over.
LEMMA AcqReadStatus ==
  ASSUME InUse, NEW t, AcqRead(timerExpiration, t, stop_detected'),
         stop_detected' = 1 => driver.stopSetsFlag, UNCHANGED driver
  PROVE  StatusInv'
<1>1. timerExpiration' = NULL
  BY DEF AcqRead, AcqReadDrop, AcqReadImage, AcqReadCommon
<1>2. CASE AcqReadDrop(timerExpiration, t) /\ stop_detected' = 1
  BY <1>1, <1>2 DEF AcqReadDrop, StatusInv, StatusTellsExposure, InUse
<1>3. CASE AcqReadImage(timerExpiration)
  BY <1>1, <1>3 DEF AcqReadImage, StatusInv, StatusTellsExposure, InUse
<1> QED
  BY <1>2, <1>3 DEF AcqRead

LEMMA FlagNeedsDriver ==
  ASSUME StatusInv PROVE FlagAfterStopExp = 1 => driver.stopSetsFlag
  BY DEF FlagAfterStopExp, StatusInv

LEMMA StatusStep == AcqInv /\ StatusInv /\ [Next]_vars => StatusInv'
<1> SUFFICES ASSUME AcqInv, StatusInv, [Next]_vars PROVE StatusInv'
  OBVIOUS
<1>1. CASE TimerFires
  BY <1>1, AcqReadStatus DEF TimerFires, InUse, StatusInv
<1>2. ASSUME NEW b \in {0, 1}, AcqRefused(b) PROVE StatusInv'
  BY <1>2, StatusFrame DEF AcqRefused
<1>3. ASSUME NEW b \in {0, 1}, AcqStartFails(b) PROVE StatusInv'
  BY <1>3 DEF AcqStartFails, MayStart, InUse, StatusInv, StatusTellsExposure
<1>4. ASSUME NEW b \in {0, 1}, AcqStarts(b) PROVE StatusInv'
  <2>1. started \in Nat
    BY StartedNat
  <2>2. timerExpiration' # NULL
    <3>1. timerExpiration' = started + 1
      BY <1>4 DEF AcqStarts
    <3> QED
      BY <2>1, <3>1 DEF NULL
  <2>3. status' = "exp" /\ stop_detected' = 0
    BY <1>4 DEF AcqStarts
  <2> QED
    BY <2>2, <2>3 DEF InUse, StatusInv, StatusTellsExposure
<1>5. CASE AcqReturns
  <2>1. timerExpiration = NULL
    BY <1>5 DEF AcqReturns, AcqInv, WaitInv
  <2> QED
    BY <1>5, <2>1, StatusFrame DEF AcqReturns
<1>6. CASE StopExposure
  <2>1. stop_detected' = 1 => driver.stopSetsFlag
    BY <1>6, FlagNeedsDriver DEF StopExposure
  <2> QED
    BY <1>6, <2>1, AcqReadStatus DEF StopExposure
<1>7. CASE StopNothing
  <2>1. stop_detected' = 1 => driver.stopSetsFlag
    BY <1>7, FlagNeedsDriver DEF StopNothing, StatusInv
  <2> QED
    BY <1>7, <2>1 DEF StopNothing, InUse, StatusInv, StatusTellsExposure
<1>8. ASSUME NEW m \in 0..2, StopMode(m) PROVE StatusInv'
  BY <1>8, StatusFrame DEF StopMode
<1>9. CASE Close
  BY <1>9 DEF Close, StatusInv, StatusTellsExposure
<1>10. CASE Release
  BY <1>10 DEF Release, StatusInv, StatusTellsExposure
<1>11. CASE UNCHANGED vars
  BY <1>11, StatusFrame DEF vars
<1> QED
  BY <1>1, <1>2, <1>3, <1>4, <1>5, <1>6, <1>7, <1>8, <1>9, <1>10, <1>11 DEF Next

\* The status a script waits for follows the exposure, but for a driver that drops
\* a stopped one.
THEOREM StatusFollows == Spec => []StatusTellsExposure
<1>1. ASSUME Init PROVE StatusInv
  <2>1. stop_detected = 0 /\ status = "stand" /\ ~InUse
    BY <1>1 DEF Init, InUse
  <2> QED
    BY <2>1 DEF StatusInv, StatusTellsExposure
<1>2. StatusInv => StatusTellsExposure
  BY DEF StatusInv
<1> QED
  BY <1>1, <1>2, StatusStep, AcqInvariant, PTL DEF Spec
-----------------------------------------------------------------------------
(***************************************************************************)
(* The refinement.  AcqStarts begins an exposure, AcqRead (by the timer or *)
(* by a stop) ends it, AcqReturns answers, Release vanishes; every other   *)
(* step leaves the image of the state alone.                               *)
(***************************************************************************)
LEMMA CallersOfNone == waiting = <<>> => CallerSet = {}
  BY DEF CallerSet

LEMMA InitRefines == Init => Contract!Init
<1> SUFFICES ASSUME Init PROVE Contract!Init
  OBVIOUS
<1>1. OverSet = {} /\ AnsweredSet = {}
  BY DEF Init, OverSet, AnsweredSet, Ended
<1>2. CallerSet = {}
  BY CallersOfNone DEF Init
<1>3. started = 0 /\ timerExpiration = 0
  BY DEF Init, NULL
<1> QED
  BY <1>1, <1>2, <1>3 DEF Contract!Init

\* A step that starts, ends and answers nothing is a stutter of the contract.
LEMMA StutterRefines ==
  ASSUME UNCHANGED <<started, timerExpiration, outcome, waiting, reply>>
  PROVE  UNCHANGED Contract!contractVars
  BY DEF Contract!contractVars, OverSet, CallerSet, AnsweredSet

LEMMA CallersOfSingleton == ASSUME NEW e, waiting = <<e>> PROVE CallerSet = {e}
<1>1. DOMAIN waiting = {1} /\ waiting[1] = e
  OBVIOUS
<1> QED
  BY <1>1 DEF CallerSet

LEMMA AcqReadRefines ==
  ASSUME AcqInv, InUse, NEW t, NEW f, AcqRead(timerExpiration, t, f),
         UNCHANGED <<waiting, started, reply>>
  PROVE  Contract!End
<1>1. PICK r \in Ended : AcqReadCommon(timerExpiration, r)
  BY DEF AcqRead, AcqReadDrop, AcqReadImage, Ended
<1>2. timerExpiration \in Exposures
  BY DEF AcqInv, TypeOK, InUse
<1>3. \A e \in Exposures : outcome'[e] = IF e = timerExpiration THEN r ELSE outcome[e]
  BY <1>1, <1>2 DEF AcqReadCommon, AcqInv, TypeOK
<1>4. OverSet' = OverSet \cup {timerExpiration}
  BY <1>2, <1>3 DEF OverSet
<1>5. CallerSet' = CallerSet /\ AnsweredSet' = AnsweredSet
  BY DEF CallerSet, AnsweredSet
<1>6. timerExpiration' = 0 /\ timerExpiration # 0
  BY <1>1 DEF AcqReadCommon, InUse, NULL
<1> QED
  BY <1>4, <1>5, <1>6 DEF Contract!End

LEMMA NextRefines == AcqInv /\ [Next]_vars => [Contract!Next]_(Contract!contractVars)
<1> SUFFICES ASSUME AcqInv, [Next]_vars
             PROVE  Contract!Next \/ UNCHANGED Contract!contractVars
  OBVIOUS
<1>1. CASE TimerFires
  BY <1>1, AcqReadRefines DEF TimerFires, InUse, Contract!Next
<1>2. ASSUME NEW b \in {0, 1}, AcqRefused(b) PROVE UNCHANGED Contract!contractVars
  BY <1>2, StutterRefines DEF AcqRefused
<1>3. ASSUME NEW b \in {0, 1}, AcqStartFails(b) PROVE UNCHANGED Contract!contractVars
  BY <1>3, StutterRefines DEF AcqStartFails, MayStart, InUse
<1>4. ASSUME NEW b \in {0, 1}, AcqStarts(b) PROVE Contract!Begin
  <2>1. timerExpiration = 0 /\ waiting = <<>>
    BY <1>4, WaitBlocksStart DEF AcqStarts, Command, MayStart, InUse, NULL
  <2>2. started + 1 \in Exposures /\ started < MaxAcq
    <3>1. started \in Nat /\ started < MaxAcq
      BY <1>4, StartedNat DEF AcqStarts
    <3> QED
      BY <3>1, CamAcqAssumption, ExposureRange
  <2>3. started' = started + 1 /\ timerExpiration' = started + 1 /\ reply' = reply
    BY <1>4 DEF AcqStarts
  <2>4. OverSet' = OverSet
    <3>1. outcome' = [outcome EXCEPT ![started + 1] = "exposing"]
      BY <1>4 DEF AcqStarts
    <3>2. outcome[started + 1] = "none"
      <4>1. started + 1 > started
        BY StartedNat
      <4> QED
        BY <2>2, <4>1 DEF AcqInv, HistoryInv
    <3>3. \A e \in Exposures : outcome'[e] \in Ended <=> outcome[e] \in Ended
      BY <2>2, <3>1, <3>2 DEF AcqInv, TypeOK, Ended
    <3> QED
      BY <3>3 DEF OverSet
  <2>5. CallerSet = {} /\ CallerSet' \in {{}, {started + 1}}
    <3>1. waiting' = <<>> \/ waiting' = <<started + 1>>
      <4>1. Append(<<>>, started + 1) = <<started + 1>>
        OBVIOUS
      <4> QED
        BY <1>4, <2>1, <4>1 DEF AcqStarts
    <3>2. waiting' = <<>> => CallerSet' = {}
      BY DEF CallerSet
    <3>3. waiting' = <<started + 1>> => CallerSet' = {started + 1}
      <4>1. waiting' = <<started + 1>> => DOMAIN (waiting') = {1} /\ waiting'[1] = started + 1
        OBVIOUS
      <4> QED
        BY <4>1 DEF CallerSet
    <3> QED
      BY <2>1, <3>1, <3>2, <3>3, CallersOfNone
  <2>6. AnsweredSet' = AnsweredSet
    BY <2>3 DEF AnsweredSet
  <2> QED
    BY <2>1, <2>2, <2>3, <2>4, <2>5, <2>6 DEF Contract!Begin
<1>5. CASE AcqReturns
  <2>1. /\ waiting = <<started>> /\ started \in Exposures /\ reply[started] = "none"
        /\ timerExpiration = NULL /\ outcome[started] \in Ended
    BY <1>5 DEF AcqReturns, AcqInv, WaitInv
  <2>2. /\ waiting' = <<>> /\ timerExpiration' = timerExpiration /\ outcome' = outcome
        /\ started' = started
        /\ reply' = [reply EXCEPT ![started] = IF msg # "" THEN "error" ELSE "ok"]
    BY <1>5, <2>1, PopSingleton DEF AcqReturns, InUse
  <2>3. CallerSet = {started} /\ CallerSet' = {}
    <3>1. waiting' = <<>> => CallerSet' = {}
      BY DEF CallerSet
    <3> QED
      BY <2>1, <2>2, <3>1, CallersOfSingleton
  <2>4. OverSet' = OverSet /\ started \in OverSet
    BY <2>1, <2>2 DEF OverSet
  <2>5. AnsweredSet' = AnsweredSet \cup {started}
    <3>1. \A e \in Exposures : reply'[e] # "none" <=> e = started \/ reply[e] # "none"
      BY <2>1, <2>2 DEF AcqInv, TypeOK
    <3> QED
      BY <2>1, <3>1 DEF AnsweredSet
  <2>6. Contract!Answer
    BY <2>2, <2>3, <2>4, <2>5 DEF Contract!Answer
  <2> QED
    BY <2>6 DEF Contract!Next
<1>6. CASE StopExposure
  BY <1>6, AcqReadRefines DEF StopExposure, Contract!Next
<1>7. CASE StopNothing
  BY <1>7, StutterRefines DEF StopNothing
<1>8. ASSUME NEW m \in 0..2, StopMode(m) PROVE UNCHANGED Contract!contractVars
  BY <1>8, StutterRefines DEF StopMode
<1>9. CASE Close
  BY <1>9, StutterRefines DEF Close
<1>10. CASE Release
  <2>1. \A e \in Exposures : outcome'[e] \in Ended <=> outcome[e] \in Ended
    <3>1. InUse => outcome[timerExpiration] = "exposing" /\ timerExpiration \in Exposures
      BY DEF InUse, AcqInv, TypeOK, TimerInv
    <3> QED
      BY <1>10, <3>1 DEF Release, AcqInv, TypeOK, Ended
  <2>2. OverSet' = OverSet
    BY <2>1 DEF OverSet
  <2>3. /\ CallerSet = {} /\ CallerSet' = CallerSet /\ AnsweredSet' = AnsweredSet
        /\ started' = started /\ timerExpiration' = 0
    BY <1>10, CallersOfNone DEF Release, CallerSet, AnsweredSet, NULL
  <2> QED
    BY <2>2, <2>3 DEF Contract!Vanish, Contract!Next
<1>11. CASE UNCHANGED vars
  BY <1>11, StutterRefines DEF vars
<1> QED
  BY <1>1, <1>2, <1>3, <1>4, <1>5, <1>6, <1>7, <1>8, <1>9, <1>10, <1>11 DEF Next, Contract!Next

-----------------------------------------------------------------------------
(***************************************************************************)
(* What ::status_cam shows: AcqStarts begins an exposure, AcqRead reads or *)
(* drops it, and a stop that finds none writes the status all the same.    *)
(***************************************************************************)
LEMMA InitShown == Init => Shown!Init
  BY DEF Init, InUse, Drivers, Shown!Init

\* The end of an exposure: only a driver that drops may leave "read".
LEMMA AcqReadShown ==
  ASSUME InUse, NEW t, AcqRead(timerExpiration, t, stop_detected'),
         stop_detected' = 1 => driver.stopSetsFlag, UNCHANGED driver
  PROVE  Shown!ExposureIsRead \/ Shown!ExposureIsDropped
<1>1. ~InUse'
  BY DEF AcqRead, AcqReadDrop, AcqReadImage, AcqReadCommon, InUse
<1>2. CASE AcqReadImage(timerExpiration)
  BY <1>1, <1>2 DEF AcqReadImage, Shown!ExposureIsRead
<1>3. CASE stop_detected' = 1 /\ AcqReadDrop(timerExpiration, t)
  <2>1. status' = "stand" \/ status' = "read"
    BY <1>3 DEF AcqReadDrop
  <2> QED
    BY <1>1, <1>3, <2>1 DEF Shown!ExposureIsRead, Shown!ExposureIsDropped
<1> QED
  BY <1>2, <1>3 DEF AcqRead

\* A step that touches neither the timer nor the status shows nothing.
LEMMA StutterShown ==
  ASSUME UNCHANGED <<driver, timerExpiration, status>>
  PROVE  UNCHANGED Shown!shown
  BY DEF Shown!shown, InUse

LEMMA NextShown ==
  ASSUME AcqInv, StatusInv, [Next]_vars, open' = "open"
  PROVE  Shown!Next \/ UNCHANGED Shown!shown
<1>1. CASE TimerFires
  <2>1. InUse /\ AcqRead(timerExpiration, timerExpiration, stop_detected')
    BY <1>1 DEF TimerFires, InUse
  <2>2. (stop_detected' = 1 => driver.stopSetsFlag) /\ driver' = driver
    BY <1>1 DEF TimerFires, StatusInv
  <2> QED
    BY <2>1, <2>2, AcqReadShown DEF Shown!Next
<1>2. ASSUME NEW b \in {0, 1}, AcqRefused(b) PROVE UNCHANGED Shown!shown
  BY <1>2, StutterShown DEF AcqRefused
<1>3. ASSUME NEW b \in {0, 1}, AcqStartFails(b) PROVE UNCHANGED Shown!shown
  BY <1>3, StutterShown DEF AcqStartFails, MayStart, InUse
<1>4. ASSUME NEW b \in {0, 1}, AcqStarts(b) PROVE Shown!ExposureBegins
  <2>1. timerExpiration' # NULL
    <3>1. started + 1 # 0
      BY StartedNat
    <3>2. timerExpiration' = started + 1
      BY <1>4 DEF AcqStarts
    <3> QED
      BY <3>1, <3>2 DEF NULL
  <2> QED
    BY <1>4, <2>1 DEF AcqStarts, MayStart, InUse, Shown!ExposureBegins
<1>5. CASE AcqReturns
  <2>1. timerExpiration = NULL
    BY <1>5 DEF AcqReturns, AcqInv, WaitInv
  <2> QED
    BY <1>5, <2>1, StutterShown DEF AcqReturns
<1>6. CASE StopExposure
  <2>1. InUse /\ AcqRead(timerExpiration, NULL, stop_detected')
    BY <1>6 DEF StopExposure
  <2>2. (stop_detected' = 1 => driver.stopSetsFlag) /\ driver' = driver
    BY <1>6 DEF StopExposure, FlagAfterStopExp, StatusInv
  <2> QED
    BY <2>1, <2>2, AcqReadShown DEF Shown!Next
<1>7. CASE StopNothing
  <2>1. ~InUse /\ UNCHANGED <<driver, timerExpiration>> /\ status' \in {"stand", status}
    BY <1>7 DEF StopNothing
  <2>2. CASE status' = "stand"
    BY <2>1, <2>2 DEF InUse, Shown!StopsNothing, Shown!Next
  <2> QED
    BY <2>1, <2>2, StutterShown
<1>8. ASSUME NEW m \in 0..2, StopMode(m) PROVE UNCHANGED Shown!shown
  BY <1>8, StutterShown DEF StopMode
<1>9. ~Close /\ ~Release
  BY DEF Close, Release
<1>10. CASE UNCHANGED vars
  BY <1>10, StutterShown DEF vars
<1> QED
  BY <1>1, <1>2, <1>3, <1>4, <1>5, <1>6, <1>7, <1>8, <1>9, <1>10 DEF Next, Shown!Next

\* The commands of libcam keep the camera's contract: exposures follow one
\* another, and each waiting script is answered once, after its own exposure
\* and before the next one starts; and ::status_cam shows each exposure, its end
\* and what a stop does to it, as the sessions of Aud'ACE expect.
THEOREM ImplementsContract == Spec => KeepsContract
<1>1. ASSUME Init PROVE StatusInv
  <2>1. stop_detected = 0 /\ status = "stand" /\ ~InUse
    BY <1>1 DEF Init, InUse
  <2> QED
    BY <2>1 DEF StatusInv, StatusTellsExposure
<1>2. AcqInv /\ StatusInv /\ [Next]_vars =>
        [open' = "open" => Shown!Next]_(Shown!shown)
  BY NextShown
<1> QED
  BY <1>1, <1>2, InitRefines, NextRefines, InitShown, StatusStep, AcqInvariant, PTL
     DEF Spec, KeepsContract, Contract!Spec
=============================================================================
