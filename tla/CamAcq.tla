------------------------------- MODULE CamAcq -------------------------------
(***************************************************************************)
(* The acquisition commands of libcam, the part common to every camera     *)
(* driver (src/audela/src/libcam/libcam.cpp).  A camera lives in a Tcl     *)
(* thread of its own.  Its handlers ("cam1 acq", "cam1 stop", ..., and the *)
(* end-of-exposure timer AcqRead) are run one at a time by the event loop  *)
(* of that thread, and "acq -blocking" runs that same loop from inside     *)
(* its handler until the acquisition ends: while it waits, every other     *)
(* handler may run, another "acq -blocking" included.                      *)
(*                                                                         *)
(* One action is one handler, from its dispatch to its return or to its    *)
(* wait.  Exposures are numbered 1, 2, ... in the order start_exp          *)
(* accepted them.                                                          *)
(***************************************************************************)
EXTENDS Naturals, Sequences

CONSTANT MaxAcq   \* bound: exposures that start in a behaviour

ASSUME CamAcqAssumption == MaxAcq \in Nat

\* What the acquisition commands see of a driver: its stop_exp sets stop_detected
\* (libatik, libapogee), it has a video mode.
Drivers == [stopSetsFlag : BOOLEAN, videoMode : BOOLEAN]

NULL == 0
Exposures == 1..MaxAcq

VARIABLES
  driver,                 \* the driver, one of Drivers
  timerExpiration,        \* NULL, or the exposure whose end-of-exposure timer is armed
  acquisitionInProgress,  \* 0, 1 (a blocking acquisition waits), 2 (stop requested)
  blockingAcquisition,    \* 1: the last "acq" had -blocking
  stop_detected,          \* set by some drivers' stop_exp, reset by acq
  mode_stop_acq,          \* 0: read the CCD after a stop, 1: drop the exposure
  msg,                    \* the camera's last error: "", "start", "read" or "dark"
  clockbegin,             \* 1 when the time of the start of the exposure is known
  status,                 \* ::status_cam: "stand", "exp", "read", "unset" once closed
  open,                   \* "open", "closed" (cam close ran), "released" (its thread too)
  waiting,                \* exposures of the "acq -blocking" handlers now in their wait
  started,                \* the exposures started so far are 1..started
  outcome,                \* what became of each exposure
  reply                   \* what "acq -blocking" answered for each exposure

vars == <<driver, timerExpiration, acquisitionInProgress, blockingAcquisition,
          stop_detected, mode_stop_acq, msg, clockbegin, status, open,
          waiting, started, outcome, reply>>

(***************************************************************************)
(* outcome: "none" not started, "exposing", "image" read into the buffer,  *)
(* "dark" read but the dark could not be subtracted, "failed" read_ccd     *)
(* reported an error, "aborted" dropped by a stop, "lost" its timer was    *)
(* deleted and nothing will ever read it.                                  *)
(***************************************************************************)
Outcomes == {"none", "exposing", "image", "dark", "failed", "aborted", "lost"}
Ended    == {"image", "dark", "failed", "aborted"}

Init ==
  /\ driver \in Drivers
  /\ timerExpiration = NULL
  /\ acquisitionInProgress = 0
  /\ blockingAcquisition = 0
  /\ stop_detected = 0
  /\ mode_stop_acq = 1
  /\ msg = ""
  /\ clockbegin = 0
  /\ status = "stand"
  /\ open = "open"
  /\ waiting = <<>>
  /\ started = 0
  /\ outcome = [e \in Exposures |-> "none"]
  /\ reply = [e \in Exposures |-> "none"]

(***************************************************************************)
(* The thread dispatches an event: at top level, or in the wait of the     *)
(* innermost blocking acquisition, whose loop test still holds.            *)
(***************************************************************************)
Dispatch == waiting = <<>> \/ acquisitionInProgress # 0

\* A command reaches the camera.  "close" leaves the Tcl command in the thread:
\* a script running there may use it until the thread is released.
Command == open # "released" /\ Dispatch
-----------------------------------------------------------------------------
(***************************************************************************)
(* AcqRead: the end of exposure e, called by the timer and by cmdCamStop.  *)
(* "timer" and "flag" are timerExpiration and stop_detected when it is     *)
(* entered.                                                                *)
(***************************************************************************)
ErrorMessage(r) == IF r = "dark" THEN "dark" ELSE ""
DriverMessage(r) == IF r = "failed" THEN "read" ELSE ""

\* cam->msg when AcqRead returns, the driver having left "own" in it.
MessageLeft(own, r) == IF blockingAcquisition = 1 THEN ErrorMessage(r) ELSE own

\* (faulty) AcqRead forgets to tell cmdCamAcq that the acquisition is over
AcqReadCommonSilent(e, result) ==
  /\ outcome' = [outcome EXCEPT ![e] = result]
  /\ clockbegin' = 0
  /\ timerExpiration' = NULL
  /\ UNCHANGED acquisitionInProgress

AcqReadCommon(e, result) ==
  /\ outcome' = [outcome EXCEPT ![e] = result]
  /\ clockbegin' = 0
  /\ timerExpiration' = NULL
  /\ acquisitionInProgress' = 0

\* (faulty) the dropped exposure is not announced to cmdCamAcq
AcqReadDropSilent(e, timer) ==
  /\ AcqReadCommonSilent(e, "aborted")
  /\ msg' = MessageLeft(msg, "aborted")
  /\ status' = IF timer # NULL THEN "stand" ELSE "read"

\* The exposure was stopped and the mode says not to read it.
AcqReadDrop(e, timer) ==
  /\ AcqReadCommon(e, "aborted")
  /\ msg' = MessageLeft(msg, "aborted")
  /\ status' = IF timer # NULL THEN "stand" ELSE "read"

\* (faulty) the status is not set back at the end of the read
AcqReadImageNoStatus(e) ==
  \E r \in {"image", "dark", "failed"} :
    /\ AcqReadCommon(e, r)
    /\ msg' = MessageLeft(DriverMessage(r), r)
    /\ status' = "read"

\* read_ccd, then the copy into the buffer and the dark, or an empty buffer.
AcqReadImage(e) ==
  \E r \in {"image", "dark", "failed"} :
    /\ AcqReadCommon(e, r)
    /\ msg' = MessageLeft(DriverMessage(r), r)
    /\ status' = "stand"

AcqRead(e, timer, flag) ==
  IF mode_stop_acq = 1 /\ flag = 1 THEN AcqReadDrop(e, timer) ELSE AcqReadImage(e)

\* The timer of the exposure expires; Tcl runs it in whatever loop is active.
TimerFires ==
  /\ timerExpiration # NULL
  /\ open # "released"
  /\ Dispatch
  /\ AcqRead(timerExpiration, timerExpiration, stop_detected)
  /\ UNCHANGED <<driver, blockingAcquisition, stop_detected, mode_stop_acq, open,
                 waiting, started, reply>>
-----------------------------------------------------------------------------
(***************************************************************************)
(* cmdCamAcq.  b = 1 is "acq -blocking".  The three actions are its three  *)
(* ways through: refused, start_exp failed, exposure started.              *)
(***************************************************************************)
InUse == timerExpiration # NULL

\* (faulty) the "Camera already in use" test is missing
MayStartAlways == TRUE
MayStart == ~InUse

\* cam->msg once start_exp returned with the message "text": it was emptied
\* before.  (faulty) The message of an earlier command is kept.
MessageAtStartStale(text) == IF text = "" THEN msg ELSE text
MessageAtStart(text) == text

\* (faulty) a refused command resets acquisitionInProgress
AcqRefusedResets(b) ==
  /\ Command
  /\ InUse
  /\ blockingAcquisition' = b
  /\ acquisitionInProgress' = 0
  /\ UNCHANGED <<driver, timerExpiration, stop_detected, mode_stop_acq, msg, clockbegin,
                 status, open, waiting, started, outcome, reply>>

AcqRefused(b) ==
  /\ Command
  /\ InUse
  /\ blockingAcquisition' = b
  /\ UNCHANGED <<driver, timerExpiration, acquisitionInProgress, stop_detected,
                 mode_stop_acq, msg, clockbegin, status, open, waiting,
                 started, outcome, reply>>

AcqStartFails(b) ==
  /\ Command
  /\ MayStart
  /\ blockingAcquisition' = b
  /\ stop_detected' = 0
  /\ msg' = MessageAtStart("start")
  /\ clockbegin' = 1
  /\ timerExpiration' = NULL
  /\ UNCHANGED <<driver, acquisitionInProgress, mode_stop_acq, status, open, waiting,
                 started, outcome, reply>>

AcqStarts(b) ==
  /\ Command
  /\ MayStart
  /\ started < MaxAcq
  /\ LET e == started + 1
     IN /\ started' = e
        /\ timerExpiration' = e
        /\ outcome' = [outcome EXCEPT ![e] = "exposing"]
        /\ waiting' = IF b = 1 THEN Append(waiting, e) ELSE waiting
  /\ blockingAcquisition' = b
  /\ acquisitionInProgress' = IF b = 1 THEN 1 ELSE acquisitionInProgress
  /\ stop_detected' = 0
  /\ msg' = MessageAtStart("")
  /\ clockbegin' = 1
  /\ status' = "exp"
  /\ UNCHANGED <<driver, mode_stop_acq, open, reply>>

\* The innermost blocking cmdCamAcq sees acquisitionInProgress = 0 and returns.
AcqReturns ==
  /\ waiting # <<>>
  /\ acquisitionInProgress = 0
  /\ timerExpiration' = NULL
  /\ outcome' = IF InUse THEN [outcome EXCEPT ![timerExpiration] = "lost"] ELSE outcome
  /\ LET e == waiting[Len(waiting)]
     IN reply' = [reply EXCEPT ![e] = IF msg # "" THEN "error" ELSE "ok"]
  /\ waiting' = SubSeq(waiting, 1, Len(waiting) - 1)
  /\ UNCHANGED <<driver, acquisitionInProgress, blockingAcquisition, stop_detected,
                 mode_stop_acq, msg, clockbegin, status, open, started>>
-----------------------------------------------------------------------------
(***************************************************************************)
(* cmdCamStop and the driver's stop_exp, cmdCamStopMode, cmdCamClose.      *)
(***************************************************************************)
FlagAfterStopExp == IF driver.stopSetsFlag THEN 1 ELSE stop_detected

StopExposure ==
  /\ Command
  /\ InUse
  /\ stop_detected' = FlagAfterStopExp
  /\ AcqRead(timerExpiration, NULL, stop_detected')
  /\ UNCHANGED <<driver, blockingAcquisition, mode_stop_acq, open, waiting, started, reply>>

StopNothing ==
  /\ Command
  /\ ~InUse
  /\ acquisitionInProgress' = 2
  /\ IF driver.videoMode
     THEN stop_detected' = FlagAfterStopExp /\ UNCHANGED status
     ELSE status' = "stand" /\ UNCHANGED stop_detected
  /\ UNCHANGED <<driver, timerExpiration, blockingAcquisition, mode_stop_acq, msg,
                 clockbegin, open, waiting, started, outcome, reply>>

\* (faulty) the mode is kept as typed
StopModeRaw(m) ==
  /\ Command
  /\ mode_stop_acq' = m
  /\ UNCHANGED <<driver, timerExpiration, acquisitionInProgress, blockingAcquisition,
                 stop_detected, msg, clockbegin, status, open, waiting,
                 started, outcome, reply>>

StopMode(m) ==
  /\ Command
  /\ mode_stop_acq' = IF m < 1 THEN 0 ELSE 1
  /\ UNCHANGED <<driver, timerExpiration, acquisitionInProgress, blockingAcquisition,
                 stop_detected, msg, clockbegin, status, open, waiting,
                 started, outcome, reply>>

\* The end-of-exposure timer stays armed.
Close ==
  /\ Command
  /\ open' = "closed"
  /\ status' = "unset"
  /\ UNCHANGED <<driver, timerExpiration, acquisitionInProgress, blockingAcquisition,
                 stop_detected, mode_stop_acq, msg, clockbegin, waiting,
                 started, outcome, reply>>

\* thread::release of cam::delete: the thread leaves its own loop, never the
\* loop of a blocking acquisition, and its timers go with it.
Release ==
  /\ open = "closed"
  /\ waiting = <<>>
  /\ open' = "released"
  /\ timerExpiration' = NULL
  /\ outcome' = IF InUse THEN [outcome EXCEPT ![timerExpiration] = "lost"] ELSE outcome
  /\ UNCHANGED <<driver, acquisitionInProgress, blockingAcquisition, stop_detected,
                 mode_stop_acq, msg, clockbegin, status, waiting, started, reply>>
-----------------------------------------------------------------------------
Next ==
  \/ TimerFires
  \/ \E b \in {0, 1} : AcqRefused(b) \/ AcqStartFails(b) \/ AcqStarts(b)
  \/ AcqReturns
  \/ StopExposure
  \/ StopNothing
  \/ \E m \in 0..2 : StopMode(m)
  \/ Close
  \/ Release

(***************************************************************************)
(* An armed timer expires and its handler runs as long as the thread runs  *)
(* an event loop, and a handler whose wait is over goes on: nothing else   *)
(* may run in the thread before it does.                                   *)
(***************************************************************************)
Fairness == WF_vars(TimerFires) /\ WF_vars(AcqReturns)

Spec == Init /\ [][Next]_vars
FairSpec == Spec /\ Fairness
-----------------------------------------------------------------------------
(***************************************************************************)
(* Properties.                                                             *)
(***************************************************************************)

\* Every field of the camera keeps to the values the code gives it; in
\* particular "stopmode" accepts any integer and keeps 0 or 1.
TypeOK ==
  /\ driver \in Drivers
  /\ timerExpiration \in Exposures \cup {NULL}
  /\ acquisitionInProgress \in 0..2
  /\ blockingAcquisition \in {0, 1}
  /\ stop_detected \in {0, 1}
  /\ mode_stop_acq \in {0, 1}
  /\ msg \in {"", "start", "read", "dark"}
  /\ clockbegin \in {0, 1}
  /\ status \in {"stand", "exp", "read", "unset"}
  /\ open \in {"open", "closed", "released"}
  /\ waiting \in Seq(Exposures)
  /\ started \in 0..MaxAcq
  /\ outcome \in [Exposures -> Outcomes]
  /\ reply \in [Exposures -> {"none", "ok", "error"}]

\* However commands interleave with its event loop, at most one "acq -blocking"
\* waits, and it waits for the exposure whose timer is armed: the shared
\* acquisitionInProgress and timerExpiration never serve two waits.
OneBlockingWait ==
  /\ Len(waiting) <= 1
  /\ \A i \in DOMAIN waiting :
       acquisitionInProgress = 0 \/ timerExpiration = waiting[i]

\* An exposure the camera integrates has its timer armed, no two exposures
\* overlap, and none is left without a timer unless the thread is gone.
ExposureHasTimer ==
  \A e \in Exposures :
    /\ outcome[e] = "exposing" <=> timerExpiration = e
    /\ outcome[e] = "lost" => open = "released"

\* "acq -blocking" answers only once its own exposure is over (cam.htm: "rend
\* la main seulement apres la fin de l'acquisition").
ReplyAfterEnd ==
  \A e \in Exposures : reply[e] # "none" => outcome[e] \in Ended

\* An error answered by "acq -blocking" is an error of its own exposure, never
\* one that another command left in cam->msg.
ErrorIsMine ==
  \A e \in Exposures : reply[e] = "error" => outcome[e] \in {"dark", "failed"}

\* ::status_cam says "exp" while an exposure's timer is armed and "stand"
\* otherwise (cam.htm: "En fin de pose la valeur stand est re-ecrite"), except that
\* a driver that drops a stopped exposure leaves it at "read".
StatusTellsExposure ==
  open = "open" =>
    \/ status = IF InUse THEN "exp" ELSE "stand"
    \/ driver.stopSetsFlag /\ ~InUse /\ status = "read"

\* An error of read_ccd or of the dark is what "acq -blocking" answers (AcqRead:
\* "je prepare le message d'erreur qui sera retourne par cmdCamAcq").
ReadErrorReplied ==
  \A e \in Exposures : reply[e] = "ok" => outcome[e] # "failed"

\* Every blocking acquisition returns, whatever is stopped, refused or closed
\* while it waits.
BlockingReturns ==
  \A e \in Exposures :
    (\E i \in DOMAIN waiting : waiting[i] = e) ~> reply[e] # "none"
-----------------------------------------------------------------------------
(***************************************************************************)
(* The commands of libcam implement what a camera promises.                *)
(***************************************************************************)
OverSet     == {e \in Exposures : outcome[e] \in Ended}
CallerSet   == {waiting[i] : i \in DOMAIN waiting}
AnsweredSet == {e \in Exposures : reply[e] # "none"}

Contract == INSTANCE CameraContract WITH
              Limit <- MaxAcq, count <- started, current <- timerExpiration,
              over <- OverSet, callers <- CallerSet, answered <- AnsweredSet

Shown == INSTANCE StatusCam WITH drops <- driver.stopSetsFlag, exposing <- InUse

\* Exposures follow one another and each blocking caller is answered once, after
\* its exposure and before the next (CameraContract); and as long as the camera is
\* open, each step of its commands and timer shows in ::status_cam what the sessions
\* of Aud'ACE wait for (StatusCam).
KeepsContract ==
  /\ Contract!Spec
  /\ Shown!Init
  /\ [][open' = "open" => Shown!Next]_(Shown!shown)
=============================================================================
