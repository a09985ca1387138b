----------------------------- MODULE CCameraAcq -----------------------------
(***************************************************************************)
(* Acquisitions of the astrobrick camera (libabaudela/src/CCamera.cpp).    *)
(* acq() starts the exposure and detaches a thread, the reader of that     *)
(* acquisition, which waits for the exposure time or a stop on a condition *)
(* variable, reads the image and reports that the camera stands by.  The   *)
(* program that calls acq() runs on: all of them share the driver, the     *)
(* status callback, the mutex and the condition variable.                  *)
(*                                                                         *)
(* acq() tests m_acquisitionStatus, which nothing assigns after the        *)
(* constructor: no call is refused.  A stop never reads the image, since   *)
(* setStopMode assigns m_stopMode and the reader tests m_mode_stop_acq.    *)
(***************************************************************************)
EXTENDS Naturals, Sequences

CONSTANT MaxAcq  \* bound: acquisitions started in a behaviour

ASSUME CCameraAssumption == MaxAcq \in Nat

Acqs == 1..MaxAcq

\* A reader between the lock of m_acqMutex and its unlock.
Holding == {"reading", "finishing", "reported"}

VARIABLES
  count,     \* the acquisitions started are 1..count
  steps,     \* what acq() or stopExposure() has still to do in its caller
  exposure,  \* the exposure the sensor holds: the last one started
  reader,    \* what the reader of each acquisition is doing
  mutex,     \* the reader that holds m_acqMutex, 0 for none
  status,    \* the status last given to the callback
  image,     \* the exposure each reader got an image of, 0 for none
  wokenBy,   \* (history) the reader whose end woke this one; 0: none, itself: stop or chance
  failed,    \* (history) the readers whose read-out failed
  polite     \* (history) every acq() was called when the status was "stand"

caller  == <<count, steps, exposure, polite>>
outcome == <<image, failed>>
vars    == <<caller, reader, mutex, status, outcome, wokenBy>>

Init ==
  /\ count = 0
  /\ steps = <<>>
  /\ exposure = 0
  /\ reader = [i \in Acqs |-> "none"]
  /\ mutex = 0
  /\ status = "stand"
  /\ image = [i \in Acqs |-> 0]
  /\ wokenBy = [i \in Acqs |-> 0]
  /\ failed = {}
  /\ polite = TRUE
-----------------------------------------------------------------------------
(***************************************************************************)
(* The program that uses the camera.                                       *)
(***************************************************************************)
\* (faulty) The thread is launched before the status is reported.
AcqStepsSwapped == <<"launch", "report">>

\* What acq() does once the exposure has started.
AcqSteps == <<"report", "launch">>

\* acq(): the driver starts the exposure; when it cannot, acq() throws before
\* anything changes.
Acq ==
  /\ steps = <<>>
  /\ count < MaxAcq
  /\ count' = count + 1
  /\ exposure' = count'
  /\ steps' = AcqSteps
  /\ polite' = (polite /\ status = "stand")
  /\ UNCHANGED <<reader, mutex, status, outcome, wokenBy>>

\* acq() is under way in its caller.
Acquiring == steps # <<>> /\ steps # <<"notify">>

Does(step) ==
  /\ steps # <<>> /\ Head(steps) = step
  /\ steps' = Tail(steps)

ReportExp ==
  /\ Does("report")
  /\ status' = "exp"
  /\ UNCHANGED <<count, exposure, polite, reader, mutex, outcome, wokenBy>>

Launch ==
  /\ Does("launch")
  /\ reader' = [reader EXCEPT ![count] = "launched"]
  /\ UNCHANGED <<count, exposure, polite, mutex, status, outcome, wokenBy>>

\* notify_all wakes the readers that wait, and only those.
NotifyAll(by) ==
  wokenBy' = [i \in Acqs |-> IF reader[i] = "waiting" THEN by[i] ELSE wokenBy[i]]

Notified(r) == [i \in Acqs |-> IF r[i] = "waiting" THEN "notified" ELSE r[i]]

\* stopExposure(): the driver is stopped first, then the readers are notified.
StopExposure ==
  /\ steps = <<>> /\ count > 0
  /\ steps' = <<"notify">>
  /\ UNCHANGED <<count, exposure, polite, reader, mutex, status, outcome, wokenBy>>

NotifyStop ==
  /\ Does("notify")
  /\ NotifyAll([i \in Acqs |-> i])
  /\ reader' = Notified(reader)
  /\ UNCHANGED <<count, exposure, polite, mutex, status, outcome>>
-----------------------------------------------------------------------------
(***************************************************************************)
(* acqReadThread.                                                          *)
(***************************************************************************)
\* It takes the mutex, and gives it back by waiting.
Wait(i) ==
  /\ reader[i] = "launched"
  /\ mutex = 0
  /\ reader' = [reader EXCEPT ![i] = "waiting"]
  /\ UNCHANGED <<caller, mutex, status, outcome, wokenBy>>

\* (faulty) The status of the read-out is reported after it.
ReadStatusLate == "stand"

\* The status readCCD reports.
ReadStatus == "read"

\* (faulty) A time-out is taken for an interruption, and conversely.
ReadsOnNotify(timeout) == ~timeout

\* Only a time-out reads the image, since m_mode_stop_acq is 1.
ReadsImage(timeout) == timeout

\* wait_for returns with the mutex: by time-out, which a notified reader that gets
\* the mutex late reports too; by a notification; or by chance.
Awake(i, timeout) ==
  /\ reader[i] \in {"waiting", "notified"}
  /\ mutex = 0
  /\ mutex' = i
  /\ \/ /\ ReadsImage(timeout)
        /\ reader' = [reader EXCEPT ![i] = "reading"]
        /\ status' = ReadStatus
     \/ /\ ~ReadsImage(timeout)
        /\ reader' = [reader EXCEPT ![i] = "finishing"]
        /\ UNCHANGED status
  /\ wokenBy' = IF timeout \/ reader[i] = "notified" THEN wokenBy
                ELSE [wokenBy EXCEPT ![i] = i]
  /\ UNCHANGED <<caller, outcome>>

\* The driver reads the sensor, or fails, or there is no buffer.
ReadCCD(i) ==
  /\ reader[i] = "reading"
  /\ reader' = [reader EXCEPT ![i] = "finishing"]
  /\ \/ image' = [image EXCEPT ![i] = exposure] /\ UNCHANGED failed
     \/ failed' = failed \cup {i} /\ UNCHANGED image
  /\ UNCHANGED <<caller, mutex, status, wokenBy>>

ReportStand(i) ==
  /\ reader[i] = "finishing"
  /\ reader' = [reader EXCEPT ![i] = "reported"]
  /\ status' = "stand"
  /\ UNCHANGED <<caller, mutex, outcome, wokenBy>>

\* (faulty) The mutex is not released.
ReleasesNot == UNCHANGED mutex

Releases == mutex' = 0

Unlock(i) ==
  /\ reader[i] = "reported"
  /\ reader' = [reader EXCEPT ![i] = "unlocked"]
  /\ Releases
  /\ UNCHANGED <<caller, status, outcome, wokenBy>>

\* The last act of a reader notifies the others.
NotifyEnd(i) ==
  /\ reader[i] = "unlocked"
  /\ NotifyAll([j \in Acqs |-> i])
  /\ reader' = [Notified(reader) EXCEPT ![i] = "ended"]
  /\ UNCHANGED <<caller, mutex, status, outcome>>

Reader(i) ==
  \/ Wait(i) \/ Awake(i, TRUE) \/ Awake(i, FALSE)
  \/ ReadCCD(i) \/ ReportStand(i) \/ Unlock(i) \/ NotifyEnd(i)

Next ==
  \/ Acq \/ ReportExp \/ Launch \/ StopExposure \/ NotifyStop
  \/ \E i \in Acqs : Reader(i)

\* Threads run on and the exposure time passes.  A caller that began acq() or
\* stopExposure() finishes it, but may never call again.
Fairness ==
  /\ WF_vars(ReportExp \/ Launch \/ NotifyStop)
  /\ \A i \in Acqs :
       WF_vars(Wait(i) \/ Awake(i, TRUE) \/ ReadCCD(i) \/ ReportStand(i) \/ Unlock(i) \/ NotifyEnd(i))

Spec == Init /\ [][Next]_vars
FairSpec == Spec /\ Fairness
-----------------------------------------------------------------------------
(***************************************************************************)
(* Properties.                                                             *)
(***************************************************************************)
\* Types; the mutex is held by the reader that is between its lock and its unlock.
TypeOK ==
  /\ count \in 0..MaxAcq /\ exposure = count
  /\ steps \in {<<>>, <<"report", "launch">>, <<"launch">>, <<"notify">>}
  /\ reader \in [Acqs -> {"none", "launched", "waiting", "notified", "unlocked", "ended"} \cup Holding]
  /\ mutex \in {0} \cup Acqs
  /\ \A i \in Acqs : reader[i] \in Holding <=> mutex = i
  /\ status \in {"stand", "exp", "read"}
  /\ image \in [Acqs -> 0..MaxAcq]
  /\ wokenBy \in [Acqs -> 0..MaxAcq]
  /\ failed \subseteq Acqs
  /\ polite \in BOOLEAN

HasReported(i) == reader[i] \notin {"launched", "waiting", "notified", "reading", "finishing"}

\* An acquisition is under way until its reader has reported that the camera stands by.
UnderWay == Acquiring \/ \E i \in Acqs : ~HasReported(i)

\* When no acquisition is under way the last status is "stand", in whatever order
\* the callbacks of several acquisitions came.
StatusSettles == ~UnderWay => status = "stand"

\* A program that waits for "stand" before the next acq(), as the test of the class
\* does (testAbaudelaCamera.cpp), gets the image of its own exposure or none.
ImageIsOwn == polite => \A i \in Acqs : image[i] \in {0, i}

\* A reader ends without an image only when the read-out failed or something woke it
\* before its time; a program that waits for "stand" may still lose an image, to the
\* notification with which an acquisition already over ends.
LostImageWasWoken ==
  \A i \in Acqs :
    /\ reader[i] \in {"reported", "unlocked", "ended"} /\ image[i] = 0 /\ i \notin failed
       => wokenBy[i] # 0
    /\ polite => wokenBy[i] <= i

\* The acquisitions as CameraContract has them; no caller of acq() waits for its own.
OverSet == {i \in Acqs : reader[i] \in {"reported", "unlocked", "ended"}}

Contract == INSTANCE CameraContract WITH
              Limit <- MaxAcq, current <- IF UnderWay THEN count ELSE 0,
              over <- OverSet, callers <- {}, answered <- {}

\* For such a program, which knows of the acquisitions by the status alone, they follow
\* one another and each one ends, as CameraContract promises the scripts of libcam; and
\* the status goes round: stand, exp, read or not, stand.
StatusCycles ==
  /\ Contract!Init
  /\ [][polite' => Contract!Next]_(Contract!contractVars)
  /\ [][polite' => <<status, status'>> \in
          {<<"stand", "exp">>, <<"exp", "read">>, <<"exp", "stand">>, <<"read", "stand">>}]_status

\* Every acquisition ends, even one that a stop missed because it did not wait yet,
\* and however many overlap.
AcquisitionEnds ==
  \A i \in Acqs : (count >= i) ~> (reader[i] = "ended")
=============================================================================
