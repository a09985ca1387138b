---------------------------- MODULE CameraThread ----------------------------
(***************************************************************************)
(* The acquisition sessions that Aud'ACE runs in the thread of a camera    *)
(* (gui/audace/camerathread.tcl): one image, continuous images, centring,  *)
(* guiding, search.  A session is a chain of runs of the same handler,     *)
(* processAcquisitionLoop, each of which takes one image and schedules the *)
(* next run with "after".  The handler runs the thread's event loop three  *)
(* times itself (update, update, vwait): there any other event may be      *)
(* handled, among them the requests of the main thread and the next run of *)
(* another chain, nested in the one that waits.                            *)
(*                                                                         *)
(* The camera is what libcam shows a script: "acq" is refused during an    *)
(* exposure, and ::status_cam is written when an exposure starts and ends. *)
(***************************************************************************)
EXTENDS Naturals, Sequences, FiniteSets

CONSTANTS
  Modes,         \* the sessions scripts ask for
  Drivers,       \* those considered: TRUE drops a stopped exposure (libatik, libapogee)
  Fails,         \* exptime, start_exp, or the processing of an image, may fail
  MaxSessions,   \* bound: sessions begun in a behaviour
  MaxStops       \* bound: stopAcquisition requests in a behaviour

AllModes     == {"acq", "continuous", "center", "guide", "search"}
GuardedModes == {"center", "guide", "search"}

ASSUME CameraThreadAssumption ==
  /\ Modes \subseteq AllModes
  /\ Drivers \subseteq BOOLEAN
  /\ Fails \in BOOLEAN
  /\ MaxSessions \in Nat
  /\ MaxStops \in Nat

VARIABLES
  drops,             \* the driver of this camera drops a stopped exposure
  acquisitionState,  \* 1: a session is wanted
  mode,              \* the mode of the last session asked for and not refused
  status,            \* ::status_cam in the camera's interpreter
  exposing,          \* libcam's timer is armed
  stack,             \* where each run of processAcquisitionLoop waits, innermost last
  loops,             \* runs scheduled with "after"
  sessions,          \* sessions begun so far
  forced,            \* those begun without the test that the camera is free
  results,           \* final messages sent: acquisitionResult, or error of a run
  stops              \* stopAcquisition requests so far

vars == <<drops, acquisitionState, mode, status, exposing, stack, loops,
          sessions, forced, results, stops>>

(***************************************************************************)
(* A run waits in "params" (the update of updateParameter), "update" (the  *)
(* one after acq), "exp" or "read" (vwait on ::status_cam); "expDone" and  *)
(* "readDone" are these last two once the variable was written.            *)
(***************************************************************************)
Places  == {"params", "update", "exp", "read", "expDone", "readDone"}
Updates == {"params", "update"}
Vwaits  == {"exp", "read"}

Init ==
  /\ drops \in Drivers
  /\ acquisitionState = 0
  /\ mode \in Modes
  /\ status = "stand"
  /\ exposing = FALSE
  /\ stack = <<>>
  /\ loops = 0
  /\ sessions = 0
  /\ forced = 0
  /\ results = 0
  /\ stops = 0

Top == stack[Len(stack)]

\* The thread handles an event: at top level, in an update, or in a vwait whose
\* variable was not written yet.
Dispatch == stack # <<>> => Top \in Updates \cup Vwaits

Push(place) == Append(stack, place)
Popped == SubSeq(stack, 1, Len(stack) - 1)

\* ::status_cam is written: every vwait on it ends, once it is innermost.
Woken(place) ==
  IF place = "exp" THEN "expDone" ELSE IF place = "read" THEN "readDone" ELSE place
Wake(s) == [i \in 1..Len(s) |-> Woken(s[i])]
-----------------------------------------------------------------------------
(***************************************************************************)
(* Requests.                                                               *)
(***************************************************************************)
\* (faulty) The "camera is busy" test is missing.
MayStartAlways(m) == TRUE

\* "acquisition" and "acquisitionContinuous" do not test acquisitionState.
MayStart(m) == m \in GuardedModes => acquisitionState # 1

\* A session starts, up to the update of its first run.
Start(m) ==
  /\ Dispatch
  /\ MayStart(m)
  /\ sessions < MaxSessions
  /\ sessions' = sessions + 1
  /\ forced' = IF m \in GuardedModes THEN forced ELSE forced + 1
  /\ acquisitionState' = 1
  /\ mode' = m
  /\ stack' = Push("params")
  /\ UNCHANGED <<drops, status, exposing, loops, results, stops>>

\* A session is asked for with an exposure time that the camera refuses: the error
\* leaves the handler before its first run and outside the catch of the runs.  No
\* message is sent, and the session stays wanted.
StartFails(m) ==
  /\ Dispatch
  /\ MayStart(m)
  /\ Fails
  /\ acquisitionState' = 1
  /\ mode' = m
  /\ UNCHANGED <<drops, status, exposing, stack, loops, sessions, forced, results, stops>>

\* stopAcquisition, and cmdCamStop with it.
StopAcquisition ==
  /\ Dispatch
  /\ stops < MaxStops
  /\ stops' = stops + 1
  /\ acquisitionState' = 0
  /\ exposing' = FALSE
  /\ status' = IF exposing /\ drops THEN "read" ELSE "stand"
  /\ stack' = Wake(stack)
  /\ UNCHANGED <<drops, mode, loops, sessions, forced, results>>

\* The timer of libcam: AcqRead.
ExposureEnds ==
  /\ Dispatch
  /\ exposing
  /\ exposing' = FALSE
  /\ status' = "stand"
  /\ stack' = Wake(stack)
  /\ UNCHANGED <<drops, acquisitionState, mode, loops, sessions, forced, results, stops>>
-----------------------------------------------------------------------------
(***************************************************************************)
(* processAcquisitionLoop.                                                 *)
(***************************************************************************)
\* A run scheduled with "after" starts.
LoopTimer ==
  /\ Dispatch
  /\ loops > 0
  /\ loops' = loops - 1
  /\ stack' = Push("params")
  /\ UNCHANGED <<drops, acquisitionState, mode, status, exposing, sessions, forced,
                 results, stops>>

\* The run ends, and its chain with it, after a final message.
ChainEnds ==
  /\ stack' = Popped
  /\ results' = results + 1
  /\ acquisitionState' = 0
  /\ UNCHANGED <<drops, mode, status, exposing, loops, sessions, forced, stops>>

\* (faulty) An interrupted run returns without its message.
InterruptedSilent ==
  /\ acquisitionState # 1
  /\ stack' = Popped
  /\ UNCHANGED <<drops, acquisitionState, mode, status, exposing, loops, sessions, forced,
                 results, stops>>

\* The image was taken after a stop: the final message is empty.
Interrupted == acquisitionState # 1 /\ ChainEnds

\* (faulty) The next run is scheduled twice.
ContinueTwice ==
  /\ mode \in {"continuous", "guide", "center"}
  /\ acquisitionState = 1
  /\ stack' = Popped
  /\ loops' = loops + 2
  /\ UNCHANGED <<drops, acquisitionState, mode, status, exposing, sessions, forced,
                 results, stops>>

\* (faulty) The next run is scheduled without a look at the state.
ContinueAnyway ==
  /\ mode \in {"continuous", "guide", "center"}
  /\ stack' = Popped
  /\ loops' = loops + 1
  /\ UNCHANGED <<drops, acquisitionState, mode, status, exposing, sessions, forced,
                 results, stops>>

\* The session goes on: the next run is scheduled.
Continue ==
  /\ mode \in {"continuous", "guide", "center"}
  /\ acquisitionState = 1
  /\ stack' = Popped
  /\ loops' = loops + 1
  /\ UNCHANGED <<drops, acquisitionState, mode, status, exposing, sessions, forced,
                 results, stops>>

\* The session has what it wanted: an image, a star, or the star in its place.
Complete == mode \in {"acq", "search", "center"} /\ acquisitionState = 1 /\ ChainEnds

\* The processing of the image failed.
ProcessFails == Fails /\ ChainEnds

ImageTaken == Interrupted \/ Continue \/ Complete \/ ProcessFails

\* The innermost run goes to wait elsewhere.
WaitIn(place) ==
  /\ stack' = [stack EXCEPT ![Len(stack)] = place]
  /\ UNCHANGED <<drops, acquisitionState, mode, status, exposing, loops, sessions, forced,
                 results, stops>>

\* The update of updateParameter returns: "acq" is refused, or fails.
AcqFails ==
  /\ stack # <<>> /\ Top = "params"
  /\ exposing \/ Fails
  /\ ChainEnds

\* The same: the exposure starts, and ::status_cam is written.
AcqStarts ==
  /\ stack # <<>> /\ Top = "params"
  /\ ~exposing
  /\ exposing' = TRUE
  /\ status' = "exp"
  /\ stack' = [Wake(stack) EXCEPT ![Len(stack)] = "update"]
  /\ UNCHANGED <<drops, acquisitionState, mode, loops, sessions, forced, results, stops>>

\* (faulty) vwait without a look at the variable: it may wait for an end already past.
UpdateReturnsBlind == stack # <<>> /\ Top = "update" /\ WaitIn("exp")

\* The update after acq returns: wait if the exposure, or its read, still goes on.
UpdateReturns ==
  /\ stack # <<>> /\ Top = "update"
  /\ \/ status = "exp" /\ WaitIn("exp")
     \/ status = "read" /\ WaitIn("read")
     \/ status = "stand" /\ ImageTaken

\* The vwait on the end of the exposure returns.
ExpReturns ==
  /\ stack # <<>> /\ Top = "expDone"
  /\ \/ status = "read" /\ WaitIn("read")
     \/ status # "read" /\ ImageTaken

\* The vwait on the end of the read returns.
ReadReturns == stack # <<>> /\ Top = "readDone" /\ ImageTaken

Resume == AcqFails \/ AcqStarts \/ UpdateReturns \/ ExpReturns \/ ReadReturns
-----------------------------------------------------------------------------
Next ==
  \/ \E m \in Modes : Start(m) \/ StartFails(m)
  \/ StopAcquisition
  \/ ExposureEnds
  \/ LoopTimer
  \/ Resume

(***************************************************************************)
(* Timers expire and are handled, and an update or a vwait that is over    *)
(* returns.  An update is over when no event is left to handle; requests   *)
(* are finitely many.                                                      *)
(***************************************************************************)
Fairness == WF_vars(ExposureEnds) /\ WF_vars(LoopTimer) /\ WF_vars(Resume)

Spec == Init /\ [][Next]_vars
FairSpec == Spec /\ Fairness
-----------------------------------------------------------------------------
(***************************************************************************)
(* Properties.                                                             *)
(***************************************************************************)

\* Types; never more runs scheduled than sessions.
TypeOK ==
  /\ drops \in Drivers
  /\ acquisitionState \in {0, 1}
  /\ mode \in Modes
  /\ status \in {"stand", "exp", "read"}
  /\ exposing \in BOOLEAN
  /\ stack \in Seq(Places)
  /\ loops \in 0..MaxSessions
  /\ sessions \in 0..MaxSessions
  /\ forced \in 0..sessions
  /\ results \in Nat
  /\ stops \in 0..MaxStops

\* Each session that began its first run is still running, in a wait or scheduled, or
\* has sent exactly one final message, however runs are nested, stopped or failing.
\* (One whose exposure time is refused sends none: StartFails.)
EveryChainAnswers == sessions = results + Len(stack) + loops

\* Chains overlap only where a stop or a session of the unguarded kinds came
\* between: the test "camera is busy" of the guarded kinds lets a chain start only
\* after a stop since the last one, and each stop lets one start.
ChainsBounded == Len(stack) + loops <= 1 + stops + forced

\* No lost wakeup: a run that waits for the end of an exposure on ::status_cam waits
\* for one under way, and only a dropped exposure makes a run wait for its read.
WaitsForExposure ==
  \A i \in DOMAIN stack :
    /\ stack[i] = "exp" => exposing
    /\ stack[i] = "read" => drops

\* The runs that have an exposure before them: scheduled, or not yet at "acq".
BeforeAcq == {i \in DOMAIN stack : stack[i] = "params"}
Pending   == loops + Cardinality(BeforeAcq)

\* While no session is wanted no run is added to these, and each exposure that begins
\* uses one up: a chain that a stop left under way makes one more exposure at most,
\* however the chains are nested and whatever fails.
OneMoreEach ==
  [][acquisitionState = 0 /\ acquisitionState' = 0 =>
       /\ Pending' <= Pending
       /\ ~exposing /\ exposing' => Pending' < Pending]_vars

\* Nothing is left running in the thread, or a new session started.
AtRest == (stack = <<>> /\ loops = 0 /\ ~exposing) \/ acquisitionState = 1

\* With a driver that does not drop exposures, a stop or the end of a session
\* brings the thread to rest: every run returns, none is scheduled again.
StopEnds == acquisitionState = 0 /\ ~drops ~> AtRest

\* Exposures start only while a session is wanted (acquisitionContinuous: "fait
\* des acquisitions continues jusqu'a ce que stopAcquisition soit appellee").
NoExposureAfterStop == [][~exposing /\ exposing' => acquisitionState = 1]_vars
-----------------------------------------------------------------------------
\* The camera of this module is the one StatusCam describes, and libcam implements.
Camera == INSTANCE StatusCam
=============================================================================
