------------------------------ MODULE TelPulse ------------------------------
(***************************************************************************)
(* The movements of a mount and the survey of its coordinates in libtel    *)
(* (src/audela/src/libtel/libtel.cpp): radec pulse, move, stop, goto and   *)
(* survey.  A mount lives in a Tcl thread of its own.  A pulse runs the    *)
(* event loop of that thread up to three times: while it moves in right    *)
(* ascension, while it moves in declination, and until the survey reads    *)
(* the same coordinates twice.  Commands of other clients, pulses          *)
(* included, run inside these waits and share their flags.                 *)
(*                                                                         *)
(* A client (the main thread, the thread of a camera) sends its commands   *)
(* with a synchronous thread::send: one at a time.                         *)
(***************************************************************************)
EXTENDS Naturals, Sequences

CONSTANTS
  Clients,      \* the threads that send commands to the mount
  Pulsers,      \* those among them that send pulses
  MaxPulses,    \* bound: pulses sent in a behaviour
  MaxRequests   \* bound: other commands sent in a behaviour

ASSUME TelPulseAssumption ==
  /\ Pulsers \subseteq Clients
  /\ MaxPulses \in Nat
  /\ MaxRequests \in Nat

Axes == {"alpha", "delta"}

VARIABLES
  timeDone,             \* the flag the movements of all pulses wait for
  pulseTimers,          \* pending timers, by the client and the axis of the pulse
  radecSurveyState,     \* the survey is on
  radecSurveyIsMoving,  \* the last survey read other coordinates than the one before
  surveyTimers,         \* pending timers of libtel_doRadecSurvey
  moving,               \* what moves the mount: an axis, or a "goto"
  shifted,              \* its coordinates are not those last surveyed
  stack,                \* the pulses that wait, innermost last
  pulses, requests,     \* commands sent so far
  held,                 \* (history) the axes that "radec move" left moving
  overlapped,           \* (history) a pulse began inside the wait of another,
  stopped,              \*   a "radec stop" came inside a wait,
  cut                   \*   a "radec survey 0" came inside the wait for the survey,
                        \*   since the thread was last in its own loop

motion  == <<timeDone, pulseTimers, moving, held>>
survey  == <<radecSurveyState, radecSurveyIsMoving, surveyTimers, shifted>>
history == <<overlapped, stopped, cut>>
vars    == <<motion, survey, stack, pulses, requests, history>>

Init ==
  /\ timeDone = FALSE
  /\ pulseTimers = {}
  /\ radecSurveyState = FALSE
  /\ radecSurveyIsMoving = FALSE
  /\ surveyTimers = 0
  /\ moving = {}
  /\ shifted = TRUE
  /\ stack = <<>>
  /\ pulses = 0
  /\ requests = 0
  /\ held = {}
  /\ overlapped = FALSE
  /\ stopped = FALSE
  /\ cut = FALSE

(***************************************************************************)
(* A pulse on the stack: its client, where it waits ("alpha", "delta" or   *)
(* "survey"), whether a movement in declination is to follow, and          *)
(* previousState, the survey as it found it.                               *)
(***************************************************************************)
Frames == [client : Pulsers, at : Axes \cup {"survey"}, delta : BOOLEAN,
           previousState : BOOLEAN]

Top == stack[Len(stack)]

\* The test of the innermost wait.
Waits(f) == IF f.at = "survey" THEN radecSurveyIsMoving ELSE ~timeDone

\* The thread handles an event: in its own loop, or in a wait not yet over.
Dispatch == stack # <<>> => Waits(Top)

\* (faulty) A client does not wait for the end of its command.
IdleAlways(c) == TRUE

Idle(c) == \A i \in DOMAIN stack : stack[i].client # c

\* Back in its own loop, the thread has forgotten what came inside the waits.
Forget(s) ==
  /\ overlapped' = (overlapped /\ s # <<>>)
  /\ stopped' = (stopped /\ s # <<>>)
  /\ cut' = (cut /\ s # <<>>)
-----------------------------------------------------------------------------
(***************************************************************************)
(* cmdTelRaDec "pulse" with default_tel_sendPulseDuration or Distance.     *)
(***************************************************************************)
\* (faulty) The timer of a movement cut short is not deleted.
TimersLeftAll(c, gone) == pulseTimers

\* Tcl_DeleteTimerHandler, for the axes client c has finished with.
TimersLeft(c, gone) == {t \in pulseTimers : ~(t[1] = c /\ t[2] \in gone)}

\* (faulty) The axis is not stopped.
MovingLeftAll(gone) == moving

\* tel_radec_stop
MovingLeft(gone) == moving \ gone

\* (faulty) libtel_startRadecSurvey without its timer.
SurveyTimersNotStarted == surveyTimers

\* libtel_startRadecSurvey does nothing when the survey is on.
SurveyTimersStarted == IF radecSurveyState THEN surveyTimers ELSE surveyTimers + 1

Frame(c, at, delta, previousState) ==
  [client |-> c, at |-> at, delta |-> delta, previousState |-> previousState]

(***************************************************************************)
(* The stages of a pulse of client c, above the frames s: a movement, or   *)
(* the wait for the survey.  "gone" is the axis it has just moved, if any. *)
(***************************************************************************)
MoveAxis(s, c, axis, delta, gone) ==
  /\ timeDone' = FALSE
  /\ pulseTimers' = TimersLeft(c, gone) \cup {<<c, axis>>}
  /\ moving' = MovingLeft(gone) \cup {axis}
  /\ held' = held \ gone
  /\ stack' = Append(s, Frame(c, axis, delta, FALSE))
  /\ UNCHANGED survey

WaitForSurvey(s, c, gone) ==
  /\ pulseTimers' = TimersLeft(c, gone)
  /\ moving' = MovingLeft(gone)
  /\ held' = held \ gone
  /\ stack' = Append(s, Frame(c, "survey", FALSE, radecSurveyState))
  /\ surveyTimers' = SurveyTimersStarted
  /\ radecSurveyState' = TRUE
  /\ radecSurveyIsMoving' = TRUE
  /\ UNCHANGED <<timeDone, shifted>>

\* A distance or a duration that is 0, or below radecPulseMinRadecDelay, moves
\* nothing.
Pulse(c, alpha, delta) ==
  /\ Dispatch
  /\ Idle(c)
  /\ pulses < MaxPulses
  /\ pulses' = pulses + 1
  /\ \/ alpha /\ MoveAxis(stack, c, "alpha", delta, {})
     \/ ~alpha /\ delta /\ MoveAxis(stack, c, "delta", FALSE, {})
     \/ ~alpha /\ ~delta /\ WaitForSurvey(stack, c, {})
  /\ overlapped' = (overlapped \/ stack # <<>>)
  /\ UNCHANGED <<requests, stopped, cut>>

Below == SubSeq(stack, 1, Len(stack) - 1)

\* The wait for timeDone is over: the axis is stopped, the timer deleted.
MovementReturns ==
  /\ stack # <<>> /\ Top.at \in Axes /\ timeDone
  /\ IF Top.delta
     THEN MoveAxis(Below, Top.client, "delta", FALSE, {Top.at})
     ELSE WaitForSurvey(Below, Top.client, {Top.at})
  /\ UNCHANGED <<pulses, requests, history>>

\* (faulty) The survey is stopped even if it was on before the pulse.
SurveyLeftOff == FALSE

\* libtel_stopRadecSurvey, unless the survey was on before the pulse.
SurveyLeft == radecSurveyState /\ Top.previousState

\* The wait for the survey is over, and the pulse with it.
PulseReturns ==
  /\ stack # <<>> /\ Top.at = "survey" /\ ~radecSurveyIsMoving
  /\ radecSurveyState' = SurveyLeft
  /\ stack' = Below
  /\ Forget(Below)
  /\ UNCHANGED <<motion, radecSurveyIsMoving, surveyTimers, shifted, pulses, requests>>

\* timerCallback
PulseTimer(t) ==
  /\ Dispatch
  /\ t \in pulseTimers
  /\ pulseTimers' = pulseTimers \ {t}
  /\ timeDone' = TRUE
  /\ UNCHANGED <<moving, held, survey, stack, pulses, requests, history>>
-----------------------------------------------------------------------------
(***************************************************************************)
(* The survey.                                                             *)
(***************************************************************************)
\* (faulty) The timer is armed again even if the survey is off.
TimersAfterTickAlways == surveyTimers

\* (faulty) It is never armed again.
TimersAfterTickOnce == surveyTimers - 1

\* The timer of libtel_doRadecSurvey is armed again as long as the survey is on.
TimersAfterTick == IF radecSurveyState THEN surveyTimers ELSE surveyTimers - 1

\* libtel_doRadecSurvey: "radec coord" answers.
SurveyReads ==
  /\ Dispatch
  /\ surveyTimers > 0
  /\ radecSurveyIsMoving' = shifted
  /\ shifted' = FALSE
  /\ surveyTimers' = TimersAfterTick
  /\ UNCHANGED <<motion, radecSurveyState, stack, pulses, requests, history>>

\* libtel_doRadecSurvey: "radec coord" fails.
SurveyFails ==
  /\ Dispatch
  /\ surveyTimers > 0
  /\ surveyTimers' = TimersAfterTick
  /\ UNCHANGED <<motion, radecSurveyState, radecSurveyIsMoving, shifted, stack,
                 pulses, requests, history>>

\* libtel_startRadecSurvey
SurveyOn ==
  /\ surveyTimers' = SurveyTimersStarted
  /\ radecSurveyState' = TRUE
  /\ UNCHANGED cut

\* libtel_stopRadecSurvey; the timer stays.
SurveyOff ==
  /\ radecSurveyState' = FALSE
  /\ cut' = (cut \/ \E i \in DOMAIN stack : stack[i].at = "survey")
  /\ UNCHANGED surveyTimers
-----------------------------------------------------------------------------
(***************************************************************************)
(* The commands that do not wait.                                          *)
(***************************************************************************)
Request(c) ==
  /\ Dispatch
  /\ Idle(c)
  /\ requests < MaxRequests
  /\ requests' = requests + 1

\* radec survey 0|1
Survey(c) ==
  /\ Request(c)
  /\ SurveyOn \/ SurveyOff
  /\ UNCHANGED <<motion, radecSurveyIsMoving, shifted, stack, pulses, overlapped, stopped>>

\* radec move
Move(c, axis) ==
  /\ Request(c)
  /\ moving' = moving \cup {axis}
  /\ held' = held \cup {axis}
  /\ UNCHANGED <<timeDone, pulseTimers, survey, stack, pulses, history>>

\* radec goto, not blocking
Goto(c) ==
  /\ Request(c)
  /\ moving' = moving \cup {"goto"}
  /\ UNCHANGED <<timeDone, pulseTimers, held, survey, stack, pulses, history>>

\* radec stop, of some axes or of everything
Stop(c, what) ==
  /\ Request(c)
  /\ timeDone' = TRUE
  /\ moving' = moving \ what
  /\ held' = held \ what
  /\ stopped' = (stopped \/ stack # <<>>)
  /\ UNCHANGED <<pulseTimers, survey, stack, pulses, overlapped, cut>>
-----------------------------------------------------------------------------
(***************************************************************************)
(* The mount.                                                              *)
(***************************************************************************)
CoordinatesChange ==
  /\ moving # {} /\ ~shifted
  /\ shifted' = TRUE
  /\ UNCHANGED <<motion, radecSurveyState, radecSurveyIsMoving, surveyTimers, stack,
                 pulses, requests, history>>

GotoEnds ==
  /\ "goto" \in moving
  /\ moving' = moving \ {"goto"}
  /\ UNCHANGED <<timeDone, pulseTimers, held, survey, stack, pulses, requests, history>>
-----------------------------------------------------------------------------
Next ==
  \/ \E c \in Pulsers, alpha, delta \in BOOLEAN : Pulse(c, alpha, delta)
  \/ MovementReturns
  \/ PulseReturns
  \/ \E t \in pulseTimers : PulseTimer(t)
  \/ SurveyReads \/ SurveyFails
  \/ \E c \in Clients :
       \/ Survey(c)
       \/ \E axis \in Axes : Move(c, axis) \/ Stop(c, {axis})
       \/ Goto(c)
       \/ Stop(c, Axes \cup {"goto"})
  \/ CoordinatesChange \/ GotoEnds

(***************************************************************************)
(* Expired timers are handled, in whatever loop runs; a wait that is over  *)
(* returns; the mount answers the survey again and again; a goto arrives.  *)
(* No command is fair, and the mount need not move.                        *)
(***************************************************************************)
Fairness ==
  /\ WF_vars(\E t \in pulseTimers : PulseTimer(t))
  /\ WF_vars(SurveyReads)
  /\ WF_vars(MovementReturns)
  /\ WF_vars(PulseReturns)
  /\ WF_vars(GotoEnds)

Spec == Init /\ [][Next]_vars
FairSpec == Spec /\ Fairness
-----------------------------------------------------------------------------
(***************************************************************************)
(* Properties.                                                             *)
(***************************************************************************)

\* Types; a client has one pulse at most, and pulses are nested no deeper than
\* there are clients that send some.
TypeOK ==
  /\ timeDone \in BOOLEAN
  /\ pulseTimers \subseteq Pulsers \X Axes
  /\ radecSurveyState \in BOOLEAN
  /\ radecSurveyIsMoving \in BOOLEAN
  /\ surveyTimers \in Nat
  /\ moving \subseteq Axes \cup {"goto"}
  /\ shifted \in BOOLEAN
  /\ stack \in Seq(Frames)
  /\ \A i, j \in DOMAIN stack : stack[i].client = stack[j].client => i = j
  /\ pulses \in 0..MaxPulses
  /\ requests \in 0..MaxRequests
  /\ held \subseteq moving \cap Axes
  /\ overlapped \in BOOLEAN /\ stopped \in BOOLEAN /\ cut \in BOOLEAN

\* No movement outlives its pulse: an axis moves because of a pulse that will stop
\* it, or because a script asked with "radec move" and has not stopped it; and no
\* timer outlives its pulse, where it would cut a later one short.
MovementHasOwner ==
  /\ \A a \in moving \cap Axes : a \in held \/ \E i \in DOMAIN stack : stack[i].at = a
  /\ \A t \in pulseTimers :
       \E i \in DOMAIN stack : stack[i].client = t[1] /\ stack[i].at = t[2]

\* A movement ends before its duration only when a "radec stop" or another pulse
\* came during the pulse, although all of them share the flag timeDone.
FullDuration ==
  stack # <<>> /\ Top.at \in Axes /\ timeDone =>
    <<Top.client, Top.at>> \notin pulseTimers \/ overlapped \/ stopped

\* A survey that is on has a timer that continues it, however starts, stops and
\* leftover timers follow one another.
SurveyAlive == radecSurveyState => surveyTimers > 0

\* What a pulse waits for is on its way.  A pulse waits for the survey while it is on,
\* unless a script switched it off: pulses, which switch it off when they end, never do
\* so to another one.  And the innermost movement still to be waited for has its timer,
\* as long as timeDone is not set, whatever pulses began and ended above it.
WaitIsServed ==
  /\ ~cut => \A i \in DOMAIN stack : stack[i].at = "survey" => radecSurveyState
  /\ ~timeDone => \A i \in DOMAIN stack :
       (stack[i].at \in Axes /\ \A j \in DOMAIN stack : i < j => stack[j].at \notin Axes)
         => <<stack[i].client, stack[i].at>> \in pulseTimers

\* A pulse during which no other begins returns, and so does the command of its
\* client, unless a script switches its survey off or leaves the mount moving.
PulseEnds == stack # <<>> ~> stack = <<>> \/ overlapped \/ cut \/ held # {}

\* Once the survey is off for good its leftover timers come to an end.
SurveyEnds == ~radecSurveyState ~> surveyTimers = 0 \/ radecSurveyState

\* An axis is stopped once the duration of its pulse is over, also when pulses
\* overlap (libtel.cpp: "duree de l'impulsion sur l'axe alpha en milliseconde").
MovementEnds ==
  \A a \in Axes :
    (a \in moving /\ \A c \in Pulsers : <<c, a>> \notin pulseTimers)
      ~> (a \notin moving \/ a \in held \/ cut)
=============================================================================
