----------------------------- MODULE ThreadSends -----------------------------
(***************************************************************************)
(* The interpreters of AudeLA and their messages: the main thread, the     *)
(* thread of a camera (libcam.cpp, and the sessions of camerathread.tcl)   *)
(* and that of a telescope (libtel.cpp).                                   *)
(* The commands camN, telN and bufN of another thread are aliases          *)
(* (pool_tcl.cpp, libcam.cpp) that post a job there with thread::send and  *)
(* wait for its reply on a condition variable: the sender serves no job    *)
(* meanwhile.  A thread at rest, or in a nested event loop, serves them.   *)
(***************************************************************************)
EXTENDS Naturals, Sequences

CONSTANT MaxCommands  \* bound: commands that scripts of the main thread send

ASSUME ThreadSendsAssumption == MaxCommands \in Nat

NULL == "none"
Threads == {"main", "cam", "tel"}

\* What AcqRead does with an image: subtract a dark, call the header script,
\* write the coordinates of the telescope; and whether the camera may fail.
Setups == [dark : BOOLEAN, header : BOOLEAN, radecFromTel : BOOLEAN, mayFail : BOOLEAN]

\* The sessions of camerathread.tcl.  "acquisition" stands for one image and for
\* continuous images, which start without a test and ask nothing about the image;
\* "guide" for guiding, centring and search, which start if no session is wanted and
\* measure each image.
Modes == {"acquisition", "guide"}

\* The commands of libcam, and the requests that camera.tcl posts.
CamCommands == {"acq", "acq -blocking", "stop", "timer"}
CamRequests == Modes \cup {"stopAcquisition"}

\* "move" stands for what may keep a pulse from its end: radec move, radec survey 0.
TelCommands == {"coord", "pulse", "move"}

VARIABLES
  setup,     \* the camera's configuration, in Setups
  jobs,      \* the jobs posted to each thread and not begun, first come first served
  stack,     \* what each thread is doing, the innermost last
  waiting,   \* the thread whose reply each thread waits for, or NULL
  timer,     \* the timer of the exposure runs (timerExpiration)
  acquisitionInProgress,
  acquisitionState,  \* a session is wanted
  mode,      \* the last session accepted, in Modes
  loops,     \* runs of processAcquisitionLoop scheduled with "after"
  tangled,   \* (history) a pulse began inside another, or "move" was served
  commands   \* bound counter

camera  == <<timer, acquisitionInProgress>>
session == <<acquisitionState, mode, loops>>
vars    == <<setup, jobs, stack, waiting, camera, session, tangled, commands>>

Owner(cmd) == IF cmd = "buf" THEN "main" ELSE "tel"
Asked      == {"buf", "coord", "pulse"}

\* A job is a command, and the thread that waits for its reply, if any.
Jobs == [do : CamCommands \cup CamRequests \cup TelCommands \cup {"buf"},
         from : Threads \cup {NULL}]

\* An activity spreads over several events: what it is, who waits for its end, and
\* what it still has to ask other threads, in order.  A run of a session is in
\* "params" (the update before acq), in "image" (until its image is read) and then
\* in "process".
Runs       == {"params", "image", "process"}
Activities == [do : {"acq", "read", "pulse"} \cup Runs, from : Threads \cup {NULL},
               sends : Seq(Asked)]

Init ==
  /\ setup \in Setups
  /\ jobs = [t \in Threads |-> <<>>]
  /\ stack = [t \in Threads |-> <<>>]
  /\ waiting = [t \in Threads |-> NULL]
  /\ timer = FALSE
  /\ acquisitionInProgress = 0
  /\ acquisitionState = FALSE
  /\ mode \in Modes
  /\ loops = 0
  /\ tangled = FALSE
  /\ commands = 0
-----------------------------------------------------------------------------
(***************************************************************************)
(* What is asked of other threads.                                         *)
(***************************************************************************)
If(cond, s) == IF cond THEN s ELSE <<>>

\* (faulty) setCameraStatus waits for the main thread.
StatusSendsWaits == <<"buf">>

\* setCameraStatus posts to the main thread and waits for nothing.
StatusSends == <<>>

\* (faulty) A telescope waits until the main thread has shown its coordinates.
PulseSendsWaits == <<"buf">>

\* The survey posts the coordinates to the main thread and waits for nothing.
PulseSends == <<>>

\* (faulty) The telescope is asked although the camera has none (telno is 0).
CoordSendsUnset == <<NULL, "buf", "buf">>

\* The coordinates come from the telescope, and are two keywords of the image.
CoordSends == <<"coord", "buf", "buf">>

\* AcqRead: the buffers belong to the main thread, which runs "bufN sub", "bufN
\* setkwd" and "bufN clear".
ReadSends(fails) ==
  (IF fails
   THEN <<"buf">>
   ELSE If(setup.dark, <<"buf">>) \o If(setup.header, <<"buf">>)
        \o If(setup.radecFromTel, CoordSends))
  \o StatusSends

\* What a run asks once it has its image: nothing, when the session was stopped or
\* only takes images; else the measure of the star (slitcentro, the calibration,
\* A_starlist), then the pulse if the star is to be moved.  The dark of the run is
\* never subtracted: darkBufNo is 0 in every session.
ImageSends ==
  IF acquisitionState /\ mode = "guide" THEN {<<"buf">>, <<"buf", "pulse">>} ELSE {<<>>}
-----------------------------------------------------------------------------
(***************************************************************************)
(* thread::send and the event loops.                                       *)
(***************************************************************************)
Top(t) == stack[t][Len(stack[t])]
Push(t, a) == stack' = [stack EXCEPT ![t] = Append(@, a)]

\* The stack of t without its innermost activity.
Popped(t) == [stack EXCEPT ![t] = SubSeq(@, 1, Len(@) - 1)]

\* acq -blocking loops on events while acquisitionInProgress is not 0; a run in its
\* two updates, and while it waits for the end of the exposure.
LoopsOn(t) ==
  \/ Top(t).do \in {"pulse", "params", "image"}
  \/ Top(t).do = "acq" /\ acquisitionInProgress # 0

\* t processes events: at rest, or in the nested event loop of an activity.
TakesEvents(t) ==
  /\ waiting[t] = NULL
  /\ stack[t] # <<>> => LoopsOn(t) /\ Top(t).sends = <<>>

\* t begins the first job posted to it, which is of one of these commands.
Begins(t, cmds) == TakesEvents(t) /\ jobs[t] # <<>> /\ Head(jobs[t]).do \in cmds

Taken(t) == [jobs EXCEPT ![t] = Tail(@)]

\* The thread that sent a job goes on; nobody waits for a job posted with -async.
Reply(from) == waiting' = [u \in Threads |-> IF u = from THEN NULL ELSE waiting[u]]

\* A job that ends at once.
Answers(t, cmds) ==
  /\ Begins(t, cmds)
  /\ jobs' = Taken(t)
  /\ Reply(Head(jobs[t]).from)

\* The end of the innermost activity of t.
Returns(t) == stack' = Popped(t) /\ Reply(Top(t).from)

\* threadAliasCommand: t asks u, and waits.
Ask(t, u, cmd) ==
  /\ jobs' = [jobs EXCEPT ![u] = Append(@, [do |-> cmd, from |-> t])]
  /\ waiting' = [waiting EXCEPT ![t] = u]
-----------------------------------------------------------------------------
(***************************************************************************)
(* The main thread.                                                        *)
(***************************************************************************)
Targets == ({"cam"} \X CamCommands) \cup ({"tel"} \X TelCommands)

\* A script, or a callback of the interface, runs a command of a device.
MainCommand(u, cmd) ==
  /\ TakesEvents("main")
  /\ commands < MaxCommands
  /\ commands' = commands + 1
  /\ Ask("main", u, cmd)
  /\ UNCHANGED <<setup, stack, camera, session, tangled>>

\* camera.tcl posts sessions and stops to the camera's thread with -async.
MainPosts(cmd) ==
  /\ TakesEvents("main")
  /\ commands < MaxCommands
  /\ commands' = commands + 1
  /\ jobs' = [jobs EXCEPT !["cam"] = Append(@, [do |-> cmd, from |-> NULL])]
  /\ UNCHANGED <<setup, stack, waiting, camera, session, tangled>>

MainServes ==
  /\ Answers("main", {"buf"})
  /\ UNCHANGED <<setup, stack, camera, session, tangled, commands>>
-----------------------------------------------------------------------------
(***************************************************************************)
(* The camera's thread.                                                    *)
(***************************************************************************)
\* cmdCamAcq refuses while an exposure runs; else it starts one, and waits in a
\* nested loop with -blocking.
CamAcq ==
  LET job == Head(jobs["cam"])
  IN /\ Begins("cam", {"acq", "acq -blocking"})
     /\ jobs' = Taken("cam")
     /\ timer' = TRUE
     /\ \/ /\ ~timer /\ job.do = "acq -blocking"
           /\ acquisitionInProgress' = 1
           /\ Push("cam", [do |-> "acq", from |-> job.from, sends |-> <<>>])
           /\ UNCHANGED waiting
        \/ /\ timer \/ job.do = "acq"
           /\ Reply(job.from)
           /\ UNCHANGED <<stack, acquisitionInProgress>>
     /\ UNCHANGED <<setup, session, tangled, commands>>

\* The read-out, on behalf of whoever waits for its end.
Reads(from) ==
  \E fails \in {FALSE, setup.mayFail} :
    Push("cam", [do |-> "read", from |-> from, sends |-> ReadSends(fails)])

\* The exposure's timer calls AcqRead.
TimerFires ==
  /\ TakesEvents("cam")
  /\ timer
  /\ timer' = FALSE
  /\ Reads(NULL)
  /\ UNCHANGED <<setup, jobs, waiting, acquisitionInProgress, session, tangled, commands>>

\* cmdCamStop reads the image at once when an exposure runs; stopAcquisition calls it
\* once no session is wanted any more.
CamStop ==
  LET job == Head(jobs["cam"])
  IN /\ Begins("cam", {"stop", "stopAcquisition"})
     /\ jobs' = Taken("cam")
     /\ acquisitionState' = (acquisitionState /\ job.do = "stop")
     /\ acquisitionInProgress' = 2
     /\ timer' = FALSE
     /\ \/ timer /\ Reads(job.from) /\ UNCHANGED waiting
        \/ ~timer /\ Reply(job.from) /\ UNCHANGED stack
     /\ UNCHANGED <<setup, mode, loops, tangled, commands>>

CamAnswers ==
  /\ Answers("cam", {"timer"})
  /\ UNCHANGED <<setup, stack, camera, session, tangled, commands>>

\* (faulty) AcqRead does not tell cmdCamAcq that the acquisition is over.
ReadEndsSilent ==
  /\ Top("cam").do = "read"
  /\ timer' = FALSE
  /\ UNCHANGED <<acquisitionInProgress, session>>

\* The end of AcqRead.
ReadEnds ==
  /\ Top("cam").do = "read"
  /\ timer' = FALSE
  /\ acquisitionInProgress' = 0
  /\ UNCHANGED session

\* The end of cmdCamAcq -blocking.
AcqReturns ==
  /\ Top("cam").do = "acq"
  /\ acquisitionInProgress = 0
  /\ timer' = FALSE
  /\ UNCHANGED <<acquisitionInProgress, session>>

\* The end of a run: the next one is scheduled, or the session is over: it has what
\* it wanted, was stopped, or something failed.
RunReturns ==
  /\ Top("cam").do = "process"
  /\ \/ acquisitionState /\ loops' = loops + 1 /\ UNCHANGED acquisitionState
     \/ acquisitionState' = FALSE /\ UNCHANGED loops
  /\ UNCHANGED <<camera, mode>>

CamEnds ==
  /\ waiting["cam"] = NULL
  /\ stack["cam"] # <<>>
  /\ Top("cam").sends = <<>>
  /\ ReadEnds \/ AcqReturns \/ RunReturns
  /\ Returns("cam")
  /\ UNCHANGED <<setup, jobs, tangled, commands>>
-----------------------------------------------------------------------------
(***************************************************************************)
(* The sessions in the camera's thread.                                    *)
(***************************************************************************)
\* processAcquisitionLoop, called by the job that starts the session and then by its
\* own timer.
RunBegins(from) == Push("cam", [do |-> "params", from |-> from, sends |-> <<>>])

\* A session starts, unless it finds the camera busy or its exposure time fails.
SessionStarts ==
  LET job == Head(jobs["cam"])
  IN /\ Begins("cam", Modes)
     /\ jobs' = Taken("cam")
     /\ \/ /\ job.do = "acquisition" \/ ~acquisitionState
           /\ acquisitionState' = TRUE
           /\ mode' = job.do
           /\ \/ RunBegins(job.from) /\ UNCHANGED waiting
              \/ setup.mayFail /\ Reply(job.from) /\ UNCHANGED stack
        \/ /\ job.do = "guide" /\ acquisitionState
           /\ Reply(job.from)
           /\ UNCHANGED <<stack, acquisitionState, mode>>
     /\ UNCHANGED <<setup, camera, loops, tangled, commands>>

\* The next run of a session starts.
LoopTimer ==
  /\ TakesEvents("cam")
  /\ loops > 0
  /\ loops' = loops - 1
  /\ RunBegins(NULL)
  /\ UNCHANGED <<setup, jobs, waiting, camera, acquisitionState, mode, tangled, commands>>

\* The innermost run goes on.
RunIn(place) ==
  TakesEvents("cam") /\ stack["cam"] # <<>> /\ Top("cam").do = place
RunGoesTo(place, sends) ==
  stack' = [stack EXCEPT !["cam"][Len(stack["cam"])] =
              [Top("cam") EXCEPT !.do = place, !.sends = sends]]

\* The exposure of the run starts; the session is over if acq is refused, or fails.
RunAcq ==
  /\ RunIn("params")
  /\ \/ /\ ~timer
        /\ timer' = TRUE
        /\ RunGoesTo("image", <<>>)
        /\ UNCHANGED <<waiting, acquisitionState>>
     \/ /\ timer \/ setup.mayFail
        /\ Returns("cam")
        /\ acquisitionState' = FALSE
        /\ UNCHANGED timer
  /\ UNCHANGED <<setup, jobs, acquisitionInProgress, mode, loops, tangled, commands>>

\* The run has its image.
RunProcesses ==
  /\ RunIn("image")
  /\ ~timer
  /\ \E sends \in ImageSends : RunGoesTo("process", sends)
  /\ UNCHANGED <<setup, jobs, waiting, camera, session, tangled, commands>>
-----------------------------------------------------------------------------
(***************************************************************************)
(* The telescope's thread.                                                 *)
(***************************************************************************)
TelAnswers ==
  /\ Answers("tel", {"coord"})
  /\ UNCHANGED <<setup, stack, camera, session, tangled, commands>>

TelMoves ==
  /\ Answers("tel", {"move"})
  /\ tangled' = TRUE
  /\ UNCHANGED <<setup, stack, camera, session, commands>>

\* A pulse waits for its timers in a nested loop.
TelPulse ==
  /\ Begins("tel", {"pulse"})
  /\ jobs' = Taken("tel")
  /\ Push("tel", [do |-> "pulse", from |-> Head(jobs["tel"]).from, sends |-> PulseSends])
  /\ tangled' = (tangled \/ stack["tel"] # <<>>)
  /\ UNCHANGED <<setup, waiting, camera, session, commands>>

PulseEnds ==
  /\ TakesEvents("tel")
  /\ stack["tel"] # <<>>
  /\ Returns("tel")
  /\ UNCHANGED <<setup, jobs, camera, session, tangled, commands>>
-----------------------------------------------------------------------------
\* The activity of t asks the next thing it needs.  Without coordinates AcqRead does
\* not write them; a run that gets an error goes to its end.
Send(t) ==
  /\ waiting[t] = NULL
  /\ stack[t] # <<>>
  /\ Top(t).sends # <<>>
  /\ LET cmd == Head(Top(t).sends)
     IN /\ Ask(t, Owner(cmd), cmd)
        /\ \/ stack' = [stack EXCEPT ![t][Len(stack[t])].sends = Tail(@)]
           \/ /\ cmd = "coord"
              /\ stack' = [stack EXCEPT ![t][Len(stack[t])].sends = StatusSends]
           \/ /\ Top(t).do = "process"
              /\ stack' = [stack EXCEPT ![t][Len(stack[t])].sends = <<>>]
  /\ UNCHANGED <<setup, camera, session, tangled, commands>>

Main == MainServes \/ (\E p \in Targets : MainCommand(p[1], p[2]))
                   \/ (\E cmd \in CamRequests : MainPosts(cmd))
CamServes == CamAcq \/ CamStop \/ CamAnswers \/ SessionStarts
Run == RunAcq \/ RunProcesses
Cam == CamServes \/ TimerFires \/ LoopTimer \/ Run \/ CamEnds \/ Send("cam")
Tel == TelAnswers \/ TelMoves \/ TelPulse \/ PulseEnds \/ Send("tel")

Next == Main \/ Cam \/ Tel

(***************************************************************************)
(* Every thread goes on with its jobs, and the timers fire; scripts may    *)
(* send nothing.  The camera's event loops begin a job that waits however  *)
(* often runs come first, and the update of a run returns once no event is *)
(* left: the next run of a session is 0.1 s away, so it cannot keep the    *)
(* one it is nested in, at whatever depth, for ever (strong fairness).  A  *)
(* pulse ends as TelPulse shows: no other one began in it and nothing else *)
(* moves the mount or stops the survey.                                    *)
(***************************************************************************)
Fairness ==
  /\ WF_vars(MainServes)
  /\ SF_vars(CamServes) /\ WF_vars(TimerFires) /\ WF_vars(LoopTimer)
  /\ \A d \in 1..MaxCommands : SF_vars(Len(stack["cam"]) = d /\ Run)
  /\ WF_vars(CamEnds) /\ WF_vars(Send("cam"))
  /\ WF_vars(TelAnswers \/ TelMoves \/ TelPulse) /\ WF_vars(~tangled /\ PulseEnds)
  /\ WF_vars(Send("tel"))

Spec == Init /\ [][Next]_vars
FairSpec == Spec /\ Fairness
-----------------------------------------------------------------------------
(***************************************************************************)
(* Properties.                                                             *)
(***************************************************************************)
\* Types.
TypeOK ==
  /\ setup \in Setups
  /\ jobs \in [Threads -> Seq(Jobs)]
  /\ stack \in [Threads -> Seq(Activities)]
  /\ waiting \in [Threads -> Threads \cup {NULL}]
  /\ timer \in BOOLEAN
  /\ acquisitionInProgress \in 0..2
  /\ acquisitionState \in BOOLEAN
  /\ mode \in Modes
  /\ loops \in Nat
  /\ tangled \in BOOLEAN
  /\ commands \in 0..MaxCommands

\* The main thread and the camera's wait for each other.
MutualWait == waiting["main"] = "cam" /\ waiting["cam"] = "main"

ReadNeedsMain == setup.dark \/ setup.header \/ setup.radecFromTel \/ setup.mayFail

\* Threads that wait for each other, in a ring of any length.
WaitCycle == \E D \in (SUBSET Threads) \ {{}} : \A t \in D : waiting[t] \in D

\* What asks the main thread while the camera's thread serves nothing: a read-out that
\* needs it, and the processing of an image in a session that measures it.
NeedsMain ==
  \/ Top("cam").do = "read" /\ ReadNeedsMain
  \/ Top("cam").do = "process" /\ mode = "guide"

\* Threads stop each other in one way only: the main thread waits for the camera's,
\* which waits for it, in a read-out that needs it or in a session that measures its
\* images.  Neither the status, nor the coordinates, nor a pulse closes a ring, and
\* sessions that only take images close none.
WaitsAreOneWay == WaitCycle => MutualWait /\ NeedsMain

\* A pulse that may never end keeps the main thread: its own, or that of a session in
\* the camera's thread, which serves no command until it is answered.
PulseHolds ==
  /\ tangled
  /\ \E i \in DOMAIN stack["tel"] :
       \/ stack["tel"][i].from = "main"
       \/ stack["tel"][i].from = "cam" /\ waiting["main"] = "cam"

\* Whatever sessions, exposures and pulses run when, a command of the main thread
\* returns, unless the camera waits for the main thread or the pulse waited for met
\* another one or a movement.
CommandReturns ==
  waiting["main"] # NULL ~> waiting["main"] = NULL \/ MutualWait \/ PulseHolds

\* A read-out that asks a telescope for its coordinates gets them, even in the
\* middle of a pulse that never ends, and even when the main thread waits for ever;
\* and a session gets the end of its pulse, unless it met another or a movement.
TelescopeReplies ==
  /\ waiting["cam"] = "tel" /\ Top("cam").do = "read" ~> waiting["cam"] # "tel"
  /\ waiting["cam"] = "tel" ~> waiting["cam"] # "tel" \/ tangled

\* cam.htm: with -blocking the command returns "seulement apres la fin de
\* l'acquisition" (only after the end of the acquisition); so it does return.
BlockingAcqReturns ==
  (\E i \in 1..Len(stack["cam"]) :
     stack["cam"][i].do = "acq" /\ stack["cam"][i].from = "main")
  ~> waiting["main"] = NULL
=============================================================================
