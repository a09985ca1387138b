-------------------------- MODULE ThreadSends_proofs --------------------------
(***************************************************************************)
(* Theorems about ThreadSends, for any number of commands: types, that     *)
(* every thread that waits is owed one reply, and that the main thread and *)
(* the camera's alone may wait for each other, in a read-out that asks the *)
(* main thread for something or in a session that measures its images.     *)
(***************************************************************************)
EXTENDS ThreadSends, SequenceTheorems, TLAPS

\* An activity of the camera's thread that may ask the main thread for something.
Needs(a) == (a.do = "read" /\ ReadNeedsMain) \/ (a.do = "process" /\ mode = "guide")

\* What asks others in the camera's thread is innermost until it ends, and is a
\* read-out that needs the main thread or the processing of an image to be measured.
QuietInv ==
  /\ \A i \in 1..Len(stack["cam"]) :
       /\ stack["cam"][i].do \in {"read", "process"} => i = Len(stack["cam"])
       /\ stack["cam"][i].sends # <<>> => Needs(stack["cam"][i])
  /\ waiting["cam"] # NULL => stack["cam"] # <<>> /\ Needs(Top("cam"))

\* What threads send.
Sent == CamCommands \cup TelCommands \cup {"buf"}

LEMMA AskedSent == Asked \subseteq Sent /\ \A cmd \in Asked : Owner(cmd) \in {"main", "tel"}
BY DEF Asked, Sent, TelCommands, Owner
-----------------------------------------------------------------------------
(***************************************************************************)
(* Sequences and records.                                                  *)
(***************************************************************************)
\* The first job posted to a thread, and those left once it is begun.
LEMMA JobTaken ==
  ASSUME TypeOK, NEW t \in Threads, jobs[t] # <<>>
  PROVE  /\ Head(jobs[t]) \in Jobs
         /\ Head(jobs[t]).from \in Threads \cup {NULL}
         /\ Taken(t) \in [Threads -> Seq(Jobs)]
<1>1. jobs[t] \in Seq(Jobs)
  BY DEF TypeOK
<1>2. Head(jobs[t]) \in Jobs /\ Tail(jobs[t]) \in Seq(Jobs)
  BY <1>1, HeadTailProperties
<1>3. Head(jobs[t]).from \in Threads \cup {NULL}
  BY <1>2 DEF Jobs
<1>4. Taken(t) \in [Threads -> Seq(Jobs)]
  BY <1>2 DEF Taken, TypeOK
<1> QED
  BY <1>2, <1>3, <1>4

\* The innermost activity of a thread.
LEMMA TopTyped ==
  ASSUME TypeOK, NEW t \in Threads, stack[t] # <<>>
  PROVE  /\ Len(stack[t]) \in Nat \ {0}
         /\ Top(t) \in Activities
         /\ Top(t).from \in Threads \cup {NULL}
         /\ Top(t).sends \in Seq(Asked)
         /\ Popped(t) \in [Threads -> Seq(Activities)]
         /\ Len(Popped(t)[t]) = Len(stack[t]) - 1
         /\ \A i \in 1..Len(stack[t]) - 1 : Popped(t)[t][i] = stack[t][i]
<1> DEFINE s == stack[t]
           n == Len(s) - 1
<1>1. s \in Seq(Activities) /\ Len(s) \in Nat /\ Len(s) # 0 /\ n \in Nat
  BY DEF TypeOK
<1>2. Top(t) = s[Len(s)] /\ s[Len(s)] \in Activities
  BY <1>1 DEF Top
<1>3. Top(t).from \in Threads \cup {NULL} /\ Top(t).sends \in Seq(Asked)
  BY <1>2 DEF Activities
<1>4. \A i \in 1..n : s[i] \in Activities
  BY <1>1
<1>5. Popped(t) = [stack EXCEPT ![t] = SubSeq(s, 1, n)]
  BY DEF Popped
<1> HIDE DEF s, n
<1>6. /\ SubSeq(s, 1, n) \in Seq(Activities) /\ Len(SubSeq(s, 1, n)) = n
      /\ \A i \in 1..n : SubSeq(s, 1, n)[i] = s[i]
  BY <1>1, <1>4, SubSeqProperties
<1>7. Popped(t) \in [Threads -> Seq(Activities)] /\ Popped(t)[t] = SubSeq(s, 1, n)
  BY <1>5, <1>6 DEF TypeOK
<1> QED
  BY <1>1, <1>2, <1>3, <1>6, <1>7 DEF s, n

\* An activity is pushed on the stack of a thread.
LEMMA PushTyped ==
  ASSUME TypeOK, NEW t \in Threads, NEW a \in Activities, Push(t, a)
  PROVE  /\ stack' \in [Threads -> Seq(Activities)]
         /\ Len(stack[t]) \in Nat
         /\ Len(stack'[t]) = Len(stack[t]) + 1
         /\ \A i \in 1..Len(stack[t]) : stack'[t][i] = stack[t][i]
         /\ stack'[t][Len(stack[t]) + 1] = a
         /\ \A u \in Threads \ {t} : stack'[u] = stack[u]
<1>1. stack[t] \in Seq(Activities) /\ Len(stack[t]) \in Nat
  BY DEF TypeOK
<1>2. /\ Append(stack[t], a) \in Seq(Activities)
      /\ Len(Append(stack[t], a)) = Len(stack[t]) + 1
      /\ \A i \in 1..Len(stack[t]) : Append(stack[t], a)[i] = stack[t][i]
      /\ Append(stack[t], a)[Len(stack[t]) + 1] = a
  BY <1>1
<1>3. stack' = [stack EXCEPT ![t] = Append(stack[t], a)]
  BY DEF Push
<1>4. /\ stack' \in [Threads -> Seq(Activities)] /\ stack'[t] = Append(stack[t], a)
      /\ \A u \in Threads \ {t} : stack'[u] = stack[u]
  BY <1>2, <1>3 DEF TypeOK
<1> QED
  BY <1>1, <1>2, <1>4

\* A reply leaves the waits typed, and nobody waits who did not.
LEMMA ReplyTyped ==
  ASSUME TypeOK, NEW from, Reply(from)
  PROVE  /\ waiting' \in [Threads -> Threads \cup {NULL}]
         /\ \A u \in Threads : waiting[u] = NULL => waiting'[u] = NULL
BY DEF Reply, TypeOK

\* A question leaves the jobs and the waits typed, and is asked by one thread.
LEMMA AskTyped ==
  ASSUME TypeOK, NEW t \in Threads, NEW u \in Threads,
         NEW cmd \in Sent, Ask(t, u, cmd)
  PROVE  /\ jobs' \in [Threads -> Seq(Jobs)]
         /\ waiting' \in [Threads -> Threads \cup {NULL}]
         /\ \A v \in Threads \ {t} : waiting'[v] = waiting[v]
<1>1. [do |-> cmd, from |-> t] \in Jobs
  BY DEF Jobs, Sent
<1>2. jobs[u] \in Seq(Jobs)
  BY DEF TypeOK
<1>3. Append(jobs[u], [do |-> cmd, from |-> t]) \in Seq(Jobs)
  BY <1>1, <1>2
<1> QED
  BY <1>3 DEF Ask, TypeOK

\* The innermost activity of a thread is replaced.
Replaced(t, a) == stack[t] # <<>> /\ stack' = [stack EXCEPT ![t][Len(stack[t])] = a]

LEMMA ReplacedTyped ==
  ASSUME TypeOK, NEW t \in Threads, NEW a \in Activities, Replaced(t, a)
  PROVE  /\ stack' \in [Threads -> Seq(Activities)]
         /\ Len(stack[t]) \in Nat \ {0} /\ Len(stack'[t]) = Len(stack[t])
         /\ \A i \in 1..Len(stack[t]) :
              stack'[t][i] = IF i = Len(stack[t]) THEN a ELSE stack[t][i]
         /\ \A u \in Threads \ {t} : stack'[u] = stack[u]
<1> DEFINE n == Len(stack[t])
           r == [stack[t] EXCEPT ![n] = a]
<1>1. stack[t] \in Seq(Activities) /\ n \in Nat \ {0} /\ n \in 1..Len(stack[t])
  <2>1. stack[t] # <<>>
    BY DEF Replaced
  <2> QED
    BY <2>1, TopTyped DEF TypeOK
<1>2. stack' = [stack EXCEPT ![t] = r]
  BY DEF Replaced
<1> HIDE DEF n
<1>3. /\ r \in Seq(Activities) /\ Len(r) = Len(stack[t])
      /\ \A i \in 1..Len(stack[t]) : r[i] = IF i = n THEN a ELSE stack[t][i]
  BY <1>1, ExceptSeq
<1> HIDE DEF r
<1>4. /\ stack' \in [Threads -> Seq(Activities)] /\ stack'[t] = r
      /\ \A u \in Threads \ {t} : stack'[u] = stack[u]
  BY <1>2, <1>3 DEF TypeOK
<1> QED
  BY <1>1, <1>3, <1>4 DEF n

\* The questions of a read-out, and there are none if the main thread is not needed.
LEMMA ReadSendsTyped ==
  ASSUME TypeOK, NEW fails \in {FALSE, setup.mayFail}
  PROVE  /\ ReadSends(fails) \in Seq(Asked)
         /\ ~ReadNeedsMain => ReadSends(fails) = <<>>
<1>1. CoordSends \in Seq(Asked) /\ <<"buf">> \in Seq(Asked) /\ <<>> \in Seq(Asked)
  BY DEF CoordSends, Asked
<1>2. \A p, q \in Seq(Asked) : p \o q \in Seq(Asked)
  OBVIOUS
<1>3. \A c : If(c, <<"buf">>) \in Seq(Asked) /\ If(c, CoordSends) \in Seq(Asked)
  BY <1>1 DEF If
<1>4. ReadSends(fails) \in Seq(Asked)
  BY <1>1, <1>2, <1>3 DEF ReadSends, StatusSends
<1>5. ASSUME ~ReadNeedsMain PROVE ReadSends(fails) = <<>>
  <2>1. setup.dark = FALSE /\ setup.header = FALSE /\ setup.radecFromTel = FALSE
    BY <1>5 DEF ReadNeedsMain, TypeOK, Setups
  <2>2. fails = FALSE
    BY <1>5 DEF ReadNeedsMain, TypeOK, Setups
  <2>3. If(FALSE, <<"buf">>) = <<>> /\ If(FALSE, CoordSends) = <<>>
    BY DEF If
  <2>4. <<>> \o <<>> = <<>>
    OBVIOUS
  <2> QED
    BY <2>1, <2>2, <2>3, <2>4 DEF ReadSends, StatusSends
<1> QED
  BY <1>4, <1>5
-----------------------------------------------------------------------------
(***************************************************************************)
(* What a step does to the jobs, the stacks and the waits.                 *)
(***************************************************************************)
\* A job that ends at once.
Answered(t) ==
  /\ jobs[t] # <<>> /\ jobs' = Taken(t) /\ Reply(Head(jobs[t]).from)
  /\ UNCHANGED stack

\* A thread in an event loop begins an activity, for a job or for a timer.
Begun(t, a) ==
  /\ t # "main" /\ a \in Activities
  /\ TakesEvents(t) /\ Push(t, a) /\ UNCHANGED waiting
  /\ \/ jobs[t] # <<>> /\ jobs' = Taken(t) /\ a.from = Head(jobs[t]).from
     \/ UNCHANGED jobs /\ a.from = NULL
  /\ IF t = "cam" THEN a.sends # <<>> => a.do = "read" /\ ReadNeedsMain ELSE a.sends = <<>>
  /\ UNCHANGED mode \/ (t = "cam" /\ a.sends = <<>>)

\* The innermost activity of a thread ends.
Ended(t) ==
  /\ t # "main" /\ waiting[t] = NULL /\ stack[t] # <<>>
  /\ Returns(t) /\ UNCHANGED <<jobs, mode>>

\* A run of a session goes on.
Moved(a) ==
  /\ a \in Activities /\ a.from = Top("cam").from
  /\ TakesEvents("cam") /\ Replaced("cam", a)
  /\ a.sends # <<>> => a.do = "process" /\ mode = "guide"
  /\ UNCHANGED <<jobs, waiting, mode>>

\* The innermost activity of a thread asks another for something.
Sends(t, a) ==
  /\ waiting[t] = NULL /\ stack[t] # <<>>
  /\ Top(t).sends # <<>> /\ Head(Top(t).sends) \in Asked
  /\ Ask(t, Owner(Head(Top(t).sends)), Head(Top(t).sends))
  /\ a \in Activities /\ a.do = Top(t).do /\ a.from = Top(t).from
  /\ a.sends \in {<<>>, Tail(Top(t).sends)}
  /\ Replaced(t, a) /\ UNCHANGED mode

\* The main thread sends a command, or posts a request.
Commanded ==
  /\ waiting["main"] = NULL
  /\ \E u \in {"cam", "tel"}, cmd \in Sent : Ask("main", u, cmd)
  /\ UNCHANGED <<stack, mode>>
Posted ==
  /\ \E j \in Jobs : j.from = NULL /\ jobs' = [jobs EXCEPT !["cam"] = Append(@, j)]
  /\ UNCHANGED <<stack, waiting, mode>>

Step ==
  \/ \E t \in Threads : Answered(t) /\ (UNCHANGED mode \/ TakesEvents("cam"))
  \/ \E t \in Threads, a \in Activities : Begun(t, a)
  \/ \E t \in Threads : Ended(t)
  \/ \E a \in Activities : Moved(a)
  \/ \E t \in Threads, a \in Activities : Sends(t, a)
  \/ Commanded
  \/ Posted

LEMMA ReadBegun ==
  ASSUME TypeOK, NEW from \in Threads \cup {NULL}, Reads(from), TakesEvents("cam"),
         UNCHANGED <<waiting, mode>>,
         \/ jobs["cam"] # <<>> /\ jobs' = Taken("cam") /\ from = Head(jobs["cam"]).from
         \/ UNCHANGED jobs /\ from = NULL
  PROVE  \E a \in Activities : Begun("cam", a)
<1>1. PICK fails \in {FALSE, setup.mayFail} :
        Push("cam", [do |-> "read", from |-> from, sends |-> ReadSends(fails)])
  BY DEF Reads
<1> DEFINE a == [do |-> "read", from |-> from, sends |-> ReadSends(fails)]
<1>2. ReadSends(fails) \in Seq(Asked) /\ (~ReadNeedsMain => ReadSends(fails) = <<>>)
  BY ReadSendsTyped
<1>3. a \in Activities /\ a.from = from /\ a.do = "read" /\ a.sends = ReadSends(fails)
  BY <1>2 DEF Activities
<1> HIDE DEF a
<1>4. Push("cam", a)
  BY <1>1 DEF a
<1> QED
  BY <1>2, <1>3, <1>4 DEF Begun

\* An activity that asks nothing begins.
LEMMA QuietBegun ==
  ASSUME TypeOK, NEW t \in {"cam", "tel"}, NEW from \in Threads \cup {NULL},
         NEW do \in {"acq", "pulse", "params"}, TakesEvents(t), UNCHANGED waiting,
         t = "cam" \/ UNCHANGED mode,
         Push(t, [do |-> do, from |-> from, sends |-> <<>>]),
         \/ jobs[t] # <<>> /\ jobs' = Taken(t) /\ from = Head(jobs[t]).from
         \/ UNCHANGED jobs /\ from = NULL
  PROVE  \E a \in Activities : Begun(t, a)
<1> DEFINE a == [do |-> do, from |-> from, sends |-> <<>>]
<1>1. <<>> \in Seq(Asked)
  OBVIOUS
<1>2. a \in Activities /\ a.from = from /\ a.sends = <<>>
  BY <1>1 DEF Activities, Runs
<1> HIDE DEF a
<1>3. Push(t, a)
  BY DEF a
<1> QED
  BY <1>2, <1>3 DEF Begun

\* cmdCamAcq, cmdCamStop, and the start of a session.
LEMMA ServedSteps == ASSUME TypeOK, CamAcq \/ CamStop \/ SessionStarts PROVE Step
<1>0. "cam" \in Threads
  BY DEF Threads
<1> DEFINE f == Head(jobs["cam"]).from
<1>1. /\ TakesEvents("cam") /\ jobs["cam"] # <<>> /\ jobs' = Taken("cam")
  BY DEF CamAcq, CamStop, SessionStarts, Begins
<1>2. f \in Threads \cup {NULL}
  BY <1>0, <1>1, JobTaken
<1>3. CASE CamAcq
  <2>1. \/ Push("cam", [do |-> "acq", from |-> f, sends |-> <<>>]) /\ UNCHANGED waiting
        \/ Reply(f) /\ UNCHANGED stack
    BY <1>3 DEF CamAcq
  <2>2. UNCHANGED mode
    BY <1>3 DEF CamAcq, session
  <2> HIDE DEF f
  <2>3. CASE Push("cam", [do |-> "acq", from |-> f, sends |-> <<>>]) /\ UNCHANGED waiting
    BY <1>0, <1>1, <1>2, <2>3, QuietBegun DEF Step, f
  <2> QED
    BY <1>0, <1>1, <2>1, <2>2, <2>3 DEF Step, Answered, f
<1>4. CASE CamStop
  <2>1. \/ Reads(f) /\ UNCHANGED waiting
        \/ Reply(f) /\ UNCHANGED stack
    BY <1>4 DEF CamStop
  <2>2. UNCHANGED mode
    BY <1>4 DEF CamStop
  <2> HIDE DEF f
  <2>3. CASE Reads(f) /\ UNCHANGED waiting
    BY <1>0, <1>1, <1>2, <2>2, <2>3, ReadBegun DEF Step, f
  <2> QED
    BY <1>0, <1>1, <2>1, <2>2, <2>3 DEF Step, Answered, f
<1>5. CASE SessionStarts
  <2>1. \/ RunBegins(f) /\ UNCHANGED waiting
        \/ Reply(f) /\ UNCHANGED stack
    BY <1>5 DEF SessionStarts
  <2> HIDE DEF f
  <2>3. CASE RunBegins(f) /\ UNCHANGED waiting
    BY <1>0, <1>1, <1>2, <2>3, QuietBegun DEF Step, f, RunBegins
  <2> QED
    BY <1>0, <1>1, <2>1, <2>3 DEF Step, Answered, f
<1> QED
  BY <1>3, <1>4, <1>5

\* The timers, and what goes on in the camera's thread.
LEMMA CameraSteps ==
  ASSUME TypeOK, TimerFires \/ LoopTimer \/ Run \/ CamEnds PROVE Step
<1>0. "cam" \in Threads /\ NULL \in Threads \cup {NULL}
  BY DEF Threads
<1>1. CASE TimerFires
  <2>1. Reads(NULL) /\ TakesEvents("cam") /\ UNCHANGED <<jobs, waiting, mode>>
    BY <1>1 DEF TimerFires, session
  <2> QED
    BY <1>0, <2>1, ReadBegun DEF Step
<1>2. CASE LoopTimer
  <2>1. RunBegins(NULL) /\ TakesEvents("cam") /\ UNCHANGED <<jobs, waiting>>
    BY <1>2 DEF LoopTimer
  <2> QED
    BY <1>0, <2>1, QuietBegun DEF Step, RunBegins
<1>3. CASE CamEnds
  <2>1. UNCHANGED mode
    BY <1>3 DEF CamEnds, ReadEnds, AcqReturns, RunReturns, session
  <2> QED
    BY <1>0, <1>3, <2>1 DEF CamEnds, Step, Ended
<1>4. ASSUME RunIn("params") \/ RunIn("image"), NEW place \in Runs, NEW q \in Seq(Asked),
             RunGoesTo(place, q), q # <<>> => place = "process" /\ mode = "guide",
             UNCHANGED <<jobs, waiting, mode>>
      PROVE  Step
  <2> DEFINE a == [Top("cam") EXCEPT !.do = place, !.sends = q]
  <2>1. TakesEvents("cam") /\ stack["cam"] # <<>>
    BY <1>4 DEF RunIn
  <2>2. Top("cam") \in Activities
    BY <1>0, <2>1, TopTyped
  <2>3. a \in Activities /\ a.from = Top("cam").from /\ a.sends = q /\ a.do = place
    BY <2>2 DEF Activities
  <2> HIDE DEF a
  <2>4. stack' = [stack EXCEPT !["cam"][Len(stack["cam"])] = a]
    BY <1>4 DEF RunGoesTo, a
  <2>5. Replaced("cam", a)
    BY <2>1, <2>4 DEF Replaced
  <2> QED
    BY <1>4, <2>1, <2>3, <2>5 DEF Step, Moved
<1>5. CASE RunAcq
  <2>1. CASE RunGoesTo("image", <<>>) /\ UNCHANGED waiting
    <3>1. <<>> \in Seq(Asked) /\ "image" \in Runs
      BY DEF Runs
    <3> QED
      BY <1>4, <1>5, <2>1, <3>1 DEF RunAcq
  <2>2. CASE Returns("cam")
    BY <1>0, <1>5, <2>2 DEF RunAcq, RunIn, TakesEvents, Step, Ended
  <2> QED
    BY <1>5, <2>1, <2>2 DEF RunAcq
<1>6. CASE RunProcesses
  <2>1. PICK q \in ImageSends : RunGoesTo("process", q)
    BY <1>6 DEF RunProcesses
  <2>2. q \in Seq(Asked) /\ (q # <<>> => mode = "guide")
    <3>1. <<>> \in Seq(Asked) /\ <<"buf">> \in Seq(Asked) /\ <<"buf", "pulse">> \in Seq(Asked)
      BY DEF Asked
    <3>2. \/ mode = "guide" /\ q \in {<<"buf">>, <<"buf", "pulse">>}
          \/ q = <<>>
      BY <2>1 DEF ImageSends
    <3> QED
      BY <3>1, <3>2
  <2>3. "process" \in Runs
    BY DEF Runs
  <2> QED
    BY <1>4, <1>6, <2>1, <2>2, <2>3 DEF RunProcesses, session
<1> QED
  BY <1>1, <1>2, <1>3, <1>5, <1>6 DEF Run

\* A question of an activity that spreads over several events.
LEMMA SendSteps == ASSUME TypeOK, NEW t \in Threads, Send(t) PROVE Step
<1>1. stack[t] # <<>> /\ Top(t).sends # <<>> /\ waiting[t] = NULL /\ UNCHANGED mode
  BY DEF Send, session
<1>2. Top(t) \in Activities /\ Top(t).sends \in Seq(Asked)
  BY <1>1, TopTyped
<1>3. Head(Top(t).sends) \in Asked /\ Tail(Top(t).sends) \in Seq(Asked)
  BY <1>1, <1>2, HeadTailProperties
<1>4. PICK q \in {<<>>, Tail(Top(t).sends)} :
        stack' = [stack EXCEPT ![t][Len(stack[t])].sends = q]
  <2>1. \/ stack' = [stack EXCEPT ![t][Len(stack[t])].sends = Tail(@)]
        \/ stack' = [stack EXCEPT ![t][Len(stack[t])].sends = StatusSends]
        \/ stack' = [stack EXCEPT ![t][Len(stack[t])].sends = <<>>]
    BY DEF Send
  <2>2. CASE stack' = [stack EXCEPT ![t][Len(stack[t])].sends = Tail(@)]
    <3>1. stack' = [stack EXCEPT ![t][Len(stack[t])].sends = Tail(Top(t).sends)]
      BY <2>2 DEF Top
    <3> QED
      BY <3>1
  <2> QED
    BY <2>1, <2>2 DEF StatusSends
<1> DEFINE a == [Top(t) EXCEPT !.sends = q]
<1>5. q \in Seq(Asked)
  <2>1. <<>> \in Seq(Asked)
    OBVIOUS
  <2> QED
    BY <1>3, <2>1
<1>6. a \in Activities /\ a.do = Top(t).do /\ a.from = Top(t).from /\ a.sends = q
  BY <1>2, <1>5 DEF Activities
<1>7. stack' = [stack EXCEPT ![t][Len(stack[t])] = a]
  BY <1>4 DEF Top
<1> HIDE DEF a
<1>8. Replaced(t, a)
  BY <1>1, <1>7 DEF Replaced
<1>9. Ask(t, Owner(Head(Top(t).sends)), Head(Top(t).sends))
  BY DEF Send
<1> QED
  BY <1>1, <1>3, <1>6, <1>8, <1>9 DEF Step, Sends

LEMMA Steps == ASSUME TypeOK, Next PROVE Step
<1>0. "main" \in Threads /\ "cam" \in Threads /\ "tel" \in Threads
  BY DEF Threads
<1>1. ASSUME NEW t \in Threads, NEW cmds, Answers(t, cmds), UNCHANGED <<stack, session>>
      PROVE  Step
  <2>1. jobs[t] # <<>> /\ jobs' = Taken(t) /\ Reply(Head(jobs[t]).from)
    BY <1>1 DEF Answers, Begins
  <2> QED
    BY <1>1, <2>1 DEF Step, Answered, session
<1>2. CASE MainServes \/ CamAnswers \/ TelAnswers \/ TelMoves
  BY <1>0, <1>1, <1>2 DEF MainServes, CamAnswers, TelAnswers, TelMoves
<1>3. ASSUME NEW p \in Targets, MainCommand(p[1], p[2]) PROVE Step
  <2>1. p[1] \in {"cam", "tel"} /\ p[2] \in Sent
    BY DEF Targets, Sent
  <2> QED
    BY <1>3, <2>1 DEF MainCommand, TakesEvents, session, Step, Commanded
<1>4. ASSUME NEW cmd \in CamRequests, MainPosts(cmd) PROVE Step
  <2> DEFINE j == [do |-> cmd, from |-> NULL]
  <2>1. j \in Jobs /\ j.from = NULL
    BY DEF Jobs
  <2>2. jobs' = [jobs EXCEPT !["cam"] = Append(@, j)] /\ UNCHANGED <<stack, waiting, mode>>
    BY <1>4 DEF MainPosts, session
  <2> HIDE DEF j
  <2> QED
    BY <2>1, <2>2 DEF Step, Posted
<1>5. CASE TelPulse
  <2>1. /\ jobs["tel"] # <<>> /\ jobs' = Taken("tel") /\ UNCHANGED waiting
        /\ TakesEvents("tel")
        /\ Push("tel", [do |-> "pulse", from |-> Head(jobs["tel"]).from, sends |-> <<>>])
    BY <1>5 DEF TelPulse, Begins, PulseSends
  <2>3. UNCHANGED mode
    BY <1>5 DEF TelPulse, session
  <2>2. Head(jobs["tel"]).from \in Threads \cup {NULL}
    BY <1>0, <2>1, JobTaken
  <2> QED
    BY <1>0, <2>1, <2>2, <2>3, QuietBegun DEF Step
<1>6. CASE PulseEnds
  BY <1>0, <1>6 DEF PulseEnds, TakesEvents, session, Step, Ended
<1> QED
  BY <1>0, <1>2, <1>3, <1>4, <1>5, <1>6, ServedSteps, CameraSteps, SendSteps
     DEF Next, Main, Cam, CamServes, Tel
-----------------------------------------------------------------------------
(***************************************************************************)
(* Types.                                                                  *)
(***************************************************************************)
\* The variables other than the jobs, the stacks and the waits.
LEMMA OthersTyped ==
  ASSUME TypeOK, Next
  PROVE  /\ setup' = setup
         /\ timer' \in BOOLEAN /\ acquisitionInProgress' \in 0..2
         /\ acquisitionState' \in BOOLEAN /\ mode' \in Modes /\ loops' \in Nat
         /\ tangled' \in BOOLEAN /\ commands' \in 0..MaxCommands
<1>1. UNCHANGED setup
  BY DEF Next, Main, MainServes, MainCommand, MainPosts,
         Cam, CamServes, CamAcq, CamStop, CamAnswers, SessionStarts,
         TimerFires, LoopTimer, Run, RunAcq, RunProcesses, CamEnds, Send,
         Tel, TelAnswers, TelMoves, TelPulse, PulseEnds
<1>2. UNCHANGED commands \/ (commands < MaxCommands /\ commands' = commands + 1)
  BY DEF Next, Main, MainServes, MainCommand, MainPosts,
         Cam, CamServes, CamAcq, CamStop, CamAnswers, SessionStarts,
         TimerFires, LoopTimer, Run, RunAcq, RunProcesses, CamEnds, Send,
         Tel, TelAnswers, TelMoves, TelPulse, PulseEnds
<1>3. commands' \in 0..MaxCommands
  BY <1>2, ThreadSendsAssumption DEF TypeOK
<1>4. ASSUME UNCHANGED <<camera, session>>
      PROVE  /\ timer' \in BOOLEAN /\ acquisitionInProgress' \in 0..2
             /\ acquisitionState' \in BOOLEAN /\ mode' \in Modes /\ loops' \in Nat
  BY <1>4 DEF camera, session, TypeOK
<1>5. CASE Main \/ CamAnswers \/ Tel \/ Send("cam")
  <2>1. UNCHANGED <<camera, session>>
    BY <1>5 DEF Main, MainServes, MainCommand, MainPosts, CamAnswers, Send,
                Tel, TelAnswers, TelMoves, TelPulse, PulseEnds
  <2>2. tangled' \in BOOLEAN
    BY <1>5 DEF Main, MainServes, MainCommand, MainPosts, CamAnswers, Send,
                Tel, TelAnswers, TelMoves, TelPulse, PulseEnds, TypeOK
  <2> QED
    BY <1>1, <1>3, <1>4, <2>1, <2>2
<1>6. CASE CamAcq \/ CamStop \/ SessionStarts \/ TimerFires \/ LoopTimer \/ Run \/ CamEnds
  <2>1. UNCHANGED tangled
    BY <1>6 DEF CamAcq, CamStop, SessionStarts, TimerFires, LoopTimer, Run, RunAcq,
                RunProcesses, CamEnds
  <2>2. timer' \in BOOLEAN
    BY <1>6 DEF CamAcq, CamStop, SessionStarts, TimerFires, LoopTimer, Run, RunAcq,
                RunProcesses, CamEnds, ReadEnds, AcqReturns, RunReturns, camera, TypeOK
  <2>3. acquisitionInProgress' \in 0..2
    <3>1. acquisitionInProgress' \in {acquisitionInProgress, 0, 1, 2}
      BY <1>6 DEF CamAcq, CamStop, SessionStarts, TimerFires, LoopTimer, Run, RunAcq,
                  RunProcesses, CamEnds, ReadEnds, AcqReturns, RunReturns, camera
    <3> QED
      BY <3>1 DEF TypeOK
  <2>4. mode' \in Modes
    <3>1. ASSUME SessionStarts PROVE mode' = mode \/ mode' \in Modes
      BY <3>1 DEF SessionStarts, Begins
    <3>2. SessionStarts \/ UNCHANGED mode
      BY <1>6 DEF CamAcq, CamStop, TimerFires, LoopTimer, Run, RunAcq, RunProcesses,
                  CamEnds, ReadEnds, AcqReturns, RunReturns, session
    <3> QED
      BY <3>1, <3>2 DEF TypeOK
  <2>5. acquisitionState' \in BOOLEAN
    BY <1>6 DEF CamAcq, CamStop, SessionStarts, TimerFires, LoopTimer, Run, RunAcq,
                RunProcesses, CamEnds, ReadEnds, AcqReturns, RunReturns, session, TypeOK
  <2>6. loops' \in Nat
    <3>1. loops' = loops \/ loops' = loops + 1 \/ (loops > 0 /\ loops' = loops - 1)
      BY <1>6 DEF CamAcq, CamStop, SessionStarts, TimerFires, LoopTimer, Run, RunAcq,
                  RunProcesses, CamEnds, ReadEnds, AcqReturns, RunReturns, session
    <3> QED
      BY <3>1 DEF TypeOK
  <2> QED
    BY <1>1, <1>3, <2>1, <2>2, <2>3, <2>4, <2>5, <2>6 DEF TypeOK
<1> QED
  BY <1>5, <1>6 DEF Next, Cam, CamServes

\* Every step keeps the types.
LEMMA TypesKept ==
  ASSUME TypeOK, [Next]_vars
  PROVE  TypeOK'
<1>0. "main" \in Threads /\ "cam" \in Threads /\ "tel" \in Threads
  BY DEF Threads
<1>1. CASE UNCHANGED vars
  BY <1>1 DEF vars, camera, session, TypeOK
<1>2. /\ jobs \in [Threads -> Seq(Jobs)] /\ stack \in [Threads -> Seq(Activities)]
      /\ waiting \in [Threads -> Threads \cup {NULL}]
  BY DEF TypeOK
<1> DEFINE Typed == /\ jobs' \in [Threads -> Seq(Jobs)]
                    /\ stack' \in [Threads -> Seq(Activities)]
                    /\ waiting' \in [Threads -> Threads \cup {NULL}]
<1>4. ASSUME NEW t \in Threads, Answered(t) PROVE Typed
  BY <1>2, <1>4, JobTaken, ReplyTyped DEF Answered
<1>5. ASSUME NEW t \in Threads, NEW a \in Activities, Begun(t, a) PROVE Typed
  <2>1. Push(t, a) /\ waiting' = waiting /\ (jobs' = jobs \/ (jobs[t] # <<>> /\ jobs' = Taken(t)))
    BY <1>5 DEF Begun
  <2> QED
    BY <1>2, <2>1, JobTaken, PushTyped
<1>6. ASSUME NEW t \in Threads, Ended(t) PROVE Typed
  BY <1>2, <1>6, TopTyped, ReplyTyped DEF Ended, Returns
<1>7. ASSUME NEW a \in Activities, Moved(a) PROVE Typed
  BY <1>0, <1>2, <1>7, ReplacedTyped DEF Moved
<1>8. ASSUME NEW t \in Threads, NEW a \in Activities, Sends(t, a) PROVE Typed
  <2>1. PICK cmd \in Asked : Ask(t, Owner(cmd), cmd)
    BY <1>8 DEF Sends
  <2>2. Owner(cmd) \in Threads /\ cmd \in Sent
    BY <1>0, AskedSent
  <2>3. stack' \in [Threads -> Seq(Activities)]
    BY <1>8, ReplacedTyped DEF Sends
  <2> QED
    BY <2>1, <2>2, <2>3, AskTyped
<1>9. ASSUME Commanded PROVE Typed
  BY <1>0, <1>2, <1>9, AskTyped DEF Commanded
<1>10. ASSUME Posted PROVE Typed
  <2>1. PICK j \in Jobs : jobs' = [jobs EXCEPT !["cam"] = Append(@, j)]
    BY <1>10 DEF Posted
  <2>2. Append(jobs["cam"], j) \in Seq(Jobs)
    BY <1>0, <1>2
  <2> QED
    BY <1>2, <1>10, <2>1, <2>2 DEF Posted
<1>11. ASSUME Next PROVE Typed
  BY <1>4, <1>5, <1>6, <1>7, <1>8, <1>9, <1>10, <1>11, Steps DEF Step
<1> QED
  BY <1>1, <1>11, OthersTyped DEF TypeOK
-----------------------------------------------------------------------------
(***************************************************************************)
(* Who asks the main thread.                                               *)
(***************************************************************************)
\* A thread that takes events is in no activity that asks others.
LEMMA LoopsQuiet ==
  ASSUME TypeOK, QuietInv, TakesEvents("cam")
  PROVE  \A i \in 1..Len(stack["cam"]) : /\ stack["cam"][i].do \notin {"read", "process"}
                                         /\ stack["cam"][i].sends = <<>>
<1>1. "cam" \in Threads
  BY DEF Threads
<1> SUFFICES ASSUME NEW i \in 1..Len(stack["cam"]),
                    stack["cam"][i].do \in {"read", "process"}
             PROVE  FALSE
  BY DEF QuietInv, Needs
<1>2. i = Len(stack["cam"]) /\ stack["cam"] # <<>>
  BY DEF QuietInv
<1>3. Top("cam").do \in {"read", "process"}
  BY <1>2 DEF Top
<1> QED
  BY <1>2, <1>3 DEF TakesEvents, LoopsOn

\* What the camera's thread does is the same, and it waits for nothing new.
LEMMA QuietSame ==
  ASSUME TypeOK, QuietInv, setup' = setup, stack'["cam"] = stack["cam"],
         waiting'["cam"] \in {waiting["cam"], NULL}, UNCHANGED mode \/ TakesEvents("cam")
  PROVE  QuietInv'
<1>1. CASE UNCHANGED mode
  BY <1>1 DEF QuietInv, Needs, ReadNeedsMain, Top
<1>2. CASE TakesEvents("cam")
  <2>1. waiting["cam"] = NULL
    BY <1>2 DEF TakesEvents
  <2> QED
    BY <1>2, <2>1, LoopsQuiet DEF QuietInv
<1> QED
  BY <1>1, <1>2

\* Every step keeps it.
LEMMA QuietKept ==
  ASSUME TypeOK, QuietInv, [Next]_vars
  PROVE  QuietInv'
<1>0. "main" \in Threads /\ "cam" \in Threads /\ "tel" \in Threads
  BY DEF Threads
<1>1. setup' = setup
  BY OthersTyped DEF vars
<1> DEFINE s == stack["cam"]
<1>2. ASSUME NEW from, Reply(from) PROVE waiting'["cam"] \in {waiting["cam"], NULL}
  BY <1>0, <1>2 DEF Reply
<1>3. ASSUME NEW t \in Threads, Answered(t), UNCHANGED mode \/ TakesEvents("cam")
      PROVE  QuietInv'
  BY <1>1, <1>2, <1>3, QuietSame DEF Answered
<1>4. ASSUME NEW t \in Threads, NEW a \in Activities, Begun(t, a) PROVE QuietInv'
  <2>1. Push(t, a) /\ waiting' = waiting /\ TakesEvents(t)
    BY <1>4 DEF Begun
  <2>2. CASE t # "cam"
    <3>1. stack'["cam"] = s
      BY <1>0, <2>1, <2>2, PushTyped
    <3>2. UNCHANGED mode
      BY <1>4, <2>2 DEF Begun
    <3> QED
      BY <1>1, <2>1, <3>1, <3>2, QuietSame
  <2>3. CASE t = "cam"
    <3>1. /\ Len(s) \in Nat /\ Len(stack'["cam"]) = Len(s) + 1
          /\ \A i \in 1..Len(s) : stack'["cam"][i] = s[i]
          /\ stack'["cam"][Len(s) + 1] = a
      BY <1>0, <2>1, <2>3, PushTyped
    <3>2. a.sends # <<>> => a.do = "read" /\ ReadNeedsMain
      BY <1>4, <2>3 DEF Begun
    <3>3. \A i \in 1..Len(s) : s[i].do \notin {"read", "process"} /\ s[i].sends = <<>>
      BY <2>1, <2>3, LoopsQuiet
    <3>4. waiting'["cam"] = NULL
      BY <2>1, <2>3 DEF TakesEvents
    <3>5. \A i \in 1..Len(stack'["cam"]) : i \in 1..Len(s) \/ i = Len(s) + 1
      BY <3>1
    <3>6. ReadNeedsMain' = ReadNeedsMain
      BY <1>1 DEF ReadNeedsMain
    <3>7. a.sends # <<>> => Needs(a)'
      BY <3>2, <3>6 DEF Needs
    <3> HIDE DEF s
    <3> QED
      BY <3>1, <3>3, <3>4, <3>5, <3>7 DEF QuietInv
  <2> QED
    BY <2>2, <2>3
<1>5. ASSUME NEW t \in Threads, Ended(t) PROVE QuietInv'
  <2>1. stack' = Popped(t) /\ Reply(Top(t).from) /\ UNCHANGED mode
    BY <1>5 DEF Ended, Returns
  <2>2. CASE t # "cam"
    <3>1. stack'["cam"] = s
      BY <1>0, <2>1, <2>2 DEF Popped, TypeOK
    <3> QED
      BY <1>1, <1>2, <2>1, <3>1, QuietSame
  <2>3. CASE t = "cam"
    <3>1. waiting'["cam"] = NULL
      BY <1>2, <1>5, <2>1, <2>3 DEF Ended
    <3>2. /\ Len(s) \in Nat \ {0} /\ Len(stack'["cam"]) = Len(s) - 1
          /\ \A i \in 1..Len(s) - 1 : stack'["cam"][i] = s[i]
      BY <1>0, <1>5, <2>1, <2>3, TopTyped DEF Ended
    <3>3. \A i \in 1..Len(s) - 1 : s[i].do \notin {"read", "process"} /\ s[i].sends = <<>>
      <4> SUFFICES ASSUME NEW i \in 1..Len(s) - 1
                   PROVE  s[i].do \notin {"read", "process"} /\ s[i].sends = <<>>
        OBVIOUS
      <4>1. i \in 1..Len(s) /\ i # Len(s)
        BY <3>2
      <4> QED
        BY <4>1 DEF QuietInv, Needs
    <3> HIDE DEF s
    <3> QED
      BY <3>1, <3>2, <3>3 DEF QuietInv
  <2> QED
    BY <2>2, <2>3
<1>6. ASSUME NEW a \in Activities, Moved(a) PROVE QuietInv'
  <2>1. /\ Len(s) \in Nat \ {0} /\ Len(stack'["cam"]) = Len(s)
        /\ \A i \in 1..Len(s) : stack'["cam"][i] = IF i = Len(s) THEN a ELSE s[i]
    BY <1>0, <1>6, ReplacedTyped DEF Moved
  <2>2. TakesEvents("cam") /\ (a.sends # <<>> => a.do = "process" /\ mode = "guide")
        /\ UNCHANGED <<waiting, mode>>
    BY <1>6 DEF Moved
  <2>3. \A i \in 1..Len(s) : s[i].do \notin {"read", "process"} /\ s[i].sends = <<>>
    BY <2>2, LoopsQuiet
  <2>4. waiting'["cam"] = NULL
    BY <2>2 DEF TakesEvents
  <2>5. a.sends # <<>> => Needs(a)'
    BY <2>2 DEF Needs
  <2> HIDE DEF s
  <2> QED
    BY <2>1, <2>3, <2>4, <2>5 DEF QuietInv
<1>7. ASSUME NEW t \in Threads, NEW a \in Activities, Sends(t, a) PROVE QuietInv'
  <2>1. /\ stack[t] # <<>> /\ Len(stack[t]) \in Nat \ {0} /\ Len(stack'[t]) = Len(stack[t])
        /\ \A i \in 1..Len(stack[t]) :
             stack'[t][i] = IF i = Len(stack[t]) THEN a ELSE stack[t][i]
        /\ \A u \in Threads \ {t} : stack'[u] = stack[u]
    BY <1>7, ReplacedTyped DEF Sends
  <2>2. UNCHANGED mode /\ a.do = Top(t).do /\ Top(t).sends # <<>>
    BY <1>7 DEF Sends
  <2>3. CASE t # "cam"
    <3>1. stack'["cam"] = s /\ waiting'["cam"] = waiting["cam"]
      BY <1>0, <1>7, <2>1, <2>3 DEF Sends, Ask, TypeOK
    <3> QED
      BY <1>1, <2>2, <3>1, QuietSame
  <2>4. CASE t = "cam"
    <3>1. Top("cam") = s[Len(s)] /\ Len(s) \in 1..Len(s)
      BY <2>1, <2>4 DEF Top
    <3>2. Needs(Top("cam"))
      BY <2>2, <2>4, <3>1 DEF QuietInv
    <3>3. Needs(a)'
      BY <1>1, <2>2, <2>4, <3>2 DEF Needs, ReadNeedsMain
    <3>4. \A i \in 1..Len(s) - 1 : s[i].do \notin {"read", "process"} /\ s[i].sends = <<>>
      <4> SUFFICES ASSUME NEW i \in 1..Len(s) - 1
                   PROVE  s[i].do \notin {"read", "process"} /\ s[i].sends = <<>>
        OBVIOUS
      <4>1. i \in 1..Len(s) /\ i # Len(s)
        BY <2>1, <2>4
      <4> QED
        BY <4>1 DEF QuietInv, Needs
    <3>5. stack'["cam"] # <<>> /\ Top("cam")' = a
      BY <2>1, <2>4, <3>1 DEF Top
    <3>6. \A i \in 1..Len(s) : i \in 1..Len(s) - 1 \/ i = Len(s)
      BY <2>1, <2>4
    <3> HIDE DEF s
    <3> QED
      BY <2>1, <2>4, <3>3, <3>4, <3>5, <3>6 DEF QuietInv, s
  <2> QED
    BY <2>3, <2>4
<1>8. CASE Commanded
  <2>1. stack' = stack /\ UNCHANGED mode /\ waiting'["cam"] = waiting["cam"]
    BY <1>0, <1>8 DEF Commanded, Ask, TypeOK
  <2> QED
    BY <1>1, <2>1, QuietSame
<1>9. CASE Posted
  BY <1>1, <1>9, QuietSame DEF Posted
<1>10. CASE UNCHANGED vars
  BY <1>1, <1>10, QuietSame DEF vars, session
<1> QED
  BY <1>3, <1>4, <1>5, <1>6, <1>7, <1>8, <1>9, <1>10, Steps DEF Step
-----------------------------------------------------------------------------
(***************************************************************************)
(* Who owes a reply to whom: the jobs posted and the activities begun,     *)
(* both with the thread that waits for them.                               *)
(***************************************************************************)
Owes(s, t) == \E i \in 1..Len(s) : s[i].from = t

\* No two of them have the same thread waiting.
Once(s) == \A i, j \in 1..Len(s) : s[i].from = s[j].from /\ s[i].from # NULL => i = j

LEMMA NoneOwed == ~(\E t : Owes(<<>>, t)) /\ Once(<<>>)
BY DEF Owes, Once

LEMMA OwedBehind ==
  ASSUME NEW S, NEW s \in Seq(S), NEW a \in S, Once(s), a.from # NULL => ~Owes(s, a.from)
  PROVE  Once(Append(s, a)) /\ \A t : Owes(Append(s, a), t) <=> Owes(s, t) \/ a.from = t
<1> DEFINE r == Append(s, a)
<1>1. /\ Len(s) \in Nat /\ Len(r) = Len(s) + 1 /\ r[Len(s) + 1] = a
      /\ \A i \in 1..Len(s) : r[i] = s[i]
  OBVIOUS
<1> HIDE DEF r
<1>2. \A i : i \in 1..Len(r) <=> i \in 1..Len(s) \/ i = Len(s) + 1
  BY <1>1
<1>3. \A t : Owes(r, t) <=> Owes(s, t) \/ a.from = t
  BY <1>1, <1>2 DEF Owes
<1>4. ASSUME NEW i \in 1..Len(r), NEW j \in 1..Len(r), r[i].from = r[j].from, r[i].from # NULL
      PROVE  i = j
  BY <1>1, <1>2, <1>4 DEF Owes, Once
<1> QED
  BY <1>3, <1>4 DEF Once, r

LEMMA OwedAfterHead ==
  ASSUME NEW S, NEW s \in Seq(S), s # <<>>, Once(s)
  PROVE  /\ Once(Tail(s)) /\ Owes(s, Head(s).from)
         /\ \A t : t # NULL => (Owes(Tail(s), t) <=> Owes(s, t) /\ t # Head(s).from)
<1> DEFINE r == Tail(s)
<1>1. /\ Len(s) \in Nat /\ Len(s) # 0 /\ Len(r) = Len(s) - 1 /\ Head(s) = s[1]
      /\ \A i \in 1..Len(r) : r[i] = s[i + 1]
  OBVIOUS
<1> HIDE DEF r
<1>2. \A i \in 1..Len(r) : i + 1 \in 1..Len(s) /\ i + 1 # 1
  BY <1>1
<1>3. \A i \in 1..Len(s) : i # 1 => i - 1 \in 1..Len(r) /\ (i - 1) + 1 = i
  BY <1>1
<1>4. 1 \in 1..Len(s)
  BY <1>1
<1>5. Once(r)
  <2> SUFFICES ASSUME NEW i \in 1..Len(r), NEW j \in 1..Len(r),
                      r[i].from = r[j].from, r[i].from # NULL
               PROVE  i = j
    BY DEF Once
  <2>1. i + 1 = j + 1
    BY <1>1, <1>2 DEF Once
  <2> QED
    BY <1>1, <2>1
<1>6. ASSUME NEW t, t # NULL, Owes(r, t) PROVE Owes(s, t) /\ t # s[1].from
  <2>1. PICK i \in 1..Len(r) : r[i].from = t
    BY <1>6 DEF Owes
  <2>2. i + 1 \in 1..Len(s) /\ s[i + 1].from = t /\ i + 1 # 1
    BY <1>1, <1>2, <2>1
  <2> QED
    BY <1>4, <1>6, <2>2 DEF Owes, Once
<1>7. ASSUME NEW t, Owes(s, t), t # s[1].from PROVE Owes(r, t)
  <2>1. PICK i \in 1..Len(s) : s[i].from = t
    BY <1>7 DEF Owes
  <2>2. i - 1 \in 1..Len(r) /\ r[i - 1] = s[i]
    BY <1>1, <1>3, <1>7, <2>1
  <2> QED
    BY <2>1, <2>2 DEF Owes
<1> QED
  BY <1>1, <1>4, <1>5, <1>6, <1>7 DEF Owes, r

LEMMA OwedBeforeLast ==
  ASSUME NEW s, NEW r, Len(s) \in Nat \ {0}, Len(r) = Len(s) - 1, Once(s),
         \A i \in 1..Len(s) - 1 : r[i] = s[i]
  PROVE  /\ Once(r) /\ Owes(s, s[Len(s)].from)
         /\ \A t : t # NULL => (Owes(r, t) <=> Owes(s, t) /\ t # s[Len(s)].from)
<1>1. \A i : i \in 1..Len(s) <=> i \in 1..Len(r) \/ i = Len(s)
  OBVIOUS
<1>2. Len(s) \notin 1..Len(r)
  OBVIOUS
<1>3. \A i \in 1..Len(r) : r[i] = s[i]
  OBVIOUS
<1> QED
  BY <1>1, <1>2, <1>3 DEF Once, Owes

\* The waiting threads alone count.
LEMMA OwedSame ==
  ASSUME NEW s, NEW r, Len(r) = Len(s), \A i \in 1..Len(s) : r[i].from = s[i].from
  PROVE  (Once(r) <=> Once(s)) /\ \A t : Owes(r, t) <=> Owes(s, t)
BY DEF Once, Owes

\* A thread waits for the one that owes it a reply, and one reply is owed to it.
RepliesInv ==
  /\ \A u \in Threads : Once(jobs[u]) /\ Once(stack[u])
  /\ \A t, u \in Threads : ~(Owes(jobs[u], t) /\ Owes(stack[u], t))
  /\ \A t, u \in Threads : Owes(jobs[u], t) \/ Owes(stack[u], t) <=> waiting[t] = u

LEMMA NoThread == NULL \notin Threads
BY DEF NULL, Threads

\* A reply ends one wait.
LEMMA Replied ==
  ASSUME TypeOK, NEW from \in Threads \cup {NULL}, Reply(from)
  PROVE  \A t, u \in Threads : waiting'[t] = u <=> waiting[t] = u /\ t # from
BY NoThread DEF Reply, TypeOK

\* A job that ends at once.
LEMMA RepliesAnswered ==
  ASSUME TypeOK, RepliesInv, NEW t \in Threads, jobs[t] # <<>>, jobs' = Taken(t),
         stack' = stack, Reply(Head(jobs[t]).from)
  PROVE  RepliesInv'
<1> DEFINE f == Head(jobs[t]).from
<1>1. jobs[t] \in Seq(Jobs) /\ f \in Threads \cup {NULL}
  BY JobTaken DEF TypeOK
<1>2. /\ Once(Tail(jobs[t])) /\ Owes(jobs[t], f)
      /\ \A v \in Threads : Owes(Tail(jobs[t]), v) <=> Owes(jobs[t], v) /\ v # f
  BY <1>1, OwedAfterHead, NoThread DEF RepliesInv
<1>3. jobs'[t] = Tail(jobs[t]) /\ \A u \in Threads \ {t} : jobs'[u] = jobs[u]
  BY DEF Taken, TypeOK
<1>4. \A v, u \in Threads : waiting'[v] = u <=> waiting[v] = u /\ v # f
  BY <1>1, Replied
<1> HIDE DEF f
<1>5. \A u \in Threads : Once(jobs'[u]) /\ Once(stack'[u])
  BY <1>2, <1>3 DEF RepliesInv
<1>6. \A v, u \in Threads : Owes(jobs'[u], v) => Owes(jobs[u], v)
  BY <1>2, <1>3
<1>7. f \in Threads => waiting[f] = t /\ ~Owes(stack[t], f)
  BY <1>2 DEF RepliesInv
<1>8. ASSUME NEW v \in Threads, NEW u \in Threads
      PROVE  Owes(jobs'[u], v) \/ Owes(stack'[u], v) <=> waiting[v] = u /\ v # f
  <2>1. CASE u = t
    BY <1>2, <1>3, <1>7, <2>1 DEF RepliesInv
  <2>2. CASE u # t
    BY <1>3, <1>7, <2>2 DEF RepliesInv
  <2> QED
    BY <2>1, <2>2
<1> QED
  BY <1>4, <1>5, <1>6, <1>8 DEF RepliesInv

\* A question, asked by a thread that waits for nothing.
LEMMA RepliesAsked ==
  ASSUME TypeOK, RepliesInv, NEW t \in Threads, NEW u \in Threads, waiting[t] = NULL,
         NEW cmd \in Sent, Ask(t, u, cmd),
         \A v \in Threads : /\ Once(stack'[v]) <=> Once(stack[v])
                            /\ \A w : Owes(stack'[v], w) <=> Owes(stack[v], w)
  PROVE  RepliesInv'
<1> DEFINE a == [do |-> cmd, from |-> t]
<1>1. a \in Jobs /\ a.from = t
  BY DEF Jobs, Sent
<1>2. jobs[u] \in Seq(Jobs) /\ \A v \in Threads : ~Owes(jobs[v], t) /\ ~Owes(stack[v], t)
  BY NoThread DEF TypeOK, RepliesInv
<1>3. /\ jobs'[u] = Append(jobs[u], a) /\ \A v \in Threads \ {u} : jobs'[v] = jobs[v]
      /\ waiting'[t] = u /\ \A v \in Threads \ {t} : waiting'[v] = waiting[v]
  BY DEF Ask, TypeOK
<1> HIDE DEF a
<1>4. Once(jobs'[u]) /\ \A w : Owes(jobs'[u], w) <=> Owes(jobs[u], w) \/ w = t
  BY <1>1, <1>2, <1>3, OwedBehind DEF RepliesInv
<1>5. \A v \in Threads : Once(jobs'[v]) /\ Once(stack'[v])
  BY <1>3, <1>4 DEF RepliesInv
<1>6. \A w, v \in Threads : Owes(jobs'[v], w) <=> Owes(jobs[v], w) \/ (v = u /\ w = t)
  BY <1>3, <1>4
<1>7. ASSUME NEW w \in Threads, NEW v \in Threads
      PROVE  ~(Owes(jobs'[v], w) /\ Owes(stack'[v], w))
  <2>1. ~(Owes(jobs[v], w) /\ Owes(stack[v], w))
    BY DEF RepliesInv
  <2> QED
    BY <1>2, <1>6, <2>1
<1>8. ASSUME NEW w \in Threads, NEW v \in Threads
      PROVE  Owes(jobs'[v], w) \/ Owes(stack'[v], w) <=> waiting'[w] = v
  <2>1. CASE w = t
    BY <1>2, <1>3, <1>6, <2>1
  <2>2. CASE w # t
    BY <1>3, <1>6, <2>2 DEF RepliesInv
  <2> QED
    BY <2>1, <2>2
<1> QED
  BY <1>5, <1>7, <1>8 DEF RepliesInv

\* A job whose end nobody waits for.
LEMMA RepliesPosted ==
  ASSUME TypeOK, RepliesInv, NEW u \in Threads, NEW a \in Jobs, a.from = NULL,
         jobs' = [jobs EXCEPT ![u] = Append(@, a)], UNCHANGED <<stack, waiting>>
  PROVE  RepliesInv'
<1>1. jobs[u] \in Seq(Jobs)
  BY DEF TypeOK
<1>2. jobs'[u] = Append(jobs[u], a) /\ \A v \in Threads \ {u} : jobs'[v] = jobs[v]
  BY DEF TypeOK
<1>3. Once(jobs'[u]) /\ \A w \in Threads : Owes(jobs'[u], w) <=> Owes(jobs[u], w)
  BY <1>1, <1>2, OwedBehind, NoThread DEF RepliesInv
<1>4. \A v \in Threads : Once(jobs'[v])
  BY <1>2, <1>3 DEF RepliesInv
<1>5. \A v, w \in Threads : Owes(jobs'[v], w) <=> Owes(jobs[v], w)
  BY <1>2, <1>3
<1> QED
  BY <1>4, <1>5 DEF RepliesInv

\* An activity whose end nobody waits for.
LEMMA RepliesPushed ==
  ASSUME TypeOK, RepliesInv, NEW t \in Threads, NEW a \in Activities, a.from = NULL,
         Push(t, a), UNCHANGED <<jobs, waiting>>
  PROVE  RepliesInv'
<1>1. stack[t] \in Seq(Activities)
  BY DEF TypeOK
<1>2. stack'[t] = Append(stack[t], a) /\ \A v \in Threads \ {t} : stack'[v] = stack[v]
  BY DEF Push, TypeOK
<1>3. Once(stack'[t]) /\ \A w \in Threads : Owes(stack'[t], w) <=> Owes(stack[t], w)
  BY <1>1, <1>2, OwedBehind, NoThread DEF RepliesInv
<1>4. \A v \in Threads : Once(stack'[v])
  BY <1>2, <1>3 DEF RepliesInv
<1>5. \A v, w \in Threads : Owes(stack'[v], w) <=> Owes(stack[v], w)
  BY <1>2, <1>3
<1> QED
  BY <1>4, <1>5 DEF RepliesInv

\* A job that becomes an activity, which owes its reply.
LEMMA RepliesBegun ==
  ASSUME TypeOK, RepliesInv, NEW t \in Threads, jobs[t] # <<>>, jobs' = Taken(t),
         NEW a \in Activities, a.from = Head(jobs[t]).from, Push(t, a), waiting' = waiting
  PROVE  RepliesInv'
<1> DEFINE f == Head(jobs[t]).from
<1>1. jobs[t] \in Seq(Jobs) /\ f \in Threads \cup {NULL} /\ stack[t] \in Seq(Activities)
  BY JobTaken DEF TypeOK
<1>2. /\ Once(Tail(jobs[t])) /\ Owes(jobs[t], f)
      /\ \A v \in Threads : Owes(Tail(jobs[t]), v) <=> Owes(jobs[t], v) /\ v # f
  BY <1>1, OwedAfterHead, NoThread DEF RepliesInv
<1>3. /\ jobs'[t] = Tail(jobs[t]) /\ \A u \in Threads \ {t} : jobs'[u] = jobs[u]
      /\ stack'[t] = Append(stack[t], a) /\ \A v \in Threads \ {t} : stack'[v] = stack[v]
  BY DEF Taken, Push, TypeOK
<1> HIDE DEF f
<1>4. a.from = f /\ (f \in Threads => ~Owes(stack[t], f))
  BY <1>2 DEF RepliesInv, f
<1>5. Once(stack'[t]) /\ \A w \in Threads : Owes(stack'[t], w) <=> Owes(stack[t], w) \/ w = f
  BY <1>1, <1>3, <1>4, OwedBehind, NoThread DEF RepliesInv
<1>6. \A v \in Threads : Once(jobs'[v]) /\ Once(stack'[v])
  BY <1>2, <1>3, <1>5 DEF RepliesInv
<1>7. ASSUME NEW w \in Threads, NEW v \in Threads
      PROVE  /\ ~(Owes(jobs'[v], w) /\ Owes(stack'[v], w))
             /\ Owes(jobs'[v], w) \/ Owes(stack'[v], w) <=> Owes(jobs[v], w) \/ Owes(stack[v], w)
  <2>1. CASE v = t
    <3>1. /\ Owes(jobs'[t], w) <=> Owes(jobs[t], w) /\ w # f
          /\ Owes(stack'[t], w) <=> Owes(stack[t], w) \/ w = f
      BY <1>2, <1>3, <1>5
    <3>2. ~(Owes(jobs[t], w) /\ Owes(stack[t], w))
      BY DEF RepliesInv
    <3>3. w = f => Owes(jobs[t], w) /\ ~Owes(stack[t], w)
      BY <1>2, <1>4
    <3> QED
      BY <2>1, <3>1, <3>2, <3>3
  <2>2. CASE v # t
    BY <1>3, <2>2 DEF RepliesInv
  <2> QED
    BY <2>1, <2>2
<1> QED
  BY <1>6, <1>7 DEF RepliesInv

\* An activity that ends.
LEMMA RepliesEnded ==
  ASSUME TypeOK, RepliesInv, NEW t \in Threads, stack[t] # <<>>, stack' = Popped(t),
         jobs' = jobs, Reply(Top(t).from)
  PROVE  RepliesInv'
<1> DEFINE f == Top(t).from
           r == Popped(t)[t]
<1>1. /\ Len(stack[t]) \in Nat \ {0} /\ f \in Threads \cup {NULL} /\ Len(r) = Len(stack[t]) - 1
      /\ \A i \in 1..Len(stack[t]) - 1 : r[i] = stack[t][i]
  BY TopTyped
<1>2. f = stack[t][Len(stack[t])].from
  BY DEF Top
<1>3. stack'[t] = r /\ \A u \in Threads \ {t} : stack'[u] = stack[u]
  BY DEF Popped, TypeOK
<1>4. Once(stack[t])
  BY DEF RepliesInv
<1> HIDE DEF f, r
<1>5. /\ Once(r) /\ Owes(stack[t], f)
      /\ \A v : v # NULL => (Owes(r, v) <=> Owes(stack[t], v) /\ v # f)
  BY <1>1, <1>2, <1>4, OwedBeforeLast
<1>6. \A v, u \in Threads : waiting'[v] = u <=> waiting[v] = u /\ v # f
  BY <1>1, Replied DEF f
<1>7. \A u \in Threads : Once(jobs'[u]) /\ Once(stack'[u])
  BY <1>3, <1>5 DEF RepliesInv
<1>8. f \in Threads => waiting[f] = t /\ ~Owes(jobs[t], f)
  BY <1>5 DEF RepliesInv
<1>9. ASSUME NEW v \in Threads, NEW u \in Threads
      PROVE  /\ Owes(jobs'[u], v) \/ Owes(stack'[u], v) <=> waiting[v] = u /\ v # f
             /\ ~(Owes(jobs'[u], v) /\ Owes(stack'[u], v))
  <2>1. CASE u = t
    BY <1>3, <1>5, <1>8, <2>1, NoThread DEF RepliesInv
  <2>2. CASE u # t
    BY <1>3, <1>8, <2>2 DEF RepliesInv
  <2> QED
    BY <2>1, <2>2
<1> QED
  BY <1>6, <1>7, <1>9 DEF RepliesInv

\* Every step keeps the replies owed.
LEMMA RepliesKept ==
  ASSUME TypeOK, RepliesInv, [Next]_vars PROVE RepliesInv'
<1>0. "main" \in Threads /\ "cam" \in Threads /\ "tel" \in Threads
  BY DEF Threads
<1>1. ASSUME NEW t \in Threads, Answered(t) PROVE RepliesInv'
  BY <1>1, RepliesAnswered DEF Answered
<1>2. ASSUME NEW t \in Threads, NEW a \in Activities, Begun(t, a) PROVE RepliesInv'
  <2>1. Push(t, a) /\ waiting' = waiting
    BY <1>2 DEF Begun
  <2>2. CASE jobs[t] # <<>> /\ jobs' = Taken(t) /\ a.from = Head(jobs[t]).from
    BY <2>1, <2>2, RepliesBegun
  <2>3. CASE UNCHANGED jobs /\ a.from = NULL
    BY <2>1, <2>3, RepliesPushed
  <2> QED
    BY <1>2, <2>2, <2>3 DEF Begun
<1>3. ASSUME NEW t \in Threads, Ended(t) PROVE RepliesInv'
  BY <1>3, RepliesEnded DEF Ended, Returns
<1>4. ASSUME NEW t \in Threads, NEW a \in Activities, Replaced(t, a), a.from = Top(t).from
      PROVE  \A v \in Threads : /\ Once(stack'[v]) <=> Once(stack[v])
                                /\ \A w : Owes(stack'[v], w) <=> Owes(stack[v], w)
  <2>1. /\ Len(stack'[t]) = Len(stack[t])
        /\ \A i \in 1..Len(stack[t]) : stack'[t][i].from = stack[t][i].from
        /\ \A v \in Threads \ {t} : stack'[v] = stack[v]
    BY <1>4, ReplacedTyped DEF Top
  <2> SUFFICES ASSUME NEW v \in Threads
               PROVE  /\ Once(stack'[v]) <=> Once(stack[v])
                      /\ \A w : Owes(stack'[v], w) <=> Owes(stack[v], w)
    OBVIOUS
  <2>2. CASE v = t
    BY <2>1, <2>2, OwedSame
  <2>3. CASE v # t
    BY <2>1, <2>3
  <2> QED
    BY <2>2, <2>3
<1>5. ASSUME NEW a \in Activities, Moved(a) PROVE RepliesInv'
  BY <1>0, <1>4, <1>5 DEF Moved, RepliesInv
<1>6. ASSUME NEW t \in Threads, NEW a \in Activities, Sends(t, a) PROVE RepliesInv'
  <2>1. PICK cmd \in Asked : Ask(t, Owner(cmd), cmd)
    BY <1>6 DEF Sends
  <2>2. Owner(cmd) \in Threads /\ cmd \in Sent /\ waiting[t] = NULL
    BY <1>0, <1>6, AskedSent DEF Sends
  <2>3. \A v \in Threads : /\ Once(stack'[v]) <=> Once(stack[v])
                           /\ \A w : Owes(stack'[v], w) <=> Owes(stack[v], w)
    BY <1>4, <1>6 DEF Sends
  <2> QED
    BY <2>1, <2>2, <2>3, RepliesAsked
<1>7. CASE Commanded
  BY <1>0, <1>7, RepliesAsked DEF Commanded
<1>8. CASE Posted
  BY <1>0, <1>8, RepliesPosted DEF Posted
<1>9. CASE UNCHANGED vars
  BY <1>9 DEF vars, RepliesInv
<1> QED
  BY <1>1, <1>2, <1>3, <1>5, <1>6, <1>7, <1>8, <1>9, Steps DEF Step
-----------------------------------------------------------------------------
(***************************************************************************)
(* Whom a thread asks in the middle of an activity, and whom it waits for. *)
(***************************************************************************)
Asks(t) == IF t = "cam" THEN Asked ELSE {}

AsksInv ==
  /\ stack["main"] = <<>> /\ waiting["main"] # "main"
  /\ \A t \in Threads : \A i \in 1..Len(stack[t]) : stack[t][i].sends \in Seq(Asks(t))
  /\ waiting["cam"] \in {"main", "tel", NULL}
  /\ waiting["tel"] = NULL

\* Every step keeps them.
LEMMA AsksKept ==
  ASSUME TypeOK, AsksInv, [Next]_vars PROVE AsksInv'
<1>0. /\ "main" \in Threads /\ "cam" \in Threads /\ "tel" \in Threads
      /\ Asks("cam") = Asked /\ Asks("main") = {} /\ Asks("tel") = {}
      /\ "main" # "cam" /\ "main" # "tel" /\ NULL # "main"
  BY DEF Threads, Asks, NULL
<1> DEFINE Same == \A u \in Threads : waiting'[u] = waiting[u] \/ waiting'[u] = NULL
           Stacks == /\ stack'["main"] = <<>>
                     /\ \A u \in Threads : \A i \in 1..Len(stack'[u]) :
                          stack'[u][i].sends \in Seq(Asks(u))
<1>1. ASSUME NEW from, Reply(from) PROVE Same
  BY <1>1 DEF Reply
<1>2. ASSUME Same, Stacks PROVE AsksInv'
  BY <1>0, <1>2 DEF AsksInv
<1>3. UNCHANGED stack => Stacks
  BY DEF AsksInv
<1>4. ASSUME NEW t \in Threads, Answered(t) PROVE AsksInv'
  BY <1>1, <1>2, <1>3, <1>4 DEF Answered
<1>5. ASSUME NEW t \in Threads, NEW a \in Activities, Begun(t, a) PROVE AsksInv'
  <2>1. Push(t, a) /\ waiting' = waiting /\ t # "main"
    BY <1>5 DEF Begun
  <2>2. /\ Len(stack[t]) \in Nat /\ Len(stack'[t]) = Len(stack[t]) + 1
        /\ \A i \in 1..Len(stack[t]) : stack'[t][i] = stack[t][i]
        /\ stack'[t][Len(stack[t]) + 1] = a
        /\ \A u \in Threads \ {t} : stack'[u] = stack[u]
    BY <2>1, PushTyped
  <2>3. a.sends \in Seq(Asks(t))
    <3>1. CASE t = "cam"
      BY <1>0, <3>1 DEF Activities
    <3>2. CASE t # "cam"
      <4>1. a.sends = <<>>
        BY <1>5, <3>2 DEF Begun
      <4> QED
        BY <4>1
    <3> QED
      BY <3>1, <3>2
  <2>4. ASSUME NEW u \in Threads, NEW i \in 1..Len(stack'[u])
        PROVE  stack'[u][i].sends \in Seq(Asks(u))
    <3>1. CASE u = t
      <4>1. i \in 1..Len(stack[t]) \/ i = Len(stack[t]) + 1
        BY <2>2, <3>1
      <4> QED
        BY <2>2, <2>3, <3>1, <4>1 DEF AsksInv
    <3>2. CASE u # t
      BY <2>2, <3>2 DEF AsksInv
    <3> QED
      BY <3>1, <3>2
  <2>5. stack'["main"] = <<>>
    BY <1>0, <2>1, <2>2 DEF AsksInv
  <2> QED
    BY <1>2, <2>1, <2>4, <2>5
<1>6. ASSUME NEW t \in Threads, Ended(t) PROVE AsksInv'
  <2>1. stack' = Popped(t) /\ t # "main" /\ stack[t] # <<>> /\ Reply(Top(t).from)
    BY <1>6 DEF Ended, Returns
  <2>2. /\ Len(stack[t]) \in Nat \ {0} /\ Len(stack'[t]) = Len(stack[t]) - 1
        /\ \A i \in 1..Len(stack[t]) - 1 : stack'[t][i] = stack[t][i]
    BY <2>1, TopTyped
  <2>3. \A u \in Threads \ {t} : stack'[u] = stack[u]
    BY <2>1 DEF Popped, TypeOK
  <2>4. ASSUME NEW u \in Threads, NEW i \in 1..Len(stack'[u])
        PROVE  stack'[u][i].sends \in Seq(Asks(u))
    <3>1. CASE u = t
      <4>1. i \in 1..Len(stack[t]) /\ stack'[t][i] = stack[t][i]
        BY <2>2, <3>1
      <4> QED
        BY <3>1, <4>1 DEF AsksInv
    <3>2. CASE u # t
      BY <2>3, <3>2 DEF AsksInv
    <3> QED
      BY <3>1, <3>2
  <2>5. stack'["main"] = <<>>
    BY <1>0, <2>1, <2>3 DEF AsksInv
  <2> QED
    BY <1>1, <1>2, <2>1, <2>4, <2>5
<1>7. ASSUME NEW t \in Threads, NEW a \in Activities, Replaced(t, a), a.sends \in Seq(Asks(t))
      PROVE  Stacks /\ t # "main"
  <2>1. /\ Len(stack'[t]) = Len(stack[t])
        /\ \A i \in 1..Len(stack[t]) :
             stack'[t][i] = IF i = Len(stack[t]) THEN a ELSE stack[t][i]
        /\ \A u \in Threads \ {t} : stack'[u] = stack[u]
    BY <1>7, ReplacedTyped
  <2>2. t # "main"
    BY <1>7 DEF Replaced, AsksInv
  <2>3. ASSUME NEW u \in Threads, NEW i \in 1..Len(stack'[u])
        PROVE  stack'[u][i].sends \in Seq(Asks(u))
    <3>1. CASE u = t
      BY <1>7, <2>1, <3>1 DEF AsksInv
    <3>2. CASE u # t
      BY <2>1, <3>2 DEF AsksInv
    <3> QED
      BY <3>1, <3>2
  <2> QED
    BY <1>0, <2>1, <2>2, <2>3 DEF AsksInv
<1>8. ASSUME NEW a \in Activities, Moved(a) PROVE AsksInv'
  <2>1. a.sends \in Seq(Asks("cam"))
    BY <1>0 DEF Activities
  <2> QED
    BY <1>0, <1>2, <1>7, <1>8, <2>1 DEF Moved
<1>9. ASSUME NEW t \in Threads, NEW a \in Activities, Sends(t, a) PROVE AsksInv'
  <2>1. /\ stack[t] # <<>> /\ Top(t).sends # <<>> /\ Head(Top(t).sends) \in Asked
        /\ Ask(t, Owner(Head(Top(t).sends)), Head(Top(t).sends))
        /\ a.sends \in {<<>>, Tail(Top(t).sends)} /\ Replaced(t, a)
    BY <1>9 DEF Sends
  <2>2. Len(stack[t]) \in 1..Len(stack[t])
    BY <2>1, TopTyped
  <2>3. Top(t).sends \in Seq(Asks(t))
    BY <2>2 DEF AsksInv, Top
  <2>4. Head(Top(t).sends) \in Asks(t) /\ Tail(Top(t).sends) \in Seq(Asks(t))
    BY <2>1, <2>3, HeadTailProperties
  <2>5. t = "cam"
    BY <2>4 DEF Asks
  <2>6. a.sends \in Seq(Asks(t))
    <3>1. <<>> \in Seq(Asks(t))
      OBVIOUS
    <3> QED
      BY <2>1, <2>4, <3>1
  <2>7. Owner(Head(Top(t).sends)) \in {"main", "tel"}
    BY <2>1, AskedSent
  <2>8. /\ waiting'["cam"] \in {"main", "tel"}
        /\ waiting'["tel"] = waiting["tel"] /\ waiting'["main"] = waiting["main"]
    BY <1>0, <2>1, <2>5, <2>7 DEF Ask, TypeOK, Threads
  <2>9. Stacks
    BY <1>7, <2>1, <2>6
  <2> QED
    BY <2>8, <2>9 DEF AsksInv
<1>10. CASE Commanded
  <2>1. /\ waiting'["main"] # "main"
        /\ waiting'["cam"] = waiting["cam"] /\ waiting'["tel"] = waiting["tel"]
    BY <1>0, <1>10 DEF Commanded, Ask, TypeOK, Threads
  <2> QED
    BY <1>3, <1>10, <2>1 DEF AsksInv, Commanded
<1>11. CASE Posted \/ UNCHANGED vars
  BY <1>2, <1>3, <1>11 DEF Posted, vars
<1> QED
  BY <1>4, <1>5, <1>6, <1>8, <1>9, <1>10, <1>11, Steps DEF Step
-----------------------------------------------------------------------------
(***************************************************************************)
(* Theorems.                                                               *)
(***************************************************************************)
SendsInv == TypeOK /\ QuietInv /\ RepliesInv /\ AsksInv

\* The inductive invariant of the messages between threads.
THEOREM SendsInvariant == Spec => []SendsInv
<1>1. Init => SendsInv
  <2> SUFFICES ASSUME Init PROVE SendsInv
    OBVIOUS
  <2>1. <<>> \in Seq(Jobs) /\ <<>> \in Seq(Activities) /\ Len(<<>>) = 0
    OBVIOUS
  <2>2. TypeOK
    <3>1. setup \in Setups /\ mode \in Modes
      BY DEF Init
    <3>2. timer \in BOOLEAN /\ acquisitionState \in BOOLEAN /\ tangled \in BOOLEAN
      BY DEF Init
    <3>3. acquisitionInProgress \in 0..2 /\ loops \in Nat
      BY DEF Init
    <3>4. commands \in 0..MaxCommands
      BY ThreadSendsAssumption DEF Init
    <3>5. /\ jobs \in [Threads -> Seq(Jobs)] /\ stack \in [Threads -> Seq(Activities)]
      BY <2>1 DEF Init
    <3>6. waiting \in [Threads -> Threads \cup {NULL}]
      BY DEF Init
    <3> QED
      BY <3>1, <3>2, <3>3, <3>4, <3>5, <3>6 DEF TypeOK
  <2>3. \A t \in Threads : jobs[t] = <<>> /\ stack[t] = <<>> /\ waiting[t] = NULL
    BY DEF Init
  <2>4. "main" \in Threads /\ "cam" \in Threads /\ "tel" \in Threads
    BY DEF Threads
  <2>5. QuietInv
    BY <2>1, <2>3, <2>4 DEF QuietInv
  <2>6. RepliesInv
    BY <2>3, NoneOwed, NoThread DEF RepliesInv
  <2>7. AsksInv
    <3>1. waiting["main"] # "main" /\ \A t \in Threads : Len(stack[t]) = 0
      BY <2>1, <2>3, <2>4 DEF NULL
    <3> QED
      BY <2>3, <2>4, <3>1 DEF AsksInv
  <2> QED
    BY <2>2, <2>5, <2>6, <2>7 DEF SendsInv
<1>2. SendsInv /\ [Next]_vars => SendsInv'
  BY TypesKept, QuietKept, RepliesKept, AsksKept DEF SendsInv
<1> QED
  BY <1>1, <1>2, PTL DEF Spec

\* Types of the jobs, the activities and the waits.
THEOREM SendTypes == Spec => []TypeOK
<1>1. SendsInv => TypeOK
  BY DEF SendsInv
<1> QED
  BY <1>1, SendsInvariant, PTL

\* No ring of threads that wait for each other but that of the main thread and the
\* camera's, and that one only in a read-out that needs the main thread (libcam.cpp:
\* AcqRead) or in a session that measures its image (camerathread.tcl).
THEOREM OneWay == Spec => []WaitsAreOneWay
<1>1. ASSUME SendsInv PROVE WaitsAreOneWay
  <2> SUFFICES ASSUME WaitCycle PROVE MutualWait /\ NeedsMain
    BY DEF WaitsAreOneWay
  <2>1. PICK D \in SUBSET Threads : D # {} /\ \A t \in D : waiting[t] \in D
    BY DEF WaitCycle
  <2>2. NULL \notin D /\ \A t \in D : t = "main" \/ t = "cam" \/ t = "tel"
    BY NoThread DEF Threads
  <2>3. "tel" \notin D
    BY <1>1, <2>1, <2>2 DEF SendsInv, AsksInv
  <2>4. "cam" \in D => waiting["cam"] = "main" /\ "main" \in D
    BY <1>1, <2>1, <2>2, <2>3 DEF SendsInv, AsksInv
  <2>5. "main" \in D => waiting["main"] = "cam" /\ "cam" \in D
    <3>1. waiting["main"] # "main"
      BY <1>1 DEF SendsInv, AsksInv
    <3> QED
      BY <2>1, <2>2, <2>3, <3>1
  <2>6. MutualWait
    BY <2>1, <2>2, <2>3, <2>4, <2>5 DEF MutualWait
  <2>7. Needs(Top("cam"))
    BY <1>1, <2>6 DEF SendsInv, QuietInv, MutualWait, NULL
  <2> QED
    BY <2>6, <2>7 DEF Needs, NeedsMain
<1> QED
  BY <1>1, SendsInvariant, PTL

\* A reply is neither lost nor sent twice: a thread waits for the one that owes it a
\* reply, for one job or one activity, and nobody is owed a reply who does not wait.
THEOREM RepliesOwed == Spec => []RepliesInv
<1>1. SendsInv => RepliesInv
  BY DEF SendsInv
<1> QED
  BY <1>1, SendsInvariant, PTL
=============================================================================
