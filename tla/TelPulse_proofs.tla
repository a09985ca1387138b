--------------------------- MODULE TelPulse_proofs ---------------------------
(***************************************************************************)
(* The safety properties of TelPulse for any number of clients, pulses and *)
(* requests.  A pulse is pushed on the stack by two operators, MoveAxis    *)
(* and WaitForSurvey, above the whole stack (a new pulse) or above what is *)
(* below its top (the next stage of the innermost one): the lemmas treat   *)
(* the two cases at once, for a prefix s of the stack.                     *)
(***************************************************************************)
EXTENDS TelPulse, SequenceTheorems, TLAPS

\* s is the stack, or what is below its top; the frame left out, if any, is of
\* client c and on an axis of gone.
Prefix(s, c, gone) ==
  /\ s \in Seq(Frames)
  /\ Len(s) <= Len(stack)
  /\ \A i \in 1..Len(s) : s[i] = stack[i]
  /\ \A i \in 1..Len(stack) : i > Len(s) => stack[i].client = c /\ stack[i].at \in gone
  /\ \A i \in 1..Len(s) : s[i].client # c

\* The survey serves the pulses that wait for it, and a pulse that found it off has
\* no other below it that waits for it: it may switch it off.
ServedInv ==
  ~cut => \A j \in 1..Len(stack) : stack[j].at = "survey" =>
            /\ radecSurveyState
            /\ \A i \in 1..Len(stack) :
                 i < j /\ stack[i].at = "survey" => stack[j].previousState

\* Pulses are nested only once two have overlapped.
OverlapInv == Len(stack) > 1 => overlapped

\* The innermost movement that is waited for has its timer until timeDone is set.
TimedInv ==
  ~timeDone => \A i \in 1..Len(stack) :
    (stack[i].at \in Axes /\ \A j \in 1..Len(stack) : i < j => stack[j].at \notin Axes)
      => <<stack[i].client, stack[i].at>> \in pulseTimers

PulseInv ==
  /\ TypeOK /\ MovementHasOwner /\ SurveyAlive
  /\ ServedInv /\ OverlapInv /\ FullDuration /\ TimedInv
-----------------------------------------------------------------------------
(***************************************************************************)
(* Sequences.                                                              *)
(***************************************************************************)
\* What a sequence holds once an element is appended.
LEMMA Appended ==
  ASSUME NEW S, NEW s \in Seq(S), NEW e \in S
  PROVE  /\ Append(s, e) \in Seq(S)
         /\ Len(Append(s, e)) = Len(s) + 1
         /\ \A i \in 1..Len(s) : Append(s, e)[i] = s[i]
         /\ Append(s, e)[Len(s) + 1] = e
OBVIOUS

\* What is below the top of the stack.
LEMMA BelowTop ==
  ASSUME stack \in Seq(Frames), stack # <<>>
  PROVE  /\ Len(stack) \in Nat \ {0}
         /\ Below \in Seq(Frames)
         /\ Len(Below) = Len(stack) - 1
         /\ \A i \in 1..Len(Below) : Below[i] = stack[i]
         /\ Top \in Frames
         /\ Top = stack[Len(stack)]
<1> DEFINE n == Len(stack) - 1
<1>1. Len(stack) \in Nat /\ Len(stack) # 0 /\ n \in Nat
  OBVIOUS
<1>2. \A i \in 1..n : stack[i] \in Frames
  BY <1>1
<1>3. Below = SubSeq(stack, 1, n)
  BY DEF Below
<1> HIDE DEF n
<1>4. Below \in Seq(Frames) /\ Len(Below) = n /\ \A i \in 1..n : Below[i] = stack[i]
  BY <1>1, <1>2, <1>3, SubSeqProperties
<1>5. Top \in Frames
  BY <1>1 DEF Top
<1> QED
  BY <1>1, <1>4, <1>5 DEF Top, n

\* A new pulse of an idle client goes above the whole stack.
LEMMA WholePrefix ==
  ASSUME TypeOK, NEW c, Idle(c)
  PROVE  Prefix(stack, c, {})
<1>1. stack \in Seq(Frames) /\ Len(stack) \in Nat /\ DOMAIN stack = 1..Len(stack)
  BY DEF TypeOK
<1> QED
  BY <1>1 DEF Prefix, Idle

\* The next stage of the innermost pulse takes the place of its frame.
LEMMA BelowPrefix ==
  ASSUME TypeOK, stack # <<>>
  PROVE  Prefix(Below, Top.client, {Top.at})
<1>1. stack \in Seq(Frames) /\ DOMAIN stack = 1..Len(stack)
  BY DEF TypeOK
<1>2. \A i, j \in 1..Len(stack) : stack[i].client = stack[j].client => i = j
  BY <1>1 DEF TypeOK
<1>3. /\ Below \in Seq(Frames) /\ Len(Below) = Len(stack) - 1 /\ Len(stack) \in Nat \ {0}
      /\ \A i \in 1..Len(Below) : Below[i] = stack[i]
      /\ Top = stack[Len(stack)]
  BY <1>1, BelowTop
<1>4. \A i \in 1..Len(stack) : i > Len(Below) => i = Len(stack)
  BY <1>3
<1>5. \A i \in 1..Len(Below) : Below[i].client # Top.client
  BY <1>2, <1>3
<1> QED
  BY <1>3, <1>4, <1>5 DEF Prefix

\* A prefix keeps the pulses it holds.
LEMMA PrefixFacts ==
  ASSUME TypeOK, NEW s, NEW c, NEW gone, Prefix(s, c, gone)
  PROVE  /\ s \in Seq(Frames) /\ Len(s) \in Nat
         /\ \A i \in 1..Len(s) : i \in 1..Len(stack) /\ stack[i] = s[i]
<1>1. s \in Seq(Frames) /\ Len(s) \in Nat /\ Len(stack) \in Nat /\ Len(s) <= Len(stack)
  BY DEF Prefix, TypeOK
<1> QED
  BY <1>1 DEF Prefix

\* The stack once a frame of c is pushed above s.
LEMMA Pushed ==
  ASSUME TypeOK, NEW s, NEW c, NEW gone, NEW f \in Frames,
         Prefix(s, c, gone), f.client = c, stack' = Append(s, f)
  PROVE  /\ stack' \in Seq(Frames)
         /\ Len(s) \in Nat
         /\ Len(stack') = Len(s) + 1
         /\ \A i \in 1..Len(s) : i \in 1..Len(stack) /\ stack'[i] = stack[i]
         /\ stack'[Len(s) + 1] = f
         /\ \A i, j \in DOMAIN stack' : stack'[i].client = stack'[j].client => i = j
<1>1. /\ s \in Seq(Frames) /\ Len(s) \in Nat
      /\ \A i \in 1..Len(s) : s[i] = stack[i] /\ s[i].client # c
      /\ stack \in Seq(Frames) /\ Len(stack) \in Nat /\ Len(s) <= Len(stack)
  BY DEF Prefix, TypeOK
<1>2. /\ stack' \in Seq(Frames) /\ Len(stack') = Len(s) + 1
      /\ \A i \in 1..Len(s) : stack'[i] = s[i]
      /\ stack'[Len(s) + 1] = f
  BY <1>1, Appended
<1>3. DOMAIN stack' = 1..(Len(s) + 1) /\ DOMAIN stack = 1..Len(stack)
  BY <1>1, <1>2
<1>4. \A i \in 1..Len(s) : i \in 1..Len(stack)
  BY <1>1
<1>5. ASSUME NEW i \in DOMAIN stack', NEW j \in DOMAIN stack',
             stack'[i].client = stack'[j].client
      PROVE  i = j
  <2>1. CASE i \in 1..Len(s) /\ j \in 1..Len(s)
    <3>1. stack[i].client = stack[j].client
      BY <1>1, <1>2, <1>5, <2>1
    <3> QED
      BY <1>3, <1>4, <2>1, <3>1 DEF TypeOK
  <2>2. CASE i = Len(s) + 1 /\ j \in 1..Len(s)
    BY <1>1, <1>2, <1>5, <2>2
  <2>3. CASE j = Len(s) + 1 /\ i \in 1..Len(s)
    BY <1>1, <1>2, <1>5, <2>3
  <2> QED
    BY <1>1, <1>3, <2>1, <2>2, <2>3
<1> QED
  BY <1>1, <1>2, <1>4, <1>5
-----------------------------------------------------------------------------
(***************************************************************************)
(* Types.                                                                  *)
(***************************************************************************)
\* What the two stages of a pulse leave typed, whatever they leave unchanged.
LEMMA MoveAxisTypes ==
  ASSUME TypeOK, NEW s, NEW c \in Pulsers, NEW axis \in Axes, NEW delta \in BOOLEAN,
         NEW gone, Prefix(s, c, gone), MoveAxis(s, c, axis, delta, gone),
         pulses' \in 0..MaxPulses, requests' \in 0..MaxRequests,
         overlapped' \in BOOLEAN, stopped' \in BOOLEAN, cut' \in BOOLEAN
  PROVE  TypeOK'
<1> DEFINE f == Frame(c, axis, delta, FALSE)
<1>1. f \in Frames /\ f.client = c
  BY DEF Frame, Frames, Axes
<1>2. stack' = Append(s, f)
  BY DEF MoveAxis
<1> HIDE DEF f
<1>3. /\ stack' \in Seq(Frames)
      /\ \A i, j \in DOMAIN stack' : stack'[i].client = stack'[j].client => i = j
  BY <1>1, <1>2, Pushed
<1>4. timeDone' \in BOOLEAN /\ pulseTimers' \subseteq Pulsers \X Axes
  <2>1. <<c, axis>> \in Pulsers \X Axes
    OBVIOUS
  <2>2. TimersLeft(c, gone) \subseteq pulseTimers
    BY DEF TimersLeft
  <2>3. pulseTimers' = TimersLeft(c, gone) \cup {<<c, axis>>} /\ timeDone' = FALSE
    BY DEF MoveAxis
  <2> QED
    BY <2>1, <2>2, <2>3 DEF TypeOK
<1>5. moving' \subseteq Axes \cup {"goto"} /\ held' \subseteq moving' \cap Axes
  BY DEF MoveAxis, MovingLeft, TypeOK
<1>6. /\ radecSurveyState' \in BOOLEAN /\ radecSurveyIsMoving' \in BOOLEAN
      /\ surveyTimers' \in Nat /\ shifted' \in BOOLEAN
  BY DEF MoveAxis, survey, TypeOK
<1> QED
  BY <1>3, <1>4, <1>5, <1>6 DEF TypeOK

LEMMA WaitForSurveyTypes ==
  ASSUME TypeOK, NEW s, NEW c \in Pulsers, NEW gone, Prefix(s, c, gone),
         WaitForSurvey(s, c, gone),
         pulses' \in 0..MaxPulses, requests' \in 0..MaxRequests,
         overlapped' \in BOOLEAN, stopped' \in BOOLEAN, cut' \in BOOLEAN
  PROVE  TypeOK'
<1> DEFINE f == Frame(c, "survey", FALSE, radecSurveyState)
<1>1. f \in Frames /\ f.client = c
  BY DEF Frame, Frames, Axes, TypeOK
<1>2. stack' = Append(s, f)
  BY DEF WaitForSurvey
<1> HIDE DEF f
<1>3. /\ stack' \in Seq(Frames)
      /\ \A i, j \in DOMAIN stack' : stack'[i].client = stack'[j].client => i = j
  BY <1>1, <1>2, Pushed
<1>4. timeDone' \in BOOLEAN /\ pulseTimers' \subseteq Pulsers \X Axes
  BY DEF WaitForSurvey, TimersLeft, TypeOK
<1>5. moving' \subseteq Axes \cup {"goto"} /\ held' \subseteq moving' \cap Axes
  BY DEF WaitForSurvey, MovingLeft, TypeOK
<1>6. /\ radecSurveyState' \in BOOLEAN /\ radecSurveyIsMoving' \in BOOLEAN
      /\ surveyTimers' \in Nat /\ shifted' \in BOOLEAN
  BY DEF WaitForSurvey, SurveyTimersStarted, TypeOK
<1> QED
  BY <1>3, <1>4, <1>5, <1>6 DEF TypeOK
\* The pulse on top of the stack, its client and its axis.
LEMMA TopTyped ==
  ASSUME TypeOK, stack # <<>>
  PROVE  /\ Top \in Frames /\ Top.client \in Pulsers /\ Top.delta \in BOOLEAN
         /\ Top.previousState \in BOOLEAN
         /\ Below \in Seq(Frames)
         /\ Len(stack) \in Nat \ {0} /\ Len(Below) = Len(stack) - 1
         /\ \A i \in 1..Len(Below) : Below[i] = stack[i]
<1>1. stack \in Seq(Frames)
  BY DEF TypeOK
<1> QED
  BY <1>1, BelowTop DEF Frames

\* Every step keeps the types.
LEMMA TypesKept ==
  ASSUME TypeOK, [Next]_vars
  PROVE  TypeOK'
<1> USE TelPulseAssumption
<1>1. ASSUME NEW c \in Pulsers, NEW alpha \in BOOLEAN, NEW delta \in BOOLEAN,
             Pulse(c, alpha, delta)
      PROVE  TypeOK'
  <2>1. Prefix(stack, c, {})
    BY <1>1, WholePrefix DEF Pulse
  <2>2. /\ pulses' \in 0..MaxPulses /\ requests' \in 0..MaxRequests
        /\ overlapped' \in BOOLEAN /\ stopped' \in BOOLEAN /\ cut' \in BOOLEAN
    BY <1>1 DEF Pulse, TypeOK
  <2>3. \/ MoveAxis(stack, c, "alpha", delta, {})
        \/ MoveAxis(stack, c, "delta", FALSE, {})
        \/ WaitForSurvey(stack, c, {})
    BY <1>1 DEF Pulse
  <2>4. "alpha" \in Axes /\ "delta" \in Axes
    BY DEF Axes
  <2> QED
    BY <2>1, <2>2, <2>3, <2>4, MoveAxisTypes, WaitForSurveyTypes
<1>2. CASE MovementReturns
  <2>1. stack # <<>>
    BY <1>2 DEF MovementReturns
  <2>2. Prefix(Below, Top.client, {Top.at}) /\ Top.client \in Pulsers
    BY <2>1, BelowPrefix, TopTyped
  <2>3. /\ pulses' \in 0..MaxPulses /\ requests' \in 0..MaxRequests
        /\ overlapped' \in BOOLEAN /\ stopped' \in BOOLEAN /\ cut' \in BOOLEAN
    BY <1>2 DEF MovementReturns, history, TypeOK
  <2>4. \/ MoveAxis(Below, Top.client, "delta", FALSE, {Top.at})
        \/ WaitForSurvey(Below, Top.client, {Top.at})
    BY <1>2 DEF MovementReturns
  <2>5. "delta" \in Axes
    BY DEF Axes
  <2> QED
    BY <2>2, <2>3, <2>4, <2>5, MoveAxisTypes, WaitForSurveyTypes
<1>3. CASE PulseReturns
  <2>1. stack # <<>>
    BY <1>3 DEF PulseReturns
  <2>2. /\ Below \in Seq(Frames) /\ Len(stack) \in Nat \ {0}
        /\ Len(Below) = Len(stack) - 1
        /\ \A i \in 1..Len(Below) : Below[i] = stack[i]
        /\ Top.previousState \in BOOLEAN
    BY <2>1, TopTyped
  <2>3. stack \in Seq(Frames)
    BY DEF TypeOK
  <2>4. DOMAIN Below = 1..Len(Below) /\ DOMAIN stack = 1..Len(stack)
    BY <2>2, <2>3
  <2>5. \A i, j \in DOMAIN Below : Below[i].client = Below[j].client => i = j
    BY <2>2, <2>4 DEF TypeOK
  <2>6. stack' = Below /\ radecSurveyState' \in BOOLEAN
    BY <1>3, <2>2 DEF PulseReturns, SurveyLeft, TypeOK
  <2>7. overlapped' \in BOOLEAN /\ stopped' \in BOOLEAN /\ cut' \in BOOLEAN
    BY <1>3 DEF PulseReturns, Forget, TypeOK
  <2> QED
    BY <1>3, <2>2, <2>5, <2>6, <2>7 DEF PulseReturns, motion, TypeOK
<1>4. ASSUME NEW t \in pulseTimers, PulseTimer(t)
      PROVE  TypeOK'
  BY <1>4 DEF PulseTimer, survey, history, TypeOK
<1>5. CASE SurveyReads
  <2>1. surveyTimers' \in Nat
    BY <1>5 DEF SurveyReads, TimersAfterTick, TypeOK
  <2>2. radecSurveyIsMoving' \in BOOLEAN /\ shifted' \in BOOLEAN
    BY <1>5 DEF SurveyReads, TypeOK
  <2> QED
    BY <1>5, <2>1, <2>2 DEF SurveyReads, motion, history, TypeOK
<1>6. CASE SurveyFails
  BY <1>6 DEF SurveyFails, TimersAfterTick, motion, history, TypeOK
<1>7. ASSUME NEW c \in Clients, Survey(c)
      PROVE  TypeOK'
  <2>1. surveyTimers' \in Nat /\ radecSurveyState' \in BOOLEAN
    <3>1. CASE SurveyOn
      BY <3>1 DEF SurveyOn, SurveyTimersStarted, TypeOK
    <3>2. CASE SurveyOff
      BY <3>2 DEF SurveyOff, TypeOK
    <3> QED
      BY <1>7, <3>1, <3>2 DEF Survey
  <2>3. cut' \in BOOLEAN
    BY <1>7, Zenon DEF Survey, SurveyOn, SurveyOff, TypeOK
  <2>2. requests' \in 0..MaxRequests
    BY <1>7 DEF Survey, Request, TypeOK
  <2> QED
    BY <1>7, <2>1, <2>2, <2>3 DEF Survey, motion, TypeOK
<1>8. ASSUME NEW c \in Clients, NEW axis \in Axes, Move(c, axis)
      PROVE  TypeOK'
  <2>1. requests' \in 0..MaxRequests
    BY <1>8 DEF Move, Request, TypeOK
  <2>2. moving' \subseteq Axes \cup {"goto"} /\ held' \subseteq moving' \cap Axes
    BY <1>8 DEF Move, TypeOK
  <2> QED
    BY <1>8, <2>1, <2>2 DEF Move, survey, history, TypeOK
<1>9. ASSUME NEW c \in Clients, Goto(c)
      PROVE  TypeOK'
  BY <1>9 DEF Goto, Request, survey, history, TypeOK
<1>10. ASSUME NEW c \in Clients, NEW what, Stop(c, what)
       PROVE  TypeOK'
  BY <1>10 DEF Stop, Request, survey, TypeOK
<1>11. CASE CoordinatesChange
  BY <1>11 DEF CoordinatesChange, motion, history, TypeOK
<1>12. CASE GotoEnds
  <2>1. "goto" \notin Axes
    BY DEF Axes
  <2>2. moving' \subseteq Axes \cup {"goto"} /\ held' \subseteq moving' \cap Axes
    BY <1>12, <2>1 DEF GotoEnds, TypeOK
  <2> QED
    BY <1>12, <2>2 DEF GotoEnds, survey, history, TypeOK
<1>13. CASE UNCHANGED vars
  BY <1>13 DEF vars, motion, survey, history, TypeOK
<1> QED
  BY <1>1, <1>2, <1>3, <1>4, <1>5, <1>6, <1>7, <1>8, <1>9, <1>10, <1>11, <1>12, <1>13
     DEF Next
-----------------------------------------------------------------------------
(***************************************************************************)
(* Movements and timers have an owner.                                     *)
(***************************************************************************)
\* The pulse that goes on keeps a frame for all that still moves or is timed.
LEMMA OwnersPushed ==
  ASSUME TypeOK, MovementHasOwner, NEW s, NEW c, NEW gone, NEW f \in Frames,
         Prefix(s, c, gone), f.client = c, stack' = Append(s, f),
         moving' \cap Axes \subseteq (moving \ gone) \cup {f.at},
         held' = held \ gone,
         pulseTimers' \subseteq TimersLeft(c, gone) \cup {<<c, f.at>>}
  PROVE  MovementHasOwner'
<1>0. f \in Frames /\ Prefix(s, c, gone) /\ f.client = c /\ stack' = Append(s, f)
  OBVIOUS
<1>1. /\ Len(s) \in Nat /\ Len(stack') = Len(s) + 1 /\ stack' \in Seq(Frames)
      /\ \A i \in 1..Len(s) : stack'[i] = stack[i]
      /\ stack'[Len(s) + 1] = f
  BY <1>0, Pushed
<1>2. DOMAIN stack' = 1..(Len(s) + 1) /\ Len(s) + 1 \in 1..(Len(s) + 1)
  BY <1>1
<1>3. stack \in Seq(Frames) /\ DOMAIN stack = 1..Len(stack) /\ Len(stack) \in Nat
  BY DEF TypeOK
<1>4. \A i \in DOMAIN stack : i \in 1..Len(s) \/ (stack[i].client = c /\ stack[i].at \in gone)
  BY <1>1, <1>3 DEF Prefix
<1>5. \A i \in 1..Len(s) : i \in DOMAIN stack'
  BY <1>1, <1>2
<1>6. ASSUME NEW a \in moving' \cap Axes
      PROVE  a \in held' \/ \E i \in DOMAIN stack' : stack'[i].at = a
  <2>1. CASE a = f.at
    BY <1>1, <1>2, <2>1
  <2>2. CASE a \in moving \ gone
    <3>1. a \in held \/ \E i \in DOMAIN stack : stack[i].at = a
      BY <2>2 DEF MovementHasOwner
    <3> QED
      BY <1>1, <1>4, <1>5, <2>2, <3>1
  <2> QED
    BY <1>6, <2>1, <2>2
<1>7. ASSUME NEW t \in pulseTimers'
      PROVE  \E i \in DOMAIN stack' : stack'[i].client = t[1] /\ stack'[i].at = t[2]
  <2>1. CASE t = <<c, f.at>>
    <3>1. t[1] = c /\ t[2] = f.at
      BY <2>1
    <3> QED
      BY <1>1, <1>2, <3>1
  <2>2. CASE t \in TimersLeft(c, gone)
    <3>1. t \in pulseTimers /\ ~(t[1] = c /\ t[2] \in gone)
      BY <2>2 DEF TimersLeft
    <3>2. \E i \in DOMAIN stack : stack[i].client = t[1] /\ stack[i].at = t[2]
      BY <3>1 DEF MovementHasOwner
    <3> QED
      BY <1>1, <1>4, <1>5, <3>1, <3>2
  <2> QED
    BY <2>1, <2>2
<1> QED
  BY <1>6, <1>7 DEF MovementHasOwner

LEMMA MoveAxisOwners ==
  ASSUME TypeOK, MovementHasOwner, NEW s, NEW c \in Pulsers, NEW axis \in Axes,
         NEW delta \in BOOLEAN, NEW gone, Prefix(s, c, gone),
         MoveAxis(s, c, axis, delta, gone)
  PROVE  MovementHasOwner'
<1> DEFINE f == Frame(c, axis, delta, FALSE)
<1>1. f \in Frames /\ f.client = c /\ f.at = axis
  BY DEF Frame, Frames, Axes
<1>2. stack' = Append(s, f)
  BY DEF MoveAxis
<1> HIDE DEF f
<1>3. moving' \cap Axes \subseteq (moving \ gone) \cup {f.at} /\ held' = held \ gone
  BY <1>1 DEF MoveAxis, MovingLeft
<1>4. pulseTimers' \subseteq TimersLeft(c, gone) \cup {<<c, f.at>>}
  BY <1>1 DEF MoveAxis
<1> QED
  BY <1>1, <1>2, <1>3, <1>4, OwnersPushed

LEMMA WaitForSurveyOwners ==
  ASSUME TypeOK, MovementHasOwner, NEW s, NEW c \in Pulsers, NEW gone,
         Prefix(s, c, gone), WaitForSurvey(s, c, gone)
  PROVE  MovementHasOwner'
<1> DEFINE f == Frame(c, "survey", FALSE, radecSurveyState)
<1>1. f \in Frames /\ f.client = c /\ f.at = "survey"
  BY DEF Frame, Frames, Axes, TypeOK
<1>2. stack' = Append(s, f)
  BY DEF WaitForSurvey
<1> HIDE DEF f
<1>3. moving' \cap Axes \subseteq (moving \ gone) \cup {f.at} /\ held' = held \ gone
  BY DEF WaitForSurvey, MovingLeft
<1>4. pulseTimers' \subseteq TimersLeft(c, gone) \cup {<<c, f.at>>}
  BY DEF WaitForSurvey
<1> QED
  BY <1>1, <1>2, <1>3, <1>4, OwnersPushed

\* Every step keeps an owner for each movement and each timer.
LEMMA OwnersKept ==
  ASSUME TypeOK, MovementHasOwner, [Next]_vars
  PROVE  MovementHasOwner'
<1>1. ASSUME NEW c \in Pulsers, NEW alpha \in BOOLEAN, NEW delta \in BOOLEAN,
             Pulse(c, alpha, delta)
      PROVE  MovementHasOwner'
  <2>1. Prefix(stack, c, {})
    BY <1>1, WholePrefix DEF Pulse
  <2>2. \/ MoveAxis(stack, c, "alpha", delta, {})
        \/ MoveAxis(stack, c, "delta", FALSE, {})
        \/ WaitForSurvey(stack, c, {})
    BY <1>1 DEF Pulse
  <2>3. "alpha" \in Axes /\ "delta" \in Axes
    BY DEF Axes
  <2> QED
    BY <2>1, <2>2, <2>3, MoveAxisOwners, WaitForSurveyOwners
<1>2. CASE MovementReturns
  <2>1. stack # <<>>
    BY <1>2 DEF MovementReturns
  <2>2. Prefix(Below, Top.client, {Top.at}) /\ Top.client \in Pulsers
    BY <2>1, BelowPrefix, TopTyped
  <2>3. \/ MoveAxis(Below, Top.client, "delta", FALSE, {Top.at})
        \/ WaitForSurvey(Below, Top.client, {Top.at})
    BY <1>2 DEF MovementReturns
  <2>4. "delta" \in Axes
    BY DEF Axes
  <2> QED
    BY <2>2, <2>3, <2>4, MoveAxisOwners, WaitForSurveyOwners
<1>3. CASE PulseReturns
  <2>1. stack # <<>> /\ Top.at = "survey" /\ stack' = Below
        /\ UNCHANGED <<moving, held, pulseTimers>>
    BY <1>3 DEF PulseReturns, motion
  <2>2. /\ Below \in Seq(Frames) /\ Len(stack) \in Nat \ {0}
        /\ Len(Below) = Len(stack) - 1
        /\ \A i \in 1..Len(Below) : Below[i] = stack[i]
    BY <2>1, TopTyped
  <2>3. DOMAIN Below = 1..Len(Below) /\ DOMAIN stack = 1..Len(stack)
    BY <2>2 DEF TypeOK
  <2>4. \A i \in DOMAIN stack : i \in DOMAIN Below \/ stack[i].at = "survey"
    BY <2>1, <2>2, <2>3 DEF Top
  <2>5. "survey" \notin Axes
    BY DEF Axes
  <2>6. \A t \in pulseTimers : t[2] \in Axes
    BY DEF TypeOK
  <2>7. ASSUME NEW a \in moving' \cap Axes
        PROVE  a \in held' \/ \E i \in DOMAIN stack' : stack'[i].at = a
    <3>1. a \in held \/ \E i \in DOMAIN stack : stack[i].at = a
      BY <2>1 DEF MovementHasOwner
    <3> QED
      BY <2>1, <2>2, <2>3, <2>4, <2>5, <3>1
  <2>8. ASSUME NEW t \in pulseTimers'
        PROVE  \E i \in DOMAIN stack' : stack'[i].client = t[1] /\ stack'[i].at = t[2]
    <3>1. /\ t[2] \in Axes
          /\ \E i \in DOMAIN stack : stack[i].client = t[1] /\ stack[i].at = t[2]
      BY <2>1, <2>6 DEF MovementHasOwner
    <3> QED
      BY <2>1, <2>2, <2>3, <2>4, <2>5, <3>1
  <2> QED
    BY <2>7, <2>8 DEF MovementHasOwner
<1>4. ASSUME NEW t \in pulseTimers, PulseTimer(t)
      PROVE  MovementHasOwner'
  BY <1>4 DEF PulseTimer, MovementHasOwner
<1>5. ASSUME UNCHANGED <<motion, stack>>
      PROVE  MovementHasOwner'
  BY <1>5 DEF motion, MovementHasOwner
<1>6. SurveyReads \/ SurveyFails \/ CoordinatesChange \/ UNCHANGED vars
        => UNCHANGED <<motion, stack>>
  BY DEF SurveyReads, SurveyFails, CoordinatesChange, vars
<1>7. ASSUME NEW c \in Clients, Survey(c)
      PROVE  UNCHANGED <<motion, stack>>
  BY <1>7 DEF Survey
<1>8. ASSUME NEW c \in Clients, NEW axis \in Axes, Move(c, axis)
      PROVE  MovementHasOwner'
  BY <1>8 DEF Move, MovementHasOwner
<1>9. ASSUME NEW c \in Clients, Goto(c)
      PROVE  MovementHasOwner'
  BY <1>9 DEF Goto, MovementHasOwner, Axes
<1>10. ASSUME NEW c \in Clients, NEW what, Stop(c, what)
       PROVE  MovementHasOwner'
  BY <1>10 DEF Stop, MovementHasOwner
<1>11. CASE GotoEnds
  BY <1>11 DEF GotoEnds, MovementHasOwner
<1> QED
  BY <1>1, <1>2, <1>3, <1>4, <1>5, <1>6, <1>7, <1>8, <1>9, <1>10, <1>11 DEF Next
-----------------------------------------------------------------------------
(***************************************************************************)
(* The survey.                                                             *)
(***************************************************************************)
\* A survey that is on keeps a timer.
LEMMA AliveKept ==
  ASSUME TypeOK, SurveyAlive, [Next]_vars
  PROVE  SurveyAlive'
<1>1. ASSUME NEW s, NEW c, NEW axis, NEW delta, NEW gone, MoveAxis(s, c, axis, delta, gone)
      PROVE  SurveyAlive'
  BY <1>1 DEF MoveAxis, survey, SurveyAlive
<1>2. ASSUME NEW s, NEW c, NEW gone, WaitForSurvey(s, c, gone)
      PROVE  SurveyAlive'
  BY <1>2 DEF WaitForSurvey, SurveyTimersStarted, SurveyAlive, TypeOK
<1>3. ASSUME NEW c, NEW alpha, NEW delta, Pulse(c, alpha, delta)
      PROVE  SurveyAlive'
  BY <1>1, <1>2, <1>3 DEF Pulse
<1>4. CASE MovementReturns
  BY <1>1, <1>2, <1>4 DEF MovementReturns
<1>5. CASE PulseReturns
  BY <1>5 DEF PulseReturns, SurveyLeft, SurveyAlive
<1>6. CASE SurveyReads \/ SurveyFails
  BY <1>6 DEF SurveyReads, SurveyFails, TimersAfterTick, SurveyAlive
<1>7. ASSUME NEW c, Survey(c)
      PROVE  SurveyAlive'
  <2>1. CASE SurveyOn
    BY <2>1 DEF SurveyOn, SurveyTimersStarted, SurveyAlive, TypeOK
  <2>2. CASE SurveyOff
    BY <2>2 DEF SurveyOff, SurveyAlive
  <2> QED
    BY <1>7, <2>1, <2>2 DEF Survey
<1>8. ASSUME UNCHANGED <<radecSurveyState, surveyTimers>>
      PROVE  SurveyAlive'
  BY <1>8 DEF SurveyAlive
<1>9. ASSUME NEW t, NEW c, NEW axis, NEW what,
             PulseTimer(t) \/ Move(c, axis) \/ Goto(c) \/ Stop(c, what)
      PROVE  UNCHANGED <<radecSurveyState, surveyTimers>>
  BY <1>9 DEF PulseTimer, Move, Goto, Stop, survey
<1>10. CoordinatesChange \/ GotoEnds \/ UNCHANGED vars
         => UNCHANGED <<radecSurveyState, surveyTimers>>
  BY DEF CoordinatesChange, GotoEnds, survey, vars
<1> QED
  BY <1>3, <1>4, <1>5, <1>6, <1>7, <1>8, <1>9, <1>10 DEF Next

\* The stage in movement leaves the survey and the pulses below alone.
LEMMA MoveAxisServed ==
  ASSUME TypeOK, ServedInv, NEW s, NEW c \in Pulsers, NEW axis \in Axes,
         NEW delta \in BOOLEAN, NEW gone, Prefix(s, c, gone),
         MoveAxis(s, c, axis, delta, gone), cut' = cut
  PROVE  ServedInv'
<1> DEFINE f == Frame(c, axis, delta, FALSE)
<1>1. f \in Frames /\ f.client = c /\ f.at # "survey"
  BY DEF Frame, Frames, Axes
<1>2. stack' = Append(s, f) /\ radecSurveyState' = radecSurveyState
  BY DEF MoveAxis, survey
<1> HIDE DEF f
<1>3. /\ Len(s) \in Nat /\ Len(stack') = Len(s) + 1
      /\ \A i \in 1..Len(s) : i \in 1..Len(stack) /\ stack'[i] = stack[i]
      /\ stack'[Len(s) + 1] = f
  <2>1. /\ s \in Seq(Frames) /\ Len(s) \in Nat
        /\ \A i \in 1..Len(s) : i \in 1..Len(stack) /\ stack[i] = s[i]
    BY PrefixFacts
  <2>2. /\ Len(stack') = Len(s) + 1 /\ stack'[Len(s) + 1] = f
        /\ \A i \in 1..Len(s) : stack'[i] = s[i]
    BY <1>1, <1>2, <2>1, Appended
  <2> QED
    BY <2>1, <2>2
<1>4. SUFFICES ASSUME ~cut, NEW j \in 1..Len(stack'), stack'[j].at = "survey"
               PROVE  /\ radecSurveyState
                      /\ \A i \in 1..Len(stack') :
                           i < j /\ stack'[i].at = "survey" => stack'[j].previousState
  BY <1>2 DEF ServedInv
<1>5. j \in 1..Len(s)
  BY <1>1, <1>3, <1>4
<1>6. j \in 1..Len(stack) /\ stack[j].at = "survey" /\ stack'[j] = stack[j]
  BY <1>3, <1>4, <1>5
<1>7. \A i \in 1..Len(stack') : i < j => i \in 1..Len(s)
  BY <1>3, <1>5
<1> QED
  BY <1>3, <1>4, <1>6, <1>7 DEF ServedInv

\* The wait for the survey switches it on, and remembers that it was on if another
\* pulse waited for it.
LEMMA WaitForSurveyServed ==
  ASSUME TypeOK, ServedInv, NEW s, NEW c \in Pulsers, NEW gone,
         Prefix(s, c, gone), WaitForSurvey(s, c, gone), cut' = cut
  PROVE  ServedInv'
<1> DEFINE f == Frame(c, "survey", FALSE, radecSurveyState)
<1>1. f \in Frames /\ f.client = c /\ f.previousState = radecSurveyState
  BY DEF Frame, Frames, Axes, TypeOK
<1>2. stack' = Append(s, f) /\ radecSurveyState'
  BY DEF WaitForSurvey
<1> HIDE DEF f
<1>3. /\ Len(s) \in Nat /\ Len(stack') = Len(s) + 1
      /\ \A i \in 1..Len(s) : i \in 1..Len(stack) /\ stack'[i] = stack[i]
      /\ stack'[Len(s) + 1] = f
  <2>1. /\ s \in Seq(Frames) /\ Len(s) \in Nat
        /\ \A i \in 1..Len(s) : i \in 1..Len(stack) /\ stack[i] = s[i]
    BY PrefixFacts
  <2>2. /\ Len(stack') = Len(s) + 1 /\ stack'[Len(s) + 1] = f
        /\ \A i \in 1..Len(s) : stack'[i] = s[i]
    BY <1>1, <1>2, <2>1, Appended
  <2> QED
    BY <2>1, <2>2
<1>4. SUFFICES ASSUME ~cut, NEW j \in 1..Len(stack'), stack'[j].at = "survey",
                      NEW i \in 1..Len(stack'), i < j, stack'[i].at = "survey"
               PROVE  stack'[j].previousState
  BY <1>2 DEF ServedInv
<1>5. i \in 1..Len(s)
  BY <1>3, <1>4
<1>6. i \in 1..Len(stack) /\ stack[i].at = "survey"
  BY <1>3, <1>4, <1>5
<1>7. CASE j \in 1..Len(s)
  <2>1. j \in 1..Len(stack) /\ stack'[j] = stack[j]
    BY <1>3, <1>7
  <2> QED
    BY <1>4, <1>6, <2>1 DEF ServedInv
<1>8. CASE j = Len(s) + 1
  BY <1>1, <1>3, <1>4, <1>6, <1>8 DEF ServedInv
<1> QED
  BY <1>3, <1>7, <1>8

\* Every step keeps the survey serving the pulses that wait for it.
LEMMA ServedKept ==
  ASSUME TypeOK, ServedInv, [Next]_vars
  PROVE  ServedInv'
<1>1. ASSUME NEW c \in Pulsers, NEW alpha \in BOOLEAN, NEW delta \in BOOLEAN,
             Pulse(c, alpha, delta)
      PROVE  ServedInv'
  <2>1. Prefix(stack, c, {}) /\ cut' = cut
    BY <1>1, WholePrefix DEF Pulse
  <2>2. \/ MoveAxis(stack, c, "alpha", delta, {})
        \/ MoveAxis(stack, c, "delta", FALSE, {})
        \/ WaitForSurvey(stack, c, {})
    BY <1>1 DEF Pulse
  <2>3. "alpha" \in Axes /\ "delta" \in Axes
    BY DEF Axes
  <2> QED
    BY <2>1, <2>2, <2>3, MoveAxisServed, WaitForSurveyServed
<1>2. CASE MovementReturns
  <2>1. stack # <<>> /\ cut' = cut
    BY <1>2 DEF MovementReturns, history
  <2>2. Prefix(Below, Top.client, {Top.at}) /\ Top.client \in Pulsers
    BY <2>1, BelowPrefix, TopTyped
  <2>3. \/ MoveAxis(Below, Top.client, "delta", FALSE, {Top.at})
        \/ WaitForSurvey(Below, Top.client, {Top.at})
    BY <1>2 DEF MovementReturns
  <2>4. "delta" \in Axes
    BY DEF Axes
  <2> QED
    BY <2>1, <2>2, <2>3, <2>4, MoveAxisServed, WaitForSurveyServed
<1>3. CASE PulseReturns
  <2>1. /\ stack # <<>> /\ Top.at = "survey" /\ stack' = Below
        /\ radecSurveyState' = (radecSurveyState /\ Top.previousState)
        /\ cut' = (cut /\ Below # <<>>)
    BY <1>3 DEF PulseReturns, SurveyLeft, Forget
  <2>2. /\ Below \in Seq(Frames) /\ Len(stack) \in Nat \ {0}
        /\ Len(Below) = Len(stack) - 1
        /\ \A i \in 1..Len(Below) : Below[i] = stack[i]
    BY <2>1, TopTyped
  <2>3. SUFFICES ASSUME ~cut', NEW j \in 1..Len(stack'), stack'[j].at = "survey"
                 PROVE  /\ radecSurveyState'
                        /\ \A i \in 1..Len(stack') :
                             i < j /\ stack'[i].at = "survey" => stack'[j].previousState
    BY DEF ServedInv
  <2>4. Len(Below) # 0 /\ Below # <<>>
    BY <2>1, <2>2, <2>3
  <2>5. ~cut
    BY <2>1, <2>3, <2>4
  <2>6. j \in 1..Len(stack) /\ stack[j].at = "survey" /\ j < Len(stack)
    BY <2>1, <2>2, <2>3
  <2>7. radecSurveyState /\ Top.previousState
    <3>1. Len(stack) \in 1..Len(stack)
      BY <2>2
    <3> QED
      BY <2>1, <2>5, <2>6, <3>1 DEF ServedInv, Top
  <2>8. \A i \in 1..Len(stack') : i \in 1..Len(stack) /\ stack'[i] = stack[i]
    BY <2>1, <2>2
  <2> QED
    BY <2>1, <2>3, <2>5, <2>6, <2>7, <2>8 DEF ServedInv
<1>4. ASSUME NEW c, Survey(c)
      PROVE  ServedInv'
  <2>1. stack' = stack
    BY <1>4 DEF Survey
  <2>2. CASE SurveyOn
    BY <2>1, <2>2 DEF SurveyOn, ServedInv
  <2>3. CASE SurveyOff
    <3>1. DOMAIN stack = 1..Len(stack)
      BY DEF TypeOK
    <3> QED
      BY <2>1, <2>3, <3>1 DEF SurveyOff, ServedInv
  <2> QED
    BY <1>4, <2>2, <2>3 DEF Survey
<1>5. ASSUME UNCHANGED <<radecSurveyState, stack, cut>>
      PROVE  ServedInv'
  BY <1>5 DEF ServedInv
<1>6. ASSUME NEW t, NEW c, NEW axis, NEW what,
             PulseTimer(t) \/ Move(c, axis) \/ Goto(c) \/ Stop(c, what)
      PROVE  UNCHANGED <<radecSurveyState, stack, cut>>
  BY <1>6 DEF PulseTimer, Move, Goto, Stop, survey, history
<1>7. SurveyReads \/ SurveyFails \/ CoordinatesChange \/ GotoEnds \/ UNCHANGED vars
        => UNCHANGED <<radecSurveyState, stack, cut>>
  BY DEF SurveyReads, SurveyFails, CoordinatesChange, GotoEnds, survey, history, vars
<1> QED
  BY <1>1, <1>2, <1>3, <1>4, <1>5, <1>6, <1>7 DEF Next
-----------------------------------------------------------------------------
(***************************************************************************)
(* Movements and their flag.                                               *)
(***************************************************************************)
\* Two pulses are on the stack only after one began inside the other.
LEMMA OverlapKept ==
  ASSUME TypeOK, OverlapInv, [Next]_vars
  PROVE  OverlapInv'
<1>0. stack \in Seq(Frames) /\ Len(stack) \in Nat
  BY DEF TypeOK
<1>1. ASSUME NEW c \in Pulsers, NEW alpha \in BOOLEAN, NEW delta \in BOOLEAN,
             Pulse(c, alpha, delta)
      PROVE  OverlapInv'
  <2>1. overlapped' = (overlapped \/ stack # <<>>)
    BY <1>1 DEF Pulse
  <2>2. PICK f : stack' = Append(stack, f)
    BY <1>1 DEF Pulse, MoveAxis, WaitForSurvey
  <2>3. stack = <<>> => Len(stack') = 1
    BY <2>2
  <2>4. ASSUME Len(stack') > 1 PROVE overlapped'
    <3>1. ~(1 > 1)
      OBVIOUS
    <3>2. stack # <<>>
      BY <2>3, <2>4, <3>1, Zenon
    <3> QED
      BY <2>1, <3>2, Zenon
  <2> QED
    BY <2>4, Zenon DEF OverlapInv
<1>2. CASE MovementReturns
  <2>1. stack # <<>> /\ overlapped' = overlapped
    BY <1>2 DEF MovementReturns, history
  <2>2. PICK f : stack' = Append(Below, f)
    BY <1>2 DEF MovementReturns, MoveAxis, WaitForSurvey
  <2>3. Below \in Seq(Frames) /\ Len(Below) = Len(stack) - 1
    BY <2>1, TopTyped
  <2>4. Len(stack') = Len(stack)
    BY <1>0, <2>2, <2>3
  <2> QED
    BY <2>1, <2>4 DEF OverlapInv
<1>3. CASE PulseReturns
  <2>1. stack # <<>> /\ stack' = Below /\ overlapped' = (overlapped /\ Below # <<>>)
    BY <1>3 DEF PulseReturns, Forget
  <2>2. Below \in Seq(Frames) /\ Len(Below) = Len(stack) - 1
    BY <2>1, TopTyped
  <2>3. Len(stack') > 1 => Below # <<>> /\ Len(stack) > 1
    BY <1>0, <2>1, <2>2
  <2>4. ASSUME Len(stack') > 1 PROVE overlapped'
    <3>1. overlapped
      BY <2>3, <2>4, Zenon DEF OverlapInv
    <3> QED
      BY <2>1, <2>3, <2>4, <3>1, Zenon
  <2> QED
    BY <2>4, Zenon DEF OverlapInv
<1>4. ASSUME UNCHANGED <<stack, overlapped>>
      PROVE  OverlapInv'
  BY <1>4 DEF OverlapInv
<1>5. ASSUME NEW t, NEW c, NEW axis, NEW what,
             PulseTimer(t) \/ Survey(c) \/ Move(c, axis) \/ Goto(c) \/ Stop(c, what)
      PROVE  UNCHANGED <<stack, overlapped>>
  BY <1>5 DEF PulseTimer, Survey, Move, Goto, Stop, history
<1>6. SurveyReads \/ SurveyFails \/ CoordinatesChange \/ GotoEnds \/ UNCHANGED vars
        => UNCHANGED <<stack, overlapped>>
  BY DEF SurveyReads, SurveyFails, CoordinatesChange, GotoEnds, history, vars
<1> QED
  BY <1>1, <1>2, <1>3, <1>4, <1>5, <1>6 DEF Next

\* A pulse alone has no timer but its own.
LEMMA OwnTimer ==
  ASSUME TypeOK, MovementHasOwner, OverlapInv, ~overlapped, stack # <<>>,
         NEW t \in pulseTimers
  PROVE  t = <<Top.client, Top.at>>
<1>1. stack \in Seq(Frames) /\ Len(stack) = 1
  <2>1. stack \in Seq(Frames)
    BY DEF TypeOK
  <2> DEFINE n == Len(stack)
  <2>2. n \in Nat /\ n # 0
    BY <2>1
  <2>3. ~(n > 1)
    BY Zenon DEF OverlapInv
  <2> HIDE DEF n
  <2>4. n = 1
    BY <2>2, <2>3
  <2> QED
    BY <2>1, <2>4 DEF n
<1>2. DOMAIN stack = 1..1 /\ Top = stack[1]
  BY <1>1 DEF Top
<1>3. \A i \in DOMAIN stack : i = 1
  BY <1>2
<1>4. stack[1].client = t[1] /\ stack[1].at = t[2]
  BY <1>3 DEF MovementHasOwner
<1>5. t \in Pulsers \X Axes
  BY DEF TypeOK
<1>6. t = <<t[1], t[2]>>
  BY <1>5
<1> QED
  BY <1>2, <1>4, <1>6

\* Every step lets a movement last, unless it is stopped or pulses overlap.
LEMMA DurationKept ==
  ASSUME TypeOK, MovementHasOwner, OverlapInv, FullDuration, [Next]_vars
  PROVE  FullDuration'
<1>1. ASSUME NEW s, NEW c, NEW axis, NEW delta, NEW gone, MoveAxis(s, c, axis, delta, gone)
      PROVE  FullDuration'
  BY <1>1 DEF MoveAxis, FullDuration
<1>2. ASSUME NEW s \in Seq(Frames), NEW c \in Pulsers, NEW gone, WaitForSurvey(s, c, gone)
      PROVE  FullDuration'
  <2> DEFINE f == Frame(c, "survey", FALSE, radecSurveyState)
  <2>1. f \in Frames /\ f.at = "survey" /\ "survey" \notin Axes
    BY DEF Frame, Frames, Axes, TypeOK
  <2>2. stack' = Append(s, f)
    BY <1>2 DEF WaitForSurvey
  <2> HIDE DEF f
  <2>3. stack'[Len(stack')] = f
    BY <2>1, <2>2, Appended
  <2>4. Top' = f
    BY <2>3 DEF Top
  <2> QED
    BY <2>1, <2>4 DEF FullDuration
<1>3. ASSUME NEW c \in Pulsers, NEW alpha \in BOOLEAN, NEW delta \in BOOLEAN,
             Pulse(c, alpha, delta)
      PROVE  FullDuration'
  <2>1. stack \in Seq(Frames)
    BY DEF TypeOK
  <2> QED
    BY <1>1, <1>2, <1>3, <2>1 DEF Pulse
<1>4. CASE MovementReturns
  <2>1. stack # <<>>
    BY <1>4 DEF MovementReturns
  <2>2. Below \in Seq(Frames) /\ Top.client \in Pulsers
    BY <2>1, TopTyped
  <2> QED
    BY <1>1, <1>2, <1>4, <2>2 DEF MovementReturns
<1>5. CASE PulseReturns
  <2>1. /\ stack # <<>> /\ stack' = Below
        /\ overlapped' = (overlapped /\ Below # <<>>)
    BY <1>5 DEF PulseReturns, Forget
  <2>2. /\ Below \in Seq(Frames) /\ Len(Below) = Len(stack) - 1
        /\ Len(stack) \in Nat \ {0}
    BY <2>1, TopTyped
  <2>3. CASE Below = <<>>
    BY <2>1, <2>3 DEF FullDuration
  <2>4. CASE Below # <<>>
    <3>1. Len(stack) > 1
      BY <2>2, <2>4
    <3> QED
      BY <2>1, <2>4, <3>1 DEF OverlapInv, FullDuration
  <2> QED
    BY <2>3, <2>4
<1>6. ASSUME NEW t \in pulseTimers, PulseTimer(t)
      PROVE  FullDuration'
  <2>1. /\ pulseTimers' = pulseTimers \ {t} /\ stack' = stack
        /\ overlapped' = overlapped /\ stopped' = stopped
    BY <1>6 DEF PulseTimer, history
  <2>2. Top' = Top
    BY <2>1 DEF Top
  <2>3. stack # <<>> /\ ~overlapped => <<Top.client, Top.at>> \notin pulseTimers'
    BY <2>1, OwnTimer
  <2> QED
    BY <2>1, <2>2, <2>3 DEF FullDuration
<1>7. ASSUME NEW c, NEW what, Stop(c, what)
      PROVE  FullDuration'
  BY <1>7 DEF Stop, FullDuration
<1>8. ASSUME UNCHANGED <<timeDone, pulseTimers, stack, overlapped, stopped>>
      PROVE  FullDuration'
  <2>1. Top' = Top
    BY <1>8 DEF Top
  <2> QED
    BY <1>8, <2>1 DEF FullDuration
<1>9. ASSUME NEW c, NEW axis, Survey(c) \/ Move(c, axis) \/ Goto(c)
      PROVE  UNCHANGED <<timeDone, pulseTimers, stack, overlapped, stopped>>
  BY <1>9 DEF Survey, Move, Goto, motion, history
<1>10. SurveyReads \/ SurveyFails \/ CoordinatesChange \/ GotoEnds \/ UNCHANGED vars
         => UNCHANGED <<timeDone, pulseTimers, stack, overlapped, stopped>>
  BY DEF SurveyReads, SurveyFails, CoordinatesChange, GotoEnds, motion, history, vars
<1> QED
  BY <1>3, <1>4, <1>5, <1>6, <1>7, <1>8, <1>9, <1>10 DEF Next

\* A movement that begins is the innermost one, and has its timer.
LEMMA MoveAxisTimed ==
  ASSUME TypeOK, NEW s, NEW c \in Pulsers, NEW axis \in Axes, NEW delta \in BOOLEAN,
         NEW gone, Prefix(s, c, gone), MoveAxis(s, c, axis, delta, gone)
  PROVE  TimedInv'
<1> DEFINE f == Frame(c, axis, delta, FALSE)
<1>1. f \in Frames /\ f.client = c /\ f.at = axis
  BY DEF Frame, Frames, Axes
<1>2. stack' = Append(s, f) /\ <<c, axis>> \in pulseTimers'
  BY DEF MoveAxis
<1> HIDE DEF f
<1>3. Len(s) \in Nat /\ Len(stack') = Len(s) + 1 /\ stack'[Len(s) + 1] = f
  BY <1>1, <1>2, Pushed
<1> SUFFICES ASSUME NEW i \in 1..Len(stack'),
                    \A j \in 1..Len(stack') : i < j => stack'[j].at \notin Axes
             PROVE  <<stack'[i].client, stack'[i].at>> \in pulseTimers'
  BY DEF TimedInv
<1>4. Len(s) + 1 \in 1..Len(stack') /\ ~(i < Len(s) + 1)
  BY <1>1, <1>3
<1>5. i = Len(s) + 1
  BY <1>3, <1>4
<1> QED
  BY <1>1, <1>2, <1>3, <1>5

\* A pulse that moves nothing waits above the others and leaves them their timers.
LEMMA WaitForSurveyTimed ==
  ASSUME TypeOK, TimedInv, NEW c \in Pulsers, Idle(c), WaitForSurvey(stack, c, {})
  PROVE  TimedInv'
<1> DEFINE f == Frame(c, "survey", FALSE, radecSurveyState)
<1>1. f \in Frames
  BY DEF Frame, Frames, Axes, TypeOK
<1>2. /\ stack' = Append(stack, f) /\ timeDone' = timeDone
      /\ f.at \notin Axes
  BY DEF WaitForSurvey, Frame, Axes
<1>3. pulseTimers' = pulseTimers
  BY DEF WaitForSurvey, TimersLeft
<1> HIDE DEF f
<1>4. /\ Len(stack) \in Nat /\ Len(stack') = Len(stack) + 1
      /\ \A i \in 1..Len(stack) : stack'[i] = stack[i]
      /\ stack'[Len(stack) + 1] = f
  BY <1>1, <1>2, Appended DEF TypeOK
<1> SUFFICES ASSUME ~timeDone, NEW i \in 1..Len(stack'), stack'[i].at \in Axes,
                    \A j \in 1..Len(stack') : i < j => stack'[j].at \notin Axes
             PROVE  <<stack'[i].client, stack'[i].at>> \in pulseTimers
  BY <1>2, <1>3 DEF TimedInv
<1>5. i \in 1..Len(stack)
  <2>1. i # Len(stack) + 1
    BY <1>2, <1>4
  <2> QED
    BY <1>4, <2>1
<1>6. \A j \in 1..Len(stack) : j \in 1..Len(stack') /\ stack'[j] = stack[j]
  BY <1>4
<1> QED
  BY <1>5, <1>6 DEF TimedInv

\* Every step leaves the innermost movement its timer, or sets timeDone.
LEMMA TimedKept ==
  ASSUME TypeOK, TimedInv, [Next]_vars
  PROVE  TimedInv'
<1>1. ASSUME NEW c \in Pulsers, NEW alpha \in BOOLEAN, NEW delta \in BOOLEAN,
             Pulse(c, alpha, delta)
      PROVE  TimedInv'
  <2>1. Idle(c) /\ Prefix(stack, c, {})
    BY <1>1, WholePrefix DEF Pulse
  <2>2. \/ MoveAxis(stack, c, "alpha", delta, {})
        \/ MoveAxis(stack, c, "delta", FALSE, {})
        \/ WaitForSurvey(stack, c, {})
    BY <1>1 DEF Pulse
  <2>3. "alpha" \in Axes /\ "delta" \in Axes
    BY DEF Axes
  <2> QED
    BY <2>1, <2>2, <2>3, MoveAxisTimed, WaitForSurveyTimed
<1>2. CASE MovementReturns
  <2>1. stack # <<>> /\ timeDone
    BY <1>2 DEF MovementReturns
  <2>2. Prefix(Below, Top.client, {Top.at}) /\ Top.client \in Pulsers
    BY <2>1, BelowPrefix, TopTyped
  <2>3. CASE MoveAxis(Below, Top.client, "delta", FALSE, {Top.at})
    <3>1. "delta" \in Axes
      BY DEF Axes
    <3> QED
      BY <2>2, <2>3, <3>1, MoveAxisTimed
  <2>4. CASE WaitForSurvey(Below, Top.client, {Top.at})
    BY <2>1, <2>4 DEF WaitForSurvey, TimedInv
  <2> QED
    BY <1>2, <2>3, <2>4 DEF MovementReturns
<1>3. CASE PulseReturns
  <2>1. /\ stack # <<>> /\ Top.at = "survey" /\ stack' = Below
        /\ UNCHANGED <<timeDone, pulseTimers>>
    BY <1>3 DEF PulseReturns, motion
  <2>2. /\ Len(stack) \in Nat \ {0} /\ Len(Below) = Len(stack) - 1
        /\ \A i \in 1..Len(Below) : Below[i] = stack[i]
    BY <2>1, TopTyped
  <2> SUFFICES ASSUME ~timeDone, NEW i \in 1..Len(Below), Below[i].at \in Axes,
                      \A j \in 1..Len(Below) : i < j => Below[j].at \notin Axes
               PROVE  <<Below[i].client, Below[i].at>> \in pulseTimers
    BY <2>1 DEF TimedInv
  <2>3. i \in 1..Len(stack) /\ Below[i] = stack[i]
    BY <2>2
  <2>4. ASSUME NEW j \in 1..Len(stack), i < j
        PROVE  stack[j].at \notin Axes
    <3>1. CASE j \in 1..Len(Below)
      BY <2>2, <2>4, <3>1
    <3>2. CASE j = Len(stack)
      BY <2>1, <3>2 DEF Top, Axes
    <3>3. j \in 1..Len(Below) \/ j = Len(stack)
      <4> DEFINE n == Len(stack)
                 m == Len(Below)
      <4>1. n \in Nat \ {0} /\ m = n - 1 /\ j \in 1..n
        BY <2>2
      <4> HIDE DEF n, m
      <4>2. j \in 1..m \/ j = n
        BY <4>1
      <4> QED
        BY <4>2 DEF n, m
    <3> QED
      BY <3>1, <3>2, <3>3
  <2> QED
    BY <2>3, <2>4 DEF TimedInv
<1>4. ASSUME timeDone'
      PROVE  TimedInv'
  BY <1>4 DEF TimedInv
<1>5. ASSUME NEW t, NEW c, NEW what, PulseTimer(t) \/ Stop(c, what)
      PROVE  timeDone'
  BY <1>5 DEF PulseTimer, Stop
<1>6. ASSUME UNCHANGED <<timeDone, pulseTimers, stack>>
      PROVE  TimedInv'
  BY <1>6 DEF TimedInv
<1>7. ASSUME NEW c, NEW axis, Survey(c) \/ Move(c, axis) \/ Goto(c)
      PROVE  UNCHANGED <<timeDone, pulseTimers, stack>>
  BY <1>7 DEF Survey, Move, Goto, motion
<1>8. SurveyReads \/ SurveyFails \/ CoordinatesChange \/ GotoEnds \/ UNCHANGED vars
        => UNCHANGED <<timeDone, pulseTimers, stack>>
  BY DEF SurveyReads, SurveyFails, CoordinatesChange, GotoEnds, motion, vars
<1> QED
  BY <1>1, <1>2, <1>3, <1>4, <1>5, <1>6, <1>7, <1>8 DEF Next
-----------------------------------------------------------------------------
(***************************************************************************)
(* Theorems.                                                               *)
(***************************************************************************)
\* The inductive invariant of the movements and the survey (libtel.cpp: cmdTelRaDec,
\* libtel_doRadecSurvey).
THEOREM PulseInvariant == Spec => []PulseInv
<1>1. Init => PulseInv
  <2> SUFFICES ASSUME Init PROVE PulseInv
    OBVIOUS
  <2>1. TypeOK
    <3>1. stack = <<>> /\ pulseTimers = {} /\ moving = {} /\ held = {}
      BY DEF Init
    <3>2. stack \in Seq(Frames) /\ DOMAIN stack = {}
      BY <3>1
    <3>3. pulses \in 0..MaxPulses /\ requests \in 0..MaxRequests /\ surveyTimers \in Nat
      BY TelPulseAssumption DEF Init
    <3> QED
      BY <3>1, <3>2, <3>3 DEF Init, TypeOK
  <2>2. MovementHasOwner /\ SurveyAlive /\ ServedInv /\ OverlapInv /\ FullDuration
    BY DEF Init, MovementHasOwner, SurveyAlive, ServedInv, OverlapInv, FullDuration
  <2>3. TimedInv
    BY DEF Init, TimedInv
  <2> QED
    BY <2>1, <2>2, <2>3 DEF PulseInv
<1>2. PulseInv /\ [Next]_vars => PulseInv'
  BY TypesKept, OwnersKept, AliveKept, ServedKept, OverlapKept, DurationKept, TimedKept
     DEF PulseInv
<1> QED
  BY <1>1, <1>2, PTL DEF Spec

\* Types, and no client has two pulses.
THEOREM PulseTypes == Spec => []TypeOK
<1>1. PulseInv => TypeOK
  BY DEF PulseInv
<1> QED
  BY <1>1, PulseInvariant, PTL

\* No movement and no timer outlives its pulse, however pulses are nested.
THEOREM MovementOwned == Spec => []MovementHasOwner
<1>1. PulseInv => MovementHasOwner
  BY DEF PulseInv
<1> QED
  BY <1>1, PulseInvariant, PTL

\* A pulse that nothing crosses lasts its full duration.
THEOREM DurationFull == Spec => []FullDuration
<1>1. PulseInv => FullDuration
  BY DEF PulseInv
<1> QED
  BY <1>1, PulseInvariant, PTL

\* A survey that is on has a timer.
THEOREM SurveyContinues == Spec => []SurveyAlive
<1>1. PulseInv => SurveyAlive
  BY DEF PulseInv
<1> QED
  BY <1>1, PulseInvariant, PTL

\* What a pulse waits for is on its way: no pulse switches off the survey another one
\* waits for, and none deletes the timer of the innermost movement, whatever pulses
\* begin, end and are nested in its wait.
THEOREM WaitServed == Spec => []WaitIsServed
<1>1. PulseInv => WaitIsServed
  <2>1. TypeOK => DOMAIN stack = 1..Len(stack)
    BY DEF TypeOK
  <2> QED
    BY <2>1 DEF PulseInv, ServedInv, TimedInv, WaitIsServed
<1> QED
  BY <1>1, PulseInvariant, PTL
=============================================================================
