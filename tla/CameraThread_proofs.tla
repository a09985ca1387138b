------------------------ MODULE CameraThread_proofs ------------------------
(***************************************************************************)
(* Theorems about CameraThread, for every value of its constants: every    *)
(* session answers exactly once, the number of chains is bounded, and no   *)
(* run waits for the end of an exposure that is over.                      *)
(***************************************************************************)
EXTENDS CameraThread, SequenceTheorems, FiniteSetTheorems, TLAPS

(***************************************************************************)
(* The inductive invariant.                                                *)
(***************************************************************************)
\* The chains under way: waiting runs and scheduled runs.
Chains == Len(stack) + loops

\* A stop makes room for one more chain, which the next session takes.
RoomInv ==
  Chains + (IF acquisitionState = 1 THEN 0 ELSE 1) <= 1 + stops + forced

\* The status tells the exposure, and what a driver that drops adds to it.
StatusInv ==
  /\ status = "exp" => exposing
  /\ status = "read" => drops
  /\ WaitsForExposure

\* The types the steps need, without the bounds.
Typed ==
  /\ acquisitionState \in {0, 1}
  /\ stack \in Seq(Places)
  /\ loops \in Nat
  /\ sessions \in 0..MaxSessions
  /\ forced \in 0..sessions
  /\ results \in Nat
  /\ stops \in 0..MaxStops

ThreadInv == Typed /\ EveryChainAnswers /\ RoomInv /\ StatusInv
-----------------------------------------------------------------------------
(***************************************************************************)
(* The operations on the stack.                                            *)
(***************************************************************************)
\* A pushed run is last; the others keep their place.
LEMMA PushFacts ==
  ASSUME stack \in Seq(Places), NEW place \in Places
  PROVE  /\ Push(place) \in Seq(Places)
         /\ Len(Push(place)) = Len(stack) + 1
         /\ \A i \in 1..Len(Push(place)) :
              Push(place)[i] = IF i <= Len(stack) THEN stack[i] ELSE place
BY DEF Push

\* A sequence without its last element.
LEMMA FrontFacts ==
  ASSUME NEW S, NEW s \in Seq(S), Len(s) > 0
  PROVE  LET t == SubSeq(s, 1, Len(s) - 1)
         IN  /\ t \in Seq(S)
             /\ Len(t) = Len(s) - 1
             /\ \A i \in 1..(Len(s) - 1) : t[i] = s[i]
<1>1. PICK n \in Nat : Len(s) = n + 1
  <2>1. Len(s) - 1 \in Nat /\ Len(s) = (Len(s) - 1) + 1
    OBVIOUS
  <2> QED
    BY <2>1
<1>2. n = Len(s) - 1 /\ n \in Int
  BY <1>1
<1>3. \A i \in 1..n : s[i] \in S
  BY <1>1
<1>4. SubSeq(s, 1, n) \in Seq(S)
  BY <1>2, <1>3, SubSeqProperties
<1>5. Len(SubSeq(s, 1, n)) = n
  BY <1>1, <1>3, SubSeqProperties
<1>6. \A i \in 1..n : SubSeq(s, 1, n)[i] = s[i]
  BY <1>1
<1> QED
  BY <1>2, <1>4, <1>5, <1>6, Zenon

\* A popped run is the last one; the others keep their place.
LEMMA PoppedFacts ==
  ASSUME stack \in Seq(Places), stack # <<>>
  PROVE  /\ Popped \in Seq(Places)
         /\ Len(Popped) = Len(stack) - 1
         /\ Len(stack) > 0
         /\ \A i \in 1..Len(Popped) : Popped[i] = stack[i]
<1>1. Len(stack) > 0
  BY EmptySeq
<1>2. /\ Popped \in Seq(Places)
      /\ Len(Popped) = Len(stack) - 1
      /\ \A i \in 1..(Len(stack) - 1) : Popped[i] = stack[i]
  BY <1>1, FrontFacts, Zenon DEF Popped
<1> QED
  BY <1>1, <1>2, Zenon

\* Once the variable is written, no run waits for it.
LEMMA WakeFacts ==
  ASSUME NEW s \in Seq(Places)
  PROVE  /\ Wake(s) \in Seq(Places)
         /\ Len(Wake(s)) = Len(s)
         /\ \A i \in 1..Len(s) : Wake(s)[i] \in Places \ Vwaits
<1>1. \A i \in 1..Len(s) : s[i] \in Places
  BY ElementOfSeq
<1>2. \A place \in Places : Woken(place) \in Places \ Vwaits
  BY DEF Woken, Places, Vwaits
<1>3. Wake(s) = [i \in 1..Len(s) |-> Woken(s[i])]
  BY DEF Wake
<1>4. \A i \in 1..Len(s) : Wake(s)[i] \in Places \ Vwaits
  BY <1>1, <1>2, <1>3
<1>5. Len(s) \in Nat /\ Wake(s) \in [1..Len(s) -> Places]
  BY <1>1, <1>2, <1>3
<1> QED
  BY <1>4, <1>5

\* The innermost run changes its place; the others keep theirs.
LEMMA ReplaceFacts ==
  ASSUME NEW s \in Seq(Places), s # <<>>, NEW place \in Places
  PROVE  LET t == [s EXCEPT ![Len(s)] = place]
         IN  /\ t \in Seq(Places)
             /\ Len(t) = Len(s)
             /\ \A i \in 1..Len(t) : t[i] = IF i = Len(s) THEN place ELSE s[i]
<1>1. Len(s) \in 1..Len(s)
  BY EmptySeq
<1> QED
  BY <1>1, ExceptSeq
-----------------------------------------------------------------------------
(***************************************************************************)
(* The parts of processAcquisitionLoop that several waits share.           *)
(***************************************************************************)
\* The end of a chain: one run less, one message more, room for no more chains.
LEMMA ChainEndsInv ==
  ASSUME ThreadInv, stack # <<>>, ChainEnds
  PROVE  ThreadInv'
<1>1. Len(stack) \in Nat /\ stack \in Seq(Places)
  BY DEF ThreadInv, Typed
<1>2. Popped \in Seq(Places) /\ Len(Popped) = Len(stack) - 1 /\ Len(stack) > 0
  BY PoppedFacts, <1>1
<1>3. Typed'
  BY <1>2 DEF ThreadInv, Typed, ChainEnds
<1>4. EveryChainAnswers'
  BY <1>1, <1>2 DEF ThreadInv, Typed, EveryChainAnswers, ChainEnds
<1>5. RoomInv'
  BY <1>1, <1>2, CameraThreadAssumption
  DEF ThreadInv, Typed, RoomInv, Chains, ChainEnds
<1>6. StatusInv'
  BY <1>1, <1>2, PoppedFacts DEF ThreadInv, StatusInv, WaitsForExposure, ChainEnds
<1> QED
  BY <1>3, <1>4, <1>5, <1>6 DEF ThreadInv

\* The image is taken: the chain ends, or its next run is scheduled.
LEMMA ImageTakenInv ==
  ASSUME ThreadInv, stack # <<>>, ImageTaken
  PROVE  ThreadInv'
<1>1. CASE ChainEnds
  BY <1>1, ChainEndsInv
<1>2. CASE Continue
  <2>1. Len(stack) \in Nat /\ stack \in Seq(Places)
    BY DEF ThreadInv, Typed
  <2>2. Popped \in Seq(Places) /\ Len(Popped) = Len(stack) - 1 /\ Len(stack) > 0
    BY PoppedFacts, <2>1
  <2>3. Typed'
    BY <1>2, <2>2 DEF ThreadInv, Typed, Continue
  <2>4. EveryChainAnswers'
    BY <1>2, <2>1, <2>2 DEF ThreadInv, Typed, EveryChainAnswers, Continue
  <2>5. RoomInv'
    BY <1>2, <2>1, <2>2 DEF ThreadInv, Typed, RoomInv, Chains, Continue
  <2>6. StatusInv'
    BY <1>2, <2>1, <2>2, PoppedFacts
    DEF ThreadInv, StatusInv, WaitsForExposure, Continue
  <2> QED
    BY <2>3, <2>4, <2>5, <2>6 DEF ThreadInv
<1> QED
  BY <1>1, <1>2 DEF ImageTaken, Interrupted, Complete, ProcessFails

\* The innermost run goes to wait in a place that the exposure justifies.
LEMMA WaitInInv ==
  ASSUME ThreadInv, stack # <<>>, NEW place \in Vwaits, WaitIn(place), status = place
  PROVE  ThreadInv'
<1>1. stack \in Seq(Places) /\ place \in Places /\ Len(stack) \in Nat
  BY DEF ThreadInv, Typed, Vwaits, Places
<1>2. /\ stack' \in Seq(Places)
      /\ Len(stack') = Len(stack)
  BY <1>1, ReplaceFacts DEF WaitIn
<1>3. Typed' /\ EveryChainAnswers' /\ RoomInv'
  BY <1>2 DEF ThreadInv, Typed, EveryChainAnswers, RoomInv, Chains, WaitIn
<1>4. StatusInv'
  BY DEF ThreadInv, StatusInv, WaitsForExposure, WaitIn
<1> QED
  BY <1>3, <1>4 DEF ThreadInv

\* Every step of the thread keeps the invariant.
LEMMA StepInv ==
  ASSUME ThreadInv, [Next]_vars
  PROVE  ThreadInv'
<1>1. /\ stack \in Seq(Places) /\ Len(stack) \in Nat /\ loops \in Nat
      /\ MaxSessions \in Nat /\ MaxStops \in Nat
  BY CameraThreadAssumption DEF ThreadInv, Typed
<1>2. ASSUME NEW m \in Modes, Start(m)
      PROVE  ThreadInv'
  <2>1. "params" \in Places \ Vwaits
    BY DEF Places, Vwaits
  <2>2. /\ stack' \in Seq(Places)
        /\ Len(stack') = Len(stack) + 1
        /\ \A i \in 1..Len(stack') :
             stack'[i] = IF i <= Len(stack) THEN stack[i] ELSE "params"
    BY <1>1, <1>2, <2>1, PushFacts DEF Start
  <2>3. Typed'
    BY <1>1, <1>2, <2>2 DEF ThreadInv, Typed, Start
  <2>4. EveryChainAnswers'
    <3>1. sessions' = sessions + 1 /\ UNCHANGED <<loops, results>>
      BY <1>2 DEF Start
    <3>2. /\ sessions \in Nat /\ loops \in Nat /\ results \in Nat
          /\ sessions = results + Len(stack) + loops
      BY <1>1 DEF ThreadInv, Typed, EveryChainAnswers
    <3>3. Len(stack') = Len(stack) + 1
      BY <2>2
    <3> QED
      BY <1>1, <3>1, <3>2, <3>3 DEF EveryChainAnswers
  <2>5. RoomInv'
    BY <1>1, <1>2, <2>2 DEF ThreadInv, Typed, RoomInv, Chains, Start, MayStart
  <2>6. StatusInv'
    BY <1>1, <1>2, <2>1, <2>2 DEF ThreadInv, StatusInv, WaitsForExposure, Vwaits, Start
  <2> QED
    BY <2>3, <2>4, <2>5, <2>6 DEF ThreadInv
<1>3. CASE StopAcquisition
  <2>1. /\ stack' \in Seq(Places)
        /\ Len(stack') = Len(stack)
        /\ \A i \in 1..Len(stack) : stack'[i] \in Places \ Vwaits
    BY <1>1, <1>3, WakeFacts DEF StopAcquisition
  <2>2. Typed'
    BY <1>1, <1>3, <2>1 DEF ThreadInv, Typed, StopAcquisition
  <2>3. EveryChainAnswers'
    BY <1>1, <1>3, <2>1 DEF ThreadInv, Typed, EveryChainAnswers, StopAcquisition
  <2>4. RoomInv'
    BY <1>1, <1>3, <2>1 DEF ThreadInv, Typed, RoomInv, Chains, StopAcquisition
  <2>5. StatusInv'
    BY <1>1, <1>3, <2>1
    DEF ThreadInv, StatusInv, WaitsForExposure, Vwaits, StopAcquisition
  <2> QED
    BY <2>2, <2>3, <2>4, <2>5 DEF ThreadInv
<1>4. CASE ExposureEnds
  <2>1. /\ stack' \in Seq(Places)
        /\ Len(stack') = Len(stack)
        /\ \A i \in 1..Len(stack) : stack'[i] \in Places \ Vwaits
    BY <1>1, <1>4, WakeFacts DEF ExposureEnds
  <2>2. Typed' /\ EveryChainAnswers' /\ RoomInv'
    BY <1>4, <2>1
    DEF ThreadInv, Typed, EveryChainAnswers, RoomInv, Chains, ExposureEnds
  <2>3. StatusInv'
    BY <1>1, <1>4, <2>1
    DEF ThreadInv, StatusInv, WaitsForExposure, Vwaits, ExposureEnds
  <2> QED
    BY <2>2, <2>3 DEF ThreadInv
<1>5. CASE LoopTimer
  <2>1. "params" \in Places \ Vwaits
    BY DEF Places, Vwaits
  <2>2. /\ stack' \in Seq(Places)
        /\ Len(stack') = Len(stack) + 1
        /\ \A i \in 1..Len(stack') :
             stack'[i] = IF i <= Len(stack) THEN stack[i] ELSE "params"
    BY <1>1, <1>5, <2>1, PushFacts DEF LoopTimer
  <2>3. Typed' /\ EveryChainAnswers' /\ RoomInv'
    BY <1>1, <1>5, <2>2
    DEF ThreadInv, Typed, EveryChainAnswers, RoomInv, Chains, LoopTimer
  <2>4. StatusInv'
    BY <1>1, <1>5, <2>1, <2>2
    DEF ThreadInv, StatusInv, WaitsForExposure, Vwaits, LoopTimer
  <2> QED
    BY <2>3, <2>4 DEF ThreadInv
<1>6. CASE AcqFails
  BY <1>6, ChainEndsInv DEF AcqFails
<1>7. CASE AcqStarts
  <2>1. /\ Wake(stack) \in Seq(Places)
        /\ Len(Wake(stack)) = Len(stack)
        /\ Wake(stack) # <<>>
        /\ \A i \in 1..Len(stack) : Wake(stack)[i] \notin Vwaits
    BY <1>1, <1>7, WakeFacts, EmptySeq DEF AcqStarts
  <2>2. "update" \in Places \ Vwaits
    BY DEF Places, Vwaits
  <2>3. /\ stack' \in Seq(Places)
        /\ Len(stack') = Len(stack)
        /\ \A i \in 1..Len(stack') :
             stack'[i] = IF i = Len(stack) THEN "update" ELSE Wake(stack)[i]
    BY <1>7, <2>1, <2>2, ReplaceFacts DEF AcqStarts
  <2>4. Typed' /\ EveryChainAnswers' /\ RoomInv'
    BY <1>7, <2>3
    DEF ThreadInv, Typed, EveryChainAnswers, RoomInv, Chains, AcqStarts
  <2>5. \A i \in DOMAIN stack' : stack'[i] \notin Vwaits
    BY <2>1, <2>2, <2>3
  <2>6. StatusInv'
    BY <1>7, <2>5 DEF ThreadInv, StatusInv, WaitsForExposure, Vwaits, AcqStarts
  <2> QED
    BY <2>4, <2>6 DEF ThreadInv
<1>8. CASE UpdateReturns
  <2>1. CASE status = "exp" /\ WaitIn("exp")
    BY <1>8, <2>1, WaitInInv DEF UpdateReturns, Vwaits, ThreadInv, StatusInv
  <2>2. CASE status = "read" /\ WaitIn("read")
    BY <1>8, <2>2, WaitInInv DEF UpdateReturns, Vwaits, ThreadInv, StatusInv
  <2>3. CASE ImageTaken
    BY <1>8, <2>3, ImageTakenInv DEF UpdateReturns
  <2> QED
    BY <1>8, <2>1, <2>2, <2>3 DEF UpdateReturns
<1>9. CASE ExpReturns
  <2>1. CASE status = "read" /\ WaitIn("read")
    BY <1>9, <2>1, WaitInInv DEF ExpReturns, Vwaits, ThreadInv, StatusInv
  <2>2. CASE ImageTaken
    BY <1>9, <2>2, ImageTakenInv DEF ExpReturns
  <2> QED
    BY <1>9, <2>1, <2>2 DEF ExpReturns
<1>10. CASE ReadReturns
  BY <1>10, ImageTakenInv DEF ReadReturns
<1>11. CASE UNCHANGED vars
  BY <1>11
  DEF ThreadInv, Typed, EveryChainAnswers, RoomInv, Chains, StatusInv,
      WaitsForExposure, vars
<1>12. ASSUME NEW m \in Modes, StartFails(m)
       PROVE  ThreadInv'
  BY <1>1, <1>12
  DEF ThreadInv, Typed, EveryChainAnswers, RoomInv, Chains, StatusInv,
      WaitsForExposure, StartFails
<1> QED
  BY <1>2, <1>3, <1>4, <1>5, <1>6, <1>7, <1>8, <1>9, <1>10, <1>11, <1>12
  DEF Next, Resume
-----------------------------------------------------------------------------
(***************************************************************************)
(* The theorems.                                                           *)
(***************************************************************************)
\* The invariant holds in every reachable state of the thread.
THEOREM ThreadInvariant == Spec => []ThreadInv
<1>1. Init => ThreadInv
  <2> SUFFICES ASSUME Init PROVE ThreadInv
    OBVIOUS
  <2>1. stack = <<>> /\ stack \in Seq(Places) /\ Len(stack) = 0
    BY EmptySeq DEF Init
  <2>2. Typed /\ EveryChainAnswers /\ RoomInv
    BY <2>1, CameraThreadAssumption
    DEF Init, Typed, EveryChainAnswers, RoomInv, Chains
  <2>3. StatusInv
    BY <2>1 DEF Init, StatusInv, WaitsForExposure
  <2> QED
    BY <2>2, <2>3 DEF ThreadInv
<1>2. ThreadInv /\ [Next]_vars => ThreadInv'
  BY StepInv
<1> QED
  BY <1>1, <1>2, PTL DEF Spec

\* Each session begun by the thread of the camera is under way or has sent exactly
\* one final message, whatever is stopped, nested or failing (the handler
\* processAcquisitionLoop and its catch).
THEOREM EachSessionAnswers == Spec => []EveryChainAnswers
<1>1. ThreadInv => EveryChainAnswers
  BY DEF ThreadInv
<1> QED
  BY <1>1, ThreadInvariant, PTL

\* Chains of runs overlap only after a stop or a session that does not test whether
\* the camera is busy: their number is bounded.
THEOREM BoundOnChains == Spec => []ChainsBounded
<1>1. ThreadInv => ChainsBounded
  BY CameraThreadAssumption
  DEF ThreadInv, Typed, RoomInv, Chains, ChainsBounded
<1> QED
  BY <1>1, ThreadInvariant, PTL

\* A run of processAcquisitionLoop in vwait for the end of an exposure waits for an
\* exposure under way, whose end will wake it; only a driver that drops exposures
\* makes it wait for the end of the read.
THEOREM NoLostWakeup == Spec => []WaitsForExposure
<1>1. ThreadInv => WaitsForExposure
  BY DEF ThreadInv, StatusInv
<1> QED
  BY <1>1, ThreadInvariant, PTL

\* The types that the steps above do not need.
CameraTyped ==
  /\ drops \in Drivers
  /\ mode \in Modes
  /\ status \in {"stand", "exp", "read"}
  /\ exposing \in BOOLEAN

\* What a step writes in the mode, the status and the exposure.
LEMMA CameraTypesKept == CameraTyped /\ [Next]_vars => CameraTyped'
<1> SUFFICES ASSUME CameraTyped, [Next]_vars PROVE CameraTyped'
  OBVIOUS
<1> USE DEF CameraTyped
<1>1. ASSUME NEW m \in Modes, Start(m) \/ StartFails(m) PROVE CameraTyped'
  BY <1>1 DEF Start, StartFails
<1>2. CASE StopAcquisition
  BY <1>2 DEF StopAcquisition
<1>3. CASE ExposureEnds
  BY <1>3 DEF ExposureEnds
<1>4. CASE LoopTimer
  BY <1>4 DEF LoopTimer
<1>5. ASSUME ImageTaken PROVE CameraTyped'
  BY <1>5 DEF ImageTaken, Interrupted, Continue, Complete, ProcessFails, ChainEnds
<1>6. ASSUME NEW place, WaitIn(place) PROVE CameraTyped'
  BY <1>6 DEF WaitIn
<1>7. CASE AcqFails
  BY <1>7 DEF AcqFails, ChainEnds
<1>8. CASE AcqStarts
  BY <1>8 DEF AcqStarts
<1>9. CASE UpdateReturns \/ ExpReturns \/ ReadReturns
  BY <1>5, <1>6, <1>9 DEF UpdateReturns, ExpReturns, ReadReturns
<1>10. CASE UNCHANGED vars
  BY <1>10 DEF vars
<1> QED
  BY <1>1, <1>2, <1>3, <1>4, <1>7, <1>8, <1>9, <1>10 DEF Next, Resume

\* Every variable keeps to its values, and no more runs are scheduled than sessions
\* were begun: the runs under way and the final messages account for the sessions.
THEOREM ThreadTypes == Spec => []TypeOK
<1>1. Init => CameraTyped
  BY DEF Init, CameraTyped
<1>2. ThreadInv /\ CameraTyped => TypeOK
  <2> SUFFICES ASSUME ThreadInv, CameraTyped PROVE TypeOK
    OBVIOUS
  <2>1. Typed /\ EveryChainAnswers
    BY DEF ThreadInv
  <2>2. Len(stack) \in Nat
    BY <2>1 DEF Typed
  <2>3. loops \in 0..MaxSessions
    BY <2>1, <2>2, CameraThreadAssumption DEF Typed, EveryChainAnswers
  <2> QED
    BY <2>1, <2>3 DEF Typed, CameraTyped, TypeOK
<1> QED
  BY <1>1, <1>2, CameraTypesKept, ThreadInvariant, PTL DEF Spec
-----------------------------------------------------------------------------
(***************************************************************************)
(* What a stop leaves under way.                                           *)
(***************************************************************************)
LEMMA BeforeAcqFinite ==
  ASSUME Typed
  PROVE  /\ BeforeAcq \subseteq 1..Len(stack)
         /\ IsFiniteSet(BeforeAcq)
         /\ Cardinality(BeforeAcq) \in Nat
<1>1. stack \in Seq(Places) /\ Len(stack) \in Nat /\ DOMAIN stack = 1..Len(stack)
  BY DEF Typed
<1>2. IsFiniteSet(1..Len(stack))
  BY <1>1, FS_Interval
<1>3. BeforeAcq \subseteq 1..Len(stack)
  BY <1>1 DEF BeforeAcq
<1>4. IsFiniteSet(BeforeAcq)
  BY <1>2, <1>3, FS_Subset
<1> QED
  BY <1>3, <1>4, FS_CardinalityType

\* What a step may do to the runs that have an exposure before them.
LEMMA NoneAdded ==
  ASSUME Typed, loops' = loops, BeforeAcq' \subseteq BeforeAcq
  PROVE  Pending' <= Pending
<1>1. IsFiniteSet(BeforeAcq) /\ Cardinality(BeforeAcq) \in Nat
  BY BeforeAcqFinite
<1>2. IsFiniteSet(BeforeAcq') /\ Cardinality(BeforeAcq') <= Cardinality(BeforeAcq)
  BY <1>1, FS_Subset
<1>3. Cardinality(BeforeAcq') \in Nat
  BY <1>2, FS_CardinalityType
<1>4. loops \in Nat
  BY DEF Typed
<1> QED
  BY <1>1, <1>2, <1>3, <1>4 DEF Pending

\* The innermost run returns, or waits elsewhere than in the update before "acq".
LEMMA TopLeaves ==
  ASSUME Typed, stack # <<>>,
         stack' = Popped \/ \E place \in {"exp", "read"} :
                              stack' = [stack EXCEPT ![Len(stack)] = place]
  PROVE  BeforeAcq' \subseteq BeforeAcq
<1>1. stack \in Seq(Places) /\ DOMAIN stack = 1..Len(stack) /\ Len(stack) \in Nat
  BY DEF Typed
<1>2. CASE stack' = Popped
  <2>1. /\ Popped \in Seq(Places) /\ Len(Popped) = Len(stack) - 1
        /\ \A i \in 1..Len(Popped) : Popped[i] = stack[i]
    BY <1>1, PoppedFacts
  <2>2. DOMAIN stack' = 1..(Len(stack) - 1)
    BY <1>2, <2>1
  <2> QED
    BY <1>1, <1>2, <2>1, <2>2 DEF BeforeAcq
<1>3. ASSUME NEW place \in {"exp", "read"}, stack' = [stack EXCEPT ![Len(stack)] = place]
      PROVE  BeforeAcq' \subseteq BeforeAcq
  BY <1>1, <1>3 DEF BeforeAcq
<1> QED
  BY <1>2, <1>3

\* Runs woken were past "acq".
LEMMA WakeBeforeAcq ==
  ASSUME NEW s \in Seq(Places)
  PROVE  /\ Wake(s) \in Seq(Places) /\ Len(Wake(s)) = Len(s)
         /\ \A i \in 1..Len(s) : Wake(s)[i] = "params" <=> s[i] = "params"
<1>1. \A i \in 1..Len(s) : Wake(s)[i] = Woken(s[i])
  BY DEF Wake
<1>2. \A place \in Places : Woken(place) = "params" <=> place = "params"
  BY DEF Woken, Places
<1>3. \A i \in 1..Len(s) : s[i] \in Places
  BY ElementOfSeq
<1> QED
  BY <1>1, <1>2, <1>3, WakeFacts

\* A session that nobody wants any more does not go on.
LEMMA ImageTakenLeaves ==
  ASSUME Typed, stack # <<>>, ImageTaken, acquisitionState = 0
  PROVE  Pending' <= Pending /\ exposing' = exposing
<1>1. ChainEnds
  BY DEF ImageTaken, Interrupted, Continue, Complete, ProcessFails
<1>2. stack' = Popped /\ UNCHANGED <<loops, exposing>>
  BY <1>1 DEF ChainEnds
<1> QED
  BY <1>2, TopLeaves, NoneAdded

LEMMA WaitInLeaves ==
  ASSUME Typed, stack # <<>>, NEW place \in {"exp", "read"}, WaitIn(place)
  PROVE  Pending' <= Pending /\ exposing' = exposing
<1>1. stack' = [stack EXCEPT ![Len(stack)] = place] /\ UNCHANGED <<loops, exposing>>
  BY DEF WaitIn
<1> QED
  BY <1>1, TopLeaves, NoneAdded

\* The exposure that begins is that of the innermost run.
LEMMA AcqStartsUsesUp ==
  ASSUME Typed, AcqStarts
  PROVE  Pending' < Pending /\ Pending' <= Pending
<1> DEFINE n == Len(stack)
           w == Wake(stack)
<1>1. stack \in Seq(Places) /\ DOMAIN stack = 1..n /\ n \in Nat /\ loops \in Nat
  BY DEF Typed
<1>2. stack # <<>> /\ stack[n] = "params" /\ loops' = loops
  BY DEF AcqStarts, Top
<1>3. n \in 1..n
  BY <1>1, <1>2, EmptySeq
<1>4. stack' = [w EXCEPT ![n] = "update"]
  BY DEF AcqStarts
<1>5. w \in Seq(Places) /\ Len(w) = n /\ \A i \in 1..n : w[i] = "params" <=> stack[i] = "params"
  BY <1>1, WakeBeforeAcq
<1> HIDE DEF n, w
<1>6. /\ DOMAIN stack' = 1..n
      /\ \A i \in 1..n : stack'[i] = IF i = n THEN "update" ELSE w[i]
  BY <1>1, <1>3, <1>4, <1>5
<1>7. BeforeAcq' = BeforeAcq \ {n} /\ n \in BeforeAcq
  BY <1>1, <1>2, <1>3, <1>5, <1>6 DEF BeforeAcq
<1>8. IsFiniteSet(BeforeAcq) /\ Cardinality(BeforeAcq) \in Nat
  BY BeforeAcqFinite
<1>9. Cardinality(BeforeAcq') = Cardinality(BeforeAcq) - 1
  BY <1>7, <1>8, FS_RemoveElement
<1> QED
  BY <1>1, <1>2, <1>8, <1>9 DEF Pending

\* A run scheduled begins: it has its exposure before it, as it had.
LEMMA LoopTimerKeeps ==
  ASSUME Typed, LoopTimer
  PROVE  Pending' = Pending
<1> DEFINE n == Len(stack)
<1>1. stack \in Seq(Places) /\ DOMAIN stack = 1..n /\ n \in Nat /\ loops \in Nat
  BY DEF Typed
<1>2. stack' = Push("params") /\ loops' = loops - 1
  BY DEF LoopTimer
<1>3. "params" \in Places
  BY DEF Places
<1>4. /\ stack' \in Seq(Places) /\ Len(stack') = n + 1
      /\ \A i \in 1..(n + 1) : stack'[i] = IF i <= n THEN stack[i] ELSE "params"
  BY <1>1, <1>2, <1>3, PushFacts
<1> HIDE DEF n
<1>5. DOMAIN stack' = 1..(n + 1)
  BY <1>4
<1>6. BeforeAcq' = BeforeAcq \cup {n + 1} /\ n + 1 \notin BeforeAcq
  BY <1>1, <1>4, <1>5 DEF BeforeAcq
<1>7. IsFiniteSet(BeforeAcq) /\ Cardinality(BeforeAcq) \in Nat
  BY BeforeAcqFinite
<1>8. Cardinality(BeforeAcq') = Cardinality(BeforeAcq) + 1
  BY <1>6, <1>7, FS_AddElement
<1> QED
  BY <1>1, <1>2, <1>7, <1>8 DEF Pending

\* The exposures that begin after a stop are counted: one more at most for each chain
\* that it left scheduled or before its "acq".
THEOREM ExposuresAfterStop == Spec => OneMoreEach
<1>1. ThreadInv /\ [Next]_vars =>
        [acquisitionState = 0 /\ acquisitionState' = 0 =>
           /\ Pending' <= Pending
           /\ ~exposing /\ exposing' => Pending' < Pending]_vars
  <2> SUFFICES ASSUME ThreadInv, Next, acquisitionState = 0, acquisitionState' = 0
               PROVE  Pending' <= Pending /\ (~exposing /\ exposing' => Pending' < Pending)
    OBVIOUS
  <2>0. Typed /\ stack \in Seq(Places) /\ Len(stack) \in Nat /\ DOMAIN stack = 1..Len(stack)
    BY DEF ThreadInv, Typed
  <2>1. ASSUME NEW m \in Modes, Start(m) \/ StartFails(m) PROVE FALSE
    BY <2>1 DEF Start, StartFails
  <2>2. CASE StopAcquisition \/ ExposureEnds
    <3>1. stack' = Wake(stack) /\ loops' = loops /\ exposing' = FALSE
      BY <2>2 DEF StopAcquisition, ExposureEnds
    <3>2. DOMAIN stack' = 1..Len(stack)
      BY <2>0, <3>1, WakeBeforeAcq
    <3>3. BeforeAcq' \subseteq BeforeAcq
      BY <2>0, <3>1, <3>2, WakeBeforeAcq DEF BeforeAcq
    <3> QED
      BY <2>0, <3>1, <3>3, NoneAdded
  <2>3. CASE LoopTimer
    <3>1. exposing' = exposing
      BY <2>3 DEF LoopTimer
    <3>2. Pending \in Nat
      BY <2>0, BeforeAcqFinite DEF Typed, Pending
    <3> QED
      BY <2>0, <2>3, <3>1, <3>2, LoopTimerKeeps
  <2>4. CASE AcqStarts
    BY <2>0, <2>4, AcqStartsUsesUp
  <2>5. CASE AcqFails
    <3>1. stack # <<>> /\ stack' = Popped /\ UNCHANGED <<loops, exposing>>
      BY <2>5 DEF AcqFails, ChainEnds
    <3> QED
      BY <2>0, <3>1, TopLeaves, NoneAdded
  <2>6. CASE UpdateReturns \/ ExpReturns \/ ReadReturns
    <3>1. stack # <<>> /\ (ImageTaken \/ WaitIn("exp") \/ WaitIn("read"))
      BY <2>6 DEF UpdateReturns, ExpReturns, ReadReturns
    <3> QED
      BY <2>0, <3>1, ImageTakenLeaves, WaitInLeaves
  <2> QED
    BY <2>1, <2>2, <2>3, <2>4, <2>5, <2>6 DEF Next, Resume
<1> QED
  BY <1>1, ThreadInvariant, PTL DEF Spec, OneMoreEach
-----------------------------------------------------------------------------
(***************************************************************************)
(* The camera of the sessions is one libcam implements: see                *)
(* ImplementsContract in CamAcq_proofs.                                    *)
(***************************************************************************)
\* Whatever the sessions do with the camera, however they are nested and stopped, is
\* what StatusCam allows: they rely on no other order of ::status_cam than libcam's.
THEOREM CameraAsShown == Spec => Camera!Spec
<1>1. Init => Camera!Init
  BY CameraThreadAssumption DEF Init, Camera!Init
<1>2. CameraTyped /\ [Next]_vars => [Camera!Next]_(Camera!shown)
  <2> SUFFICES ASSUME CameraTyped, [Next]_vars
               PROVE  Camera!Next \/ UNCHANGED <<drops, exposing, status>>
    BY DEF Camera!shown
  <2>1. ASSUME NEW m \in Modes, Start(m) \/ StartFails(m)
        PROVE  UNCHANGED <<drops, exposing, status>>
    BY <2>1 DEF Start, StartFails
  <2>2. CASE StopAcquisition
    <3>1. /\ exposing' = FALSE /\ drops' = drops
          /\ status' = IF exposing /\ drops THEN "read" ELSE "stand"
      BY <2>2 DEF StopAcquisition
    <3>2. exposing => Camera!ExposureIsRead \/ Camera!ExposureIsDropped
      BY <3>1 DEF Camera!ExposureIsRead, Camera!ExposureIsDropped
    <3>3. ~exposing => Camera!StopsNothing
      BY <3>1 DEF CameraTyped, Camera!StopsNothing
    <3> QED
      BY <3>2, <3>3 DEF Camera!Next
  <2>3. CASE ExposureEnds
    BY <2>3 DEF ExposureEnds, Camera!Next, Camera!ExposureIsRead
  <2>4. CASE LoopTimer
    BY <2>4 DEF LoopTimer
  <2>5. ASSUME ImageTaken PROVE UNCHANGED <<drops, exposing, status>>
    BY <2>5 DEF ImageTaken, Interrupted, Continue, Complete, ProcessFails, ChainEnds
  <2>6. ASSUME NEW place, WaitIn(place) PROVE UNCHANGED <<drops, exposing, status>>
    BY <2>6 DEF WaitIn
  <2>7. CASE AcqFails
    BY <2>7 DEF AcqFails, ChainEnds
  <2>8. CASE AcqStarts
    BY <2>8 DEF AcqStarts, Camera!Next, Camera!ExposureBegins
  <2>9. CASE UpdateReturns \/ ExpReturns \/ ReadReturns
    BY <2>5, <2>6, <2>9 DEF UpdateReturns, ExpReturns, ReadReturns
  <2>10. CASE UNCHANGED vars
    BY <2>10 DEF vars
  <2> QED
    BY <2>1, <2>2, <2>3, <2>4, <2>7, <2>8, <2>9, <2>10 DEF Next, Resume
<1>3. Init => CameraTyped
  BY DEF Init, CameraTyped
<1> QED
  BY <1>1, <1>2, <1>3, CameraTypesKept, PTL DEF Spec, Camera!Spec
=============================================================================
