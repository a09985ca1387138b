------------------------- MODULE CCameraAcq_proofs -------------------------
(***************************************************************************)
(* The acquisitions of CCamera, for any number of them and any overlap.    *)
(*                                                                         *)
(* All follows from where the last status came from: "read" from the       *)
(* reader that holds the mutex, "exp" from the last acquisition, whose     *)
(* reader has not reported yet; and, for a program that waits for "stand", *)
(* from the fact that only the reader of the last acquisition is at work.  *)
(***************************************************************************)
EXTENDS CCameraAcq, TLAPS

\* A reader that has not reported the end of its acquisition.
Busy == {"launched", "waiting", "notified", "reading", "finishing"}

ReaderStates == {"none", "launched", "waiting", "notified", "unlocked", "ended"} \cup Holding

\* The acquisitions launched are those started, but for the one acq() deals with.
LaunchInv ==
  /\ \A i \in Acqs : reader[i] # "none" => i <= count
  /\ \A i \in Acqs : i <= count /\ reader[i] = "none" => i = count /\ Acquiring
  /\ Acquiring => count \in Acqs /\ reader[count] = "none"

StatusInv ==
  /\ status = "read" => \E i \in Acqs : reader[i] \in {"reading", "finishing"} /\ mutex = i
  /\ status = "exp" => count \in Acqs /\ (Acquiring \/ reader[count] \in Busy)

\* What a program that waits for "stand" may count on.
PoliteInv ==
  polite =>
    /\ \A i \in Acqs : reader[i] \in Busy => i = count
    /\ steps = <<"report", "launch">> => status = "stand"
    /\ steps = <<"launch">> => status = "exp"
    /\ count \in Acqs /\ reader[count] \in {"launched", "waiting", "notified"} => status = "exp"
    /\ count \in Acqs /\ reader[count] = "reading" => status = "read"
    /\ count \in Acqs /\ reader[count] = "finishing" => status \in {"exp", "read"}
    /\ \A i \in Acqs : image[i] \in {0, i} /\ wokenBy[i] <= i

WokenInv ==
  /\ \A i \in Acqs : reader[i] = "notified" => wokenBy[i] # 0
  /\ \A i \in Acqs :
       reader[i] \in {"finishing", "reported", "unlocked", "ended"} /\ image[i] = 0 /\ i \notin failed
       => wokenBy[i] # 0

CameraInv == TypeOK /\ LaunchInv /\ StatusInv /\ PoliteInv /\ WokenInv

LEMMA AcqRange == \A i : i \in Acqs <=> i \in Nat /\ 1 <= i /\ i <= MaxAcq
  BY CCameraAssumption DEF Acqs

LEMMA StepCases ==
  ASSUME TypeOK
  PROVE  /\ Acquiring <=> steps = <<"report", "launch">> \/ steps = <<"launch">>
         /\ Does("report") => steps = <<"report", "launch">> /\ steps' = <<"launch">>
         /\ Does("launch") => steps = <<"launch">> /\ steps' = <<>>
         /\ Does("notify") => steps = <<"notify">> /\ steps' = <<>>
<1>1. CASE steps = <<>>
  BY <1>1 DEF Acquiring, Does
<1>2. CASE steps = <<"report", "launch">>
  BY <1>2 DEF Acquiring, Does
<1>3. CASE steps = <<"launch">>
  BY <1>3 DEF Acquiring, Does
<1>4. CASE steps = <<"notify">>
  BY <1>4 DEF Acquiring, Does
<1> QED
  BY <1>1, <1>2, <1>3, <1>4 DEF TypeOK

LEMMA InitCamera == Init => CameraInv
<1> SUFFICES ASSUME Init PROVE CameraInv
  OBVIOUS
<1>1. TypeOK
  BY AcqRange, CCameraAssumption DEF Init, TypeOK, Holding
<1>2. LaunchInv /\ StatusInv
  BY <1>1, AcqRange DEF Init, LaunchInv, StatusInv, Acquiring, TypeOK
<1>3. PoliteInv
  <2>1. count \notin Acqs /\ steps # <<"report", "launch">> /\ steps # <<"launch">>
    BY AcqRange DEF Init
  <2>2. \A i \in Acqs : reader[i] \notin Busy /\ image[i] \in {0, i} /\ wokenBy[i] <= i
    BY AcqRange DEF Init, Busy
  <2> QED
    BY <2>1, <2>2 DEF PoliteInv
<1>4. WokenInv
  BY DEF Init, WokenInv
<1> QED
  BY <1>1, <1>2, <1>3, <1>4 DEF CameraInv

LEMMA AcqStep == ASSUME CameraInv, Acq PROVE CameraInv'
<1>1. /\ steps = <<>> /\ steps' = <<"report", "launch">> /\ count' = count + 1 /\ exposure' = count'
      /\ count < MaxAcq /\ polite' = (polite /\ status = "stand")
      /\ UNCHANGED <<reader, mutex, status, image, failed, wokenBy>>
  BY DEF Acq, AcqSteps, outcome
<1>2. count \in 0..MaxAcq /\ count \in Nat /\ count' \in Acqs
  <2>1. count \in 0..MaxAcq
    BY DEF CameraInv, TypeOK
  <2>2. count \in Nat /\ count + 1 \in Nat /\ 1 <= count + 1 /\ count + 1 <= MaxAcq
    BY <1>1, <2>1, CCameraAssumption
  <2> QED
    BY <1>1, <2>1, <2>2, AcqRange
<1>3. ~Acquiring /\ Acquiring'
  BY <1>1 DEF Acquiring
<1>4. reader'[count'] = "none"
  BY <1>1, <1>2 DEF CameraInv, TypeOK, LaunchInv
<1>5. TypeOK'
  BY <1>1, <1>2, AcqRange DEF CameraInv, TypeOK
<1>6. LaunchInv'
  BY <1>1, <1>2, <1>3, <1>4, AcqRange DEF CameraInv, LaunchInv
<1>7. StatusInv'
  BY <1>1, <1>2, <1>3 DEF CameraInv, StatusInv
<1>8. PoliteInv'
  <2> SUFFICES ASSUME polite, status = "stand" PROVE PoliteInv'
    BY <1>1 DEF PoliteInv
  <2>1. \A i \in Acqs : reader[i] \notin Busy
    <3> SUFFICES ASSUME NEW i \in Acqs, reader[i] \in Busy PROVE FALSE
      OBVIOUS
    <3>1. i = count
      BY DEF CameraInv, PoliteInv
    <3> QED
      BY <3>1 DEF CameraInv, PoliteInv, Busy
  <2> QED
    BY <1>1, <1>2, <1>4, <2>1 DEF CameraInv, PoliteInv, Busy
<1>9. WokenInv'
  BY <1>1 DEF CameraInv, WokenInv
<1> QED
  BY <1>5, <1>6, <1>7, <1>8, <1>9 DEF CameraInv

LEMMA ReportExpStep == ASSUME CameraInv, ReportExp PROVE CameraInv'
<1>1. /\ steps = <<"report", "launch">> /\ steps' = <<"launch">> /\ status' = "exp"
      /\ UNCHANGED <<count, exposure, polite, reader, mutex, image, failed, wokenBy>>
  BY StepCases DEF ReportExp, outcome, CameraInv
<1>2. Acquiring /\ Acquiring'
  BY <1>1 DEF Acquiring
<1>3. count \in Acqs /\ reader[count] = "none"
  BY <1>2 DEF CameraInv, LaunchInv
<1>4. TypeOK' /\ LaunchInv' /\ StatusInv' /\ WokenInv'
  BY <1>1, <1>2, <1>3 DEF CameraInv, TypeOK, LaunchInv, StatusInv, WokenInv
<1>5. PoliteInv'
  BY <1>1, <1>3 DEF CameraInv, PoliteInv, Busy
<1> QED
  BY <1>4, <1>5 DEF CameraInv

LEMMA LaunchStep == ASSUME CameraInv, Launch PROVE CameraInv'
<1>1. /\ steps = <<"launch">> /\ steps' = <<>> /\ reader' = [reader EXCEPT ![count] = "launched"]
      /\ UNCHANGED <<count, exposure, polite, status, mutex, image, failed, wokenBy>>
  BY StepCases DEF Launch, outcome, CameraInv
<1>2. Acquiring /\ ~Acquiring'
  BY <1>1 DEF Acquiring
<1>3. count \in Acqs /\ reader[count] = "none"
  BY <1>2 DEF CameraInv, LaunchInv
<1>4. reader'[count] = "launched" /\ \A i \in Acqs : i # count => reader'[i] = reader[i]
  BY <1>1, <1>3 DEF CameraInv, TypeOK
<1>5. TypeOK'
  BY <1>1, <1>3, <1>4 DEF CameraInv, TypeOK, Holding
<1>6. LaunchInv' /\ StatusInv' /\ WokenInv'
  BY <1>1, <1>2, <1>3, <1>4, AcqRange DEF CameraInv, LaunchInv, StatusInv, WokenInv, Busy
<1>7. PoliteInv'
  BY <1>1, <1>3, <1>4 DEF CameraInv, PoliteInv, Busy
<1> QED
  BY <1>5, <1>6, <1>7 DEF CameraInv

LEMMA StopStep == ASSUME CameraInv, StopExposure PROVE CameraInv'
<1>1. /\ steps = <<>> /\ steps' = <<"notify">>
      /\ UNCHANGED <<count, exposure, polite, reader, mutex, status, image, failed, wokenBy>>
  BY DEF StopExposure, outcome
<1>2. ~Acquiring /\ ~Acquiring'
  BY <1>1 DEF Acquiring
<1>3. TypeOK' /\ LaunchInv' /\ StatusInv' /\ WokenInv'
  BY <1>1, <1>2 DEF CameraInv, TypeOK, LaunchInv, StatusInv, WokenInv
<1>4. PoliteInv'
  BY <1>1 DEF CameraInv, PoliteInv
<1> QED
  BY <1>3, <1>4 DEF CameraInv

\* What NotifyAll does to the readers, with the reader or the stop it is due to.
LEMMA NotifyFacts ==
  ASSUME CameraInv, NEW by, \A i \in Acqs : by[i] \in Acqs,
         NotifyAll(by)
  PROVE  /\ wokenBy' \in [Acqs -> 0..MaxAcq]
         /\ \A i \in Acqs : wokenBy'[i] = IF reader[i] = "waiting" THEN by[i] ELSE wokenBy[i]
         /\ DOMAIN Notified(reader) = Acqs /\ Notified(reader) \in [Acqs -> ReaderStates]
         /\ \A i \in Acqs :
              Notified(reader)[i] = IF reader[i] = "waiting" THEN "notified" ELSE reader[i]
<1>1. \A i \in Acqs : by[i] \in 0..MaxAcq
  BY AcqRange, CCameraAssumption
<1> QED
  BY <1>1 DEF CameraInv, TypeOK, NotifyAll, Notified, ReaderStates, Holding

LEMMA NotifyStopStep == ASSUME CameraInv, NotifyStop PROVE CameraInv'
<1> DEFINE by == [i \in Acqs |-> i]
<1>1. /\ steps = <<"notify">> /\ steps' = <<>> /\ NotifyAll(by) /\ reader' = Notified(reader)
      /\ UNCHANGED <<count, exposure, polite, mutex, status, image, failed>>
  BY StepCases DEF NotifyStop, outcome, CameraInv
<1>2. \A i \in Acqs : by[i] = i
  OBVIOUS
<1> HIDE DEF by
<1>3. /\ wokenBy' \in [Acqs -> 0..MaxAcq] /\ reader' \in [Acqs -> ReaderStates]
      /\ \A i \in Acqs :
           /\ wokenBy'[i] = IF reader[i] = "waiting" THEN i ELSE wokenBy[i]
           /\ reader'[i] = IF reader[i] = "waiting" THEN "notified" ELSE reader[i]
  BY <1>1, <1>2, NotifyFacts
<1>4. ~Acquiring /\ ~Acquiring'
  BY <1>1 DEF Acquiring
<1>5. TypeOK'
  BY <1>1, <1>3 DEF CameraInv, TypeOK, ReaderStates, Holding
<1>6. LaunchInv'
  BY <1>1, <1>3, <1>4 DEF CameraInv, LaunchInv
<1>7. StatusInv'
  <2>1. ASSUME status = "read" PROVE \E i \in Acqs : reader'[i] \in {"reading", "finishing"} /\ mutex = i
    <3>1. PICK i \in Acqs : reader[i] \in {"reading", "finishing"} /\ mutex = i
      BY <2>1 DEF CameraInv, StatusInv
    <3> QED
      BY <1>3, <3>1
  <2> QED
    BY <1>1, <1>3, <1>4, <2>1 DEF CameraInv, StatusInv, Busy
<1>8. PoliteInv'
  <2>1. \A i \in Acqs : i <= i
    BY AcqRange
  <2> QED
    BY <1>1, <1>3, <2>1 DEF CameraInv, PoliteInv, Busy
<1>9. WokenInv'
  <2>1. \A i \in Acqs : i # 0
    BY AcqRange
  <2> QED
    BY <1>1, <1>3, <2>1 DEF CameraInv, WokenInv
<1> QED
  BY <1>5, <1>6, <1>7, <1>8, <1>9 DEF CameraInv

LEMMA NotifyEndStep == ASSUME CameraInv, NEW k \in Acqs, NotifyEnd(k) PROVE CameraInv'
<1> DEFINE by == [j \in Acqs |-> k]
<1>1. /\ reader[k] = "unlocked" /\ NotifyAll(by) /\ reader' = [Notified(reader) EXCEPT ![k] = "ended"]
      /\ UNCHANGED <<count, steps, exposure, polite, mutex, status, image, failed>>
  BY DEF NotifyEnd, outcome, caller
<1>2. \A i \in Acqs : by[i] = k
  OBVIOUS
<1> HIDE DEF by
<1>3. /\ wokenBy' \in [Acqs -> 0..MaxAcq] /\ reader' \in [Acqs -> ReaderStates]
      /\ \A i \in Acqs :
           /\ wokenBy'[i] = IF reader[i] = "waiting" THEN k ELSE wokenBy[i]
           /\ reader'[i] = IF i = k THEN "ended"
                           ELSE IF reader[i] = "waiting" THEN "notified" ELSE reader[i]
  BY <1>1, <1>2, NotifyFacts DEF ReaderStates
<1>4. Acquiring' = Acquiring /\ k <= count
  BY <1>1 DEF Acquiring, CameraInv, LaunchInv
<1>5. TypeOK'
  BY <1>1, <1>3 DEF CameraInv, TypeOK, ReaderStates, Holding
<1>6. LaunchInv'
  BY <1>1, <1>3, <1>4 DEF CameraInv, LaunchInv
<1>7. StatusInv'
  <2>1. ASSUME status = "read" PROVE \E i \in Acqs : reader'[i] \in {"reading", "finishing"} /\ mutex = i
    <3>1. PICK i \in Acqs : reader[i] \in {"reading", "finishing"} /\ mutex = i
      BY <2>1 DEF CameraInv, StatusInv
    <3> QED
      BY <1>1, <1>3, <3>1
  <2> QED
    BY <1>1, <1>3, <1>4, <2>1 DEF CameraInv, StatusInv, Busy
<1>8. PoliteInv'
  <2>1. \A i \in Acqs : reader'[i] \in Busy => reader[i] \in Busy /\ i # k
    BY <1>1, <1>3 DEF Busy
  <2>2. ASSUME polite, NEW i \in Acqs PROVE wokenBy'[i] <= i
    <3>1. CASE reader[i] = "waiting"
      BY <1>3, <1>4, <2>2, <3>1 DEF CameraInv, PoliteInv, Busy
    <3>2. CASE reader[i] # "waiting"
      BY <1>3, <2>2, <3>2 DEF CameraInv, PoliteInv
    <3> QED
      BY <3>1, <3>2
  <2> QED
    BY <1>1, <1>3, <2>1, <2>2 DEF CameraInv, PoliteInv
<1>9. WokenInv'
  <2>1. k # 0
    BY AcqRange
  <2> QED
    BY <1>1, <1>3, <2>1 DEF CameraInv, WokenInv
<1> QED
  BY <1>5, <1>6, <1>7, <1>8, <1>9 DEF CameraInv

LEMMA WaitStep == ASSUME CameraInv, NEW k \in Acqs, Wait(k) PROVE CameraInv'
<1>1. /\ reader[k] = "launched" /\ reader' = [reader EXCEPT ![k] = "waiting"] /\ mutex = 0
      /\ UNCHANGED <<count, steps, exposure, polite, mutex, status, image, failed, wokenBy>>
  BY DEF Wait, outcome, caller
<1>2. \A i \in Acqs : reader'[i] = IF i = k THEN "waiting" ELSE reader[i]
  BY <1>1 DEF CameraInv, TypeOK
<1>3. Acquiring' = Acquiring
  BY <1>1 DEF Acquiring
<1>4. TypeOK'
  <2>1. k # 0
    BY AcqRange
  <2> QED
    BY <1>1, <1>2, <2>1 DEF CameraInv, TypeOK, Holding
<1>5. LaunchInv' /\ WokenInv'
  BY <1>1, <1>2, <1>3 DEF CameraInv, LaunchInv, WokenInv
<1>6. StatusInv'
  <2>1. status # "read"
    BY <1>1, AcqRange DEF CameraInv, StatusInv
  <2> QED
    BY <1>1, <1>2, <1>3, <2>1 DEF CameraInv, StatusInv, Busy
<1>7. PoliteInv'
  BY <1>1, <1>2 DEF CameraInv, PoliteInv, Busy
<1> QED
  BY <1>4, <1>5, <1>6, <1>7 DEF CameraInv

LEMMA AwakeStep ==
  ASSUME CameraInv, NEW k \in Acqs, NEW timeout \in BOOLEAN, Awake(k, timeout)
  PROVE  CameraInv'
<1> DEFINE to == IF timeout THEN "reading" ELSE "finishing"
<1>1. /\ reader[k] \in {"waiting", "notified"} /\ mutex = 0 /\ mutex' = k
      /\ reader' = [reader EXCEPT ![k] = to]
      /\ status' = IF timeout THEN "read" ELSE status
      /\ UNCHANGED <<count, steps, exposure, polite, image, failed>>
  BY DEF Awake, ReadsImage, ReadStatus, outcome, caller
<1>2. /\ wokenBy' \in [Acqs -> 0..MaxAcq]
      /\ \A i \in Acqs : wokenBy'[i] = IF i = k /\ ~timeout /\ reader[k] = "waiting" THEN k ELSE wokenBy[i]
  <2>1. k \in 0..MaxAcq
    BY AcqRange, CCameraAssumption
  <2> QED
    BY <1>1, <2>1 DEF Awake, CameraInv, TypeOK
<1>3. k \in Nat /\ k # 0 /\ k <= k
  BY AcqRange
<1>4. to \in {"reading", "finishing"} /\ (to = "reading" <=> timeout)
  OBVIOUS
<1> HIDE DEF to
<1>5. \A i \in Acqs : reader'[i] = IF i = k THEN to ELSE reader[i]
  BY <1>1 DEF CameraInv, TypeOK
<1>6. Acquiring' = Acquiring
  BY <1>1 DEF Acquiring
<1>7. TypeOK'
  <2>1. reader' \in [Acqs -> {"none", "launched", "waiting", "notified", "unlocked", "ended"} \cup Holding]
    BY <1>1, <1>4 DEF CameraInv, TypeOK, Holding
  <2>2. \A i \in Acqs : reader'[i] \in Holding <=> mutex' = i
    <3>1. \A i \in Acqs : reader[i] \notin Holding
      BY <1>1, AcqRange DEF CameraInv, TypeOK
    <3> QED
      BY <1>1, <1>4, <1>5, <3>1 DEF Holding
  <2> QED
    BY <1>1, <1>2, <2>1, <2>2 DEF CameraInv, TypeOK
<1>8. LaunchInv'
  BY <1>1, <1>4, <1>5, <1>6 DEF CameraInv, LaunchInv
<1>9. StatusInv'
  <2>1. status # "read"
    BY <1>1, AcqRange DEF CameraInv, StatusInv
  <2>2. status' = "read" => reader'[k] \in {"reading", "finishing"} /\ mutex' = k
    BY <1>1, <1>4, <1>5, <2>1
  <2>3. ASSUME status' = "exp" PROVE count \in Acqs /\ (Acquiring \/ reader'[count] \in Busy)
    <3>1. status = "exp"
      BY <1>1, <2>3
    <3> QED
      BY <1>1, <1>4, <1>5, <3>1 DEF CameraInv, StatusInv, Busy
  <2> QED
    BY <1>1, <1>6, <2>2, <2>3 DEF StatusInv
<1>10. PoliteInv'
  <2> SUFFICES ASSUME polite PROVE PoliteInv'
    BY <1>1 DEF PoliteInv
  <2>1. k = count /\ status = "exp" /\ ~Acquiring
    BY <1>1 DEF CameraInv, PoliteInv, LaunchInv, Busy
  <2>2. steps # <<"report", "launch">> /\ steps # <<"launch">>
    BY <2>1 DEF Acquiring
  <2>3. \A i \in Acqs : reader'[i] \in Busy => i = count
    BY <1>5, <2>1 DEF CameraInv, PoliteInv
  <2>4. \A i \in Acqs : image[i] \in {0, i} /\ wokenBy'[i] <= i
    BY <1>2, <1>3 DEF CameraInv, PoliteInv
  <2> QED
    BY <1>1, <1>4, <1>5, <2>1, <2>2, <2>3, <2>4 DEF PoliteInv
<1>11. WokenInv'
  <2>1. ASSUME ~timeout PROVE wokenBy'[k] # 0
    BY <1>1, <1>2, <1>3, <2>1 DEF CameraInv, WokenInv
  <2> QED
    BY <1>1, <1>2, <1>4, <1>5, <2>1 DEF CameraInv, WokenInv
<1> QED
  BY <1>7, <1>8, <1>9, <1>10, <1>11 DEF CameraInv

LEMMA ReadCCDStep == ASSUME CameraInv, NEW k \in Acqs, ReadCCD(k) PROVE CameraInv'
<1>1. /\ reader[k] = "reading" /\ reader' = [reader EXCEPT ![k] = "finishing"]
      /\ \/ image' = [image EXCEPT ![k] = count] /\ failed' = failed
         \/ failed' = failed \cup {k} /\ image' = image
      /\ UNCHANGED <<count, steps, exposure, polite, mutex, status, wokenBy>>
  BY DEF ReadCCD, outcome, caller, CameraInv, TypeOK
<1>2. \A i \in Acqs : reader'[i] = IF i = k THEN "finishing" ELSE reader[i]
  BY <1>1 DEF CameraInv, TypeOK
<1>3. count \in 0..MaxAcq /\ count # 0 /\ k <= count
  BY <1>1, AcqRange, CCameraAssumption DEF CameraInv, TypeOK, LaunchInv
<1>4. /\ image' \in [Acqs -> 0..MaxAcq] /\ failed' \subseteq Acqs
      /\ \A i \in Acqs : i # k => image'[i] = image[i] /\ (i \in failed => i \in failed')
      /\ image'[k] = count \/ (image'[k] = image[k] /\ k \in failed')
  BY <1>1, <1>3 DEF CameraInv, TypeOK
<1>5. Acquiring' = Acquiring
  BY <1>1 DEF Acquiring
<1>6. TypeOK'
  BY <1>1, <1>2, <1>4 DEF CameraInv, TypeOK, Holding
<1>7. LaunchInv'
  BY <1>1, <1>2, <1>5 DEF CameraInv, LaunchInv
<1>8. StatusInv'
  <2>1. ASSUME status = "read" PROVE \E i \in Acqs : reader'[i] \in {"reading", "finishing"} /\ mutex = i
    <3>1. PICK i \in Acqs : reader[i] \in {"reading", "finishing"} /\ mutex = i
      BY <2>1 DEF CameraInv, StatusInv
    <3> QED
      BY <1>2, <3>1
  <2> QED
    BY <1>1, <1>2, <1>5, <2>1 DEF CameraInv, StatusInv, Busy
<1>9. PoliteInv'
  <2> SUFFICES ASSUME polite PROVE PoliteInv'
    BY <1>1 DEF PoliteInv
  <2>1. k = count /\ status = "read"
    BY <1>1 DEF CameraInv, PoliteInv, Busy
  <2>2. \A i \in Acqs : reader'[i] \in Busy => i = count
    BY <1>2, <2>1 DEF CameraInv, PoliteInv
  <2>3. \A i \in Acqs : image'[i] \in {0, i} /\ wokenBy[i] <= i
    BY <1>4, <2>1 DEF CameraInv, PoliteInv
  <2>4. steps # <<"report", "launch">> /\ steps # <<"launch">>
    BY <1>1, <2>1 DEF CameraInv, LaunchInv, Acquiring
  <2> QED
    BY <1>1, <1>2, <2>1, <2>2, <2>3, <2>4 DEF PoliteInv
<1>10. WokenInv'
  BY <1>1, <1>2, <1>3, <1>4 DEF CameraInv, WokenInv
<1> QED
  BY <1>6, <1>7, <1>8, <1>9, <1>10 DEF CameraInv

LEMMA ReportStandStep == ASSUME CameraInv, NEW k \in Acqs, ReportStand(k) PROVE CameraInv'
<1>1. /\ reader[k] = "finishing" /\ reader' = [reader EXCEPT ![k] = "reported"]
      /\ status' = "stand"
      /\ UNCHANGED <<count, steps, exposure, polite, mutex, image, failed, wokenBy>>
  BY DEF ReportStand, outcome, caller
<1>2. \A i \in Acqs : reader'[i] = IF i = k THEN "reported" ELSE reader[i]
  BY <1>1 DEF CameraInv, TypeOK
<1>3. Acquiring' = Acquiring
  BY <1>1 DEF Acquiring
<1>4. TypeOK' /\ StatusInv'
  BY <1>1, <1>2 DEF CameraInv, TypeOK, StatusInv, Holding
<1>5. LaunchInv' /\ WokenInv'
  BY <1>1, <1>2, <1>3 DEF CameraInv, LaunchInv, WokenInv
<1>6. PoliteInv'
  <2> SUFFICES ASSUME polite PROVE PoliteInv'
    BY <1>1 DEF PoliteInv
  <2>1. k = count
    BY <1>1 DEF CameraInv, PoliteInv, Busy
  <2>2. steps # <<"report", "launch">> /\ steps # <<"launch">>
    BY <1>1, <2>1 DEF CameraInv, LaunchInv, Acquiring
  <2>3. \A i \in Acqs : reader'[i] \in Busy => i = count
    BY <1>2, <2>1 DEF CameraInv, PoliteInv
  <2>4. reader'[count] = "reported"
    BY <1>2, <2>1
  <2>5. \A i \in Acqs : image'[i] \in {0, i} /\ wokenBy'[i] <= i
    BY <1>1 DEF CameraInv, PoliteInv
  <2> QED
    BY <1>1, <2>2, <2>3, <2>4, <2>5 DEF PoliteInv
<1> QED
  BY <1>4, <1>5, <1>6 DEF CameraInv

LEMMA UnlockStep == ASSUME CameraInv, NEW k \in Acqs, Unlock(k) PROVE CameraInv'
<1>1. /\ reader[k] = "reported" /\ reader' = [reader EXCEPT ![k] = "unlocked"] /\ mutex' = 0
      /\ UNCHANGED <<count, steps, exposure, polite, status, image, failed, wokenBy>>
  BY DEF Unlock, Releases, outcome, caller
<1>2. \A i \in Acqs : reader'[i] = IF i = k THEN "unlocked" ELSE reader[i]
  BY <1>1 DEF CameraInv, TypeOK
<1>3. mutex = k
  BY <1>1 DEF CameraInv, TypeOK, Holding
<1>4. Acquiring' = Acquiring
  BY <1>1 DEF Acquiring
<1>5. TypeOK'
  BY <1>1, <1>2, <1>3, AcqRange DEF CameraInv, TypeOK, Holding
<1>6. LaunchInv' /\ WokenInv'
  BY <1>1, <1>2, <1>4 DEF CameraInv, LaunchInv, WokenInv
<1>7. StatusInv'
  <2>1. status # "read"
    BY <1>1, <1>3 DEF CameraInv, StatusInv
  <2> QED
    BY <1>1, <1>2, <1>4, <2>1 DEF CameraInv, StatusInv, Busy
<1>8. PoliteInv'
  BY <1>1, <1>2 DEF CameraInv, PoliteInv, Busy
<1> QED
  BY <1>5, <1>6, <1>7, <1>8 DEF CameraInv

LEMMA NextCamera == CameraInv /\ [Next]_vars => CameraInv'
<1> SUFFICES ASSUME CameraInv, [Next]_vars PROVE CameraInv'
  OBVIOUS
<1>1. CASE Acq
  BY <1>1, AcqStep
<1>2. CASE ReportExp
  BY <1>2, ReportExpStep
<1>3. CASE Launch
  BY <1>3, LaunchStep
<1>4. CASE StopExposure
  BY <1>4, StopStep
<1>5. CASE NotifyStop
  BY <1>5, NotifyStopStep
<1>6. CASE \E i \in Acqs : Reader(i)
  <2> PICK i \in Acqs : Reader(i)
    BY <1>6
  <2>1. CASE Wait(i)
    BY <2>1, WaitStep
  <2>2. CASE Awake(i, TRUE)
    BY <2>2, AwakeStep
  <2>3. CASE Awake(i, FALSE)
    BY <2>3, AwakeStep
  <2>4. CASE ReadCCD(i)
    BY <2>4, ReadCCDStep
  <2>5. CASE ReportStand(i)
    BY <2>5, ReportStandStep
  <2>6. CASE Unlock(i)
    BY <2>6, UnlockStep
  <2>7. CASE NotifyEnd(i)
    BY <2>7, NotifyEndStep
  <2> QED
    BY <2>1, <2>2, <2>3, <2>4, <2>5, <2>6, <2>7 DEF Reader
<1>7. CASE UNCHANGED vars
  <2>1. UNCHANGED <<count, steps, exposure, polite, reader, mutex, status, image, failed, wokenBy>>
    BY <1>7 DEF vars, caller, outcome
  <2>2. Acquiring' = Acquiring
    BY <2>1 DEF Acquiring
  <2> QED
    BY <2>1, <2>2 DEF CameraInv, TypeOK, LaunchInv, StatusInv, PoliteInv, WokenInv
<1> QED
  BY <1>1, <1>2, <1>3, <1>4, <1>5, <1>6, <1>7 DEF Next

-----------------------------------------------------------------------------
(***************************************************************************)
(* The refinement of CameraContract, for a program that waits for "stand". *)
(***************************************************************************)
\* The contract sees an acquisition from acq() until its reader has reported.
LEMMA UnderWayIs ==
  ASSUME CameraInv
  PROVE  /\ UnderWay <=> Acquiring \/ \E i \in Acqs : reader[i] \in Busy
         /\ UnderWay' <=> Acquiring' \/ \E i \in Acqs : reader'[i] \in Busy
  BY DEF UnderWay, HasReported, Busy

LEMMA InitFollows == Init => Contract!Init
<1> SUFFICES ASSUME Init PROVE Contract!Init
  OBVIOUS
<1>1. ~UnderWay
  BY DEF Init, UnderWay, HasReported, Acquiring
<1>2. OverSet = {}
  BY DEF Init, OverSet
<1> QED
  BY <1>1, <1>2 DEF Init, Contract!Init

\* Steps that the contract does not see: those of acq() once it has begun, of a stop,
\* and of a reader before and after its report.
LEMMA SameView ==
  ASSUME count' = count, UnderWay' <=> UnderWay,
         \A i \in Acqs : reader'[i] \in {"reported", "unlocked", "ended"}
                          <=> reader[i] \in {"reported", "unlocked", "ended"}
  PROVE  UNCHANGED Contract!contractVars
<1>1. OverSet' = OverSet
  BY DEF OverSet
<1> QED
  BY <1>1 DEF Contract!contractVars

\* acq() begins the next acquisition, and none is under way.
LEMMA AcqFollows ==
  ASSUME CameraInv, Acq, polite'
  PROVE  Contract!Begin
<1>1. /\ steps = <<>> /\ steps' = <<"report", "launch">> /\ count' = count + 1
      /\ count < MaxAcq /\ polite /\ status = "stand" /\ reader' = reader
  BY DEF Acq, AcqSteps
<1>2. ~Acquiring /\ Acquiring'
  BY <1>1 DEF Acquiring
<1>3. \A i \in Acqs : reader[i] \notin Busy
  <2> SUFFICES ASSUME NEW i \in Acqs, reader[i] \in Busy PROVE FALSE
    OBVIOUS
  <2>1. i = count
    BY <1>1 DEF CameraInv, PoliteInv
  <2> QED
    BY <1>1, <2>1 DEF CameraInv, PoliteInv, Busy
<1>4. ~UnderWay /\ UnderWay'
  BY <1>2, <1>3, UnderWayIs
<1>5. OverSet' = OverSet
  BY <1>1 DEF OverSet
<1> QED
  BY <1>1, <1>4, <1>5 DEF Contract!Begin

\* The report of a reader ends the acquisition under way.
LEMMA ReportStandFollows ==
  ASSUME CameraInv, NEW k \in Acqs, ReportStand(k), polite
  PROVE  Contract!End
<1>1. /\ reader[k] = "finishing" /\ reader' = [reader EXCEPT ![k] = "reported"]
      /\ UNCHANGED <<count, steps>>
  BY DEF ReportStand, caller
<1>2. \A i \in Acqs : reader'[i] = IF i = k THEN "reported" ELSE reader[i]
  BY <1>1 DEF CameraInv, TypeOK
<1>3. k = count /\ k # 0
  BY <1>1, AcqRange DEF CameraInv, PoliteInv, Busy
<1>4. ~Acquiring /\ ~Acquiring'
  BY <1>1, <1>3 DEF CameraInv, LaunchInv, Acquiring
<1>5. \A i \in Acqs : reader'[i] \notin Busy
  BY <1>2, <1>3 DEF CameraInv, PoliteInv, Busy
<1>6. UnderWay /\ ~UnderWay'
  BY <1>1, <1>4, <1>5, UnderWayIs DEF Busy
<1>7. OverSet' = OverSet \cup {count}
  BY <1>2, <1>3 DEF OverSet
<1> QED
  BY <1>1, <1>3, <1>6, <1>7 DEF Contract!End

\* Every step of such a program is one of the contract, or none.
LEMMA NextFollows ==
  ASSUME CameraInv, [Next]_vars, polite'
  PROVE  Contract!Next \/ UNCHANGED Contract!contractVars
<1>1. CASE Acq
  BY <1>1, AcqFollows DEF Contract!Next
<1>2. CASE ReportExp
  <2>1. steps = <<"report", "launch">> /\ steps' = <<"launch">> /\ UNCHANGED <<count, reader>>
    BY <1>2, StepCases DEF ReportExp, CameraInv
  <2>2. Acquiring /\ Acquiring'
    BY <2>1 DEF Acquiring
  <2> QED
    BY <2>1, <2>2, UnderWayIs, SameView
<1>3. CASE Launch
  <2>1. /\ steps = <<"launch">> /\ reader' = [reader EXCEPT ![count] = "launched"]
        /\ count' = count
    BY <1>3, StepCases DEF Launch, CameraInv
  <2>2. Acquiring
    BY <2>1 DEF Acquiring
  <2>3. count \in Acqs /\ reader[count] = "none"
    BY <2>2 DEF CameraInv, LaunchInv
  <2>4. \A i \in Acqs : reader'[i] = IF i = count THEN "launched" ELSE reader[i]
    BY <2>1 DEF CameraInv, TypeOK
  <2>5. UnderWay /\ UnderWay'
    BY <2>2, <2>3, <2>4, UnderWayIs DEF Busy
  <2> QED
    BY <2>1, <2>3, <2>4, <2>5, SameView
<1>4. CASE StopExposure
  <2>1. steps = <<>> /\ steps' = <<"notify">> /\ UNCHANGED <<count, reader>>
    BY <1>4 DEF StopExposure
  <2>2. ~Acquiring /\ ~Acquiring'
    BY <2>1 DEF Acquiring
  <2> QED
    BY <2>1, <2>2, UnderWayIs, SameView
<1>5. CASE NotifyStop
  <2>1. steps = <<"notify">> /\ steps' = <<>> /\ reader' = Notified(reader) /\ count' = count
    BY <1>5, StepCases DEF NotifyStop, CameraInv
  <2>2. ~Acquiring /\ ~Acquiring'
    BY <2>1 DEF Acquiring
  <2>3. \A i \in Acqs : reader'[i] = IF reader[i] = "waiting" THEN "notified" ELSE reader[i]
    BY <2>1 DEF Notified
  <2>4. \A i \in Acqs : reader'[i] \in Busy <=> reader[i] \in Busy
    BY <2>3 DEF Busy
  <2> QED
    BY <2>1, <2>2, <2>3, <2>4, UnderWayIs, SameView
<1>6. ASSUME NEW k \in Acqs, Reader(k)
      PROVE  Contract!Next \/ UNCHANGED Contract!contractVars
  <2>1. polite /\ count' = count /\ Acquiring' = Acquiring
    BY <1>6 DEF Reader, Wait, Awake, ReadCCD, ReportStand, Unlock, NotifyEnd, caller, Acquiring
  <2>2. CASE ReportStand(k)
    BY <2>1, <2>2, ReportStandFollows DEF Contract!Next
  <2>3. CASE Wait(k) \/ Awake(k, TRUE) \/ Awake(k, FALSE) \/ ReadCCD(k)
    <3>1. /\ reader[k] \in Busy
          /\ \E at \in Busy : reader' = [reader EXCEPT ![k] = at]
      BY <2>3 DEF Wait, Awake, ReadCCD, Busy
    <3>2. \A i \in Acqs : IF i = k THEN reader'[i] \in Busy ELSE reader'[i] = reader[i]
      BY <3>1 DEF CameraInv, TypeOK
    <3>3. UnderWay /\ UnderWay'
      BY <3>1, <3>2, UnderWayIs
    <3> QED
      BY <2>1, <3>1, <3>2, <3>3, SameView DEF Busy
  <2>4. CASE Unlock(k)
    <3>1. \A i \in Acqs : reader'[i] = IF i = k THEN "unlocked" ELSE reader[i]
      BY <2>4 DEF Unlock, CameraInv, TypeOK
    <3>2. reader[k] = "reported"
      BY <2>4 DEF Unlock
    <3>3. \A i \in Acqs : reader'[i] \in Busy <=> reader[i] \in Busy
      BY <3>1, <3>2 DEF Busy
    <3> QED
      BY <2>1, <3>1, <3>2, <3>3, UnderWayIs, SameView
  <2>5. CASE NotifyEnd(k)
    <3>1. reader[k] = "unlocked" /\ reader' = [Notified(reader) EXCEPT ![k] = "ended"]
      BY <2>5 DEF NotifyEnd
    <3>2. \A i \in Acqs : reader'[i] = IF i = k THEN "ended"
                                       ELSE IF reader[i] = "waiting" THEN "notified" ELSE reader[i]
      BY <3>1 DEF Notified
    <3>3. \A i \in Acqs : reader'[i] \in Busy <=> reader[i] \in Busy
      BY <3>1, <3>2 DEF Busy
    <3> QED
      BY <2>1, <3>1, <3>2, <3>3, UnderWayIs, SameView
  <2> QED
    BY <1>6, <2>2, <2>3, <2>4, <2>5 DEF Reader
<1>7. CASE UNCHANGED vars
  <2>1. UNCHANGED <<count, steps, reader>>
    BY <1>7 DEF vars, caller
  <2>2. Acquiring' = Acquiring
    BY <2>1 DEF Acquiring
  <2> QED
    BY <2>1, <2>2, UnderWayIs, SameView
<1> QED
  BY <1>1, <1>2, <1>3, <1>4, <1>5, <1>6, <1>7 DEF Next
-----------------------------------------------------------------------------
(***************************************************************************)
(* Theorems.                                                               *)
(***************************************************************************)
\* The inductive invariant: where the status comes from, which reader works and why
\* a reader was woken (CCamera::acq, stopExposure and acqReadThread).
THEOREM CameraInvariant == Spec => []CameraInv
<1>1. Init => CameraInv
  BY InitCamera
<1>2. CameraInv /\ [Next]_vars => CameraInv'
  BY NextCamera
<1> QED
  BY <1>1, <1>2, PTL DEF Spec

\* Every field keeps its values, and m_acqMutex is held by the one reader that is
\* between its lock and its unlock.
THEOREM CameraTypes == Spec => []TypeOK
<1>1. CameraInv => TypeOK
  BY DEF CameraInv
<1> QED
  BY <1>1, CameraInvariant, PTL

\* However the acquisitions overlap, the last status is "stand" once they are over.
THEOREM StatusReturns == Spec => []StatusSettles
<1>1. CameraInv => StatusSettles
  <2> SUFFICES ASSUME CameraInv, ~Acquiring, \A i \in Acqs : HasReported(i)
               PROVE  status = "stand"
    BY DEF StatusSettles, UnderWay
  <2>1. \A i \in Acqs : reader[i] \notin Busy
    BY DEF HasReported, Busy
  <2>2. status # "read" /\ status # "exp"
    BY <2>1 DEF CameraInv, StatusInv, Busy
  <2> QED
    BY <2>2 DEF CameraInv, TypeOK
<1> QED
  BY <1>1, CameraInvariant, PTL

\* A program that waits for "stand" before each acq() gets the image of its own
\* exposure or none.
THEOREM OwnImage == Spec => []ImageIsOwn
<1>1. CameraInv => ImageIsOwn
  BY DEF CameraInv, PoliteInv, ImageIsOwn
<1> QED
  BY <1>1, CameraInvariant, PTL

\* An image is lost only to a failed read-out or to a wake-up before its time.
THEOREM LostImage == Spec => []LostImageWasWoken
<1>1. CameraInv => LostImageWasWoken
  BY DEF CameraInv, PoliteInv, WokenInv, LostImageWasWoken
<1> QED
  BY <1>1, CameraInvariant, PTL

\* For such a program the acquisitions follow one another as CameraContract has them,
\* and the status callbacks come in the order of one after the other.
THEOREM StatusGoesRound == Spec => StatusCycles
<1>1. CameraInv /\ [Next]_vars =>
        [polite' => <<status, status'>> \in
           {<<"stand", "exp">>, <<"exp", "read">>, <<"exp", "stand">>, <<"read", "stand">>}]_status
  <2> SUFFICES ASSUME CameraInv, [Next]_vars, status' # status, polite'
               PROVE  <<status, status'>> \in
                        {<<"stand", "exp">>, <<"exp", "read">>, <<"exp", "stand">>, <<"read", "stand">>}
    OBVIOUS
  <2>1. CASE ReportExp
    <3>1. steps = <<"report", "launch">> /\ status' = "exp" /\ polite
      BY <2>1, StepCases DEF ReportExp, CameraInv
    <3> QED
      BY <3>1 DEF CameraInv, PoliteInv
  <2>2. CASE \E i \in Acqs : Reader(i)
    <3> PICK i \in Acqs : Reader(i)
      BY <2>2
    <3>1. polite
      BY DEF Reader, Wait, Awake, ReadCCD, ReportStand, Unlock, NotifyEnd, caller
    <3>2. \/ reader[i] \in {"waiting", "notified"} /\ status' = "read"
          \/ reader[i] = "finishing" /\ status' = "stand"
      BY DEF Reader, Wait, Awake, ReadCCD, ReportStand, Unlock, NotifyEnd, ReadStatus
    <3>3. i = count
      BY <3>1, <3>2 DEF CameraInv, PoliteInv, Busy
    <3> QED
      BY <3>1, <3>2, <3>3 DEF CameraInv, PoliteInv
  <2>3. CASE Acq \/ Launch \/ StopExposure \/ NotifyStop \/ UNCHANGED vars
    BY <2>3 DEF Acq, Launch, StopExposure, NotifyStop, vars
  <2> QED
    BY <2>1, <2>2, <2>3 DEF Next
<1>2. CameraInv /\ [Next]_vars => [polite' => Contract!Next]_(Contract!contractVars)
  BY NextFollows
<1>3. Init => Contract!Init
  BY InitFollows
<1> QED
  BY <1>1, <1>2, <1>3, CameraInvariant, PTL DEF Spec, StatusCycles
=============================================================================
