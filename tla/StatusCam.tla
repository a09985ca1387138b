------------------------------ MODULE StatusCam ------------------------------
(***************************************************************************)
(* The variable ::status_cam of the interpreter of a camera, by which a    *)
(* script follows its exposures (cam.htm: "En fin de pose la valeur stand  *)
(* est re-ecrite").  The commands of libcam write it (CamAcq) and the      *)
(* sessions of Aud'ACE wait for it (CameraThread): this module is what the *)
(* first promise the second, and both implement it.                        *)
(***************************************************************************)
VARIABLES
  drops,     \* the driver drops a stopped exposure
  exposing,  \* an exposure is under way: its timer is armed
  status     \* ::status_cam

shown == <<drops, exposing, status>>

Init ==
  /\ drops \in BOOLEAN
  /\ exposing = FALSE
  /\ status = "stand"

\* acq: refused while an exposure is under way.
ExposureBegins ==
  /\ ~exposing
  /\ exposing' = TRUE
  /\ status' = "exp"
  /\ UNCHANGED drops

\* AcqRead: at its time or at a stop.
ExposureIsRead ==
  /\ exposing
  /\ exposing' = FALSE
  /\ status' = "stand"
  /\ UNCHANGED drops

\* AcqRead, of an exposure that a stop made such a driver drop.
ExposureIsDropped ==
  /\ exposing
  /\ drops
  /\ exposing' = FALSE
  /\ status' = "read"
  /\ UNCHANGED drops

\* stop, without an exposure: "read" is not left for ever.
StopsNothing ==
  /\ ~exposing
  /\ status' = "stand"
  /\ UNCHANGED <<drops, exposing>>

Next == ExposureBegins \/ ExposureIsRead \/ ExposureIsDropped \/ StopsNothing

Spec == Init /\ [][Next]_shown
=============================================================================
