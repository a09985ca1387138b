--------------------------- MODULE CameraContract ---------------------------
(***************************************************************************)
(* What a camera promises the scripts that use it, without its timer, its  *)
(* flags and its event loop (cam.htm, "cam1 acq" and "cam1 stop"):         *)
(* exposures follow one another, each one ends, and a script that asked to *)
(* wait is answered once, after its own exposure is over and before the    *)
(* next one starts.                                                        *)
(***************************************************************************)
EXTENDS Naturals

CONSTANT Limit  \* bound: exposures that start in a behaviour

VARIABLES
  count,    \* the exposures begun so far are 1..count
  current,  \* the exposure under way, 0 when there is none
  over,     \* the exposures that ended: read, dropped or failed
  callers,  \* the exposures a script waits for
  answered  \* the exposures whose script was answered

contractVars == <<count, current, over, callers, answered>>

Init ==
  /\ count = 0
  /\ current = 0
  /\ over = {}
  /\ callers = {}
  /\ answered = {}

Begin ==
  /\ current = 0
  /\ callers = {}
  /\ count < Limit
  /\ count' = count + 1
  /\ current' = count + 1
  /\ callers' \in {{}, {count + 1}}
  /\ UNCHANGED <<over, answered>>

End ==
  /\ current # 0
  /\ over' = over \cup {current}
  /\ current' = 0
  /\ UNCHANGED <<count, callers, answered>>

Answer ==
  \E e \in callers \cap over :
    /\ callers' = callers \ {e}
    /\ answered' = answered \cup {e}
    /\ UNCHANGED <<count, current, over>>

\* The camera is deleted: its exposure will never end, and nobody waits for it.
Vanish ==
  /\ callers = {}
  /\ current' = 0
  /\ UNCHANGED <<count, over, callers, answered>>

Next == Begin \/ End \/ Answer \/ Vanish

Spec == Init /\ [][Next]_contractVars
=============================================================================
