---------------------------- MODULE DeviceNumbers ----------------------------
(***************************************************************************)
(* How AudeLA numbers the devices of a class (audus1_fr.htm, section 2):   *)
(* a device gets the number the script imposes and replaces the device     *)
(* that had it, or the smallest free number from 1 on; a deleted number is *)
(* free again.  The lists, the Tcl commands and the threads of the devices *)
(* are left out.                                                           *)
(***************************************************************************)
EXTENDS Naturals

CONSTANTS
  DeviceIds,  \* the devices that may be created
  Imposable     \* the numbers scripts impose

VARIABLE numbered   \* the pairs <<number, device>> of the devices that exist

Used == {pair[1] : pair \in numbered}

\* n is the smallest number no device has.
SmallestFree(n) ==
  /\ n \in Nat /\ n >= 1 /\ n \notin Used
  /\ \A m \in 1..(n - 1) : m \in Used

Without(n) == {pair \in numbered : pair[1] # n}

Init == numbered = {}

Number(d) ==
  \E n \in {m + 1 : m \in Used \cup {0}} :
    /\ SmallestFree(n)
    /\ numbered' = numbered \cup {<<n, d>>}

Impose(n, d) == numbered' = Without(n) \cup {<<n, d>>}

Free(n) == numbered' = Without(n)

Next ==
  \/ \E d \in DeviceIds : Number(d)
  \/ \E n \in Imposable, d \in DeviceIds : Impose(n, d)
  \/ \E n \in Used : Free(n)

Spec == Init /\ [][Next]_numbered
=============================================================================
