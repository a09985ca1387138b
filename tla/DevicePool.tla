----------------------------- MODULE DevicePool -----------------------------
(***************************************************************************)
(* The devices of one class (cameras and telescopes, links, or image       *)
(* buffers) in the main Tcl interpreter: the list of CPool                 *)
(* (libaudela/src/cpool.cpp), and the commands ::cam::create,              *)
(* ::cam::delete, ::buf::create, ... that keep with it a Tcl command per   *)
(* device, a thread per camera with the driver loaded in it, and a command *)
(* per driver library (pool_tcl.cpp).                                      *)
(*                                                                         *)
(* Devices (CDevice objects) are numbered 1, 2, ... in the order of their  *)
(* construction: that is their identity; "no" is the number scripts use.   *)
(***************************************************************************)
EXTENDS Naturals, Sequences, SequencesExt

CONSTANTS
  MaxDev,   \* bound: devices constructed in a behaviour
  Libs,     \* the driver libraries of cameras
  Ports,    \* the names of the ports of links
  Imposed   \* the numbers scripts give to cameras, with -num

ASSUME DevicePoolAssumption ==
  /\ MaxDev \in Nat
  /\ 0 \notin Libs /\ 0 \notin Ports
  /\ Imposed \subseteq Nat

NULL == 0
Devices == 1..MaxDev

VARIABLES
  class,        \* "cam" (telescopes are handled alike), "link" or "buf"
  created,      \* the devices constructed so far are 1..created
  pool,         \* the list CPool::dev, from its head
  no,           \* CDevice::no of each device
  thread,       \* deviceThreadId: "none", "running" or "released"
  driver,       \* the driver in that thread, or the CLink: "none", "open", "closed"
  libraryName,  \* CDevice::libraryName, NULL when empty
  port,         \* CLink::name, NULL when not a link
  command,      \* the device that the command camN, linkN, bufN targets
  alias,        \* the same of the command named after a library, NULL if none
  lowNumber,    \* (history) a number below that of the head of the list was imposed
  replaced      \* (history) a device lost its place to one of the same number

list    == <<created, pool, no>>
tcl     == <<command, alias>>
history == <<lowNumber, replaced>>
vars    == <<class, list, thread, driver, libraryName, port, tcl, history>>

Init ==
  /\ class \in {"cam", "link", "buf"}
  /\ created = 0
  /\ pool = <<>>
  /\ no = [d \in Devices |-> 0]
  /\ thread = [d \in Devices |-> "none"]
  /\ driver = [d \in Devices |-> "none"]
  /\ libraryName = [d \in Devices |-> NULL]
  /\ port = [d \in Devices |-> NULL]
  /\ command = [n \in {} |-> NULL]
  /\ alias = [l \in Libs |-> NULL]
  /\ lowNumber = FALSE
  /\ replaced = FALSE
-----------------------------------------------------------------------------
(***************************************************************************)
(* CPool.  A position is the index of a device in the list, 0 for none.    *)
(***************************************************************************)
Positions(p) == 1..Len(p)

\* CPool::Chercher: the first device numbered n.
Chercher(p, n) ==
  LET found == {i \in Positions(p) : no[p[i]] = n}
  IN IF found = {} THEN 0 ELSE Min(found)

\* The device numbered n, if any, leaves the list for the new one.
Retire(p, n) ==
  LET i == Chercher(p, n) IN IF i = 0 THEN p ELSE RemoveAt(p, i)

\* The scan of an imposed number stops before a greater one or at the end, but
\* always after the head.
ImposedAfter(p, n) ==
  IF p = <<>> THEN 0
  ELSE Min({i \in Positions(p) : i = Len(p) \/ no[p[i + 1]] > n})

\* (faulty) The scan goes past a gap of one number.
GapWide(p, i) == i = Len(p) \/ no[p[i + 1]] > no[p[i]] + 2

\* The scan for a free number stops at the first gap, or at the end.
Gap(p, i) == i = Len(p) \/ no[p[i + 1]] > no[p[i]] + 1

AutoAfter(p) ==
  IF p = <<>> THEN 0
  ELSE IF no[p[1]] > 1 THEN 0
  ELSE Min({i \in Positions(p) : Gap(p, i)})

\* (faulty) The first device is numbered 0.
AutoNumberZero(p) == IF AutoAfter(p) = 0 THEN 0 ELSE AutoAfter(p) + 1

\* device_no counted the devices it passed; at a gap it is the last one's number.
AutoNumber(p) ==
  LET i == AutoAfter(p)
  IN IF i = 0 THEN 1 ELSE IF i < Len(p) THEN no[p[i]] + 1 ELSE i + 1

\* CPool::Ajouter: the number a device gets when n is asked for.
NumberFor(n) == IF n = NULL THEN AutoNumber(pool) ELSE n

\* (faulty) A device numbered automatically goes to the end of the list.
AjouterLast(n, d) == Append(pool, d)

\* The list once device d is in it, and the device it replaces is not.
Ajouter(n, d) ==
  IF n = NULL
  THEN InsertAt(pool, AutoAfter(pool) + 1, d)
  ELSE InsertAt(Retire(pool, n), ImposedAfter(Retire(pool, n), n) + 1, d)

\* (faulty) The device stays in the list.
RejectedKept(n) == Ajouter(n, created + 1)

\* The list when the device just added is taken out again.
Rejected(n) == IF n = NULL THEN pool ELSE Retire(pool, n)
-----------------------------------------------------------------------------
(***************************************************************************)
(* CmdCreatePoolItem.  The main thread waits for the device's thread at    *)
(* each step (thread::send): nothing else runs in the main interpreter.    *)
(***************************************************************************)
\* -num: anything below 1 is read as 1.
NumOption(n) == IF n < 1 THEN 1 ELSE n

\* The numbers a script asks for: none, or one given with -num.
Requests == {NULL} \cup {NumOption(n) : n \in Imposed}

\* The next CDevice object.
Construct(n) ==
  /\ created < MaxDev
  /\ created' = created + 1
  /\ no' = [no EXCEPT ![created'] = NumberFor(n)]

Register(k, d) ==
  command' = [m \in DOMAIN command \cup {k} |-> IF m = k THEN d ELSE command[m]]

\* n is imposed, and below the number of the head.
BelowHead(n) ==
  n # NULL /\ Retire(pool, n) # <<>> /\ n < no[Head(Retire(pool, n))]

Replaces(n) == n # NULL /\ Chercher(pool, n) # 0

CreateDevice(lib, n) ==
  /\ class = "cam"
  /\ Construct(n)
  /\ pool' = Ajouter(n, created')
  /\ thread' = [thread EXCEPT ![created'] = "running"]
  /\ driver' = [driver EXCEPT ![created'] = "open"]
  /\ libraryName' = [libraryName EXCEPT ![created'] = lib]
  /\ alias' = [alias EXCEPT ![lib] = created']
  /\ Register(NumberFor(n), created')
  /\ lowNumber' = (lowNumber \/ BelowHead(n))
  /\ replaced' = (replaced \/ Replaces(n))
  /\ UNCHANGED <<class, port>>

\* (faulty) The thread is not released on an error.
ThreadAfterFailureLeak(t) == IF t = "released" THEN "running" ELSE t

\* thread::create fails (no thread), or the load or the creation of the driver
\* in the thread does, and the thread is released.
ThreadAfterFailure(t) == t

CreateFails(n, t) ==
  /\ class = "cam"
  /\ Construct(n)
  /\ pool' = Rejected(n)
  /\ thread' = [thread EXCEPT ![created'] = ThreadAfterFailure(t)]
  /\ replaced' = (replaced \/ Replaces(n))
  /\ UNCHANGED <<class, driver, libraryName, port, tcl, lowNumber>>

\* CBuffer::createBuffer: a number asked for is checked, then ignored.
CreateBuffer ==
  /\ class = "buf"
  /\ Construct(NULL)
  /\ pool' = Ajouter(NULL, created')
  /\ Register(NumberFor(NULL), created')
  /\ UNCHANGED <<class, thread, driver, libraryName, port, alias, history>>

\* (faulty) The links already made are not looked at.
PortTakenNever(p) == FALSE

\* A listed link answers "linkN name" with p.
PortTaken(p) ==
  \E i \in Positions(pool) :
    no[pool[i]] \in DOMAIN command /\ port[command[no[pool[i]]]] = p

\* For a port that is taken, the number of its link is the answer.
CreateLink(p) ==
  /\ class = "link"
  /\ ~PortTaken(p)
  /\ Construct(NULL)
  /\ pool' = Ajouter(NULL, created')
  /\ driver' = [driver EXCEPT ![created'] = "open"]
  /\ port' = [port EXCEPT ![created'] = p]
  /\ Register(NumberFor(NULL), created')
  /\ UNCHANGED <<class, thread, libraryName, alias, history>>
-----------------------------------------------------------------------------
(***************************************************************************)
(* CmdDeletePoolItem.                                                      *)
(***************************************************************************)
HasThread(d) == class = "cam" => thread[d] = "running"

\* "catch {camN close}" reaches the driver through the command, if its thread
\* runs; a command whose device was freed reads a freed thread name: either way.
CloseThrough(n) ==
  \/ /\ n \in DOMAIN command
     /\ HasThread(command[n])
     /\ driver' = [driver EXCEPT ![command[n]] = "closed"]
  \/ /\ n \in DOMAIN command => \A i \in Positions(pool) : pool[i] # command[n]
     /\ UNCHANGED driver

\* (faulty) The Tcl command of the device is not deleted.
UnregisterNothing(n) == UNCHANGED command
Unregister(n) == command' = [m \in DOMAIN command \ {n} |-> command[m]]

Unalias(d) ==
  alias' = [l \in Libs |-> IF l = libraryName[d] THEN NULL ELSE alias[l]]

\* The device of number n, at position i, leaves the list and the interpreter.
Withdraw(n, i) ==
  /\ i # 0
  /\ Unregister(n)
  /\ pool' = RemoveAt(pool, i)
  /\ UNCHANGED <<class, created, no, libraryName, port, history>>

DeleteDevice(n) ==
  LET i == Chercher(pool, n)
  IN /\ class = "cam"
     /\ Withdraw(n, i)
     /\ CloseThrough(n)
     /\ Unalias(pool[i])
     /\ thread' = [thread EXCEPT ![pool[i]] = "released"]

DeleteLink(n) ==
  /\ class = "link"
  /\ Withdraw(n, Chercher(pool, n))
  /\ CloseThrough(n)
  /\ UNCHANGED <<alias, thread>>

DeleteBuffer(n) ==
  /\ class = "buf"
  /\ Withdraw(n, Chercher(pool, n))
  /\ UNCHANGED <<thread, driver, alias>>

\* The port cannot be opened: ::link::create calls ::link::delete.
CreateLinkFails(p) ==
  /\ class = "link"
  /\ ~PortTaken(p)
  /\ Construct(NULL)
  /\ pool' = Rejected(NULL)
  /\ Unregister(NumberFor(NULL))
  /\ UNCHANGED <<class, thread, driver, libraryName, port, alias, history>>

InPool(d) == \E i \in Positions(pool) : pool[i] = d
NumbersInPool == {no[pool[i]] : i \in Positions(pool)}

Next ==
  \/ \E n \in Requests :
       \/ \E lib \in Libs : CreateDevice(lib, n)
       \/ \E t \in {"none", "released"} : CreateFails(n, t)
  \/ CreateBuffer
  \/ \E p \in Ports : CreateLink(p) \/ CreateLinkFails(p)
  \/ \E n \in NumbersInPool : DeleteDevice(n) \/ DeleteLink(n) \/ DeleteBuffer(n)

Spec == Init /\ [][Next]_vars
-----------------------------------------------------------------------------
(***************************************************************************)
(* Properties.                                                             *)
(***************************************************************************)

\* Types: the list holds devices already constructed, with a number from 1 on.
TypeOK ==
  /\ class \in {"cam", "link", "buf"}
  /\ created \in 0..MaxDev
  /\ pool \in Seq(Devices)
  /\ \A i \in Positions(pool) : pool[i] <= created /\ no[pool[i]] >= 1
  /\ no \in [Devices -> Nat]
  /\ thread \in [Devices -> {"none", "running", "released"}]
  /\ driver \in [Devices -> {"none", "open", "closed"}]
  /\ libraryName \in [Devices -> Libs \cup {NULL}]
  /\ port \in [Devices -> Ports \cup {NULL}]
  /\ DOMAIN command \subseteq Nat
  /\ \A n \in DOMAIN command : command[n] \in Devices
  /\ alias \in [Libs -> Devices \cup {NULL}]
  /\ lowNumber \in BOOLEAN /\ replaced \in BOOLEAN

\* The list is kept in the strict order of the numbers, which Ajouter's search
\* for a free number relies on, and no two devices share one; only a number
\* imposed below that of the head can break it.
NumbersSorted ==
  ~lowNumber =>
    \A i, j \in Positions(pool) : i < j => no[pool[i]] < no[pool[j]]

\* The command camN, linkN or bufN exists and targets device N for every device N
\* of the list, and for nothing else unless a device was replaced: no command is
\* left to a freed CDevice.  And the command of a library, which the devices of that
\* library share, calls a listed one of them, unless a device was replaced.
CommandsServe ==
  /\ ~lowNumber =>
       /\ \A i \in Positions(pool) :
            no[pool[i]] \in DOMAIN command /\ command[no[pool[i]]] = pool[i]
       /\ ~replaced => DOMAIN command \subseteq NumbersInPool
  /\ ~replaced =>
       \A l \in Libs : alias[l] # NULL => InPool(alias[l]) /\ libraryName[alias[l]] = l

\* A listed camera has its thread, even when scripts impose numbers in any order; the
\* driver of a listed camera or link is open, however the commands reach it; and a
\* failed creation or a deletion leaves neither driver nor thread behind.
ThreadsServe ==
  /\ class = "cam" => \A i \in Positions(pool) : thread[pool[i]] = "running"
  /\ ~lowNumber /\ class # "buf" => \A i \in Positions(pool) : driver[pool[i]] = "open"
  /\ ~lowNumber /\ ~replaced =>
       \A d \in Devices : thread[d] = "running" \/ driver[d] = "open" => InPool(d)

\* A port has one link, whoever asks for it (pool_tcl.cpp: "le link existe deja , je
\* retourne son numero").
PortsDistinct ==
  class = "link" =>
    \A i, j \in Positions(pool) : port[pool[i]] = port[pool[j]] => i = j
-----------------------------------------------------------------------------
NumberedDevices == {<<no[pool[i]], pool[i]>> : i \in Positions(pool)}

Abstract == INSTANCE DeviceNumbers WITH
              DeviceIds <- Devices, Imposable <- Requests \ {NULL},
              numbered <- NumberedDevices

\* A new device gets the number its script imposes, else the smallest free one,
\* and only a deletion or a replacement frees a number (audus1_fr.htm: "Si le
\* numero n'est pas impose, alors c'est le plus petit disponible qui est utilise").
NumbersAllocated == Abstract!Spec

\* The same as long as no number was imposed below that of the head of the list.
NumbersAllocatedInOrder ==
  Abstract!Init /\ [][lowNumber \/ Abstract!Next]_NumberedDevices
=============================================================================
