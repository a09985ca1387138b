------------------------------ MODULE CBuffer ------------------------------
(***************************************************************************)
(* An image buffer (class CBuffer of libaudela) shared by two threads: the *)
(* main thread, where bufN commands run, and the thread of a camera, whose *)
(* AcqRead fills the buffer at the end of an exposure.  AcqRead and part   *)
(* of the commands go through the buffer's recursive mutex; other commands *)
(* read or replace the pixels without it.  An operation is the sequence of *)
(* its steps on the mutex, the pixels and the keywords; a step is atomic,  *)
(* and steps of the two threads interleave.  Pixels and keywords are       *)
(* abstracted to the width and height they tell, new ones for each image.  *)
(***************************************************************************)
EXTENDS Integers, Sequences

CONSTANT MaxOps            \* operations begun in a behaviour

ASSUME CBufferAssumption == MaxOps \in Nat

VARIABLES
  pix,        \* the width and height of the image pix points to, Empty or Freed
  keywords,   \* NAXIS1 and NAXIS2 in the keywords, Empty without an image
  owner,      \* the thread that holds the mutex, or "none"
  depth,      \* how many times it has locked it
  todo,       \* per thread, the steps left in its operation
  made,       \* per thread, the number of the image it made for its operation
  seen,       \* per thread, the width and height it was told of
  ops,        \* operations begun
  apart,      \* what has taken the sizes apart since they were last written together
  leaked      \* an operation left with the mutex locked

buffer == <<pix, keywords>>
mutex == <<owner, depth>>
history == <<ops, apart, leaked>>
vars == <<buffer, mutex, todo, made, seen, history>>

Threads == {"main", "cam"}
Empty == <<0, 0>>
Freed == <<-1, -1>>        \* deleted pixels, and what is read of them
Image(m) == <<m, m>>
Cube(m) == <<m, 2 * m>>    \* the planes of two files, one above the other

Changes == {"freePixels", "putEmpty", "putPixels", "putCube", "putWidth", "putSeen",
            "dropKeywords", "putNaxis", "putNaxis1", "putNaxis2", "putHeader",
            "putFileHeader"}
Asks == {"askWidth", "askHeight"}
Reads == {"read", "readPart", "measure", "convert"}
Steps == Changes \cup Asks \cup Reads \cup {"lock", "unlock"}
-----------------------------------------------------------------------------
(***************************************************************************)
(* The methods of CBuffer, as the steps they make.                         *)
(***************************************************************************)
Locked(steps) == <<"lock">> \o steps \o <<"unlock">>

\* getWidth and getHeight, two sections of their own.
AskSize == Locked(<<"askWidth">>) \o Locked(<<"askHeight">>)

FreeBuffer ==
  Locked(<<"dropKeywords">> \o Locked(<<"freePixels", "putEmpty", "putNaxis">>))

\* SetPixels (buf setpixels) writes the NAXIS keywords, setPixels (AcqRead) does not.
SetPixels == Locked(<<"freePixels", "putPixels", "putNaxis">>)

\* (faulty) The pixels are replaced without the mutex.
setPixelsUnlocked == <<"freePixels", "putPixels">>

setPixels == Locked(<<"freePixels", "putPixels">>)
setKeyword(naxis) == Locked(<<naxis>>)

\* loadFile, whose file may be unreadable once the old image is freed.
LoadFile == Locked(FreeBuffer \o <<"freePixels", "putPixels", "putHeader">>)

\* (faulty) The catch of loadFile does not unlock.
LoadFileFailsLocked == <<"lock">> \o FreeBuffer

LoadFileFails == Locked(FreeBuffer)

\* GetPixels of the size that was told.
ReadSized == AskSize \o <<"read">>

\* TtImaSeries (buf imaseries and the commands built on it).
TtImaSeries == Locked(ReadSized \o <<"freePixels", "putPixels", "putHeader">>)

\* Stat, or a TtImaSeries that fails: the catch unlocks.
Stat == Locked(ReadSized)

\* Fwhm and Cfa2Rgb have no catch: an exception leaves the mutex locked.
Fwhm == Locked(<<"measure">>)
Cfa2Rgb == Locked(<<"convert">> \o <<"freePixels", "putPixels", "putHeader">>)

\* getpix, getpixels and the visu, which ask the size before they lock to read.
GetPixels == AskSize \o Locked(<<"readPart">>)

\* CopyTo, and the many commands that read the pixels without the mutex.
CopyTo == ReadSized

\* Scar reads without the mutex and writes with it an image of the size it was told.
Scar == ReadSized \o Locked(<<"freePixels", "putSeen", "putNaxis">>)

\* The commands that replace the pixels without the mutex: A_StarList by others of the
\* size it was told, Create3d and BinX by others of a size that it does not write.
A_StarList == ReadSized \o <<"freePixels", "putSeen">>
Create3d == FreeBuffer \o <<"putCube", "putFileHeader">>
BinX == <<"putWidth">>


\* What AcqRead does with an image that was read.
AcqRead == FreeBuffer \o setPixels \o setKeyword("putNaxis1") \o setKeyword("putNaxis2")

Operations(t) ==
  IF t = "cam" THEN {AcqRead}
  ELSE {SetPixels, LoadFile, LoadFileFails, FreeBuffer, TtImaSeries, Stat, Fwhm, Cfa2Rgb,
        GetPixels, CopyTo, Scar, A_StarList, Create3d, BinX}
-----------------------------------------------------------------------------
Init ==
  /\ pix = Empty /\ keywords = Empty
  /\ owner = "none" /\ depth = 0
  /\ todo = [t \in Threads |-> <<>>]
  /\ made = [t \in Threads |-> 0]
  /\ seen = [t \in Threads |-> Empty]
  /\ ops = 0 /\ apart = "no" /\ leaked = FALSE

Begin(t) ==
  /\ todo[t] = <<>> /\ ops < MaxOps
  /\ \E steps \in Operations(t) : todo' = [todo EXCEPT ![t] = steps]
  /\ ops' = ops + 1
  /\ made' = [made EXCEPT ![t] = ops']
  /\ seen' = [seen EXCEPT ![t] = Empty]
  /\ UNCHANGED <<buffer, mutex, apart, leaked>>

Does(t, step) == todo[t] # <<>> /\ Head(todo[t]) = step

Goes(t) ==
  /\ todo' = [todo EXCEPT ![t] = Tail(@)]
  /\ UNCHANGED <<made, ops>>

\* The mutex is recursive: its owner locks it again.
Lock(t) ==
  /\ Does(t, "lock") /\ owner \in {"none", t}
  /\ owner' = t /\ depth' = depth + 1
  /\ Goes(t) /\ UNCHANGED <<buffer, seen, apart, leaked>>

\* (faulty) An unlock leaves the mutex to its last owner.
UnlockKeeps(t) ==
  /\ Does(t, "unlock")
  /\ depth' = depth - 1 /\ owner' = owner
  /\ Goes(t) /\ UNCHANGED <<buffer, seen, apart, leaked>>

Unlock(t) ==
  /\ Does(t, "unlock")
  /\ depth' = depth - 1
  /\ owner' = IF depth = 1 THEN "none" ELSE owner
  /\ Goes(t) /\ UNCHANGED <<buffer, seen, apart, leaked>>

\* BinX throws on an empty image, and finds nothing to resize in a deleted one.
PixelsAfter(t) ==
  CASE Does(t, "freePixels") -> Freed
    [] Does(t, "putEmpty")   -> Empty
    [] Does(t, "putPixels")  -> Image(made[t])
    [] Does(t, "putCube")    -> Cube(made[t])
    [] Does(t, "putSeen")    -> seen[t]
    [] Does(t, "putWidth") /\ pix \notin {Empty, Freed} -> <<made[t], pix[2]>>
    [] OTHER                 -> pix

KeywordsAfter(t) ==
  CASE Does(t, "dropKeywords") -> Empty
    [] Does(t, "putNaxis")     -> pix
    [] Does(t, "putNaxis1")    -> <<made[t], keywords[2]>>
    [] Does(t, "putNaxis2")    -> <<keywords[1], made[t]>>
    [] Does(t, "putHeader") \/ Does(t, "putFileHeader") -> Image(made[t])
    [] OTHER                   -> keywords

\* AcqRead has put its pixels and not yet their size.
Undescribed ==
  /\ \E i \in 1..Len(todo["cam"]) : todo["cam"][i] = "putNaxis2"
  /\ \A i \in 1..Len(todo["cam"]) : todo["cam"][i] # "putPixels"

\* A command that resizes alone, one that comes between the sections of AcqRead, and one
\* that writes back a size that an AcqRead has changed since.
ApartAfter(t) ==
  CASE Does(t, "putCube") \/ Does(t, "putFileHeader") -> "resized"
    [] Does(t, "putWidth") -> IF pix \in {Empty, Freed} THEN apart ELSE "resized"
    [] t = "main" /\ Undescribed -> "crossed"
    [] Does(t, "putSeen") /\ apart = "no" /\ seen[t] # keywords -> "crossed"
    [] Does(t, "putNaxis") \/ Does(t, "putHeader") \/ (t = "cam" /\ Does(t, "putPixels")) -> "no"
    [] OTHER -> apart

Change(t) ==
  /\ \E step \in Changes : Does(t, step)
  /\ pix' = PixelsAfter(t)
  /\ keywords' = KeywordsAfter(t)
  /\ apart' = ApartAfter(t)
  /\ Goes(t) /\ UNCHANGED <<mutex, seen, leaked>>

AskWidth(t) ==
  /\ Does(t, "askWidth")
  /\ seen' = [seen EXCEPT ![t] = <<pix[1], @[2]>>]
  /\ Goes(t) /\ UNCHANGED <<buffer, mutex, apart, leaked>>

AskHeight(t) ==
  /\ Does(t, "askHeight")
  /\ seen' = [seen EXCEPT ![t] = <<@[1], pix[2]>>]
  /\ Goes(t) /\ UNCHANGED <<buffer, mutex, apart, leaked>>

Read(t) ==
  /\ Does(t, "read") \/ Does(t, "readPart") \/ Does(t, "convert") \/ (Does(t, "measure") /\ pix # Empty)
  /\ Goes(t) /\ UNCHANGED <<buffer, mutex, seen, apart, leaked>>

\* CPixels::Fwhm throws on an empty image, cfa2Rgb on one it cannot convert: the command
\* ends and the mutex stays locked.
Throws(t) ==
  /\ Does(t, "convert") \/ (Does(t, "measure") /\ pix = Empty)
  /\ todo' = [todo EXCEPT ![t] = <<>>]
  /\ leaked' = TRUE
  /\ UNCHANGED <<buffer, mutex, made, seen, ops, apart>>

Step(t) ==
  Lock(t) \/ Unlock(t) \/ Change(t) \/ AskWidth(t) \/ AskHeight(t) \/ Read(t) \/ Throws(t)

Next == \E t \in Threads : Begin(t) \/ Step(t)

Spec == Init /\ [][Next]_vars

\* A thread that holds the mutex runs; one that waits for a free mutex gets it.
FairSpec == Spec /\ \A t \in Threads : WF_vars(Step(t))
-----------------------------------------------------------------------------
(***************************************************************************)
(* Properties.                                                             *)
(***************************************************************************)

Idle(t) == todo[t] = <<>>
Sizes == (0..(2 * MaxOps)) \X (0..(2 * MaxOps))

\* Types: the mutex has a depth exactly when it has an owner, and only the keywords can
\* be given a size read of deleted pixels (-1).
TypeOK ==
  /\ pix \in Sizes \cup {Freed}
  /\ keywords \in (-1..(2 * MaxOps)) \X (-1..(2 * MaxOps))
  /\ owner \in Threads \cup {"none"}
  /\ depth \in Nat /\ (depth = 0 <=> owner = "none")
  /\ todo \in [Threads -> Seq(Steps)]
  /\ made \in [Threads -> 0..MaxOps]
  /\ seen \in [Threads -> Sizes]
  /\ ops \in 0..MaxOps
  /\ apart \in {"no", "resized", "crossed"} /\ leaked \in BOOLEAN

\* A method that reads pix under the mutex never finds deleted pixels, and one that asks
\* the size under the same lock (Stat, TtImaSeries) finds the very image it asked about,
\* not one that AcqRead has put meanwhile.  Nothing is said of the size that GetPixels was
\* told before it locked (cvisu.cpp:636), nor of CopyTo and the other readers that take no
\* mutex: the code lets AcqRead delete the pixels under them (cbuffer.cpp:1892, 2091-2101).
ReadersSeeOneImage ==
  \A t \in Threads : owner = t /\ ~Idle(t) =>
    /\ Head(todo[t]) \in Reads => pix # Freed
    /\ Head(todo[t]) = "read" => seen[t] = pix


\* An AcqRead gets the mutex and ends, so that the status comes back to stand
\* (cam.htm: "En fin de pose la valeur stand est re-ecrite"), unless an exception left
\* the mutex to the main thread (Fwhm, Cfa2Rgb; in the code also CopyFrom, CopyKwdFrom
\* and AstroFiberCentro, whose catch locks instead of unlocking).
ReadOutEnds == ~Idle("cam") ~> Idle("cam") \/ leaked
=============================================================================
