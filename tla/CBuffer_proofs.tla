--------------------------- MODULE CBuffer_proofs ---------------------------
(***************************************************************************)
(* Types, the mutex that goes back and what the methods that lock it read, *)
(* for any number of operations, among them those that touch the pixels    *)
(* without the mutex.  An operation is known by facts that its suffixes    *)
(* inherit and that concatenation and locking preserve: locks and unlocks  *)
(* match, what frees the pixels puts others at once, and a size is asked   *)
(* under the very lock under which the pixels are read.                    *)
(***************************************************************************)
EXTENDS CBuffer, SequenceTheorems, TLAPS

Puts == {"putEmpty", "putPixels", "putSeen"}

\* The steps that some operation makes without the mutex.
Free == {"lock", "read", "freePixels", "putSeen", "putCube", "putWidth", "putFileHeader"}

\* The depth of the mutex after a step made at depth n, and when it may be made.
After(step, n) ==
  CASE step = "lock" -> n + 1 [] step = "unlock" -> n - 1 [] OTHER -> n

May(step, n) == step \notin Free => n > 0

\* "level" tells the depth before each of the steps s, and after the last one.
Levels(s, level) ==
  /\ level \in [1..(Len(s) + 1) -> Nat]
  /\ \A i \in 1..Len(s) : May(s[i], level[i]) /\ level[i + 1] = After(s[i], level[i])

\* From step j to step i the mutex is held and nothing is changed.
Kept(s, level, j, i) == \A x \in j..i : level[x] > 0 /\ (x < i => s[x] \notin Changes)

\* Step i comes after the size was asked, under the lock that was held then.
Told(s, level, i) ==
  \E j, k \in 1..Len(s) : /\ j < k /\ k < i /\ s[j] = "askWidth" /\ s[k] = "askHeight"
                          /\ Kept(s, level, j, i)

\* The same when some of the asking is done: v was told, and p is the image.
ToldSoFar(s, level, i, v, p) ==
  \/ Told(s, level, i)
  \/ /\ v[1] = p[1]
     /\ \E k \in 1..Len(s) : k < i /\ s[k] = "askHeight" /\ Kept(s, level, 1, i)
  \/ v = p /\ Kept(s, level, 1, i)

\* What frees the pixels puts others at once.
Replaces(s) == \A i \in 1..Len(s) : s[i] = "freePixels" => i < Len(s) /\ s[i + 1] \in Puts

\* The steps s lead from depth n to depth m.
Well(s, n, m) ==
  /\ s \in Seq(Steps)
  /\ \E level : /\ Levels(s, level) /\ level[1] = n /\ level[Len(s) + 1] = m
                /\ \A i \in 1..Len(s) : s[i] = "read" /\ level[i] > 0 => Told(s, level, i)
  /\ Replaces(s)

\* The same of the steps s that an operation has left.
Going(s, n, m, v, p) ==
  /\ s \in Seq(Steps)
  /\ \E level : /\ Levels(s, level) /\ level[1] = n /\ level[Len(s) + 1] = m
                /\ \A i \in 1..Len(s) : s[i] = "read" /\ level[i] > 0
                                          => ToldSoFar(s, level, i, v, p)
  /\ Replaces(s)
-----------------------------------------------------------------------------
(***************************************************************************)
(* Well-formed steps.                                                      *)
(***************************************************************************)
LEMMA StepNames ==
  /\ "lock" \in Steps /\ "unlock" \in Steps
  /\ \A step \in Changes \cup Asks \cup Reads :
       step \in Steps /\ step # "lock" /\ step # "unlock"
  /\ \A step \in Puts : step \in Changes /\ step # "freePixels" /\ step \notin Reads
  /\ \A step \in Changes : step \notin Asks /\ step \notin Reads
  /\ \A step \in Asks : step \notin Reads
  BY DEF Steps, Changes, Asks, Reads, Puts

\* No steps, and one step.
LEMMA WellNone == ASSUME NEW n \in Nat PROVE Well(<<>>, n, n)
<1> DEFINE level == [i \in 1..(Len(<<>>) + 1) |-> n]
<1>1. Len(<<>>) = 0 /\ <<>> \in Seq(Steps)
  OBVIOUS
<1>2. Levels(<<>>, level) /\ level[1] = n
  BY <1>1 DEF Levels
<1> QED
  BY <1>1, <1>2 DEF Well, Replaces

LEMMA WellOne ==
  ASSUME NEW step \in Steps, step # "freePixels", NEW n \in Nat, May(step, n),
         step = "read" => n = 0
  PROVE  After(step, n) \in Nat /\ Well(<<step>>, n, After(step, n))
<1>1. After(step, n) \in Nat
  BY DEF After, May, Free
<1> DEFINE s == <<step>>
           level == [i \in 1..2 |-> IF i = 1 THEN n ELSE After(step, n)]
<1>2. s \in Seq(Steps) /\ Len(s) = 1 /\ s[1] = step
  OBVIOUS
<1>3. level \in [1..2 -> Nat] /\ level[1] = n /\ level[2] = After(step, n)
  BY <1>1
<1> HIDE DEF s, level
<1>4. Levels(s, level)
  BY <1>2, <1>3 DEF Levels
<1>5. Replaces(s)
  BY <1>2 DEF Replaces
<1>6. \A i \in 1..Len(s) : ~(s[i] = "read" /\ level[i] > 0)
  BY <1>2, <1>3
<1> QED
  BY <1>1, <1>2, <1>3, <1>4, <1>5, <1>6 DEF Well, s

\* Pixels and keywords, at one depth.
LEMMA WellInside ==
  ASSUME NEW s \in Seq(Changes \cup Asks \cup Reads), NEW n \in Nat, Replaces(s),
         \A i \in 1..Len(s) : s[i] # "read" /\ May(s[i], n)
  PROVE  Well(s, n, n)
<1> DEFINE level == [i \in 1..(Len(s) + 1) |-> n]
<1>1. Len(s) \in Nat /\ \A i \in 1..Len(s) : s[i] \in Changes \cup Asks \cup Reads
  OBVIOUS
<1>2. s \in Seq(Steps)
  BY DEF Steps
<1>3. level \in [1..(Len(s) + 1) -> Nat] /\ \A i \in 1..(Len(s) + 1) : level[i] = n
  OBVIOUS
<1> HIDE DEF level
<1>4. ASSUME NEW i \in 1..Len(s)
      PROVE  May(s[i], level[i]) /\ level[i + 1] = After(s[i], level[i])
  <2>1. s[i] # "lock" /\ s[i] # "unlock"
    BY <1>1, StepNames
  <2>2. level[i] = n /\ level[i + 1] = n
    BY <1>1, <1>3
  <2> QED
    BY <2>1, <2>2 DEF After
<1>5. Levels(s, level)
  BY <1>3, <1>4 DEF Levels
<1>6. level[1] = n /\ level[Len(s) + 1] = n
  BY <1>1, <1>3
<1> QED
  BY <1>2, <1>5, <1>6 DEF Well

\* One after the other.
LEMMA WellConcat ==
  ASSUME NEW s, NEW r, NEW n, NEW m, NEW k, Well(s, n, m), Well(r, m, k)
  PROVE  Well(s \o r, n, k)
<1>1. PICK a : /\ Levels(s, a) /\ a[1] = n /\ a[Len(s) + 1] = m
               /\ \A i \in 1..Len(s) : s[i] = "read" /\ a[i] > 0 => Told(s, a, i)
  BY DEF Well
<1>2. PICK b : /\ Levels(r, b) /\ b[1] = m /\ b[Len(r) + 1] = k
               /\ \A i \in 1..Len(r) : r[i] = "read" /\ b[i] > 0 => Told(r, b, i)
  BY DEF Well
<1>3. s \in Seq(Steps) /\ r \in Seq(Steps) /\ Len(s) \in Nat /\ Len(r) \in Nat
  BY DEF Well
<1> DEFINE q == s \o r
           level == [i \in 1..(Len(s) + Len(r) + 1) |->
                       IF i <= Len(s) THEN a[i] ELSE b[i - Len(s)]]
<1>4. /\ q \in Seq(Steps) /\ Len(q) = Len(s) + Len(r)
      /\ \A i \in 1..Len(s) : q[i] = s[i]
      /\ \A i \in 1..Len(r) : q[Len(s) + i] = r[i]
  BY <1>3
<1>5. /\ \A i \in 1..(Len(s) + 1) : level[i] = a[i]
      /\ \A i \in 1..(Len(r) + 1) : level[Len(s) + i] = b[i]
  BY <1>1, <1>2, <1>3
<1>6. level \in [1..(Len(s) + Len(r) + 1) -> Nat]
  BY <1>1, <1>2, <1>3 DEF Levels
<1> HIDE DEF q, level
<1>7. \A i \in 1..(Len(s) + Len(r)) :
        i \in 1..Len(s) \/ \E j \in 1..Len(r) : i = Len(s) + j
  <2> TAKE i \in 1..(Len(s) + Len(r))
  <2>1. CASE i <= Len(s)
    BY <1>3, <2>1
  <2>2. CASE i > Len(s)
    <3>1. i - Len(s) \in 1..Len(r) /\ i = Len(s) + (i - Len(s))
      BY <1>3, <2>2
    <3> QED
      BY <3>1
  <2> QED
    BY <1>3, <2>1, <2>2
<1>8. ASSUME NEW i \in 1..Len(q)
      PROVE  May(q[i], level[i]) /\ level[i + 1] = After(q[i], level[i])
  <2>1. CASE i \in 1..Len(s)
    <3>1. i \in 1..(Len(s) + 1) /\ i + 1 \in 1..(Len(s) + 1)
      BY <1>3, <2>1
    <3>2. May(s[i], a[i]) /\ a[i + 1] = After(s[i], a[i])
      BY <1>1, <2>1 DEF Levels
    <3> QED
      BY <1>4, <1>5, <2>1, <3>1, <3>2
  <2>2. ASSUME NEW j \in 1..Len(r), i = Len(s) + j
        PROVE  May(q[i], level[i]) /\ level[i + 1] = After(q[i], level[i])
    <3>1. j \in 1..(Len(r) + 1) /\ j + 1 \in 1..(Len(r) + 1) /\ i + 1 = Len(s) + (j + 1)
      BY <1>3, <2>2
    <3>2. May(r[j], b[j]) /\ b[j + 1] = After(r[j], b[j])
      BY <1>2 DEF Levels
    <3>3. level[i] = b[j] /\ level[i + 1] = b[j + 1] /\ q[i] = r[j]
      BY <1>4, <1>5, <2>2, <3>1
    <3> QED
      BY <3>2, <3>3
  <2> QED
    BY <1>4, <1>7, <2>1, <2>2
<1>9. Levels(q, level)
  BY <1>4, <1>6, <1>8 DEF Levels
<1>10. level[1] = n /\ level[Len(q) + 1] = k
  <2>1. 1 \in 1..(Len(s) + 1) /\ Len(r) + 1 \in 1..(Len(r) + 1)
        /\ Len(q) + 1 = Len(s) + (Len(r) + 1)
    BY <1>3, <1>4
  <2> QED
    BY <1>1, <1>2, <1>5, <2>1
<1>11. ASSUME NEW i \in 1..Len(q), q[i] = "freePixels"
       PROVE  i < Len(q) /\ q[i + 1] \in Puts
  <2>1. CASE i \in 1..Len(s)
    <3>1. i < Len(s) /\ s[i + 1] \in Puts
      BY <1>4, <1>11, <2>1 DEF Well, Replaces
    <3>2. i + 1 \in 1..Len(s) /\ i < Len(q)
      BY <1>3, <1>4, <2>1, <3>1
    <3> QED
      BY <1>4, <3>1, <3>2
  <2>2. ASSUME NEW j \in 1..Len(r), i = Len(s) + j
        PROVE  i < Len(q) /\ q[i + 1] \in Puts
    <3>1. r[j] = "freePixels"
      BY <1>4, <1>11, <2>2
    <3>2. j < Len(r) /\ r[j + 1] \in Puts
      BY <3>1 DEF Well, Replaces
    <3>3. j + 1 \in 1..Len(r) /\ i + 1 = Len(s) + (j + 1) /\ i < Len(q)
      <4>1. Len(q) = Len(s) + Len(r) /\ j \in Nat /\ j >= 1 /\ j < Len(r)
        BY <1>4, <3>2
      <4> QED
        BY <1>3, <2>2, <4>1
    <3> QED
      BY <1>4, <3>2, <3>3
  <2> QED
    BY <1>4, <1>7, <2>1, <2>2
<1>12. ASSUME NEW i \in 1..Len(q), q[i] = "read", level[i] > 0
       PROVE  Told(q, level, i)
  <2>1. CASE i \in 1..Len(s)
    <3>1. s[i] = "read" /\ a[i] > 0
      BY <1>3, <1>4, <1>5, <1>12, <2>1
    <3>2. PICK j, l \in 1..Len(s) : /\ j < l /\ l < i /\ s[j] = "askWidth"
                                   /\ s[l] = "askHeight" /\ Kept(s, a, j, i)
      BY <1>1, <2>1, <3>1 DEF Told
    <3>3. \A x \in j..i : x \in 1..Len(s) /\ q[x] = s[x] /\ level[x] = a[x]
      BY <1>3, <1>4, <1>5, <2>1
    <3>4. Kept(q, level, j, i)
      BY <3>2, <3>3 DEF Kept
    <3>5. j \in 1..Len(q) /\ l \in 1..Len(q) /\ q[j] = "askWidth" /\ q[l] = "askHeight"
      BY <1>3, <1>4, <3>2
    <3> QED
      BY <3>2, <3>4, <3>5 DEF Told
  <2>2. ASSUME NEW h \in 1..Len(r), i = Len(s) + h PROVE Told(q, level, i)
    <3>1. r[h] = "read" /\ b[h] > 0
      <4>1. q[i] = r[h]
        BY <1>4, <2>2
      <4>2. h \in 1..(Len(r) + 1)
        BY <1>3
      <4>3. level[i] = b[h]
        BY <1>5, <2>2, <4>2
      <4> QED
        BY <1>12, <4>1, <4>3
    <3>2. PICK j, l \in 1..Len(r) : /\ j < l /\ l < h /\ r[j] = "askWidth"
                                   /\ r[l] = "askHeight" /\ Kept(r, b, j, h)
      BY <1>2, <3>1 DEF Told
    <3> DEFINE jj == Len(s) + j
               ll == Len(s) + l
    <3>3. /\ jj \in 1..Len(q) /\ ll \in 1..Len(q) /\ jj < ll /\ ll < i
          /\ q[jj] = "askWidth" /\ q[ll] = "askHeight"
      BY <1>3, <1>4, <2>2, <3>2
    <3>4. ASSUME NEW x \in jj..i PROVE level[x] > 0 /\ (x < i => q[x] \notin Changes)
      <4>1. /\ x - Len(s) \in j..h /\ x - Len(s) \in 1..Len(r)
            /\ x - Len(s) \in 1..(Len(r) + 1) /\ x = Len(s) + (x - Len(s))
        BY <1>3, <2>2, <3>2
      <4>2. level[x] = b[x - Len(s)] /\ q[x] = r[x - Len(s)]
        BY <1>4, <1>5, <4>1
      <4>3. x < i => x - Len(s) < h
        BY <1>3, <2>2
      <4> QED
        BY <3>2, <4>1, <4>2, <4>3 DEF Kept
    <3> HIDE DEF jj, ll
    <3>5. Kept(q, level, jj, i)
      BY <3>4 DEF Kept
    <3> QED
      BY <3>3, <3>5 DEF Told
  <2> QED
    BY <1>4, <1>7, <2>1, <2>2
<1> QED
  BY <1>4, <1>9, <1>10, <1>11, <1>12 DEF Well, Replaces, q

\* Under the mutex.
LEMMA WellLocked ==
  ASSUME NEW s, NEW n \in Nat, Well(s, n + 1, n + 1)
  PROVE  Well(Locked(s), n, n)
<1>1. After("lock", n) = n + 1 /\ May("lock", n)
  BY DEF After, May, Free
<1>2. After("unlock", n + 1) = n /\ May("unlock", n + 1) /\ n + 1 \in Nat
  BY DEF After, May, Free
<1>3. Well(<<"lock">>, n, n + 1)
  BY <1>1, StepNames, WellOne
<1>4. Well(<<"unlock">>, n + 1, n)
  BY <1>2, StepNames, WellOne
<1>5. Well(<<"lock">> \o s, n, n + 1)
  BY <1>3, WellConcat
<1>6. Well((<<"lock">> \o s) \o <<"unlock">>, n, n)
  BY <1>4, <1>5, WellConcat
<1> QED
  BY <1>6 DEF Locked

\* A step that frees nothing and reads no size, under a lock.
LEMMA WellStep ==
  ASSUME NEW step \in Changes \cup Asks \cup Reads, step # "freePixels", step # "read",
         NEW n \in Nat
  PROVE  Well(<<step>>, n + 1, n + 1)
<1>1. step \in Steps /\ n + 1 \in Nat /\ n + 1 > 0 /\ May(step, n + 1)
  BY StepNames DEF May
<1>2. After(step, n + 1) = n + 1
  BY StepNames DEF After
<1> QED
  BY <1>1, <1>2, WellOne

\* Pixels that are freed, replaced and described, under a lock.
LEMMA WellReplace ==
  ASSUME NEW put \in Puts, NEW step \in Changes, step # "freePixels", NEW n \in Nat
  PROVE  /\ Well(<<"freePixels", put>>, n + 1, n + 1)
         /\ Well(<<"freePixels", put, step>>, n + 1, n + 1)
<1> DEFINE s == <<"freePixels", put>>
           r == <<"freePixels", put, step>>
<1>1. "freePixels" \in Changes /\ put \in Changes /\ put # "freePixels"
  BY StepNames DEF Changes
<1>2. /\ s \in Seq(Changes \cup Asks \cup Reads) /\ Len(s) = 2 /\ s[1] = "freePixels" /\ s[2] = put
      /\ r \in Seq(Changes \cup Asks \cup Reads) /\ Len(r) = 3 /\ r[1] = "freePixels" /\ r[2] = put
      /\ r[3] = step
  BY <1>1
<1>3. n + 1 \in Nat /\ \A other : May(other, n + 1)
  BY DEF May
<1>4. put # "read" /\ step # "read"
  BY <1>1, StepNames DEF Reads
<1> HIDE DEF s, r
<1>5. Replaces(s) /\ Replaces(r)
  BY <1>1, <1>2 DEF Replaces
<1>6. (\A i \in 1..Len(s) : s[i] # "read") /\ (\A i \in 1..Len(r) : r[i] # "read")
  BY <1>2, <1>4
<1>7. Well(s, n + 1, n + 1) /\ Well(r, n + 1, n + 1)
  BY <1>2, <1>3, <1>5, <1>6, WellInside
<1> QED
  BY <1>7 DEF s, r

\* Pixels that are replaced without the mutex.
LEMMA WellBare ==
  ASSUME NEW n \in Nat
  PROVE  /\ Well(<<"freePixels", "putSeen">>, n, n) /\ Well(<<"putWidth">>, n, n)
         /\ Well(<<"putCube", "putFileHeader">>, n, n)
<1> DEFINE s == <<"freePixels", "putSeen">>
           r == <<"putCube", "putFileHeader">>
           b == <<"putWidth">>
<1>1. /\ s \in Seq(Changes \cup Asks \cup Reads) /\ Len(s) = 2
      /\ s[1] = "freePixels" /\ s[2] = "putSeen"
      /\ r \in Seq(Changes \cup Asks \cup Reads) /\ Len(r) = 2
      /\ r[1] = "putCube" /\ r[2] = "putFileHeader"
      /\ b \in Seq(Changes \cup Asks \cup Reads) /\ Len(b) = 1 /\ b[1] = "putWidth"
  BY DEF Changes
<1> HIDE DEF s, r, b
<1>2. Replaces(s) /\ Replaces(r) /\ Replaces(b)
  BY <1>1 DEF Replaces, Puts
<1>3. /\ \A i \in 1..Len(s) : s[i] # "read" /\ May(s[i], n)
      /\ \A i \in 1..Len(r) : r[i] # "read" /\ May(r[i], n)
      /\ \A i \in 1..Len(b) : b[i] # "read" /\ May(b[i], n)
  BY <1>1 DEF May, Free
<1>4. Well(s, n, n) /\ Well(r, n, n) /\ Well(b, n, n)
  BY <1>1, <1>2, <1>3, WellInside
<1> QED
  BY <1>4 DEF s, r, b

\* The size is asked in two sections, and the pixels are read at the depth around them.
LEMMA ConcatAt ==
  ASSUME NEW s \in Seq(Steps), NEW r \in Seq(Steps)
  PROVE  /\ s \o r \in Seq(Steps) /\ Len(s \o r) = Len(s) + Len(r)
         /\ \A i \in 1..Len(s) : (s \o r)[i] = s[i]
         /\ \A i \in 1..Len(r) : (s \o r)[Len(s) + i] = r[i]
OBVIOUS

LEMMA LockedOne ==
  ASSUME NEW step \in Steps
  PROVE  /\ Locked(<<step>>) \in Seq(Steps) /\ Len(Locked(<<step>>)) = 3
         /\ Locked(<<step>>)[1] = "lock" /\ Locked(<<step>>)[2] = step
         /\ Locked(<<step>>)[3] = "unlock"
<1> DEFINE a == <<"lock">>
           b == <<step>>
           c == <<"unlock">>
<1>1. /\ a \in Seq(Steps) /\ Len(a) = 1 /\ a[1] = "lock"
      /\ b \in Seq(Steps) /\ Len(b) = 1 /\ b[1] = step
      /\ c \in Seq(Steps) /\ Len(c) = 1 /\ c[1] = "unlock"
  BY StepNames
<1>2. Locked(<<step>>) = (a \o b) \o c
  BY DEF Locked
<1> HIDE DEF a, b, c
<1> DEFINE d == a \o b
<1>3. d \in Seq(Steps) /\ Len(d) = 2 /\ d[1] = a[1] /\ d[2] = b[1]
  <2>1. /\ d \in Seq(Steps) /\ Len(d) = Len(a) + Len(b)
        /\ \A i \in 1..Len(a) : d[i] = a[i]
        /\ \A i \in 1..Len(b) : d[Len(a) + i] = b[i]
    BY <1>1, ConcatAt
  <2> QED
    BY <1>1, <2>1
<1> HIDE DEF d
<1>4. /\ d \o c \in Seq(Steps) /\ Len(d \o c) = 3 /\ (d \o c)[1] = d[1]
      /\ (d \o c)[2] = d[2] /\ (d \o c)[3] = c[1]
  <2> DEFINE e == d \o c
  <2>1. /\ e \in Seq(Steps) /\ Len(e) = Len(d) + Len(c)
        /\ \A i \in 1..Len(d) : e[i] = d[i]
        /\ \A i \in 1..Len(c) : e[Len(d) + i] = c[i]
    BY <1>1, <1>3, ConcatAt
  <2> HIDE DEF e
  <2>2. e \in Seq(Steps) /\ Len(e) = 3 /\ e[1] = d[1] /\ e[2] = d[2] /\ e[3] = c[1]
    BY <1>1, <1>3, <2>1
  <2> QED
    BY <2>2 DEF e
<1> QED
  BY <1>1, <1>2, <1>3, <1>4 DEF d

LEMMA ReadSizedSteps ==
  /\ ReadSized \in Seq(Steps) /\ Len(ReadSized) = 7
  /\ ReadSized[1] = "lock" /\ ReadSized[2] = "askWidth" /\ ReadSized[3] = "unlock"
  /\ ReadSized[4] = "lock" /\ ReadSized[5] = "askHeight" /\ ReadSized[6] = "unlock"
  /\ ReadSized[7] = "read"
<1> DEFINE a == Locked(<<"askWidth">>)
           b == Locked(<<"askHeight">>)
<1>2. "askWidth" \in Steps /\ "askHeight" \in Steps /\ "read" \in Steps
  BY DEF Steps, Asks, Reads
<1>3. a \in Seq(Steps) /\ b \in Seq(Steps) /\ Len(a) = 3 /\ Len(b) = 3
  BY <1>2, LockedOne
<1>4. /\ a[1] = "lock" /\ a[2] = "askWidth" /\ a[3] = "unlock"
      /\ b[1] = "lock" /\ b[2] = "askHeight" /\ b[3] = "unlock"
  BY <1>2, LockedOne
<1>5. AskSize = a \o b
  BY DEF AskSize
<1> HIDE DEF a, b
<1>6. /\ AskSize \in Seq(Steps) /\ Len(AskSize) = 6
      /\ AskSize[1] = a[1] /\ AskSize[2] = a[2] /\ AskSize[3] = a[3]
      /\ AskSize[4] = b[1] /\ AskSize[5] = b[2] /\ AskSize[6] = b[3]
  <2>1. /\ AskSize \in Seq(Steps) /\ Len(AskSize) = Len(a) + Len(b)
        /\ \A i \in 1..Len(a) : AskSize[i] = a[i]
        /\ \A i \in 1..Len(b) : AskSize[Len(a) + i] = b[i]
    BY <1>3, <1>5, ConcatAt
  <2> QED
    BY <1>3, <2>1
<1> DEFINE q == AskSize
           e == <<"read">>
<1>7. e \in Seq(Steps) /\ Len(e) = 1 /\ e[1] = "read"
  BY <1>2
<1> HIDE DEF q, e
<1>8. q \in Seq(Steps) /\ Len(q) = 6
  BY <1>6 DEF q
<1>9. /\ q \o e \in Seq(Steps) /\ Len(q \o e) = 7
      /\ \A i \in 1..6 : (q \o e)[i] = q[i]
      /\ (q \o e)[7] = e[1]
  <2> DEFINE f == q \o e
  <2>1. /\ f \in Seq(Steps) /\ Len(f) = Len(q) + Len(e)
        /\ \A i \in 1..Len(q) : f[i] = q[i]
        /\ \A i \in 1..Len(e) : f[Len(q) + i] = e[i]
    BY <1>7, <1>8, ConcatAt
  <2> HIDE DEF f
  <2>2. f \in Seq(Steps) /\ Len(f) = 7 /\ (\A i \in 1..6 : f[i] = q[i]) /\ f[7] = e[1]
    BY <1>7, <1>8, <2>1
  <2> QED
    BY <2>2 DEF f
<1>10. ReadSized = q \o e
  BY DEF ReadSized, q, e
<1> QED
  BY <1>4, <1>6, <1>7, <1>9, <1>10 DEF q

LEMMA WellReadSized == ASSUME NEW n \in Nat PROVE Well(ReadSized, n, n)
<1> DEFINE s == ReadSized
           level == [i \in 1..8 |-> IF i \in {2, 3, 5, 6} THEN n + 1 ELSE n]
<1>1. /\ s \in Seq(Steps) /\ Len(s) = 7
      /\ s[1] = "lock" /\ s[2] = "askWidth" /\ s[3] = "unlock"
      /\ s[4] = "lock" /\ s[5] = "askHeight" /\ s[6] = "unlock" /\ s[7] = "read"
  BY ReadSizedSteps
<1>2. /\ level \in [1..8 -> Nat]
      /\ level[1] = n /\ level[2] = n + 1 /\ level[3] = n + 1 /\ level[4] = n
      /\ level[5] = n + 1 /\ level[6] = n + 1 /\ level[7] = n /\ level[8] = n
  OBVIOUS
<1> HIDE DEF s, level
<1>3. ASSUME NEW i \in 1..Len(s)
      PROVE  May(s[i], level[i]) /\ level[i + 1] = After(s[i], level[i])
  <2>1. i \in {1, 2, 3, 4, 5, 6, 7}
    BY <1>1
  <2> QED
    BY <1>1, <1>2, <2>1 DEF May, Free, After
<1>4. Levels(s, level)
  BY <1>1, <1>2, <1>3 DEF Levels
<1>5. ASSUME NEW i \in 1..Len(s), s[i] = "read", level[i] > 0
      PROVE  Told(s, level, i)
  <2>1. i = 7 /\ n > 0
    <3>1. i \in {1, 2, 3, 4, 5, 6, 7}
      BY <1>1
    <3> QED
      BY <1>1, <1>2, <1>5, <3>1
  <2>2. ASSUME NEW x \in 2..7 PROVE level[x] > 0 /\ (x < 7 => s[x] \notin Changes)
    <3>1. x \in {2, 3, 4, 5, 6, 7}
      OBVIOUS
    <3> QED
      BY <1>1, <1>2, <2>1, <3>1 DEF Changes
  <2>3. Kept(s, level, 2, 7)
    BY <2>2 DEF Kept
  <2> QED
    BY <1>1, <2>1, <2>3 DEF Told
<1>6. Replaces(s)
  <2>1. \A i \in 1..Len(s) : i \in {1, 2, 3, 4, 5, 6, 7}
    BY <1>1
  <2> QED
    BY <1>1, <2>1 DEF Replaces
<1>7. Well(s, n, n)
  BY <1>1, <1>2, <1>4, <1>5, <1>6 DEF Well
<1> QED
  BY <1>7 DEF s

\* An operation begins with nothing asked.
LEMMA WellGoing ==
  ASSUME NEW s, NEW n, NEW m, NEW v, NEW p, Well(s, n, m) PROVE Going(s, n, m, v, p)
BY DEF Well, Going, ToldSoFar

\* The first of the steps left.
LEMMA StepNow ==
  ASSUME NEW s, NEW n \in Nat, NEW m, NEW v, NEW p, Going(s, n, m, v, p), s # <<>>
  PROVE  /\ s \in Seq(Steps) /\ Head(s) \in Steps /\ May(Head(s), n) /\ After(Head(s), n) \in Nat
         /\ Head(s) = "freePixels"
              => Tail(s) # <<>> /\ Head(Tail(s)) \in Puts /\ May(Head(Tail(s)), n)
         /\ Head(s) = "read" /\ n > 0 => v = p
<1>1. PICK a : /\ Levels(s, a) /\ a[1] = n
               /\ \A i \in 1..Len(s) : s[i] = "read" /\ a[i] > 0 => ToldSoFar(s, a, i, v, p)
  BY DEF Going
<1>2. s \in Seq(Steps) /\ Len(s) \in Nat /\ Len(s) > 0 /\ Head(s) = s[1] /\ 1 \in 1..Len(s)
  BY DEF Going
<1>3. s[1] \in Steps /\ May(s[1], n) /\ a[2] = After(s[1], n) /\ a[2] \in Nat
  BY <1>1, <1>2 DEF Levels
<1>4. ASSUME s[1] = "freePixels"
      PROVE  Tail(s) # <<>> /\ Head(Tail(s)) \in Puts /\ May(Head(Tail(s)), n)
  <2>1. 1 < Len(s) /\ s[2] \in Puts
    BY <1>2, <1>4 DEF Going, Replaces
  <2>2. Tail(s) # <<>> /\ Head(Tail(s)) = s[2]
    <3> DEFINE r == Tail(s)
    <3>1. r \in Seq(Steps) /\ Len(r) = Len(s) - 1 /\ r[1] = s[2]
      BY <1>2, <2>1
    <3> HIDE DEF r
    <3>2. r # <<>> /\ Head(r) = r[1]
      BY <1>2, <2>1, <3>1
    <3> QED
      BY <3>1, <3>2 DEF r
  <2>3. May(s[2], a[2]) /\ a[2] = n
    BY <1>1, <1>2, <1>3, <1>4, <2>1 DEF Levels, After
  <2> QED
    BY <2>1, <2>2, <2>3
<1>5. ASSUME s[1] = "read", n > 0 PROVE v = p
  <2>1. ToldSoFar(s, a, 1, v, p)
    BY <1>1, <1>2, <1>5
  <2> QED
    BY <1>2, <2>1 DEF ToldSoFar, Told
<1> QED
  BY <1>2, <1>3, <1>4, <1>5

\* The steps left, once the first is done: it has left the image or the sizes told alone,
\* or asked for one of them.
LEMMA GoingTail ==
  ASSUME NEW s, NEW n \in Nat, NEW m, NEW v, NEW p, NEW w, NEW q,
         Going(s, n, m, v, p), s # <<>>, p = <<p[1], p[2]>>,
         Head(s) \notin Changes => q = p,
         Head(s) \notin Asks => w = v,
         Head(s) = "askWidth" => w = <<p[1], v[2]>>,
         Head(s) = "askHeight" => w = <<v[1], p[2]>>
  PROVE  Going(Tail(s), After(Head(s), n), m, w, q)
<1> DEFINE r == Tail(s)
<1>1. PICK a : /\ Levels(s, a) /\ a[1] = n /\ a[Len(s) + 1] = m
               /\ \A i \in 1..Len(s) : s[i] = "read" /\ a[i] > 0 => ToldSoFar(s, a, i, v, p)
  BY DEF Going
<1>2. s \in Seq(Steps) /\ Len(s) \in Nat /\ Len(s) > 0 /\ Head(s) = s[1] /\ 1 \in 1..Len(s)
  BY DEF Going
<1>3. /\ r \in Seq(Steps) /\ Len(r) = Len(s) - 1 /\ Len(r) \in Nat
      /\ \A i \in 1..Len(r) : r[i] = s[i + 1]
  BY <1>2
<1> DEFINE level == [i \in 1..(Len(r) + 1) |-> a[i + 1]]
<1>4. /\ \A i \in 1..(Len(r) + 1) : level[i] = a[i + 1]
      /\ \A i \in 1..(Len(r) + 1) : i + 1 \in 1..(Len(s) + 1)
  BY <1>2, <1>3
<1>5. level \in [1..(Len(r) + 1) -> Nat]
  BY <1>1, <1>4 DEF Levels
<1> HIDE DEF r, level
<1>6. a[2] = After(s[1], n)
  BY <1>1, <1>2 DEF Levels
<1>7. ASSUME NEW i \in 1..Len(r)
      PROVE  May(r[i], level[i]) /\ level[i + 1] = After(r[i], level[i])
  <2>1. i + 1 \in 1..Len(s) /\ i \in 1..(Len(r) + 1) /\ i + 1 \in 1..(Len(r) + 1)
    BY <1>2, <1>3
  <2>2. May(s[i + 1], a[i + 1]) /\ a[(i + 1) + 1] = After(s[i + 1], a[i + 1])
    BY <1>1, <2>1 DEF Levels
  <2> QED
    BY <1>3, <1>4, <2>1, <2>2
<1>8. level[1] = After(s[1], n) /\ level[Len(r) + 1] = m
  BY <1>1, <1>2, <1>3, <1>4, <1>6
<1>9. Replaces(r)
  <2> SUFFICES ASSUME NEW i \in 1..Len(r), r[i] = "freePixels"
               PROVE  i < Len(r) /\ r[i + 1] \in Puts
    BY DEF Replaces
  <2>1. i + 1 \in 1..Len(s) /\ s[i + 1] = "freePixels"
    BY <1>2, <1>3
  <2>2. i + 1 < Len(s) /\ s[(i + 1) + 1] \in Puts
    BY <2>1 DEF Going, Replaces
  <2>3. i < Len(r) /\ i + 1 \in 1..Len(r)
    BY <1>2, <1>3, <2>2
  <2> QED
    BY <1>3, <2>2, <2>3
<1>10. Levels(r, level)
  BY <1>5, <1>7 DEF Levels
<1>11. ASSUME NEW j \in 1..Len(s), NEW i \in 1..Len(r), j > 1, Kept(s, a, j, i + 1)
       PROVE  Kept(r, level, j - 1, i)
  <2> SUFFICES ASSUME NEW x \in (j - 1)..i PROVE level[x] > 0 /\ (x < i => r[x] \notin Changes)
    BY DEF Kept
  <2>1. /\ x + 1 \in j..(i + 1) /\ x \in 1..Len(r) /\ x \in 1..(Len(r) + 1)
        /\ (x < i => x + 1 < i + 1)
    BY <1>2, <1>3, <1>11
  <2> QED
    BY <1>3, <1>4, <1>11, <2>1 DEF Kept
<1>12. ASSUME NEW i \in 1..Len(r), Kept(s, a, 1, i + 1)
       PROVE  Kept(r, level, 1, i) /\ s[1] \notin Changes
  <2>1. 1 \in 1..(i + 1) /\ 1 < i + 1
    BY <1>3
  <2>2. s[1] \notin Changes
    BY <1>12, <2>1 DEF Kept
  <2>3. ASSUME NEW x \in 1..i PROVE level[x] > 0 /\ (x < i => r[x] \notin Changes)
    <3>1. x + 1 \in 1..(i + 1) /\ x \in 1..Len(r) /\ x \in 1..(Len(r) + 1)
          /\ (x < i => x + 1 < i + 1)
      BY <1>2, <1>3
    <3> QED
      BY <1>3, <1>4, <1>12, <3>1 DEF Kept
  <2> QED
    BY <2>2, <2>3 DEF Kept
<1>13. ASSUME NEW i \in 1..Len(r), r[i] = "read", level[i] > 0
       PROVE  ToldSoFar(r, level, i, w, q)
  <2>1. i + 1 \in 1..Len(s) /\ s[i + 1] = "read" /\ a[i + 1] > 0
    BY <1>2, <1>3, <1>4, <1>13
  <2>2. ToldSoFar(s, a, i + 1, v, p)
    BY <1>1, <2>1
  <2>3. ASSUME Told(s, a, i + 1) PROVE ToldSoFar(r, level, i, w, q)
    <3>1. PICK j, k \in 1..Len(s) : /\ j < k /\ k < i + 1 /\ s[j] = "askWidth"
                                   /\ s[k] = "askHeight" /\ Kept(s, a, j, i + 1)
      BY <2>3 DEF Told
    <3>2. k - 1 \in 1..Len(r) /\ k - 1 < i /\ (k - 1) + 1 = k
      BY <1>2, <1>3, <3>1
    <3>3. r[k - 1] = "askHeight"
      BY <1>3, <3>1, <3>2
    <3>4. CASE j > 1
      <4>1. j - 1 \in 1..Len(r) /\ j - 1 < k - 1 /\ (j - 1) + 1 = j
        BY <1>2, <1>3, <3>1, <3>4
      <4>2. r[j - 1] = "askWidth" /\ Kept(r, level, j - 1, i)
        BY <1>3, <1>11, <3>1, <3>4, <4>1
      <4> QED
        BY <3>2, <3>3, <4>1, <4>2 DEF ToldSoFar, Told
    <3>5. CASE j = 1
      <4>1. Kept(r, level, 1, i) /\ s[1] \notin Changes
        BY <1>12, <3>1, <3>5
      <4>2. w[1] = q[1]
        BY <1>2, <3>1, <3>5, <4>1
      <4> QED
        BY <3>2, <3>3, <4>1, <4>2 DEF ToldSoFar
    <3> QED
      BY <3>4, <3>5
  <2>4. ASSUME NEW k \in 1..Len(s), v[1] = p[1], k < i + 1, s[k] = "askHeight",
               Kept(s, a, 1, i + 1)
        PROVE  ToldSoFar(r, level, i, w, q)
    <3>1. Kept(r, level, 1, i) /\ q = p
      BY <1>2, <1>12, <2>4
    <3>2. CASE k = 1
      <4>1. w = p
        BY <1>2, <2>4, <3>2
      <4> QED
        BY <3>1, <4>1 DEF ToldSoFar
    <3>3. CASE k > 1
      <4>1. k - 1 \in 1..Len(r) /\ k - 1 < i /\ (k - 1) + 1 = k
        BY <1>2, <1>3, <2>4, <3>3
      <4>2. r[k - 1] = "askHeight"
        BY <1>3, <2>4, <4>1
      <4>3. w[1] = q[1]
        <5>1. Head(s) \in Asks => Head(s) = "askWidth" \/ Head(s) = "askHeight"
          BY DEF Asks
        <5> QED
          BY <2>4, <3>1, <5>1
      <4> QED
        BY <3>1, <4>1, <4>2, <4>3 DEF ToldSoFar
    <3> QED
      BY <3>2, <3>3
  <2>5. ASSUME v = p, Kept(s, a, 1, i + 1) PROVE ToldSoFar(r, level, i, w, q)
    <3>1. Kept(r, level, 1, i) /\ q = p
      BY <1>2, <1>12, <2>5
    <3>2. w = p
      <4>1. Head(s) \in Asks => Head(s) = "askWidth" \/ Head(s) = "askHeight"
        BY DEF Asks
      <4> QED
        BY <2>5, <4>1
    <3> QED
      BY <3>1, <3>2 DEF ToldSoFar
  <2> QED
    BY <2>2, <2>3, <2>4, <2>5 DEF ToldSoFar
<1>14. Going(r, After(s[1], n), m, w, q)
  BY <1>3, <1>8, <1>9, <1>10, <1>13 DEF Going
<1> QED
  BY <1>2, <1>14 DEF r

\* A thread without the mutex has asked nothing that counts, and one that does not read
\* needs nothing asked.
LEMMA GoingOutside ==
  ASSUME NEW s, NEW m, NEW v, NEW p, NEW q, Going(s, 0, m, v, p)
  PROVE  Going(s, 0, m, v, q)
<1>1. PICK a : /\ Levels(s, a) /\ a[1] = 0 /\ a[Len(s) + 1] = m
               /\ \A i \in 1..Len(s) : s[i] = "read" /\ a[i] > 0 => ToldSoFar(s, a, i, v, p)
  BY DEF Going
<1>2. ASSUME NEW i \in 1..Len(s) PROVE ~Kept(s, a, 1, i)
  BY <1>1, 1 \in 1..i DEF Kept
<1>3. \A i \in 1..Len(s) : s[i] = "read" /\ a[i] > 0 => ToldSoFar(s, a, i, v, q)
  BY <1>1, <1>2 DEF ToldSoFar
<1> QED
  BY <1>1, <1>3 DEF Going

LEMMA GoingUnread ==
  ASSUME NEW s, NEW n, NEW m, NEW v, NEW p, NEW w, NEW q, Going(s, n, m, v, p),
         \A i \in 1..Len(s) : s[i] # "read"
  PROVE  Going(s, n, m, w, q)
BY DEF Going
-----------------------------------------------------------------------------
(***************************************************************************)
(* The methods of CBuffer.                                                 *)
(***************************************************************************)
LEMMA WellFree == ASSUME NEW n \in Nat PROVE Well(FreeBuffer, n, n)
<1>0. n + 1 \in Nat
  OBVIOUS
<1>1. Well(<<"freePixels", "putEmpty", "putNaxis">>, (n + 1) + 1, (n + 1) + 1)
  BY <1>0, WellReplace DEF Puts, Changes
<1>2. Well(Locked(<<"freePixels", "putEmpty", "putNaxis">>), n + 1, n + 1)
  BY <1>0, <1>1, WellLocked
<1>3. Well(<<"dropKeywords">>, n + 1, n + 1)
  BY WellStep DEF Changes
<1> QED
  BY <1>2, <1>3, WellConcat, WellLocked DEF FreeBuffer

LEMMA WellOperations ==
  ASSUME NEW t \in Threads, NEW s \in Operations(t), NEW n \in Nat
  PROVE  Well(s, n, n)
<1>0. n + 1 \in Nat
  OBVIOUS
<1>1. Well(SetPixels, n, n)
  BY WellReplace, WellLocked DEF SetPixels, Changes, Puts
<1>2. Well(setPixels, n, n)
  <2>1. Well(<<"freePixels", "putPixels">>, n + 1, n + 1)
    BY WellReplace DEF Puts, Changes
  <2> QED
    BY <2>1, WellLocked DEF setPixels
<1>3. Well(setKeyword("putNaxis1"), n, n) /\ Well(setKeyword("putNaxis2"), n, n)
  <2>1. Well(<<"putNaxis1">>, n + 1, n + 1) /\ Well(<<"putNaxis2">>, n + 1, n + 1)
    BY WellStep DEF Changes
  <2> QED
    BY <2>1, WellLocked DEF setKeyword
<1>4. Well(FreeBuffer, n, n) /\ Well(FreeBuffer, n + 1, n + 1)
  BY <1>0, WellFree
<1>5. Well(<<"freePixels", "putPixels", "putHeader">>, n + 1, n + 1)
  BY WellReplace DEF Changes, Puts
<1>6. Well(LoadFile, n, n)
  BY <1>4, <1>5, WellConcat, WellLocked DEF LoadFile
<1>7. Well(LoadFileFails, n, n)
  BY <1>4, WellLocked DEF LoadFileFails
<1>8. /\ Well(<<"measure">>, n + 1, n + 1) /\ Well(<<"convert">>, n + 1, n + 1)
      /\ Well(<<"readPart">>, n + 1, n + 1)
  BY WellStep DEF Reads
<1>9. Well(ReadSized, n, n) /\ Well(ReadSized, n + 1, n + 1)
  BY <1>0, WellReadSized
<1>10. Well(TtImaSeries, n, n)
  BY <1>5, <1>9, WellConcat, WellLocked DEF TtImaSeries
<1>11. Well(Stat, n, n) /\ Well(Fwhm, n, n)
  BY <1>8, <1>9, WellLocked DEF Stat, Fwhm
<1>12. Well(Cfa2Rgb, n, n)
  BY <1>5, <1>8, WellConcat, WellLocked DEF Cfa2Rgb
<1>13. Well(Scar, n, n)
  <2>1. Well(<<"freePixels", "putSeen", "putNaxis">>, n + 1, n + 1)
    BY WellReplace DEF Changes, Puts
  <2>2. Well(Locked(<<"freePixels", "putSeen", "putNaxis">>), n, n)
    BY <2>1, WellLocked
  <2> QED
    BY <1>9, <2>2, WellConcat DEF Scar
<1>14. Well(A_StarList, n, n)
  BY <1>9, WellBare, WellConcat DEF A_StarList
<1>15. Well(Create3d, n, n) /\ Well(BinX, n, n) /\ Well(CopyTo, n, n)
  BY <1>4, <1>9, WellBare, WellConcat DEF Create3d, BinX, CopyTo
<1>16. Well(AcqRead, n, n)
  <2>1. Well(FreeBuffer \o setPixels, n, n)
    BY <1>2, <1>4, WellConcat
  <2>2. Well((FreeBuffer \o setPixels) \o setKeyword("putNaxis1"), n, n)
    BY <1>3, <2>1, WellConcat
  <2> QED
    BY <1>3, <2>2, WellConcat DEF AcqRead
<1>17. Well(GetPixels, n, n)
  <2>1. Well(<<"askWidth">>, n + 1, n + 1) /\ Well(<<"askHeight">>, n + 1, n + 1)
    BY WellStep DEF Asks
  <2>2. Well(AskSize, n, n)
    BY <2>1, WellLocked, WellConcat DEF AskSize
  <2>3. Well(Locked(<<"readPart">>), n, n)
    BY <1>8, WellLocked
  <2> QED
    BY <2>2, <2>3, WellConcat DEF GetPixels
<1> QED
  BY <1>1, <1>4, <1>6, <1>7, <1>10, <1>11, <1>12, <1>13, <1>14, <1>15, <1>16, <1>17
  DEF Operations

\* AcqRead reads nothing and does all under the mutex.
CamSteps == {"lock", "unlock", "dropKeywords", "freePixels", "putEmpty", "putPixels",
             "putNaxis", "putNaxis1", "putNaxis2"}

LEMMA LockedIn ==
  ASSUME NEW S, "lock" \in S, "unlock" \in S, NEW s \in Seq(S) PROVE Locked(s) \in Seq(S)
<1>1. <<"lock">> \in Seq(S) /\ <<"unlock">> \in Seq(S)
  OBVIOUS
<1>2. <<"lock">> \o s \in Seq(S)
  BY <1>1, ConcatProperties
<1> QED
  BY <1>1, <1>2, ConcatProperties DEF Locked

LEMMA AcqReadSteps == AcqRead \in Seq(CamSteps)
<1>1. "lock" \in CamSteps /\ "unlock" \in CamSteps
  BY DEF CamSteps
<1>2. /\ <<"freePixels", "putPixels">> \in Seq(CamSteps) /\ <<"dropKeywords">> \in Seq(CamSteps)
      /\ <<"freePixels", "putEmpty", "putNaxis">> \in Seq(CamSteps)
      /\ <<"putNaxis1">> \in Seq(CamSteps) /\ <<"putNaxis2">> \in Seq(CamSteps)
  BY DEF CamSteps
<1>3. FreeBuffer \in Seq(CamSteps)
  BY <1>1, <1>2, LockedIn, ConcatProperties DEF FreeBuffer
<1>4. /\ setPixels \in Seq(CamSteps)
      /\ setKeyword("putNaxis1") \in Seq(CamSteps) /\ setKeyword("putNaxis2") \in Seq(CamSteps)
  BY <1>1, <1>2, LockedIn DEF setPixels, setKeyword
<1>5. FreeBuffer \o setPixels \in Seq(CamSteps)
  BY <1>3, <1>4, ConcatProperties
<1>6. (FreeBuffer \o setPixels) \o setKeyword("putNaxis1") \in Seq(CamSteps)
  BY <1>4, <1>5, ConcatProperties
<1> QED
  BY <1>4, <1>6, ConcatProperties DEF AcqRead
-----------------------------------------------------------------------------
(***************************************************************************)
(* The invariant.                                                          *)
(***************************************************************************)
\* How many times thread t has locked the mutex.
DepthOf(t) == IF owner = t THEN depth ELSE 0

\* The steps left unlock all that was locked, but for a lock left by an exception.
StepsInv ==
  \A t \in Threads : \E m \in Nat : /\ Going(todo[t], DepthOf(t), m, seen[t], pix)
                                    /\ m = 0 \/ (leaked /\ t = "main")

\* The camera has steps of AcqRead.
CamInv == todo["cam"] \in Seq(CamSteps)

\* Freed pixels are about to be replaced by the thread that freed them: by the camera
\* under the mutex, or by the main thread.
FreedInv ==
  pix = Freed => \E t \in Threads : /\ todo[t] # <<>> /\ Head(todo[t]) \in Puts
                                    /\ t = "cam" => owner = "cam"

BufferInv == TypeOK /\ StepsInv /\ CamInv /\ FreedInv

LEMMA InitBuffer == Init => BufferInv
<1> SUFFICES ASSUME Init PROVE BufferInv
  OBVIOUS
<1>1. /\ todo = [t \in Threads |-> <<>>] /\ made = [t \in Threads |-> 0]
      /\ seen = [t \in Threads |-> Empty]
      /\ owner = "none" /\ depth = 0 /\ pix = Empty /\ keywords = Empty /\ ops = 0
      /\ apart = "no" /\ leaked = FALSE
  BY DEF Init
<1>2. /\ <<>> \in Seq(Steps) /\ <<>> \in Seq(CamSteps) /\ 0 \in 0..MaxOps
      /\ 0 \in 0..(2 * MaxOps) /\ 0 \in -1..(2 * MaxOps)
  BY CBufferAssumption
<1>3. /\ Empty \in Sizes /\ Empty \in (-1..(2 * MaxOps)) \X (-1..(2 * MaxOps)) /\ Empty # Freed
  BY <1>2 DEF Empty, Freed, Sizes
<1>4. TypeOK
  BY <1>1, <1>2, <1>3 DEF TypeOK
<1>5. StepsInv
  <2> SUFFICES ASSUME NEW t \in Threads PROVE Going(todo[t], DepthOf(t), 0, seen[t], pix)
    BY DEF StepsInv
  <2>1. todo[t] = <<>> /\ DepthOf(t) = 0
    BY <1>1 DEF DepthOf, Threads
  <2> QED
    BY <2>1, WellNone, WellGoing
<1>6. CamInv
  BY <1>1, <1>2 DEF CamInv, Threads
<1> QED
  BY <1>1, <1>3, <1>4, <1>5, <1>6 DEF BufferInv, FreedInv

\* What a thread does, and that the camera does all under the mutex.
LEMMA DoesStep ==
  ASSUME BufferInv, NEW t \in Threads, NEW step, Does(t, step)
  PROVE  /\ step \in Steps /\ DepthOf(t) \in Nat /\ May(step, DepthOf(t))
         /\ todo[t] \in Seq(Steps) /\ todo[t] # <<>> /\ Head(todo[t]) = step
         /\ step = "freePixels" => Tail(todo[t]) # <<>> /\ Head(Tail(todo[t])) \in Puts
         /\ step = "read" /\ DepthOf(t) > 0 => seen[t] = pix
         /\ t = "cam" => /\ step \in CamSteps /\ Tail(todo[t]) \in Seq(CamSteps)
                         /\ step # "lock" => owner = "cam"
<1>1. DepthOf(t) \in Nat /\ todo[t] \in Seq(Steps)
  BY DEF BufferInv, TypeOK, DepthOf
<1>2. PICK m \in Nat : Going(todo[t], DepthOf(t), m, seen[t], pix)
  BY DEF BufferInv, StepsInv
<1>3. todo[t] # <<>> /\ Head(todo[t]) = step
  BY DEF Does
<1>4. /\ step \in Steps /\ May(step, DepthOf(t))
      /\ step = "freePixels" => /\ Tail(todo[t]) # <<>> /\ Head(Tail(todo[t])) \in Puts
                                /\ May(Head(Tail(todo[t])), DepthOf(t))
      /\ step = "read" /\ DepthOf(t) > 0 => seen[t] = pix
  BY <1>1, <1>2, <1>3, StepNow
<1>5. ASSUME t = "cam"
      PROVE  /\ step \in CamSteps /\ Tail(todo[t]) \in Seq(CamSteps)
             /\ step # "lock" => owner = "cam"
  <2>1. todo[t] \in Seq(CamSteps)
    BY <1>5 DEF BufferInv, CamInv
  <2>2. step \in CamSteps /\ Tail(todo[t]) \in Seq(CamSteps)
    BY <1>3, <2>1, HeadTailProperties
  <2>3. ASSUME step = "freePixels" PROVE DepthOf(t) > 0
    <3>1. Head(Tail(todo[t])) \in CamSteps
      BY <1>4, <2>2, <2>3, HeadTailProperties
    <3> QED
      BY <1>4, <2>3, <3>1 DEF May, Free, CamSteps, Puts
  <2>4. step # "lock" => DepthOf(t) > 0
    BY <1>4, <2>2, <2>3 DEF May, Free, CamSteps
  <2> QED
    BY <1>5, <2>2, <2>4 DEF DepthOf
<1> QED
  BY <1>1, <1>3, <1>4, <1>5

\* A thread that holds the mutex and does not put pixels finds some.
LEMMA FindsPixels ==
  ASSUME BufferInv, NEW t \in Threads, NEW step, Does(t, step), owner = t,
         step \in Asks \cup Reads
  PROVE  pix # Freed
<1> SUFFICES ASSUME pix = Freed PROVE FALSE
  OBVIOUS
<1>1. PICK u \in Threads : /\ todo[u] # <<>> /\ Head(todo[u]) \in Puts
                           /\ u = "cam" => owner = "cam"
  BY DEF BufferInv, FreedInv
<1>2. step \notin Puts /\ step \notin CamSteps
  BY StepNames DEF CamSteps, Asks, Reads
<1>3. u # t /\ t # "cam"
  BY <1>1, <1>2, DoesStep DEF Does
<1> QED
  BY <1>1, <1>3 DEF Threads

\* The pixels stay as they are found, by a thread that is not about to replace them.
LEMMA FreedStays ==
  ASSUME BufferInv, NEW t \in Threads, todo[t] = <<>> \/ Head(todo[t]) \notin Puts,
         \A u \in Threads \ {t} : todo'[u] = todo[u],
         t # "cam" /\ owner = "cam" => owner' = "cam", pix' = pix
  PROVE  FreedInv'
<1> SUFFICES ASSUME pix = Freed
             PROVE  \E u \in Threads : /\ todo'[u] # <<>> /\ Head(todo'[u]) \in Puts
                                       /\ u = "cam" => owner' = "cam"
  BY DEF FreedInv
<1>1. PICK u \in Threads : /\ todo[u] # <<>> /\ Head(todo[u]) \in Puts
                           /\ u = "cam" => owner = "cam"
  BY DEF BufferInv, FreedInv
<1>2. u # t
  BY <1>1
<1> QED
  BY <1>1, <1>2

LEMMA Pairs ==
  ASSUME TypeOK
  PROVE  /\ pix = <<pix[1], pix[2]>> /\ (pix # Freed => pix \in Sizes)
         /\ \A t \in Threads : seen[t] \in Sizes /\ seen[t] = <<seen[t][1], seen[t][2]>>
<1>1. pix = <<pix[1], pix[2]>> /\ (pix # Freed => pix \in Sizes)
  BY DEF TypeOK, Sizes, Freed
<1>2. ASSUME NEW t \in Threads
      PROVE  seen[t] \in Sizes /\ seen[t] = <<seen[t][1], seen[t][2]>>
  <2>1. seen[t] \in Sizes
    BY DEF TypeOK
  <2> QED
    BY <2>1 DEF Sizes
<1> QED
  BY <1>1, <1>2

\* One thread goes on, and the depth of the other does not change.
LEMMA StepsGoOn ==
  ASSUME BufferInv, NEW t \in Threads, NEW step, Does(t, step), Goes(t),
         DepthOf(t)' = After(step, DepthOf(t)), leaked' = leaked,
         \A u \in Threads \ {t} : DepthOf(u)' = DepthOf(u) /\ seen'[u] = seen[u],
         step \notin Changes => pix' = pix,
         step \notin Asks => seen'[t] = seen[t],
         step = "askWidth" => seen'[t] = <<pix[1], seen[t][2]>>,
         step = "askHeight" => seen'[t] = <<seen[t][1], pix[2]>>
  PROVE  /\ StepsInv' /\ CamInv' /\ todo' \in [Threads -> Seq(Steps)]
         /\ todo'[t] = Tail(todo[t]) /\ \A u \in Threads \ {t} : todo'[u] = todo[u]
<1>1. todo \in [Threads -> Seq(Steps)] /\ DepthOf(t) \in Nat /\ TypeOK
  BY DEF BufferInv, TypeOK, DepthOf
<1>2. PICK m \in Nat : /\ Going(todo[t], DepthOf(t), m, seen[t], pix)
                       /\ m = 0 \/ (leaked /\ t = "main")
  BY DEF BufferInv, StepsInv
<1>3. todo[t] # <<>> /\ Head(todo[t]) = step
  BY DEF Does
<1>4. Going(Tail(todo[t]), After(step, DepthOf(t)), m, seen'[t], pix')
  <2>1. pix = <<pix[1], pix[2]>>
    BY <1>1, Pairs
  <2> QED
    BY <1>1, <1>2, <1>3, <2>1, GoingTail
<1>5. todo'[t] = Tail(todo[t]) /\ \A u \in Threads \ {t} : todo'[u] = todo[u]
  BY <1>1 DEF Goes
<1>6. Tail(todo[t]) \in Seq(Steps)
  BY <1>4 DEF Going
<1>7. todo' \in [Threads -> Seq(Steps)]
  BY <1>1, <1>6 DEF Goes
<1>8. ASSUME NEW u \in Threads
      PROVE  \E k \in Nat : /\ Going(todo'[u], DepthOf(u)', k, seen'[u], pix')
                            /\ k = 0 \/ (leaked' /\ u = "main")
  <2>1. CASE u = t
    BY <1>2, <1>4, <1>5, <2>1
  <2>2. CASE u # t
    <3>1. PICK k \in Nat : /\ Going(todo[u], DepthOf(u), k, seen[u], pix)
                           /\ k = 0 \/ (leaked /\ u = "main")
      BY DEF BufferInv, StepsInv
    <3>2. Going(todo[u], DepthOf(u), k, seen[u], pix')
      <4>1. CASE step \notin Changes
        BY <3>1, <4>1
      <4>2. CASE step \in Changes /\ t = "cam"
        <5>1. owner = "cam"
          BY <4>2, DoesStep, StepNames
        <5>2. DepthOf(u) = 0
          BY <2>2, <4>2, <5>1 DEF DepthOf
        <5> QED
          BY <3>1, <5>2, GoingOutside
      <4>3. CASE u = "cam"
        <5>1. todo[u] \in Seq(CamSteps)
          BY <4>3 DEF BufferInv, CamInv
        <5>2. \A i \in 1..Len(todo[u]) : todo[u][i] # "read"
          BY <5>1 DEF CamSteps
        <5> QED
          BY <3>1, <5>2, GoingUnread
      <4> QED
        BY <2>2, <4>1, <4>2, <4>3 DEF Threads
    <3> QED
      BY <1>5, <2>2, <3>1, <3>2
  <2> QED
    BY <2>1, <2>2
<1>9. CamInv'
  <2>1. CASE t = "cam"
    BY <1>5, <2>1, DoesStep DEF CamInv
  <2>2. CASE t # "cam"
    BY <1>5, <2>2 DEF BufferInv, CamInv, Threads
  <2> QED
    BY <2>1, <2>2
<1> QED
  BY <1>5, <1>7, <1>8, <1>9 DEF StepsInv

LEMMA LockStep == ASSUME BufferInv, NEW t \in Threads, Lock(t) PROVE BufferInv'
<1>1. /\ Does(t, "lock") /\ owner \in {"none", t} /\ owner' = t /\ depth' = depth + 1
      /\ Goes(t) /\ pix' = pix /\ keywords' = keywords /\ leaked' = leaked
      /\ made' = made /\ ops' = ops /\ apart' = apart /\ seen' = seen
  BY DEF Lock, Goes, buffer
<1>2. TypeOK /\ t # "none" /\ depth \in Nat /\ (owner = "none" => depth = 0)
  BY DEF BufferInv, TypeOK, Threads
<1>3. DepthOf(t)' = After("lock", DepthOf(t))
  BY <1>1, <1>2 DEF DepthOf, After
<1>4. \A u \in Threads \ {t} : DepthOf(u)' = DepthOf(u)
  BY <1>1, <1>2 DEF DepthOf, Threads
<1>5. /\ StepsInv' /\ CamInv' /\ todo' \in [Threads -> Seq(Steps)]
      /\ \A u \in Threads \ {t} : todo'[u] = todo[u]
  BY <1>1, <1>3, <1>4, StepsGoOn
<1>6. depth' \in Nat /\ depth' # 0 /\ owner' # "none" /\ owner' \in Threads
  BY <1>1, <1>2
<1>7. TypeOK'
  BY <1>1, <1>2, <1>5, <1>6 DEF TypeOK
<1>8. FreedInv'
  <2>1. Head(todo[t]) \notin Puts
    BY <1>1 DEF Does, Puts
  <2>2. t # "cam" /\ owner = "cam" => owner' = "cam"
    BY <1>1 DEF Threads
  <2> QED
    BY <1>1, <1>5, <2>1, <2>2, FreedStays
<1> QED
  BY <1>5, <1>7, <1>8 DEF BufferInv

LEMMA UnlockStep == ASSUME BufferInv, NEW t \in Threads, Unlock(t) PROVE BufferInv'
<1>1. /\ Does(t, "unlock") /\ depth' = depth - 1
      /\ owner' = (IF depth = 1 THEN "none" ELSE owner)
      /\ Goes(t) /\ pix' = pix /\ keywords' = keywords /\ leaked' = leaked
      /\ made' = made /\ ops' = ops /\ apart' = apart /\ seen' = seen
  BY DEF Unlock, Goes, buffer
<1>2. owner = t /\ depth > 0
  <2>1. May("unlock", DepthOf(t))
    BY <1>1, DoesStep
  <2> QED
    BY <2>1 DEF May, Free, DepthOf
<1>3. TypeOK /\ t # "none" /\ depth \in Nat
  BY DEF BufferInv, TypeOK, Threads
<1>4. DepthOf(t)' = After("unlock", DepthOf(t))
  BY <1>1, <1>2, <1>3 DEF DepthOf, After
<1>5. \A u \in Threads \ {t} : DepthOf(u)' = DepthOf(u)
  BY <1>1, <1>2, <1>3 DEF DepthOf, Threads
<1>6. /\ StepsInv' /\ CamInv' /\ todo' \in [Threads -> Seq(Steps)]
      /\ \A u \in Threads \ {t} : todo'[u] = todo[u]
  BY <1>1, <1>4, <1>5, StepsGoOn
<1>7. depth' \in Nat /\ (depth' = 0 <=> owner' = "none") /\ owner' \in Threads \cup {"none"}
  BY <1>1, <1>2, <1>3
<1>8. TypeOK'
  BY <1>1, <1>3, <1>6, <1>7 DEF TypeOK
<1>9. FreedInv'
  <2>1. Head(todo[t]) \notin Puts
    BY <1>1 DEF Does, Puts
  <2> QED
    BY <1>1, <1>2, <1>6, <2>1, FreedStays
<1> QED
  BY <1>6, <1>8, <1>9 DEF BufferInv

\* What a step on the pixels and keywords leaves in them.
LEMMA ChangedTypes ==
  ASSUME BufferInv, NEW t \in Threads, NEW step \in Changes, Does(t, step)
  PROVE  /\ PixelsAfter(t) \in Sizes \cup {Freed}
         /\ PixelsAfter(t) = Freed => step = "freePixels" \/ (pix = Freed /\ step \notin Puts)
         /\ KeywordsAfter(t) \in (-1..(2 * MaxOps)) \X (-1..(2 * MaxOps))
         /\ ApartAfter(t) \in {"no", "resized", "crossed"}
<1> DEFINE K == (-1..(2 * MaxOps)) \X (-1..(2 * MaxOps))
           m == made[t]
<1>1. \A other : Does(t, other) <=> other = step
  BY DEF Does
<1>2. TypeOK /\ MaxOps \in Nat /\ made[t] \in 0..MaxOps /\ seen[t] \in Sizes
      /\ pix \in Sizes \cup {Freed} /\ keywords \in K
      /\ apart \in {"no", "resized", "crossed"}
  BY CBufferAssumption DEF BufferInv, TypeOK
<1>3. /\ 0 \in 0..(2 * MaxOps) /\ m \in 0..(2 * MaxOps) /\ 2 * m \in 0..(2 * MaxOps)
      /\ \A x \in 0..(2 * MaxOps) : x \in -1..(2 * MaxOps) /\ x # -1
      /\ -1 \in -1..(2 * MaxOps)
  BY <1>2
<1>4. /\ Empty \in Sizes /\ Image(m) \in Sizes /\ Cube(m) \in Sizes
      /\ \A p \in Sizes : <<m, p[2]>> \in Sizes /\ p # Freed /\ p \in K
      /\ Freed \in K
  BY <1>3 DEF Sizes, Empty, Image, Cube, Freed
<1>5. \A k \in K : <<m, k[2]>> \in K /\ <<k[1], m>> \in K
  BY <1>3
<1> HIDE DEF K, m
<1>6. PixelsAfter(t) =
        CASE step = "freePixels" -> Freed
          [] step = "putEmpty"   -> Empty
          [] step = "putPixels"  -> Image(m)
          [] step = "putCube"    -> Cube(m)
          [] step = "putSeen"    -> seen[t]
          [] step = "putWidth" /\ pix \notin {Empty, Freed} -> <<m, pix[2]>>
          [] OTHER               -> pix
  BY <1>1 DEF PixelsAfter, m
<1>7. KeywordsAfter(t) =
        CASE step = "dropKeywords" -> Empty
          [] step = "putNaxis"     -> pix
          [] step = "putNaxis1"    -> <<m, keywords[2]>>
          [] step = "putNaxis2"    -> <<keywords[1], m>>
          [] step = "putHeader" \/ step = "putFileHeader" -> Image(m)
          [] OTHER                 -> keywords
  BY <1>1 DEF KeywordsAfter, m
<1>8. KeywordsAfter(t) \in K
  BY <1>2, <1>4, <1>5, <1>7
<1>9. /\ PixelsAfter(t) \in Sizes \cup {Freed}
      /\ PixelsAfter(t) = Freed => step = "freePixels" \/ (pix = Freed /\ step \notin Puts)
  <2>1. CASE step \in {"freePixels", "putEmpty", "putPixels", "putCube", "putSeen"}
    BY <1>2, <1>4, <1>6, <2>1
  <2>2. CASE step \notin {"freePixels", "putEmpty", "putPixels", "putCube", "putSeen"}
    <3>1. step \notin Puts
      BY <2>2 DEF Puts
    <3>2. PixelsAfter(t) = pix \/ (pix \in Sizes /\ PixelsAfter(t) = <<m, pix[2]>>)
      BY <1>2, <1>6, <2>2
    <3> QED
      BY <1>2, <1>4, <3>1, <3>2
  <2> QED
    BY <2>1, <2>2
<1>10. ApartAfter(t) \in {"no", "resized", "crossed"}
  BY <1>2 DEF ApartAfter
<1> QED
  BY <1>8, <1>9, <1>10 DEF K

LEMMA ChangeStep == ASSUME BufferInv, NEW t \in Threads, Change(t) PROVE BufferInv'
<1>1. PICK step \in Changes : Does(t, step)
  BY DEF Change
<1>2. /\ pix' = PixelsAfter(t) /\ keywords' = KeywordsAfter(t) /\ apart' = ApartAfter(t)
      /\ Goes(t) /\ owner' = owner /\ depth' = depth /\ leaked' = leaked
      /\ made' = made /\ ops' = ops /\ seen' = seen
  BY DEF Change, Goes, mutex
<1>3. step # "lock" /\ step # "unlock" /\ step \notin Asks
  BY StepNames
<1>4. DepthOf(t)' = After(step, DepthOf(t)) /\ \A u \in Threads \ {t} : DepthOf(u)' = DepthOf(u)
  BY <1>2, <1>3 DEF DepthOf, After
<1>5. /\ StepsInv' /\ CamInv' /\ todo' \in [Threads -> Seq(Steps)]
      /\ todo'[t] = Tail(todo[t]) /\ \A u \in Threads \ {t} : todo'[u] = todo[u]
  <2>1. step # "askWidth" /\ step # "askHeight"
    BY <1>3 DEF Asks
  <2> QED
    BY <1>1, <1>2, <1>4, <2>1, StepsGoOn
<1>6. /\ pix' \in Sizes \cup {Freed}
      /\ pix' = Freed => step = "freePixels" \/ (pix = Freed /\ step \notin Puts)
      /\ keywords' \in (-1..(2 * MaxOps)) \X (-1..(2 * MaxOps))
      /\ apart' \in {"no", "resized", "crossed"}
  BY <1>1, <1>2, ChangedTypes
<1>7. TypeOK'
  BY <1>2, <1>5, <1>6 DEF BufferInv, TypeOK
<1>8. FreedInv'
  <2>1. CASE step = "freePixels"
    <3>1. Tail(todo[t]) # <<>> /\ Head(Tail(todo[t])) \in Puts /\ (t = "cam" => owner = "cam")
      BY <1>1, <2>1, DoesStep
    <3> QED
      BY <1>2, <1>5, <3>1 DEF FreedInv
  <2>2. CASE step # "freePixels" /\ pix' = Freed
    <3>1. pix = Freed /\ step \notin Puts
      BY <1>6, <2>2
    <3>2. Head(todo[t]) \notin Puts
      BY <1>1, <3>1 DEF Does
    <3> QED
      BY <1>2, <1>5, <2>2, <3>1, <3>2, FreedStays
  <2>3. CASE pix' # Freed
    BY <2>3 DEF FreedInv, Freed
  <2> QED
    BY <2>1, <2>2, <2>3
<1> QED
  BY <1>5, <1>7, <1>8 DEF BufferInv

LEMMA AskStep ==
  ASSUME BufferInv, NEW t \in Threads, AskWidth(t) \/ AskHeight(t) PROVE BufferInv'
<1>1. PICK step \in Asks : /\ Does(t, step)
                           /\ \/ step = "askWidth" /\ AskWidth(t)
                              \/ step = "askHeight" /\ AskHeight(t)
  BY DEF AskWidth, AskHeight, Asks
<1>2. /\ Goes(t) /\ pix' = pix /\ keywords' = keywords /\ leaked' = leaked
      /\ owner' = owner /\ depth' = depth /\ made' = made /\ ops' = ops /\ apart' = apart
  BY <1>1 DEF AskWidth, AskHeight, Goes, buffer, mutex
<1>3. step # "lock" /\ step # "unlock" /\ step \notin Puts /\ step \notin Changes
  BY StepNames
<1>4. TypeOK
  BY DEF BufferInv
<1>5. /\ seen' = [seen EXCEPT ![t] = seen'[t]]
      /\ step = "askWidth" => seen'[t] = <<pix[1], seen[t][2]>>
      /\ step = "askHeight" => seen'[t] = <<seen[t][1], pix[2]>>
  BY <1>1, <1>4 DEF AskWidth, AskHeight, TypeOK
<1>6. owner = t
  <2>1. May(step, DepthOf(t))
    BY <1>1, DoesStep
  <2> QED
    BY <1>1, <2>1 DEF May, Free, DepthOf, Asks
<1>7. pix \in Sizes /\ seen[t] \in Sizes
  <2>1. pix # Freed
    BY <1>1, <1>6, FindsPixels
  <2> QED
    BY <1>4, <2>1, Pairs
<1>8. seen'[t] \in Sizes
  BY <1>1, <1>5, <1>7 DEF Sizes, Asks
<1>9. seen' \in [Threads -> Sizes] /\ \A u \in Threads \ {t} : seen'[u] = seen[u]
  BY <1>4, <1>5, <1>8 DEF TypeOK
<1>10. DepthOf(t)' = After(step, DepthOf(t)) /\ \A u \in Threads \ {t} : DepthOf(u)' = DepthOf(u)
  BY <1>2, <1>3 DEF DepthOf, After
<1>11. /\ StepsInv' /\ CamInv' /\ todo' \in [Threads -> Seq(Steps)]
       /\ \A u \in Threads \ {t} : todo'[u] = todo[u]
  BY <1>1, <1>2, <1>5, <1>9, <1>10, StepsGoOn
<1>12. TypeOK'
  BY <1>2, <1>4, <1>9, <1>11 DEF TypeOK
<1>13. FreedInv'
  BY <1>1, <1>2, <1>3, <1>11, FreedStays DEF Does
<1> QED
  BY <1>11, <1>12, <1>13 DEF BufferInv

LEMMA ReadStep == ASSUME BufferInv, NEW t \in Threads, Read(t) PROVE BufferInv'
<1>1. PICK step \in Reads : Does(t, step)
  BY DEF Read, Reads
<1>2. /\ Goes(t) /\ pix' = pix /\ keywords' = keywords /\ leaked' = leaked /\ seen' = seen
      /\ owner' = owner /\ depth' = depth /\ made' = made /\ ops' = ops /\ apart' = apart
  BY DEF Read, Goes, buffer, mutex
<1>3. step # "lock" /\ step # "unlock" /\ step \notin Puts /\ step \notin Asks
  BY StepNames
<1>4. DepthOf(t)' = After(step, DepthOf(t)) /\ \A u \in Threads \ {t} : DepthOf(u)' = DepthOf(u)
  BY <1>2, <1>3 DEF DepthOf, After
<1>5. /\ StepsInv' /\ CamInv' /\ todo' \in [Threads -> Seq(Steps)]
      /\ \A u \in Threads \ {t} : todo'[u] = todo[u]
  <2>1. step # "askWidth" /\ step # "askHeight"
    BY <1>3 DEF Asks
  <2> QED
    BY <1>1, <1>2, <1>4, <2>1, StepsGoOn
<1>6. TypeOK'
  BY <1>2, <1>5 DEF BufferInv, TypeOK
<1>7. FreedInv'
  BY <1>1, <1>2, <1>3, <1>5, FreedStays DEF Does
<1> QED
  BY <1>5, <1>6, <1>7 DEF BufferInv

LEMMA ThrowStep == ASSUME BufferInv, NEW t \in Threads, Throws(t) PROVE BufferInv'
<1>1. /\ Does(t, "measure") \/ Does(t, "convert")
      /\ todo' = [todo EXCEPT ![t] = <<>>] /\ leaked' = TRUE
      /\ pix' = pix /\ keywords' = keywords /\ owner' = owner /\ depth' = depth
      /\ made' = made /\ ops' = ops /\ apart' = apart /\ seen' = seen
  BY DEF Throws, buffer, mutex
<1>2. TypeOK
  BY DEF BufferInv
<1>3. todo'[t] = <<>> /\ \A u \in Threads \ {t} : todo'[u] = todo[u]
  BY <1>1, <1>2 DEF TypeOK
<1>4. TypeOK'
  BY <1>1, <1>2 DEF TypeOK
<1>5. t = "main"
  <2>1. t = "cam" => "measure" \in CamSteps \/ "convert" \in CamSteps
    BY <1>1, DoesStep
  <2> QED
    BY <2>1 DEF CamSteps, Threads
<1>6. ASSUME NEW u \in Threads
      PROVE  \E m \in Nat : /\ Going(todo'[u], DepthOf(u)', m, seen'[u], pix')
                            /\ m = 0 \/ (leaked' /\ u = "main")
  <2>1. DepthOf(u)' = DepthOf(u) /\ DepthOf(u) \in Nat
    BY <1>1, <1>2 DEF DepthOf, TypeOK
  <2>2. CASE u = t
    BY <1>1, <1>3, <1>5, <2>1, <2>2, WellNone, WellGoing
  <2>3. CASE u # t
    BY <1>1, <1>3, <1>5, <2>1, <2>3 DEF BufferInv, StepsInv
  <2> QED
    BY <2>2, <2>3
<1>7. CamInv'
  BY <1>3, <1>5 DEF BufferInv, CamInv, Threads
<1>8. FreedInv'
  <2>1. Head(todo[t]) \notin Puts
    BY <1>1 DEF Does, Puts
  <2> QED
    BY <1>1, <1>3, <2>1, FreedStays
<1> QED
  BY <1>4, <1>6, <1>7, <1>8 DEF BufferInv, StepsInv

LEMMA BeginStep == ASSUME BufferInv, NEW t \in Threads, Begin(t) PROVE BufferInv'
<1>1. PICK steps \in Operations(t) : todo' = [todo EXCEPT ![t] = steps]
  BY DEF Begin
<1>2. /\ todo[t] = <<>> /\ ops < MaxOps /\ ops' = ops + 1
      /\ made' = [made EXCEPT ![t] = ops'] /\ seen' = [seen EXCEPT ![t] = Empty]
      /\ leaked' = leaked /\ apart' = apart
      /\ pix' = pix /\ keywords' = keywords /\ owner' = owner /\ depth' = depth
  BY DEF Begin, buffer, mutex
<1>3. TypeOK /\ DepthOf(t) \in Nat /\ MaxOps \in Nat
  BY CBufferAssumption DEF BufferInv, TypeOK, DepthOf
<1>4. Well(steps, DepthOf(t), DepthOf(t))
  BY <1>3, WellOperations
<1>5. steps \in Seq(Steps)
  BY <1>4 DEF Well
<1>6. /\ todo'[t] = steps
      /\ \A u \in Threads \ {t} : todo'[u] = todo[u] /\ seen'[u] = seen[u]
  BY <1>1, <1>2, <1>3 DEF TypeOK
<1>7. todo' \in [Threads -> Seq(Steps)]
  BY <1>1, <1>3, <1>5 DEF TypeOK
<1>8. ops' \in 0..MaxOps /\ made' \in [Threads -> 0..MaxOps]
  BY <1>2, <1>3 DEF TypeOK
<1>9. seen' \in [Threads -> Sizes]
  <2>1. Empty \in Sizes
    BY <1>3 DEF Empty, Sizes
  <2> QED
    BY <1>2, <1>3, <2>1 DEF TypeOK
<1>10. TypeOK'
  BY <1>2, <1>3, <1>7, <1>8, <1>9 DEF TypeOK
<1>11. ASSUME NEW u \in Threads
       PROVE  \E m \in Nat : /\ Going(todo'[u], DepthOf(u)', m, seen'[u], pix')
                             /\ m = 0 \/ (leaked' /\ u = "main")
  <2>1. DepthOf(u)' = DepthOf(u) /\ leaked' = leaked
    BY <1>2 DEF DepthOf
  <2>2. CASE u = t
    <3>1. DepthOf(t) = 0 \/ (leaked /\ t = "main")
      <4>1. PICK m \in Nat : /\ Going(<<>>, DepthOf(t), m, seen[t], pix)
                             /\ m = 0 \/ (leaked /\ t = "main")
        BY <1>2 DEF BufferInv, StepsInv
      <4> QED
        BY <4>1 DEF Going
    <3> QED
      BY <1>3, <1>4, <1>6, <2>1, <2>2, <3>1, WellGoing
  <2>3. CASE u # t
    BY <1>2, <1>6, <2>1, <2>3 DEF BufferInv, StepsInv
  <2> QED
    BY <2>2, <2>3
<1>12. FreedInv'
  BY <1>2, <1>6, FreedStays
<1>13. CamInv'
  <2>1. CASE t = "cam"
    <3>1. steps = AcqRead
      BY <2>1 DEF Operations
    <3> QED
      BY <1>6, <2>1, <3>1, AcqReadSteps DEF CamInv
  <2>2. CASE t # "cam"
    BY <1>6, <2>2 DEF BufferInv, CamInv, Threads
  <2> QED
    BY <2>1, <2>2
<1> QED
  BY <1>10, <1>11, <1>12, <1>13 DEF BufferInv, StepsInv

LEMMA NextBuffer == BufferInv /\ [Next]_vars => BufferInv'
<1> SUFFICES ASSUME BufferInv, [Next]_vars PROVE BufferInv'
  OBVIOUS
<1>1. ASSUME NEW t \in Threads, Begin(t) \/ Step(t) PROVE BufferInv'
  BY <1>1, BeginStep, LockStep, UnlockStep, ChangeStep, AskStep, ReadStep, ThrowStep DEF Step
<1>2. CASE UNCHANGED vars
  BY <1>2 DEF vars, buffer, mutex, history, BufferInv, TypeOK, StepsInv, CamInv, FreedInv,
     DepthOf
<1> QED
  BY <1>1, <1>2 DEF Next
-----------------------------------------------------------------------------
(***************************************************************************)
(* The theorems.                                                           *)
(***************************************************************************)
\* The inductive invariant: steps that match and sizes asked under the lock of the read,
\* a camera that does all under the mutex, and freed pixels soon replaced.
THEOREM BufferInvariant == Spec => []BufferInv
BY InitBuffer, NextBuffer, PTL DEF Spec

\* Types, among them that the mutex has a depth exactly when it has an owner.
THEOREM BufferTypes == Spec => []TypeOK
<1>1. BufferInv => TypeOK
  BY DEF BufferInv
<1> QED
  BY <1>1, BufferInvariant, PTL

\* A method that reads under the mutex finds the image it asked the size of, though it
\* asks in sections of their own, and though other commands of the main thread replace
\* the pixels without the mutex.
THEOREM ReadersServed == Spec => []ReadersSeeOneImage
<1>1. ASSUME BufferInv PROVE ReadersSeeOneImage
  <2> SUFFICES ASSUME NEW t \in Threads, owner = t, todo[t] # <<>>
               PROVE  /\ Head(todo[t]) \in Reads => pix # Freed
                      /\ Head(todo[t]) = "read" => seen[t] = pix
    BY DEF ReadersSeeOneImage, Idle
  <2>1. Does(t, Head(todo[t]))
    BY DEF Does
  <2>2. DepthOf(t) > 0
    BY <1>1 DEF BufferInv, TypeOK, DepthOf, Threads
  <2> QED
    BY <1>1, <2>1, <2>2, DoesStep, FindsPixels
<1> QED
  BY <1>1, BufferInvariant, PTL

\* The mutex goes back: who holds it has steps left.  Only an exception of a method
\* without a catch leaves it to a thread, the main one, that has none.
HolderRuns ==
  \A t \in Threads : owner = t => todo[t] # <<>> \/ (t = "main" /\ leaked)

THEOREM MutexReturned == Spec => []HolderRuns
<1>1. ASSUME BufferInv PROVE HolderRuns
  <2> SUFFICES ASSUME NEW t \in Threads, owner = t, todo[t] = <<>>
               PROVE  t = "main" /\ leaked
    BY DEF HolderRuns
  <2>1. DepthOf(t) = depth /\ depth # 0
    BY <1>1 DEF BufferInv, TypeOK, DepthOf, Threads
  <2>2. PICK m \in Nat : /\ Going(<<>>, depth, m, seen[t], pix)
                         /\ m = 0 \/ (leaked /\ t = "main")
    BY <1>1, <2>1 DEF BufferInv, StepsInv
  <2>3. m = depth
    BY <2>2 DEF Going
  <2> QED
    BY <2>1, <2>2, <2>3
<1> QED
  BY <1>1, BufferInvariant, PTL
=============================================================================
