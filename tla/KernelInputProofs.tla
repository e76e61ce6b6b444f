-------------------------- MODULE KernelInputProofs --------------------------
(***************************************************************************)
(* Theorems about the drivers of the kernel's input devices, for every set *)
(* of keys, every keymap, screen and directory and whatever fails.         *)
(*                                                                         *)
(* What LVGL is told depends on events that are still queued, so the       *)
(* invariant speaks of the queue: what it will release, what its last      *)
(* event says of the left button, which touches it will take for presses,  *)
(* and what evdev_read has processed but not returned.                     *)
(***************************************************************************)
EXTENDS KernelInput, SequenceTheorems, FiniteSetTheorems, TLAPS

----------------------------------------------------------------------------
(* The events *)

KeyEvents == {"key"} \X Keys \X BOOLEAN
ButtonEvents == {"button"} \X {"left", "right"} \X BOOLEAN
MotionEvents == {"rel"} \X {-1, 1}
TouchEvents == {"touch"} \X Fingers \X Raw \X BOOLEAN \X BOOLEAN
LiftEvents == {"lift"} \X Fingers

\* The events of a device of the kind, and what the user can hold down on it.
Events ==
  IF kind = "keyboard" THEN KeyEvents
  ELSE IF kind = "mouse" THEN ButtonEvents \cup MotionEvents
  ELSE TouchEvents \cup LiftEvents

Hands ==
  IF kind = "keyboard" THEN Keys
  ELSE IF kind = "mouse" THEN {"left", "right"} ELSE Fingers

HasState(e) == e[1] \in {"key", "button"}

IsDown(e) == e[1] = "touch" \/ (HasState(e) /\ e[3] = TRUE)
IsUp(e) == e[1] = "lift" \/ (HasState(e) /\ e[3] = FALSE)

\* What an event holds down or releases.
Thing(e) == e[2]

\* The release of x is queued.
FreedIn(q, x) == \E i \in 1 .. Len(q) : IsUp(q[i]) /\ Thing(q[i]) = x

\* What the event at place i holds down, h holds or the queue releases later.
DownAt(q, h, i) ==
  IsDown(q[i]) =>
    \/ Thing(q[i]) \in h
    \/ \E j \in (i + 1) .. Len(q) : IsUp(q[j]) /\ Thing(q[j]) = Thing(q[i])

Downs(q, h) == \A i \in 1 .. Len(q) : DownAt(q, h, i)

IsLeft(e) == e[1] = "button" /\ e[2] = "left"

\* The last event of the left button in the queue, or the state when there is
\* none, tells whether h holds that button.
LeftOK(q, h, s) ==
  /\ \A i \in 1 .. Len(q) :
       IsLeft(q[i]) /\ (\A j \in (i + 1) .. Len(q) : ~IsLeft(q[j])) =>
         (q[i][3] = TRUE <=> "left" \in h)
  /\ (\A i \in 1 .. Len(q) : ~IsLeft(q[i])) => (s = "PR" <=> "left" \in h)

\* The fingers on the screen have all stayed since it was touched, and evdev is told
\* of that.
Touched(h, t, l) == h \cap Fingers # {} /\ l # TRUE /\ (touchKey = TRUE \/ t = "one")

\* Then the state is a press, or the queue has one, and after every lift in it.
FingerOK(q, h, s, t, l) ==
  Touched(h, t, l) =>
    /\ \A i \in 1 .. Len(q) :
         q[i][1] = "lift" => \E j \in (i + 1) .. Len(q) : Presses(q[j])
    /\ s = "PR" \/ \E j \in 1 .. Len(q) : Presses(q[j])

\* What is reported as pressed is held, or its release is queued or meant
\* nothing.
PressOK ==
  state = "PR" /\ unheard = {} /\ ~(driver = "evdev" /\ kind = "mouse") =>
    \E x : x \in held \/ FreedIn(queue, x)

HandOK ==
  /\ Downs(queue, held)
  /\ PressOK
  /\ driver = "evdev" /\ kind = "mouse" => LeftOK(queue, held, state)
  /\ driver = "evdev" => FingerOK(queue, held, state, touches, lifted)

\* evdev_read has stopped at the key that it is about to report.
ToldOK ==
  /\ reading # "no" => started
  /\ reading = "stop" =>
       /\ driver = "evdev"
       /\ meant # <<>> /\ Last(meant) = <<key, state>>
  /\ EveryKeyTold

ScanOK ==
  /\ Len(cache) <= room /\ room \in Nat /\ Grows(room)
  /\ cache \in Seq(ToSet(Paths)) /\ at \in 0 .. Len(Paths) + 1
  /\ found \subseteq ToSet(cache)
  /\ at # 0 => found = {}

\* The shape of an event.
LEMMA EventShape ==
  ASSUME NEW e \in Events
  PROVE  /\ kind = "keyboard" =>
              e[1] = "key" /\ e[2] \in Keys /\ e[3] \in BOOLEAN
         /\ kind = "mouse" =>
              \/ e[1] = "button" /\ e[2] \in {"left", "right"} /\ e[3] \in BOOLEAN
              \/ e[1] = "rel" /\ e[2] \in {-1, 1}
         /\ kind \notin {"keyboard", "mouse"} =>
              \/ /\ e[1] = "touch" /\ e[2] \in Fingers /\ e[3] \in Raw
                 /\ e[4] \in BOOLEAN /\ e[5] \in BOOLEAN
              \/ e[1] = "lift" /\ e[2] \in Fingers
<1>1. CASE kind = "keyboard"
  <2>1. e \in KeyEvents
    BY <1>1 DEF Events
  <2>2. QED  BY <1>1, <2>1 DEF KeyEvents
<1>2. CASE kind = "mouse"
  <2>1. e \in ButtonEvents \cup MotionEvents
    BY <1>2 DEF Events
  <2>2. e \in ButtonEvents => e[1] = "button" /\ e[2] \in {"left", "right"} /\ e[3] \in BOOLEAN
    BY DEF ButtonEvents
  <2>3. e \in MotionEvents => e[1] = "rel" /\ e[2] \in {-1, 1}
    BY DEF MotionEvents
  <2>4. QED  BY <1>2, <2>1, <2>2, <2>3
<1>3. CASE kind \notin {"keyboard", "mouse"}
  <2>1. e \in TouchEvents \cup LiftEvents
    BY <1>3 DEF Events
  <2>2. e \in TouchEvents => /\ e[1] = "touch" /\ e[2] \in Fingers /\ e[3] \in Raw
                             /\ e[4] \in BOOLEAN /\ e[5] \in BOOLEAN
    BY DEF TouchEvents
  <2>3. e \in LiftEvents => e[1] = "lift" /\ e[2] \in Fingers
    BY DEF LiftEvents
  <2>4. QED  BY <1>3, <2>1, <2>2, <2>3
<1>4. QED  BY <1>1, <1>2, <1>3

----------------------------------------------------------------------------
(* Queues *)

\* A finite set as a sequence.
LEMMA Sequenced ==
  ASSUME NEW S, IsFiniteSet(S)
  PROVE  /\ SetToSeq(S) \in Seq(S)
         /\ \A x \in S : \E i \in 1 .. Len(SetToSeq(S)) : SetToSeq(S)[i] = x
<1> DEFINE n == Cardinality(S)
           Is(f) == f \in [1 .. n -> S] /\ IsInjective(f)
           s == CHOOSE f : Is(f)
<1>1. n \in Nat /\ ExistsBijection(1 .. n, S)
  BY FS_CardinalityType
<1>2. PICK f \in [1 .. n -> S] : f \in Bijection(1 .. n, S)
  BY <1>1 DEF ExistsBijection, Bijection, Injection, Surjection
<1>3. Is(f)
  BY <1>2 DEF Bijection, Injection, IsInjective
<1>4. Is(s)
  <2> HIDE DEF Is
  <2>1. QED  BY <1>3
<1>5. SetToSeq(S) = s
  BY DEF SetToSeq
<1> HIDE DEF s, n
<1>6. s \in Injection(1 .. n, S)
  BY <1>4 DEF Injection, IsInjective
<1>7. Cardinality(1 .. n) = n
  BY <1>1, FS_Interval
<1>8. s \in Surjection(1 .. n, S)
  BY <1>6, <1>7, FS_Injection DEF n
<1>9. s \in Seq(S) /\ Len(s) = n
  BY <1>1, <1>4
<1>10. \A x \in S : \E i \in 1 .. n : s[i] = x
  BY <1>8 DEF Surjection
<1>11. QED  BY <1>5, <1>9, <1>10

\* The hand h holds x down, or the queue q releases it.
Holding(q, h, x) == x \in h \/ FreedIn(q, x)

\* The hand g after the events r, which release what h held and g does not.
LetGo(h, g, r) == \A x \in h : Holding(r, g, x)

\* Events are appended to a queue.
LEMMA Appended ==
  ASSUME NEW q \in Seq(Events), NEW r \in Seq(Events), NEW h, NEW g,
         Downs(q, h), Downs(r, g), LetGo(h, g, r)
  PROVE  /\ q \o r \in Seq(Events)
         /\ Downs(q \o r, g)
         /\ \A x : Holding(q, h, x) => Holding(q \o r, g, x)
<1> DEFINE s == q \o r
<1>1. /\ s \in Seq(Events) /\ Len(s) = Len(q) + Len(r)
      /\ Len(q) \in Nat /\ Len(r) \in Nat
  BY ConcatProperties, LenProperties
<1>2. \A i \in 1 .. Len(q) : i \in 1 .. Len(s) /\ s[i] = q[i]
  BY <1>1, ConcatProperties
<1>3. \A i \in 1 .. Len(r) : i + Len(q) \in 1 .. Len(s) /\ s[i + Len(q)] = r[i]
  BY <1>1, ConcatProperties
<1>4. \A i \in 1 .. Len(s) : i \in 1 .. Len(q) \/ i - Len(q) \in 1 .. Len(r)
  BY <1>1
<1> HIDE DEF s
<1>5. \A x : FreedIn(r, x) =>
        \E j \in (Len(q) + 1) .. Len(s) : IsUp(s[j]) /\ Thing(s[j]) = x
  <2>1. SUFFICES ASSUME NEW x, FreedIn(r, x)
                 PROVE  \E j \in (Len(q) + 1) .. Len(s) : IsUp(s[j]) /\ Thing(s[j]) = x
    OBVIOUS
  <2>2. PICK i \in 1 .. Len(r) : IsUp(r[i]) /\ Thing(r[i]) = x
    BY <2>1 DEF FreedIn
  <2>3. i + Len(q) \in (Len(q) + 1) .. Len(s) /\ s[i + Len(q)] = r[i]
    BY <1>1, <1>3
  <2>4. QED  BY <2>2, <2>3
<1>6. ASSUME NEW i \in 1 .. Len(s)
      PROVE  DownAt(s, g, i)
  <2>1. CASE i \in 1 .. Len(q)
    <3>1. SUFFICES ASSUME IsDown(q[i])
                   PROVE  \/ Thing(q[i]) \in g
                          \/ \E j \in (i + 1) .. Len(s) : IsUp(s[j]) /\ Thing(s[j]) = Thing(q[i])
      BY <1>2, <2>1 DEF DownAt
    <3>2. \/ Thing(q[i]) \in h
          \/ \E j \in (i + 1) .. Len(q) : IsUp(q[j]) /\ Thing(q[j]) = Thing(q[i])
      BY <2>1, <3>1 DEF Downs, DownAt
    <3>3. CASE Thing(q[i]) \in h
      <4>1. Thing(q[i]) \in g \/ FreedIn(r, Thing(q[i]))
        BY <3>3 DEF LetGo, Holding
      <4>2. (Len(q) + 1) .. Len(s) \subseteq (i + 1) .. Len(s)
        BY <1>1, <2>1
      <4>3. QED  BY <1>5, <4>1, <4>2
    <3>4. CASE \E j \in (i + 1) .. Len(q) : IsUp(q[j]) /\ Thing(q[j]) = Thing(q[i])
      <4>1. PICK j \in (i + 1) .. Len(q) : IsUp(q[j]) /\ Thing(q[j]) = Thing(q[i])
        BY <3>4
      <4>2. j \in 1 .. Len(q) /\ j \in (i + 1) .. Len(s)
        BY <1>1, <2>1
      <4>3. QED  BY <1>2, <4>1, <4>2
    <3>5. QED  BY <3>2, <3>3, <3>4
  <2>2. CASE i - Len(q) \in 1 .. Len(r)
    <3> DEFINE k == i - Len(q)
    <3>1. s[i] = r[k] /\ k + Len(q) = i
      <4>1. k + Len(q) = i /\ k \in 1 .. Len(r)
        BY <1>1, <2>2
      <4>2. QED  BY <1>3, <4>1
    <3>2. SUFFICES ASSUME IsDown(r[k]), Thing(r[k]) \notin g
                   PROVE  \E j \in (i + 1) .. Len(s) : IsUp(s[j]) /\ Thing(s[j]) = Thing(r[k])
      BY <3>1 DEF DownAt
    <3>3. PICK j \in (k + 1) .. Len(r) : IsUp(r[j]) /\ Thing(r[j]) = Thing(r[k])
      BY <2>2, <3>2 DEF Downs, DownAt
    <3>4. j \in 1 .. Len(r) /\ j + Len(q) \in (i + 1) .. Len(s)
      BY <1>1, <2>2
    <3>5. s[j + Len(q)] = r[j]
      BY <1>3, <3>4
    <3>6. QED  BY <3>3, <3>4, <3>5
  <2>3. QED  BY <1>4, <2>1, <2>2
<1>7. \A x : FreedIn(q, x) => FreedIn(s, x)
  BY <1>2 DEF FreedIn
<1>8. \A x : FreedIn(r, x) => FreedIn(s, x)
  <2>1. (Len(q) + 1) .. Len(s) \subseteq 1 .. Len(s)
    BY <1>1
  <2>2. QED  BY <1>5, <2>1 DEF FreedIn
<1>9. QED
  <2>1. \A x : Holding(q, h, x) => Holding(s, g, x)
    BY <1>7, <1>8 DEF Holding, LetGo
  <2>2. QED  BY <1>1, <1>6, <2>1 DEF s, Downs

\* A queue without its first event.
LEMMA Taken ==
  ASSUME NEW q \in Seq(Events), NEW h, q # <<>>, Downs(q, h)
  PROVE  /\ Head(q) \in Events /\ Tail(q) \in Seq(Events)
         /\ Downs(Tail(q), h)
         /\ IsDown(Head(q)) => Holding(Tail(q), h, Thing(Head(q)))
         /\ ~IsUp(Head(q)) => \A x : Holding(q, h, x) => Holding(Tail(q), h, x)
<1> DEFINE r == Tail(q)
<1>1. /\ r \in Seq(Events) /\ Head(q) \in Events /\ Head(q) = q[1]
      /\ Len(q) \in Nat \ {0} /\ Len(r) = Len(q) - 1
      /\ \A i \in 1 .. Len(r) : r[i] = q[i + 1]
  BY HeadTailProperties, EmptySeq
<1>2. \A i \in 2 .. Len(q) : i - 1 \in 1 .. Len(r) /\ r[i - 1] = q[i]
  BY <1>1
<1> HIDE DEF r
<1>3. \A i \in 1 .. Len(r) : i + 1 \in 1 .. Len(q)
  BY <1>1
<1>4. ASSUME NEW i \in 1 .. Len(r)
      PROVE  DownAt(r, h, i)
  <2>1. SUFFICES ASSUME IsDown(r[i]), Thing(r[i]) \notin h
                 PROVE  \E j \in (i + 1) .. Len(r) : IsUp(r[j]) /\ Thing(r[j]) = Thing(r[i])
    BY DEF DownAt
  <2>2. PICK j \in (i + 1 + 1) .. Len(q) : IsUp(q[j]) /\ Thing(q[j]) = Thing(q[i + 1])
    BY <1>1, <1>3, <2>1 DEF Downs, DownAt
  <2>3. j - 1 \in (i + 1) .. Len(r) /\ r[j - 1] = q[j] /\ r[i] = q[i + 1]
    BY <1>1, <1>2
  <2>4. QED  BY <2>2, <2>3
<1>5. ASSUME NEW x, NEW j \in 2 .. Len(q), IsUp(q[j]), Thing(q[j]) = x
      PROVE  FreedIn(r, x)
  BY <1>2, <1>5 DEF FreedIn
<1>6. ASSUME IsDown(Head(q))
      PROVE  Holding(r, h, Thing(Head(q)))
  <2>1. DownAt(q, h, 1)
    BY <1>1 DEF Downs
  <2>2. \/ Thing(q[1]) \in h
        \/ \E j \in 2 .. Len(q) : IsUp(q[j]) /\ Thing(q[j]) = Thing(q[1])
    BY <1>1, <1>6, <2>1 DEF DownAt
  <2>3. QED  BY <1>1, <1>5, <2>2 DEF Holding
<1>7. ASSUME ~IsUp(Head(q)), NEW x, Holding(q, h, x)
      PROVE  Holding(r, h, x)
  <2>1. ASSUME FreedIn(q, x)
        PROVE  FreedIn(r, x)
    <3>1. PICK j \in 1 .. Len(q) : IsUp(q[j]) /\ Thing(q[j]) = x
      BY <2>1 DEF FreedIn
    <3>2. j # 1
      BY <1>1, <1>7, <3>1
    <3>3. QED  BY <1>1, <1>5, <3>1, <3>2
  <2>2. QED  BY <1>7, <2>1 DEF Holding
<1>8. QED  BY <1>1, <1>4, <1>6, <1>7 DEF r, Downs

\* One event is appended: what it holds down is in the hand, and what leaves the
\* hand it releases.
LEMMA OneAppended ==
  ASSUME NEW q \in Seq(Events), NEW e \in Events, NEW h, NEW g, Downs(q, h),
         IsDown(e) => Thing(e) \in g,
         \A x \in h : x \in g \/ (IsUp(e) /\ Thing(e) = x)
  PROVE  /\ q \o <<e>> \in Seq(Events)
         /\ Downs(q \o <<e>>, g)
         /\ \A x : Holding(q, h, x) => Holding(q \o <<e>>, g, x)
<1> DEFINE r == <<e>>
<1>1. r \in Seq(Events) /\ Len(r) = 1 /\ r[1] = e
  OBVIOUS
<1> HIDE DEF r
<1>2. \A i \in 1 .. Len(r) : r[i] = e
  BY <1>1
<1>3. Downs(r, g)
  BY <1>2 DEF Downs, DownAt
<1>4. IsUp(e) => FreedIn(r, Thing(e))
  BY <1>1 DEF FreedIn
<1>5. LetGo(h, g, r)
  BY <1>4 DEF LetGo, Holding
<1>6. QED  BY <1>1, <1>3, <1>5, Appended DEF r

\* The places of a queue to which one event is appended.
LEMMA Places ==
  ASSUME NEW q \in Seq(Events), NEW e \in Events
  PROVE  /\ Len(q) \in Nat /\ Len(q \o <<e>>) = Len(q) + 1
         /\ (q \o <<e>>)[Len(q) + 1] = e
         /\ \A i \in 1 .. Len(q) : (q \o <<e>>)[i] = q[i]
<1>1. <<e>> \in Seq(Events) /\ Len(<<e>>) = 1
  OBVIOUS
<1>2. QED  BY <1>1, ConcatProperties, LenProperties

\* The left button goes up or down, or something else happens.
LEMMA LeftAppended ==
  ASSUME NEW q \in Seq(Events), NEW e \in Events, NEW h, NEW g, NEW s, LeftOK(q, h, s),
         IsLeft(e) => (e[3] = TRUE <=> "left" \in g),
         ~IsLeft(e) => ("left" \in g <=> "left" \in h)
  PROVE  LeftOK(q \o <<e>>, g, s)
<1> DEFINE r == q \o <<e>>
<1>1. /\ Len(q) \in Nat /\ Len(r) = Len(q) + 1 /\ r[Len(q) + 1] = e
      /\ \A i \in 1 .. Len(q) : r[i] = q[i]
  BY Places
<1> HIDE DEF r
<1>2. \A i \in 1 .. Len(q) : i \in 1 .. Len(r)
  BY <1>1
<1>3. Len(q) + 1 \in 1 .. Len(r)
  BY <1>1
<1>4. ASSUME NEW i \in 1 .. Len(r), IsLeft(r[i]), \A j \in (i + 1) .. Len(r) : ~IsLeft(r[j])
      PROVE  r[i][3] = TRUE <=> "left" \in g
  <2>1. CASE i = Len(q) + 1
    BY <1>1, <1>4, <2>1
  <2>2. CASE i \in 1 .. Len(q)
    <3>1. Len(q) + 1 \in (i + 1) .. Len(r)
      BY <1>1, <2>2
    <3>2. \A j \in (i + 1) .. Len(q) : j \in (i + 1) .. Len(r) /\ r[j] = q[j]
      BY <1>1, <2>2
    <3>3. \A j \in (i + 1) .. Len(q) : ~IsLeft(q[j])
      BY <1>4, <3>2
    <3>4. ~IsLeft(e) /\ IsLeft(q[i]) /\ r[i] = q[i]
      BY <1>1, <1>4, <2>2, <3>1
    <3>5. q[i][3] = TRUE <=> "left" \in h
      BY <2>2, <3>3, <3>4 DEF LeftOK
    <3>6. QED  BY <3>4, <3>5
  <2>3. i = Len(q) + 1 \/ i \in 1 .. Len(q)
    BY <1>1
  <2>4. QED  BY <2>1, <2>2, <2>3
<1>5. ASSUME \A i \in 1 .. Len(r) : ~IsLeft(r[i])
      PROVE  s = "PR" <=> "left" \in g
  <2>1. ~IsLeft(e) /\ \A i \in 1 .. Len(q) : ~IsLeft(q[i])
    BY <1>1, <1>2, <1>3, <1>5
  <2>2. QED  BY <2>1 DEF LeftOK
<1>6. QED  BY <1>4, <1>5 DEF LeftOK, r

\* An event is taken, and the state follows the left button.
LEMMA LeftTaken ==
  ASSUME NEW q \in Seq(Events), q # <<>>, NEW h, NEW s, NEW t, LeftOK(q, h, s),
         IsLeft(Head(q)) => (t = "PR" <=> Head(q)[3] = TRUE),
         ~IsLeft(Head(q)) => t = s
  PROVE  LeftOK(Tail(q), h, t)
<1> DEFINE r == Tail(q)
<1>1. /\ Head(q) = q[1] /\ Len(q) \in Nat \ {0} /\ Len(r) = Len(q) - 1
      /\ \A i \in 1 .. Len(r) : r[i] = q[i + 1]
  BY HeadTailProperties, EmptySeq
<1>2. \A i \in 2 .. Len(q) : i - 1 \in 1 .. Len(r) /\ r[i - 1] = q[i]
  BY <1>1
<1> HIDE DEF r
<1>3. ASSUME NEW i \in 1 .. Len(r), IsLeft(r[i]), \A j \in (i + 1) .. Len(r) : ~IsLeft(r[j])
      PROVE  r[i][3] = TRUE <=> "left" \in h
  <2>1. \A j \in (i + 1 + 1) .. Len(q) : j - 1 \in (i + 1) .. Len(r) /\ r[j - 1] = q[j]
    BY <1>1, <1>2
  <2>2. i + 1 \in 1 .. Len(q) /\ r[i] = q[i + 1]
    BY <1>1
  <2>3. \A j \in (i + 1 + 1) .. Len(q) : ~IsLeft(q[j])
    BY <1>3, <2>1
  <2>4. QED  BY <1>3, <2>2, <2>3 DEF LeftOK
<1>4. ASSUME \A i \in 1 .. Len(r) : ~IsLeft(r[i])
      PROVE  t = "PR" <=> "left" \in h
  <2>1. \A i \in 2 .. Len(q) : ~IsLeft(q[i])
    BY <1>2, <1>4
  <2>2. CASE IsLeft(q[1])
    <3>1. q[1][3] = TRUE <=> "left" \in h
      BY <1>1, <2>1, <2>2 DEF LeftOK
    <3>2. QED  BY <1>1, <2>2, <3>1
  <2>3. CASE ~IsLeft(q[1])
    <3>1. \A i \in 1 .. Len(q) : ~IsLeft(q[i])
      BY <1>1, <2>1, <2>3
    <3>2. QED  BY <1>1, <2>3, <3>1 DEF LeftOK
  <2>4. QED  BY <2>2, <2>3
<1>5. QED  BY <1>3, <1>4 DEF LeftOK, r

\* An event is taken: a touch that evdev_read knows to be a press makes one, and only
\* a lift ends it.
LEMMA FingerTaken ==
  ASSUME NEW q \in Seq(Events), q # <<>>, NEW h, NEW s, NEW u, NEW t, NEW l,
         FingerOK(q, h, s, t, l),
         Presses(Head(q)) => u = "PR",
         Head(q)[1] # "lift" /\ s = "PR" => u = "PR"
  PROVE  FingerOK(Tail(q), h, u, t, l)
<1> DEFINE r == Tail(q)
<1>1. /\ Head(q) = q[1] /\ Len(q) \in Nat \ {0} /\ Len(r) = Len(q) - 1
      /\ \A i \in 1 .. Len(r) : r[i] = q[i + 1]
  BY HeadTailProperties, EmptySeq
<1>2. \A i \in 2 .. Len(q) : i - 1 \in 1 .. Len(r) /\ r[i - 1] = q[i]
  BY <1>1
<1> HIDE DEF r
<1>3. SUFFICES ASSUME Touched(h, t, l)
               PROVE  FingerOK(r, h, u, t, l)
  BY DEF FingerOK, r
<1>4. ASSUME NEW i \in 1 .. Len(r), r[i][1] = "lift"
      PROVE  \E j \in (i + 1) .. Len(r) : Presses(r[j])
  <2>1. i + 1 \in 1 .. Len(q) /\ r[i] = q[i + 1]
    BY <1>1
  <2>2. PICK j \in (i + 1 + 1) .. Len(q) : Presses(q[j])
    BY <1>3, <1>4, <2>1 DEF FingerOK
  <2>3. j - 1 \in (i + 1) .. Len(r) /\ r[j - 1] = q[j]
    BY <1>1, <1>2, <2>2
  <2>4. QED  BY <2>2, <2>3
<1>5. ASSUME \E j \in 2 .. Len(q) : Presses(q[j])
      PROVE  \E j \in 1 .. Len(r) : Presses(r[j])
  BY <1>2, <1>5
<1>6. u = "PR" \/ \E j \in 1 .. Len(r) : Presses(r[j])
  <2>1. CASE Presses(q[1])
    BY <1>1, <2>1
  <2>2. CASE q[1][1] = "lift"
    <3>1. \E j \in (1 + 1) .. Len(q) : Presses(q[j])
      BY <1>1, <1>3, <2>2 DEF FingerOK
    <3>2. QED  BY <1>5, <3>1
  <2>3. CASE ~Presses(q[1]) /\ q[1][1] # "lift"
    <3>1. s = "PR" \/ \E j \in 1 .. Len(q) : Presses(q[j])
      BY <1>3 DEF FingerOK
    <3>2. CASE s = "PR"
      BY <1>1, <2>3, <3>2
    <3>3. CASE \E j \in 1 .. Len(q) : Presses(q[j])
      <4>1. PICK j \in 1 .. Len(q) : Presses(q[j])
        BY <3>3
      <4>2. j \in 2 .. Len(q)
        BY <1>1, <2>3, <4>1
      <4>3. QED  BY <1>5, <4>1, <4>2
    <3>4. QED  BY <3>1, <3>2, <3>3
  <2>4. QED  BY <2>1, <2>2, <2>3
<1>7. QED  BY <1>4, <1>6 DEF FingerOK

\* An event is appended that is a press, or no lift while the screen stays touched.
LEMMA FingerAppended ==
  ASSUME NEW q \in Seq(Events), NEW e \in Events, NEW h, NEW g, NEW s, NEW t, NEW l,
         NEW u, NEW m, FingerOK(q, h, s, t, l),
         Touched(g, u, m) => Presses(e) \/ (e[1] # "lift" /\ Touched(h, t, l))
  PROVE  FingerOK(q \o <<e>>, g, s, u, m)
<1> DEFINE r == q \o <<e>>
<1>1. /\ Len(q) \in Nat /\ Len(r) = Len(q) + 1 /\ r[Len(q) + 1] = e
      /\ \A i \in 1 .. Len(q) : r[i] = q[i]
  BY Places
<1> HIDE DEF r
<1>2. SUFFICES ASSUME Touched(g, u, m)
               PROVE  FingerOK(r, g, s, u, m)
  BY DEF FingerOK, r
<1>3. CASE Presses(e)
  <2>1. e[1] # "lift"
    BY <1>3 DEF Presses
  <2>2. Len(q) + 1 \in 1 .. Len(r) /\ Presses(r[Len(q) + 1])
    BY <1>1, <1>3
  <2>3. ASSUME NEW i \in 1 .. Len(r), r[i][1] = "lift"
        PROVE  Len(q) + 1 \in (i + 1) .. Len(r)
    BY <1>1, <2>1, <2>3
  <2>4. QED  BY <2>2, <2>3 DEF FingerOK
<1>4. CASE ~Presses(e)
  <2>1. e[1] # "lift" /\ Touched(h, t, l)
    BY <1>2, <1>4
  <2>2. ASSUME NEW i \in 1 .. Len(r), r[i][1] = "lift"
        PROVE  \E j \in (i + 1) .. Len(r) : Presses(r[j])
    <3>1. i \in 1 .. Len(q) /\ q[i][1] = "lift"
      BY <1>1, <2>1, <2>2
    <3>2. PICK j \in (i + 1) .. Len(q) : Presses(q[j])
      BY <2>1, <3>1 DEF FingerOK
    <3>3. j \in (i + 1) .. Len(r) /\ r[j] = q[j]
      BY <1>1, <3>1, <3>2
    <3>4. QED  BY <3>2, <3>3
  <2>3. s = "PR" \/ \E j \in 1 .. Len(q) : Presses(q[j])
    BY <2>1 DEF FingerOK
  <2>4. \A j \in 1 .. Len(q) : j \in 1 .. Len(r) /\ r[j] = q[j]
    BY <1>1
  <2>5. QED  BY <2>2, <2>3, <2>4 DEF FingerOK
<1>5. QED  BY <1>3, <1>4

\* When a device is replaced, libinput releases all that was held.
LEMMA Released ==
  ASSUME held \subseteq Hands, IsFiniteSet(Keys), IsFiniteSet(Fingers),
         Keys \cap {"left", "right"} = {}, Fingers \cap (Keys \cup {"left", "right"}) = {}
  PROVE  /\ Releases \in Seq(Events)
         /\ Downs(Releases, {})
         /\ LetGo(held, {}, Releases)
<1> DEFINE K == {<<"key", c, FALSE>> : c \in held \cap Keys}
           B == {<<"button", b, FALSE>> : b \in held \cap {"left", "right"}}
           F == {<<"lift", f>> : f \in held \cap Fingers}
           S == K \cup B \cup F
<1>1. IsFiniteSet(S)
  <2>1. IsFiniteSet(K)
    <3> DEFINE f == [c \in held \cap Keys |-> <<"key", c, FALSE>>]
    <3>1. f \in Surjection(held \cap Keys, K)
      BY DEF Surjection
    <3>2. IsFiniteSet(held \cap Keys)
      BY FS_Subset
    <3>3. QED  BY <3>1, <3>2, FS_Surjection
  <2>2. B \subseteq {<<"button", "left", FALSE>>, <<"button", "right", FALSE>>}
    OBVIOUS
  <2>3. IsFiniteSet({<<"button", "left", FALSE>>, <<"button", "right", FALSE>>})
    <3>1. \A x, y : IsFiniteSet({x, y})
      <4>1. TAKE x, y
      <4>2. IsFiniteSet({x}) /\ IsFiniteSet({y})
        BY FS_Singleton
      <4>3. IsFiniteSet({x} \cup {y})
        BY <4>2, FS_Union
      <4>4. {x, y} = {x} \cup {y}
        OBVIOUS
      <4>5. QED  BY <4>3, <4>4, Zenon
    <3>2. QED  BY <3>1
  <2>4. IsFiniteSet(B)
    BY <2>2, <2>3, FS_Subset
  <2>6. IsFiniteSet(F)
    <3> DEFINE f == [x \in held \cap Fingers |-> <<"lift", x>>]
    <3>1. f \in Surjection(held \cap Fingers, F)
      BY DEF Surjection
    <3>2. IsFiniteSet(held \cap Fingers)
      BY FS_Subset
    <3>3. QED  BY <3>1, <3>2, FS_Surjection
  <2>7. QED  BY <2>1, <2>4, <2>6, FS_Union
<1>2. \A e \in S : IsUp(e) /\ ~IsDown(e)
  <2>1. ASSUME NEW e \in K
        PROVE  e[1] = "key" /\ e[3] = FALSE
    <3>1. PICK c \in held \cap Keys : e = <<"key", c, FALSE>>
      BY Zenon
    <3>2. QED  BY <3>1
  <2>2. ASSUME NEW e \in B
        PROVE  e[1] = "button" /\ e[3] = FALSE
    <3>1. PICK b \in held \cap {"left", "right"} : e = <<"button", b, FALSE>>
      BY Zenon
    <3>2. QED  BY <3>1
  <2>3. ASSUME NEW e \in F
        PROVE  e[1] = "lift"
    <3>1. PICK f \in held \cap Fingers : e = <<"lift", f>>
      BY Zenon
    <3>2. QED  BY <3>1
  <2>4. QED  BY <2>1, <2>2, <2>3 DEF IsUp, IsDown, HasState
<1>3. \A x \in held : \E e \in S : IsUp(e) /\ Thing(e) = x
  <2>1. \A x \in held : x \in Keys \/ x \in {"left", "right"} \/ x \in Fingers
    BY DEF Hands
  <2>2. \A x \in held \cap Keys :
          <<"key", x, FALSE>> \in S /\ IsUp(<<"key", x, FALSE>>) /\ Thing(<<"key", x, FALSE>>) = x
    BY DEF IsUp, Thing, HasState
  <2>3. \A x \in held \cap {"left", "right"} :
          /\ <<"button", x, FALSE>> \in S
          /\ IsUp(<<"button", x, FALSE>>) /\ Thing(<<"button", x, FALSE>>) = x
    BY DEF IsUp, Thing, HasState
  <2>4. \A x \in held \cap Fingers :
          <<"lift", x>> \in S /\ IsUp(<<"lift", x>>) /\ Thing(<<"lift", x>>) = x
    BY DEF IsUp, Thing, HasState
  <2>5. QED  BY <2>1, <2>2, <2>3, <2>4
<1>4. S \subseteq Events
  <2>1. K \subseteq KeyEvents /\ B \subseteq ButtonEvents /\ F \subseteq LiftEvents
    <3>1. K \subseteq KeyEvents
      <4>1. \A c \in Keys : <<"key", c, FALSE>> \in KeyEvents
        BY DEF KeyEvents
      <4>2. QED  BY <4>1, Zenon
    <3>2. B \subseteq ButtonEvents
      <4>1. \A b \in {"left", "right"} : <<"button", b, FALSE>> \in ButtonEvents
        BY DEF ButtonEvents
      <4>2. QED  BY <4>1, Zenon
    <3>3. F \subseteq LiftEvents
      <4>1. \A f \in Fingers : <<"lift", f>> \in LiftEvents
        BY DEF LiftEvents
      <4>2. QED  BY <4>1, Zenon
    <3>4. QED  BY <3>1, <3>2, <3>3
  <2>2. CASE kind = "keyboard"
    <3>1. B = {} /\ F = {}
      BY <2>2 DEF Hands
    <3>2. QED  BY <2>1, <2>2, <3>1 DEF Events
  <2>3. CASE kind = "mouse"
    <3>1. K = {} /\ F = {}
      BY <2>3 DEF Hands
    <3>2. QED  BY <2>1, <2>3, <3>1 DEF Events
  <2>4. CASE kind \notin {"keyboard", "mouse"}
    <3>1. K = {} /\ B = {}
      BY <2>4 DEF Hands
    <3>2. QED  BY <2>1, <2>4, <3>1 DEF Events
  <2>5. QED  BY <2>2, <2>3, <2>4
<1>5. Releases = SetToSeq(S)
  BY DEF Releases
<1> HIDE DEF S
<1>6. /\ Releases \in Seq(S)
      /\ \A e \in S : \E i \in 1 .. Len(Releases) : Releases[i] = e
  BY <1>1, <1>5, Sequenced
<1>7. Releases \in Seq(Events)
  BY <1>4, <1>6, SeqMonotonic
<1>8. \A i \in 1 .. Len(Releases) : ~IsDown(Releases[i])
  BY <1>2, <1>6, ElementOfSeq
<1>9. \A x \in held : FreedIn(Releases, x)
  BY <1>3, <1>6 DEF FreedIn
<1>10. QED  BY <1>7, <1>8, <1>9 DEF Downs, DownAt, LetGo, Holding

----------------------------------------------------------------------------
(* The types *)

\* The types of all that is not the scan's.
DeviceTypes ==
  /\ driver \in {"evdev", "libinput", "scan"}
  /\ kind \in {"keyboard", "mouse", "touchscreen"}
  /\ useXkb \in BOOLEAN /\ touchKey \in BOOLEAN
  /\ started \in BOOLEAN /\ opened \in BOOLEAN /\ polled \in BOOLEAN
  /\ mapped \in BOOLEAN /\ shifted \in BOOLEAN /\ dead \in BOOLEAN
  /\ reading \in {"no", "drain", "stop"}
  /\ cal.hor \in Nat \X Nat /\ cal.ver \in Nat \X Nat

ReadTypes ==
  /\ key \in Nat /\ state \in {"PR", "REL"} /\ point \in Int \X Int
  /\ unheard \subseteq Keys
  /\ meant \in Seq(Nat \X {"PR", "REL"}) /\ told \in Seq(Nat \X {"PR", "REL"})

QueueTypes ==
  /\ held \subseteq Hands /\ touches \in {"none", "one", "many"}
  /\ queue \in Seq(Events) /\ lifted \in BOOLEAN

Types == DeviceTypes /\ ReadTypes /\ QueueTypes

\* The code that opens and closes a device keeps the types.
LEMMA TypesOfBegin ==
  ASSUME Types, NEW ok \in BOOLEAN, NEW map \in BOOLEAN, Begin(ok, map)
  PROVE  Types'
<1> USE KernelInputAssumption
<1>1. /\ UNCHANGED deviceVars /\ started' = TRUE /\ opened' = ok
      /\ polled' \in {polled, ok} /\ mapped' \in {map, ok /\ map}
      /\ reading' = reading /\ shifted' = shifted /\ dead' = dead
      /\ meant' = meant /\ told' = told /\ touches' = touches
      /\ held' = {} /\ unheard' \in {{}, unheard} /\ point' \in {Origin, point}
      /\ \/ key' = 0 /\ state' = "REL"
         \/ key' = key /\ state' = state
      /\ queue' = <<>> \/ queue' = queue \o Releases
      /\ lifted' = FALSE
      /\ \/ cal' = cal
         \/ cal' = [ver |-> <<Declared.hor[1], Declared.hor[2]>>,
                    hor |-> <<Declared.ver[1], Declared.ver[2]>>]
  BY DEF Begin, EvdevSetFile, LibinputSetFile, ResetState, SetCalibration
<1>2. DeviceTypes'
  <2>1. DeviceTypes
    BY DEF Types
  <2>2. cal'.hor \in Nat \X Nat /\ cal'.ver \in Nat \X Nat
    <3>1. CASE cal' = cal
      BY <2>1, <3>1 DEF DeviceTypes
    <3>2. CASE cal' = [ver |-> <<Declared.hor[1], Declared.hor[2]>>,
                       hor |-> <<Declared.ver[1], Declared.ver[2]>>]
      <4>1. /\ Declared.hor[1] \in Nat /\ Declared.hor[2] \in Nat
            /\ Declared.ver[1] \in Nat /\ Declared.ver[2] \in Nat
        OBVIOUS
      <4>2. QED  BY <3>2, <4>1
    <3>3. QED  BY <1>1, <3>1, <3>2
  <2>3. /\ opened' \in BOOLEAN /\ polled' \in BOOLEAN /\ mapped' \in BOOLEAN
        /\ started' \in BOOLEAN
    <3>1. polled \in BOOLEAN
      BY <2>1 DEF DeviceTypes
    <3>2. QED  BY <1>1, <3>1
  <2>4. /\ UNCHANGED <<driver, kind, useXkb, touchKey>>
        /\ reading' = reading /\ shifted' = shifted /\ dead' = dead
    BY <1>1 DEF deviceVars
  <2>5. QED  BY <2>1, <2>2, <2>3, <2>4 DEF DeviceTypes
<1>3. ReadTypes'
  <2>1. ReadTypes
    BY DEF Types
  <2>2. key' \in Nat /\ state' \in {"PR", "REL"} /\ unheard' \subseteq Keys
    BY <1>1, <2>1 DEF ReadTypes
  <2>3. point' \in Int \X Int
    BY <1>1, <2>1 DEF ReadTypes, Origin
  <2>4. QED  BY <1>1, <2>1, <2>2, <2>3 DEF ReadTypes
<1>4. Hands' = Hands /\ Events' = Events
  BY <1>1 DEF deviceVars, Hands, Events, TouchEvents, Raw
<1>5. Releases \in Seq(Events)
  BY Released DEF Types, QueueTypes
<1>6. QueueTypes'
  <2>1. queue \in Seq(Events) /\ touches \in {"none", "one", "many"}
    BY DEF Types, QueueTypes
  <2>2. queue \o Releases \in Seq(Events) /\ <<>> \in Seq(Events)
    BY <1>5, <2>1, ConcatProperties, EmptySeq
  <2>3. queue' \in Seq(Events)
    BY <1>1, <2>2
  <2>4. QED  BY <1>1, <1>4, <2>1, <2>3 DEF QueueTypes
<1>7. QED  BY <1>2, <1>3, <1>6 DEF Types

LEMMA TypesOfSetFile ==
  ASSUME Types, NEW ok \in BOOLEAN, SetFile(ok)
  PROVE  Types'
<1> USE KernelInputAssumption
<1>1. /\ UNCHANGED <<deviceVars, started, polled, mapped, cal, shifted, meant, told,
                     dead, reading>>
      /\ opened' = ok /\ touches' \in {touches, "none", "many"} /\ lifted' = FALSE
      /\ held' = {} /\ unheard' \in {{}, unheard} /\ point' \in {Origin, point}
      /\ \/ key' = 0 /\ state' = "REL"
         \/ key' = key /\ state' = state
      /\ queue' = <<>> \/ queue' = queue \o Releases
  BY DEF SetFile, EvdevSetFile, LibinputSetFile, ResetState, TouchedBefore
<1>2. DeviceTypes'
  <2>1. DeviceTypes
    BY DEF Types
  <2>2. /\ UNCHANGED <<driver, kind, useXkb, touchKey, started, polled, mapped, cal,
                       shifted, dead, reading>>
        /\ opened' \in BOOLEAN
    BY <1>1 DEF deviceVars
  <2>3. QED  BY <2>1, <2>2 DEF DeviceTypes
<1>3. ReadTypes'
  <2>1. ReadTypes
    BY DEF Types
  <2>2. key' \in Nat /\ state' \in {"PR", "REL"} /\ unheard' \subseteq Keys
    BY <1>1, <2>1 DEF ReadTypes
  <2>3. point' \in Int \X Int
    BY <1>1, <2>1 DEF ReadTypes, Origin
  <2>4. QED  BY <1>1, <2>1, <2>2, <2>3 DEF ReadTypes
<1>4. Hands' = Hands /\ Events' = Events
  BY <1>1 DEF deviceVars, Hands, Events, TouchEvents, Raw
<1>5. Releases \in Seq(Events)
  BY Released DEF Types, QueueTypes
<1>6. QueueTypes'
  <2>1. queue \in Seq(Events) /\ touches \in {"none", "one", "many"}
    BY DEF Types, QueueTypes
  <2>2. queue \o Releases \in Seq(Events) /\ <<>> \in Seq(Events)
    BY <1>5, <2>1, ConcatProperties, EmptySeq
  <2>3. queue' \in Seq(Events)
    BY <1>1, <2>2
  <2>4. QED  BY <1>1, <1>4, <2>1, <2>3 DEF QueueTypes
<1>7. QED  BY <1>2, <1>3, <1>6 DEF Types

LEMMA TypesOfDeinit ==
  ASSUME Types, Deinit
  PROVE  Types'
<1>1. DeviceTypes'
  BY DEF Types, DeviceTypes, Deinit, deviceVars
<1>2. ReadTypes'
  BY DEF Types, ReadTypes, Deinit, Origin
<1>3. Hands' = Hands /\ Events' = Events
  BY DEF Deinit, deviceVars, Hands, Events, TouchEvents, Raw
<1>4. QueueTypes'
  BY <1>3, EmptySeq DEF Types, QueueTypes, Deinit
<1>5. QED  BY <1>1, <1>2, <1>4 DEF Types

\* A finger has been lifted while others stay, when the hand becomes g.
NowLifted(g) == g # {} /\ (lifted \/ \E f \in Fingers : f \in held \ g)

\* What the user does: a new hand, one event and the touches so far; what leaves
\* the hand is released, and what the event holds down is in it.
Gesture(g, e, t) ==
  /\ e \in Events /\ g \subseteq Hands
  /\ t \in {"none", "one", "many"}
  /\ IsDown(e) => Thing(e) \in g
  /\ \A x \in held : x \in g \/ (IsUp(e) /\ Thing(e) = x)
  /\ IsLeft(e) => (e[3] = TRUE <=> "left" \in g)
  /\ ~IsLeft(e) => ("left" \in g <=> "left" \in held)
  /\ Touched(g, t, NowLifted(g)) =>
       Presses(e) \/ (e[1] # "lift" /\ Touched(held, touches, lifted))

LEMMA UserGesture ==
  ASSUME Types, User
  PROVE  \E g, e, t : Act(g, <<e>>, t) /\ Gesture(g, e, t)
<1> USE KernelInputAssumption
<1>1. CASE kind = "keyboard"
  <2>1. Hands = Keys /\ Events = KeyEvents /\ held \subseteq Keys
    BY <1>1 DEF Hands, Events, Types, QueueTypes
  <2>2. touches \in {"none", "one", "many"}
    BY DEF Types, QueueTypes
  <2>3. \A c \in Keys : c \notin {"left", "right"} /\ c \notin Fingers
    OBVIOUS
  <2>4. CASE \E c \in Keys : Act(Toggled(c), <<<<"key", c, c \notin held>>>>, touches)
    <3>1. PICK c \in Keys : Act(Toggled(c), <<<<"key", c, c \notin held>>>>, touches)
      BY <2>4
    <3> DEFINE e == <<"key", c, c \notin held>>
    <3>2. /\ e \in KeyEvents /\ e[1] = "key" /\ e[2] = c
          /\ e[3] = TRUE <=> c \notin held
          /\ e[3] = FALSE <=> c \in held
      BY DEF KeyEvents
    <3> HIDE DEF e
    <3>3. /\ Toggled(c) \subseteq Keys
          /\ c \in Toggled(c) <=> c \notin held
          /\ \A x : x # c => (x \in Toggled(c) <=> x \in held)
      BY <2>1 DEF Toggled
    <3>4. IsDown(e) => c \notin held
      BY <3>2 DEF IsDown, HasState
    <3>5. c \in held => IsUp(e)
      BY <3>2 DEF IsUp, HasState
    <3>6. Thing(e) = c /\ ~IsLeft(e)
      BY <3>2 DEF Thing, HasState, IsLeft
    <3>7. "left" \notin Toggled(c) /\ "left" \notin held
      BY <2>1, <2>3, <3>3
    <3>8. \A t, l : ~Touched(Toggled(c), t, l)
      BY <2>3, <3>3 DEF Touched
    <3>9. Gesture(Toggled(c), e, touches)
      BY <2>1, <2>2, <3>2, <3>3, <3>4, <3>5, <3>6, <3>7, <3>8 DEF Gesture
    <3>10. QED  BY <3>1, <3>9 DEF e
  <2>5. CASE \E c \in held : Act(held, <<<<"key", c, TRUE>>>>, touches)
    <3>1. PICK c \in held : Act(held, <<<<"key", c, TRUE>>>>, touches)
      BY <2>5
    <3> DEFINE e == <<"key", c, TRUE>>
    <3>2. e \in KeyEvents /\ e[1] = "key" /\ e[2] = c
      BY <2>1 DEF KeyEvents
    <3> HIDE DEF e
    <3>3. Thing(e) = c /\ ~IsLeft(e)
      BY <3>2 DEF Thing, HasState, IsLeft
    <3>4. "left" \notin held /\ \A t, l : ~Touched(held, t, l)
      BY <2>1, <2>3 DEF Touched
    <3>5. Gesture(held, e, touches)
      BY <2>1, <2>2, <3>2, <3>3, <3>4 DEF Gesture
    <3>6. QED  BY <3>1, <3>5 DEF e
  <2>6. QED  BY <1>1, <2>4, <2>5 DEF User
<1>2. CASE kind = "mouse"
  <2>1. Hands = {"left", "right"} /\ Events = ButtonEvents \cup MotionEvents
    BY <1>2 DEF Hands, Events
  <2>2. touches \in {"none", "one", "many"} /\ held \subseteq {"left", "right"}
    BY <2>1 DEF Types, QueueTypes
  <2> \A g, t, l : g \subseteq {"left", "right"} => ~Touched(g, t, l)
    BY DEF Touched
  <2>3. CASE \E b \in {"left", "right"} :
               Act(Toggled(b), <<<<"button", b, b \notin held>>>>, touches)
    <3>1. PICK b \in {"left", "right"} :
            Act(Toggled(b), <<<<"button", b, b \notin held>>>>, touches)
      BY <2>3
    <3> DEFINE e == <<"button", b, b \notin held>>
    <3>2. /\ e \in ButtonEvents /\ e[1] = "button" /\ e[2] = b
          /\ e[3] = TRUE <=> b \notin held
          /\ e[3] = FALSE <=> b \in held
      BY DEF ButtonEvents
    <3> HIDE DEF e
    <3>3. /\ Toggled(b) \subseteq {"left", "right"}
          /\ b \in Toggled(b) <=> b \notin held
          /\ \A x : x # b => (x \in Toggled(b) <=> x \in held)
      BY <2>2 DEF Toggled
    <3>4. IsDown(e) => b \notin held
      BY <3>2 DEF IsDown, HasState
    <3>5. b \in held => IsUp(e)
      BY <3>2 DEF IsUp, HasState
    <3>6. Thing(e) = b /\ (IsLeft(e) <=> b = "left")
      BY <3>2 DEF Thing, HasState, IsLeft
    <3>7. Gesture(Toggled(b), e, touches)
      BY <2>1, <2>2, <3>2, <3>3, <3>4, <3>5, <3>6 DEF Gesture
    <3>8. QED  BY <3>1, <3>7 DEF e
  <2>4. CASE \E d \in {-1, 1} : Act(held, <<<<"rel", d>>>>, touches)
    <3>1. PICK d \in {-1, 1} : Act(held, <<<<"rel", d>>>>, touches)
      BY <2>4
    <3> DEFINE e == <<"rel", d>>
    <3>2. e \in MotionEvents /\ e[1] = "rel"
      BY DEF MotionEvents
    <3> HIDE DEF e
    <3>3. ~IsDown(e) /\ ~IsLeft(e)
      BY <3>2 DEF IsDown, HasState, IsLeft
    <3>4. Gesture(held, e, touches)
      BY <2>1, <2>2, <3>2, <3>3 DEF Gesture
    <3>5. QED  BY <3>1, <3>4 DEF e
  <2>5. QED  BY <1>2, <2>3, <2>4 DEF User
<1>3. CASE kind = "touchscreen"
  <2>1. Hands = Fingers /\ Events = TouchEvents \cup LiftEvents
    BY <1>3 DEF Hands, Events
  <2>2. /\ touches \in {"none", "one", "many"} /\ held \subseteq Fingers
        /\ lifted \in BOOLEAN /\ touchKey \in BOOLEAN
    BY <2>1 DEF Types, QueueTypes, DeviceTypes
  <2>3. "left" \notin Fingers
    OBVIOUS
  <2>4. ASSUME NEW f \in Fingers \ held, NEW p \in Raw,
               Act(held \cup {f}, <<<<"touch", f, p, touches = "none", held = {}>>>>,
                   IF touches = "none" THEN "one" ELSE "many")
        PROVE  \E g, e, t : Act(g, <<e>>, t) /\ Gesture(g, e, t)
    <3> DEFINE t == IF touches = "none" THEN "one" ELSE "many"
               e == <<"touch", f, p, touches = "none", held = {}>>
               g == held \cup {f}
    <3>1. /\ e \in TouchEvents /\ e[1] = "touch" /\ e[2] = f
          /\ (e[4] = TRUE <=> touches = "none") /\ (e[5] = TRUE <=> held = {})
          /\ e[4] \in BOOLEAN /\ e[5] \in BOOLEAN
      BY DEF TouchEvents
    <3>2. Act(g, <<e>>, t)
      BY <2>4
    <3>3. /\ g \subseteq Fingers /\ f \in g /\ held \subseteq g
          /\ t \in {"none", "one", "many"} /\ (t = "one" => touches = "none")
      BY <2>2
    <3> HIDE DEF e, t, g
    <3>4. Thing(e) = f /\ ~IsLeft(e)
      BY <3>1 DEF Thing, IsLeft
    <3>5. ASSUME Touched(g, t, NowLifted(g)), ~Presses(e)
          PROVE  Touched(held, touches, lifted)
      <4>1. touches # "none"
        BY <3>1, <3>5 DEF Presses
      <4>2. touchKey = TRUE
        BY <3>3, <3>5, <4>1 DEF Touched
      <4>3. held # {}
        BY <3>1, <3>5, <4>2 DEF Presses
      <4>4. lifted # TRUE
        BY <2>2, <3>3, <3>5 DEF Touched, NowLifted
      <4>5. QED  BY <2>2, <4>2, <4>3, <4>4 DEF Touched
    <3>6. Gesture(g, e, t)
      BY <2>1, <2>2, <2>3, <3>1, <3>3, <3>4, <3>5 DEF Gesture
    <3>7. QED  BY <3>2, <3>6
  <2>5. ASSUME NEW f \in held, Act(held \ {f}, <<<<"lift", f>>>>, touches)
        PROVE  \E g, e, t : Act(g, <<e>>, t) /\ Gesture(g, e, t)
    <3> DEFINE e == <<"lift", f>>
               g == held \ {f}
    <3>1. e \in LiftEvents /\ e[1] = "lift" /\ e[2] = f
      BY <2>2 DEF LiftEvents
    <3>2. Act(g, <<e>>, touches)
      BY <2>5
    <3>3. /\ g \subseteq Fingers /\ f \notin g /\ f \in Fingers
          /\ \A x \in held : x \in g \/ x = f
      BY <2>2
    <3> HIDE DEF e, g
    <3>4. Thing(e) = f /\ ~IsLeft(e) /\ IsUp(e) /\ ~IsDown(e)
      BY <3>1 DEF Thing, HasState, IsLeft, IsUp, IsDown
    <3>5. ~Touched(g, touches, NowLifted(g))
      BY <3>3 DEF Touched, NowLifted
    <3>6. Gesture(g, e, touches)
      BY <2>1, <2>2, <2>3, <3>1, <3>3, <3>4, <3>5 DEF Gesture
    <3>7. QED  BY <3>2, <3>6
  <2>6. QED  BY <1>3, <2>4, <2>5 DEF User
<1>4. QED  BY <1>1, <1>2, <1>3 DEF Types, DeviceTypes

LEMMA TypesOfUser ==
  ASSUME Types, User
  PROVE  Types'
<1>1. PICK g, e, t : Act(g, <<e>>, t) /\ Gesture(g, e, t)
  BY UserGesture
<1>2. /\ UNCHANGED <<deviceVars, openVars, stateVars, reading>>
      /\ held' = g /\ queue' = queue \o <<e>> /\ touches' = t
      /\ lifted' \in BOOLEAN
  BY <1>1 DEF Act
<1>3. e \in Events /\ g \subseteq Hands /\ t \in {"none", "one", "many"}
  BY <1>1 DEF Gesture
<1>4. DeviceTypes' /\ ReadTypes'
  BY <1>2 DEF Types, DeviceTypes, ReadTypes, deviceVars, openVars, stateVars
<1>5. Hands' = Hands /\ Events' = Events
  BY <1>2 DEF deviceVars, Hands, Events, TouchEvents, Raw
<1>6. queue \in Seq(Events) /\ <<e>> \in Seq(Events)
  BY <1>3 DEF Types, QueueTypes
<1>7. queue \o <<e>> \in Seq(Events)
  BY <1>6, ConcatProperties
<1>8. QED  BY <1>2, <1>3, <1>4, <1>5, <1>7 DEF Types, QueueTypes

\* What one turn of the reading loop does with a key event.
KeyTaken(e, k) ==
  /\ e[1] = "key" /\ k \in Nat
  /\ key' = k /\ point' = point /\ dead' = dead /\ shifted' \in BOOLEAN
  /\ k # 0 => /\ state' = StateOf(e[3]) /\ meant' = Append(meant, <<k, state'>>)
              /\ unheard' = {}
              /\ reading' = IF driver = "evdev" THEN "stop" ELSE "drain"
  /\ k = 0 => /\ state' = state /\ meant' = meant /\ reading' = "drain"
              /\ e[3] = TRUE => unheard' = unheard
              /\ e[3] = FALSE => unheard' = unheard \cup {e[2]}

\* And with another event.
PointTaken(e) ==
  /\ e[1] # "key" /\ UNCHANGED <<key, shifted, unheard, meant, dead, reading>>
  /\ IF driver = "evdev" THEN EvdevPointer(e) ELSE LibinputPointer(e)

LEMMA TakeEventEffect ==
  ASSUME Types, TakeEvent
  PROVE  /\ queue # <<>> /\ queue' = Tail(queue) /\ reading = "drain"
         /\ UNCHANGED <<deviceVars, openVars, held, touches, lifted, told, scanVars>>
         /\ Head(queue) \in Events
         /\ \/ /\ dead' = TRUE
               /\ UNCHANGED <<key, state, point, shifted, unheard, meant, reading>>
            \/ \E k : KeyTaken(Head(queue), k)
            \/ PointTaken(Head(queue))
<1> USE KernelInputAssumption
<1> DEFINE e == Head(queue)
<1>1. /\ queue # <<>> /\ queue' = Tail(queue) /\ reading = "drain"
      /\ UNCHANGED <<deviceVars, openVars, held, touches, lifted, told, scanVars>>
  BY DEF TakeEvent
<1>2. e \in Events
  BY <1>1, HeadTailProperties DEF Types, QueueTypes
<1>3. CASE e[1] = "key" /\ useXkb /\ ~mapped
  BY <1>1, <1>2, <1>3 DEF TakeEvent
<1>4. CASE e[1] = "key" /\ ~(useXkb /\ ~mapped)
  <2> DEFINE k == KeyOf(e[2])
  <2>1. kind = "keyboard" /\ e[2] \in Keys /\ e[3] \in BOOLEAN
    BY <1>2, <1>4, EventShape DEF Types, DeviceTypes
  <2>2. Level \in 0 .. 1
    BY DEF Level
  <2>3. k \in Nat
    <3>1. Meaning[e[2]] \in [0 .. 1 -> Nat]
      BY <2>1
    <3>2. QED  BY <2>2, <3>1 DEF KeyOf
  <2>4. /\ TakeKey(e) /\ UNCHANGED dead
        /\ reading' = IF Ends(e) THEN "stop" ELSE "drain"
    BY <1>4 DEF TakeEvent
  <2>5. shifted' \in BOOLEAN
    BY <2>1, <2>4 DEF TakeKey, Shifting, Types, DeviceTypes
  <2>6. Ends(e) <=> driver = "evdev" /\ k # 0
    BY DEF Ends
  <2>7. /\ key' = k /\ point' = point
        /\ k # 0 => /\ state' = StateOf(e[3])
                    /\ meant' = Append(meant, <<k, StateOf(e[3])>>)
                    /\ unheard' = {}
        /\ k = 0 => /\ UNCHANGED <<state, meant>>
                    /\ unheard' = IF e[3] THEN unheard ELSE unheard \cup {e[2]}
    BY <2>4 DEF TakeKey
  <2> HIDE DEF k
  <2>8. KeyTaken(e, k)
    <3>1. CASE k # 0
      BY <1>4, <2>3, <2>4, <2>5, <2>6, <2>7, <3>1 DEF KeyTaken
    <3>2. CASE k = 0
      BY <1>4, <2>3, <2>4, <2>5, <2>6, <2>7, <3>2 DEF KeyTaken
    <3>3. QED  BY <3>1, <3>2
  <2>9. QED  BY <1>1, <1>2, <2>8
<1>5. CASE e[1] # "key"
  <2>1. PointTaken(e)
    BY <1>5 DEF TakeEvent, PointTaken
  <2>2. QED  BY <1>1, <1>2, <2>1
<1>6. QED  BY <1>3, <1>4, <1>5

LEMMA TypesOfTakeEvent ==
  ASSUME Types, TakeEvent
  PROVE  Types'
<1> USE KernelInputAssumption
<1> DEFINE e == Head(queue)
<1>1. /\ queue # <<>> /\ queue' = Tail(queue) /\ reading = "drain"
      /\ UNCHANGED <<deviceVars, openVars, held, touches, lifted, told, scanVars>>
      /\ e \in Events
      /\ \/ /\ dead' = TRUE
            /\ UNCHANGED <<key, state, point, shifted, unheard, meant, reading>>
         \/ \E k : KeyTaken(e, k)
         \/ PointTaken(e)
  BY TakeEventEffect
<1> HIDE DEF e
<1>2. Hands' = Hands /\ Events' = Events
  BY <1>1 DEF deviceVars, Hands, Events, TouchEvents, Raw
<1>3. QueueTypes'
  BY <1>1, <1>2, HeadTailProperties DEF Types, QueueTypes
<1>4. \A d : StateOf(d) \in {"PR", "REL"}
  BY DEF StateOf
<1>5. DeviceTypes'
  <2>1. reading' \in {"no", "drain", "stop"} /\ dead' \in BOOLEAN /\ shifted' \in BOOLEAN
    BY <1>1 DEF KeyTaken, PointTaken, Types, DeviceTypes
  <2>2. QED  BY <1>1, <2>1 DEF Types, DeviceTypes, deviceVars, openVars
<1>6. ReadTypes'
  <2>1. ReadTypes
    BY DEF Types
  <2>2. CASE dead' = TRUE /\ UNCHANGED <<key, state, point, shifted, unheard, meant, reading>>
    BY <1>1, <2>1, <2>2 DEF ReadTypes
  <2>3. ASSUME NEW k, KeyTaken(e, k)
        PROVE  ReadTypes'
    <3>1. kind = "keyboard" /\ e[2] \in Keys /\ e[3] \in BOOLEAN
      BY <1>1, <2>3, EventShape DEF Types, DeviceTypes, KeyTaken
    <3>2. key' \in Nat /\ point' \in Int \X Int /\ state' \in {"PR", "REL"}
      BY <1>4, <2>1, <2>3 DEF ReadTypes, KeyTaken
    <3>3. unheard' \subseteq Keys
      BY <2>1, <2>3, <3>1 DEF ReadTypes, KeyTaken
    <3>4. meant' = meant \/ (<<k, state'>> \in Nat \X {"PR", "REL"} /\ meant' = Append(meant, <<k, state'>>))
      BY <2>3, <3>2 DEF KeyTaken
    <3>5. meant' \in Seq(Nat \X {"PR", "REL"})
      <4>1. meant \in Seq(Nat \X {"PR", "REL"})
        BY <2>1 DEF ReadTypes
      <4>2. \A p \in Nat \X {"PR", "REL"} : Append(meant, p) \in Seq(Nat \X {"PR", "REL"})
        BY <4>1, AppendProperties
      <4>3. QED  BY <3>4, <4>1, <4>2
    <3>6. QED  BY <1>1, <2>1, <3>2, <3>3, <3>5 DEF ReadTypes
  <2>4. CASE PointTaken(e)
    <3>1. state' \in {"PR", "REL"}
      BY <1>4, <2>1, <2>4 DEF PointTaken, EvdevPointer, LibinputPointer, ReadTypes
    <3>2. \/ kind = "mouse" /\ (e[1] = "button" \/ (e[1] = "rel" /\ e[2] \in {-1, 1}))
          \/ (e[1] = "touch" /\ e[3] \in Raw) \/ e[1] = "lift"
      BY <1>1, <2>4, EventShape DEF PointTaken
    <3>3. \A p \in Raw : p \in Int \X Int
      BY DEF Raw
    <3>4. point \in Int \X Int /\ Hor \in Int /\ Offset[1] \in Int /\ Offset[2] \in Int
      BY <2>1 DEF ReadTypes
    <3>5. point' \in Int \X Int
      <4>1. CASE driver = "evdev"
        BY <2>4, <3>2, <3>3, <3>4, <4>1 DEF PointTaken, EvdevPointer
      <4>2. CASE driver # "evdev"
        <5>1. LibinputPointer(e)
          BY <2>4, <4>2 DEF PointTaken
        <5>2. CASE e[1] = "rel"
          <6>1. point' = <<Clamp(point[1] + e[2], 0, Hor - 1), point[2]>> /\ e[2] \in Int
            BY <3>2, <5>1, <5>2 DEF LibinputPointer
          <6>2. Clamp(point[1] + e[2], 0, Hor - 1) \in Int
            BY <3>4, <6>1 DEF Clamp
          <6>3. QED  BY <3>4, <6>1, <6>2
        <5>3. CASE e[1] = "touch"
          <6>1. \/ point' = point
                \/ point' = <<e[3][1] - Offset[1], e[3][2] - Offset[2]>>
            BY <5>1, <5>3 DEF LibinputPointer
          <6>2. e[3] \in Int \X Int
            BY <3>2, <3>3, <5>3
          <6>3. e[3][1] - Offset[1] \in Int /\ e[3][2] - Offset[2] \in Int
            <7>1. \A p \in Int \X Int : p[1] \in Int /\ p[2] \in Int
              OBVIOUS
            <7>2. e[3][1] \in Int /\ e[3][2] \in Int
              BY <6>2, <7>1
            <7>3. \A m, n \in Int : m - n \in Int
              OBVIOUS
            <7>4. QED  BY <3>4, <7>2, <7>3, Zenon
          <6>4. QED  BY <3>4, <6>1, <6>3
        <5>4. CASE e[1] \notin {"rel", "touch"}
          BY <3>4, <5>1, <5>4 DEF LibinputPointer
        <5>5. QED  BY <5>2, <5>3, <5>4
      <4>3. QED  BY <4>1, <4>2
    <3>6. QED  BY <1>1, <2>1, <2>4, <3>1, <3>5 DEF ReadTypes, PointTaken
  <2>5. QED  BY <1>1, <2>2, <2>3, <2>4
<1>7. QED  BY <1>3, <1>5, <1>6 DEF Types

LEMMA TypesOfEndRead ==
  ASSUME Types, EndRead
  PROVE  Types'
<1>1. /\ reading' = "no" /\ told' \in {told, Append(told, <<key, state>>)}
      /\ UNCHANGED <<deviceVars, openVars, key, state, point, shifted, unheard, meant,
                     dead, handVars, scanVars>>
  BY DEF EndRead
<1>2. DeviceTypes'
  BY <1>1 DEF Types, DeviceTypes, deviceVars, openVars
<1>3. told' \in Seq(Nat \X {"PR", "REL"})
  <2>1. told \in Seq(Nat \X {"PR", "REL"}) /\ <<key, state>> \in Nat \X {"PR", "REL"}
    BY DEF Types, ReadTypes
  <2>2. \A p \in Nat \X {"PR", "REL"} : Append(told, p) \in Seq(Nat \X {"PR", "REL"})
    BY <2>1, AppendProperties
  <2>3. QED  BY <1>1, <2>1, <2>2
<1>4. ReadTypes'
  BY <1>1, <1>3 DEF Types, ReadTypes
<1>5. Hands' = Hands /\ Events' = Events
  BY <1>1 DEF deviceVars, Hands, Events, TouchEvents, Raw
<1>6. QueueTypes'
  BY <1>1, <1>5 DEF Types, QueueTypes, handVars
<1>7. QED  BY <1>2, <1>4, <1>6 DEF Types

\* A read begins or the directory is scanned.
LEMMA TypesOfRest ==
  ASSUME Types, reading' \in {reading, "drain"},
         UNCHANGED <<deviceVars, openVars, stateVars, handVars>>
  PROVE  Types'
<1>1. Hands' = Hands /\ Events' = Events
  BY DEF deviceVars, Hands, Events, TouchEvents, Raw
<1>2. QueueTypes'
  BY <1>1 DEF Types, QueueTypes, handVars
<1>3. DeviceTypes' /\ ReadTypes'
  BY DEF Types, DeviceTypes, ReadTypes, deviceVars, openVars, stateVars
<1>4. QED  BY <1>2, <1>3 DEF Types

\* A step of the scan of /dev/input.
ScanStep == (\E force \in BOOLEAN : FindDevs(force)) \/ ScanEntry \/ ScanEnd

LEMMA ScanStepKeeps ==
  ScanStep => UNCHANGED <<deviceVars, openVars, stateVars, handVars, reading>>
BY DEF ScanStep, FindDevs, ScanEntry, ScanEnd

LEMMA NextSteps ==
  ASSUME KernelInputNext
  PROVE  /\ ~dead
         /\ \/ \E ok \in BOOLEAN, map \in BOOLEAN : Begin(ok, map)
            \/ \E ok \in BOOLEAN : SetFile(ok)
            \/ Deinit \/ User \/ BeginRead \/ TakeEvent \/ EndRead \/ ScanStep
<1>1. \A f : MayFail(f) \subseteq BOOLEAN
  BY DEF MayFail
<1>2. QED  BY <1>1 DEF KernelInputNext, ScanStep

LEMMA TypesStep ==
  ASSUME Types, KernelInputNext
  PROVE  Types'
<1>1. ASSUME BeginRead
      PROVE  Types'
  <2>1. reading' = "drain" /\ UNCHANGED <<deviceVars, openVars, stateVars, handVars>>
    BY <1>1 DEF BeginRead
  <2>2. QED  BY <2>1, TypesOfRest
<1>2. ASSUME ScanStep
      PROVE  Types'
  <2>1. UNCHANGED <<deviceVars, openVars, stateVars, handVars, reading>>
    BY <1>2, ScanStepKeeps
  <2>2. QED  BY <2>1, TypesOfRest
<1>3. QED
  BY <1>1, <1>2, NextSteps, TypesOfBegin, TypesOfSetFile, TypesOfDeinit, TypesOfUser,
     TypesOfTakeEvent, TypesOfEndRead

----------------------------------------------------------------------------
(* The hand, the queue and the state *)

\* HandOK after a step, said of the values after it.
LEMMA HandAfter ==
  ASSUME UNCHANGED deviceVars, Downs(queue', held'),
         state' = "PR" /\ unheard' = {} /\ ~(driver = "evdev" /\ kind = "mouse") =>
           \E x : Holding(queue', held', x),
         driver = "evdev" /\ kind = "mouse" => LeftOK(queue', held', state'),
         driver = "evdev" => FingerOK(queue', held', state', touches', lifted')
  PROVE  HandOK'
<1>1. driver' = driver /\ kind' = kind /\ touchKey' = touchKey
  BY DEF deviceVars
<1>2. Downs(queue, held)'
  BY DEF Downs, DownAt, IsDown, IsUp, Thing, HasState
<1>3. PressOK'
  BY <1>1 DEF PressOK, Holding, FreedIn, IsUp, Thing, HasState
<1>4. (driver = "evdev" /\ kind = "mouse" => LeftOK(queue, held, state))'
  BY <1>1 DEF LeftOK, IsLeft
<1>5. (driver = "evdev" => FingerOK(queue, held, state, touches, lifted))'
  BY <1>1 DEF FingerOK, Touched, Presses
<1>6. QED  BY <1>2, <1>3, <1>4, <1>5 DEF HandOK

LEMMA HandKept ==
  ASSUME HandOK, UNCHANGED <<deviceVars, state, unheard, handVars>>
  PROVE  HandOK'
<1>1. /\ UNCHANGED deviceVars /\ state' = state /\ unheard' = unheard
      /\ queue' = queue /\ held' = held /\ touches' = touches /\ lifted' = lifted
  BY DEF handVars
<1>2. Downs(queue', held')
  BY <1>1 DEF HandOK
<1>3. /\ driver = "evdev" /\ kind = "mouse" => LeftOK(queue', held', state')
      /\ driver = "evdev" => FingerOK(queue', held', state', touches', lifted')
  BY <1>1 DEF HandOK
<1>4. state' = "PR" /\ unheard' = {} /\ ~(driver = "evdev" /\ kind = "mouse") =>
        \E x : Holding(queue', held', x)
  BY <1>1 DEF HandOK, PressOK, Holding
<1>5. QED  BY <1>1, <1>2, <1>3, <1>4, HandAfter

\* A device is opened anew: nothing is held.
LEMMA HandOfOpening ==
  ASSUME Types, HandOK, UNCHANGED deviceVars, held' = {},
         \/ queue' = <<>> /\ state' = "REL"
         \/ /\ driver # "evdev" /\ queue' = queue \o Releases
            /\ state' = "REL" \/ (state' = state /\ unheard' = unheard)
  PROVE  HandOK'
<1> USE KernelInputAssumption
<1>1. CASE queue' = <<>> /\ state' = "REL"
  <2>1. \A i : i \notin 1 .. Len(<<>>)
    OBVIOUS
  <2>2. Downs(<<>>, {}) /\ LeftOK(<<>>, {}, "REL")
    BY <2>1 DEF Downs, LeftOK
  <2>3. FingerOK(queue', held', state', touches', lifted')
    BY DEF FingerOK, Touched
  <2>4. QED  BY <1>1, <2>2, <2>3, HandAfter
<1>2. CASE /\ driver # "evdev" /\ queue' = queue \o Releases
           /\ state' = "REL" \/ (state' = state /\ unheard' = unheard)
  <2>1. /\ Downs(queue', {})
        /\ \A x : Holding(queue, held, x) => Holding(queue', {}, x)
    BY <1>2, Released, Appended DEF HandOK, Types, QueueTypes
  <2>2. ASSUME state' = "PR", unheard' = {}
        PROVE  \E x : Holding(queue', held', x)
    <3>1. PressOK /\ state = "PR" /\ unheard = {}
      BY <1>2, <2>2 DEF HandOK
    <3>2. QED  BY <1>2, <2>1, <3>1 DEF PressOK, Holding
  <2>3. QED  BY <1>2, <2>1, <2>2, HandAfter
<1>3. QED  BY <1>1, <1>2

\* The user acts.
LEMMA HandOfUser ==
  ASSUME Types, HandOK, User
  PROVE  HandOK'
<1>1. PICK g, e, t : Act(g, <<e>>, t) /\ Gesture(g, e, t)
  BY UserGesture
<1>2. /\ UNCHANGED <<deviceVars, stateVars>>
      /\ held' = g /\ queue' = queue \o <<e>> /\ touches' = t /\ lifted' = NowLifted(g)
  BY <1>1 DEF Act, NowLifted
<1>3. UNCHANGED <<deviceVars, state, unheard>>
  BY <1>2 DEF stateVars
<1>4. /\ e \in Events /\ (IsDown(e) => Thing(e) \in g)
      /\ \A x \in held : x \in g \/ (IsUp(e) /\ Thing(e) = x)
      /\ IsLeft(e) => (e[3] = TRUE <=> "left" \in g)
      /\ ~IsLeft(e) => ("left" \in g <=> "left" \in held)
      /\ Touched(g, t, NowLifted(g)) =>
           Presses(e) \/ (e[1] # "lift" /\ Touched(held, touches, lifted))
  BY <1>1 DEF Gesture
<1>5. queue \in Seq(Events) /\ Downs(queue, held)
  BY DEF Types, QueueTypes, HandOK
<1>6. /\ Downs(queue', g)
      /\ \A x : Holding(queue, held, x) => Holding(queue', g, x)
  BY <1>2, <1>4, <1>5, OneAppended
<1>7. driver = "evdev" /\ kind = "mouse" => LeftOK(queue', g, state)
  BY <1>2, <1>4, <1>5, LeftAppended DEF HandOK
<1>8. driver = "evdev" => FingerOK(queue', g, state, t, NowLifted(g))
  BY <1>2, <1>4, <1>5, FingerAppended DEF HandOK
<1>9. state = "PR" /\ unheard = {} /\ ~(driver = "evdev" /\ kind = "mouse") =>
        \E x : Holding(queue', g, x)
  BY <1>6 DEF HandOK, PressOK, Holding
<1>10. QED  BY <1>2, <1>3, <1>6, <1>7, <1>8, <1>9, HandAfter

\* An event is taken.
LEMMA HandOfTakeEvent ==
  ASSUME Types, HandOK, TakeEvent
  PROVE  dead' = TRUE \/ HandOK'
<1> USE KernelInputAssumption
<1> DEFINE e == Head(queue)
<1>1. /\ queue # <<>> /\ queue' = Tail(queue)
      /\ UNCHANGED <<deviceVars, held, touches, lifted>>
      /\ e \in Events
      /\ dead' = TRUE \/ (\E k : KeyTaken(e, k)) \/ PointTaken(e)
  BY TakeEventEffect
<1>2. queue \in Seq(Events) /\ Downs(queue, held)
  BY DEF Types, QueueTypes, HandOK
<1>3. /\ Downs(queue', held)
      /\ IsDown(e) => Holding(queue', held, Thing(e))
      /\ ~IsUp(e) => \A x : Holding(queue, held, x) => Holding(queue', held, x)
  BY <1>1, <1>2, Taken
<1>4. kind = "keyboard" \/ kind = "mouse" \/ kind \notin {"keyboard", "mouse"}
  OBVIOUS
<1>5. ASSUME NEW s, driver = "evdev",
             Presses(e) => s = "PR", e[1] # "lift" /\ state = "PR" => s = "PR"
      PROVE  FingerOK(queue', held, s, touches, lifted)
  BY <1>1, <1>2, <1>5, FingerTaken DEF HandOK
<1>6. ASSUME NEW s, driver = "evdev", kind = "mouse",
             IsLeft(e) => (s = "PR" <=> e[3] = TRUE), ~IsLeft(e) => s = state
      PROVE  LeftOK(queue', held, s)
  BY <1>1, <1>2, <1>6, LeftTaken DEF HandOK
<1> HIDE DEF e
<1>7. ASSUME \E x : Holding(queue, held, x), ~IsUp(e)
      PROVE  \E x : Holding(queue', held, x)
  BY <1>3, <1>7
<1>8. state = "PR" /\ unheard = {} /\ ~(driver = "evdev" /\ kind = "mouse") =>
        \E x : Holding(queue, held, x)
  BY DEF HandOK, PressOK, Holding
<1>9. ASSUME NEW k, KeyTaken(e, k)
      PROVE  HandOK'
  <2>1. kind = "keyboard" /\ e[1] = "key" /\ e[2] \in Keys /\ e[3] \in BOOLEAN
    BY <1>1, <1>9, EventShape DEF Types, DeviceTypes, KeyTaken
  <2>2. ASSUME state' = "PR", unheard' = {}
        PROVE  \E x : Holding(queue', held, x)
    <3>1. CASE e[3] = TRUE
      BY <1>3, <2>1, <3>1 DEF IsDown, HasState
    <3>2. CASE e[3] = FALSE
      <4>1. k = 0
        BY <1>9, <2>2, <3>2 DEF KeyTaken, StateOf
      <4>2. FALSE
        BY <1>9, <2>2, <3>2, <4>1 DEF KeyTaken
      <4>3. QED  BY <4>2
    <3>3. QED  BY <2>1, <3>1, <3>2
  <2>3. FingerOK(queue', held, state', touches, lifted)
    <3>1. held \cap Fingers = {}
      BY <2>1 DEF Types, QueueTypes, Hands
    <3>2. QED  BY <3>1 DEF FingerOK, Touched
  <2>4. kind # "mouse"
    BY <2>1
  <2>5. QED  BY <1>1, <1>3, <2>2, <2>3, <2>4, HandAfter
<1>10. ASSUME PointTaken(e)
       PROVE  HandOK'
  <2>1. e[1] # "key" /\ unheard' = unheard
    BY <1>10 DEF PointTaken
  <2>2. CASE driver = "evdev" /\ kind = "mouse"
    <3>1. EvdevPointer(e)
      BY <1>10, <2>2 DEF PointTaken
    <3>2. \/ e[1] = "button" /\ e[2] \in {"left", "right"} /\ e[3] \in BOOLEAN
          \/ e[1] = "rel"
      BY <1>1, <2>2, EventShape
    <3>3. IsLeft(e) => (state' = "PR" <=> e[3] = TRUE)
      BY <3>1, <3>2 DEF IsLeft, EvdevPointer, StateOf
    <3>4. ~IsLeft(e) => state' = state
      BY <3>1, <3>2 DEF IsLeft, EvdevPointer
    <3>5. LeftOK(queue', held, state')
      BY <1>6, <2>2, <3>3, <3>4
    <3>6. FingerOK(queue', held, state', touches, lifted)
      <4>1. held \cap Fingers = {}
        BY <2>2 DEF Types, QueueTypes, Hands
      <4>2. QED  BY <4>1 DEF FingerOK, Touched
    <3>7. QED  BY <1>1, <1>3, <2>2, <3>5, <3>6, HandAfter
  <2>3. CASE ~(driver = "evdev" /\ kind = "mouse")
    <3>1. \/ e[1] = "button" /\ e[3] \in BOOLEAN
          \/ e[1] = "rel" \/ e[1] = "touch" \/ e[1] = "lift"
      BY <1>1, <2>1, EventShape
    <3>2. driver = "evdev" => e[1] # "button"
      BY <1>1, <2>1, <2>3, EventShape
    <3>3. \/ state' = state
          \/ state' = "PR" /\ IsDown(e)
          \/ state' = "REL"
      <4>1. CASE driver = "evdev"
        <5>1. EvdevPointer(e)
          BY <1>10, <4>1 DEF PointTaken
        <5>2. QED  BY <3>1, <3>2, <4>1, <5>1 DEF EvdevPointer, IsDown
      <4>2. CASE driver # "evdev"
        <5>1. LibinputPointer(e)
          BY <1>10, <4>2 DEF PointTaken
        <5>2. QED  BY <3>1, <5>1 DEF LibinputPointer, IsDown, HasState, StateOf
      <4>3. QED  BY <4>1, <4>2
    <3>4. IsUp(e) => state' = "REL"
      <4>1. CASE driver = "evdev"
        <5>1. EvdevPointer(e)
          BY <1>10, <4>1 DEF PointTaken
        <5>2. QED  BY <3>1, <3>2, <4>1, <5>1 DEF EvdevPointer, IsUp, HasState
      <4>2. CASE driver # "evdev"
        <5>1. LibinputPointer(e)
          BY <1>10, <4>2 DEF PointTaken
        <5>2. QED  BY <3>1, <5>1 DEF LibinputPointer, IsUp, HasState, StateOf
      <4>3. QED  BY <4>1, <4>2
    <3>5. ASSUME state' = "PR", unheard' = {}
          PROVE  \E x : Holding(queue', held, x)
      <4>1. ~IsUp(e)
        BY <3>4, <3>5
      <4>2. CASE IsDown(e)
        BY <1>3, <4>2
      <4>3. CASE ~IsDown(e)
        BY <1>7, <1>8, <2>1, <2>3, <3>3, <3>5, <4>1, <4>3
      <4>4. QED  BY <4>2, <4>3
    <3>6. ASSUME driver = "evdev"
          PROVE  FingerOK(queue', held, state', touches, lifted)
      <4>1. EvdevPointer(e)
        BY <1>10, <3>6 DEF PointTaken
      <4>2. Presses(e) => state' = "PR"
        BY <4>1 DEF EvdevPointer, Presses
      <4>3. e[1] # "lift" /\ state = "PR" => state' = "PR"
        BY <3>1, <3>2, <3>6, <4>1 DEF EvdevPointer
      <4>4. QED  BY <1>5, <3>6, <4>2, <4>3
    <3>7. QED  BY <1>1, <1>3, <2>3, <3>5, <3>6, HandAfter
  <2>4. QED  BY <2>2, <2>3
<1>11. QED  BY <1>1, <1>9, <1>10

LEMMA HandStep ==
  ASSUME Types, dead = TRUE \/ HandOK, KernelInputNext
  PROVE  dead' = TRUE \/ HandOK'
<1>1. HandOK
  BY NextSteps
<1>2. ASSUME NEW ok, NEW map, Begin(ok, map)
      PROVE  HandOK'
  <2>1. /\ UNCHANGED deviceVars /\ held' = {}
        /\ \/ queue' = <<>> /\ state' = "REL"
           \/ /\ driver # "evdev" /\ queue' = queue \o Releases
              /\ state' = "REL" \/ (state' = state /\ unheard' = unheard)
    BY <1>2 DEF Begin, EvdevSetFile, LibinputSetFile, ResetState
  <2>2. QED  BY <1>1, <2>1, HandOfOpening
<1>3. ASSUME NEW ok, SetFile(ok)
      PROVE  HandOK'
  <2>1. /\ UNCHANGED deviceVars /\ held' = {}
        /\ \/ queue' = <<>> /\ state' = "REL"
           \/ /\ driver # "evdev" /\ queue' = queue \o Releases
              /\ state' = "REL" \/ (state' = state /\ unheard' = unheard)
    BY <1>3 DEF SetFile, EvdevSetFile, LibinputSetFile, ResetState
  <2>2. QED  BY <1>1, <2>1, HandOfOpening
<1>4. ASSUME Deinit
      PROVE  HandOK'
  <2>1. UNCHANGED deviceVars /\ held' = {} /\ queue' = <<>> /\ state' = "REL"
    BY <1>4 DEF Deinit
  <2>2. QED  BY <1>1, <2>1, HandOfOpening
<1>5. ASSUME UNCHANGED <<deviceVars, state, unheard, handVars>>
      PROVE  HandOK'
  BY <1>1, <1>5, HandKept
<1>6. BeginRead \/ EndRead \/ ScanStep => UNCHANGED <<deviceVars, state, unheard, handVars>>
  BY ScanStepKeeps DEF BeginRead, EndRead, stateVars
<1>7. QED
  BY <1>1, <1>2, <1>3, <1>4, <1>5, <1>6, NextSteps, HandOfUser, HandOfTakeEvent

----------------------------------------------------------------------------
(* What LVGL is told *)

LEMMA ToldStep ==
  ASSUME Types, ToldOK, KernelInputNext
  PROVE  ToldOK'
<1> DEFINE P == Nat \X {"PR", "REL"}
<1>1. /\ meant \in Seq(P) /\ told \in Seq(P) /\ key \in Nat /\ state \in {"PR", "REL"}
      /\ reading \in {"no", "drain", "stop"}
  BY DEF Types, ReadTypes, DeviceTypes
<1>2. reading # "no" => started
  BY DEF ToldOK
<1>3. reading = "stop" =>
        driver = "evdev" /\ meant # <<>> /\ Last(meant) = <<key, state>>
  BY DEF ToldOK
<1>4. /\ driver = "evdev" /\ reading # "stop" => meant = told
      /\ driver = "evdev" /\ reading = "stop" => meant = told \o <<<<key, state>>>>
  BY <1>1, <1>3, ConcatEmptySeq DEF ToldOK, EveryKeyTold
<1>5. told \o <<>> = told
  BY <1>1, ConcatEmptySeq
<1>6. ASSUME UNCHANGED <<driver, meant, told>>, reading' # "stop", reading # "stop",
             reading' # "no" => started' = TRUE
      PROVE  ToldOK'
  BY <1>4, <1>5, <1>6 DEF ToldOK, EveryKeyTold
<1>7. ASSUME NEW ok, NEW map, Begin(ok, map)
      PROVE  ToldOK'
  <2>1. reading = "no" /\ reading' = "no" /\ UNCHANGED <<driver, meant, told>>
    BY <1>2, <1>7 DEF Begin, deviceVars
  <2>2. QED  BY <1>6, <2>1
<1>8. ASSUME NEW ok, SetFile(ok)
      PROVE  ToldOK'
  <2>1. reading = "no" /\ reading' = "no" /\ UNCHANGED <<driver, meant, told>>
    BY <1>8 DEF SetFile, deviceVars
  <2>2. QED  BY <1>6, <2>1
<1>9. ASSUME Deinit
      PROVE  ToldOK'
  <2>1. reading = "no" /\ reading' = "no" /\ UNCHANGED <<driver, meant, told>>
    BY <1>9 DEF Deinit, deviceVars
  <2>2. QED  BY <1>6, <2>1
<1>10. ASSUME UNCHANGED <<deviceVars, openVars, stateVars, reading>>
       PROVE  ToldOK'
  BY <1>10 DEF ToldOK, EveryKeyTold, deviceVars, openVars, stateVars
<1>11. ASSUME BeginRead
       PROVE  ToldOK'
  <2>1. /\ reading = "no" /\ reading' = "drain" /\ started = TRUE
        /\ UNCHANGED <<driver, meant, told, started>>
    BY <1>11 DEF BeginRead, deviceVars, openVars, stateVars, Types, DeviceTypes
  <2>2. QED  BY <1>6, <2>1
<1>12. ASSUME TakeEvent
       PROVE  ToldOK'
  <2> DEFINE e == Head(queue)
  <2>1. /\ reading = "drain" /\ UNCHANGED <<deviceVars, openVars, told>>
        /\ \/ UNCHANGED <<meant, reading>>
           \/ \E k : KeyTaken(e, k)
           \/ PointTaken(e)
    BY <1>12, TakeEventEffect
  <2> HIDE DEF e
  <2>2. UNCHANGED <<driver, told, started>> /\ started = TRUE
    BY <1>2, <2>1 DEF deviceVars, openVars, Types, DeviceTypes
  <2>3. ASSUME NEW k, KeyTaken(e, k), k # 0, driver = "evdev"
        PROVE  ToldOK'
    <3> DEFINE p == <<k, state'>>
    <3>1. /\ key' = k /\ meant' = Append(meant, p) /\ reading' = "stop"
          /\ k \in Nat /\ state' \in {"PR", "REL"}
      BY <2>3 DEF KeyTaken, StateOf
    <3>2. p \in P
      BY <3>1
    <3>3. /\ Append(meant, p) # <<>> /\ Append(meant, p) = meant \o <<p>>
          /\ Len(Append(meant, p)) = Len(meant) + 1
          /\ Append(meant, p)[Len(meant) + 1] = p
      <4>1. \A S : \A s \in Seq(S), x \in S :
              /\ Append(s, x) # <<>> /\ Append(s, x) = s \o <<x>>
              /\ Len(Append(s, x)) = Len(s) + 1 /\ Append(s, x)[Len(s) + 1] = x
        BY AppendProperties, AppendIsConcat
      <4> HIDE DEF p, P
      <4>2. QED  BY <1>1, <3>2, <4>1
    <3>4. Last(Append(meant, p)) = p
      BY <3>3 DEF Last
    <3>5. meant = told
      BY <1>4, <2>1, <2>3
    <3>6. meant' = told' \o <<p>> /\ Last(meant') = p /\ meant' # <<>> /\ p = <<key', state'>>
      BY <2>2, <3>1, <3>3, <3>4, <3>5
    <3> HIDE DEF p
    <3>7. EveryKeyTold'
      BY <3>1, <3>6 DEF EveryKeyTold, Last
    <3>8. (reading = "stop" => meant # <<>> /\ Last(meant) = <<key, state>>)'
      BY <3>6 DEF Last
    <3>9. QED  BY <2>2, <2>3, <3>7, <3>8 DEF ToldOK
  <2>4. ASSUME NEW k, KeyTaken(e, k), k # 0, driver # "evdev"
        PROVE  ToldOK'
    <3>1. reading' = "drain"
      BY <2>4 DEF KeyTaken
    <3>2. QED  BY <2>2, <2>4, <3>1 DEF ToldOK, EveryKeyTold
  <2>5. ASSUME NEW k, KeyTaken(e, k), k = 0
        PROVE  ToldOK'
    <3>1. reading' = "drain" /\ meant' = meant
      BY <2>5 DEF KeyTaken
    <3>2. QED  BY <1>6, <2>1, <2>2, <3>1
  <2>6. ASSUME PointTaken(e)
        PROVE  ToldOK'
    <3>1. reading' = "drain" /\ meant' = meant
      BY <2>1, <2>6 DEF PointTaken
    <3>2. QED  BY <1>6, <2>1, <2>2, <3>1
  <2>7. ASSUME UNCHANGED <<meant, reading>>
        PROVE  ToldOK'
    BY <1>6, <2>1, <2>2, <2>7
  <2>8. QED  BY <2>1, <2>3, <2>4, <2>5, <2>6, <2>7
<1>13. ASSUME EndRead
       PROVE  ToldOK'
  <2>1. /\ reading' = "no" /\ UNCHANGED <<driver, meant>>
        /\ told' = IF reading = "stop" THEN Append(told, <<key, state>>) ELSE told
    BY <1>13 DEF EndRead, deviceVars
  <2>2. driver = "evdev" => meant' = told'
    <3>1. <<key, state>> \in P
      BY <1>1
    <3>2. Append(told, <<key, state>>) = told \o <<<<key, state>>>>
      BY <1>1, <3>1, AppendIsConcat
    <3>3. QED  BY <1>4, <2>1, <3>2
  <2>3. told' \in Seq(P)
    <3>1. Types'
      BY <1>13, TypesOfEndRead
    <3>2. QED  BY <3>1 DEF Types, ReadTypes
  <2>4. told' \o <<>> = told'
    BY <2>3, ConcatEmptySeq
  <2>5. QED  BY <2>1, <2>2, <2>4 DEF ToldOK, EveryKeyTold
<1>14. (User => UNCHANGED <<deviceVars, openVars, stateVars, reading>>)
       /\ (ScanStep => UNCHANGED <<deviceVars, openVars, stateVars, reading>>)
  BY UserGesture, ScanStepKeeps DEF Act
<1>15. QED
  BY <1>7, <1>8, <1>9, <1>10, <1>11, <1>12, <1>13, <1>14, NextSteps

----------------------------------------------------------------------------
(* The scan of /dev/input *)

\* A number that doubles keeps its odd divisors.
LEMMA GrowsAgain ==
  ASSUME NEW n \in Nat, Grows(n)
  PROVE  Grows(2 * n + 1)
<1>1. SUFFICES ASSUME NEW d \in 1 .. 2 * n + 1, (2 * n + 2) % (2 * d + 1) = 0
               PROVE  FALSE
  BY DEF Grows
<1>2. CASE d > n
  <2>1. 2 * n + 2 \in Nat /\ 2 * d + 1 \in Nat /\ 2 * n + 2 < 2 * d + 1 /\ 0 < 2 * n + 2
    BY <1>2
  <2>2. (2 * n + 2) % (2 * d + 1) = 2 * n + 2
    BY <2>1
  <2>3. QED  BY <1>1, <2>1, <2>2
<1>3. CASE d \in 1 .. n
  <2> DEFINE o == 2 * d + 1
             q == (2 * n + 2) \div o
             r == n + 1 - d * q
  <2>1. o \in Nat /\ o > 0 /\ 2 * n + 2 \in Nat
    BY <1>3
  <2>2. q \in Nat /\ 2 * n + 2 = o * q
    BY <1>1, <2>1
  <2>3. o * q = 2 * (d * q) + q
    BY <1>3, <2>2
  <2>4. d * q \in Nat
    BY <1>3, <2>2
  <2>5. r \in Int /\ q = 2 * r
    BY <2>2, <2>3, <2>4
  <2>6. n + 1 = o * r
    <3>1. d * q = 2 * (d * r)
      BY <1>3, <2>5
    <3>2. d * r \in Int /\ o * r = 2 * (d * r) + r
      BY <1>3, <2>5
    <3>3. QED  BY <2>4, <2>5, <3>1, <3>2
  <2> HIDE DEF o, q, r
  <2>7. (n + 1) % o = 0
    BY <2>1, <2>5, <2>6
  <2>8. QED  BY <1>3, <2>7 DEF Grows, o
<1>4. QED  BY <1>1, <1>2, <1>3

LEMMA ScanStepOK ==
  ASSUME ScanOK, KernelInputNext
  PROVE  ScanOK'
<1> USE KernelInputAssumption
<1>1. /\ Len(cache) <= room /\ room \in Nat /\ Grows(room)
      /\ cache \in Seq(ToSet(Paths)) /\ at \in 0 .. Len(Paths) + 1
      /\ found \subseteq ToSet(cache)
      /\ at # 0 => found = {}
  BY DEF ScanOK
<1>2. Len(Paths) \in Nat /\ Len(cache) \in Nat
  BY <1>1
<1>3. Range(cache) = ToSet(cache)
  BY DEF Range, ToSet
<1>4. Grows(0)
  BY DEF Grows
<1>5. ASSUME UNCHANGED scanVars
      PROVE  ScanOK'
  BY <1>1, <1>5 DEF ScanOK, scanVars
<1>6. ASSUME cache' = <<>>, room' = 0, found' = {}, at' \in 0 .. Len(Paths) + 1
      PROVE  ScanOK'
  BY <1>4, <1>6 DEF ScanOK
<1>7. ASSUME NEW force \in BOOLEAN, FindDevs(force)
      PROVE  ScanOK'
  <2>1. CASE Rescans(force)
    <3>1. cache' = <<>> /\ room' = 0 /\ at' = 1 /\ found' = IF force THEN {} ELSE found
      BY <1>7, <2>1 DEF FindDevs, Reset
    <3>2. ~force => found = {}
      BY <1>1, <2>1 DEF Rescans, ToSet
    <3>3. 1 \in 0 .. Len(Paths) + 1
      BY <1>2
    <3>4. QED  BY <1>6, <3>1, <3>2, <3>3
  <2>2. CASE ~Rescans(force)
    <3>1. at = 0 /\ Return /\ UNCHANGED <<at, cache, room>>
      BY <1>7, <2>2 DEF FindDevs
    <3>2. QED  BY <1>1, <1>3, <3>1 DEF ScanOK, Return
  <2>3. QED  BY <2>1, <2>2
<1>8. ASSUME ScanEnd
      PROVE  ScanOK'
  <2>1. at' = 0 /\ Return /\ UNCHANGED <<cache, room>>
    BY <1>8 DEF ScanEnd
  <2>2. 0 \in 0 .. Len(Paths) + 1
    BY <1>2
  <2>3. QED  BY <1>1, <1>3, <2>1, <2>2 DEF ScanOK, Return
<1>9. ASSUME ScanEntry
      PROVE  ScanOK'
  <2>1. at \in 1 .. Len(Paths) /\ found' = found /\ found = {}
    BY <1>1, <1>9 DEF ScanEntry
  <2>2. at + 1 \in 0 .. Len(Paths) + 1
    BY <1>2, <2>1
  <2>3. CASE UNCHANGED <<cache, room>> /\ at' = at + 1
    BY <1>1, <2>1, <2>2, <2>3 DEF ScanOK
  <2>4. CASE Reset /\ at' = 0
    BY <1>2, <1>6, <2>1, <2>4 DEF Reset
  <2>5. CASE /\ cache' = Append(cache, Paths[at]) /\ at' = at + 1
             /\ room' = IF Grows(Len(cache)) THEN 2 * Len(cache) + 1 ELSE room
    <3>1. Paths[at] \in ToSet(Paths)
      BY <2>1 DEF ToSet
    <3>2. cache' \in Seq(ToSet(Paths)) /\ Len(cache') = Len(cache) + 1
      BY <1>1, <2>5, <3>1, AppendProperties
    <3>3. Len(cache') <= room' /\ room' \in Nat /\ Grows(room')
      <4>1. CASE Grows(Len(cache))
        <5>1. room' = 2 * Len(cache) + 1
          BY <2>5, <4>1
        <5>2. Grows(2 * Len(cache) + 1)
          BY <1>2, <4>1, GrowsAgain
        <5>3. QED  BY <1>2, <3>2, <5>1, <5>2
      <4>2. CASE ~Grows(Len(cache))
        <5>1. Len(cache) # room /\ room' = room
          BY <1>1, <2>5, <4>2
        <5>2. QED  BY <1>1, <1>2, <3>2, <5>1
      <4>3. QED  BY <4>1, <4>2
    <3>4. QED  BY <2>1, <2>2, <2>5, <3>2, <3>3 DEF ScanOK
  <2>6. QED  BY <1>9, <2>3, <2>4, <2>5 DEF ScanEntry
<1>10. ASSUME NEW ok, NEW map, Begin(ok, map)
       PROVE  UNCHANGED scanVars
  BY <1>10 DEF Begin
<1>11. ASSUME NEW ok, SetFile(ok)
       PROVE  UNCHANGED scanVars
  BY <1>11 DEF SetFile
<1>12. Deinit \/ BeginRead \/ EndRead \/ TakeEvent => UNCHANGED scanVars
  BY DEF Deinit, BeginRead, EndRead, TakeEvent
<1>13. User => UNCHANGED scanVars
  BY DEF User, Act
<1>14. QED
  BY <1>5, <1>7, <1>8, <1>9, <1>10, <1>11, <1>12, <1>13, NextSteps DEF ScanStep

----------------------------------------------------------------------------
(* The theorems *)

\* The inductive invariant: the types, the hand and the queue as long as the
\* program lives, what was told, and the scan.
KInv == Types /\ (dead = TRUE \/ HandOK) /\ ToldOK /\ ScanOK

LEMMA KernelInitially == KernelInputInit => KInv
<1> USE KernelInputAssumption
<1> SUFFICES ASSUME KernelInputInit
             PROVE  KInv
  OBVIOUS
<1>1. /\ held = {} /\ queue = <<>> /\ state = "REL" /\ unheard = {}
      /\ touches \in {"none", "many"} /\ lifted = FALSE
      /\ reading = "no" /\ meant = <<>> /\ told = <<>>
      /\ at = 0 /\ cache = <<>> /\ room = 0 /\ found = {}
  BY DEF KernelInputInit, TouchedBefore
<1>2. DeviceTypes
  BY DEF KernelInputInit, DeviceTypes, Origin
<1>3. ReadTypes
  BY DEF KernelInputInit, ReadTypes, Origin
<1>4. QueueTypes
  BY <1>1, EmptySeq DEF QueueTypes
<1>5. HandOK
  <2>1. \A i : i \notin 1 .. Len(<<>>)
    OBVIOUS
  <2>2. Downs(<<>>, {}) /\ LeftOK(<<>>, {}, "REL")
    BY <2>1 DEF Downs, LeftOK
  <2>3. FingerOK(<<>>, {}, "REL", touches, FALSE)
    BY DEF FingerOK, Touched
  <2>4. QED  BY <1>1, <2>2, <2>3 DEF HandOK, PressOK
<1>6. ToldOK
  BY <1>1 DEF ToldOK, EveryKeyTold
<1>7. ScanOK
  <2>1. Grows(0) /\ <<>> \in Seq(ToSet(Paths)) /\ 0 \in 0 .. Len(Paths) + 1
    BY EmptySeq, LenProperties DEF Grows
  <2>2. QED  BY <1>1, <2>1 DEF ScanOK
<1>8. QED  BY <1>2, <1>3, <1>4, <1>5, <1>6, <1>7 DEF KInv, Types

LEMMA KernelStep == KInv /\ [KernelInputNext]_kernelInputVars => KInv'
<1> SUFFICES ASSUME KInv, [KernelInputNext]_kernelInputVars
             PROVE  KInv'
  OBVIOUS
<1>1. CASE KernelInputNext
  BY <1>1, TypesStep, HandStep, ToldStep, ScanStepOK DEF KInv
<1>2. CASE UNCHANGED kernelInputVars
  <2>1. UNCHANGED <<deviceVars, openVars, stateVars, handVars, reading, scanVars>>
    BY <1>2 DEF kernelInputVars
  <2>2. Types'
    BY <2>1, TypesOfRest DEF KInv
  <2>3. dead' = dead /\ UNCHANGED <<deviceVars, state, unheard, handVars>>
    BY <2>1 DEF stateVars
  <2>4. dead' = TRUE \/ HandOK'
    BY <2>3, HandKept DEF KInv
  <2>5. ToldOK'
    BY <2>1 DEF KInv, ToldOK, EveryKeyTold, deviceVars, openVars, stateVars
  <2>6. ScanOK'
    BY <2>1 DEF KInv, ScanOK, scanVars
  <2>7. QED  BY <2>2, <2>4, <2>5, <2>6 DEF KInv
<1>3. QED  BY <1>1, <1>2

THEOREM KernelInvariance == KernelInputSpec => []KInv
<1>1. QED  BY KernelInitially, KernelStep, PTL DEF KernelInputSpec

LEMMA KernelTyped == KInv => KernelInputTypeOK
<1> SUFFICES ASSUME KInv
             PROVE  KernelInputTypeOK
  OBVIOUS
<1>1. held \subseteq Keys \cup {"left", "right"} \cup Fingers
  BY DEF KInv, Types, QueueTypes, Hands
<1>2. /\ cache \in Seq(ToSet(Paths)) /\ found \subseteq ToSet(cache)
      /\ at \in 0 .. Len(Paths) + 1 /\ room \in Nat
  BY DEF KInv, ScanOK
<1>3. ToSet(cache) \subseteq ToSet(Paths)
  BY <1>2, ElementOfSeq DEF ToSet
<1>4. Range(cache) \cup found \subseteq Range(Paths)
  BY <1>2, <1>3 DEF ToSet, Range
<1>5. {meant, told} \subseteq Seq(Nat \X {"PR", "REL"})
  BY DEF KInv, Types, ReadTypes
<1>6. touches \in {"none", "one", "many"} /\ lifted \in BOOLEAN
  BY DEF KInv, Types, QueueTypes
<1>7. QED
  BY <1>1, <1>2, <1>4, <1>5, <1>6
     DEF KInv, Types, DeviceTypes, ReadTypes, KernelInputTypeOK

\* The variables have their types: the key that is reported is one of LVGL's, the
\* point is a point, and what libinput_find_devs keeps are paths of /dev/input.
THEOREM KernelTypeCorrect == KernelInputSpec => []KernelInputTypeOK
BY KernelTyped, KernelInvariance, PTL

\* evdev_read loses no key: however its reads alternate with what the kernel
\* queues, LVGL is told of every key event with a meaning, in order.
THEOREM KeysAreTold == KernelInputSpec => []EveryKeyTold
<1>1. KInv => EveryKeyTold
  BY DEF KInv, ToldOK
<1>2. QED  BY <1>1, KernelInvariance, PTL

\* A drained queue leaves nothing pressed that is not held (but for a key whose release
\* meant nothing), evdev's left button as it is, and a screen pressed that is touched by
\* fingers that all stayed, as far as evdev is told of them; however the device was
\* replaced in between.
THEOREM DrainedIsSettled == KernelInputSpec => []Settled
<1>1. KInv => Settled
  <2> SUFFICES ASSUME KInv, queue = <<>>, dead # TRUE
               PROVE  /\ state = "PR" => held # {} \/ unheard # {}
                      /\ driver = "evdev" /\ kind = "mouse" => (state = "PR" <=> "left" \in held)
                      /\ /\ driver = "evdev" /\ held \cap Fingers # {} /\ ~lifted
                         /\ touchKey \/ touches = "one"
                         => state = "PR"
    BY DEF KInv, Types, DeviceTypes, Settled
  <2>1. HandOK
    BY DEF KInv
  <2>2. \A i : i \notin 1 .. Len(queue)
    OBVIOUS
  <2>3. driver = "evdev" /\ kind = "mouse" => (state = "PR" <=> "left" \in held)
    BY <2>1, <2>2 DEF HandOK, LeftOK
  <2>4. state = "PR" => held # {} \/ unheard # {}
    BY <2>1, <2>2, <2>3 DEF HandOK, PressOK, FreedIn
  <2>5. ASSUME driver = "evdev", held \cap Fingers # {}, ~lifted,
               touchKey \/ touches = "one"
        PROVE  state = "PR"
    <3>1. Touched(held, touches, lifted)
      BY <2>5 DEF Touched
    <3>2. QED  BY <2>1, <2>2, <2>5, <3>1 DEF HandOK, FingerOK
  <2>6. QED  BY <2>3, <2>4, <2>5
<1>2. QED  BY <1>1, KernelInvariance, PTL

\* libinput_find_devs never writes past the list it has allocated, whatever the
\* directory holds and wherever the scan is given up.
THEOREM ScanStaysSound == KernelInputSpec => []ScanSound
<1>1. KInv => ScanSound
  BY DEF KInv, ScanOK, ScanSound, ToSet, Range
<1>2. QED  BY <1>1, KernelInvariance, PTL

==============================================================================
