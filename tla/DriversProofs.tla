--------------------------- MODULE DriversProofs ---------------------------
(***************************************************************************)
(* What holds of the drivers that share nothing, for all their constants:  *)
(* what LVGL is told of the user (SDL, X11, GTK, Win32 and the touch       *)
(* controllers) and what the screen shows (SDL, X11 and the frame buffer). *)
(* A section for each driver, and at the end the programs of MCDrivers,    *)
(* of which every behaviour is one of each driver.                         *)
(***************************************************************************)
EXTENDS MCDrivers, DrmProofs, KernelInputProofs

----------------------------------------------------------------------------
(* X11 *)

\* The flags are flags; LVGL was told of no more turns than there were; what the
\* window does not show lies in the area that is yet to be put.
X11Types ==
  /\ large \in BOOLEAN /\ again \in BOOLEAN /\ pressing \in BOOLEAN
  /\ inFrame \in BOOLEAN /\ deinit \in BOOLEAN
  /\ buttons \subseteq {"left", "wheel", "right"}
  /\ wheelCnt \in Int /\ turned \in -TurnBound .. TurnBound
  /\ scrolled \in -TurnBound .. TurnBound
  /\ update \in Int \X Int \X Int \X Int
  /\ behind \subseteq Screen

X11Behind ==
  large => /\ update[1] >= 0 /\ update[2] >= 0
           /\ behind \subseteq Pixels(update)
           /\ ~inFrame => behind = {}

X11Inv == X11Types /\ X11Told /\ X11Behind

\* What a rectangle adds to the area that is to be put.
LEMMA ExtendHolds ==
  ASSUME NEW u \in Int \X Int \X Int \X Int, NEW r \in Int \X Int \X Int \X Int
  PROVE  /\ Extend(u, r) \in Int \X Int \X Int \X Int
         /\ Pixels(u) \cup Pixels(r) \subseteq Pixels(Extend(u, r))
         /\ u[1] >= 0 /\ u[2] >= 0 /\ r[1] >= 0 /\ r[2] >= 0 =>
              Extend(u, r)[1] >= 0 /\ Extend(u, r)[2] >= 0
  BY DEF Extend, Lower, Upper, Pixels

LEMMA X11FlushKeeps ==
  ASSUME X11Inv, NEW x1 \in 0 .. Width - 1, NEW x2 \in 0 .. Width - 1,
         NEW y1 \in 0 .. Height - 1, NEW y2 \in 0 .. Height - 1,
         NEW last \in BOOLEAN, X11Flush(<<x1, y1, x2, y2>>, last)
  PROVE  X11Inv'
<1> DEFINE r == <<x1, y1, x2, y2>>
           u == Extend(update, r)
<1>1. /\ UNCHANGED <<large, again, pressing, buttons, wheelCnt, turned, scrolled, deinit>>
      /\ inFrame' = ~last
      /\ last => /\ behind' = Put(u, behind \cup Pixels(r))
                 /\ update' = InvArea
      /\ ~last => behind' = behind \cup Pixels(r) /\ update' = u
  BY DEF X11Flush, x11KeyVars, x11MouseVars
<1>2. r \in Int \X Int \X Int \X Int /\ r[1] >= 0 /\ r[2] >= 0
      /\ Pixels(r) \subseteq Screen
  BY X11Assumption DEF Pixels, Screen
<1>3. /\ u \in Int \X Int \X Int \X Int
      /\ Pixels(update) \cup Pixels(r) \subseteq Pixels(u)
      /\ large => u[1] >= 0 /\ u[2] >= 0
  BY <1>2, ExtendHolds DEF X11Inv, X11Types, X11Behind
<1> HIDE DEF r, u
<1>4. InvArea \in Int \X Int \X Int \X Int
      /\ (large => InvArea[1] >= 0 /\ InvArea[2] >= 0)
  BY DEF InvArea
<1>5. update' \in Int \X Int \X Int \X Int
      /\ (large => update'[1] >= 0 /\ update'[2] >= 0)
  BY <1>1, <1>3, <1>4
<1>6. behind' \subseteq Screen
  BY <1>1, <1>2 DEF X11Inv, X11Types, Put
<1>7. large => (last => behind' = {})
  BY <1>1, <1>3 DEF X11Inv, X11Behind, Put
<1>8. large => (~last => behind' \subseteq Pixels(update'))
  BY <1>1, <1>3 DEF X11Inv, X11Behind
<1>9. X11Types'
  BY <1>1, <1>5, <1>6 DEF X11Inv, X11Types
<1>10. X11Behind'
  <2>1. large /\ last => behind' \subseteq Pixels(update')
    BY <1>7
  <2>2. QED
    BY <1>1, <1>5, <1>7, <1>8, <2>1 DEF X11Behind, Pixels
<1>11. QED  BY <1>1, <1>9, <1>10 DEF X11Inv, X11Told

LEMMA X11Keeps ==
  ASSUME X11Inv, [X11Next]_x11Vars
  PROVE  X11Inv'
<1>1. CASE UNCHANGED x11Vars
  BY <1>1 DEF X11Inv, X11Types, X11Told, X11Behind, Pixels, x11Vars, x11KeyVars,
     x11MouseVars, x11ScreenVars
<1>2. ASSUME NEW t \in Strings, KeyPress(t)
      PROVE  X11Inv'
  BY <1>2 DEF KeyPress, X11Inv, X11Types, X11Told, X11Behind, Pixels, x11MouseVars,
     x11ScreenVars
<1>3. CASE GetKeyboard
  BY <1>3 DEF GetKeyboard, X11Inv, X11Types, X11Told, X11Behind, Pixels, x11MouseVars,
     x11ScreenVars
<1>4. ASSUME NEW b \in {"left", "wheel", "right"}, Button(b)
      PROVE  X11Inv'
  <2>1. UNCHANGED <<large, again, pressing, wheelCnt, turned, scrolled, update, behind,
                    inFrame, deinit>>
        /\ buttons' \subseteq {"left", "wheel", "right"}
    BY <1>4 DEF Button, X11Inv, X11Types, x11KeyVars, x11ScreenVars
  <2>2. QED  BY <2>1 DEF X11Inv, X11Types, X11Told, X11Behind, Pixels
<1>5. ASSUME NEW by \in {-1, 1}, Scroll(by)
      PROVE  X11Inv'
  BY <1>5, X11Assumption
     DEF Scroll, Scrolled, X11Inv, X11Types, X11Told, X11Behind, Pixels, x11KeyVars,
         x11ScreenVars
<1>6. CASE GetMousewheel
  BY <1>6, X11Assumption
     DEF GetMousewheel, X11Inv, X11Types, X11Told, X11Behind, Pixels, x11KeyVars,
         x11ScreenVars
<1>7. CASE Expose
  BY <1>7 DEF Expose, X11Inv, X11Types, X11Told, X11Behind, Pixels, x11KeyVars,
     x11MouseVars
<1>8. CASE X11Deinit
  BY <1>8 DEF X11Deinit, X11Inv, X11Types, X11Told, X11Behind, Pixels, x11KeyVars,
     x11MouseVars, x11ScreenVars
<1>9. QED
  BY <1>1, <1>2, <1>3, <1>4, <1>5, <1>6, <1>7, <1>8, X11FlushKeeps
     DEF X11Next, X11InputNext, X11ScreenNext, X11Input, X11Screen

LEMMA X11Begins == X11Init => X11Inv
<1> SUFFICES ASSUME X11Init
             PROVE  X11Inv
  OBVIOUS
<1>1. update \in Int \X Int \X Int \X Int
      /\ (large => update[1] >= 0 /\ update[2] >= 0)
  BY DEF X11Init, InvArea
<1>2. behind = {} /\ 0 \in -TurnBound .. TurnBound
  BY X11Assumption DEF X11Init
<1>3. X11Types
  <2>1. /\ large \in BOOLEAN /\ again \in BOOLEAN /\ pressing \in BOOLEAN
        /\ inFrame \in BOOLEAN /\ deinit \in BOOLEAN
    BY DEF X11Init
  <2>2. /\ buttons = {} /\ wheelCnt = 0 /\ turned = 0 /\ scrolled = 0
    BY DEF X11Init
  <2>3. QED  BY <1>1, <1>2, <2>1, <2>2 DEF X11Types
<1>4. X11Told
  BY DEF X11Init, X11Told
<1>5. X11Behind
  BY <1>1, <1>2 DEF X11Behind
<1>6. QED  BY <1>3, <1>4, <1>5 DEF X11Inv

LEMMA X11Follows == X11Inv => X11TypeOK /\ X11Told /\ X11Shows
<1> SUFFICES ASSUME X11Inv
             PROVE  X11TypeOK /\ X11Told /\ X11Shows
  OBVIOUS
<1>1. {large, again, pressing, inFrame, deinit} \subseteq BOOLEAN
  BY DEF X11Inv, X11Types
<1>2. wheelCnt \in -(2 * TurnBound) .. 2 * TurnBound
  BY X11Assumption DEF X11Inv, X11Types, X11Told
<1>3. update \in Seq(Int) /\ Len(update) = 4
  <2>1. PICK a \in Int, b \in Int, c \in Int, d \in Int : update = <<a, b, c, d>>
    BY DEF X11Inv, X11Types
  <2>2. QED  BY <2>1
<1>4. X11TypeOK
  BY <1>1, <1>2, <1>3, X11Assumption DEF X11Inv, X11Types, X11TypeOK
<1>5. QED  BY <1>4 DEF X11Inv, X11Behind, X11Shows

----------------------------------------------------------------------------
(* SDL *)

\* A byte is reported as released right after it was reported as pressed: until then
\* LVGL reads on.
Chars == 1 .. 255

\* The bytes that numbers stand for, and that those of ASCII stand for themselves.
BytesOf(s) == [i \in DOMAIN s |-> s[i] % 256]
AsciiKept(s) == \A i \in 1 .. Len(s) : s[i] % 256 < 128 => s[i] = s[i] % 256

SdlFlags ==
  /\ dual \in BOOLEAN /\ double \in BOOLEAN /\ dummy \in BOOLEAN /\ more \in BOOLEAN
  /\ wasPressed \in BOOLEAN /\ left \in BOOLEAN /\ middle \in BOOLEAN /\ quit \in BOOLEAN

SdlKeys ==
  /\ buf \in Seq(Chars) /\ accepted \in Seq(Chars) /\ typed \in Seq(Int)
  /\ Len(buf) <= BufferSize - 1
  /\ accepted = BytesOf(typed) \o buf /\ AsciiKept(typed)
  /\ dummy = wasPressed /\ (dummy => more)

SdlMouse == down \subseteq {"left", "middle", "finger"} /\ wheelDiff \in Int

\* A window that asks for no refresh shows what was drawn.
SdlWindows ==
  /\ drawn \in [Monitors -> SUBSET Tiles] /\ shown \in [Monitors -> SUBSET Tiles]
  /\ rest \in [Monitors -> SUBSET Tiles] /\ refr \in [Monitors -> BOOLEAN]
  /\ outside \in [Monitors -> BOOLEAN]
  /\ \A m \in Used : refr[m] = TRUE \/ shown[m] = drawn[m]

SdlInv == SdlFlags /\ SdlKeys /\ SdlMouse /\ SdlWindows /\ SdlShows

LEMMA WidenedIs ==
  ASSUME NEW b \in Chars
  PROVE  Widened(b) \in Int /\ Widened(b) % 256 = b /\ (b < 128 => Widened(b) = b)
<1>1. CASE b > 127
  <2>1. (b - 256) % 256 = b
    BY DEF Chars
  <2>2. QED  BY <1>1, <2>1 DEF Widened, Chars
<1>2. CASE ~(b > 127)
  BY <1>2 DEF Widened, Chars
<1>3. QED  BY <1>1, <1>2

LEMMA BytesAreInts == Seq(0 .. 255) \subseteq Seq(Int) /\ Seq(Chars) \subseteq Seq(Int)
<1>1. 0 .. 255 \subseteq Int /\ Chars \subseteq Int
  BY DEF Chars
<1>2. QED  BY <1>1, SeqMonotonic

LEMMA BytesAre ==
  ASSUME NEW s \in Seq(Int)
  PROVE  BytesOf(s) \in Seq(0 .. 255) /\ Len(BytesOf(s)) = Len(s)
<1>1. DOMAIN s = 1 .. Len(s) /\ \A i \in 1 .. Len(s) : s[i] \in Int
  OBVIOUS
<1>2. BytesOf(s) = [i \in 1 .. Len(s) |-> s[i] % 256]
  BY <1>1 DEF BytesOf
<1>3. \A i \in 1 .. Len(s) : s[i] % 256 \in 0 .. 255
  <2>1. \A n \in Int : n % 256 \in 0 .. 255
    OBVIOUS
  <2>2. QED  BY <1>1, <2>1
<1>4. Len(s) \in Nat
  OBVIOUS
<1>5. QED  BY <1>2, <1>3, <1>4, IsASeq

\* A byte is taken from the queue q to the keys s.
LEMMA ByteTaken ==
  ASSUME NEW s \in Seq(Int), NEW q \in Seq(Chars), q # <<>>, AsciiKept(s)
  PROVE  LET r == Append(s, Widened(Head(q)))
         IN  /\ r \in Seq(Int) /\ AsciiKept(r)
             /\ BytesOf(r) \o Tail(q) = BytesOf(s) \o q
<1> DEFINE b == Head(q)
           v == Widened(b)
           r == Append(s, v)
<1>1. b \in Chars /\ Tail(q) \in Seq(Chars) /\ q = <<b>> \o Tail(q)
  OBVIOUS
<1>2. v \in Int /\ v % 256 = b /\ (b < 128 => v = b)
  BY <1>1, WidenedIs
<1> HIDE DEF b, v
<1>3. /\ r \in Seq(Int) /\ Len(r) = Len(s) + 1 /\ Len(s) \in Nat
      /\ \A i \in 1 .. Len(s) : r[i] = s[i]
      /\ r[Len(s) + 1] = v
  BY <1>2, AppendProperties
<1> HIDE DEF r
<1>4. AsciiKept(r)
  <2>1. SUFFICES ASSUME NEW i \in 1 .. Len(r), r[i] % 256 < 128
                 PROVE  r[i] = r[i] % 256
    BY DEF AsciiKept
  <2>2. CASE i = Len(s) + 1
    BY <1>2, <1>3, <2>1, <2>2
  <2>3. CASE i # Len(s) + 1
    <3>1. i \in 1 .. Len(s) /\ r[i] = s[i]
      BY <1>3, <2>3
    <3>2. QED  BY <2>1, <3>1 DEF AsciiKept
  <2>4. QED  BY <2>2, <2>3
<1>5. BytesOf(r) = Append(BytesOf(s), b)
  <2>1. /\ BytesOf(s) \in Seq(0 .. 255) /\ Len(BytesOf(s)) = Len(s)
        /\ BytesOf(r) \in Seq(0 .. 255) /\ Len(BytesOf(r)) = Len(r)
    BY <1>3, BytesAre
  <2>2. /\ \A i \in 1 .. Len(s) : BytesOf(s)[i] = s[i] % 256
        /\ \A i \in 1 .. Len(r) : BytesOf(r)[i] = r[i] % 256
    BY <1>3 DEF BytesOf
  <2>3. b \in 0 .. 255
    BY <1>1 DEF Chars
  <2>4. \A i \in 1 .. Len(r) : BytesOf(r)[i] = Append(BytesOf(s), b)[i]
    <3>1. TAKE i \in 1 .. Len(r)
    <3>2. CASE i = Len(s) + 1
      <4>1. BytesOf(r)[i] = b
        BY <1>2, <1>3, <2>2, <3>2
      <4>2. Append(BytesOf(s), b)[Len(BytesOf(s)) + 1] = b
        <5>1. \A q1 \in Seq(0 .. 255) : Append(q1, b)[Len(q1) + 1] = b
          BY <2>3, AppendProperties
        <5>2. QED  BY <2>1, <5>1
      <4>3. QED  BY <2>1, <3>2, <4>1, <4>2
    <3>3. CASE i # Len(s) + 1
      <4>1. i \in 1 .. Len(s) /\ r[i] = s[i]
        BY <1>3, <3>3
      <4>2. QED  BY <2>1, <2>2, <2>3, <4>1
    <3>4. QED  BY <3>2, <3>3
  <2>5. Append(BytesOf(s), b) \in Seq(0 .. 255) /\ Len(Append(BytesOf(s), b)) = Len(r)
    BY <1>3, <2>1, <2>3, AppendProperties
  <2>6. QED  BY <2>1, <2>4, <2>5, SeqEqual
<1>6. BytesOf(r) \o Tail(q) = BytesOf(s) \o (<<b>> \o Tail(q))
  <2>1. BytesOf(s) \in Seq(Int) /\ <<b>> \in Seq(Int) /\ Tail(q) \in Seq(Int)
    <3>1. Seq(0 .. 255) \subseteq Seq(Int) /\ Seq(Chars) \subseteq Seq(Int)
      BY BytesAreInts
    <3>2. b \in Int
      BY <1>1 DEF Chars
    <3>3. QED  BY <1>1, <3>1, <3>2, BytesAre
  <2>2. Append(BytesOf(s), b) = BytesOf(s) \o <<b>>
    BY <2>1, AppendIsConcat, <1>1 DEF Chars
  <2>3. QED  BY <1>5, <2>1, <2>2, ConcatAssociative
<1>7. QED  BY <1>1, <1>3, <1>4, <1>6 DEF r, v, b

LEMMA SdlAccepts ==
  ASSUME SdlInv, NEW cs \in Seq(Chars), NEW fits \in BOOLEAN,
         fits => Len(buf) + Len(cs) <= BufferSize - 1, Accept(cs, fits)
  PROVE  SdlFlags' /\ SdlKeys'
<1>1. UNCHANGED <<dual, double, dummy, more, wasPressed, typed, left, middle, quit>>
  BY DEF Accept, sdlMouseVars
<1>2. SdlFlags'
  BY <1>1 DEF SdlInv, SdlFlags
<1>3. CASE ~fits
  <2>1. buf' = buf /\ accepted' = accepted
    BY <1>3 DEF Accept
  <2>2. SdlKeys'
    BY <1>1, <2>1 DEF SdlInv, SdlKeys, BytesOf, AsciiKept
  <2>3. QED  BY <1>2, <2>2
<1>4. CASE fits
  <2>1. buf' = buf \o cs /\ accepted' = accepted \o cs
    BY <1>4 DEF Accept
  <2> DEFINE s == BytesOf(typed)
  <2>2. /\ buf \in Seq(Chars) /\ accepted \in Seq(Chars) /\ typed \in Seq(Int)
        /\ accepted = s \o buf /\ AsciiKept(typed)
        /\ dummy = wasPressed /\ (dummy => more)
    BY DEF SdlInv, SdlKeys
  <2>3. s \in Seq(Int) /\ buf \in Seq(Int) /\ cs \in Seq(Int)
    BY <2>2, BytesAreInts, BytesAre
  <2>4. BytesOf(typed)' = s /\ AsciiKept(typed)'
    BY <1>1, <2>2 DEF BytesOf, AsciiKept
  <2> HIDE DEF s
  <2>5. (s \o buf) \o cs = s \o (buf \o cs)
    BY <2>3, ConcatAssociative
  <2>6. buf' \in Seq(Chars) /\ accepted' \in Seq(Chars) /\ Len(buf') = Len(buf) + Len(cs)
    BY <2>1, <2>2, ConcatProperties
  <2>7. SdlKeys'
    BY <1>1, <1>4, <2>1, <2>2, <2>4, <2>5, <2>6 DEF SdlKeys
  <2>8. QED  BY <1>2, <2>7
<1>5. QED  BY <1>3, <1>4

LEMMA SdlReads ==
  ASSUME SdlInv, SdlKeyboardRead
  PROVE  SdlFlags' /\ SdlKeys'
<1>1. UNCHANGED <<dual, double, accepted, left, middle, quit>>
  BY DEF SdlKeyboardRead, sdlMouseVars
<1>2. /\ buf \in Seq(Chars) /\ accepted \in Seq(Chars) /\ typed \in Seq(Int)
      /\ accepted = BytesOf(typed) \o buf /\ AsciiKept(typed)
      /\ Len(buf) <= BufferSize - 1
      /\ dummy = wasPressed /\ dummy \in BOOLEAN
  BY DEF SdlInv, SdlKeys, SdlFlags
<1>3. ASSUME typed' = typed, buf' = buf, dummy' = wasPressed', dummy' => more'
      PROVE  SdlKeys'
  <2>1. BytesOf(typed)' = BytesOf(typed) /\ AsciiKept(typed)' = AsciiKept(typed)
    BY <1>3 DEF BytesOf, AsciiKept
  <2>2. QED  BY <1>1, <1>2, <1>3, <2>1 DEF SdlKeys
<1>4. CASE dummy
  <2>1. dummy' = FALSE /\ wasPressed' = FALSE /\ typed' = typed /\ buf' = buf
        /\ more' = (buf # <<>>)
    BY <1>4 DEF SdlKeyboardRead, Report
  <2>2. SdlFlags'
    BY <1>1, <2>1 DEF SdlInv, SdlFlags
  <2>3. QED  BY <1>3, <2>1, <2>2
<1>5. CASE ~dummy /\ buf # <<>>
  <2> DEFINE r == Append(typed, Widened(Head(buf)))
  <2>1. dummy' = TRUE /\ wasPressed' = TRUE /\ typed' = r
        /\ buf' = Tail(buf) /\ more' = TRUE
    BY <1>2, <1>5 DEF SdlKeyboardRead, Report
  <2>2. Tail(buf) \in Seq(Chars) /\ Len(Tail(buf)) = Len(buf) - 1
    BY <1>2, <1>5, HeadTailProperties
  <2>3. /\ r \in Seq(Int) /\ AsciiKept(r)
        /\ BytesOf(r) \o Tail(buf) = BytesOf(typed) \o buf
    BY <1>2, <1>5, ByteTaken
  <2> HIDE DEF r
  <2>4. Len(Tail(buf)) <= BufferSize - 1
    BY <1>2, <2>2, LenProperties, SdlAssumption
  <2>5. AsciiKept(typed)' /\ BytesOf(typed)' = BytesOf(r)
    BY <2>1, <2>3 DEF AsciiKept, BytesOf
  <2>6. SdlKeys'
    BY <1>1, <1>2, <2>1, <2>2, <2>3, <2>4, <2>5 DEF SdlKeys
  <2>7. SdlFlags'
    BY <1>1, <2>1 DEF SdlInv, SdlFlags
  <2>8. QED  BY <2>6, <2>7
<1>6. CASE ~dummy /\ buf = <<>>
  <2>1. dummy' = dummy /\ wasPressed' = FALSE /\ typed' = typed /\ buf' = buf
        /\ more' = FALSE
    BY <1>6 DEF SdlKeyboardRead, Report
  <2>2. SdlFlags'
    BY <1>1, <2>1 DEF SdlInv, SdlFlags
  <2>3. QED  BY <1>2, <1>3, <1>6, <2>1, <2>2
<1>7. QED  BY <1>4, <1>5, <1>6 DEF SdlKeyboardRead

LEMMA SdlFlushKeeps ==
  ASSUME SdlInv, NEW m \in Monitors, NEW a \in Tiles, SdlFlush(m, a)
  PROVE  SdlWindows' /\ SdlShows'
<1> DEFINE asked == [refr EXCEPT ![m] = TRUE]
           stale == [shown EXCEPT ![m] = @ \ {a}]
<1>1. /\ UNCHANGED <<dual, double>> /\ a \in rest[m]
      /\ rest' = [rest EXCEPT ![m] = @ \ {a}]
      /\ outside' = [outside EXCEPT ![m] = a \in OffScreen]
      /\ a \in OffScreen => UNCHANGED <<drawn, shown, refr>>
      /\ a \notin OffScreen => drawn' = [drawn EXCEPT ![m] = @ \cup {a}]
  BY DEF SdlFlush
<1>2. a \notin OffScreen =>
        /\ Refreshes(m, a) =>
             /\ shown' = [n \in Monitors |-> IF asked[n] /\ n \in Used
                                               THEN drawn'[n] ELSE stale[n]]
             /\ refr' = [n \in Monitors |-> asked[n] /\ n \notin Used]
        /\ ~Refreshes(m, a) => shown' = stale /\ refr' = asked
  BY DEF SdlFlush
<1>3. SdlWindows
  BY DEF SdlInv
<1>4. asked \in [Monitors -> BOOLEAN] /\ asked[m] = TRUE
      /\ \A n \in Monitors : n # m => asked[n] = refr[n]
  BY <1>3 DEF SdlWindows
<1>5. stale \in [Monitors -> SUBSET Tiles] /\ \A n \in Monitors : n # m => stale[n] = shown[n]
  BY <1>3 DEF SdlWindows
<1>6. /\ rest' \in [Monitors -> SUBSET Tiles] /\ drawn' \in [Monitors -> SUBSET Tiles]
      /\ outside' \in [Monitors -> BOOLEAN] /\ outside'[m] = (a \in OffScreen)
      /\ \A n \in Monitors : n # m =>
           rest'[n] = rest[n] /\ drawn'[n] = drawn[n] /\ outside'[n] = outside[n]
      /\ rest'[m] = rest[m] \ {a}
  BY <1>1, <1>3 DEF SdlWindows
<1> HIDE DEF asked, stale
<1>7. shown' \in [Monitors -> SUBSET Tiles] /\ refr' \in [Monitors -> BOOLEAN]
  <2>1. CASE a \in OffScreen
    BY <1>1, <1>3, <2>1 DEF SdlWindows
  <2>2. CASE a \notin OffScreen /\ Refreshes(m, a)
    <3>1. \A n \in Monitors : drawn'[n] \in SUBSET Tiles /\ stale[n] \in SUBSET Tiles
      BY <1>5, <1>6
    <3>2. QED  BY <1>2, <1>4, <2>2, <3>1
  <2>3. CASE a \notin OffScreen /\ ~Refreshes(m, a)
    BY <1>2, <1>4, <1>5, <2>3
  <2>4. QED  BY <2>1, <2>2, <2>3
<1>8. Used' = Used /\ Used \subseteq Monitors
  BY <1>1 DEF Used, Monitors
<1>9. \A n \in Used : refr'[n] = TRUE \/ shown'[n] = drawn'[n]
  <2>1. TAKE n \in Used
  <2>2. n \in Monitors /\ (refr[n] = TRUE \/ shown[n] = drawn[n])
    BY <1>3, <1>8 DEF SdlWindows
  <2>3. CASE a \in OffScreen
    BY <1>1, <2>2, <2>3
  <2>4. CASE a \notin OffScreen /\ Refreshes(m, a)
    <3>1. CASE asked[n]
      BY <1>2, <2>2, <2>4, <3>1
    <3>2. CASE ~asked[n]
      BY <1>2, <1>4, <1>5, <1>6, <2>2, <2>4, <3>2
    <3>3. QED  BY <3>1, <3>2
  <2>5. CASE a \notin OffScreen /\ ~Refreshes(m, a)
    <3>1. CASE n = m
      BY <1>2, <1>4, <2>5, <3>1
    <3>2. CASE n # m
      BY <1>2, <1>4, <1>5, <1>6, <2>2, <2>5, <3>2
    <3>3. QED  BY <3>1, <3>2
  <2>6. QED  BY <2>3, <2>4, <2>5
<1>10. SdlWindows'
  BY <1>6, <1>7, <1>8, <1>9 DEF SdlWindows
<1>11. ASSUME NEW n \in Used, rest'[n] = {}
       PROVE  shown'[n] = drawn'[n] \/ (refr'[n] /\ (outside'[n] \/ (double /\ n = 2)))
  <2>1. n \in Monitors /\ (refr'[n] = TRUE \/ shown'[n] = drawn'[n])
    BY <1>8, <1>9, <1>11
  <2>2. CASE n = m
    <3>1. rest[m] = {a}
      BY <1>1, <1>6, <1>11, <2>2
    <3>2. CASE a \in OffScreen
      BY <1>6, <2>1, <2>2, <3>2
    <3>3. CASE a \notin OffScreen /\ Refreshes(m, a)
      BY <1>2, <1>4, <1>8, <2>2, <3>3
    <3>4. CASE a \notin OffScreen /\ ~Refreshes(m, a)
      BY <2>1, <2>2, <3>1, <3>4 DEF Refreshes
    <3>5. QED  BY <3>2, <3>3, <3>4
  <2>3. CASE n # m
    <3>1. rest[n] = {} /\ drawn'[n] = drawn[n] /\ stale[n] = shown[n] /\ asked[n] = refr[n]
          /\ outside'[n] = outside[n]
      BY <1>4, <1>5, <1>6, <1>11, <2>1, <2>3
    <3>2. shown[n] = drawn[n] \/ (refr[n] /\ (outside[n] \/ (double /\ n = 2)))
      BY <1>11, <3>1 DEF SdlInv, SdlShows
    <3>3. \/ shown'[n] = drawn'[n]
          \/ shown'[n] = shown[n] /\ refr'[n] = refr[n]
          \/ shown'[n] = shown[n] /\ ~refr[n]
      <4>1. CASE a \in OffScreen
        BY <1>1, <4>1
      <4>2. CASE a \notin OffScreen /\ Refreshes(m, a)
        BY <1>2, <2>1, <3>1, <4>2
      <4>3. CASE a \notin OffScreen /\ ~Refreshes(m, a)
        BY <1>2, <3>1, <4>3
      <4>4. QED  BY <4>1, <4>2, <4>3
    <3>4. QED  BY <3>1, <3>2, <3>3
  <2>4. QED  BY <2>2, <2>3
<1>12. SdlShows'
  BY <1>1, <1>8, <1>11 DEF SdlShows
<1>13. QED  BY <1>10, <1>12

LEMMA SdlKeeps ==
  ASSUME SdlInv, [SdlNext]_sdlVars
  PROVE  SdlInv'
<1>1. ASSUME UNCHANGED <<buf, dummy, more, wasPressed, accepted, typed>>
      PROVE  SdlKeys'
  BY <1>1 DEF SdlInv, SdlKeys, BytesOf, AsciiKept
<1>2. ASSUME UNCHANGED <<drawn, shown, refr, rest, outside, dual, double>>
      PROVE  SdlWindows' /\ SdlShows'
  BY <1>2 DEF SdlInv, SdlWindows, SdlShows, Used
<1>3. ASSUME UNCHANGED <<down, wheelDiff>>
      PROVE  SdlMouse'
  BY <1>3 DEF SdlInv, SdlMouse
<1>4. ASSUME UNCHANGED <<dual, double, dummy, more, wasPressed, left, middle, quit>>
      PROVE  SdlFlags'
  BY <1>4 DEF SdlInv, SdlFlags
<1>5. CASE UNCHANGED sdlVars
  BY <1>1, <1>2, <1>3, <1>4, <1>5
     DEF SdlInv, sdlVars, sdlKeyVars, sdlMouseVars, sdlScreenVars
<1>6. ASSUME NEW c \in Controls, SdlKeyDown(c)
      PROVE  SdlInv'
  <2>1. <<c>> \in Seq(Chars) /\ Len(<<c>>) = 1
    BY SdlAssumption DEF Chars
  <2>2. Len(buf) < BufferSize - 1 => Len(buf) + Len(<<c>>) <= BufferSize - 1
    BY <2>1, SdlAssumption DEF SdlInv, SdlKeys
  <2>3. SdlFlags' /\ SdlKeys'
    <3>1. Accept(<<c>>, Len(buf) < BufferSize - 1)
      BY <1>6 DEF SdlKeyDown
    <3>2. (Len(buf) < BufferSize - 1) \in BOOLEAN
      OBVIOUS
    <3>3. QED  BY <2>1, <2>2, <3>1, <3>2, SdlAccepts
  <2>4. QED
    BY <1>2, <1>3, <1>6, <2>3 DEF SdlInv, SdlKeyDown, Accept, sdlMouseVars, sdlScreenVars
<1>7. ASSUME NEW t \in Texts, SdlTextInput(t)
      PROVE  SdlInv'
  <2>1. t \in Seq(Chars)
    BY SdlAssumption DEF Chars
  <2>2. Len(buf) + Len(t) < BufferSize - 1 => Len(buf) + Len(t) <= BufferSize - 1
    BY <2>1, SdlAssumption DEF SdlInv, SdlKeys
  <2>3. SdlFlags' /\ SdlKeys'
    <3>1. Accept(t, Len(buf) + Len(t) < BufferSize - 1)
      BY <1>7 DEF SdlTextInput
    <3>2. (Len(buf) + Len(t) < BufferSize - 1) \in BOOLEAN
      OBVIOUS
    <3>3. QED  BY <2>1, <2>2, <3>1, <3>2, SdlAccepts
  <2>4. QED
    BY <1>2, <1>3, <1>7, <2>3 DEF SdlInv, SdlTextInput, Accept, sdlMouseVars, sdlScreenVars
<1>8. CASE SdlKeyboardRead
  BY <1>2, <1>3, <1>8, SdlReads DEF SdlInv, SdlKeyboardRead, sdlMouseVars, sdlScreenVars
<1>9. ASSUME NEW b \in {"left", "middle", "finger"}, SdlButton(b)
      PROVE  SdlInv'
  <2>1. /\ UNCHANGED <<buf, dummy, more, wasPressed, accepted, typed>>
        /\ UNCHANGED <<drawn, shown, refr, rest, outside, dual, double, quit, wheelDiff>>
    BY <1>9 DEF SdlButton, sdlKeyVars, sdlScreenVars
  <2>2. left' \in BOOLEAN /\ middle' \in BOOLEAN
    BY <1>9 DEF SdlButton, SdlInv, SdlFlags
  <2>3. down' \subseteq {"left", "middle", "finger"}
    BY <1>9 DEF SdlButton, SdlInv, SdlMouse
  <2>4. SdlFlags'
    BY <2>1, <2>2 DEF SdlInv, SdlFlags
  <2>5. QED  BY <1>1, <1>2, <2>1, <2>3, <2>4 DEF SdlInv, SdlMouse
<1>10. ASSUME NEW y \in Wheel, SdlWheel(y)
       PROVE  SdlInv'
  <2>1. /\ UNCHANGED <<buf, dummy, more, wasPressed, accepted, typed>>
        /\ UNCHANGED <<drawn, shown, refr, rest, outside, dual, double, quit, down, left,
                       middle>>
        /\ wheelDiff' \in Int
    BY <1>10, SdlAssumption DEF SdlWheel, sdlKeyVars, sdlScreenVars
  <2>2. QED  BY <1>1, <1>2, <1>4, <2>1 DEF SdlInv, SdlMouse
<1>11. CASE SdlWheelRead
  <2>1. /\ UNCHANGED <<buf, dummy, more, wasPressed, accepted, typed>>
        /\ UNCHANGED <<drawn, shown, refr, rest, outside, dual, double, quit, down, left,
                       middle>>
        /\ wheelDiff' \in Int
    BY <1>11 DEF SdlWheelRead, sdlKeyVars, sdlScreenVars
  <2>2. QED  BY <1>1, <1>2, <1>4, <2>1 DEF SdlInv, SdlMouse
<1>12. ASSUME NEW m \in Monitors, NEW S \in SUBSET Tiles, SdlFrame(m, S)
       PROVE  SdlInv'
  <2>1. /\ UNCHANGED <<buf, dummy, more, wasPressed, accepted, typed, down, wheelDiff>>
        /\ UNCHANGED <<dual, double, left, middle, quit, drawn, shown, refr, outside>>
        /\ S # {} /\ rest' = [rest EXCEPT ![m] = S]
    BY <1>12 DEF SdlFrame, sdlKeyVars, sdlMouseVars
  <2>2. SdlWindows'
    BY <2>1 DEF SdlInv, SdlWindows, Used
  <2>3. SdlShows'
    <3>1. \A n \in Monitors : rest'[n] = {} => rest[n] = {}
      BY <2>1 DEF SdlInv, SdlWindows
    <3>2. Used' = Used /\ Used \subseteq Monitors
      BY <2>1 DEF Used, Monitors
    <3>3. QED  BY <2>1, <3>1, <3>2 DEF SdlInv, SdlShows
  <2>4. QED  BY <1>1, <1>3, <1>4, <2>1, <2>2, <2>3 DEF SdlInv
<1>13. ASSUME NEW m \in Monitors, NEW a \in Tiles, SdlFlush(m, a)
       PROVE  SdlInv'
  <2>1. /\ UNCHANGED <<buf, dummy, more, wasPressed, accepted, typed, down, wheelDiff>>
        /\ UNCHANGED <<dual, double, left, middle, quit>>
    BY <1>13 DEF SdlFlush, sdlKeyVars, sdlMouseVars
  <2>2. QED  BY <1>1, <1>3, <1>4, <1>13, <2>1, SdlFlushKeeps DEF SdlInv
<1>14. CASE SdlExposed
  <2>1. /\ UNCHANGED <<buf, dummy, more, wasPressed, accepted, typed, down, wheelDiff>>
        /\ UNCHANGED <<dual, double, left, middle, quit, drawn, refr, rest, outside>>
        /\ shown' = [m \in Monitors |-> IF m \in Used THEN drawn[m]
                                        ELSE shown[m] \cap drawn[m]]
    BY <1>14 DEF SdlExposed, Update, sdlKeyVars, sdlMouseVars
  <2>2. Used' = Used /\ Used \subseteq Monitors
    BY <2>1 DEF Used, Monitors
  <2>3. SdlWindows'
    BY <2>1, <2>2 DEF SdlInv, SdlWindows
  <2>4. SdlShows'
    BY <2>1, <2>2 DEF SdlShows
  <2>5. QED  BY <1>1, <1>3, <1>4, <2>1, <2>3, <2>4 DEF SdlInv
<1>15. CASE SdlQuit
  <2>1. /\ UNCHANGED <<buf, dummy, more, wasPressed, accepted, typed, down, wheelDiff>>
        /\ UNCHANGED <<dual, double, left, middle, drawn, shown, refr, rest, outside>>
        /\ quit' = TRUE
    BY <1>15 DEF SdlQuit, sdlKeyVars, sdlMouseVars, sdlScreenVars
  <2>2. SdlFlags'
    BY <2>1 DEF SdlInv, SdlFlags
  <2>3. QED  BY <1>1, <1>2, <1>3, <2>1, <2>2 DEF SdlInv
<1>16. QED
  BY <1>5, <1>6, <1>7, <1>8, <1>9, <1>10, <1>11, <1>12, <1>13, <1>14, <1>15
     DEF SdlNext, SdlInputNext, SdlScreenNext, SdlInput, SdlScreen

LEMMA SdlBegins == SdlInit => SdlInv
<1> SUFFICES ASSUME SdlInit
             PROVE  SdlInv
  OBVIOUS
<1>1. SdlFlags
  BY DEF SdlInit, SdlFlags
<1>2. SdlKeys
  <2>1. buf = <<>> /\ accepted = <<>> /\ typed = <<>>
    BY DEF SdlInit
  <2>2. dummy = wasPressed /\ (dummy => more)
    BY DEF SdlInit
  <2>3. Len(<<>>) <= BufferSize - 1
    BY SdlAssumption
  <2>4. BytesOf(typed) = <<>> /\ AsciiKept(typed)
    BY <2>1 DEF BytesOf, AsciiKept
  <2>5. <<>> \o <<>> = <<>>
    OBVIOUS
  <2>6. QED  BY <2>1, <2>2, <2>3, <2>4, <2>5 DEF SdlKeys
<1>3. SdlMouse
  BY DEF SdlInit, SdlMouse
<1>4. SdlWindows /\ SdlShows
  BY DEF SdlInit, SdlWindows, SdlShows, Used, Monitors
<1>5. QED  BY <1>1, <1>2, <1>3, <1>4 DEF SdlInv

LEMMA SdlFollows == SdlInv => SdlTypeOK /\ TypedInOrder /\ SdlShows
<1> SUFFICES ASSUME SdlInv
             PROVE  SdlTypeOK /\ TypedInOrder
  BY DEF SdlInv
<1>1. {dual, double, dummy, more, wasPressed, left, middle, quit} \subseteq BOOLEAN
  BY DEF SdlInv, SdlFlags
<1>2. /\ buf \in Seq(Int) /\ Len(buf) <= BufferSize - 1
      /\ typed \in Seq(Int) /\ AsciiKept(typed) /\ accepted = BytesOf(typed) \o buf
      /\ dummy = wasPressed /\ (dummy => more)
  BY BytesAreInts DEF SdlInv, SdlKeys
<1>3. BytesOf(typed) \in Seq(Int) /\ Len(BytesOf(typed)) = Len(typed)
  BY <1>2, BytesAreInts, BytesAre
<1>4. Len(typed) <= Len(accepted)
  BY <1>2, <1>3, ConcatProperties, LenProperties
<1>5. {drawn, shown, rest} \subseteq [Monitors -> SUBSET Tiles]
      /\ {refr, outside} \subseteq [Monitors -> BOOLEAN]
  BY DEF SdlInv, SdlWindows
<1>6. SdlTypeOK
  BY <1>1, <1>2, <1>4, <1>5 DEF SdlInv, SdlMouse, SdlTypeOK
<1>7. ASSUME NEW i \in DOMAIN typed, accepted[i] < 128
      PROVE  typed[i] = accepted[i]
  <2>1. i \in 1 .. Len(typed)
    BY <1>2
  <2>2. accepted[i] = BytesOf(typed)[i]
    BY <1>2, <1>3, <2>1
  <2>3. BytesOf(typed)[i] = typed[i] % 256
    BY DEF BytesOf
  <2>4. QED  BY <1>2, <1>7, <2>1, <2>2, <2>3 DEF AsciiKept
<1>8. TypedInOrder
  BY <1>2, <1>7 DEF TypedInOrder, BytesOf
<1>9. QED  BY <1>6, <1>8

----------------------------------------------------------------------------
(* GTK *)

\* What the static variables have, or will once the handler that runs has stored what
\* it has to, is what the user did last; what a call that was not run into has loaded
\* is what they have.
GtkValues == GdkKeys \cup {0, 1}

GtkTypes ==
  /\ gtkMouse \in BOOLEAN /\ torn \in BOOLEAN
  /\ shared \in [GtkParts -> GtkValues] /\ gtkData \in [GtkParts -> GtkValues]
  /\ gtkUser \in [GtkParts -> GtkValues]
  /\ storing \in [DOMAIN storing -> GtkValues] /\ DOMAIN storing \subseteq GtkParts
  /\ loading \subseteq GtkParts

Agrees(p, v) == v = gtkUser[p] \/ (p = "key" /\ gtkUser["state"] = REL /\ v = 0)

GtkStored ==
  \A p \in GtkParts : Agrees(p, IF p \in DOMAIN storing THEN storing[p] ELSE shared[p])

GtkLoaded ==
  ~torn => /\ DOMAIN storing = {}
           /\ \A p \in GtkParts \ loading : gtkData[p] = shared[p]

GtkInv == GtkTypes /\ GtkStored /\ GtkLoaded

\* A function of nothing is the empty sequence.
LEMMA NothingLeft ==
  ASSUME NEW f, f \in [DOMAIN f -> GtkValues]
  PROVE  f = Nothing <=> DOMAIN f = {}
<1>1. Nothing \in [DOMAIN Nothing -> GtkValues] /\ DOMAIN Nothing = {}
  BY DEF Nothing
<1>2. QED  BY <1>1

\* What handlers store agrees with what the user did.
LEMMA GtkHandleKeeps ==
  ASSUME GtkInv, NEW e \in GtkDoings, GtkHandle(e)
  PROVE  GtkInv'
<1> DEFINE s == GtkStores(e)
           u == [p \in GtkParts |-> IF p \in DOMAIN e THEN e[p] ELSE gtkUser[p]]
<1>1. /\ UNCHANGED <<gtkMouse, shared, loading, gtkData>>
      /\ storing = Nothing /\ storing' = s /\ gtkUser' = u
      /\ torn' = TRUE
  BY DEF GtkHandle
<1>2. DOMAIN storing = {} /\ GtkParts' = GtkParts
  BY <1>1, NothingLeft DEF GtkInv, GtkTypes, GtkParts
<1>3. /\ e \in [DOMAIN e -> GtkValues] /\ DOMAIN e \subseteq GtkParts
      /\ s \in [DOMAIN e -> GtkValues]
      /\ \A p \in DOMAIN e : s[p] = e[p] \/ (p = "key" /\ e["state"] = REL /\ s[p] = 0)
      /\ "key" \in DOMAIN e => "state" \in DOMAIN e
  <2>1. CASE gtkMouse
    BY <2>1 DEF GtkDoings, GtkStores, GtkParts, GtkValues, REL, PR
  <2>2. CASE ~gtkMouse
    <3>1. PICK k \in GdkKeys, v \in {REL, PR} : e = [key |-> k, state |-> v]
      BY <2>2 DEF GtkDoings
    <3>2. CASE v = REL
      BY <2>2, <3>1, <3>2 DEF GtkStores, GtkParts, GtkValues, REL
    <3>3. CASE v = PR
      BY <2>2, <3>1, <3>3 DEF GtkStores, GtkParts, GtkValues, REL, PR
    <3>4. QED  BY <3>2, <3>3
  <2>3. QED  BY <2>1, <2>2
<1> HIDE DEF s
<1>4. /\ u \in [GtkParts -> GtkValues]
      /\ \A p \in DOMAIN e : u[p] = e[p]
      /\ \A p \in GtkParts \ DOMAIN e : u[p] = gtkUser[p]
  BY <1>3 DEF GtkInv, GtkTypes
<1> HIDE DEF u
<1>5. GtkTypes'
  BY <1>1, <1>2, <1>3, <1>4 DEF GtkInv, GtkTypes
<1>6. ASSUME NEW p \in GtkParts
      PROVE  Agrees(p, IF p \in DOMAIN storing THEN storing[p] ELSE shared[p])'
  <2>1. CASE p \in DOMAIN e
    BY <1>1, <1>3, <1>4, <2>1 DEF Agrees
  <2>2. CASE p \notin DOMAIN e
    <3>1. DOMAIN storing' = DOMAIN e
      BY <1>1, <1>3
    <3>2. shared[p] = gtkUser[p] \/ (p = "key" /\ gtkUser["state"] = REL /\ shared[p] = 0)
      BY <1>2 DEF GtkInv, GtkStored, Agrees
    <3>3. p # "key"
      BY <2>2 DEF GtkParts, GtkDoings
    <3>4. QED  BY <1>1, <1>4, <2>2, <3>1, <3>2, <3>3 DEF Agrees
  <2>3. QED  BY <2>1, <2>2
<1>7. QED  BY <1>1, <1>2, <1>5, <1>6 DEF GtkInv, GtkStored, GtkLoaded

LEMMA GtkStoreKeeps ==
  ASSUME GtkInv, NEW p \in GtkParts, GtkStore(p)
  PROVE  GtkInv'
<1>1. /\ UNCHANGED <<gtkMouse, loading, gtkData, torn, gtkUser>>
      /\ p \in DOMAIN storing
      /\ shared' = [shared EXCEPT ![p] = storing[p]]
      /\ storing' = [q \in DOMAIN storing \ {p} |-> storing[q]]
  BY DEF GtkStore
<1>2. /\ shared' \in [GtkParts -> GtkValues] /\ shared'[p] = storing[p]
      /\ \A q \in GtkParts : q # p => shared'[q] = shared[q]
  BY <1>1 DEF GtkInv, GtkTypes
<1>3. /\ storing' \in [DOMAIN storing \ {p} -> GtkValues]
      /\ \A q \in DOMAIN storing \ {p} : storing'[q] = storing[q]
  BY <1>1 DEF GtkInv, GtkTypes
<1>4. DOMAIN storing' = DOMAIN storing \ {p} /\ GtkParts' = GtkParts
  BY <1>1 DEF GtkParts
<1>5. GtkTypes'
  BY <1>1, <1>2, <1>3, <1>4 DEF GtkInv, GtkTypes
<1>6. GtkStored'
  BY <1>1, <1>2, <1>3, <1>4 DEF GtkInv, GtkStored, Agrees
<1>7. torn
  BY <1>1 DEF GtkInv, GtkLoaded
<1>8. QED  BY <1>1, <1>5, <1>6, <1>7 DEF GtkInv, GtkLoaded

LEMMA GtkKeeps ==
  ASSUME GtkInv, [GtkNext]_gtkVars
  PROVE  GtkInv'
<1>1. CASE UNCHANGED gtkVars
  BY <1>1 DEF GtkInv, GtkTypes, GtkStored, GtkLoaded, Agrees, GtkParts, gtkVars
<1>2. CASE GtkRead
  <2>1. /\ UNCHANGED <<gtkMouse, shared, storing, gtkData, gtkUser>>
        /\ loading' = GtkParts /\ torn' = (storing # Nothing)
    BY <1>2 DEF GtkRead
  <2>2. GtkParts' = GtkParts
    BY <2>1 DEF GtkParts
  <2>3. storing = Nothing <=> DOMAIN storing = {}
    BY NothingLeft DEF GtkInv, GtkTypes
  <2>4. GtkTypes'
    BY <2>1, <2>2 DEF GtkInv, GtkTypes
  <2>5. GtkStored'
    BY <2>1, <2>2 DEF GtkInv, GtkStored, Agrees
  <2>6. GtkLoaded'
    BY <2>1, <2>2, <2>3 DEF GtkLoaded
  <2>7. QED  BY <2>4, <2>5, <2>6 DEF GtkInv
<1>3. ASSUME NEW p \in GtkParts, GtkLoad(p)
      PROVE  GtkInv'
  <2>1. /\ UNCHANGED <<gtkMouse, shared, storing, torn, gtkUser>>
        /\ gtkData' = [gtkData EXCEPT ![p] = shared[p]] /\ loading' = loading \ {p}
    BY <1>3 DEF GtkLoad
  <2>2. GtkParts' = GtkParts
    BY <2>1 DEF GtkParts
  <2>3. /\ gtkData' \in [GtkParts -> GtkValues] /\ gtkData'[p] = shared[p]
        /\ \A q \in GtkParts : q # p => gtkData'[q] = gtkData[q]
    BY <2>1 DEF GtkInv, GtkTypes
  <2>4. GtkTypes'
    BY <2>1, <2>2, <2>3 DEF GtkInv, GtkTypes
  <2>5. GtkStored'
    BY <2>1, <2>2 DEF GtkInv, GtkStored, Agrees
  <2>6. GtkLoaded'
    BY <2>1, <2>2, <2>3 DEF GtkInv, GtkLoaded
  <2>7. QED  BY <2>4, <2>5, <2>6 DEF GtkInv
<1>4. QED
  BY <1>1, <1>2, <1>3, GtkHandleKeeps, GtkStoreKeeps DEF GtkNext

LEMMA GtkBegins == GtkInit => GtkInv
<1> SUFFICES ASSUME GtkInit
             PROVE  GtkInv
  OBVIOUS
<1>1. /\ gtkMouse \in BOOLEAN /\ torn = FALSE /\ loading = {} /\ storing = Nothing
      /\ shared = [p \in GtkParts |-> 0] /\ gtkData = shared /\ gtkUser = shared
  BY DEF GtkInit
<1>2. shared \in [GtkParts -> GtkValues]
  BY <1>1 DEF GtkValues
<1>3. DOMAIN storing = {} /\ storing \in [DOMAIN storing -> GtkValues]
  BY <1>1 DEF Nothing
<1>4. GtkTypes
  BY <1>1, <1>2, <1>3 DEF GtkTypes
<1>5. GtkStored /\ GtkLoaded
  BY <1>1, <1>3 DEF GtkStored, GtkLoaded, Agrees
<1>6. QED  BY <1>4, <1>5 DEF GtkInv

LEMMA GtkFollows == GtkInv => GtkTypeOK /\ GtkSettles
<1> SUFFICES ASSUME GtkInv
             PROVE  GtkTypeOK /\ GtkSettles
  OBVIOUS
<1>1. GtkTypeOK
  <2>1. DOMAIN shared = GtkParts /\ DOMAIN gtkData = GtkParts /\ DOMAIN gtkUser = GtkParts
    BY DEF GtkInv, GtkTypes
  <2>2. {DOMAIN shared, DOMAIN gtkData, DOMAIN gtkUser} = {GtkParts}
    BY <2>1
  <2>3. \A p \in GtkParts : {shared[p], gtkData[p], gtkUser[p]} \subseteq GtkValues
    BY DEF GtkInv, GtkTypes
  <2>4. QED  BY <2>2, <2>3 DEF GtkInv, GtkTypes, GtkTypeOK, GtkValues
<1>2. ASSUME ~torn, loading = {}, NEW p \in GtkParts
      PROVE  gtkData[p] = gtkUser[p]
               \/ (p = "key" /\ gtkUser["state"] = REL /\ gtkData[p] = 0)
  BY <1>2 DEF GtkInv, GtkLoaded, GtkStored, Agrees
<1>3. GtkSettles
  BY <1>2 DEF GtkSettles
<1>4. QED  BY <1>1, <1>3

----------------------------------------------------------------------------
(* The frame buffer *)

FbFits == LinesFit /\ (disp[1] <= Xres \/ format.bpp = 1)

FbInv == FbTypeOK /\ (FbFits => wrong = {})

\* Places of pixels that are of two rows lie in two lines.
LEMMA LinesApart ==
  ASSUME NEW L \in Nat, NEW b \in Nat \ {0}, NEW n \in Nat \ {0}, b * n <= L,
         NEW x \in 0 .. n - 1, NEW y \in Nat, NEW v \in 0 .. n - 1, NEW w \in Nat,
         L * y + b * x = L * w + b * v
  PROVE  x = v /\ y = w
<1>1. /\ b * x \in Nat /\ b * v \in Nat /\ b * n \in Nat
      /\ b * x < b * n /\ b * v < b * n
  <2>1. b * x <= b * (n - 1) /\ b * v <= b * (n - 1) /\ b * (n - 1) = b * n - b
    OBVIOUS
  <2>2. b * x \in Nat /\ b * v \in Nat /\ b * n \in Nat
    OBVIOUS
  <2>3. QED  BY <2>1, <2>2
<1>2. y = w
  <2>1. ~(y < w)
    <3>1. SUFFICES ASSUME y < w
                   PROVE  FALSE
      OBVIOUS
    <3>2. PICK d \in Nat : w = y + 1 + d
      <4>1. w - y - 1 \in Nat /\ w = y + 1 + (w - y - 1)
        BY <3>1
      <4>2. QED  BY <4>1
    <3>3. L * w = L * y + L + L * d /\ L * d >= 0 /\ L * y \in Nat
      BY <3>2
    <3>4. QED  BY <1>1, <3>3
  <2>2. ~(w < y)
    <3>1. SUFFICES ASSUME w < y
                   PROVE  FALSE
      OBVIOUS
    <3>2. PICK d \in Nat : y = w + 1 + d
      <4>1. y - w - 1 \in Nat /\ y = w + 1 + (y - w - 1)
        BY <3>1
      <4>2. QED  BY <4>1
    <3>3. L * y = L * w + L + L * d /\ L * d >= 0 /\ L * w \in Nat
      BY <3>2
    <3>4. QED  BY <1>1, <3>3
  <2>3. QED  BY <2>1, <2>2
<1>3. b * x = b * v
  BY <1>2
<1>4. x = v
  BY <1>3
<1>5. QED  BY <1>2, <1>4

\* A number in a system with base w has two digits.
LEMMA TwoDigits ==
  ASSUME NEW w \in Nat \ {0}, NEW q \in Nat, NEW r \in 0 .. w - 1
  PROVE  (q * w + r) \div w = q /\ (q * w + r) % w = r
<1> DEFINE i == q * w + r
           d == i \div w
           m == i % w
<1>1. i \in Nat
  OBVIOUS
<1>2. d \in Int /\ m \in 0 .. w - 1 /\ i = w * d + m
  BY <1>1
<1>3. w * d + m = w * q + r
  BY <1>2
<1> HIDE DEF d, m
<1>4. d = q /\ m = r
  <2>1. ~(d < q)
    <3>1. SUFFICES ASSUME d < q
                   PROVE  FALSE
      OBVIOUS
    <3>2. PICK e \in Nat : q = d + 1 + e
      <4>1. q - d - 1 \in Nat /\ q = d + 1 + (q - d - 1)
        BY <1>2, <3>1
      <4>2. QED  BY <4>1
    <3>3. w * q = w * d + w + w * e /\ w * e >= 0
      BY <1>2, <3>2
    <3>4. QED  BY <1>2, <1>3, <3>3
  <2>2. ~(q < d)
    <3>1. SUFFICES ASSUME q < d
                   PROVE  FALSE
      OBVIOUS
    <3>2. PICK e \in Nat : d = q + 1 + e
      <4>1. d - q - 1 \in Nat /\ d = q + 1 + (d - q - 1)
        BY <1>2, <3>1
      <4>2. QED  BY <4>1
    <3>3. w * d = w * q + w + w * e /\ w * e >= 0
      BY <1>2, <3>2
    <3>4. QED  BY <1>2, <1>3, <3>3
  <2>3. d = q
    BY <1>2, <2>1, <2>2
  <2>4. QED  BY <1>2, <1>3, <2>3
<1>5. QED  BY <1>4 DEF d, m

\* The driver's arithmetic finds the place of a pixel.
LEMMA LocationIsPlace ==
  ASSUME FbTypeOK, LinesFit, NEW x \in Nat, NEW y \in Nat
  PROVE  Location(x, y) = Place(x, y)
<1> DEFINE col == x + offset[1]
           row == y + offset[2]
           line == format.line
<1>1. /\ format.bpp \in {1, 8, 16, 24, 32} /\ line \in Nat
      /\ col \in Nat /\ row \in Nat
  BY FbAssumption DEF FbTypeOK
<1>2. CASE format.bpp = 1
  <2>1. 8 * line = Xres /\ Location(x, y) = col + row * Xres
        /\ Place(x, y) = 8 * row * line + 1 * col
    BY <1>2 DEF LinesFit, Location, Place
  <2> HIDE DEF col, row, line
  <2>2. row * Xres = 8 * row * line
    BY <1>1, <2>1
  <2>3. QED  BY <1>1, <2>1, <2>2
<1>3. CASE format.bpp # 1
  <2>1. PICK B \in {1, 2, 3, 4} : format.bpp = 8 * B
    BY <1>1, <1>3
  <2>2. (8 * line) % (8 * B) = 0 /\ (8 * B) \div 8 = B
    BY <1>3, <2>1 DEF LinesFit
  <2>3. /\ Location(x, y) = (8 * B) * (col + (row * line) \div B)
        /\ Place(x, y) = 8 * row * line + (8 * B) * col
    BY <1>3, <2>1, <2>2 DEF Location, Place
  <2> HIDE DEF col, row, line
  <2>4. PICK k \in Nat : line = B * k
    <3>1. line = B * (line \div B) /\ line \div B \in Nat
      BY <1>1, <2>2
    <3>2. QED  BY <3>1
  <2> DEFINE n == row * k
  <2>5. n \in Nat /\ row * line = B * n
    BY <1>1, <2>4
  <2> HIDE DEF n
  <2>6. (B * n) \div B = n
    BY <2>5
  <2>7. 8 * row * line = 8 * (B * n)
    BY <1>1, <2>5
  <2>8. Location(x, y) = (8 * B) * (col + n) /\ Place(x, y) = 8 * (B * n) + (8 * B) * col
    BY <2>3, <2>5, <2>6, <2>7
  <2>9. QED  BY <1>1, <2>5, <2>8
<1>4. QED  BY <1>2, <1>3

\* What is written is what LVGL drew, in its place: nothing that is shown is wrong.
LEMMA FbFlushRight ==
  ASSUME FbInv, FbFits, NEW a \in Nat \X Nat \X Nat \X Nat,
         a[1] <= a[3], a[2] <= a[4], a[3] < disp[1], a[1] <= Xres - 1,
         NEW t, t = Truncated(a), NEW cells, cells = (t[1] .. t[3]) \X (t[2] .. t[4]),
         NEW written,
         written = {<<Location(c[1], c[2]), PixelAt(a, Source(a, c[1], c[2]))>> :
                      c \in cells}
  PROVE  WrongAfter(written, cells) = {}
<1>1. /\ Xres \in Nat \ {0} /\ Yres \in Nat \ {0} /\ LinesFit /\ wrong = {}
      /\ format.bpp \in Nat \ {0} /\ format.line \in Nat /\ offset \in Nat \X Nat
      /\ format.bpp * Xres <= 8 * format.line
  BY FbAssumption DEF FbInv, FbTypeOK, FbFits
<1>2. /\ t[1] = a[1] /\ t[2] = a[2] /\ t[3] \in Int /\ t[4] \in Int
      /\ t[3] <= Xres - 1 /\ t[4] <= Yres - 1 /\ t[3] <= a[3]
  BY <1>1 DEF Truncated
<1>3. \A c \in cells : /\ c = <<c[1], c[2]>> /\ c[1] \in Nat /\ c[2] \in Nat
                       /\ a[1] <= c[1] /\ c[1] <= t[3] /\ a[2] <= c[2] /\ c[2] <= t[4]
  BY <1>2
<1>4. cells \subseteq Visible
  BY <1>1, <1>2, <1>3 DEF Visible
<1>5. ASSUME NEW c \in cells
      PROVE  PixelAt(a, Source(a, c[1], c[2])) = c
  <2> DEFINE w == a[3] - a[1] + 1
             q == c[2] - a[2]
             r == c[1] - a[1]
  <2>1. t[3] - t[1] + 1 + (IF format.bpp = 1 THEN a[3] - t[3] ELSE 0) = w
    <3>1. CASE format.bpp = 1
      BY <1>2, <3>1
    <3>2. CASE format.bpp # 1
      <4>1. disp[1] <= Xres /\ disp[1] \in Nat
        BY <3>2, FbAssumption DEF FbFits, FbInv, FbTypeOK
      <4>2. t[3] = a[3]
        BY <1>1, <4>1 DEF Truncated
      <4>3. QED  BY <1>2, <3>2, <4>2
    <3>3. QED  BY <3>1, <3>2
  <2>2. Source(a, c[1], c[2]) = q * w + r
    BY <1>2, <2>1 DEF Source
  <2>3. w \in Nat \ {0} /\ q \in Nat /\ r \in 0 .. w - 1
    BY <1>2, <1>3
  <2>4. PixelAt(a, q * w + r) = <<a[1] + ((q * w + r) % w), a[2] + (q * w + r) \div w>>
    BY DEF PixelAt
  <2>5. a[1] + r = c[1] /\ a[2] + q = c[2]
    BY <1>3
  <2> HIDE DEF w, q, r
  <2>6. (q * w + r) \div w = q /\ (q * w + r) % w = r
    BY <2>3, TwoDigits
  <2>7. QED  BY <1>3, <2>2, <2>4, <2>5, <2>6
<1>6. ASSUME NEW c \in cells
      PROVE  Location(c[1], c[2]) = Place(c[1], c[2])
  BY <1>1, <1>3, LocationIsPlace DEF FbInv
<1>7. ASSUME NEW p \in Visible, NEW c \in Visible, Place(p[1], p[2]) = Place(c[1], c[2])
      PROVE  p = c
  <2> DEFINE L == 8 * format.line
             b == format.bpp
  <2>1. /\ p = <<p[1], p[2]>> /\ p[1] \in 0 .. Xres - 1 /\ p[2] \in Nat
        /\ c = <<c[1], c[2]>> /\ c[1] \in 0 .. Xres - 1 /\ c[2] \in Nat
    BY DEF Visible
  <2>2. L \in Nat /\ b \in Nat \ {0} /\ b * Xres <= L
    BY <1>1
  <2>3. \A x, y \in Nat : Place(x, y) = L * y + b * x + (L * offset[2] + b * offset[1])
    <3>1. ASSUME NEW x \in Nat, NEW y \in Nat
          PROVE  Place(x, y) = L * y + b * x + (L * offset[2] + b * offset[1])
      <4>1. Place(x, y) = 8 * (y + offset[2]) * format.line + b * (x + offset[1])
        BY DEF Place
      <4>2. 8 * (y + offset[2]) * format.line = L * y + L * offset[2]
        BY <1>1
      <4>3. b * (x + offset[1]) = b * x + b * offset[1]
        BY <1>1
      <4>4. QED  BY <1>1, <4>1, <4>2, <4>3
    <3>2. QED  BY <3>1
  <2>4. L * offset[2] + b * offset[1] \in Int
    BY <1>1, <2>2
  <2> HIDE DEF L, b
  <2>5. L * p[2] + b * p[1] = L * c[2] + b * c[1]
    <3>1. /\ L * p[2] + b * p[1] \in Int /\ L * c[2] + b * c[1] \in Int
      BY <2>1, <2>2
    <3>2. QED  BY <1>7, <2>1, <2>3, <2>4, <3>1
  <2>6. p[1] = c[1] /\ p[2] = c[2]
    BY <1>1, <2>1, <2>2, <2>5, LinesApart
  <2>7. QED  BY <2>1, <2>6
<1>8. ASSUME NEW p \in Visible
      PROVE  LET given == {w[2] : w \in {v \in written : v[1] = Place(p[1], p[2])}}
             IN  ~(IF given # {} THEN given # {p} ELSE p \in cells \cup wrong)
  <2> DEFINE given == {w[2] : w \in {v \in written : v[1] = Place(p[1], p[2])}}
  <2>1. \A v \in written : \E c \in cells : v = <<Place(c[1], c[2]), c>>
    BY <1>5, <1>6
  <2>2. \A c \in cells : <<Place(c[1], c[2]), c>> \in written
    BY <1>5, <1>6
  <2>3. given \subseteq {p}
    BY <1>4, <1>7, <2>1
  <2>4. p \in cells => p \in given
    <3>1. ASSUME p \in cells
          PROVE  p \in given
      <4>1. <<Place(p[1], p[2]), p>> \in {v \in written : v[1] = Place(p[1], p[2])}
        BY <2>2, <3>1
      <4>2. QED  BY <4>1
    <3>2. QED  BY <3>1
  <2> HIDE DEF given
  <2>5. ~(IF given # {} THEN given # {p} ELSE p \in cells \cup wrong)
    BY <1>1, <2>3, <2>4
  <2>6. QED  BY <2>5 DEF given
<1>9. QED  BY <1>8 DEF WrongAfter

LEMMA FbKeeps ==
  ASSUME FbInv, [FbNext]_fbVars
  PROVE  FbInv'
<1>1. CASE UNCHANGED fbVars
  BY <1>1 DEF FbInv, FbTypeOK, FbFits, LinesFit, fbVars
<1>2. ASSUME NEW ok \in BOOLEAN, NEW yes \in BOOLEAN, FbOpen(ok, yes)
      PROVE  FbInv'
  BY <1>2 DEF FbOpen, FbInv, FbTypeOK, FbFits, LinesFit
<1>3. ASSUME NEW o \in Offsets, FbSetOffset(o)
      PROVE  FbInv'
  BY <1>3, FbAssumption DEF FbSetOffset, FbInv, FbTypeOK, FbFits, LinesFit
<1>4. ASSUME NEW x1 \in Left, NEW x2 \in Right, NEW y1 \in 0 .. disp[2] - 1,
             NEW y2 \in 0 .. disp[2] - 1, x1 <= x2, y1 <= y2,
             FbFlush(<<x1, y1, x2, y2>>)
      PROVE  FbInv'
  <2> DEFINE a == <<x1, y1, x2, y2>>
             t == Truncated(a)
             cells == (t[1] .. t[3]) \X (t[2] .. t[4])
             written == {<<Location(c[1], c[2]), PixelAt(a, Source(a, c[1], c[2]))>> :
                           c \in cells}
  <2>1. UNCHANGED <<format, disp, fbp, info, offset>> /\ a[3] < disp[1]
    BY <1>4 DEF FbFlush
  <2>2. /\ a \in Nat \X Nat \X Nat \X Nat /\ a[1] <= a[3] /\ a[2] <= a[4]
    BY <1>4, FbAssumption
  <2>3. wild' \in BOOLEAN
    BY <1>4 DEF FbFlush, FbInv, FbTypeOK
  <2>4. \/ wrong' = wrong
        \/ wrong' = WrongAfter(written, cells) /\ a[1] <= Xres - 1
    <3>1. ~(a[1] > Xres - 1) => a[1] <= Xres - 1
      BY <2>2, FbAssumption
    <3>2. QED  BY <1>4, <3>1 DEF FbFlush
  <2>5. WrongAfter(written, cells) \subseteq Visible
    BY DEF WrongAfter
  <2>6. FbTypeOK'
    BY <2>1, <2>3, <2>4, <2>5 DEF FbInv, FbTypeOK
  <2>7. FbFits /\ a[1] <= Xres - 1 => WrongAfter(written, cells) = {}
    <3> HIDE DEF a
    <3>1. ASSUME FbFits, a[1] <= Xres - 1
          PROVE  WrongAfter(written, cells) = {}
      BY <2>1, <2>2, <3>1, FbFlushRight
    <3>2. QED  BY <3>1
  <2> HIDE DEF written, cells, t, a
  <2>8. FbFits' = FbFits
    BY <2>1 DEF FbFits, LinesFit
  <2>9. QED  BY <2>4, <2>6, <2>7, <2>8 DEF FbInv
<1>5. QED
  BY <1>1, <1>2, <1>3, <1>4 DEF FbNext

LEMMA FbBegins == FbInit => FbInv
<1> SUFFICES ASSUME FbInit
             PROVE  FbInv
  OBVIOUS
<1>1. /\ format \in Formats /\ disp \in DispSizes /\ fbp = "null"
      /\ info \in BOOLEAN /\ wild \in BOOLEAN /\ offset = <<0, 0>> /\ wrong = {}
  BY DEF FbInit
<1>2. {info, wild} \subseteq BOOLEAN /\ <<0, 0>> \in Nat \X Nat
  BY <1>1
<1>3. QED  BY <1>1, <1>2 DEF FbInv, FbTypeOK

LEMMA FbFollows == FbInv => FbTypeOK /\ FbShows
  BY DEF FbInv, FbFits, FbShows

----------------------------------------------------------------------------
(* Win32 *)

\* The characters of a sequence.
Units == High \cup Low \cup Letters \cup VirtualKeys \cup {0}
Points == Seq(Units)
Items == Points \X {"PR", "REL"}

Occurs(s, c) == {i \in DOMAIN s : s[i] = c}

\* Where the queue, from its bottom, has c pressed.
Pressing(s, c) == {j \in 1 .. Len(s) : s[Len(s) + 1 - j] = <<c, "PR">>}

\* With the keys t typed and the queue s, no key was queued less often in q than it is
\* typed or will be, or every key as often.
AtMost(t, s, q) ==
  \A c \in Points : Cardinality(Occurs(t, c)) + Cardinality(Pressing(s, c))
                      <= Cardinality(Occurs(q, c))
AsOften(t, s, q) ==
  \A c \in Points : Cardinality(Occurs(t, c)) + Cardinality(Pressing(s, c))
                      = Cardinality(Occurs(q, c))

W32Types ==
  /\ app \in {"start", "wait", "true", "false"}
  /\ window \in {"none", "start", "created", "loop", "done"}
  /\ context \in {"none", "live", "leaked", "freed"}
  /\ registered \subseteq Devices32
  /\ eventSet \in BOOLEAN /\ published \in BOOLEAN /\ quitSignal \in BOOLEAN
  /\ onward \in BOOLEAN /\ pressed32 \in BOOLEAN /\ merged \in BOOLEAN
  /\ freedUse \in BOOLEAN
  /\ stack \in Seq(Items) /\ Len(stack) <= StackBound + 1
  /\ queued \in Seq(Points) /\ typed32 \in Seq(Points)
  /\ high \in High \cup {0} /\ low \in Low \cup {0}
  /\ encDiff \in -1 .. 1 /\ mouse \in {"PR", "REL"} /\ wheelBtn \in {"PR", "REL"}
  /\ callback \in {"none", "key", "wheel", "reset"}

\* Before the window is created nothing has happened.
W32Start ==
  /\ app = "start" => window = "none"
  /\ window \in {"none", "start"} =>
       /\ context = "none" /\ ~eventSet /\ app # "true"
       /\ stack = <<>> /\ queued = <<>> /\ typed32 = <<>> /\ ~onward /\ ~pressed32

\* What was queued was typed or is in the queue, but for what the other press next to
\* it makes LVGL miss; after a press LVGL reads on.
W32Keys ==
  /\ pressed32 => onward
  /\ AtMost(typed32, stack, queued)
  /\ ~merged /\ context = "live" => AsOften(typed32, stack, queued) /\ ~Adjacent(stack)

W32Inv == W32Types /\ W32Start /\ W32Keys

\* One more element.
LEMMA OccursMore ==
  ASSUME NEW T, NEW s \in Seq(T), NEW x \in T, NEW c
  PROVE  /\ Cardinality(Occurs(s, c)) \in Nat
         /\ x = c => Cardinality(Occurs(Append(s, x), c)) = Cardinality(Occurs(s, c)) + 1
         /\ x # c => Cardinality(Occurs(Append(s, x), c)) = Cardinality(Occurs(s, c))
<1> DEFINE n == Len(s)
<1>1. n \in Nat /\ DOMAIN s = 1 .. n
  BY LenProperties
<1>2. /\ DOMAIN Append(s, x) = 1 .. (n + 1) /\ Append(s, x)[n + 1] = x
      /\ \A i \in 1 .. n : Append(s, x)[i] = s[i]
  BY AppendProperties, LenProperties
<1> HIDE DEF n
<1>3. IsFiniteSet(Occurs(s, c)) /\ n + 1 \notin Occurs(s, c)
  <2>1. IsFiniteSet(1 .. n)
    BY <1>1, FS_Interval
  <2>2. Occurs(s, c) \subseteq 1 .. n
    BY <1>1 DEF Occurs
  <2>3. QED  BY <1>1, <2>1, <2>2, FS_Subset
<1>4. x = c => Occurs(Append(s, x), c) = Occurs(s, c) \cup {n + 1}
  BY <1>1, <1>2 DEF Occurs
<1>5. x # c => Occurs(Append(s, x), c) = Occurs(s, c)
  BY <1>1, <1>2 DEF Occurs
<1>6. QED  BY <1>3, <1>4, <1>5, FS_AddElement, FS_CardinalityType

\* One more item on the top.
LEMMA PressingMore ==
  ASSUME NEW T, NEW s \in Seq(T), NEW x \in T, NEW c
  PROVE  /\ Cardinality(Pressing(s, c)) \in Nat
         /\ x = <<c, "PR">> =>
              Cardinality(Pressing(<<x>> \o s, c)) = Cardinality(Pressing(s, c)) + 1
         /\ x # <<c, "PR">> =>
              Cardinality(Pressing(<<x>> \o s, c)) = Cardinality(Pressing(s, c))
<1> DEFINE n == Len(s)
           t == <<x>> \o s
<1>1. n \in Nat /\ DOMAIN s = 1 .. n
  BY LenProperties
<1>2. <<x>> \in Seq(T) /\ Len(<<x>>) = 1 /\ <<x>>[1] = x
  OBVIOUS
<1>3. /\ t \in Seq(T) /\ Len(t) = n + 1
      /\ \A i \in 1 .. (n + 1) : t[i] = IF i <= 1 THEN <<x>>[i] ELSE s[i - 1]
  BY <1>2, ConcatProperties, LenProperties
<1> HIDE DEF n, t
<1>4. \A j \in 1 .. n : n + 1 + 1 - j \in 2 .. (n + 1) /\ (n + 1 + 1 - j) - 1 = n + 1 - j
  BY <1>1
<1>5. \A j \in 1 .. n : t[Len(t) + 1 - j] = s[n + 1 - j]
  BY <1>1, <1>3, <1>4
<1>6. t[Len(t) + 1 - (n + 1)] = x
  BY <1>1, <1>2, <1>3
<1>7. Pressing(s, c) = {j \in 1 .. n : s[n + 1 - j] = <<c, "PR">>}
  BY DEF Pressing, n
<1>8. IsFiniteSet(Pressing(s, c)) /\ n + 1 \notin Pressing(s, c)
  <2>1. IsFiniteSet(1 .. n)
    BY <1>1, FS_Interval
  <2>2. QED  BY <1>1, <1>7, <2>1, FS_Subset
<1>9. x = <<c, "PR">> => Pressing(t, c) = Pressing(s, c) \cup {n + 1}
  BY <1>1, <1>3, <1>5, <1>6, <1>7 DEF Pressing
<1>10. x # <<c, "PR">> => Pressing(t, c) = Pressing(s, c)
  <2>1. SUFFICES ASSUME x # <<c, "PR">>
                 PROVE  \A j : j \in Pressing(t, c) <=> j \in Pressing(s, c)
    BY DEF Pressing
  <2>2. \A j : j \in Pressing(t, c) <=>
                j \in 1 .. Len(t) /\ t[Len(t) + 1 - j] = <<c, "PR">>
    BY DEF Pressing
  <2>3. \A j : j \in 1 .. Len(t) <=> j \in 1 .. n \/ j = n + 1
    BY <1>1, <1>3
  <2>4. QED  BY <1>5, <1>6, <1>7, <2>1, <2>2, <2>3
<1>11. QED  BY <1>8, <1>9, <1>10, FS_AddElement, FS_CardinalityType DEF t

\* One more item on the top, and in the history when it is a press.
LEMMA OneOnTop ==
  ASSUME NEW t \in Seq(Points), NEW s \in Seq(Items), NEW q \in Seq(Points),
         NEW x \in Items
  PROVE  LET u == <<x>> \o s
             r == IF IsPress(x) THEN Append(q, x[1]) ELSE q
         IN  /\ u \in Seq(Items) /\ Len(u) = Len(s) + 1 /\ r \in Seq(Points)
             /\ AtMost(t, s, q) => AtMost(t, u, r)
             /\ AsOften(t, s, q) => AsOften(t, u, r)
<1> DEFINE u == <<x>> \o s
           r == IF IsPress(x) THEN Append(q, x[1]) ELSE q
<1>1. x[1] \in Points /\ x[2] \in {"PR", "REL"} /\ x = <<x[1], x[2]>>
  BY DEF Items
<1>2. u \in Seq(Items) /\ Len(u) = Len(s) + 1
  <2>1. <<x>> \in Seq(Items) /\ Len(<<x>>) = 1
    OBVIOUS
  <2>2. QED  BY <2>1, ConcatProperties, LenProperties
<1>3. r \in Seq(Points)
  BY <1>1, AppendProperties
<1>4. ASSUME NEW c \in Points
      PROVE  /\ Cardinality(Occurs(t, c)) \in Nat
             /\ Cardinality(Pressing(s, c)) \in Nat /\ Cardinality(Occurs(q, c)) \in Nat
             /\ \/ /\ Cardinality(Pressing(u, c)) = Cardinality(Pressing(s, c)) + 1
                   /\ Cardinality(Occurs(r, c)) = Cardinality(Occurs(q, c)) + 1
                \/ /\ Cardinality(Pressing(u, c)) = Cardinality(Pressing(s, c))
                   /\ Cardinality(Occurs(r, c)) = Cardinality(Occurs(q, c))
  <2>1. Cardinality(Occurs(t, c)) \in Nat
    BY <1>4, OccursMore
  <2>2. /\ Cardinality(Occurs(q, c)) \in Nat
        /\ x[1] = c => Cardinality(Occurs(Append(q, x[1]), c)) = Cardinality(Occurs(q, c)) + 1
        /\ x[1] # c => Cardinality(Occurs(Append(q, x[1]), c)) = Cardinality(Occurs(q, c))
    BY <1>1, OccursMore
  <2>3. /\ Cardinality(Pressing(s, c)) \in Nat
        /\ x = <<c, "PR">> => Cardinality(Pressing(u, c)) = Cardinality(Pressing(s, c)) + 1
        /\ x # <<c, "PR">> => Cardinality(Pressing(u, c)) = Cardinality(Pressing(s, c))
    BY PressingMore
  <2>4. CASE IsPress(x)
    <3>1. r = Append(q, x[1]) /\ (x = <<c, "PR">> <=> x[1] = c)
      BY <1>1, <2>4 DEF IsPress
    <3> HIDE DEF r, u
    <3>2. QED  BY <2>1, <2>2, <2>3, <3>1
  <2>5. CASE ~IsPress(x)
    <3>1. r = q /\ x # <<c, "PR">>
      BY <2>5 DEF IsPress
    <3> HIDE DEF r, u
    <3>2. QED  BY <2>1, <2>2, <2>3, <3>1
  <2>6. QED  BY <2>4, <2>5
<1> HIDE DEF u, r
<1>5. AtMost(t, s, q) => AtMost(t, u, r)
  <2>1. SUFFICES ASSUME AtMost(t, s, q), NEW c \in Points
                 PROVE  Cardinality(Occurs(t, c)) + Cardinality(Pressing(u, c))
                          <= Cardinality(Occurs(r, c))
    BY DEF AtMost
  <2>2. Cardinality(Occurs(t, c)) + Cardinality(Pressing(s, c)) <= Cardinality(Occurs(q, c))
    BY <2>1 DEF AtMost
  <2>3. \A a, b, d \in Nat : a + b <= d => a + (b + 1) <= d + 1
    OBVIOUS
  <2>4. QED  BY <1>4, <2>2, <2>3
<1>6. AsOften(t, s, q) => AsOften(t, u, r)
  <2>1. SUFFICES ASSUME AsOften(t, s, q), NEW c \in Points
                 PROVE  Cardinality(Occurs(t, c)) + Cardinality(Pressing(u, c))
                          = Cardinality(Occurs(r, c))
    BY DEF AsOften
  <2>2. Cardinality(Occurs(t, c)) + Cardinality(Pressing(s, c)) = Cardinality(Occurs(q, c))
    BY <2>1 DEF AsOften
  <2>3. \A a, b, d \in Nat : a + b = d => a + (b + 1) = d + 1
    OBVIOUS
  <2>4. CASE /\ Cardinality(Pressing(u, c)) = Cardinality(Pressing(s, c)) + 1
             /\ Cardinality(Occurs(r, c)) = Cardinality(Occurs(q, c)) + 1
    <3>1. Cardinality(Occurs(t, c)) + (Cardinality(Pressing(s, c)) + 1)
            = Cardinality(Occurs(q, c)) + 1
      BY <1>4, <2>2, <2>3
    <3>2. QED  BY <2>4, <3>1, Zenon
  <2>5. CASE /\ Cardinality(Pressing(u, c)) = Cardinality(Pressing(s, c))
             /\ Cardinality(Occurs(r, c)) = Cardinality(Occurs(q, c))
    BY <2>2, <2>5, Zenon
  <2>6. QED  BY <1>4, <2>4, <2>5
<1>7. QED  BY <1>2, <1>3, <1>5, <1>6 DEF u, r

\* The item on the top is popped, and typed when it is a press.
LEMMA OneOffTop ==
  ASSUME NEW t \in Seq(Points), NEW s \in Seq(Items), NEW q \in Seq(Points),
         NEW x \in Items
  PROVE  LET u == <<x>> \o s
             r == IF IsPress(x) THEN Append(t, x[1]) ELSE t
         IN  /\ AtMost(t, u, q) => AtMost(t, s, q) /\ AtMost(r, s, q)
             /\ AsOften(t, u, q) => AsOften(r, s, q)
<1> DEFINE u == <<x>> \o s
           r == IF IsPress(x) THEN Append(t, x[1]) ELSE t
<1>1. x[1] \in Points /\ x[2] \in {"PR", "REL"} /\ x = <<x[1], x[2]>>
  BY DEF Items
<1>2. ASSUME NEW c \in Points
      PROVE  /\ Cardinality(Occurs(t, c)) \in Nat
             /\ Cardinality(Pressing(s, c)) \in Nat /\ Cardinality(Occurs(q, c)) \in Nat
             /\ \/ /\ Cardinality(Pressing(u, c)) = Cardinality(Pressing(s, c)) + 1
                   /\ Cardinality(Occurs(r, c)) = Cardinality(Occurs(t, c)) + 1
                \/ /\ Cardinality(Pressing(u, c)) = Cardinality(Pressing(s, c))
                   /\ Cardinality(Occurs(r, c)) = Cardinality(Occurs(t, c))
  <2>1. Cardinality(Occurs(q, c)) \in Nat
    BY <1>2, OccursMore
  <2>2. /\ Cardinality(Occurs(t, c)) \in Nat
        /\ x[1] = c => Cardinality(Occurs(Append(t, x[1]), c)) = Cardinality(Occurs(t, c)) + 1
        /\ x[1] # c => Cardinality(Occurs(Append(t, x[1]), c)) = Cardinality(Occurs(t, c))
    BY <1>1, OccursMore
  <2>3. /\ Cardinality(Pressing(s, c)) \in Nat
        /\ x = <<c, "PR">> => Cardinality(Pressing(u, c)) = Cardinality(Pressing(s, c)) + 1
        /\ x # <<c, "PR">> => Cardinality(Pressing(u, c)) = Cardinality(Pressing(s, c))
    BY PressingMore
  <2>4. CASE IsPress(x)
    <3>1. r = Append(t, x[1]) /\ (x = <<c, "PR">> <=> x[1] = c)
      BY <1>1, <2>4 DEF IsPress
    <3> HIDE DEF r, u
    <3>2. QED  BY <2>1, <2>2, <2>3, <3>1
  <2>5. CASE ~IsPress(x)
    <3>1. r = t /\ x # <<c, "PR">>
      BY <2>5 DEF IsPress
    <3> HIDE DEF r, u
    <3>2. QED  BY <2>1, <2>2, <2>3, <3>1
  <2>6. QED  BY <2>4, <2>5
<1> HIDE DEF u, r
<1>3. AtMost(t, u, q) => AtMost(t, s, q) /\ AtMost(r, s, q)
  <2>1. SUFFICES ASSUME AtMost(t, u, q), NEW c \in Points
                 PROVE  /\ Cardinality(Occurs(t, c)) + Cardinality(Pressing(s, c))
                             <= Cardinality(Occurs(q, c))
                        /\ Cardinality(Occurs(r, c)) + Cardinality(Pressing(s, c))
                             <= Cardinality(Occurs(q, c))
    BY DEF AtMost
  <2>2. Cardinality(Occurs(t, c)) + Cardinality(Pressing(u, c)) <= Cardinality(Occurs(q, c))
    BY <2>1 DEF AtMost
  <2>3. \A a, b, d \in Nat : a + (b + 1) <= d => a + b <= d /\ (a + 1) + b <= d
    OBVIOUS
  <2>4. QED  BY <1>2, <2>2, <2>3
<1>4. AsOften(t, u, q) => AsOften(r, s, q)
  <2>1. SUFFICES ASSUME AsOften(t, u, q), NEW c \in Points
                 PROVE  Cardinality(Occurs(r, c)) + Cardinality(Pressing(s, c))
                          = Cardinality(Occurs(q, c))
    BY DEF AsOften
  <2>2. Cardinality(Occurs(t, c)) + Cardinality(Pressing(u, c)) = Cardinality(Occurs(q, c))
    BY <2>1 DEF AsOften
  <2>3. \A a, b, d \in Nat : a + (b + 1) = d => (a + 1) + b = d
    OBVIOUS
  <2>4. CASE /\ Cardinality(Pressing(u, c)) = Cardinality(Pressing(s, c)) + 1
             /\ Cardinality(Occurs(r, c)) = Cardinality(Occurs(t, c)) + 1
    <3>1. Cardinality(Occurs(t, c)) + (Cardinality(Pressing(s, c)) + 1)
            = Cardinality(Occurs(q, c))
      BY <2>2, <2>4, Zenon
    <3>2. (Cardinality(Occurs(t, c)) + 1) + Cardinality(Pressing(s, c))
            = Cardinality(Occurs(q, c))
      BY <1>2, <2>3, <3>1
    <3>3. QED  BY <2>4, <3>2, Zenon
  <2>5. CASE /\ Cardinality(Pressing(u, c)) = Cardinality(Pressing(s, c))
             /\ Cardinality(Occurs(r, c)) = Cardinality(Occurs(t, c))
    BY <2>2, <2>5, Zenon
  <2>6. QED  BY <1>2, <2>4, <2>5
<1>5. QED  BY <1>3, <1>4 DEF u, r

\* Nothing is queued and nothing is typed.
LEMMA NothingTyped == AtMost(<<>>, <<>>, <<>>) /\ AsOften(<<>>, <<>>, <<>>)
<1>1. \A c : Occurs(<<>>, c) = {} /\ Pressing(<<>>, c) = {}
  BY DEF Occurs, Pressing
<1>2. Cardinality({}) = 0
  BY FS_EmptySet
<1>3. 0 + 0 <= 0 /\ 0 + 0 = 0
  OBVIOUS
<1>4. ASSUME NEW c \in Points
      PROVE  Cardinality(Occurs(<<>>, c)) = 0 /\ Cardinality(Pressing(<<>>, c)) = 0
  BY <1>1, <1>2
<1>5. QED  BY <1>3, <1>4 DEF AtMost, AsOften

\* The queue is freed.
LEMMA NothingLost ==
  ASSUME NEW t \in Seq(Points), NEW s \in Seq(Items), NEW q \in Seq(Points), AtMost(t, s, q)
  PROVE  AtMost(t, <<>>, q)
<1>1. SUFFICES ASSUME NEW c \in Points
               PROVE  Cardinality(Occurs(t, c)) + Cardinality(Pressing(<<>>, c))
                        <= Cardinality(Occurs(q, c))
  BY DEF AtMost
<1>2. Cardinality(Occurs(t, c)) + Cardinality(Pressing(s, c)) <= Cardinality(Occurs(q, c))
  BY DEF AtMost
<1>3. Pressing(<<>>, c) = {}
  BY DEF Pressing
<1>4. Cardinality({}) = 0
  BY FS_EmptySet
<1>5. <<c, "PR">> \in Items
  BY DEF Items
<1>6. /\ Cardinality(Occurs(t, c)) \in Nat /\ Cardinality(Occurs(q, c)) \in Nat
      /\ Cardinality(Pressing(s, c)) \in Nat
  BY <1>5, OccursMore, PressingMore
<1>7. \A a, b, d \in Nat : a + b <= d => a + 0 <= d
  OBVIOUS
<1>8. QED  BY <1>2, <1>3, <1>4, <1>6, <1>7

\* Of two items the one that is pushed last is on the top.
LEMMA TwoPushed ==
  ASSUME NEW s \in Seq(Items), NEW x \in Items, NEW y \in Items,
         NEW a \in {<<>>, <<x>>}, NEW b \in {<<>>, <<y>>}
  PROVE  Reverse(a \o b) \o s = b \o (a \o s)
<1>1. /\ <<x>> \in Seq(Items) /\ <<y>> \in Seq(Items) /\ <<>> \in Seq(Items)
      /\ Len(<<x>>) = 1 /\ Len(<<y>>) = 1
  OBVIOUS
<1>2. Reverse(<<>>) = <<>> /\ Reverse(<<x>>) = <<x>> /\ Reverse(<<y>>) = <<y>>
  BY DEF Reverse
<1>3. \A q \in Seq(Items) : <<>> \o q = q /\ q \o <<>> = q
  BY ConcatEmptySeq
<1>4. CASE a = <<>>
  <2>1. b \in Seq(Items) /\ Reverse(b) = b
    BY <1>1, <1>2
  <2>2. a \o b = b /\ a \o s = s
    BY <1>3, <1>4, <2>1
  <2>3. QED  BY <2>1, <2>2
<1>5. CASE a = <<x>> /\ b = <<>>
  <2>1. a \o b = a /\ Reverse(a) = a /\ a \o s \in Seq(Items)
    BY <1>1, <1>2, <1>3, <1>5, ConcatProperties
  <2>2. b \o (a \o s) = a \o s
    BY <1>3, <1>5, <2>1
  <2>3. QED  BY <2>1, <2>2
<1>6. CASE a = <<x>> /\ b = <<y>>
  <2>1. <<x>> \o <<y>> = <<x, y>>
    <3> DEFINE t == <<x>> \o <<y>>
    <3>1. t \in Seq(Items) /\ Len(t) = 2 /\ t[1] = x /\ t[2] = y
      BY <1>1, ConcatProperties
    <3>2. <<x, y>> \in Seq(Items) /\ Len(<<x, y>>) = 2
      OBVIOUS
    <3> HIDE DEF t
    <3>3. Len(t) = Len(<<x, y>>) /\ \A i \in 1 .. Len(t) : t[i] = <<x, y>>[i]
      BY <3>1, <3>2
    <3>4. t = <<x, y>>
      BY <3>1, <3>2, <3>3, SeqEqual
    <3>5. QED  BY <3>4 DEF t
  <2>2. Reverse(<<x, y>>) = <<y, x>>
    BY DEF Reverse
  <2>3. <<y, x>> = <<y>> \o <<x>>
    OBVIOUS
  <2>4. (<<y>> \o <<x>>) \o s = <<y>> \o (<<x>> \o s)
    BY <1>1, ConcatAssociative
  <2>5. QED  BY <1>6, <2>1, <2>2, <2>3, <2>4
<1>7. QED  BY <1>4, <1>5, <1>6

\* The keys are left alone.
LEMMA KeysKept ==
  ASSUME W32Keys,
         UNCHANGED <<context, stack, onward, pressed32, typed32, queued, merged>>
  PROVE  W32Keys'
<1>1. /\ typed32' = typed32 /\ stack' = stack /\ queued' = queued
      /\ context' = context /\ merged' = merged /\ onward' = onward
      /\ pressed32' = pressed32
  OBVIOUS
<1>2. AtMost(typed32, stack, queued) => AtMost(typed32, stack, queued)'
  BY <1>1 DEF AtMost, Occurs, Pressing
<1>3. AsOften(typed32, stack, queued) => AsOften(typed32, stack, queued)'
  BY <1>1 DEF AsOften, Occurs, Pressing
<1>4. ~Adjacent(stack) => ~Adjacent(stack)'
  BY <1>1 DEF Adjacent, IsPress
<1>5. QED  BY <1>1, <1>2, <1>3, <1>4 DEF W32Keys

\* Items are pushed, and the presses among them are in the history.
LEMMA PushKeeps ==
  ASSUME W32Inv, window = "loop",
         UNCHANGED <<app, window, eventSet, registered, published, quitSignal, context,
                     encDiff, mouse, wheelBtn, callback, onward, pressed32, typed32,
                     freedUse>>,
         high' \in High \cup {0}, low' \in Low \cup {0},
         stack' \in Seq(Items), Len(stack') <= StackBound + 1, queued' \in Seq(Points),
         merged' = (merged \/ Adjacent(stack')),
         AtMost(typed32, stack, queued) => AtMost(typed32, stack', queued'),
         AsOften(typed32, stack, queued) => AsOften(typed32, stack', queued')
  PROVE  W32Inv'
<1>1. merged' \in BOOLEAN
  BY DEF W32Inv, W32Types, Adjacent
<1>2. W32Types'
  BY <1>1 DEF W32Inv, W32Types
<1>3. W32Start'
  BY DEF W32Inv, W32Start
<1>4. W32Keys'
  <2>1. AtMost(typed32, stack', queued')
    BY DEF W32Inv, W32Keys
  <2>2. ~merged' /\ context' = "live" => AsOften(typed32, stack', queued') /\ ~Adjacent(stack')
    BY DEF W32Inv, W32Keys
  <2>3. /\ AtMost(typed32, stack, queued)' /\ (pressed32 => onward)'
        /\ (AsOften(typed32, stack', queued') => AsOften(typed32, stack, queued)')
    BY <2>1 DEF AtMost, AsOften, Occurs, Pressing, W32Inv, W32Keys
  <2>4. ~Adjacent(stack') => ~Adjacent(stack)'
    BY DEF Adjacent
  <2>5. QED  BY <2>2, <2>3, <2>4 DEF W32Keys
<1>5. QED  BY <1>2, <1>3, <1>4 DEF W32Inv

LEMMA OnCharKeeps ==
  ASSUME W32Inv, NEW c \in Letters \cup High \cup Low, OnChar(c)
  PROVE  W32Inv'
<1> DEFINE p == PairAfter(c).point
           x == <<p, "PR">>
           y == <<p, "REL">>
<1>1. /\ UNCHANGED <<app, window, eventSet, registered, published, quitSignal, context,
                     encDiff, mouse, wheelBtn, callback, onward, pressed32, typed32,
                     freedUse>>
      /\ window = "loop" /\ Len(stack) < StackBound
      /\ high' = PairAfter(c).high /\ low' = PairAfter(c).low
  BY DEF OnChar, Message, startVars, wheelVars, readVars
<1>2. PICK a \in {<<>>, <<x>>}, b \in {<<>>, <<y>>} :
        /\ stack' = Reverse(a \o b) \o stack
        /\ merged' = (merged \/ Adjacent(stack'))
        /\ queued' = IF a # <<>> THEN Append(queued, p) ELSE queued
  BY DEF OnChar, Allocated, Push
<1>3. /\ high \in High \cup {0} /\ low \in Low \cup {0} /\ stack \in Seq(Items)
      /\ queued \in Seq(Points) /\ typed32 \in Seq(Points) /\ Len(stack) \in Nat
  BY LenProperties DEF W32Inv, W32Types
<1>4. p \in Points /\ high' \in High \cup {0} /\ low' \in Low \cup {0}
  <2> DEFINE h == IF c \in High THEN c ELSE high
             l == IF c \in Low THEN c ELSE low
  <2>1. h \in High \cup {0} /\ l \in Low \cup {0}
    BY <1>3
  <2>2. \/ PairAfter(c) = [high |-> 0, low |-> 0, point |-> <<h, l>>]
        \/ PairAfter(c) = [high |-> h, low |-> l, point |-> <<c>>]
    BY DEF PairAfter
  <2> HIDE DEF h, l
  <2>3. <<h, l>> \in Points /\ <<c>> \in Points
    BY <2>1 DEF Points, Units
  <2>4. QED  BY <1>1, <2>1, <2>2, <2>3
<1> HIDE DEF p
<1>5. /\ x \in Items /\ y \in Items /\ IsPress(x) /\ ~IsPress(y)
      /\ x[1] = p
  BY <1>4 DEF Items, IsPress
<1> HIDE DEF x, y
<1> DEFINE u == a \o stack
<1>6. /\ u \in Seq(Items) /\ Len(u) <= Len(stack) + 1 /\ queued' \in Seq(Points)
      /\ AtMost(typed32, stack, queued) => AtMost(typed32, u, queued')
      /\ AsOften(typed32, stack, queued) => AsOften(typed32, u, queued')
  <2>1. CASE a = <<>>
    <3>1. u = stack /\ queued' = queued
      BY <1>2, <1>3, <2>1, ConcatEmptySeq
    <3>2. QED  BY <1>3, <3>1
  <2>2. CASE a # <<>>
    <3>1. u = <<x>> \o stack /\ queued' = Append(queued, x[1])
      BY <1>2, <1>5, <2>2
    <3>2. Len(u) = Len(stack) + 1
      BY <1>3, <1>5, <3>1, OneOnTop
    <3>3. QED  BY <1>3, <1>5, <3>1, <3>2, OneOnTop
  <2>3. QED  BY <2>1, <2>2
<1>7. stack' = b \o u
  BY <1>2, <1>3, <1>5, TwoPushed
<1> HIDE DEF u
<1>8. /\ stack' \in Seq(Items) /\ Len(stack') <= Len(stack) + 2
      /\ AtMost(typed32, u, queued') => AtMost(typed32, stack', queued')
      /\ AsOften(typed32, u, queued') => AsOften(typed32, stack', queued')
  <2>1. Len(u) \in Nat
    BY <1>6, LenProperties
  <2>2. CASE b = <<>>
    <3>1. stack' = u
      BY <1>6, <1>7, <2>2, ConcatEmptySeq
    <3>2. QED  BY <1>3, <1>6, <2>1, <3>1
  <2>3. CASE b # <<>>
    <3>1. stack' = <<y>> \o u
      BY <1>2, <1>7, <2>3
    <3>2. stack' \in Seq(Items) /\ Len(stack') = Len(u) + 1
      BY <1>3, <1>5, <1>6, <3>1, OneOnTop
    <3>3. Len(stack') <= Len(stack) + 2
      BY <1>3, <1>6, <2>1, <3>2
    <3>4. QED  BY <1>3, <1>5, <1>6, <3>1, <3>2, <3>3, OneOnTop
  <2>4. QED  BY <2>2, <2>3
<1>9. Len(stack') <= StackBound + 1
  BY <1>1, <1>3, <1>8, LenProperties, Win32Assumption
<1>10. QED  BY <1>1, <1>2, <1>4, <1>6, <1>8, <1>9, PushKeeps

LEMMA OnKeyKeeps ==
  ASSUME W32Inv, NEW k \in VirtualKeys, NEW yes \in BOOLEAN, OnKey(k, yes)
  PROVE  W32Inv'
<1> DEFINE x == <<<<k>>, IF yes THEN "PR" ELSE "REL">>
<1>1. /\ UNCHANGED <<app, window, eventSet, registered, published, quitSignal, context,
                     high, low, encDiff, mouse, wheelBtn, callback, onward, pressed32,
                     typed32, freedUse>>
      /\ window = "loop" /\ Len(stack) < StackBound
  BY DEF OnKey, Message, startVars, wheelVars, readVars
<1>2. PICK a \in {<<>>, <<x>>} :
        /\ stack' = Reverse(a) \o stack
        /\ merged' = (merged \/ Adjacent(stack'))
        /\ queued' = IF yes /\ a # <<>> THEN Append(queued, <<k>>) ELSE queued
  BY DEF OnKey, Allocated, Push
<1>3. /\ stack \in Seq(Items) /\ queued \in Seq(Points) /\ typed32 \in Seq(Points)
      /\ Len(stack) \in Nat /\ high \in High \cup {0} /\ low \in Low \cup {0}
  BY LenProperties DEF W32Inv, W32Types
<1>4. /\ x \in Items /\ (IsPress(x) <=> yes) /\ x[1] = <<k>>
  BY DEF Items, Points, Units, IsPress
<1> HIDE DEF x
<1>5. /\ stack' \in Seq(Items) /\ Len(stack') <= Len(stack) + 1 /\ queued' \in Seq(Points)
      /\ AtMost(typed32, stack, queued) => AtMost(typed32, stack', queued')
      /\ AsOften(typed32, stack, queued) => AsOften(typed32, stack', queued')
  <2>1. CASE a = <<>>
    <3>1. Reverse(<<>>) = <<>>
      BY DEF Reverse
    <3>2. stack' = stack /\ queued' = queued
      BY <1>2, <1>3, <2>1, <3>1, ConcatEmptySeq
    <3>3. QED  BY <1>3, <3>2
  <2>2. CASE a # <<>>
    <3>1. Reverse(<<x>>) = <<x>>
      BY DEF Reverse
    <3>2. stack' = <<x>> \o stack /\ queued' = IF IsPress(x) THEN Append(queued, x[1]) ELSE queued
      BY <1>2, <1>4, <2>2, <3>1
    <3>3. stack' \in Seq(Items) /\ Len(stack') = Len(stack) + 1 /\ queued' \in Seq(Points)
      BY <1>3, <1>4, <3>2, OneOnTop
    <3>4. /\ AtMost(typed32, stack, queued) => AtMost(typed32, stack', queued')
          /\ AsOften(typed32, stack, queued) => AsOften(typed32, stack', queued')
      BY <1>3, <1>4, <3>2, OneOnTop
    <3>5. Len(stack') <= Len(stack) + 1
      BY <1>3, <3>3
    <3>6. QED  BY <3>3, <3>4, <3>5
  <2>3. QED  BY <2>1, <2>2
<1>6. Len(stack') <= StackBound + 1
  BY <1>1, <1>3, <1>5, LenProperties, Win32Assumption
<1>7. QED  BY <1>1, <1>2, <1>3, <1>5, <1>6, PushKeeps

LEMMA PopKeyKeeps ==
  ASSUME W32Inv, PopKey
  PROVE  W32Inv'
<1>1. /\ UNCHANGED <<app, window, eventSet, registered, published, quitSignal, context,
                     high, low, encDiff, mouse, wheelBtn, freedUse>>
      /\ context = "live" /\ callback' = "none" /\ onward' = (stack # <<>>)
  BY DEF PopKey, Popped, startVars, wheelVars
<1>2. /\ stack \in Seq(Items) /\ queued \in Seq(Points) /\ typed32 \in Seq(Points)
      /\ Len(stack) \in Nat /\ onward' \in BOOLEAN
  BY <1>1, LenProperties DEF W32Inv, W32Types
<1>3. W32Start'
  BY <1>1 DEF W32Inv, W32Start
<1>4. CASE stack = <<>>
  <2>1. /\ pressed32' = FALSE /\ stack' = <<>> /\ typed32' = <<>> /\ queued' = <<>>
        /\ merged' = FALSE /\ onward' = FALSE
    BY <1>1, <1>4 DEF PopKey, Popped
  <2>2. W32Types'
    <3>1. /\ <<>> \in Seq(Items) /\ <<>> \in Seq(Points)
          /\ pressed32' \in BOOLEAN /\ merged' \in BOOLEAN
      BY <2>1, EmptySeq
    <3>2. Len(stack') <= StackBound + 1
      BY <1>4, <2>1 DEF W32Inv, W32Types
    <3>3. QED  BY <1>1, <1>2, <2>1, <3>1, <3>2 DEF W32Inv, W32Types
  <2>3. AtMost(typed32, stack, queued)' /\ AsOften(typed32, stack, queued)'
    BY <2>1, NothingTyped DEF AtMost, AsOften, Occurs, Pressing
  <2>4. ~Adjacent(stack)'
    <3>1. \A i : i \notin 1 .. Len(<<>>) - 1
      OBVIOUS
    <3>2. QED  BY <2>1, <3>1 DEF Adjacent
  <2>5. W32Keys'
    BY <2>1, <2>3, <2>4 DEF W32Keys
  <2>6. QED  BY <1>3, <2>2, <2>5 DEF W32Inv
<1>5. CASE stack # <<>>
  <2> DEFINE x == Head(stack)
             s == Tail(stack)
             r == IF IsPress(x) THEN Append(typed32, x[1]) ELSE typed32
  <2>1. /\ stack' = s /\ pressed32' = IsPress(x) /\ onward' = TRUE
        /\ UNCHANGED <<queued, merged>>
        /\ typed32' = IF IsPress(x) /\ ~pressed32 THEN Append(typed32, x[1]) ELSE typed32
    BY <1>1, <1>5 DEF PopKey, Popped
  <2>2. /\ x \in Items /\ s \in Seq(Items) /\ Len(stack) = Len(s) + 1
        /\ stack = <<x>> \o s /\ x = stack[1]
        /\ \A i \in 1 .. Len(s) : s[i] = stack[i + 1]
    BY <1>2, <1>5, HeadTailProperties
  <2>3. x[1] \in Points
    BY <2>2 DEF Items
  <2>4. IsPress(x) \in BOOLEAN
    BY DEF IsPress
  <2>5. /\ AtMost(typed32, stack, queued) => AtMost(typed32, s, queued) /\ AtMost(r, s, queued)
        /\ AsOften(typed32, stack, queued) => AsOften(r, s, queued)
    BY <1>2, <2>2, OneOffTop
  <2>6. typed32' = r \/ (IsPress(x) /\ pressed32 /\ typed32' = typed32)
    BY <2>1
  <2> HIDE DEF x, s, r
  <2>7. Len(s) \in Nat /\ typed32' \in Seq(Points)
    BY <1>2, <2>1, <2>2, <2>3, AppendProperties, LenProperties
  <2>8. W32Types'
    <3>1. Len(stack') <= StackBound + 1
      BY <2>1, <2>2, <2>7, Win32Assumption DEF W32Inv, W32Types
    <3>2. pressed32' \in BOOLEAN
      BY <2>1, <2>4
    <3>3. QED  BY <1>1, <1>2, <2>1, <2>2, <2>7, <3>1, <3>2 DEF W32Inv, W32Types
  <2>9. AtMost(typed32', s, queued)
    BY <2>5, <2>6 DEF W32Inv, W32Keys
  <2>10. ASSUME ~merged
         PROVE  AsOften(typed32', s, queued) /\ ~Adjacent(stack)'
    <3>1. AsOften(typed32, stack, queued) /\ ~Adjacent(stack) /\ (pressed32 => onward)
      BY <1>1, <2>10 DEF W32Inv, W32Keys
    <3>2. ~(IsPress(x) /\ pressed32)
      BY <1>5, <2>2, <3>1 DEF Adjacent
    <3>3. AsOften(typed32', s, queued)
      BY <2>5, <2>6, <3>1, <3>2
    <3>4. \A i \in 1 .. Len(s) : ~(IsPress(stack[i]) /\ IsPress(stack[i + 1]))
      <4>1. Len(stack) - 1 = Len(s)
        BY <2>2, <2>7
      <4>2. \A i \in 1 .. Len(stack) - 1 : ~(IsPress(stack[i]) /\ IsPress(stack[i + 1]))
        BY <3>1 DEF Adjacent
      <4>3. QED  BY <4>1, <4>2
    <3>5. ~(IsPress(x) /\ s # <<>> /\ IsPress(s[1]))
      <4>1. s # <<>> => 1 \in 1 .. Len(s)
        BY <2>2, <2>7
      <4>2. QED  BY <2>2, <3>4, <4>1
    <3>6. \A i \in 1 .. Len(s) - 1 : ~(IsPress(s[i]) /\ IsPress(s[i + 1]))
      <4>1. TAKE i \in 1 .. Len(s) - 1
      <4>2. i \in 1 .. Len(s) /\ i + 1 \in 1 .. Len(s)
        BY <2>7
      <4>3. s[i] = stack[i + 1] /\ s[i + 1] = stack[(i + 1) + 1]
        BY <2>2, <4>2
      <4>4. QED  BY <3>4, <4>2, <4>3
    <3>7. ~Adjacent(stack)'
      BY <2>1, <3>5, <3>6 DEF Adjacent, IsPress
    <3>8. QED  BY <3>3, <3>7
  <2>11. /\ AtMost(typed32', s, queued) => AtMost(typed32, stack, queued)'
         /\ AsOften(typed32', s, queued) => AsOften(typed32, stack, queued)'
    BY <2>1 DEF AtMost, AsOften, Occurs, Pressing
  <2>12. W32Keys'
    BY <2>1, <2>9, <2>10, <2>11 DEF W32Keys
  <2>13. QED  BY <1>3, <2>8, <2>12 DEF W32Inv
<1>6. QED  BY <1>4, <1>5

LEMMA CreateWindowKeeps ==
  ASSUME W32Inv, NEW ok \in BOOLEAN, CreateWindow32(ok)
  PROVE  W32Inv'
<1>1. /\ UNCHANGED <<app, eventSet, published, quitSignal, stack, high, low, encDiff,
                     mouse, wheelBtn, callback, onward, pressed32, typed32, freedUse,
                     queued, merged>>
      /\ window = "start" /\ window' \in {"created", "done"}
      /\ registered' \subseteq Devices32 /\ context' \in {"live", "none", "leaked"}
  BY DEF CreateWindow32, OnCreate, Devices32, keyVars, wheelVars, readVars
<1>2. W32Types'
  BY <1>1 DEF W32Inv, W32Types
<1>3. app # "start" /\ stack = <<>> /\ queued = <<>> /\ typed32 = <<>> /\ ~onward
      /\ ~pressed32
  BY <1>1 DEF W32Inv, W32Start
<1>4. W32Start'
  BY <1>1, <1>3 DEF W32Start
<1>5. AtMost(typed32, stack, queued)' /\ AsOften(typed32, stack, queued)'
  BY <1>1, <1>3, NothingTyped DEF AtMost, AsOften, Occurs, Pressing
<1>6. ~Adjacent(stack)'
  <2>1. \A i : i \notin 1 .. Len(<<>>) - 1
    OBVIOUS
  <2>2. QED  BY <1>1, <1>3, <2>1 DEF Adjacent
<1>7. W32Keys'
  BY <1>1, <1>3, <1>5, <1>6 DEF W32Keys
<1>8. QED  BY <1>2, <1>4, <1>7 DEF W32Inv

LEMMA BeginCallbackKeeps ==
  ASSUME W32Inv, NEW cb \in {"key", "wheel"}, BeginCallback(cb)
  PROVE  W32Inv'
<1>1. /\ UNCHANGED <<app, window, eventSet, registered, published, quitSignal, context,
                     stack, high, low, encDiff, mouse, wheelBtn, typed32, freedUse,
                     queued, merged>>
      /\ app = "true"
      /\ \/ context = "live" /\ callback' = cb /\ UNCHANGED <<onward, pressed32>>
         \/ context # "live" /\ onward' = FALSE /\ pressed32' = FALSE
            /\ UNCHANGED callback
  BY DEF BeginCallback, startVars, keyVars, wheelVars
<1>2. W32Types'
  <2>1. callback' \in {"none", "key", "wheel", "reset"}
        /\ onward' \in BOOLEAN /\ pressed32' \in BOOLEAN
    BY <1>1 DEF W32Inv, W32Types
  <2>2. QED  BY <1>1, <2>1 DEF W32Inv, W32Types
<1>3. W32Start'
  BY <1>1 DEF W32Inv, W32Start
<1>4. W32Keys'
  <2>1. CASE UNCHANGED <<onward, pressed32>>
    BY <1>1, <2>1, KeysKept DEF W32Inv
  <2>2. CASE context # "live" /\ onward' = FALSE /\ pressed32' = FALSE
    <3>1. AtMost(typed32', stack', queued')
      BY <1>1 DEF W32Inv, W32Keys
    <3>2. AtMost(typed32, stack, queued)'
      BY <3>1 DEF AtMost, Occurs, Pressing
    <3>3. QED  BY <1>1, <2>2, <3>2 DEF W32Keys
  <2>3. QED  BY <1>1, <2>1, <2>2
<1>5. QED  BY <1>2, <1>3, <1>4 DEF W32Inv

LEMMA W32Keeps ==
  ASSUME W32Inv, [Win32Next]_win32Vars
  PROVE  W32Inv'
<1>1. ASSUME UNCHANGED <<registered, context, stack, high, low, encDiff, mouse, wheelBtn,
                         callback, onward, pressed32, typed32, freedUse, queued, merged>>,
             app' \in {"start", "wait", "true", "false"},
             window' \in {"none", "start", "created", "loop", "done"},
             eventSet' \in BOOLEAN, published' \in BOOLEAN, quitSignal' \in BOOLEAN
      PROVE  W32Types' /\ W32Keys'
  <2>1. W32Keys'
    BY <1>1, KeysKept DEF W32Inv
  <2>2. QED  BY <1>1, <2>1 DEF W32Inv, W32Types
<1>2. ASSUME UNCHANGED <<app, window, eventSet, registered, published, quitSignal, context,
                         stack, high, low, onward, pressed32, typed32, freedUse, queued,
                         merged>>,
             encDiff' \in -1 .. 1, mouse' \in {"PR", "REL"}, wheelBtn' \in {"PR", "REL"},
             callback' \in {"none", "key", "wheel", "reset"}
      PROVE  W32Inv'
  <2>1. W32Keys'
    BY <1>2, KeysKept DEF W32Inv
  <2>2. W32Types' /\ W32Start'
    BY <1>2 DEF W32Inv, W32Types, W32Start
  <2>3. QED  BY <2>1, <2>2 DEF W32Inv
<1>3. W32Types /\ W32Start
  BY DEF W32Inv
<1>4. CASE UNCHANGED win32Vars
  <2>1. UNCHANGED <<app, window, eventSet, registered, published, quitSignal, context,
                    stack, high, low, onward, pressed32, typed32, freedUse, queued,
                    merged, encDiff, mouse, wheelBtn, callback>>
    BY <1>4 DEF win32Vars, startVars, keyVars, wheelVars, readVars
  <2>2. QED  BY <1>2, <1>3, <2>1 DEF W32Types
<1>5. ASSUME NEW class \in BOOLEAN, NEW thread \in BOOLEAN, InitStart(class, thread)
      PROVE  W32Inv'
  <2>1. /\ UNCHANGED <<eventSet, registered, published, quitSignal, context, stack, high,
                       low, encDiff, mouse, wheelBtn, callback, onward, pressed32, typed32,
                       freedUse, queued, merged>>
        /\ app = "start" /\ app' \in {"wait", "false"} /\ window' \in {window, "start"}
    BY <1>5 DEF InitStart, keyVars, wheelVars, readVars
  <2>2. W32Types' /\ W32Keys'
    BY <1>1, <1>3, <2>1 DEF W32Types
  <2>3. W32Start'
    BY <1>3, <2>1 DEF W32Start
  <2>4. QED  BY <2>2, <2>3 DEF W32Inv
<1>6. CASE SignalCreated
  <2>1. /\ UNCHANGED <<app, registered, published, quitSignal, context, stack, high,
                       low, encDiff, mouse, wheelBtn, callback, onward, pressed32, typed32,
                       freedUse, queued, merged>>
        /\ window = "created" /\ window' = "loop" /\ eventSet' = TRUE
    BY <1>6 DEF SignalCreated, keyVars, wheelVars, readVars
  <2>2. eventSet' \in BOOLEAN
    BY <2>1
  <2>3. W32Types' /\ W32Keys'
    BY <1>1, <1>3, <2>1, <2>2 DEF W32Types
  <2>4. W32Start'
    BY <1>3, <2>1 DEF W32Start
  <2>5. QED  BY <2>3, <2>4 DEF W32Inv
<1>7. CASE InitWoken
  <2>1. /\ UNCHANGED <<window, eventSet, registered, quitSignal, context, stack, high,
                       low, encDiff, mouse, wheelBtn, callback, onward, pressed32, typed32,
                       freedUse, queued, merged>>
        /\ eventSet /\ app' \in {"true", "false"} /\ published' \in BOOLEAN
    BY <1>7 DEF InitWoken, keyVars, wheelVars, readVars
  <2>2. W32Types' /\ W32Keys'
    BY <1>1, <1>3, <2>1 DEF W32Types
  <2>3. W32Start'
    BY <1>3, <2>1 DEF W32Start
  <2>4. QED  BY <2>2, <2>3 DEF W32Inv
<1>8. ASSUME NEW d \in {-1, 1}, OnWheel(d)
      PROVE  W32Inv'
  <2>1. /\ UNCHANGED <<app, window, eventSet, registered, published, quitSignal, context,
                       stack, high, low, onward, pressed32, typed32, freedUse, queued,
                       merged, mouse, wheelBtn, callback>>
        /\ encDiff' \in -1 .. 1
    BY <1>8 DEF OnWheel, startVars, keyVars, readVars
  <2>2. QED  BY <1>2, <1>3, <2>1 DEF W32Types
<1>9. ASSUME NEW b \in {"left", "middle"}, NEW s \in {"PR", "REL"}, OnButton(b, s)
      PROVE  W32Inv'
  <2>1. /\ UNCHANGED <<app, window, eventSet, registered, published, quitSignal, context,
                       stack, high, low, onward, pressed32, typed32, freedUse, queued,
                       merged, encDiff, callback>>
        /\ mouse' \in {s, mouse} /\ wheelBtn' \in {s, wheelBtn}
    BY <1>9 DEF OnButton, startVars, keyVars, readVars
  <2>2. QED  BY <1>2, <1>3, <2>1 DEF W32Types
<1>10. CASE ReadWheel
  <2>1. /\ UNCHANGED <<app, window, eventSet, registered, published, quitSignal, context,
                       stack, high, low, onward, pressed32, typed32, freedUse, queued,
                       merged, encDiff, mouse, wheelBtn>>
        /\ callback' = "reset"
    BY <1>10 DEF ReadWheel, startVars, keyVars, wheelVars
  <2>2. QED  BY <1>2, <1>3, <2>1 DEF W32Types
<1>11. CASE ResetWheel
  <2>1. /\ UNCHANGED <<app, window, eventSet, registered, published, quitSignal, context,
                       stack, high, low, onward, pressed32, typed32, freedUse, queued,
                       merged, mouse, wheelBtn>>
        /\ callback' = "none" /\ encDiff' \in -1 .. 1
    BY <1>11 DEF ResetWheel, startVars, keyVars
  <2>2. QED  BY <1>2, <1>3, <2>1 DEF W32Types
<1>12. CASE OnDestroy
  <2>1. /\ UNCHANGED <<app, window, eventSet, published, quitSignal, high, low, encDiff,
                       mouse, wheelBtn, callback, onward, pressed32, typed32, freedUse,
                       queued, merged>>
        /\ window = "loop" /\ registered' = {} /\ context' = "freed" /\ stack' = <<>>
    BY <1>12 DEF OnDestroy, Message, wheelVars, readVars
  <2>2. stack' \in Seq(Items) /\ Len(stack') <= StackBound + 1
    BY <2>1, Win32Assumption
  <2>3. W32Types'
    BY <1>3, <2>1, <2>2 DEF W32Types
  <2>4. W32Start'
    BY <1>3, <2>1 DEF W32Start
  <2>5. AtMost(typed32, stack, queued)'
    <3>1. typed32 \in Seq(Points) /\ stack \in Seq(Items) /\ queued \in Seq(Points)
          /\ AtMost(typed32, stack, queued)
      BY DEF W32Inv, W32Types, W32Keys
    <3>2. AtMost(typed32, <<>>, queued)
      BY <3>1, NothingLost
    <3>3. QED  BY <2>1, <3>2 DEF AtMost, Occurs, Pressing
  <2>6. W32Keys'
    BY <2>1, <2>5 DEF W32Inv, W32Keys
  <2>7. QED  BY <2>3, <2>4, <2>6 DEF W32Inv
<1>13. CASE OnQuit
  <2>1. /\ UNCHANGED <<app, eventSet, registered, published, context, stack, high, low,
                       encDiff, mouse, wheelBtn, callback, onward, pressed32, typed32,
                       freedUse, queued, merged>>
        /\ window' = "done" /\ quitSignal' = TRUE /\ window = "loop"
    BY <1>13 DEF OnQuit, keyVars, wheelVars, readVars
  <2>2. quitSignal' \in BOOLEAN
    BY <2>1
  <2>3. W32Types' /\ W32Keys'
    BY <1>1, <1>3, <2>1, <2>2 DEF W32Types
  <2>4. W32Start'
    BY <1>3, <2>1 DEF W32Start
  <2>5. QED  BY <2>3, <2>4 DEF W32Inv
<1>14. CASE UseFreedContext
  <2>1. /\ UNCHANGED <<app, window, eventSet, registered, published, quitSignal, context,
                       stack, high, low, encDiff, mouse, wheelBtn, onward, pressed32,
                       typed32, queued, merged>>
        /\ freedUse' = TRUE /\ callback' = "none"
    BY <1>14 DEF UseFreedContext, startVars, keyVars, wheelVars
  <2>2. freedUse' \in BOOLEAN
    BY <2>1
  <2>3. W32Types'
    BY <1>3, <2>1, <2>2 DEF W32Types
  <2>4. W32Start' /\ W32Keys'
    BY <2>1, KeysKept DEF W32Inv, W32Start
  <2>5. QED  BY <2>3, <2>4 DEF W32Inv
<1>15. \A f : MayFail32(f) \subseteq BOOLEAN
  BY DEF MayFail32
<1>16. CASE StartStep
  BY <1>5, <1>6, <1>7, <1>15, <1>16, CreateWindowKeeps DEF StartStep
<1>17. CASE KeyStep
  BY <1>17, OnKeyKeeps, OnCharKeeps, BeginCallbackKeeps, PopKeyKeeps DEF KeyStep
<1>18. CASE MouseStep
  BY <1>8, <1>9, <1>10, <1>11, <1>18, BeginCallbackKeeps DEF MouseStep
<1>19. CASE EndStep
  BY <1>12, <1>13, <1>14, <1>19 DEF EndStep
<1>20. QED
  BY <1>4, <1>16, <1>17, <1>18, <1>19 DEF Win32Next, Win32KeyNext, Win32MouseNext

LEMMA W32Begins == Win32Init => W32Inv
<1> SUFFICES ASSUME Win32Init
             PROVE  W32Inv
  OBVIOUS
<1>1. /\ app = "start" /\ window = "none" /\ context = "none" /\ registered = {}
      /\ stack = <<>> /\ high = 0 /\ low = 0 /\ encDiff = 0 /\ mouse = "REL"
      /\ wheelBtn = "REL" /\ callback = "none" /\ queued = <<>> /\ typed32 = <<>>
      /\ ~eventSet /\ ~onward /\ ~pressed32
  BY DEF Win32Init
<1>2. /\ eventSet \in BOOLEAN /\ published \in BOOLEAN /\ quitSignal \in BOOLEAN
      /\ onward \in BOOLEAN /\ pressed32 \in BOOLEAN /\ merged \in BOOLEAN
      /\ freedUse \in BOOLEAN
  BY DEF Win32Init
<1>3. Len(<<>>) <= StackBound + 1
  BY Win32Assumption
<1>4. W32Types
  BY <1>1, <1>2, <1>3 DEF W32Types
<1>5. W32Start /\ W32Keys
  BY <1>1, NothingTyped DEF W32Start, W32Keys
<1>6. QED  BY <1>4, <1>5 DEF W32Inv

LEMMA W32Follows == W32Inv => Win32TypeOK /\ TypedOnce
<1> SUFFICES ASSUME W32Inv
             PROVE  Win32TypeOK /\ TypedOnce
  OBVIOUS
<1>1. {eventSet, published, quitSignal, onward, pressed32, merged, freedUse} \subseteq BOOLEAN
  BY DEF W32Inv, W32Types
<1>2. {mouse, wheelBtn} \subseteq {"PR", "REL"}
  BY DEF W32Inv, W32Types
<1>3. Win32TypeOK
  BY <1>1, <1>2 DEF W32Inv, W32Types, Win32TypeOK
<1>4. ASSUME NEW c \in Range(queued) \cup Range(typed32)
      PROVE  /\ Times(typed32, c) <= Times(queued, c)
             /\ ~merged /\ stack = <<>> /\ context = "live" =>
                  Times(typed32, c) = Times(queued, c)
  <2>1. queued \in Seq(Points) /\ typed32 \in Seq(Points)
    BY DEF W32Inv, W32Types
  <2>2. c \in Points
    BY <2>1, ElementOfSeq, LenProperties DEF Range
  <2>3. <<c, "PR">> \in Items /\ stack \in Seq(Items)
    BY <2>2 DEF Items, W32Inv, W32Types
  <2>4. /\ Cardinality(Occurs(typed32, c)) \in Nat /\ Cardinality(Occurs(queued, c)) \in Nat
        /\ Cardinality(Pressing(stack, c)) \in Nat
    BY <2>1, <2>2, <2>3, OccursMore, PressingMore
  <2>5. Cardinality(Occurs(typed32, c)) + Cardinality(Pressing(stack, c))
          <= Cardinality(Occurs(queued, c))
    BY <2>2 DEF W32Inv, W32Keys, AtMost
  <2>6. ASSUME ~merged, stack = <<>>, context = "live"
        PROVE  Cardinality(Occurs(typed32, c)) = Cardinality(Occurs(queued, c))
    <3>1. Pressing(stack, c) = {}
      BY <2>6 DEF Pressing
    <3>2. Cardinality(Occurs(typed32, c)) + Cardinality(Pressing(stack, c))
            = Cardinality(Occurs(queued, c))
      BY <2>2, <2>6 DEF W32Inv, W32Keys, AsOften
    <3>3. Cardinality({}) = 0
      BY FS_EmptySet
    <3>4. QED  BY <2>4, <3>1, <3>2, <3>3
  <2>7. /\ Times(typed32, c) = Cardinality(Occurs(typed32, c))
        /\ Times(queued, c) = Cardinality(Occurs(queued, c))
    BY DEF Times, Occurs
  <2>8. QED  BY <2>4, <2>5, <2>6, <2>7
<1>5. TypedOnce
  BY <1>4 DEF TypedOnce
<1>6. QED  BY <1>3, <1>5


----------------------------------------------------------------------------
(* Touch controllers: the mean of some points *)

\* The largest of some places.
LEMMA LargestPlace ==
  ASSUME NEW n \in Nat, NEW s \in SUBSET (1 .. n), s # {}
  PROVE  Max(s) \in s /\ \A y \in s : y <= Max(s)
<1> DEFINE U == {u \in 0 .. n : \A y \in s : y <= u}
           k == Min(U)
<1>1. n \in U /\ U \in SUBSET Nat
  OBVIOUS
<1>2. k \in U /\ \A u \in U : k <= u
  BY <1>1, Least
<1> HIDE DEF k
<1>3. k \in s
  <2>1. SUFFICES ASSUME k \notin s
                 PROVE  FALSE
    OBVIOUS
  <2>2. PICK y \in s : y \in 1 .. n /\ y <= k
    BY <1>2
  <2>3. k \in 0 .. n /\ k - 1 \in 0 .. n
    BY <1>2, <2>2
  <2>4. ASSUME NEW z \in s
        PROVE  z <= k - 1
    <3>1. z \in 1 .. n /\ z <= k /\ z # k
      BY <1>2, <2>1
    <3>2. QED  BY <2>3, <3>1
  <2>5. k - 1 \in U
    BY <2>3, <2>4
  <2>6. k <= k - 1
    BY <1>2, <2>5
  <2>7. QED  BY <2>3, <2>6
<1>4. \A y \in s : y <= k
  BY <1>2
<1>5. QED  BY <1>3, <1>4 DEF Max

LEMMA LargestOfPlaces ==
  ASSUME NEW n \in Nat, NEW s \in SUBSET (1 .. n), n \in s
  PROVE  Max(s) = n
<1>1. Max(s) \in s /\ n <= Max(s)
  BY LargestPlace
<1>2. Max(s) \in 1 .. n
  BY <1>1
<1>3. QED  BY <1>1, <1>2

\* f[s] is the sum of w over the places s, the last place last.
IsSum(f, n, w) ==
  \A s \in SUBSET (1 .. n) : f[s] = IF s = {} THEN 0 ELSE f[s \ {Max(s)}] + w[Max(s)]

\* A sum over the places 1 .. n is defined.
LEMMA SumExists ==
  ASSUME NEW n \in Nat, NEW w \in [1 .. n -> Int]
  PROVE  \E f \in [SUBSET (1 .. n) -> Int] : IsSum(f, n, w)
<1> DEFINE Bad == {m \in 0 .. n : ~ \E f \in [SUBSET (1 .. m) -> Int] : IsSum(f, m, w)}
           m == Min(Bad)
<1>1. SUFFICES ASSUME Bad # {}
               PROVE  FALSE
  <2>1. n \in 0 .. n
    OBVIOUS
  <2>2. QED  BY <2>1
<1>2. Bad \in SUBSET Nat
  OBVIOUS
<1>3. m \in Bad /\ \A k \in Bad : m <= k
  BY <1>1, <1>2, Least
<1> HIDE DEF m
<1>4. CASE m = 0
  <2>1. SUBSET (1 .. 0) = {{}}
    OBVIOUS
  <2>2. [s \in SUBSET (1 .. 0) |-> 0] \in [SUBSET (1 .. 0) -> Int]
    OBVIOUS
  <2>3. IsSum([s \in SUBSET (1 .. 0) |-> 0], 0, w)
    BY <2>1 DEF IsSum
  <2>4. QED  BY <1>3, <1>4, <2>2, <2>3
<1>5. CASE m # 0
  <2>1. m \in 1 .. n /\ m - 1 \in 0 .. n /\ ~(m <= m - 1)
    BY <1>3, <1>5
  <2>2. m - 1 \notin Bad
    BY <1>3, <2>1
  <2>3. PICK f \in [SUBSET (1 .. (m - 1)) -> Int] : IsSum(f, m - 1, w)
    BY <2>1, <2>2
  <2> DEFINE g == [s \in SUBSET (1 .. m) |-> IF m \in s THEN f[s \ {m}] + w[m] ELSE f[s]]
  <2>4. \A s \in SUBSET (1 .. m) :
          /\ s \ {m} \in SUBSET (1 .. (m - 1))
          /\ m \notin s => s \in SUBSET (1 .. (m - 1))
    BY <2>1
  <2>5. w[m] \in Int
    BY <2>1
  <2>6. g \in [SUBSET (1 .. m) -> Int]
    BY <2>3, <2>4, <2>5
  <2>7. ASSUME NEW s \in SUBSET (1 .. m)
        PROVE  g[s] = IF s = {} THEN 0 ELSE g[s \ {Max(s)}] + w[Max(s)]
    <3>1. CASE m \in s
      <4>1. Max(s) = m
        BY <2>1, <3>1, LargestOfPlaces
      <4>2. s \ {m} \in SUBSET (1 .. m) /\ m \notin s \ {m}
        OBVIOUS
      <4>3. g[s \ {m}] = f[s \ {m}]
        BY <4>2
      <4>4. QED  BY <3>1, <4>1, <4>3
    <3>2. CASE m \notin s
      <4>1. s \in SUBSET (1 .. (m - 1)) /\ g[s] = f[s]
        BY <2>4, <3>2
      <4>2. s \ {Max(s)} \in SUBSET (1 .. m) /\ m \notin s \ {Max(s)}
        BY <3>2
      <4>3. g[s \ {Max(s)}] = f[s \ {Max(s)}]
        BY <4>2
      <4>4. f[s] = IF s = {} THEN 0 ELSE f[s \ {Max(s)}] + w[Max(s)]
        BY <2>3, <4>1 DEF IsSum
      <4>5. QED  BY <4>1, <4>3, <4>4
    <3>3. QED  BY <3>1, <3>2
  <2> HIDE DEF g
  <2>8. IsSum(g, m, w)
    BY <2>7 DEF IsSum
  <2>9. QED  BY <1>3, <2>6, <2>8
<1>6. QED  BY <1>4, <1>5

\* Bounds of what is summed are bounds of the sum.
LEMMA SumBounds ==
  ASSUME NEW n \in Nat, NEW w \in [1 .. n -> Int], NEW f, IsSum(f, n, w), NEW k \in Int
  PROVE  /\ f[1 .. n] \in Int
         /\ (\A j \in 1 .. n : w[j] >= k) => f[1 .. n] >= n * k
         /\ (\A j \in 1 .. n : w[j] <= k) => f[1 .. n] <= n * k
<1> DEFINE Holds(m) == /\ f[1 .. m] \in Int
                       /\ (\A j \in 1 .. n : w[j] >= k) => f[1 .. m] >= m * k
                       /\ (\A j \in 1 .. n : w[j] <= k) => f[1 .. m] <= m * k
           Bad == {m \in 0 .. n : ~Holds(m)}
           m == Min(Bad)
<1>1. SUFFICES ASSUME Bad # {}
               PROVE  FALSE
  <2>1. n \in 0 .. n
    OBVIOUS
  <2> HIDE DEF Holds
  <2>2. Bad = {} => Holds(n)
    BY <2>1
  <2>3. QED  BY <2>2 DEF Holds
<1>2. Bad \in SUBSET Nat
  OBVIOUS
<1>3. m \in 0 .. n /\ ~Holds(m) /\ \A l \in Bad : m <= l
  <2> HIDE DEF Holds
  <2>1. QED  BY <1>1, <1>2, Least
<1> HIDE DEF m
<1>4. m # 0
  <2>1. SUFFICES ASSUME m = 0
                 PROVE  Holds(m)
    BY <1>3
  <2>2. 1 .. m = {} /\ {} \in SUBSET (1 .. n)
    BY <2>1
  <2>3. f[{}] = 0
    BY <2>2 DEF IsSum
  <2>4. f[1 .. m] = 0 /\ m * k = 0
    BY <2>1, <2>2, <2>3
  <2>5. QED  BY <2>4
<1>5. m \in 1 .. n /\ m - 1 \in 0 .. n /\ ~(m <= m - 1) /\ m \in Nat
  BY <1>3, <1>4
<1>6. Holds(m - 1)
  <2> HIDE DEF Holds
  <2>1. QED  BY <1>3, <1>5
<1>7. 1 .. m \in SUBSET (1 .. n) /\ 1 .. m # {} /\ m \in 1 .. m
  BY <1>5
<1>8. Max(1 .. m) = m
  BY <1>5, <1>7, LargestOfPlaces
<1>9. (1 .. m) \ {m} = 1 .. (m - 1)
  BY <1>5
<1>10. f[1 .. m] = f[1 .. (m - 1)] + w[m]
  BY <1>7, <1>8, <1>9 DEF IsSum
<1>11. w[m] \in Int
  BY <1>5
<1>12. m * k = (m - 1) * k + k /\ (m - 1) * k \in Int
  BY <1>5
<1>13. Holds(m)
  <2>1. f[1 .. m] \in Int
    BY <1>6, <1>10, <1>11
  <2>2. ASSUME \A j \in 1 .. n : w[j] >= k
        PROVE  f[1 .. m] >= m * k
    <3>1. w[m] >= k /\ f[1 .. (m - 1)] >= (m - 1) * k /\ f[1 .. (m - 1)] \in Int
      BY <1>5, <1>6, <2>2
    <3> DEFINE a == f[1 .. (m - 1)]
               b == (m - 1) * k
    <3> HIDE DEF a, b
    <3>2. QED  BY <1>10, <1>11, <1>12, <3>1 DEF a, b
  <2>3. ASSUME \A j \in 1 .. n : w[j] <= k
        PROVE  f[1 .. m] <= m * k
    <3>1. w[m] <= k /\ f[1 .. (m - 1)] <= (m - 1) * k /\ f[1 .. (m - 1)] \in Int
      BY <1>5, <1>6, <2>3
    <3>2. QED  BY <1>10, <1>11, <1>12, <3>1
  <2>4. QED  BY <2>1, <2>2, <2>3
<1>14. QED  BY <1>3, <1>13

LEMMA RoundedDown ==
  ASSUME NEW a \in Int, NEW n \in Nat \ {0}
  PROVE  /\ a \div n \in Int
         /\ n * (a \div n) <= a /\ a < n * (a \div n + 1)
OBVIOUS

\* The mean of some points lies between two of them.
LEMMA MeanBetween ==
  ASSUME NEW b \in Seq(Nat \X Nat), Len(b) \in Nat \ {0}, NEW i \in 1 .. 2
  PROVE  /\ \E j \in 1 .. Len(b) : b[j][i] <= Mean(b, i)
         /\ \E j \in 1 .. Len(b) : b[j][i] >= Mean(b, i)
<1> DEFINE n == Len(b)
           Is(f) == f = [s \in SUBSET DOMAIN b |->
                           IF s = {} THEN 0 ELSE f[s \ {Max(s)}] + b[Max(s)][i]]
           fold == CHOOSE f : Is(f)
           w == [j \in 1 .. n |-> b[j][i]]
<1>1. DOMAIN b = 1 .. n /\ n \in Nat \ {0}
  OBVIOUS
<1>2. Mean(b, i) = fold[DOMAIN b] \div n
  BY DEF Mean, FoldLeft, MapThenFoldSet
<1>3. w \in [1 .. n -> Int]
  <2>1. \A j \in 1 .. n : b[j] \in Nat \X Nat
    OBVIOUS
  <2>2. \A p \in Nat \X Nat : p[i] \in Int
    OBVIOUS
  <2>3. QED  BY <2>1, <2>2
<1>4. \A s \in SUBSET (1 .. n) : s # {} => w[Max(s)] = b[Max(s)][i]
  BY <1>1, LargestPlace
<1>5. PICK f \in [SUBSET (1 .. n) -> Int] : IsSum(f, n, w)
  <2> HIDE DEF w
  <2>1. QED  BY <1>1, <1>3, SumExists
<1>6. Is(f)
  <2> HIDE DEF w
  <2>1. \A s \in SUBSET (1 .. n) :
          f[s] = IF s = {} THEN 0 ELSE f[s \ {Max(s)}] + b[Max(s)][i]
    BY <1>4, <1>5 DEF IsSum
  <2>2. QED  BY <1>1, <2>1
<1>7. Is(fold)
  <2> HIDE DEF Is
  <2>1. QED  BY <1>6
<1> HIDE DEF fold
<1>8. IsSum(fold, n, w)
  <2>1. \A s \in SUBSET (1 .. n) :
          fold[s] = IF s = {} THEN 0 ELSE fold[s \ {Max(s)}] + b[Max(s)][i]
    BY <1>1, <1>7
  <2> HIDE DEF w
  <2>2. QED  BY <1>4, <2>1 DEF IsSum
<1> DEFINE sum == fold[1 .. n]
           mean == sum \div n
<1>9. \A k \in Int : /\ sum \in Int
                     /\ (\A j \in 1 .. n : w[j] >= k) => sum >= n * k
                     /\ (\A j \in 1 .. n : w[j] <= k) => sum <= n * k
  <2> HIDE DEF w
  <2>1. QED  BY <1>1, <1>3, <1>8, SumBounds
<1>10. Mean(b, i) = mean /\ sum \in Int
  BY <1>1, <1>2, <1>9
<1> HIDE DEF sum
<1>11. mean \in Int /\ n * mean <= sum /\ sum < n * (mean + 1)
  BY <1>1, <1>10, RoundedDown
<1> HIDE DEF mean, n
<1>12. ~ \A j \in 1 .. n : w[j] >= mean + 1
  <2>1. mean + 1 \in Int /\ n * (mean + 1) \in Int
    BY <1>1, <1>11
  <2>2. sum >= n * (mean + 1) => FALSE
    BY <1>10, <1>11, <2>1
  <2> HIDE DEF w
  <2>3. QED  BY <1>9, <2>1, <2>2
<1>13. ~ \A j \in 1 .. n : w[j] <= mean - 1
  <2>1. mean - 1 \in Int /\ n * (mean - 1) \in Int /\ n * (mean - 1) = n * mean - n
    BY <1>1, <1>11
  <2>2. sum <= n * (mean - 1) => FALSE
    BY <1>1, <1>10, <1>11, <2>1
  <2> HIDE DEF w
  <2>3. QED  BY <1>9, <2>1, <2>2
<1>14. \A j \in 1 .. n : w[j] \in Int /\ w[j] = b[j][i]
  BY <1>3
<1> HIDE DEF w
<1>15. PICK j \in 1 .. n : ~(w[j] >= mean + 1)
  BY <1>12
<1>16. PICK l \in 1 .. n : ~(w[l] <= mean - 1)
  BY <1>13
<1>17. w[j] <= mean /\ w[l] >= mean
  BY <1>11, <1>14, <1>15, <1>16
<1>18. b[j][i] <= Mean(b, i) /\ b[l][i] >= Mean(b, i)
  BY <1>10, <1>14, <1>17
<1>19. QED  BY <1>18 DEF n

----------------------------------------------------------------------------
(* Touch controllers *)

TouchStates == {"SET_X", "CHECK_X", "RUN_X", "GET_X", "SET_Y", "CHECK_Y", "RUN_Y",
                "GET_Y", "SET_VALUES"}
XKnown == {"SET_Y", "CHECK_Y", "GET_Y", "RUN_Y", "SET_VALUES"}

\* What the pins are wired for in a state, and what they measure then of a pen at rest.
WiredIn(s) == IF s \in {"GET_X", "RUN_X"} THEN "x"
              ELSE IF s \in {"GET_Y", "RUN_Y"} THEN "y" ELSE "press"
Measured(w, p) == IF w = "press" THEN (IF p = Up THEN High10 ELSE 0)
                  ELSE IF w = "x" THEN p[1] ELSE p[2]

TouchTypes ==
  /\ panel \in {"ad", "xpt", "ft"} /\ pen \in Pens \cup {Up}
  /\ adState \in TouchStates
  /\ temp \in Nat \X Nat /\ adc \in Nat \X Nat
  /\ wired \in {"press", "x", "y"} /\ adcBuf \in Nat
  /\ adcDone \in BOOLEAN /\ steady \in BOOLEAN /\ reported.pressed \in BOOLEAN
  /\ rested \in Pens \cup {Up, Moved} /\ Len(halfRead) <= 1
  /\ selected \in BOOLEAN /\ (selected => panel = "xpt")

\* While AD_touch acquires a pen at rest, the converter holds what the state asked
\* for, and the states past the first coordinate have it.
Acquiring ==
  /\ rested # Moved => adc = rested
  /\ steady /\ adState # "SET_X" =>
       /\ wired = WiredIn(adState)
       /\ adcDone => adcBuf = Measured(wired, pen)
       /\ pen = Up => adState = "CHECK_X"
       /\ adState \in XKnown => temp[1] = pen[1]
       /\ adState = "SET_VALUES" => temp[2] = pen[2]

\* The pairs of a coordinate measured in this touch and one of the other axis.
Measurable == {p \in Nat \X Nat : p[1] \in touch[1] /\ p[2] \in touch[2]}

\* The points XPT2046 takes the mean of are of coordinates of this touch.
OfTouch ==
  /\ avgBuf \in Seq(Nat \X Nat) /\ Len(avgBuf) <= Average
  /\ panel = "xpt" => /\ \A j \in 1 .. Len(avgBuf) : avgBuf[j] \in Measurable
                      /\ ~reported.pressed => avgBuf = <<>>
                      /\ halfRead # <<>> => \E v \in Nat : halfRead = <<v>>

\* What is kept to be told with a release.
LastTold ==
  /\ lastPoint = IF reported.pressed THEN reported.point ELSE reported.before
  /\ ~reported.pressed => reported.point = reported.before

TouchInv == TouchTypes /\ Acquiring /\ OfTouch /\ LastTold /\ TouchTold

LEMMA TellIs ==
  ASSUME NEW pr \in BOOLEAN, NEW p, Tell(pr, p)
  PROVE  /\ reported'.pressed = pr /\ reported'.point = p
         /\ ~pr => reported'.before = IF reported.pressed THEN reported.point
                                      ELSE reported.before
BY DEF Tell

\* A step of the handler, or a conversion, or a pen that moves.
LEMMA AcquireKeeps ==
  ASSUME TouchInv, UNCHANGED <<panel, lvTouchVars>>,
         TouchTypes', Acquiring'
  PROVE  TouchInv'
<1>1. UNCHANGED <<halfRead, avgBuf, lastPoint, touch, reported>>
  BY DEF lvTouchVars
<1>2. OfTouch' /\ LastTold'
  BY <1>1 DEF TouchInv, OfTouch, LastTold, Measurable
<1>3. TouchTold'
  BY <1>1 DEF TouchInv, TouchTold, Acquiring
<1>4. QED  BY <1>2, <1>3 DEF TouchInv

LEMMA MovePenKeeps ==
  ASSUME TouchInv, NEW p \in Pens \cup {Up}, MovePen(p)
  PROVE  TouchInv'
<1>1. /\ UNCHANGED <<panel, lvTouchVars>>
      /\ UNCHANGED <<adState, temp, adc, wired, adcBuf, adcDone, rested, selected, halfRead,
                     reported>>
      /\ pen' = p /\ steady' = FALSE
  BY DEF MovePen, lvTouchVars
<1>2. TouchTypes'
  BY <1>1 DEF TouchInv, TouchTypes
<1>3. Acquiring'
  BY <1>1 DEF TouchInv, Acquiring
<1>4. QED  BY <1>1, <1>2, <1>3, AcquireKeeps

LEMMA ConvertKeeps ==
  ASSUME TouchInv, Convert
  PROVE  TouchInv'
<1>1. /\ UNCHANGED <<panel, lvTouchVars>>
      /\ UNCHANGED <<pen, adState, temp, adc, wired, steady, rested, selected, halfRead, reported>>
      /\ adcDone' = TRUE
      /\ adcBuf' \in IF wired = "press" THEN {IF pen = Up THEN High10 ELSE 0}
                     ELSE IF pen = Up THEN Floating
                     ELSE {IF wired = "x" THEN pen[1] ELSE pen[2]}
  BY DEF Convert, lvTouchVars
<1>2. pen = Up \/ (pen \in Nat \X Nat /\ pen # Up)
  BY TouchAssumption DEF TouchInv, TouchTypes
<1>3. adcBuf' \in Nat
  BY <1>1, <1>2, TouchAssumption DEF High10
<1>4. TouchTypes'
  BY <1>1, <1>3 DEF TouchInv, TouchTypes
<1>5. pen # Up \/ wired = "press" => adcBuf' = Measured(wired, pen)
  BY <1>1 DEF Measured
<1>6. Acquiring'
  BY <1>1, <1>5 DEF TouchInv, Acquiring, WiredIn
<1>7. QED  BY <1>1, <1>4, <1>6, AcquireKeeps

\* What the handler finds of a pen that has rested so far.
LEMMA Found ==
  ASSUME TouchInv, adcDone, steady, adState # "SET_X"
  PROVE  /\ WiredIn(adState) = "press" => (IsPressed <=> pen # Up)
         /\ WiredIn(adState) = "x" => adcBuf = pen[1]
         /\ WiredIn(adState) = "y" => adcBuf = pen[2]
<1>1. adcBuf = Measured(WiredIn(adState), pen)
  BY DEF TouchInv, Acquiring
<1>2. QED  BY <1>1 DEF Measured, IsPressed, High10

LEMMA GoKeeps ==
  ASSUME TouchInv, AdHandler, adState # "SET_X",
         NEW s \in TouchStates \ {"SET_X", "CHECK_X"}, NEW t \in Nat \X Nat,
         Go(s, WiredIn(s), t),
         steady => /\ pen # Up
                   /\ s \in XKnown => t[1] = pen[1]
                   /\ s = "SET_VALUES" => t[2] = pen[2]
  PROVE  TouchInv'
<1>1. /\ UNCHANGED <<panel, lvTouchVars>>
      /\ UNCHANGED <<pen, adc, adcBuf, steady, rested, selected, halfRead, reported>>
      /\ adState' = s /\ wired' = WiredIn(s) /\ temp' = t /\ adcDone' = FALSE
  BY DEF Go, AdHandler, lvTouchVars
<1>2. WiredIn(s) \in {"press", "x", "y"}
  BY DEF WiredIn
<1>3. TouchTypes'
  BY <1>1, <1>2 DEF TouchInv, TouchTypes, TouchStates
<1>4. Acquiring'
  <2>1. rested' # Moved => adc' = rested'
    BY <1>1 DEF TouchInv, Acquiring
  <2>2. ASSUME steady'
        PROVE  /\ wired' = WiredIn(adState') /\ pen' # Up /\ ~adcDone'
               /\ adState' \in XKnown => temp'[1] = pen'[1]
               /\ adState' = "SET_VALUES" => temp'[2] = pen'[2]
    BY <1>1, <2>2
  <2>3. QED  BY <2>1, <2>2 DEF Acquiring
<1>5. QED  BY <1>1, <1>3, <1>4, AcquireKeeps

LEMMA AcquiredKeeps ==
  ASSUME TouchInv, AdHandler, NEW v \in Nat \X Nat, Acquired(v), steady => v = pen
  PROVE  TouchInv'
<1>1. /\ UNCHANGED <<panel, lvTouchVars>>
      /\ UNCHANGED <<pen, temp, wired, adcBuf, adcDone, steady, selected, halfRead, reported>>
      /\ adc' = v /\ adState' = "SET_X" /\ rested' = IF steady THEN pen ELSE Moved
  BY DEF Acquired, AdHandler, lvTouchVars
<1>2. TouchTypes'
  BY <1>1 DEF TouchInv, TouchTypes, TouchStates
<1>3. Acquiring'
  BY <1>1 DEF TouchInv, Acquiring
<1>4. QED  BY <1>1, <1>2, <1>3, AcquireKeeps

LEMMA AdHandlerKeeps ==
  ASSUME TouchInv, AdHandler
  PROVE  TouchInv'
<1>1. Up \in Nat \X Nat
  BY DEF Up
<1>2. temp \in Nat \X Nat /\ adcBuf \in Nat
  BY DEF TouchInv, TouchTypes
<1>3. /\ <<0, temp[2]>> \in Nat \X Nat /\ <<temp[1], 0>> \in Nat \X Nat
  BY <1>2
<1>4. steady /\ adState # "SET_X" =>
        /\ wired = WiredIn(adState)
        /\ pen = Up => adState = "CHECK_X"
        /\ adState \in XKnown => temp[1] = pen[1]
        /\ adState = "SET_VALUES" => temp[2] = pen[2]
  BY DEF TouchInv, Acquiring
<1>5. CASE SetX
  <2>1. /\ UNCHANGED <<panel, lvTouchVars>>
        /\ UNCHANGED <<pen, temp, adc, adcBuf, rested, selected, halfRead, reported>>
        /\ adState' = "CHECK_X" /\ wired' = "press" /\ adcDone' = FALSE /\ steady' = TRUE
    BY <1>5 DEF SetX, Go, AdHandler, lvTouchVars
  <2>2. TouchTypes'
    BY <2>1 DEF TouchInv, TouchTypes, TouchStates
  <2>3. Acquiring'
    BY <2>1 DEF TouchInv, Acquiring, WiredIn, XKnown
  <2>4. QED  BY <2>1, <2>2, <2>3, AcquireKeeps
<1>6. CASE CheckX
  <2>1. adState = "CHECK_X" /\ adcDone /\ WiredIn(adState) = "press"
    BY <1>6 DEF CheckX, WiredIn
  <2>2. steady => (IsPressed <=> pen # Up)
    BY <2>1, Found
  <2>3. CASE IsPressed
    <3>1. Go("GET_X", WiredIn("GET_X"), <<0, temp[2]>>)
      BY <1>6, <2>3 DEF CheckX, WiredIn
    <3>2. "GET_X" \in TouchStates \ {"SET_X", "CHECK_X"} /\ "GET_X" \notin XKnown
      BY DEF TouchStates, XKnown
    <3>3. QED  BY <1>3, <2>1, <2>2, <2>3, <3>1, <3>2, GoKeeps
  <2>4. CASE ~IsPressed
    <3>1. Acquired(Up)
      BY <1>6, <2>4 DEF CheckX
    <3>2. QED  BY <1>1, <2>2, <2>4, <3>1, AcquiredKeeps
  <2>5. QED  BY <2>3, <2>4
<1>7. CASE CheckY
  <2>1. adState = "CHECK_Y" /\ adcDone /\ WiredIn(adState) = "press" /\ adState \in XKnown
    BY <1>7 DEF CheckY, WiredIn, XKnown
  <2>2. steady => (IsPressed <=> pen # Up)
    BY <2>1, Found
  <2>3. CASE IsPressed
    <3>1. Go("GET_Y", WiredIn("GET_Y"), <<temp[1], 0>>)
      BY <1>7, <2>3 DEF CheckY, WiredIn
    <3>2. "GET_Y" \in TouchStates \ {"SET_X", "CHECK_X"} /\ <<temp[1], 0>>[1] = temp[1]
      BY DEF TouchStates
    <3>3. QED  BY <1>3, <1>4, <2>1, <2>2, <2>3, <3>1, <3>2, GoKeeps
  <2>4. CASE ~IsPressed
    <3>1. Acquired(Up)
      BY <1>7, <2>4 DEF CheckY
    <3>2. QED  BY <1>1, <2>2, <2>4, <3>1, AcquiredKeeps
  <2>5. QED  BY <2>3, <2>4
<1>8. CASE Run
  <2>1. \/ adState = "RUN_X" /\ Go("GET_X", wired, temp)
        \/ adState = "RUN_Y" /\ Go("GET_Y", wired, temp)
    BY <1>8 DEF Run
  <2>2. /\ UNCHANGED <<panel, lvTouchVars>>
        /\ UNCHANGED <<pen, adc, adcBuf, steady, rested, selected, halfRead, reported, wired, temp>>
        /\ adState' \in {"GET_X", "GET_Y"} /\ adcDone' = FALSE
        /\ adState' = "GET_X" <=> adState = "RUN_X"
        /\ adState' = "GET_Y" <=> adState = "RUN_Y"
    BY <2>1 DEF Go, AdHandler, lvTouchVars
  <2>3. TouchTypes'
    BY <2>2 DEF TouchInv, TouchTypes, TouchStates
  <2>4. rested' # Moved => adc' = rested'
    BY <2>2 DEF TouchInv, Acquiring
  <2>5. ASSUME steady
        PROVE  wired = WiredIn(adState') /\ pen # Up
                 /\ (adState' = "GET_Y" => temp[1] = pen[1])
    BY <1>4, <2>1, <2>2, <2>5 DEF WiredIn, XKnown
  <2>6. Acquiring'
    BY <2>2, <2>4, <2>5 DEF Acquiring, XKnown
  <2>7. QED  BY <2>2, <2>3, <2>6, AcquireKeeps
<1>9. CASE Get
  <2>1. adcDone
    BY <1>9 DEF Get
  <2>2. ASSUME adState = "GET_X", adcBuf = temp[1]
        PROVE  TouchInv'
    <3>1. Go("SET_Y", WiredIn("SET_Y"), temp)
      BY <1>9, <2>2 DEF Get, WiredIn
    <3>2. steady => pen # Up /\ temp[1] = pen[1]
      BY <1>4, <2>1, <2>2, Found DEF WiredIn
    <3>3. "SET_Y" \in TouchStates \ {"SET_X", "CHECK_X"}
      BY DEF TouchStates
    <3>4. QED  BY <1>2, <2>2, <3>1, <3>2, <3>3, GoKeeps
  <2>3. ASSUME adState = "GET_Y", adcBuf = temp[2]
        PROVE  TouchInv'
    <3>1. Go("SET_VALUES", WiredIn("SET_VALUES"), temp)
      BY <1>9, <2>3 DEF Get, WiredIn
    <3>2. steady => pen # Up /\ temp[1] = pen[1] /\ temp[2] = pen[2]
      BY <1>4, <2>1, <2>3, Found DEF WiredIn, XKnown
    <3>3. "SET_VALUES" \in TouchStates \ {"SET_X", "CHECK_X"}
      BY DEF TouchStates
    <3>4. QED  BY <1>2, <2>3, <3>1, <3>2, <3>3, GoKeeps
  <2>4. ASSUME NEW s \in TouchStates, NEW t \in Nat \X Nat, Again(s, t),
               \/ adState = "GET_X" /\ s = "RUN_X"
               \/ adState = "GET_Y" /\ s = "RUN_Y" /\ t[1] = temp[1]
        PROVE  TouchInv'
    <3>1. /\ UNCHANGED <<panel, lvTouchVars>>
          /\ UNCHANGED <<pen, adc, adcBuf, steady, rested, selected, halfRead, reported, wired,
                         adcDone>>
          /\ adState' = s /\ temp' = t
      BY <2>4 DEF Again, AdHandler, lvTouchVars
    <3>2. TouchTypes'
      BY <3>1, <2>4 DEF TouchInv, TouchTypes
    <3>3. rested' # Moved => adc' = rested'
      BY <3>1 DEF TouchInv, Acquiring
    <3>4. ASSUME steady
          PROVE  /\ wired = WiredIn(s) /\ pen # Up /\ adcBuf = Measured(wired, pen)
                 /\ s = "RUN_Y" => t[1] = pen[1]
      <4>1. adcBuf = Measured(wired, pen)
        BY <2>1, <2>4, <3>4 DEF TouchInv, Acquiring
      <4>2. QED  BY <1>4, <2>4, <3>4, <4>1 DEF WiredIn, XKnown
    <3>5. Acquiring'
      BY <2>4, <3>1, <3>3, <3>4 DEF Acquiring, XKnown
    <3>6. QED  BY <3>1, <3>2, <3>5, AcquireKeeps
  <2>5. /\ <<adcBuf, temp[2]>> \in Nat \X Nat
        /\ <<temp[1], adcBuf>> \in Nat \X Nat /\ <<temp[1], adcBuf>>[1] = temp[1]
        /\ "RUN_X" \in TouchStates /\ "RUN_Y" \in TouchStates
    BY <1>2 DEF TouchStates
  <2>6. \/ adState = "GET_X" /\ adcBuf = temp[1]
        \/ adState = "GET_Y" /\ adcBuf = temp[2]
        \/ adState = "GET_X" /\ Again("RUN_X", <<adcBuf, temp[2]>>)
        \/ adState = "GET_Y" /\ Again("RUN_Y", <<temp[1], adcBuf>>)
    BY <1>9 DEF Get
  <2>7. QED  BY <2>2, <2>3, <2>4, <2>5, <2>6
<1>10. CASE SetY
  <2>1. adState = "SET_Y" /\ adcDone /\ WiredIn(adState) = "press" /\ adState \in XKnown
    BY <1>10 DEF SetY, WiredIn, XKnown
  <2>2. steady => (IsPressed <=> pen # Up)
    BY <2>1, Found
  <2>3. CASE IsPressed
    <3>1. Go("CHECK_Y", WiredIn("CHECK_Y"), temp)
      BY <1>10, <2>3 DEF SetY, WiredIn
    <3>2. "CHECK_Y" \in TouchStates \ {"SET_X", "CHECK_X"}
      BY DEF TouchStates
    <3>3. QED  BY <1>2, <1>4, <2>1, <2>2, <2>3, <3>1, <3>2, GoKeeps
  <2>4. CASE ~IsPressed
    <3>1. Acquired(Up)
      BY <1>10, <2>4 DEF SetY
    <3>2. QED  BY <1>1, <2>2, <2>4, <3>1, AcquiredKeeps
  <2>5. QED  BY <2>3, <2>4
<1>11. CASE SetValues
  <2>1. /\ adState = "SET_VALUES" /\ adcDone /\ WiredIn(adState) = "press"
        /\ adState \in XKnown
        /\ Acquired(IF IsPressed THEN temp ELSE Up)
    BY <1>11 DEF SetValues, WiredIn, XKnown
  <2>2. steady => (IsPressed <=> pen # Up)
    BY <2>1, Found
  <2>3. steady /\ pen # Up => temp = pen
    <3>1. pen # Up => pen \in Nat \X Nat
      BY TouchAssumption DEF TouchInv, TouchTypes
    <3>2. QED  BY <1>2, <1>4, <2>1, <3>1
  <2>4. QED  BY <1>1, <1>2, <2>1, <2>2, <2>3, AcquiredKeeps
<1>12. QED  BY <1>5, <1>6, <1>7, <1>8, <1>9, <1>10, <1>11 DEF AdHandler

LEMMA AdReadKeeps ==
  ASSUME TouchInv, AdReadX \/ AdReadY
  PROVE  TouchInv'
<1>1. /\ UNCHANGED <<panel, pen, adVars, selected, avgBuf, touch>>
      /\ UNCHANGED <<adState, temp, adc, wired, adcBuf, adcDone, steady, rested>>
      /\ panel = "ad"
  BY DEF AdReadX, AdReadY, adVars
<1>2. Acquiring'
  BY <1>1 DEF TouchInv, Acquiring
<1>3. CASE AdReadX
  <2>1. UNCHANGED <<lastPoint, reported>> /\ Len(halfRead') <= 1
    BY <1>3 DEF AdReadX
  <2>2. TouchTypes' /\ OfTouch' /\ LastTold'
    BY <1>1, <2>1 DEF TouchInv, TouchTypes, OfTouch, LastTold, Measurable
  <2>3. TouchTold'
    BY <1>1, <1>2, <2>1 DEF TouchInv, Acquiring, TouchTold
  <2>4. QED  BY <1>2, <2>2, <2>3 DEF TouchInv
<1>4. CASE AdReadY
  <2>1. Len(halfRead') <= 1
    BY <1>4 DEF AdReadY
  <2>2. PICK p : \/ Tell(TRUE, p) /\ lastPoint' = p
                 \/ Tell(FALSE, lastPoint) /\ lastPoint' = lastPoint
    BY <1>4 DEF AdReadY
  <2>3. \/ reported'.pressed = TRUE /\ reported'.point = p /\ lastPoint' = p
        \/ /\ reported'.pressed = FALSE
           /\ reported'.point = lastPoint /\ lastPoint' = lastPoint
           /\ reported'.before = IF reported.pressed THEN reported.point
                                 ELSE reported.before
    BY <2>2, TellIs
  <2>4. LastTold'
    BY <2>3 DEF TouchInv, LastTold
  <2>5. reported'.pressed \in BOOLEAN
    BY <2>3
  <2>6. TouchTypes' /\ OfTouch'
    BY <1>1, <2>1, <2>5 DEF TouchInv, TouchTypes, OfTouch, Measurable
  <2>7. TouchTold'
    BY <1>1, <1>2, <2>4 DEF Acquiring, LastTold, TouchTold
  <2>8. QED  BY <1>2, <2>4, <2>6, <2>7 DEF TouchInv
<1>5. QED  BY <1>3, <1>4

LEMMA CorrIs ==
  ASSUME NEW raw \in Nat, NEW i \in 1 .. 2
  PROVE  Corr(raw, i) \in Nat
<1>1. /\ XptMin[i] \in Nat /\ XptMax[i] \in Nat /\ XptRes[i] \in Nat
      /\ XptMax[i] - XptMin[i] \in Nat \ {0}
  BY TouchAssumption
<1>2. ASSUME raw > XptMin[i]
      PROVE  (raw - XptMin[i]) * XptRes[i] \in Nat
  BY <1>1, <1>2
<1>3. \A a \in Nat, d \in Nat \ {0} : a \div d \in Nat
  OBVIOUS
<1>4. QED  BY <1>1, <1>2, <1>3 DEF Corr

\* A point that is put before others, the last of which may go.
LEMMA PutBefore ==
  ASSUME NEW S, NEW p \in S, NEW s \in Seq(S), Len(s) <= Average,
         NEW T, p \in T, \A j \in 1 .. Len(s) : s[j] \in T,
         NEW b, b = <<p>> \o (IF Len(s) < Average THEN s ELSE Front(s))
  PROVE  /\ b \in Seq(S) /\ Len(b) \in Nat \ {0} /\ Len(b) <= Average
         /\ \A j \in 1 .. Len(b) : b[j] \in T
<1> DEFINE q == IF Len(s) < Average THEN s ELSE Front(s)
<1>1. Average \in Nat \ {0} /\ Len(s) \in Nat
  BY TouchAssumption
<1>2. /\ q \in Seq(S) /\ Len(q) < Average
      /\ \A j \in 1 .. Len(q) : q[j] \in T
  <2>1. CASE Len(s) < Average
    BY <2>1
  <2>2. CASE ~(Len(s) < Average)
    <3>1. Len(s) = Average /\ q = SubSeq(s, 1, Len(s) - 1)
      BY <1>1, <2>2 DEF Front
    <3>2. /\ q \in Seq(S) /\ Len(q) = Len(s) - 1
          /\ \A j \in 1 .. Len(s) - 1 : q[j] = s[j]
      <4> DEFINE n == Len(s) - 1
      <4>1. n \in Nat /\ n - 1 + 1 = n /\ (1 <= n \/ n = 0)
        BY <1>1, <3>1
      <4>2. \A j \in 1 .. n : s[j] \in S
        BY <1>1
      <4>3. q = SubSeq(s, 1, n)
        BY <3>1
      <4> HIDE DEF n, q
      <4>4. 1 \in Int /\ n \in Int
        BY <4>1
      <4>5. /\ SubSeq(s, 1, n) \in Seq(S)
            /\ Len(SubSeq(s, 1, n)) = IF 1 <= n THEN n - 1 + 1 ELSE 0
            /\ \A j \in 1 .. n - 1 + 1 : SubSeq(s, 1, n)[j] = s[1 + j - 1]
        BY <4>2, <4>4, SubSeqProperties
      <4>6. \A j \in 1 .. n : 1 + j - 1 = j
        BY <4>1
      <4>7. QED  BY <4>1, <4>3, <4>5, <4>6 DEF n
    <3>3. 1 .. Len(q) \subseteq 1 .. Len(s) /\ Len(q) < Average
      BY <1>1, <3>1, <3>2
    <3> HIDE DEF q
    <3>4. QED  BY <3>2, <3>3
  <2>3. QED  BY <2>1, <2>2
<1> HIDE DEF q
<1>3. b = <<p>> \o q /\ Len(q) \in Nat
  BY <1>2 DEF q
<1>4. b \in Seq(S) /\ Len(b) = 1 + Len(q)
  <2>1. <<p>> \in Seq(S) /\ Len(<<p>>) = 1
    OBVIOUS
  <2>2. q \in Seq(S)
    BY <1>2
  <2>3. /\ <<p>> \o q \in Seq(S)
        /\ Len(<<p>> \o q) = Len(<<p>>) + Len(q)
    BY <2>1, <2>2, ConcatProperties
  <2>4. QED  BY <1>3, <2>1, <2>3
<1>5. ASSUME NEW j \in 1 .. Len(b)
      PROVE  b[j] \in T
  <2>1. CASE j = 1
    <3>1. b[j] = p
      BY <1>2, <1>3, <2>1
    <3>2. QED  BY <3>1
  <2>2. CASE j # 1
    <3>1. j \in 2 .. 1 + Len(q) /\ j - 1 \in 1 .. Len(q)
      BY <1>3, <1>4, <2>2
    <3>2. b[j] = q[j - 1]
      BY <1>2, <1>3, <3>1
    <3>3. QED  BY <1>2, <3>1, <3>2
  <2>3. QED  BY <2>1, <2>2
<1>6. QED  BY <1>1, <1>2, <1>3, <1>4, <1>5

LEMMA XptIrqKeeps ==
  ASSUME TouchInv, XptIrq
  PROVE  TouchInv'
<1>1. /\ UNCHANGED <<panel, pen, adVars, halfRead, lastPoint, touch>> /\ panel = "xpt"
      /\ UNCHANGED <<adState, temp, adc, wired, adcBuf, adcDone, steady, rested>>
  BY DEF XptIrq, adVars
<1>2. Acquiring'
  BY <1>1 DEF TouchInv, Acquiring
<1>3. CASE pen # Up
  <2>1. selected' = TRUE /\ UNCHANGED <<avgBuf, reported>>
    BY <1>3 DEF XptIrq
  <2>2. TouchTypes' /\ OfTouch' /\ LastTold'
    BY <1>1, <2>1 DEF TouchInv, TouchTypes, OfTouch, LastTold, Measurable
  <2>3. TouchTold'
    BY <1>1, <1>2, <2>1 DEF TouchInv, Acquiring, TouchTold
  <2>4. QED  BY <1>2, <2>2, <2>3 DEF TouchInv
<1>4. CASE pen = Up
  <2>1. selected' = selected /\ avgBuf' = <<>> /\ Tell(FALSE, lastPoint)
    BY <1>4 DEF XptIrq, XptUp
  <2>2. /\ reported'.pressed = FALSE /\ reported'.point = lastPoint
        /\ reported'.before = IF reported.pressed THEN reported.point ELSE reported.before
    BY <2>1, TellIs
  <2>3. OfTouch'
    BY <1>1, <2>1, <2>2, TouchAssumption DEF TouchInv, OfTouch
  <2>4. TouchTypes'
    BY <1>1, <2>1, <2>2 DEF TouchInv, TouchTypes
  <2>5. LastTold'
    BY <1>1, <2>1, <2>2 DEF TouchInv, LastTold
  <2>6. TouchTold'
    BY <1>2, <2>2, <2>5 DEF Acquiring, LastTold, TouchTold
  <2>7. QED  BY <1>2, <2>3, <2>4, <2>5, <2>6 DEF TouchInv
<1>5. QED  BY <1>3, <1>4

\* What the controller measures is a natural number.
LEMMA SampledIs ==
  ASSUME TouchInv, NEW i \in 1 .. 2, NEW c \in Sampled(i)
  PROVE  c \in Nat
<1>1. pen = Up \/ pen \in Nat \X Nat
  BY TouchAssumption DEF TouchInv, TouchTypes
<1>2. QED  BY <1>1, TouchAssumption DEF Sampled

LEMMA XptReadXKeeps ==
  ASSUME TouchInv, XptReadX
  PROVE  TouchInv'
<1>1. /\ UNCHANGED <<panel, pen, adVars, selected, avgBuf, lastPoint, touch, reported>>
      /\ UNCHANGED <<adState, temp, adc, wired, adcBuf, adcDone, steady, rested>>
  BY DEF XptReadX, adVars
<1>2. PICK x \in Sampled(1) : halfRead' = <<Corr(x, 1)>>
  BY DEF XptReadX
<1>3. Corr(x, 1) \in Nat
  BY SampledIs, CorrIs
<1>4. Len(halfRead') <= 1 /\ \E v \in Nat : halfRead' = <<v>>
  BY <1>2, <1>3
<1>5. Acquiring'
  BY <1>1 DEF TouchInv, Acquiring
<1>6. TouchTypes' /\ OfTouch' /\ LastTold'
  BY <1>1, <1>4 DEF TouchInv, TouchTypes, OfTouch, LastTold, Measurable
<1>7. TouchTold'
  BY <1>1, <1>5 DEF TouchInv, Acquiring, TouchTold
<1>8. QED  BY <1>5, <1>6, <1>7 DEF TouchInv

LEMMA XptReadYKeeps ==
  ASSUME TouchInv, XptReadY
  PROVE  TouchInv'
<1>1. /\ UNCHANGED <<panel, pen, adVars>> /\ panel = "xpt"
      /\ UNCHANGED <<adState, temp, adc, wired, adcBuf, adcDone, steady, rested>>
      /\ selected' = FALSE /\ halfRead' = <<>> /\ halfRead # <<>>
  BY DEF XptReadY, adVars, TouchInv, TouchTypes
<1>2. PICK y \in Sampled(2) :
        LET p == <<halfRead[1], Corr(y, 2)>>
            b == <<p>> \o (IF Len(avgBuf) < Average THEN avgBuf ELSE Front(avgBuf))
            mean == <<Mean(b, 1), Mean(b, 2)>>
        IN  /\ avgBuf' = b /\ lastPoint' = mean /\ Tell(TRUE, mean)
            /\ touch' = [i \in 1 .. 2 |->
                           (IF reported.pressed THEN touch[i] ELSE {}) \cup {p[i]}]
  BY DEF XptReadY
<1> DEFINE p == <<halfRead[1], Corr(y, 2)>>
           b == <<p>> \o (IF Len(avgBuf) < Average THEN avgBuf ELSE Front(avgBuf))
           mean == <<Mean(b, 1), Mean(b, 2)>>
<1>3. /\ avgBuf' = b /\ lastPoint' = mean /\ Tell(TRUE, mean)
      /\ touch' = [i \in 1 .. 2 |-> (IF reported.pressed THEN touch[i] ELSE {}) \cup {p[i]}]
  BY <1>2
<1>4. Acquiring'
  BY <1>1 DEF TouchInv, Acquiring
<1>5. p \in Nat \X Nat
  <2>1. PICK v \in Nat : halfRead = <<v>>
    BY <1>1 DEF TouchInv, OfTouch
  <2>2. Corr(y, 2) \in Nat
    BY SampledIs, CorrIs
  <2>3. halfRead[1] \in Nat
    BY <2>1
  <2>4. QED  BY <2>2, <2>3
<1> HIDE DEF p
<1>6. /\ touch'[1] = (IF reported.pressed THEN touch[1] ELSE {}) \cup {p[1]}
      /\ touch'[2] = (IF reported.pressed THEN touch[2] ELSE {}) \cup {p[2]}
  BY <1>3
<1>7. p \in Measurable'
  BY <1>5, <1>6 DEF Measurable
<1>8. avgBuf \in Seq(Nat \X Nat) /\ Len(avgBuf) <= Average
  BY DEF TouchInv, OfTouch
<1>9. \A j \in 1 .. Len(avgBuf) : avgBuf[j] \in Measurable'
  <2>1. CASE reported.pressed
    BY <1>1, <1>6, <2>1 DEF TouchInv, OfTouch, Measurable
  <2>2. CASE ~reported.pressed
    BY <1>1, <2>2 DEF TouchInv, OfTouch
  <2>3. QED  BY <2>1, <2>2
<1>10. /\ b \in Seq(Nat \X Nat) /\ Len(b) \in Nat \ {0} /\ Len(b) <= Average
       /\ \A j \in 1 .. Len(b) : b[j] \in Measurable'
  BY <1>5, <1>7, <1>8, <1>9, PutBefore
<1> HIDE DEF b
<1>11. reported'.pressed = TRUE /\ reported'.point = mean
  BY <1>3, TellIs
<1>12. ASSUME NEW i \in 1 .. 2
       PROVE  /\ \E c \in touch'[i] : c <= reported'.point[i]
              /\ \E c \in touch'[i] : c >= reported'.point[i]
  <2>1. mean[i] = Mean(b, i)
    OBVIOUS
  <2>2. /\ \E j \in 1 .. Len(b) : b[j][i] <= Mean(b, i)
        /\ \E j \in 1 .. Len(b) : b[j][i] >= Mean(b, i)
    BY <1>10, MeanBetween
  <2>3. \A j \in 1 .. Len(b) : b[j][i] \in touch'[i]
    BY <1>10 DEF Measurable
  <2> HIDE DEF mean
  <2>4. QED  BY <1>11, <2>1, <2>2, <2>3
<1>13. OfTouch'
  BY <1>1, <1>3, <1>10, <1>11 DEF OfTouch
<1>14. TouchTypes'
  <2>1. Len(<<>>) <= 1
    OBVIOUS
  <2>2. QED  BY <1>1, <1>11, <2>1 DEF TouchInv, TouchTypes
<1> HIDE DEF mean
<1>15. LastTold'
  BY <1>3, <1>11 DEF LastTold
<1>16. TouchTold'
  BY <1>4, <1>11, <1>12 DEF Acquiring, TouchTold
<1>17. QED  BY <1>4, <1>13, <1>14, <1>15, <1>16 DEF TouchInv

LEMMA FtReadKeeps ==
  ASSUME TouchInv, NEW fingers, NEW valid \in BOOLEAN, FtRead(fingers, valid)
  PROVE  TouchInv'
<1>1. /\ UNCHANGED <<panel, pen, adVars, selected, halfRead, avgBuf, touch>>
      /\ panel = "ft"
      /\ UNCHANGED <<adState, temp, adc, wired, adcBuf, adcDone, steady, rested>>
  BY DEF FtRead, adVars
<1>2. Acquiring'
  BY <1>1 DEF TouchInv, Acquiring
<1> DEFINE p == <<(pen[1] * 320) \div 2048, (pen[2] * 240) \div 2048>>
           ok == fingers \in 1 .. FingerMax /\ valid
<1>3. \/ Tell(TRUE, p) /\ lastPoint' = p
      \/ Tell(FALSE, lastPoint) /\ lastPoint' = lastPoint
  <2>1. IF ok THEN Tell(TRUE, p) /\ lastPoint' = p
        ELSE Tell(FALSE, lastPoint) /\ UNCHANGED lastPoint
    BY Zenon DEF FtRead
  <2> HIDE DEF ok, p
  <2>2. QED  BY <2>1
<1> HIDE DEF p
<1>4. \/ reported'.pressed = TRUE /\ reported'.point = p /\ lastPoint' = p
      \/ /\ reported'.pressed = FALSE
         /\ reported'.point = lastPoint /\ lastPoint' = lastPoint
         /\ reported'.before = IF reported.pressed THEN reported.point
                               ELSE reported.before
  BY <1>3, TellIs
<1>5. LastTold'
  BY <1>4 DEF TouchInv, LastTold
<1>6. reported'.pressed \in BOOLEAN
  BY <1>4
<1>7. TouchTypes' /\ OfTouch'
  BY <1>1, <1>6 DEF TouchInv, TouchTypes, OfTouch, Measurable
<1>8. TouchTold'
  BY <1>1, <1>2, <1>5 DEF Acquiring, LastTold, TouchTold
<1>9. QED  BY <1>2, <1>5, <1>7, <1>8 DEF TouchInv

LEMMA TouchKeeps ==
  ASSUME TouchInv, [TouchNext]_touchVars
  PROVE  TouchInv'
<1>1. CASE UNCHANGED touchVars
  <2>1. UNCHANGED <<panel, lvTouchVars, pen, adState, temp, adc, wired, adcBuf, adcDone,
                    steady, rested, selected, halfRead, reported>>
    BY <1>1 DEF touchVars, adVars, lvTouchVars
  <2>2. TouchTypes' /\ Acquiring'
    BY <2>1 DEF TouchInv, TouchTypes, Acquiring
  <2>3. QED  BY <2>1, <2>2, AcquireKeeps
<1>2. QED
  BY <1>1, MovePenKeeps, ConvertKeeps, AdHandlerKeeps, AdReadKeeps, XptIrqKeeps,
     XptReadXKeeps, XptReadYKeeps, FtReadKeeps DEF TouchNext

LEMMA TouchBegins == TouchInit => TouchInv
<1> SUFFICES ASSUME TouchInit
             PROVE  TouchInv
  OBVIOUS
<1>1. /\ panel \in {"ad", "xpt", "ft"}
      /\ pen = Up /\ adState = "SET_X" /\ temp = <<0, 0>> /\ adc = Up
      /\ wired = "press" /\ adcBuf = 0 /\ adcDone = FALSE
      /\ steady = TRUE /\ rested = Up
      /\ selected = FALSE /\ halfRead = <<>> /\ avgBuf = <<>> /\ lastPoint = <<0, 0>>
      /\ reported.pressed = FALSE /\ reported.point = <<0, 0>>
      /\ reported.before = <<0, 0>>
  BY DEF TouchInit, Up
<1>2. Up \in Nat \X Nat /\ <<0, 0>> \in Nat \X Nat
  BY DEF Up
<1>3. TouchTypes
  <2>1. Len(<<>>) <= 1
    OBVIOUS
  <2>2. adcBuf \in Nat /\ {adcDone, steady, reported.pressed} \subseteq BOOLEAN
    BY <1>1
  <2>3. temp \in Nat \X Nat /\ adc \in Nat \X Nat
    BY <1>1, <1>2
  <2>4. QED  BY <1>1, <2>1, <2>2, <2>3 DEF TouchTypes, TouchStates
<1>4. Acquiring
  BY <1>1 DEF Acquiring
<1>5. OfTouch
  BY <1>1, TouchAssumption DEF OfTouch
<1>6. LastTold
  BY <1>1 DEF LastTold
<1>7. TouchTold
  BY <1>1, <1>4, <1>6 DEF Acquiring, LastTold, TouchTold
<1>8. QED  BY <1>3, <1>4, <1>5, <1>6, <1>7 DEF TouchInv

LEMMA TouchFollows == TouchInv => TouchTypeOK /\ TouchTold
<1> SUFFICES ASSUME TouchInv
             PROVE  TouchTypeOK /\ TouchTold
  OBVIOUS
<1>1. {adcDone, steady, selected, reported.pressed} \subseteq BOOLEAN
  BY DEF TouchInv, TouchTypes
<1>2. TouchTypeOK
  BY <1>1 DEF TouchInv, TouchTypes, TouchStates, OfTouch, TouchTypeOK
<1>3. QED  BY <1>2 DEF TouchInv

----------------------------------------------------------------------------
(* The theorems of the drivers *)

\* Between frames the window of X11 shows the pixels that LVGL drew, where lv_coord_t
\* has more than 16 bits; LVGL is told of every turn of the wheel over it once; and it
\* never stops reading with a key pressed.
THEOREM X11Correct == X11Spec => [](X11TypeOK /\ X11Told /\ X11Shows)
BY X11Begins, X11Keeps, X11Follows, PTL DEF X11Spec

\* Each byte typed in a window of SDL that found room is one key for LVGL, in order and
\* however the events and the reads alternate, and a byte of ASCII is the key it is
\* told of.  When LVGL has drawn a frame the window shows it, or, where it is the second
\* one of a double-buffered display or the last area was off the screen, has asked for a
\* refresh.
THEOREM SdlCorrect == SdlSpec => [](SdlTypeOK /\ TypedInOrder /\ SdlShows)
BY SdlBegins, SdlKeeps, SdlFollows, PTL DEF SdlSpec

\* After a call of the callback that no handler of GTK ran into, LVGL has what the
\* user did last, its parts of one event, whatever calls before it mixed up.
THEOREM GtkCorrect == GtkSpec => [](GtkTypeOK /\ GtkSettles)
BY GtkBegins, GtkKeeps, GtkFollows, PTL DEF GtkSpec

\* Where the lines of the device are those the driver computes, and the display is no
\* wider than the screen or a pixel has one bit, every pixel of the screen is as LVGL
\* drew it last, for every area and offset.
THEOREM FbCorrect == FbSpec => [](FbTypeOK /\ FbShows)
BY FbBegins, FbKeeps, FbFollows, PTL DEF FbSpec

\* LVGL takes no key of Win32, virtual or a character, for a new one more often than it
\* was queued, and each as often when it has popped all of them, in whatever order,
\* unless two presses were queued with no release between them: then one may be lost.
THEOREM Win32Correct == Win32Spec => [](Win32TypeOK /\ TypedOnce)
BY W32Begins, W32Keeps, W32Follows, PTL DEF Win32Spec

\* AD_touch measures a pen at rest where it is; each coordinate that XPT2046 reports of a
\* touch is between two it has measured in that touch; and whatever panel it is, a
\* release has the point that was pressed last.  How a measured point of AD_touch is
\* turned into one of the screen is not part of it.
THEOREM TouchCorrect == TouchSpec => [](TouchTypeOK /\ TouchTold)
BY TouchBegins, TouchKeeps, TouchFollows, PTL DEF TouchSpec

----------------------------------------------------------------------------
(* The programs *)

DriversInv ==
  /\ DInv /\ KInv /\ SdlInv /\ X11Inv /\ GtkInv /\ W32Inv /\ TouchInv /\ FbInv

LEMMA DriversBegin == DriversInit => DriversInv
<1> SUFFICES ASSUME DriversInit
             PROVE  DriversInv
  OBVIOUS
<1>1. /\ DrmInit /\ KernelInputInit /\ SdlInit /\ X11Init /\ GtkInit /\ Win32Init
      /\ TouchInit /\ FbInit
  BY DEF DriversInit
<1>2. DInv /\ KInv
  BY <1>1, DrmInitHolds, KernelInitially
<1>3. SdlInv /\ X11Inv /\ GtkInv /\ W32Inv /\ TouchInv /\ FbInv
  BY <1>1, SdlBegins, X11Begins, GtkBegins, W32Begins, TouchBegins, FbBegins
<1>4. QED  BY <1>2, <1>3 DEF DriversInv

\* A step of one program is a step of its driver, and none of the others.
LEMMA DriversStep ==
  ASSUME [DriversNext]_driversVars
  PROVE  /\ [DrmNext]_drmVars /\ [KernelInputNext]_kernelInputVars
         /\ [SdlNext]_sdlVars /\ [X11Next]_x11Vars /\ [GtkNext]_gtkVars
         /\ [Win32Next]_win32Vars /\ [TouchNext]_touchVars /\ [FbNext]_fbVars
<1>1. CASE UNCHANGED driversVars
  <2>1. UNCHANGED <<drmVars, kernelInputVars, sdlVars, x11Vars, gtkVars, win32Vars,
                    touchVars, fbVars>>
    BY <1>1 DEF driversVars
  <2>2. QED  BY <2>1
<1>2. CASE DriversNext
  BY <1>2 DEF DriversNext, SdlNext, X11Next, Win32Next
<1>3. QED  BY <1>1, <1>2

LEMMA DriversKeep == DriversInv /\ [DriversNext]_driversVars => DriversInv'
<1> SUFFICES ASSUME DriversInv, [DriversNext]_driversVars
             PROVE  DriversInv'
  OBVIOUS
<1>1. /\ [DrmNext]_drmVars /\ [KernelInputNext]_kernelInputVars
      /\ [SdlNext]_sdlVars /\ [X11Next]_x11Vars /\ [GtkNext]_gtkVars
      /\ [Win32Next]_win32Vars /\ [TouchNext]_touchVars /\ [FbNext]_fbVars
  BY DriversStep
<1>2. DInv' /\ KInv'
  BY <1>1, DrmNextKeeps, KernelStep DEF DriversInv
<1>3. SdlInv' /\ X11Inv' /\ GtkInv'
  BY <1>1, SdlKeeps, X11Keeps, GtkKeeps DEF DriversInv
<1>4. W32Inv' /\ TouchInv' /\ FbInv'
  BY <1>1, W32Keeps, TouchKeeps, FbKeeps DEF DriversInv
<1>5. QED  BY <1>2, <1>3, <1>4 DEF DriversInv

LEMMA DriversInvariance == DriversSpec => []DriversInv
BY DriversBegin, DriversKeep, PTL DEF DriversSpec

\* The variables of all the drivers have their types.
THEOREM DriversTypeCorrect == DriversSpec => []DriversTypeOK
<1>1. DriversInv => DriversTypeOK
  BY KernelTyped, SdlFollows, X11Follows, GtkFollows, W32Follows, TouchFollows, FbFollows
     DEF DriversInv, DInv, DriversTypeOK
<1>2. QED  BY <1>1, DriversInvariance, PTL

\* Whatever driver runs: the bytes typed in an SDL window that found room are told once
\* each and in order; after a GTK read that no handler ran into LVGL has the user's last
\* key, point and button; no turn of the wheel over an X11 window is lost; a pen at rest
\* is measured by AD_touch where it is, XPT2046 tells of coordinates of this touch, and
\* a release has the last point.  Nothing is said of a GTK read that a handler ran into,
\* nor of the point that AD_touch makes of a measurement.
THEOREM InputIsTold == DriversSpec => []InputTold
<1>1. DriversInv => InputTold
  BY SdlFollows, X11Follows, GtkFollows, TouchFollows DEF DriversInv, InputTold
<1>2. QED  BY <1>1, DriversInvariance, PTL

\* Whatever driver runs, a frame that has been flushed is on the screen, with the
\* exceptions of the four properties: Drm without direct mode may lack the areas of other
\* frames; SDL's second window that is double-buffered, and a window whose frame ended off
\* the screen, wait for the refresh they have asked for; X11 has not coordinates of 16
\* bits; and a frame buffer is no narrower than its areas, or has one bit a pixel, and no
\* lines padded otherwise than by whole pixels.
THEOREM ScreensDoShow == DriversSpec => []ScreensShow
<1>1. DriversInv => ScreensShow
  BY ShownWhole, SdlFollows, X11Follows, FbFollows DEF DriversInv, ScreensShow
<1>2. QED  BY <1>1, DriversInvariance, PTL

\* In the program of Win32, no key is typed more often than it was queued, and all are
\* typed as often when the queue has been emptied, unless two presses were queued with
\* no release between them.
THEOREM KeysTypedOnce == DriversSpec => []TypedOnce
<1>1. DriversInv => TypedOnce
  BY W32Follows DEF DriversInv
<1>2. QED  BY <1>1, DriversInvariance, PTL

============================================================================
