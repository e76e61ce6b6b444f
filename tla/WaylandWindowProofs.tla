------------------------- MODULE WaylandWindowProofs -------------------------
(***************************************************************************)
(* What holds of the windows of the Wayland driver, for every set of       *)
(* windows, decorations, sizes and faults.                                 *)
(***************************************************************************)
EXTENDS WaylandWindow, TLAPS, SequenceTheorems

\* The flags of a window and of its body.
Flags == [closed : BOOLEAN, shallClose : BOOLEAN, resizePending : BOOLEAN,
          flushPending : BOOLEAN, callback : BOOLEAN, fullscreen : BOOLEAN,
          configured : BOOLEAN, pending : BOOLEAN]

\* The output cycle is at a window of the list whenever it is in the middle
\* of one, and nowhere between cycles.
CycleOK ==
  /\ stage \in {"app", "down"} => at = 0
  /\ stage = "output" => at # 0
  /\ stage \in {"callback", "answered"} => at \in 1 .. Len(listed)

\* A size was asked for where a resize is pending, of a window with a display.
ResizeAsked ==
  \A w \in Windows :
    InList(w) /\ win[w].resizePending => asked[w] # 0 /\ drawn[w] # 0

FlaggedListed == \A w \in flagged : InList(w)

\* Only lv_wayland_deinit unlists a window that has had a display.
DrawnListed == stage # "down" => \A w \in Windows : drawn[w] # 0 => InList(w)

\* The graphic objects are those of the open windows, until the process uses
\* what is not there.
Furnished ==
  crash \in {"none", "stale_buffer"} =>
    \A o \in Objects : o \in alive <=> Open(o[1])

WInv ==
  /\ WindowTypeOK /\ CycleOK /\ ResizeAsked /\ FlaggedListed /\ DrawnListed
  /\ Furnished /\ StaysFlagged /\ DrawnAsSized

----------------------------------------------------------------------------
(* The list of windows and their objects *)

LEMMA ListAppend ==
  ASSUME NEW S, NEW s \in Seq(S), NEW x \in S
  PROVE  /\ Append(s, x) \in Seq(S)
         /\ Len(Append(s, x)) = Len(s) + 1
         /\ ToSet(Append(s, x)) = ToSet(s) \cup {x}
<1> DEFINE t == Append(s, x)
<1>1. /\ Len(s) \in Nat /\ DOMAIN s = 1 .. Len(s)
      /\ t \in Seq(S) /\ Len(t) = Len(s) + 1 /\ DOMAIN t = 1 .. (Len(s) + 1)
      /\ \A i \in 1 .. Len(s) : t[i] = s[i]
      /\ t[Len(s) + 1] = x
  BY AppendProperties, LenProperties
<1> HIDE DEF t
<1>2. 1 .. (Len(s) + 1) = (1 .. Len(s)) \cup {Len(s) + 1}
  BY <1>1
<1>3. ToSet(t) = ToSet(s) \cup {x}
  BY <1>1, <1>2 DEF ToSet
<1>4. QED  BY <1>1, <1>3 DEF t

LEMMA ListEmpty == ToSet(<<>>) = {}
  BY DEF ToSet

\* The window that the output cycle is at is listed.
LEMMA ThisListed ==
  ASSUME WindowTypeOK, CycleOK, stage \in {"output", "callback", "answered"},
         stage = "output" => Cycling
  PROVE  /\ at \in 1 .. Len(listed) /\ Len(listed) \in Nat
         /\ This \in Windows /\ InList(This)
<1>1. Len(listed) \in Nat /\ DOMAIN listed = 1 .. Len(listed)
  BY LenProperties DEF WindowTypeOK
<1>2. at \in 1 .. Len(listed)
  BY <1>1 DEF WindowTypeOK, CycleOK, Cycling
<1>3. listed[at] \in Windows /\ listed[at] \in ToSet(listed)
  BY <1>1, <1>2, ElementOfSeq DEF ToSet, WindowTypeOK
<1>4. QED  BY <1>1, <1>2, <1>3 DEF This, InList

\* destroy_window takes the objects of its windows and no others.
LEMMA Destroyed ==
  ASSUME NEW ws \in SUBSET Windows, NEW o \in Objects
  PROVE  /\ o \in UNION {{Body(w)} \cup Decos(w) : w \in ws} <=> o[1] \in ws
         /\ o[1] \in Windows
  BY DEF Body, Decos, Objects

----------------------------------------------------------------------------
(* Steps that only set flags *)

\* The types of what a handler may change without opening or closing, resizing
\* or destroying a window.
FlagTypes ==
  /\ win \in [Windows -> Flags] /\ asked \in [Windows -> Nat]
  /\ flagged \subseteq Windows
  /\ refused \in BOOLEAN /\ cursorFlush \in BOOLEAN /\ shallFlush \in BOOLEAN
  /\ stage \in {"app", "output", "callback", "answered", "down"}
  /\ at \in 0 .. (Len(listed) + 1)
  /\ crash \in {"none", "decoration", "destroyed", "stale_buffer", "no_devices",
                "stale_focus"}

\* Such a step: it leaves no resize without a size, and no window that it takes
\* from flush_pending with requests unsent.
FlagStep ==
  /\ UNCHANGED <<listed, size, drawn, alive, bare>>
  /\ Running
  /\ \A w \in Windows :
       /\ win'[w].closed = win[w].closed
       /\ win'[w].resizePending =>
            \/ win[w].resizePending /\ asked'[w] = asked[w]
            \/ Open(w) /\ asked'[w] # 0
       /\ win[w].resizePending => win'[w].resizePending
  /\ \A w \in flagged' :
       \/ InList(w) /\ win'[w].flushPending
       \/ w \in flagged /\ (win[w].flushPending => win'[w].flushPending)

LEMMA TypeParts ==
  WindowTypeOK <=> /\ FlagTypes /\ listed \in Seq(Windows)
                   /\ size \in [Windows -> Nat] /\ drawn \in [Windows -> Nat]
                   /\ alive \subseteq Objects /\ bare \subseteq alive
  BY DEF WindowTypeOK, FlagTypes, Flags

LEMMA TypePartsNext ==
  WindowTypeOK' <=> /\ FlagTypes' /\ listed' \in Seq(Windows)
                    /\ size' \in [Windows -> Nat] /\ drawn' \in [Windows -> Nat]
                    /\ alive' \subseteq Objects /\ bare' \subseteq alive'
  BY DEF WindowTypeOK, FlagTypes, Flags

LEMMA FlagsKeep ==
  ASSUME WInv, FlagStep, FlagTypes', CycleOK'
  PROVE  WInv'
<1>1. \A w \in Windows : /\ InList(w)' <=> InList(w)
                         /\ Open(w)' <=> Open(w)
  BY DEF FlagStep, Open, Registered, InList
<1>2. WindowTypeOK'
  BY TypeParts, TypePartsNext DEF WInv, FlagStep
<1>3. ResizeAsked'
  BY <1>1 DEF WInv, FlagStep, ResizeAsked, Open, Registered
<1>4. FlaggedListed' /\ StaysFlagged'
  <2>1. flagged' \subseteq Windows
    BY DEF FlagTypes
  <2>2. QED  BY <1>1, <2>1 DEF WInv, FlagStep, FlaggedListed, StaysFlagged
<1>5. Furnished'
  <2>1. \A o \in Objects : o[1] \in Windows
    BY DEF Objects
  <2>2. QED  BY <1>1, <2>1 DEF WInv, FlagStep, Furnished, Running
<1>6. DrawnAsSized'
  BY <1>1 DEF WInv, FlagStep, DrawnAsSized
<1>7. DrawnListed'
  BY <1>1 DEF WInv, FlagStep, DrawnListed, Running
<1>8. QED  BY <1>2, <1>3, <1>4, <1>5, <1>6, <1>7 DEF WInv

\* One that sets flags of a window alone, but for those of a pending resize and
\* of a closed window.
Sets(w, f) ==
  /\ f \in Flags /\ f.closed = win[w].closed
  /\ f.resizePending = win[w].resizePending
  /\ win' = [win EXCEPT ![w] = f]
  /\ \/ flagged' = flagged \cup {w} /\ InList(w) /\ f.flushPending
     \/ flagged' = flagged /\ (win[w].flushPending => f.flushPending)
  /\ UNCHANGED <<listed, size, asked, drawn, alive, bare, refused, cursorFlush,
                 stage, at, shallFlush, crash>>

LEMMA SetsFlags ==
  ASSUME FlagTypes, CycleOK, Running, NEW w \in Windows, NEW f, Sets(w, f)
  PROVE  FlagTypes' /\ FlagStep /\ CycleOK'
<1>1. /\ f \in Flags /\ win \in [Windows -> Flags] /\ win' = [win EXCEPT ![w] = f]
      /\ flagged' \in {flagged, flagged \cup {w}}
      /\ f.closed = win[w].closed /\ f.resizePending = win[w].resizePending
      /\ UNCHANGED <<listed, size, asked, drawn, alive, bare, refused, cursorFlush,
                     stage, at, shallFlush, crash>>
  BY DEF FlagTypes, Sets
<1>2. win' \in [Windows -> Flags]
  BY <1>1
<1>3. win'[w] = f /\ \A v \in Windows : v # w => win'[v] = win[v]
  BY <1>1
<1>4. FlagTypes'
  BY <1>1, <1>2 DEF FlagTypes
<1>5. CycleOK'
  BY <1>1 DEF CycleOK
<1>6. FlagStep
  <2>1. \A v \in Windows :
          win'[v].closed = win[v].closed /\ win'[v].resizePending = win[v].resizePending
    BY <1>1, <1>3
  <2>2. \A v \in flagged' :
          \/ InList(v) /\ win'[v].flushPending
          \/ v \in flagged /\ (win[v].flushPending => win'[v].flushPending)
    <3>1. flagged \subseteq Windows
      BY DEF FlagTypes
    <3>2. CASE flagged' = flagged \cup {w} /\ InList(w) /\ f.flushPending
      BY <1>3, <3>1, <3>2
    <3>3. CASE flagged' = flagged /\ (win[w].flushPending => f.flushPending)
      BY <1>3, <3>1, <3>3
    <3>4. QED  BY <3>2, <3>3 DEF Sets
  <2>3. QED  BY <1>1, <2>1, <2>2 DEF FlagStep
<1>7. QED  BY <1>4, <1>5, <1>6

\* The application's calls and the compositor's events that only set flags.
LEMMA EventKeeps ==
  ASSUME WInv, Running, NEW w \in Windows,
         \/ \E sz \in Sizes[w] : ToplevelConfigure(w, sz)
         \/ \E on \in BOOLEAN : SetFullscreen(w, on)
         \/ CloseWindow(w) \/ SurfaceConfigure(w) \/ ToplevelClose(w) \/ SetCursor(w)
         \/ FlushFrame(w) \/ FlushSkipped(w) \/ FlushClosed(w)
  PROVE  WInv'
<1> DEFINE Goal == FlagTypes' /\ FlagStep /\ CycleOK'
<1> SUFFICES Goal
  BY FlagsKeep
<1> USE DEF sizeVars, objectVars, sendVars, cycleVars
<1>1. FlagTypes /\ CycleOK
  BY TypeParts DEF WInv
<1>2. ASSUME NEW sz \in Sizes[w], ToplevelConfigure(w, sz)
      PROVE  Goal
  <2>1. sz \in Nat /\ sz # 0
    BY SizesAssumption
  <2>2. QED
    BY <1>1, <1>2, <2>1 DEF FlagTypes, Flags, FlagStep, CycleOK, ToplevelConfigure
<1> DEFINE old == win[w]
<1>0. old \in Flags
  BY <1>1 DEF FlagTypes, Flags
<1>3. ASSUME NEW on \in BOOLEAN, SetFullscreen(w, on)
      PROVE  Goal
  <2>1. Sets(w, [old EXCEPT !.fullscreen = on, !.flushPending = TRUE])
    BY <1>0, <1>1, <1>3 DEF SetFullscreen, Sets, Open, Registered, FlagTypes, Flags
  <2>2. QED  BY <1>1, <2>1, SetsFlags
<1>4. CASE CloseWindow(w)
  <2>1. Sets(w, [old EXCEPT !.shallClose = TRUE, !.callback = FALSE])
    BY <1>0, <1>1, <1>4 DEF CloseWindow, Sets, FlagTypes, Flags
  <2>2. QED  BY <1>1, <2>1, SetsFlags
<1>5. CASE SurfaceConfigure(w)
  <2>1. CASE ~old.configured /\ old.pending
    <3>1. Sets(w, [old EXCEPT !.configured = TRUE, !.pending = FALSE,
                              !.flushPending = TRUE])
      BY <1>0, <1>1, <1>5, <2>1
         DEF SurfaceConfigure, Sets, Open, Registered, FlagTypes, Flags
    <3>2. QED  BY <1>1, <3>1, SetsFlags
  <2>2. CASE ~(~old.configured /\ old.pending)
    <3>1. Sets(w, [old EXCEPT !.configured = TRUE])
      BY <1>0, <1>1, <1>5, <2>2 DEF SurfaceConfigure, Sets, FlagTypes, Flags
    <3>2. QED  BY <1>1, <3>1, SetsFlags
  <2>3. QED  BY <2>1, <2>2
<1>6. CASE ToplevelClose(w)
  <2>1. Sets(w, [old EXCEPT !.shallClose = TRUE])
    BY <1>0, <1>1, <1>6 DEF ToplevelClose, Sets, FlagTypes, Flags
  <2>2. QED  BY <1>1, <2>1, SetsFlags
<1>7. CASE SetCursor(w)
  BY <1>1, <1>7 DEF FlagTypes, Flags, FlagStep, CycleOK, SetCursor
<1>8. CASE FlushFrame(w)
  <2>1. Sets(w, [old EXCEPT !.pending = ~old.configured, !.flushPending = TRUE])
    BY <1>0, <1>1, <1>8 DEF FlushFrame, Sets, Open, Registered, FlagTypes, Flags
  <2>2. QED  BY <1>1, <2>1, SetsFlags
<1>9. CASE FlushSkipped(w)
  <2>1. Sets(w, [old EXCEPT !.pending = FALSE])
    BY <1>0, <1>1, <1>9 DEF FlushSkipped, Sets, FlagTypes, Flags
  <2>2. QED  BY <1>1, <2>1, SetsFlags
<1>10. CASE FlushClosed(w)
  BY <1>1, <1>10 DEF FlagTypes, Flags, FlagStep, CycleOK, FlushClosed
<1> HIDE DEF Goal
<1>11. QED
  BY <1>2, <1>3, <1>4, <1>5, <1>6, <1>7, <1>8, <1>9, <1>10

\* The steps of the output cycle that go on without touching a window, and the
\* answer of a close_cb.
LEMMA CycleKeeps ==
  ASSUME WInv, Running,
         \/ BeginOutput \/ AskClose \/ \E yes \in BOOLEAN : AnswerClose(yes)
         \/ PassClosed \/ PassOpen \/ NoFlush \/ FlushFails
  PROVE  WInv'
<1> DEFINE Goal == FlagTypes' /\ FlagStep /\ CycleOK'
<1> SUFFICES Goal
  BY FlagsKeep
<1> USE DEF sizeVars, objectVars, sendVars, cycleVars
<1>1. FlagTypes /\ CycleOK /\ Len(listed) \in Nat
  BY TypeParts, LenProperties DEF WInv
<1>2. CASE BeginOutput
  BY <1>1, <1>2 DEF FlagTypes, Flags, FlagStep, CycleOK, BeginOutput
<1>3. CASE AskClose
  BY <1>1, <1>3 DEF FlagTypes, Flags, FlagStep, CycleOK, AskClose, Cycling
<1>4. ASSUME NEW yes \in BOOLEAN, AnswerClose(yes)
      PROVE  Goal
  <2>1. This \in Windows
    BY <1>4, ThisListed DEF WInv, AnswerClose
  <2>2. QED
    BY <1>1, <1>4, <2>1 DEF FlagTypes, Flags, FlagStep, CycleOK, AnswerClose
<1>5. CASE PassClosed
  BY <1>1, <1>5 DEF FlagTypes, Flags, FlagStep, CycleOK, PassClosed, Deciding,
                    Cycling, Advance
<1>6. CASE PassOpen
  <2>1. This \in Windows
    BY <1>6, ThisListed DEF WInv, PassOpen, Deciding
  <2>2. QED
    BY <1>1, <1>6, <2>1 DEF FlagTypes, Flags, FlagStep, CycleOK, PassOpen, Deciding,
                            Cycling, Advance
<1>7. CASE NoFlush \/ FlushFails
  <2>1. /\ stage' = "app" /\ at' = 0 /\ shallFlush' = FALSE
        /\ UNCHANGED <<listed, win, size, asked, drawn, alive, bare, flagged,
                        cursorFlush, crash>>
        /\ refused' \in {refused, TRUE}
    BY <1>7 DEF NoFlush, FlushFails, EndCycle
  <2>2. 0 \in 0 .. (Len(listed) + 1)
    BY <1>1
  <2>3. FlagTypes' /\ CycleOK'
    BY <1>1, <2>1, <2>2 DEF FlagTypes, CycleOK
  <2>4. FlagStep
    BY <1>1, <2>1 DEF FlagTypes, FlagStep
  <2>5. QED  BY <2>3, <2>4
<1> HIDE DEF Goal
<1>8. QED  BY <1>2, <1>3, <1>4, <1>5, <1>6, <1>7

----------------------------------------------------------------------------
(* Steps that open windows *)

\* A new window is the last of the list, and leaves the others as they are.
LEMMA Listing ==
  ASSUME WindowTypeOK, NEW w \in Windows, listed' = Append(listed, w)
  PROVE  /\ listed' \in Seq(Windows) /\ Len(listed') = Len(listed) + 1
         /\ Len(listed) \in Nat
         /\ \A v \in Windows : InList(v)' <=> InList(v) \/ v = w
<1>1. listed \in Seq(Windows)
  BY DEF WindowTypeOK
<1>2. ToSet(listed') = ToSet(listed) \cup {w}
  BY <1>1, ListAppend
<1>3. QED  BY <1>1, <1>2, ListAppend, LenProperties DEF InList

LEMMA CreateWindowKeeps ==
  ASSUME WInv, Running, NEW w \in Windows, NEW sz \in Sizes[w], CreateWindow(w, sz)
  PROVE  WInv'
<1>1. PICK missing \in SUBSET Decos(w), lost \in SUBSET Decos(w) :
        /\ alive' = alive \cup {Body(w)} \cup (Decos(w) \ missing)
        /\ bare' = bare \cup (lost \ missing)
        /\ crash' = IF missing # {} THEN "decoration" ELSE crash
  BY DEF CreateWindow
<1>2. /\ ~InList(w) /\ AppRuns
      /\ listed' = Append(listed, w)
      /\ win' = [win EXCEPT ![w] = NewWindow]
      /\ size' = [size EXCEPT ![w] = sz]
      /\ asked' = [asked EXCEPT ![w] = 0]
      /\ drawn' = [drawn EXCEPT ![w] = sz]
      /\ UNCHANGED <<flagged, refused, cursorFlush, cycleVars>>
  BY DEF CreateWindow
<1>3. sz \in Nat /\ sz # 0
  BY SizesAssumption
<1>4. /\ listed' \in Seq(Windows) /\ Len(listed') = Len(listed) + 1
      /\ Len(listed) \in Nat
      /\ \A v \in Windows : InList(v)' <=> InList(v) \/ v = w
  BY <1>2, Listing DEF WInv
<1>5. /\ FlagTypes /\ size \in [Windows -> Nat] /\ drawn \in [Windows -> Nat]
      /\ alive \subseteq Objects /\ bare \subseteq alive
  BY TypeParts DEF WInv
<1>6. \A o \in Objects : o[1] \in Windows /\ (o \in {Body(w)} \cup Decos(w) <=> o[1] = w)
  BY DEF Objects, Body, Decos
<1>7. /\ Open(w)' /\ ~Open(w)
      /\ \A v \in Windows : v # w => (Open(v)' <=> Open(v))
  BY <1>2, <1>3, <1>4, <1>5 DEF Open, Registered, NewWindow, FlagTypes, Flags
<1>8. WindowTypeOK'
  <2>1. FlagTypes'
    <3>1. NewWindow \in Flags
      BY DEF NewWindow, Flags
    <3>2. at \in 0 .. (Len(listed') + 1)
      BY <1>4, <1>5 DEF FlagTypes
    <3>3. QED  BY <1>1, <1>2, <1>5, <3>1, <3>2 DEF FlagTypes, cycleVars
  <2>2. size' \in [Windows -> Nat] /\ drawn' \in [Windows -> Nat]
    BY <1>2, <1>3, <1>5
  <2>3. alive' \subseteq Objects /\ bare' \subseteq alive'
    <3>1. {Body(w)} \cup Decos(w) \subseteq Objects
      BY DEF Body, Decos, Objects
    <3>2. QED  BY <1>1, <1>5, <3>1
  <2>4. QED  BY <1>4, <2>1, <2>2, <2>3, TypePartsNext
<1>9. CycleOK'
  BY <1>2, <1>4 DEF WInv, CycleOK, cycleVars
<1>10. ResizeAsked' /\ DrawnAsSized'
  <2>1. ~win'[w].resizePending /\ drawn'[w] = size'[w]
    BY <1>2, <1>5 DEF NewWindow, FlagTypes, Flags
  <2>2. \A v \in Windows : v # w => /\ win'[v] = win[v] /\ asked'[v] = asked[v]
                                    /\ drawn'[v] = drawn[v] /\ size'[v] = size[v]
    BY <1>2, <1>5 DEF FlagTypes
  <2>3. QED  BY <1>4, <1>7, <2>1, <2>2 DEF WInv, ResizeAsked, DrawnAsSized
<1>11. FlaggedListed' /\ StaysFlagged'
  <2>1. flagged' = flagged /\ \A v \in flagged : v \in Windows /\ v # w
    BY <1>2, <1>5 DEF WInv, FlaggedListed, FlagTypes
  <2>2. \A v \in flagged : win'[v] = win[v]
    BY <1>2, <1>5, <2>1 DEF FlagTypes
  <2>3. QED  BY <1>4, <1>7, <2>1, <2>2 DEF WInv, FlaggedListed, StaysFlagged
<1>12. DrawnListed'
  BY <1>2, <1>4, <1>5 DEF WInv, DrawnListed, cycleVars
<1>13. Furnished'
  <2>1. CASE missing = {}
    <3>1. \A o \in Objects : o \in alive' <=> o \in alive \/ o[1] = w
      BY <1>1, <1>6, <2>1
    <3>2. QED  BY <1>1, <1>6, <1>7, <2>1, <3>1 DEF WInv, Furnished
  <2>2. CASE missing # {}
    BY <1>1, <2>2 DEF Furnished
  <2>3. QED  BY <2>1, <2>2
<1>14. QED  BY <1>8, <1>9, <1>10, <1>11, <1>12, <1>13 DEF WInv

LEMMA CreateUndoneKeeps ==
  ASSUME WInv, Running, NEW w \in Windows, NEW sz \in Sizes[w], CreateUndone(w, sz)
  PROVE  WInv'
<1>1. /\ ~InList(w) /\ AppRuns
      /\ listed' = Append(listed, w)
      /\ win' = [win EXCEPT ![w] = NewWindow]
      /\ size' = [size EXCEPT ![w] = sz]
      /\ asked' = [asked EXCEPT ![w] = 0]
      /\ UNCHANGED <<drawn, alive, bare, flagged, refused, cursorFlush, stage, at,
                     shallFlush, crash>>
  BY DEF CreateUndone, objectVars, cycleVars
<1>2. sz \in Nat /\ sz # 0
  BY SizesAssumption
<1>3. /\ listed' \in Seq(Windows) /\ Len(listed') = Len(listed) + 1
      /\ Len(listed) \in Nat
      /\ \A v \in Windows : InList(v)' <=> InList(v) \/ v = w
  BY <1>1, Listing DEF WInv
<1>4. /\ FlagTypes /\ size \in [Windows -> Nat] /\ drawn \in [Windows -> Nat]
      /\ alive \subseteq Objects /\ bare \subseteq alive
  BY TypeParts DEF WInv
<1>5. drawn[w] = 0 /\ ~win'[w].resizePending
  BY <1>1, <1>4 DEF WInv, DrawnListed, Running, NewWindow, FlagTypes, Flags
<1>6. \A v \in Windows : v # w => /\ win'[v] = win[v] /\ asked'[v] = asked[v]
                                  /\ size'[v] = size[v]
  BY <1>1, <1>4 DEF FlagTypes
<1>7. \A v \in Windows : Open(v)' <=> Open(v)
  BY <1>1, <1>3, <1>4, <1>5, <1>6 DEF Open, Registered
<1>8. WindowTypeOK'
  <2>1. NewWindow \in Flags
    BY DEF NewWindow, Flags
  <2>2. at \in 0 .. (Len(listed') + 1)
    BY <1>3, <1>4 DEF FlagTypes
  <2>3. FlagTypes'
    BY <1>1, <1>4, <2>1, <2>2 DEF FlagTypes
  <2>4. size' \in [Windows -> Nat]
    BY <1>1, <1>2, <1>4
  <2>5. QED  BY <1>1, <1>3, <1>4, <2>3, <2>4, TypePartsNext
<1>9. CycleOK'
  BY <1>1, <1>3 DEF WInv, CycleOK
<1>10. ResizeAsked' /\ DrawnAsSized'
  <2>1. ~Open(w)
    BY <1>1 DEF Open, Registered
  <2>2. QED
    BY <1>1, <1>3, <1>5, <1>6, <1>7, <2>1 DEF WInv, ResizeAsked, DrawnAsSized
<1>11. FlaggedListed' /\ StaysFlagged'
  <2>1. flagged' = flagged /\ \A v \in flagged : v \in Windows /\ v # w
    BY <1>1, <1>4 DEF WInv, FlaggedListed, FlagTypes
  <2>2. QED  BY <1>3, <1>6, <1>7, <2>1 DEF WInv, FlaggedListed, StaysFlagged
<1>12. DrawnListed'
  BY <1>1, <1>3 DEF WInv, DrawnListed
<1>13. Furnished'
  <2>1. \A o \in Objects : o[1] \in Windows
    BY DEF Objects
  <2>2. QED  BY <1>1, <1>7, <2>1 DEF WInv, Furnished
<1>14. QED  BY <1>8, <1>9, <1>10, <1>11, <1>12, <1>13 DEF WInv

----------------------------------------------------------------------------
(* Steps that resize, close and flush windows *)

\* What the output cycle does to its window leaves the others as they are.
LEMMA OutputKeeps ==
  ASSUME WInv, Running, Deciding, ~win[This].closed, ResizeNow \/ ResizeFails
  PROVE  WInv'
<1> DEFINE w == This
<1>1. /\ w \in Windows /\ InList(w) /\ at \in 1 .. Len(listed) /\ Len(listed) \in Nat
  BY ThisListed DEF WInv, Deciding
<1>2. PICK lost \in SUBSET Decos(w) :
        /\ bare' \in {bare, bare \cup lost}
        /\ crash' \in {crash, "decoration"}
  BY DEF ResizeNow, ResizeFails, Redecorate
<1>3. /\ win[w].resizePending
      /\ size' = [size EXCEPT ![w] = asked[w]]
      /\ \/ /\ drawn' = [drawn EXCEPT ![w] = asked[w]]
            /\ win' = [win EXCEPT ![w].resizePending = FALSE]
         \/ UNCHANGED <<drawn, win>>
      /\ at' = at + 1 /\ stage' = "output" /\ shallFlush' \in {TRUE, shallFlush \/ win[w].flushPending}
      /\ UNCHANGED <<listed, asked, alive, flagged, refused, cursorFlush>>
  BY DEF ResizeNow, ResizeFails, Advance
<1> HIDE DEF w
<1>4. /\ FlagTypes /\ size \in [Windows -> Nat] /\ drawn \in [Windows -> Nat]
      /\ alive \subseteq Objects /\ bare \subseteq alive
      /\ listed \in Seq(Windows)
  BY TypeParts DEF WInv
<1>5. asked[w] \in Nat /\ asked[w] # 0 /\ drawn[w] # 0
  BY <1>1, <1>3, <1>4 DEF WInv, ResizeAsked, FlagTypes
<1>6. \A v \in Windows : InList(v)' <=> InList(v)
  BY <1>3 DEF InList
<1>7. /\ \A v \in Windows : /\ drawn'[v] # 0 <=> drawn[v] # 0
                            /\ win'[v].closed = win[v].closed
                            /\ win'[v].flushPending = win[v].flushPending
                            /\ win'[v].resizePending => win[v].resizePending
      /\ win' \in [Windows -> Flags]
  <2>1. CASE UNCHANGED <<drawn, win>>
    BY <1>4, <2>1 DEF FlagTypes
  <2>2. CASE /\ drawn' = [drawn EXCEPT ![w] = asked[w]]
             /\ win' = [win EXCEPT ![w].resizePending = FALSE]
    <3>1. \A v \in Windows : drawn'[v] # 0 <=> drawn[v] # 0
      BY <1>1, <1>4, <1>5, <2>2
    <3>2. \A v \in Windows : /\ win'[v].closed = win[v].closed
                             /\ win'[v].flushPending = win[v].flushPending
                             /\ win'[v].resizePending => win[v].resizePending
      BY <1>1, <1>4, <2>2 DEF FlagTypes, Flags
    <3>3. win' \in [Windows -> Flags]
      BY <1>1, <1>4, <2>2 DEF FlagTypes, Flags
    <3>4. QED  BY <3>1, <3>2, <3>3
  <2>3. QED  BY <1>3, <2>1, <2>2
<1>8. \A v \in Windows : Open(v)' <=> Open(v)
  <2>1. \A v \in Windows : drawn'[v] # 0 <=> drawn[v] # 0
    BY <1>7
  <2>2. \A v \in Windows : win'[v].closed = win[v].closed
    BY <1>7
  <2>3. QED  BY <1>6, <2>1, <2>2 DEF Open, Registered
<1>9. Decos(w) \subseteq alive
  <2>1. Open(w) /\ crash = "none"
    BY <1>1, <1>5 DEF Open, Registered, Running, w
  <2>2. \A o \in Decos(w) : o \in Objects /\ o[1] = w
    BY <1>1 DEF Decos, Objects
  <2>3. QED  BY <2>1, <2>2 DEF WInv, Furnished
<1>10. WindowTypeOK'
  <2>1. win' \in [Windows -> Flags] /\ shallFlush' \in BOOLEAN
    <3>1. shallFlush \in BOOLEAN /\ win[w].flushPending \in BOOLEAN
      BY <1>1, <1>4 DEF FlagTypes, Flags
    <3>2. QED  BY <1>3, <1>7, <3>1
  <2>2. at' \in 0 .. (Len(listed') + 1)
    BY <1>1, <1>3
  <2>3. FlagTypes'
    BY <1>2, <1>3, <1>4, <2>1, <2>2 DEF FlagTypes
  <2>4. size' \in [Windows -> Nat] /\ drawn' \in [Windows -> Nat]
    BY <1>3, <1>4, <1>5
  <2>5. QED  BY <1>2, <1>3, <1>4, <1>9, <2>3, <2>4, TypePartsNext
<1>11. CycleOK'
  BY <1>1, <1>3 DEF CycleOK
<1>12. ResizeAsked'
  BY <1>3, <1>6, <1>7 DEF WInv, ResizeAsked
<1>13. FlaggedListed' /\ StaysFlagged'
  <2>1. flagged' = flagged /\ flagged \subseteq Windows
    BY <1>3, <1>4 DEF FlagTypes
  <2>2. \A v \in Windows : win'[v].flushPending = win[v].flushPending
    BY <1>7
  <2>3. QED  BY <1>6, <1>8, <2>1, <2>2 DEF WInv, FlaggedListed, StaysFlagged
<1>14. DrawnListed'
  BY <1>6, <1>7 DEF WInv, DrawnListed, Running
<1>15. Furnished'
  <2>1. \A o \in Objects : o[1] \in Windows
    BY DEF Objects
  <2>2. QED  BY <1>3, <1>8, <2>1 DEF WInv, Furnished, Running
<1>16. DrawnAsSized'
  <2>1. CASE drawn' = [drawn EXCEPT ![w] = asked[w]] /\ win' = [win EXCEPT ![w].resizePending = FALSE]
    BY <1>1, <1>3, <1>4, <1>8, <2>1 DEF WInv, DrawnAsSized, FlagTypes, Flags
  <2>2. CASE UNCHANGED <<drawn, win>>
    BY <1>1, <1>3, <1>4, <1>8, <2>2 DEF WInv, DrawnAsSized
  <2>3. QED  BY <1>3, <2>1, <2>2
<1>17. QED  BY <1>10, <1>11, <1>12, <1>13, <1>14, <1>15, <1>16 DEF WInv

LEMMA CloseNowKeeps ==
  ASSUME WInv, Running, CloseNow
  PROVE  WInv'
<1> DEFINE w == This
           objs == UNION {{Body(v)} \cup Decos(v) : v \in {w}}
<1>1. /\ w \in Windows /\ InList(w) /\ at \in 1 .. Len(listed) /\ Len(listed) \in Nat
  BY ThisListed DEF WInv, CloseNow, Deciding
<1>2. /\ win' = [win EXCEPT ![w].closed = TRUE, ![w].shallClose = FALSE]
      /\ alive' = alive \ objs /\ bare' = bare \ objs
      /\ crash' \in {crash, "destroyed"}
      /\ at' = at + 1 /\ stage' = "output" /\ shallFlush' = TRUE
      /\ UNCHANGED <<listed, size, asked, drawn, flagged, refused, cursorFlush>>
  BY DEF CloseNow, DestroyObjects, Advance, sizeVars
<1>3. \A o \in Objects : o[1] \in Windows /\ (o \in objs <=> o[1] = w)
  BY <1>1 DEF Objects, Body, Decos
<1> HIDE DEF w, objs
<1>4. /\ FlagTypes /\ size \in [Windows -> Nat] /\ drawn \in [Windows -> Nat]
      /\ alive \subseteq Objects /\ bare \subseteq alive
      /\ listed \in Seq(Windows)
  BY TypeParts DEF WInv
<1>5. \A v \in Windows : /\ win'[v].resizePending = win[v].resizePending
                         /\ win'[v].flushPending = win[v].flushPending
                         /\ v # w => win'[v].closed = win[v].closed
                         /\ win'[w].closed
  BY <1>1, <1>2, <1>4 DEF FlagTypes, Flags
<1>6. \A v \in Windows : /\ InList(v)' <=> InList(v)
                         /\ Open(v)' <=> Open(v) /\ v # w
  BY <1>2, <1>5 DEF Open, Registered, InList
<1>7. WindowTypeOK'
  <2>1. win' \in [Windows -> Flags] /\ shallFlush' \in BOOLEAN
    BY <1>1, <1>2, <1>4 DEF FlagTypes, Flags
  <2>2. at' \in 0 .. (Len(listed') + 1)
    BY <1>1, <1>2
  <2>3. FlagTypes'
    BY <1>2, <1>4, <2>1, <2>2 DEF FlagTypes
  <2>4. QED  BY <1>2, <1>4, <2>3, TypePartsNext
<1>8. CycleOK'
  BY <1>1, <1>2 DEF CycleOK
<1>9. ResizeAsked' /\ DrawnAsSized'
  BY <1>2, <1>5, <1>6 DEF WInv, ResizeAsked, DrawnAsSized
<1>10. FlaggedListed' /\ StaysFlagged'
  <2>1. flagged' = flagged /\ flagged \subseteq Windows
    BY <1>2, <1>4 DEF FlagTypes
  <2>2. QED  BY <1>5, <1>6, <2>1 DEF WInv, FlaggedListed, StaysFlagged
<1>11. DrawnListed'
  BY <1>2, <1>6 DEF WInv, DrawnListed, Running
<1>12. Furnished'
  BY <1>2, <1>3, <1>6 DEF WInv, Furnished, Running
<1>13. QED  BY <1>7, <1>8, <1>9, <1>10, <1>11, <1>12 DEF WInv

LEMMA FlushSentKeeps ==
  ASSUME WInv, Running, FlushSent
  PROVE  WInv'
<1>1. /\ win' = [w \in Windows |->
                   IF InList(w) THEN [win[w] EXCEPT !.flushPending = FALSE]
                                ELSE win[w]]
      /\ flagged' = {} /\ refused' = FALSE /\ cursorFlush' = FALSE
      /\ stage' = "app" /\ at' = 0 /\ shallFlush' = FALSE
      /\ UNCHANGED <<listed, size, asked, drawn, alive, bare, crash>>
  BY DEF FlushSent, EndCycle, sizeVars, objectVars
<1>2. FlagTypes /\ Len(listed) \in Nat
  BY TypeParts, LenProperties DEF WInv
<1>3. \A w \in Windows : /\ win'[w] \in Flags
                         /\ win'[w].closed = win[w].closed
                         /\ win'[w].resizePending = win[w].resizePending
  BY <1>1, <1>2 DEF FlagTypes, Flags
<1>4. win' \in [Windows -> Flags]
  BY <1>1, <1>3
<1>5. FlagTypes' /\ CycleOK'
  <2>1. 0 \in 0 .. (Len(listed) + 1)
    BY <1>2
  <2>2. QED  BY <1>1, <1>2, <1>4, <2>1 DEF FlagTypes, CycleOK
<1>6. FlagStep
  BY <1>1, <1>2, <1>3 DEF FlagStep, FlagTypes
<1>7. QED  BY <1>5, <1>6, FlagsKeep

LEMMA DeinitKeeps ==
  ASSUME WInv, Running, Deinit
  PROVE  WInv'
<1> DEFINE ws == {w \in ToSet(listed) : ~win[w].closed}
           objs == UNION {{Body(w)} \cup Decos(w) : w \in ws}
<1>1. /\ alive' = alive \ objs /\ bare' = bare \ objs
      /\ crash' \in {crash, "destroyed"}
      /\ listed' = <<>> /\ flagged' = {} /\ stage' = "down" /\ stage = "app"
      /\ UNCHANGED <<win, size, asked, drawn, refused, cursorFlush, at, shallFlush>>
  BY DEF Deinit, DestroyObjects, sizeVars
<1>2. /\ FlagTypes /\ size \in [Windows -> Nat] /\ drawn \in [Windows -> Nat]
      /\ alive \subseteq Objects /\ bare \subseteq alive
      /\ listed \in Seq(Windows)
  BY TypeParts DEF WInv
<1>3. \A o \in Objects : o[1] \in Windows /\ (Open(o[1]) => o \in objs)
  BY DEF Objects, Open, Registered, InList, Body, Decos
<1> HIDE DEF ws, objs
<1>4. \A w \in Windows : ~InList(w)' /\ ~Open(w)'
  BY <1>1, ListEmpty DEF InList, Open, Registered
<1>5. at = 0 /\ <<>> \in Seq(Windows) /\ Len(<<>>) = 0
  BY <1>1 DEF WInv, CycleOK
<1>6. WindowTypeOK'
  <2>1. FlagTypes'
    BY <1>1, <1>2, <1>5 DEF FlagTypes
  <2>2. QED  BY <1>1, <1>2, <1>5, <2>1, TypePartsNext
<1>7. CycleOK' /\ DrawnListed'
  BY <1>1, <1>5 DEF CycleOK, DrawnListed
<1>8. ResizeAsked' /\ DrawnAsSized'
  BY <1>4 DEF ResizeAsked, DrawnAsSized
<1>9. FlaggedListed' /\ StaysFlagged'
  BY <1>1 DEF FlaggedListed, StaysFlagged
<1>10. Furnished'
  BY <1>1, <1>2, <1>3, <1>4 DEF WInv, Furnished, Running
<1>11. QED  BY <1>6, <1>7, <1>8, <1>9, <1>10 DEF WInv

----------------------------------------------------------------------------
(* The theorems *)

LEMMA WindowInitHolds ==
  ASSUME WindowInit
  PROVE  WInv
<1> USE DEF WindowInit
<1>1. \A w \in Windows : ~InList(w) /\ ~Open(w)
  BY ListEmpty DEF InList, Open, Registered
<1>2. WindowTypeOK
  <2>1. NewWindow \in Flags
    BY DEF NewWindow, Flags
  <2>2. Len(listed) = 0 /\ listed \in Seq(Windows) /\ at \in 0 .. (Len(listed) + 1)
    OBVIOUS
  <2>3. FlagTypes
    <3>1. win \in [Windows -> Flags]
      BY <2>1
    <3>2. QED  BY <2>2, <3>1 DEF FlagTypes
  <2>4. QED  BY <2>2, <2>3, TypeParts
<1>3. CycleOK
  BY DEF CycleOK
<1>4. ResizeAsked /\ FlaggedListed /\ DrawnListed /\ StaysFlagged /\ DrawnAsSized
  BY <1>1 DEF ResizeAsked, FlaggedListed, DrawnListed, StaysFlagged, DrawnAsSized
<1>5. Furnished
  BY <1>1 DEF Furnished, Objects
<1>6. QED  BY <1>2, <1>3, <1>4, <1>5 DEF WInv

LEMMA WindowNextKeeps ==
  ASSUME WInv, [WindowNext]_windowVars
  PROVE  WInv'
<1>1. CASE Running /\ Requests
  <2>1. ASSUME NEW w \in Windows, NEW sz \in Sizes[w], CreateWindow(w, sz)
        PROVE  WInv'
    BY <1>1, <2>1, CreateWindowKeeps
  <2>2. ASSUME NEW w \in Windows, NEW sz \in Sizes[w], CreateUndone(w, sz)
        PROVE  WInv'
    BY <1>1, <2>2, CreateUndoneKeeps
  <2>3. CASE Deinit
    BY <1>1, <2>3, DeinitKeeps
  <2>4. QED  BY <1>1, <2>1, <2>2, <2>3, EventKeeps DEF Requests
<1>2. CASE Running /\ Output
  <2>1. CASE ResizeNow \/ ResizeFails
    <3>1. Deciding /\ ~win[This].closed
      BY <2>1 DEF ResizeNow, ResizeFails
    <3>2. QED  BY <1>2, <2>1, <3>1, OutputKeeps
  <2>2. CASE CloseNow
    BY <1>2, <2>2, CloseNowKeeps
  <2>3. CASE FlushSent
    BY <1>2, <2>3, FlushSentKeeps
  <2>4. QED  BY <1>2, <2>1, <2>2, <2>3, CycleKeeps DEF Output, OutputWindow
<1>3. CASE UNCHANGED windowVars
  <2>1. /\ UNCHANGED <<listed, win, size, asked, drawn, alive, bare, flagged, refused,
                       cursorFlush, stage, at, shallFlush, crash>>
    BY <1>3 DEF windowVars, sizeVars, objectVars, sendVars, cycleVars
  <2>2. WindowTypeOK' /\ CycleOK'
    BY <2>1 DEF WInv, WindowTypeOK, CycleOK
  <2>3. \A w \in Windows : (InList(w)' <=> InList(w)) /\ (Open(w)' <=> Open(w))
    BY <2>1 DEF InList, Open, Registered
  <2>4. ResizeAsked' /\ DrawnListed' /\ DrawnAsSized'
    BY <2>1, <2>3 DEF WInv, ResizeAsked, DrawnListed, DrawnAsSized
  <2>5. FlaggedListed' /\ StaysFlagged'
    BY <2>1, <2>3 DEF WInv, WindowTypeOK, FlaggedListed, StaysFlagged
  <2>6. Furnished'
    BY <2>1, <2>3 DEF WInv, Furnished, Objects
  <2>7. QED  BY <2>2, <2>4, <2>5, <2>6 DEF WInv
<1>4. QED  BY <1>1, <1>2, <1>3 DEF WindowNext

LEMMA WindowInvariance == WindowSpec => []WInv
<1>1. WindowInit => WInv
  BY WindowInitHolds
<1>2. WInv /\ [WindowNext]_windowVars => WInv'
  BY WindowNextKeeps
<1>3. QED  BY <1>1, <1>2, PTL DEF WindowSpec

\* Every variable of the windows keeps the values its C type and its use in
\* wayland.c allow, whatever fails; what has lost its surface is allocated.
THEOREM WindowTypeCorrect == WindowSpec => []WindowTypeOK
<1>1. WInv => WindowTypeOK
  BY DEF WInv
<1>2. QED  BY <1>1, WindowInvariance, PTL

\* Whatever the order of configure events, failed and repeated resizes, and
\* frames: whenever _lv_wayland_flush is not skipped, LVGL's display has the size
\* that the window has, and that buffers are acquired with.  (A buffer that was
\* pending before a resize has another, see DrawInsideBuffer of SwapChain.)
THEOREM DrawingFits == WindowSpec => []DrawnAsSized
<1>1. WInv => DrawnAsSized
  BY DEF WInv
<1>2. QED  BY <1>1, WindowInvariance, PTL

\* No window loses the mark that its requests are to be sent before they are,
\* whatever other windows do and whichever flush fails.
THEOREM FlagsStay == WindowSpec => []StaysFlagged
<1>1. WInv => StaysFlagged
  BY DEF WInv
<1>2. QED  BY <1>1, WindowInvariance, PTL

----------------------------------------------------------------------------
(* Creation that does not fail *)

\* The faults that the driver survives, those of a resize and of a flush, are
\* the only ones.
Survived == Faults \cap {"decoration", "attach", "draw_buffer"} = {}

\* Then every listed window has a display, no object lacks its surface, and
\* nothing but the flush of a closed window goes wrong.
Sound ==
  /\ crash \in {"none", "stale_buffer"}
  /\ bare = {}
  /\ \A w \in Windows : InList(w) => drawn[w] # 0

LEMMA CreateSound ==
  ASSUME Survived, WInv, Sound, Running,
         NEW w \in Windows, NEW sz \in Sizes[w], CreateWindow(w, sz)
  PROVE  Sound'
<1>1. UNCHANGED <<bare, crash>>
  BY DEF CreateWindow, Survived, Sound
<1>2. /\ listed' = Append(listed, w)
      /\ drawn' = [drawn EXCEPT ![w] = sz]
  BY DEF CreateWindow
<1>3. sz # 0
  BY SizesAssumption
<1>4. \A v \in Windows : InList(v)' <=> InList(v) \/ v = w
  BY <1>2, Listing DEF WInv
<1>5. drawn \in [Windows -> Nat]
  BY TypeParts DEF WInv
<1>6. QED  BY <1>1, <1>2, <1>3, <1>4, <1>5 DEF Sound

\* destroy_window finds the body of every window that is not closed.
LEMMA DestroySound ==
  ASSUME WInv, Sound, Running, NEW ws \in SUBSET Windows,
         \A w \in ws : InList(w) /\ ~win[w].closed,
         DestroyObjects(ws)
  PROVE  UNCHANGED <<bare, crash>>
<1>1. ASSUME NEW w \in ws
      PROVE  Body(w) \in alive
  <2>1. Open(w)
    BY DEF Open, Registered, Sound
  <2>2. Body(w) \in Objects /\ Body(w)[1] = w
    BY DEF Body, Objects
  <2>3. QED  BY <2>1, <2>2 DEF WInv, Furnished, Running
<1>2. QED  BY <1>1 DEF DestroyObjects, Sound

LEMMA OutputSound ==
  ASSUME Survived, WInv, Sound, Running, ResizeNow \/ ResizeFails
  PROVE  Sound'
<1> DEFINE w == This
<1>1. w \in Windows /\ InList(w)
  BY ThisListed DEF WInv, ResizeNow, ResizeFails, Deciding
<1>2. UNCHANGED <<bare, crash, listed>>
  BY DEF ResizeNow, ResizeFails, Redecorate, Survived, Sound
<1>3. win[w].resizePending /\ drawn' \in {drawn, [drawn EXCEPT ![w] = asked[w]]}
  BY DEF ResizeNow, ResizeFails
<1> HIDE DEF w
<1>4. asked[w] # 0 /\ drawn \in [Windows -> Nat]
  BY <1>1, <1>3, TypeParts DEF WInv, ResizeAsked
<1>5. QED  BY <1>1, <1>2, <1>3, <1>4 DEF Sound, InList

LEMMA StepSound ==
  ASSUME Survived, WInv, Sound, [WindowNext]_windowVars
  PROVE  Sound'
<1> USE DEF sizeVars, objectVars, sendVars, cycleVars
<1>1. ASSUME UNCHANGED <<listed, drawn, bare>>, crash' \in {crash, "stale_buffer"}
      PROVE  Sound'
  BY <1>1 DEF Sound, InList
<1>2. CASE UNCHANGED windowVars
  BY <1>1, <1>2 DEF windowVars
<1>3. CASE Running /\ Requests
  <2>1. ASSUME NEW w \in Windows, NEW sz \in Sizes[w],
               CreateWindow(w, sz) \/ CreateUndone(w, sz)
        PROVE  Sound'
    <3>1. CreateWindow(w, sz)
      BY <2>1 DEF CreateUndone, Survived
    <3>2. QED  BY <1>3, <3>1, CreateSound
  <2>2. ASSUME NEW w \in Windows, NEW sz \in Sizes[w], ToplevelConfigure(w, sz)
        PROVE  Sound'
    BY <1>1, <2>2 DEF ToplevelConfigure
  <2>3. ASSUME NEW w \in Windows, NEW on \in BOOLEAN, SetFullscreen(w, on)
        PROVE  Sound'
    BY <1>1, <2>3 DEF SetFullscreen
  <2>4. ASSUME NEW w \in Windows,
               \/ CloseWindow(w) \/ SurfaceConfigure(w) \/ ToplevelClose(w)
               \/ SetCursor(w)
               \/ FlushFrame(w) \/ FlushSkipped(w) \/ FlushClosed(w)
        PROVE  Sound'
    BY <1>1, <2>4 DEF CloseWindow, SurfaceConfigure, ToplevelClose, SetCursor,
                      FlushFrame, FlushSkipped, FlushClosed
  <2>5. CASE Deinit
    <3>1. {w \in ToSet(listed) : ~win[w].closed} \subseteq Windows
      BY DEF WInv, WindowTypeOK, ToSet
    <3>2. UNCHANGED <<bare, crash>>
      BY <1>3, <2>5, <3>1, DestroySound DEF Deinit, InList
    <3>3. listed' = <<>>
      BY <2>5 DEF Deinit
    <3>4. QED  BY <3>2, <3>3, ListEmpty DEF Sound, InList
  <2>6. QED
    BY <1>3, <2>1, <2>2, <2>3, <2>4, <2>5 DEF Requests
<1>4. CASE Running /\ Output
  <2>1. CASE BeginOutput
    <3>1. \A w \in ToSet(listed) : drawn[w] # 0
      BY DEF WInv, WindowTypeOK, ToSet, Sound, InList
    <3>2. QED  BY <1>1, <2>1, <3>1 DEF BeginOutput
  <2>2. CASE AskClose \/ \E yes \in BOOLEAN : AnswerClose(yes)
    BY <1>1, <2>2 DEF AskClose, AnswerClose
  <2>3. CASE PassClosed \/ PassOpen \/ NoFlush \/ FlushFails \/ FlushSent
    BY <1>1, <2>3 DEF PassClosed, PassOpen, NoFlush, FlushFails, FlushSent
  <2>4. CASE CloseNow
    <3>1. This \in Windows /\ InList(This) /\ ~win[This].closed
      BY <2>4, ThisListed DEF WInv, CloseNow, Deciding
    <3>2. {This} \subseteq Windows /\ \A w \in {This} : InList(w) /\ ~win[w].closed
      BY <3>1
    <3>3. DestroyObjects({This}) /\ UNCHANGED <<listed, drawn>>
      BY <2>4 DEF CloseNow
    <3>4. UNCHANGED <<bare, crash>>
      BY <1>4, <3>2, <3>3, DestroySound
    <3>5. QED  BY <1>1, <3>3, <3>4
  <2>5. CASE ResizeNow \/ ResizeFails
    BY <1>4, <2>5, OutputSound
  <2>6. QED
    BY <1>4, <2>1, <2>2, <2>3, <2>4, <2>5 DEF Output, OutputWindow
<1>5. QED  BY <1>2, <1>3, <1>4 DEF WindowNext

LEMMA Soundness == Survived /\ WindowSpec => []Sound
<1> SUFFICES ASSUME Survived
             PROVE  WindowSpec => []Sound
  OBVIOUS
<1>1. WindowInit => Sound
  BY ListEmpty DEF WindowInit, Sound, InList
<1>2. WInv /\ Sound /\ [WindowNext]_windowVars => Sound'
  BY StepSound
<1>3. QED  BY <1>1, <1>2, WindowInvariance, PTL DEF WindowSpec

\* When creation and attaching do not fail, the driver never uses memory that
\* is NULL or freed, but for the flush of a closed window.
THEOREM DriverSurvives == Survived /\ WindowSpec => []Survives
<1> SUFFICES ASSUME Survived
             PROVE  WindowSpec => []Survives
  OBVIOUS
<1>1. Sound => Survives
  BY DEF Sound, Survives
<1>2. QED  BY <1>1, Soundness, PTL

\* Then the window that lv_wayland_window_is_open reports has its body and all
\* its decorations, and what is closed leaves none of them behind.
THEOREM ObjectsAreOfOpen == Survived /\ WindowSpec => []ObjectsOfOpen
<1> SUFFICES ASSUME Survived
             PROVE  WindowSpec => []ObjectsOfOpen
  OBVIOUS
<1>1. WInv /\ Sound => ObjectsOfOpen
  <2> SUFFICES ASSUME WInv, Sound
               PROVE  ObjectsOfOpen
    OBVIOUS
  <2> DEFINE ws == {v \in ToSet(listed) : ~win[v].closed}
             objs == UNION {{Body(w)} \cup Decos(w) : w \in ws}
  <2>1. ws \subseteq Windows
    BY DEF WInv, WindowTypeOK, ToSet
  <2>2. objs \subseteq Objects
    BY <2>1 DEF Body, Decos, Objects
  <2>3. alive \subseteq Objects
    BY DEF WInv, WindowTypeOK
  <2>4. \A o \in Objects : o \in objs <=> o[1] \in ws
    BY <2>1, Destroyed
  <2>5. \A o \in Objects : o \in alive <=> o[1] \in ws
    <3>1. \A w \in Windows : Open(w) <=> w \in ws
      BY DEF Sound, Open, Registered, InList
    <3>2. \A o \in Objects : o[1] \in Windows
      BY DEF Objects
    <3> HIDE DEF ws
    <3>3. QED  BY <3>1, <3>2 DEF WInv, Furnished, Sound
  <2>6. alive = objs
    <3> HIDE DEF ws, objs
    <3>1. QED  BY <2>2, <2>3, <2>4, <2>5
  <2>7. QED  BY <2>6 DEF ObjectsOfOpen
<1>2. QED  BY <1>1, WindowInvariance, Soundness, PTL

==============================================================================
