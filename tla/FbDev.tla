-------------------------------- MODULE FbDev --------------------------------
(***************************************************************************)
(* The frame buffer driver (display/fbdev.c): it maps the device into      *)
(* memory and copies areas to it, row by row.                              *)
(*                                                                         *)
(* Of the picture, `wrong` says which pixels of the screen differ from     *)
(* what LVGL drew there.  LVGL's display may be larger than the device:    *)
(* the driver truncates areas.                                             *)
(* fbdev_exit, which closes the device and leaves it mapped, the BSD       *)
(* variant, and the colours are left out.                                  *)
(***************************************************************************)
EXTENDS Integers, Sequences, SequencesExt

CONSTANTS
  Xres, Yres, \* vinfo.xres and vinfo.yres
  Formats,    \* what the device may have: [bpp, line], line in bytes
  Offsets,    \* what fbdev_set_offset may be called with
  DispSizes,  \* hor_res and ver_res of LVGL's display, <<width, height>>
  Left, Right, \* the columns where areas may begin, and end
  FbFaults    \* what may fail, a subset of FbFaultKinds

FbFaultKinds == {"info", \* open, or an ioctl that fbdev_init needs
                 "mmap"}

ASSUME FbAssumption ==
  /\ Xres \in Nat \ {0} /\ Yres \in Nat \ {0}
  /\ Formats \subseteq [bpp : {1, 8, 16, 24, 32}, line : Nat]
  /\ \A f \in Formats : 8 * f.line >= f.bpp * Xres
  /\ Offsets \subseteq Nat \X Nat /\ DispSizes \subseteq (Nat \ {0}) \X (Nat \ {0})
  /\ Left \subseteq Nat /\ Right \subseteq Nat
  /\ FbFaults \subseteq FbFaultKinds

VARIABLES
  format, disp, \* the device's format and LVGL's size
  fbp,       \* "null", "mapped" or "bad": mmap's error, which is not NULL
  info,      \* vinfo has been read
  offset,    \* vinfo.xoffset and yoffset
  wrong,     \* the pixels of the screen that LVGL drew since the offset was set, or
             \* that were drawn over, and that do not show what it drew
  wild       \* fbdev_flush wrote to the address that mmap's error is

fbVars == <<format, disp, fbp, info, offset, wrong, wild>>

Visible == (0 .. Xres - 1) \X (0 .. Yres - 1)

----------------------------------------------------------------------------

\* fbdev_init.
FbOpen(ok, mapped) ==
  /\ fbp = "null" /\ ~info
  /\ info' = ok
  /\ fbp' = IF ~ok THEN "null" ELSE IF mapped THEN "mapped" ELSE "bad"
  /\ UNCHANGED <<format, disp, offset, wrong, wild>>

\* fbdev_set_offset: what was drawn before stays where it is.
FbSetOffset(o) ==
  /\ info /\ o # offset
  /\ offset' = o /\ wrong' = {}
  /\ UNCHANGED <<format, disp, fbp, info, wild>>

\* Mutant of Location: the offset counts for the first row only.
LocationFirst(x, y) ==
  LET col == x + offset[1] + (IF y = 0 THEN offset[2] ELSE 0)
  IN  IF format.bpp = 1 THEN col + y * Xres
      ELSE format.bpp * (col + (y * format.line) \div (format.bpp \div 8))

\* `location`, of pixel <<x, y>>, in bits; the line's length in pixels is rounded,
\* and for one bit per pixel it is that of the screen.
Location(x, y) ==
  LET col == x + offset[1]
      row == y + offset[2]
  IN  IF format.bpp = 1 THEN col + row * Xres
      ELSE format.bpp * (col + (row * format.line) \div (format.bpp \div 8))

\* The area <<x1, y1, x2, y2>> truncated to the screen.
Truncated(a) ==
  <<a[1], a[2], IF a[3] > Xres - 1 THEN Xres - 1 ELSE a[3],
                IF a[4] > Yres - 1 THEN Yres - 1 ELSE a[4]>>

\* color_p, when pixel <<x, y>> of area a is written: w pixels of the source are
\* taken for a row, the width of what is left of it, and only for one bit per pixel
\* those that are cut off are skipped.
Source(a, x, y) ==
  LET t == Truncated(a)
      w == t[3] - t[1] + 1 + (IF format.bpp = 1 THEN a[3] - t[3] ELSE 0)
  IN  (y - t[2]) * w + x - t[1]

\* The pixel that is there in the source.
PixelAt(a, i) == LET w == a[3] - a[1] + 1 IN <<a[1] + (i % w), a[2] + i \div w>>

\* Where the device has pixel <<x, y>> of its screen.
Place(x, y) == 8 * (y + offset[2]) * format.line + format.bpp * (x + offset[1])

\* The pixels that do not show what LVGL drew once the pairs in `written`, of a place
\* and what it is given, are.
WrongAfter(written, cells) ==
  {p \in Visible : LET given == {w[2] : w \in {v \in written : v[1] = Place(p[1], p[2])}}
                   IN  IF given # {} THEN given # {p} ELSE p \in cells \cup wrong}

\* fbdev_flush of area a.
FbFlush(a) ==
  LET t == Truncated(a)
      cells == (t[1] .. t[3]) \X (t[2] .. t[4])
      written == {<<Location(c[1], c[2]), PixelAt(a, Source(a, c[1], c[2]))>> : c \in cells}
  IN  /\ a[3] < disp[1] /\ a[4] < disp[2]
      /\ IF fbp = "null" \/ a[1] > Xres - 1 \/ a[2] > Yres - 1
           THEN UNCHANGED <<wrong, wild>>
         ELSE IF fbp = "bad"
           THEN wild' = TRUE /\ UNCHANGED wrong
         ELSE wrong' = WrongAfter(written, cells) /\ UNCHANGED wild
      /\ UNCHANGED <<format, disp, fbp, info, offset>>

----------------------------------------------------------------------------

FbInit ==
  /\ format \in Formats /\ disp \in DispSizes
  /\ fbp = "null" /\ info = FALSE /\ offset = <<0, 0>>
  /\ wrong = {} /\ wild = FALSE

FbNext ==
  /\ ~wild
  /\ \/ \E ok \in IF "info" \in FbFaults THEN BOOLEAN ELSE {TRUE},
           mapped \in IF "mmap" \in FbFaults THEN BOOLEAN ELSE {TRUE} : FbOpen(ok, mapped)
     \/ \E o \in Offsets : FbSetOffset(o)
     \/ \E x1 \in Left, x2 \in Right, y1, y2 \in 0 .. disp[2] - 1 :
          x1 <= x2 /\ y1 <= y2 /\ FbFlush(<<x1, y1, x2, y2>>)

FbSpec == FbInit /\ [][FbNext]_fbVars

----------------------------------------------------------------------------
(* Properties *)

\* The type invariant.
FbTypeOK ==
  /\ format \in Formats /\ disp \in DispSizes
  /\ fbp \in {"null", "mapped", "bad"} /\ {info, wild} \subseteq BOOLEAN
  /\ offset \in Nat \X Nat
  /\ wrong \subseteq Visible

\* The rows of the device are where the driver's arithmetic takes them to be.
LinesFit == IF format.bpp = 1 THEN 8 * format.line = Xres
                              ELSE (8 * format.line) % format.bpp = 0

\* The screen shows every pixel as LVGL drew it last, whatever areas it flushed and
\* though they reach below the screen.  It fails where an area reaches beside the
\* screen, unless a pixel has one bit, and where the lines have padding that is not
\* a whole number of pixels, or any when a pixel has one bit.
FbShows ==
  fbp = "mapped" /\ LinesFit /\ (disp[1] <= Xres \/ format.bpp = 1) =>
    wrong = {}

============================================================================
