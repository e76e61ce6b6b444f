----------------------------- MODULE MCDrivers -----------------------------
(***************************************************************************)
(* The drivers that share nothing with each other, in one instance for     *)
(* TLC: a behaviour is that of one `program`, chosen at the start, and the *)
(* other drivers stay as they are, so their states add up and do not       *)
(* multiply.  Where the halves of a driver share nothing each is a program *)
(* of its own.                                                             *)
(***************************************************************************)
EXTENDS Drm, KernelInput, SdlDrv, X11Drv, GtkDrv, Win32Drv, TouchDrv, FbDev, TLC

CONSTANTS a1, a2

VARIABLE program \* the driver that runs

\* Drm
TwoAreas == {a1, a2}

Conn(yes, enc, encs) == [connected |-> yes, modes |-> TRUE, enc |-> enc, encs |-> encs]
Plane(readable, takes, possible) ==
  [readable |-> readable, format |-> takes, possible |-> possible]

\* Connectors, of which the first may be unplugged; encoders bound to a CRTC, to
\* be looked up or useless; planes that suit, that do not, that cannot be read.
Screens ==
  {[crtcs |-> <<11, 12>>, conns |-> cs, encs |-> es, planes |-> ps] :
     cs \in {<<Conn(FALSE, 0, <<>>), Conn(TRUE, 1, <<1>>)>>,
             <<Conn(TRUE, 0, <<2, 1>>)>>, <<Conn(FALSE, 1, <<1>>)>>,
             <<Conn(TRUE, 0, <<>>)>>},
     es \in {<<[crtc |-> 12, possible |-> {2}], [crtc |-> 0, possible |-> {1}]>>,
             <<[crtc |-> 0, possible |-> {1}], [crtc |-> 0, possible |-> {}]>>},
     ps \in {<<Plane(TRUE, FALSE, {1, 2}), Plane(TRUE, TRUE, {1}), Plane(TRUE, TRUE, {2})>>,
             <<Plane(TRUE, TRUE, {1}), Plane(FALSE, TRUE, {2})>>,
             <<Plane(TRUE, FALSE, {1, 2})>>}}

\* KernelInput
TwoFingers == {"finger", "thumb"}
ThreeKeys == {"e", "enter", "shift"}
EuroKeys == "e" :> (0 :> 5 @@ 1 :> 0) @@ "enter" :> [l \in 0 .. 1 |-> 10]
            @@ "shift" :> [l \in 0 .. 1 |-> 0]
WidePanel == <<4, 1>>
NoOffset == <<0, 0>>
Wide == [hor |-> <<0, 4>>, ver |-> <<0, 2>>]
FourDevices == <<"event0", "event1", "event2", "event3">>

\* SdlDrv
OneControl == {17}
ShortTexts == {<<97>>, <<195, 169>>}
WheelSteps == {-1, 1}
ThreeTiles == 1 .. 3
OneOff == {3}

\* X11Drv
LookedUp == {<<>>, <<"a">>, <<"a", "b">>}

\* GtkDrv
TwoKeyvals == {65, 66}

\* Win32Drv
OneVirtualKey == {13}
TwoLetters == {97, 98}
OneHigh == {1001}
OneLow == {1002}

\* TouchDrv.  One pen rests on a calibration point, the other beyond the edge that
\* the calibration finds.
TwoPens == {<<840, 206>>, <<940, 813>>}
AnyPin == {0, 840}
CalX == <<840, 210, 214, 845>>
CalY == <<204, 206, 813, 821>>
XptLeast == <<200, 200>>
XptMost == <<3800, 3800>>
XptSize == <<480, 320>>

\* FbDev.  Lines without padding, with padding of whole pixels, and of half ones.
Devices == {[bpp |-> 1, line |-> 1], [bpp |-> 24, line |-> 24], [bpp |-> 24, line |-> 28],
            [bpp |-> 32, line |-> 36]}
TwoOffsets == {<<0, 0>>, <<1, 1>>}
Displays == {<<8, 2>>, <<9, 3>>}
Beginnings == {0, 4}
Endings == {3, 7, 8}

\* The drivers that are not the program's start in one of their initial states.
DriversInit ==
  /\ program \in {"drm", "kernel", "sdl", "sdl_screen", "x11", "x11_screen", "gtk",
                 "win32", "win32_mouse", "touch", "fb"}
  /\ DrmInit /\ KernelInputInit /\ SdlInit /\ X11Init /\ GtkInit /\ Win32Init
  /\ TouchInit /\ FbInit
  /\ program = "drm" \/ (~direct /\ hw = CHOOSE h \in Screens : TRUE)
  /\ program = "kernel" \/ (driver = "evdev" /\ kind = "mouse")
  /\ program \in {"sdl", "sdl_screen"} \/ (~dual /\ ~double)
  /\ program \in {"x11", "x11_screen"} \/ ~large
  /\ program = "gtk" \/ ~gtkMouse
  /\ program = "touch" \/ panel = "ad"
  /\ program = "fb" \/ (format.bpp = 32 /\ disp[1] = Xres)

DriversNext ==
  /\ UNCHANGED program
  /\ \/ /\ program = "drm" /\ DrmNext
        /\ UNCHANGED <<kernelInputVars, sdlVars, x11Vars, gtkVars, win32Vars, touchVars,
                       fbVars>>
     \/ /\ program = "kernel" /\ KernelInputNext
        /\ UNCHANGED <<drmVars, sdlVars, x11Vars, gtkVars, win32Vars, touchVars, fbVars>>
     \/ /\ \/ program = "sdl" /\ SdlInputNext
           \/ program = "sdl_screen" /\ SdlScreenNext
        /\ UNCHANGED <<drmVars, kernelInputVars, x11Vars, gtkVars, win32Vars, touchVars,
                       fbVars>>
     \/ /\ \/ program = "x11" /\ X11InputNext
           \/ program = "x11_screen" /\ X11ScreenNext
        /\ UNCHANGED <<drmVars, kernelInputVars, sdlVars, gtkVars, win32Vars, touchVars,
                       fbVars>>
     \/ /\ program = "gtk" /\ GtkNext
        /\ UNCHANGED <<drmVars, kernelInputVars, sdlVars, x11Vars, win32Vars, touchVars,
                       fbVars>>
     \/ /\ \/ program = "win32" /\ Win32KeyNext
           \/ program = "win32_mouse" /\ Win32MouseNext
        /\ UNCHANGED <<drmVars, kernelInputVars, sdlVars, x11Vars, gtkVars, touchVars,
                       fbVars>>
     \/ /\ program = "touch" /\ TouchNext
        /\ UNCHANGED <<drmVars, kernelInputVars, sdlVars, x11Vars, gtkVars, win32Vars,
                       fbVars>>
     \/ /\ program = "fb" /\ FbNext
        /\ UNCHANGED <<drmVars, kernelInputVars, sdlVars, x11Vars, gtkVars, win32Vars,
                       touchVars>>

driversVars ==
  <<program, drmVars, kernelInputVars, sdlVars, x11Vars, gtkVars, win32Vars, touchVars,
    fbVars>>

\* DrmFair, and Win32Fair where that driver runs: elsewhere its first step stays
\* enabled and is never taken.  In the other programs no step of Drm is enabled.
DriversFair ==
  /\ DrmFair
  /\ WF_win32Vars(program \in {"win32", "win32_mouse"} /\ StartStep)

DriversSpec == DriversInit /\ [][DriversNext]_driversVars /\ DriversFair

----------------------------------------------------------------------------
(* Properties.  Those of the other drivers are in their modules. *)

\* The type invariants of the drivers.
DriversTypeOK ==
  /\ DrmTypeOK /\ KernelInputTypeOK /\ SdlTypeOK /\ X11TypeOK /\ GtkTypeOK
  /\ Win32TypeOK /\ TouchTypeOK /\ FbTypeOK

\* What these drivers promise of the user's doings: the bytes typed in an SDL window are
\* told once each and in order; a GTK read that no handler ran into tells of a key with
\* its own state; every turn of the wheel over an X11 window is told; a pen that rests is
\* measured by AD_touch where it is, and XPT2046 tells of what it measured in this touch.
InputTold == TypedInOrder /\ GtkSettles /\ X11Told /\ TouchTold

\* When a frame has been flushed the screen, or the window of SDL or X11, or the frame
\* buffer shows what LVGL drew.  The four properties have their exceptions: without
\* direct mode the areas of the frame before may be missing (Drm); after a last area off
\* the screen, and in a second window that is double-buffered, the frame waits for the
\* next refresh (SDL); coordinates of 16 bits (X11); lines that are padded otherwise than
\* by whole pixels, and areas that reach beside the screen (FbDev).
ScreensShow == ShowsFrame /\ SdlShows /\ X11Shows /\ FbShows

============================================================================
