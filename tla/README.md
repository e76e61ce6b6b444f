# lv_drivers in TLA+

lv_drivers is the collection of display and input drivers that LVGL is ported
with: one C file (or two) per device or window system, each of which registers
a flush callback, a read callback, or both.  This directory models the drivers
that have a state of their own, checks the models with TLC on small instances,
and proves with TLAPS, for every instance, every invariant and action property that
the passing runs check, some under conditions on the constants.

Paths such as `smm.c:422` are lines of `src/wayland/smm.c` and its siblings.

## 1. Inventory

LVGL is single threaded: `lv_timer_handler` calls the drivers' callbacks.  It
renders a frame as a sequence of areas, calls `flush_cb(area)` for each, and
waits for `lv_disp_flush_ready` (calling `wait_cb` meanwhile); it polls
`read_cb` of each input device, and again at once when `continue_reading` was
set.  Of reports of a pressed key it takes the first after a released one for a
new key.  All of the following is described from that thread, unless a component
has another one: GTK and Win32 do, and `AD_touch` has an interrupt handler.

| Component | State | Operations | What is hard | What makes it correct |
|---|---|---|---|---|
| Shared-memory manager, `wayland/smm.c` | a pool cut into buffers in address order; groups with queues `unused`, `inuse` and `history`; the pool's mapping; a statistic | create, destroy, resize, acquire, map, release, latest/next, deinit; callbacks `new_pool`, `expand_pool`, `new_buffer`, `init_buffer`, ... | long sequences of legal calls by several groups; every callback and system call may fail half way; callbacks re-enter `smm_map` | extents tile the pool; a buffer is in one queue of its owner; its size is its group's; the mapping covers the pool; loops end |
| Window body, `wayland/wayland.c` 1221-1465, 1762-1825, 1996-2108 | pending buffer, configure state, damage cache, tags of buffers | flush, `sme_*` callbacks, buffer release, configure events, resize | the compositor releases when it likes; a reused buffer shows an old picture; resizes arrive at any time | what is committed shows what LVGL drew; no buffer leaks; every flush returns |
| Windows, `wayland.c` 1046-1220, 1467-1994, 2110-2202, 2400-2721 | window list, graphic objects, decorations, close and resize flags | create, close, resize, cycle of `lv_wayland_timer_handler` | freed objects that events still name; failures in the middle of a creation; `EAGAIN` | no freed object is used; whatever is asked for is done in the end |
| Wayland input, `wayland.c` 230-1045 | per-window input state, seat with pointer, keyboard and touch focus | listeners, the `read` callbacks | events of a window that closes; capabilities that come and go; releases that never come | the focus is an object that exists and follows the compositor; what is pressed is held |
| DRM display, `display/drm.c` | two buffers, the atomic request, page-flip event | setup query by query, flush, wait for vsync, exit | any query or commit fails; the event is awaited for ever | the buffer on screen is not drawn to; a frame is shown whole; a flush ends |
| libinput, `indev/libinput.c`; evdev, `indev/evdev.c`; xkb, `indev/xkb.c` | last point, key and button state; keymap; cache of devices | set the file, drain the events, read, find devices | several events between two reads collapse; a device is exchanged while something is pressed; the cache grows and is reset | no key is lost, nothing stays pressed; the cache holds what was returned |
| SDL, `sdl/sdl.c`, `sdl_common.c` | a buffer of typed keys, wheel, mouse; one or two windows | event handlers, reads, flush, window update | buffer full or read half; a frame in parts; two windows, one or two buffers | what found room is typed once, in order; the window shows the frame |
| X11, `x11/x11.c` | keys, wheel, buttons; image and the area to put | event handler, reads, flush | a frame in parts whose union is put at the end | turns are told once; the window shows the frame |
| GTK, `gtkdrv/gtkdrv.c` | last key, mouse state, frame buffer | two threads: GTK's events and LVGL's reads | no lock between them | an undisturbed read tells of one event |
| Win32, `win32drv/win32drv.c` | window thread, keyboard queue, encoder and pointer state | window procedure, reads, start | two threads; the queue is a stack; memory that runs out; a failed start; a context that is freed | no press is typed twice, and none is lost but next to another; the start ends |
| Touch controllers, `indev/AD_touch.c`, `XPT2046.c`, `FT5406EE8.c` | state of the acquisition, calibration, average | interrupt handler, read | the pen moves between two conversions; samples of a former touch | what is reported is where the pen is, or was last |
| Frame buffer device, `display/fbdev.c` | mapping, screen information, offset | init, flush, set the offset | truncated areas, padded lines, four pixel sizes | the screen shows what LVGL drew |
| Display controllers (`display/*.c` but drm and fbdev), `win_drv.c`, `sdl_gpu.c` | a copy of the screen at most | commands, pixel conversion | - | out of scope, see section 7 |

Interactions.  The window body is a client of the manager: `_lv_wayland_flush`
calls `smm_acquire`, which calls back `sme_new_buffer` and `sme_init_buffer`,
which calls `smm_map` and reads the history through `smm_latest` and
`smm_next`; the compositor's release event calls `smm_release`; `resize_window`
calls `smm_resize`.  Decorations are groups of the same pool.  Wayland's
input handlers share the windows with the output cycle: a press on a decoration
asks for a close, and closing a window takes its focus away.  The other drivers
share no state with each other, except libinput and evdev, which use xkb.

The hazards of each component are listed, with their lines, in PROJECT.json, with
the properties that would catch them.

## 2. Modules

| Module | What it is |
|---|---|
| `Smm` | the shared-memory manager, all of it |
| `Extents` | what a manager promises: granted extents are disjoint and do not change until they are retired |
| `SmmProofs`, `SmmGroupProofs` | theorems about `Smm`: types, tiling and queues, and its refinement of `Extents`; what a group relies on |
| `SwapChain` | a window's body: extends `Smm`, whose client it is |
| `SwapChainProofs`, `WaylandWindowProofs`, `WaylandInputProofs`, `DrmProofs`, `KernelInputProofs` | theorems about the modules they are named after |
| `DriversProofs` | theorems about the other drivers, and about `MCDrivers` |
| `WaylandWindow` | the life of windows: creation, events, calls, frames, and the output cycle |
| `WaylandInput` | pointer, touch screen, keyboard and seat, over the windows of `WaylandWindow`, which it extends |
| `Drm` | the DRM display |
| `WholeFrames` | what a display with two buffers promises: whole frames, drawn out of sight, handed over one at a time |
| `KernelInput` | evdev, libinput and xkb |
| `SdlDrv`, `X11Drv` | input and windows of SDL and X11 |
| `GtkDrv` | the input of GTK |
| `Win32Drv` | the window thread of Win32 and LVGL's reads |
| `TouchDrv` | three touch controllers |
| `FbDev` | the frame buffer device |
| `MCSmm`, `MCSwapChain`, `MCWaylandWindow`, `MCWaylandInput` | small instances for TLC |
| `MCDrivers` | a small instance of all the other drivers |

### Smm

One action per function, or per outcome of one, and one per iteration of a loop
that runs until a queue is empty; `call` says which call is in progress, so no
other starts before it is over (the code is single threaded), except `Map`,
which a client may call from its `init_buffer` callback.

| Code | Actions and operators |
|---|---|
| `smm_create`, `smm_destroy`, `smm_deinit` | `Create`; `Destroy`, `DestroyUnused`, `DestroyInUse`, `DestroyDone`; `Deinit` |
| `smm_resize` | `Resize`, `ResizeUnused`, `ResizeInUse` |
| `smm_acquire`, `get_from_pool` | `AcquireUnused`, `AcquireFromPool`, `AcquireRefused` (the client refuses the buffer), `AcquireFails` (no room), then `InitBuffer` or `InitBufferFails`; where the buffer comes from: `PlaceExact`, `PlacePullBack`, `PlaceSplit`, `PlaceWhole`, `PlaceExtend`, `PlaceAppend` |
| `smm_map` | `Map` |
| `smm_release`, `return_to_pool` | `Release`, `Trim`, `TrimDone`; `ReturnToPool`, `Merged` |
| `smm_latest`, `smm_next` | `history` itself, read by `SwapChain` |

Abstractions.  A buffer's address is the identity of its struct; memory that is
not linked in a pool may be returned by `malloc` again.  There is one pool: the
code replaces `smm_instance.active` only after it is freed.  The order of
`inuse` is left out, because it only decides which buffer `smm_destroy` returns
next: the model returns any.  Freed structs are reset, as `calloc`-like
initialisation in `alloc_buffer` makes their old contents unobservable.
`smm_create` that fails leaves nothing behind and is not a step.  Integers:
`num_buffers` wraps at 256 (`NumRange`), the statistic at `SizeRange` (2^64 in
the code, so that a small instance can wrap it).

### SwapChain

A frame is a sequence of `Flush` steps, each followed by what the callback does:
`FlushSkip` while a resize is pending; else `FlushAcquire` or `FlushAcquireNew`,
`InitMap` and `InitDone` when there is no pending buffer, and `FlushDraw`, which
copies the area, caches it as damage, and on the last area commits the buffer.
`FlushAcquireFails` and `InitFails` are the failures; both end the callback.
`BufferRelease`, `ToplevelConfigure`, `SurfaceConfigure` are the compositor's
events, which the driver handles between frames only.  `Initialised` is
`sme_init_buffer`: the choice between copying the latest buffer and applying the
damage cache, whose ring is `cache`, `start`, `end`, `cached`.

What a buffer shows is reduced to which of its bytes are `current`, that is,
equal to what LVGL drew there last.  The picture has one row: every place that
computes an offset adds the same `y * width * BYTES_PER_PIXEL`, so rows do not
interact.  `undrawn` holds the bytes whose last drawing reached no buffer,
because a flush was skipped or failed; nothing is promised of them.  A flush
cannot fail to map after it has acquired (`wayland.c:2043`): a mapping is made
in `sme_init_buffer`, and only this group grows the pool in between.

### WaylandWindow

Windows are the structs of `application.window_ll`, which keeps closed ones;
`alive` holds the graphic objects, a body and the decorations for each window,
which are freed when it closes, and `bare` those whose surface is `NULL`.  The
driver's thread repeats events, LVGL, output: `stage` is `"app"` for the first
two, in which the compositor, the application and LVGL act in any order, and
`"output"` in `_lv_wayland_handle_output`, which takes one step per window.

| Code | Actions |
|---|---|
| `lv_wayland_create_window`, `create_window`, `create_graphic_obj` | `CreateWindow`, also with decorations missing or without a surface; `CreateUndone`, when there is no draw buffer |
| `lv_wayland_close_window`, `lv_wayland_window_set_fullscreen`, `lv_wayland_deinit` | `CloseWindow`, `SetFullscreen`, `Deinit` |
| `xdg_toplevel_handle_configure`, `xdg_surface_handle_configure`, `xdg_toplevel_handle_close`, `set_cursor` | `ToplevelConfigure`, `SurfaceConfigure`, `ToplevelClose`, `SetCursor` |
| `_lv_wayland_flush` | `FlushFrame`, `FlushSkipped`, `FlushClosed`: a whole frame is one step, whose areas are `SwapChain`'s matter |
| `_lv_wayland_handle_output` | `BeginOutput`; `AskClose` and `AnswerClose` around `close_cb`, in which the application may close and create windows; then for each window `PassClosed`, `CloseNow`, `ResizeNow`, `ResizeFails` or `PassOpen`; at the end `NoFlush`, `FlushSent` or `FlushFails` |

Abstractions.  The requests that libwayland buffers are reduced to `flagged`,
the windows with requests unsent that `flush_pending` was set for.  A size is
one number.  A use of memory that is `NULL` or freed ends the process in
`crash`; `FlushClosed`, which reads a freed body, may find `NULL` there, which
is no step.  Modelled is the XDG shell with `LV_WAYLAND_TIMER_HANDLER`.  The
failure of `resize_window` in `create_window` is not modelled: without a
display it cannot fail.

### WaylandInput

The handlers of the pointer, the touch screen and the keyboard touch no state of
each other, so a behaviour has one `device`.  Objects are those of
`WaylandWindow`: a `focus` that is not in `alive` is a dangling pointer.  The
compositor's side is `within`, the surface that the device is at, and `held`, what
the user holds down; it may not know yet that a surface is destroyed, whose user
data is then `NULL`.  A touch screen has several fingers, each at a surface (`spot`);
the driver ignores their ids and keeps one `touch_obj`, so the model has one `Finger`
pressed per window, as the code has one state, and `within` is where a finger went
down last.  `mixed` says that a second finger went down since none was there.
`unheard` records the presses whose release never came, came with no meaning, or, with
several fingers (`Mistaken`), was taken for that of another.

| Code | Actions |
|---|---|
| `pointer_handle_enter`, `leave`, `button`, `axis` | `PointerEnter`, `PointerLeave`, `PointerTaken`, `PointerButton`, `PointerAxis`; `ReleaseElsewhere`, of which the driver hears nothing |
| `touch_handle_down`, `up`, `cancel` | `TouchDown(f, o)`, `TouchUp(f)` of any finger f, `TouchCancel` |
| `keyboard_handle_keymap`, `enter`, `leave`, `key`, `modifiers` | `Keymap`, `KeyboardEnter`, `KeyboardLeave`, `KeyboardKey`, `Modifiers` |
| `seat_handle_capabilities` | `Plug`, `Unplug` |
| `_lv_wayland_pointeraxis_read` | `ReadAxis`; the other reads change nothing |
| what decorations do | `Decoration`, with `PointerSends` and `TouchSends` |
| `_lv_wayland_handle_output`, closing a window | `CloseWithInput`: `CloseNow` and `Forget` |

Configure events, frames and resizing are left to `WaylandWindow`: with input they
share only `flush_pending`.  Positions, repeat rates and the cursor's picture are
left out.

### Drm

The setup is one step per query of `drm_setup` and `drm_setup_buffers` (`Open`,
`FindConnector`, `PickPlane`, `Query`, `Allocate`), each of which may fail; the
hardware is what `Hardware` offers.  `BeginFrame` is LVGL's, `FlushArea` is the
drawing of an area and `drm_flush`, which after the last one commits
(`SetPlane`); `Flip` is the kernel and `page_flip_handler`'s event; `Ready` is
`drm_wait_vsync`; `Exit` is `drm_exit`.  In direct mode LVGL draws in the buffers
and exchanges them, else the driver copies to its own; `Target` says where.  A
request is `"null"`, `"live"` or `"freed"`: the third is the pointer that a failed
commit leaves.  Damage blobs and property names are left out.  `OnScreen` reads the
state as one of `WholeFrames`.

### KernelInput

| Code | Actions |
|---|---|
| `evdev_init`, `libinput_init_state` | `Begin`, with `SetCalibration` |
| `evdev_device_set_file`, `libinput_set_file_state`, `libinput_deinit_state` | `SetFile` (`EvdevSetFile`, `LibinputSetFile`), `Deinit` |
| `evdev_read`, `libinput_read_state` | `BeginRead`, `TakeEvent` for each event, `EndRead`; `Ends` says which event ends the drain |
| `read_pointer`, `read_keypad`, the `switch` of `evdev_read` | `LibinputPointer`, `TakeKey`, `EvdevPointer` |
| `_evdev_process_pointer` | `ProcessPointer`, `Calibrate`, in C's division |
| `xkb_process_key_state` | `KeyOf`, `Level`, `Shifting`; a key without a keymap ends the program (`dead`) |
| `libinput_find_dev(s)`, `rescan_devices`, `add_scanned_device`, `reset_scanned_devices` | `FindDevs`, `ScanEntry`, `ScanEnd`, `Reset` |

`User` is the hand: it presses, releases, moves and touches, and the kernel queues
the events in `queue`.  Between the events of a drain the user may act.  A touch
screen has several fingers: BTN_TOUCH comes with the first and goes with the last, a
tracking id of zero is that of the first touch of a device only (`touches`), which may
have been used before it is opened, and one of -1 comes with every finger that is
lifted; `lifted` says that others stayed then.  A device that is opened or reopened has
nothing held on it.  Fingers that move, ids that wrap, an overflow of the kernel's
queue (`SYN_DROPPED`), absolute motion without a touch screen, and swapped axes, are
left out.

### SdlDrv, X11Drv

Both run in LVGL's thread, whose event timer, reads and flushes come in any order.
`SdlKeyDown` and `SdlTextInput` are `keyboard_handler`, `SdlKeyboardRead` is
`sdl_keyboard_read` with its alternation of presses and releases; while
`continue_reading` is set nothing else happens.  Text is a sequence of bytes, of which
each is a key, and `Widened` is what C makes of a `char`.  `SdlFlush` is
`sdl_display_flush` or `sdl_display_flush2` with `monitor_sdl_refr`, and with the early
return for an area off the screen (`OffScreen`); `SdlExposed` an expose event;
`SdlQuit` the end.  In `X11Drv`, `KeyPress`, `Button`, `Scroll` and `Expose` are
the cases of `x11_event_handler`; `X11Flush` is `lv_x11_flush`, with `Extend` for
the union of the areas (in an `lv_coord_t` of 16 or 32 bits) and `Put` for the
`XPutImage` of its result.  What a window shows is a set of areas or pixels that
are as LVGL drew them.

### GtkDrv, Win32Drv

GTK: `GtkHandle` is the start of a handler, `GtkStore` one of its stores, `GtkRead`
the start of LVGL's callback and `GtkLoad` one of its loads.  No lock orders them, so
the stores of a handler, and the loads of a callback, happen in any order.  `torn`
says that a handler ran into a call.  Either the mouse is used or the keyboard:
they share no variable.

Win32: `InitStart`, `CreateWindow32` (with `OnCreate`), `SignalCreated` and
`InitWoken` are `lv_win32_init` and the thread it starts; `OnKey`, `OnChar` (with
its surrogates), `OnWheel`, `OnButton`, `OnDestroy`, `OnQuit` the messages;
`BeginCallback`, `PopKey`, `ReadWheel`, `ResetWheel` the reads of LVGL's thread,
cut where the window's thread may come between.  The queue of keys is a stack, onto
which `Push` puts what finds memory (`Allocated`).  `queued` and `typed32` are the
presses that were queued and those that LVGL took for new keys since it last found the
queue empty; `merged` says that two presses came to lie next to each other.
`UseFreedContext` is a callback that had the context when `WM_DESTROY` freed it.
Painting, resolutions and positions are left out.

### TouchDrv, FbDev

`TouchDrv` has three programs, of which `panel` chooses one.  `AD_touch`:
`Convert` is the end of an analogue conversion, `AdHandler` one interrupt
(`SetX`, `CheckX`, `CheckY`, `Run`, `Get`, `SetY`, `SetValues` are the cases of
its `switch`, with the fall-through), `AdReadX` and `AdReadY` the two halves of
`ad_touch_read`, and `TrX`, `TrY` what `TouchCalculateCalPoints` makes of a
calibration, in its fixed-point arithmetic.  `xpt2046_read` is `XptIrq`, which looks
whether the pen is down, `XptReadX`, and `XptReadY` with the average of the last points;
the pen may move or be lifted in between, and then the pins float (`Sampled`).  `FtRead`
is `ft5406ee8_read`, whose two coordinates are taken from one place.

`FbDev`: `FbOpen` is `fbdev_init` (`mmap`'s error is not `NULL`: `"bad"`),
`FbSetOffset` `fbdev_set_offset`, `FbFlush` `fbdev_flush`.  `Truncated` is the
clipping of the area, `Location` the address each copy goes to and `Source` the
pixel it takes, for 1, 8, 16, 24 and 32 bits; `WrongAfter` says which pixels of
the screen then differ from what LVGL drew.

### MCDrivers

The drivers share nothing, so one instance holds them all: the variable `program`
is chosen at the start, the steps of that driver alone are taken, and the others'
variables keep their initial values.  Their states add up and do not multiply.
Where the halves of a driver share nothing (keys and windows of SDL and X11, keys
and wheel of Win32) each is a program of its own.  `InputTold`, `ScreensShow` and
`DriversTypeOK` are conjunctions of properties of the drivers' modules, which say
what each conjunct means.

## 3. Runs

| Run | Instance | What it shows |
|---|---|---|
| `smm_core` | two groups, three buffers, two sizes, pool of 12 bytes in pages of two, no failure | `num_buffers` counts what is owned, the history has only buffers of the present size, the mapping covers the pool, no more than the preferred number is kept idle, holes are merged and the pool is freed with its last buffer, the statistic is exact, buffers have their group's size, and `Smm` implements `Extents` |
| `smm_faults` | one group, three buffers, pool of 8 bytes, everything may fail | types, tiling, queues, sizes and mapping survive every failure, and every call returns |
| `chain_order` | three buffers, two pixels, frames of up to two areas, a damage cache of three; the compositor releases in order | the buffer drawn to is up to date whenever LVGL draws to it, and no finished frame is left uncommitted |
| `chain_faults` | two buffers, one pixel, any order of release, everything may fail but `malloc` of a split | up to date, no buffer leaks, every flush callback returns |
| `chain_depth`, `chain_resize` | `chain_order` with one constant changed | *violated*, see section 5 |
| `window` | two windows with one decoration each, one of two sizes and one of one; resizing and flushing may fail | objects live exactly as long as their windows, whatever `close_cb` does in the middle of the cycle; no window is destroyed twice; LVGL's display has the size that buffers are acquired with, whatever resize failed (of a buffer that is pending over a resize nothing is said here, see `chain_resize`); `flush_pending` outlives failed flushes and other windows' closing |
| `window_live` | one window, everything may fail | what is flagged is flushed, a close asked for is done or refused, a resize is done |
| `window_errno` | one window | *violated*, see section 5 |
| `input` | two windows with a button to close them; a pointer with two buttons, a screen with two fingers, or a keyboard with two keys and a modifier | focus and presses, see `WaylandInput`: the focus exists or is a decoration of a closed window (nothing worse), closing a window takes no other's focus, what is pressed is held.  Where two fingers are on the screen an up may leave no focus, and a press whose up was taken for the other finger's, like one whose release did not come, does stay (`mixed`, `unheard`) |
| `drivers` | every program of `MCDrivers`, everything may fail | the table below |
| `evdev_axes` | the same | *violated*, see section 5 |

| Property of `drivers` | What it says |
|---|---|
| `SetupSound` | DRM starts only on a connector and a plane that suit, whichever queries fail, though `find_plane` may report success without a plane |
| `ShowsWholeFrames` | DRM implements `WholeFrames`: the screen goes from one finished frame to the next, and in direct mode none takes away what the one before showed; in particular LVGL and `drm_flush` never draw in the buffer that is shown or about to be |
| `FlushEnds` | a flush of DRM ends, unless a commit failed |
| `EveryKeyTold` | evdev tells LVGL of every key event, in order, with what it meant, however draining and reading alternate |
| `Settled` | once the events are drained nothing is pressed while nothing is held (but for a key whose release meant nothing); evdev follows the left button, and a touched screen of which it was told is pressed, as long as no finger has been lifted while others stayed |
| `ScanSound` | the list of devices is never written past its end; a returned path stays valid until the next forced search |
| `InputTold` | `TypedInOrder`: SDL types each byte that found room once and in order, and an ASCII one as itself; `X11Told`: no turn of the wheel is lost or told twice; `GtkSettles`: a read of GTK that no handler ran into tells of the last event; `TouchTold`: AD_touch measures a pen that rests where it is, coordinates of XPT2046 are between two of the same touch, a release has the last point.  Nothing is said of a GTK read that a handler ran into, nor of the point that AD_touch makes of a measurement |
| `ScreensShow` | `ShowsFrame`, `SdlShows`, `X11Shows`, `FbShows`: what is on the screen once a frame has been flushed is what LVGL drew.  Excepted, each in its property: areas of former frames without direct mode (DRM); a second window that is double-buffered, and a frame whose last area is off the screen (SDL); 16-bit coordinates (X11); areas beside the screen, and some padding of lines (`FbDev`) |
| `TypedOnce` | no key, virtual or a character, is typed more often than it was queued on Win32's stack, and when the stack has been popped empty each has been as often, in whatever order, also when the malloc of some failed; unless two presses came to lie next to each other, of which one is lost (section 5) |
| `InitReturns` | `lv_win32_init` returns true with a complete context once the window has been created |

Bounds.  `Bufs` bounds the heap, `PoolLimit` the pool (the code has no limit but
memory; without a limit a failing split makes the pool grow for ever),
`Requests` the sizes asked for, `FrameAreas` the areas of a frame, `HeapBound`
the buffers the compositor keeps.  Three buffers are enough for every case of
`get_from_pool` and `return_to_pool`: a hole with a hole on either side, a split
with an owned buffer after it, an extension of the last hole.  Two sizes make
exact and larger fits, and both differ from the initial size of a group in one
case.  `PreferNumBuffers` is 1 or 2 (3 in the code) so that trimming happens
with three buffers.  A damage cache of three against frames of two areas fills,
wraps and overflows.  TLC's symmetry over buffers (and groups) is used in the
runs without a liveness property; the modules never choose between identities.

Fairness.  `FairSpec` assumes `WF(Proceed)`: a call that has begun goes on,
because its loops wait for nothing and the client's callbacks return.
`FairChainSpec` assumes it of `FlushSteps` and of the manager's steps in the
flush, for the same reason.  Nothing is assumed of LVGL, the user or the
compositor: no new frame, release or configure event need ever come.
`FairWindowSpec` assumes that the application calls `lv_wayland_timer_handler`
for ever, that its `close_cb` returns, and that a flush, or the allocation of a
resized draw buffer, that is tried again and again succeeds at some time: the
driver's retry is worth something only then.  A step that is enabled once per
cycle needs `SF`.

Two windows are enough for the cycle: one that is skipped, closed or created
while the other waits.  One decoration stands for all, as the code treats each
in the same loop.  A window that was removed is not created again; the code
allocates a new struct.  In `window_live` a second window adds nothing but
interleavings, and liveness of two is out of TLC's reach in the time of a run.
Its properties promise nothing after a crash: `CreateUndone`, a missing
decoration and one without a surface lead to one, as does `FlushClosed`.

`input`: two windows are enough for one that closes while the device is at, or goes
to, the other; the close button is the decoration that frees things, the others
only send requests; two fingers are enough for one whose up is taken for the other's, in
the same window or another.  `DiffBound` bounds the wheel, which adds and resets.

`drivers`: two areas make a frame in parts; the three hardware variables of DRM have a
case for each branch of the queries; a queue of three events lets a press, a release
and a second press meet in one drain; two fingers come and go in any order on a panel
of four by one points, with room for them inside and outside the display; a key buffer
of four (32 in the code) fills in the middle of a character of two bytes; three areas,
one of them off the screen, make a frame end on it or not; a window of three by two
pixels has an inner area; one surrogate pair and two letters, two presses at a time
(`LetterBound`) and a virtual key make every case of `WM_CHAR` and put presses next to
each other; two pens, one on a calibration point and one beyond the edge, and a pin
that floats to either, make the acquisition go round `RUN_X`; eight by two pixels with
displays larger in either direction make every case of the clipping, and four devices
have one, 24 or 32 bits per pixel, with lines without padding, padded by whole pixels
or by part of one.

Fairness of `drivers`.  `DrmFair`: the kernel flips what it has accepted, LVGL calls
`wait_cb` until the flush is over and goes on with a frame that it has begun.
`Win32Fair`: both threads run while the window starts.  Each is demanded only of
the program it belongs to: in the other programs the first step of Win32 stays
enabled for ever, and demanding it would leave no fair behaviour at all.  Nothing
is assumed of the user or the devices.

## 4. Proofs

All theorems are about every value of the constants that the named assumptions
allow; those in parentheses have a condition.

| Module | Theorems | Inductive invariant |
|---|---|---|
| `SmmProofs` | `TypeCorrect`, `PoolStaysTiled`, `QueuesStayMatched`, `RefinesExtents` | `IInv`; for the refinement also one lemma per action |
| `SmmGroupProofs` | `MappingCoversPool`, `OwnedBuffersFit`, `HistoryStaysCurrent`, `CountsStayModulo` (`CountsStayOwned`, `PreferenceKept`, `HolesStayMerged`, `UsageStaysRight`) | `IInv` with one more part for each |
| `SwapChainProofs` | `ChainRefinesManager`, `ChainBuffersFit`, `BuffersStayAccounted`, `FramesStayCommitted`, `ChainTypeCorrect` (`PendingShowsAll`) | `IInv`, `ClientInv`, `DrawInv`; under the condition also `UpInv` |
| `WaylandWindowProofs` | `WindowTypeCorrect`, `DrawingFits`, `FlagsStay` (`DriverSurvives`, `ObjectsAreOfOpen`) | `WInv`; under the condition also `Sound` |
| `WaylandInputProofs` | `InputTypeCorrect`, `FocusIsThere`, `FocusFollows`, `NothingSticks` | `InInv` |
| `DrmProofs` | `DrmTypeCorrect`, `SetupIsSound`, `FramesAreShown`, `NothingTorn` (an action property), `DrmShowsWholeFrames` (a refinement) | `DInv`; for the refinement one lemma per action |
| `KernelInputProofs` | `KernelTypeCorrect`, `KeysAreTold`, `DrainedIsSettled`, `ScanStaysSound` | `KInv` |
| `DriversProofs` | `SdlCorrect`, `X11Correct`, `GtkCorrect`, `Win32Correct`, `TouchCorrect`, `FbCorrect`; of `MCDrivers` `DriversTypeCorrect`, `InputIsTold`, `ScreensDoShow`, `KeysTypedOnce` | `SdlInv`, `X11Inv`, `GtkInv`, `W32Inv`, `TouchInv`, `FbInv`, and all with `DInv` and `KInv` |

Each inductive invariant was first checked by TLC on the instance of the
component's run.

### The manager

`TypeOK`, `PoolTiled` and `QueuesMatchOwner` follow from their conjunction `IInv`;
none is inductive alone.  `ReturnToPool` keeps the pool tiled and the types only if
the buffer it returns is linked in the pool, which `QueuesMatchOwner` says of every
buffer in a queue; that a buffer taken from the pool is in no queue yet needs that
holes have no owner and that fresh memory is not linked; and the queues match the
owners after a merge only because the holes that disappear are distinct from the
buffer returned, which tiling gives (offsets grow strictly along the list, so no
buffer is linked twice).  The lemmas go from sequences (`InsertAt`, `RemoveAt`,
`Append`) to tilings (inserting a buffer at a free offset, removing one, moving one,
extending the pool keep a list tiled), to one lemma for each way to place and to
return a buffer, to one lemma per action.

`RefinesExtents`.  `calc_buffer_size` takes the end of a buffer from the offset of
whatever is linked next, so that an owned buffer keeps its extent is a statement
about its neighbours: a hole next to it may be split, merged or disappear, and only
what moves is a hole.  `SmmProofs` shows it for each way to place and return a
buffer, and hence that each step grants, retires or stutters.

`SmmGroupProofs`.  `OwnedFits` and `HistoryCurrent` are proved together (`FitAt`):
a buffer is acquired from a queue, passes a callback, and then enters the history.
The counter is proved equal to the number of buffers modulo 256, or whatever
`NumRange` is; `SmallHeap`, fewer buffers than that, is the condition under which
the counter is the number, and under which a group keeps no unused buffer beyond
its preference: with 256 buffers it would be zero and the code would keep them.
During a call a group may have too many, so `CrowdAt` says which calls excuse it.
`HolesStayMerged` needs that the client's `new_buffer` does not fail: a buffer that
is refused stays in the pool as a hole, next to another perhaps.

`UsageStaysRight` is about a sum over a set of buffers, which the library folds in
an order that it chooses.  The lemmas show that some function sums up every finite
set, and that two such functions agree, by the least number of elements on which
they could differ; so a sum grows by what its set gains.  Remainders are shown to
add for every range, of which the prover only knows fixed ones.  The condition is
that `alloc_buffer` never fails: otherwise a hole that is too large is handed out
whole, is added with what was asked for and taken off with what it holds.

### A window's body

`ChainRefinesManager` shows that `SwapChain` makes only calls that `Smm` allows (a
buffer that it releases is in use by its group, one that it maps is owned, and so
on), so that all of the above holds under it.  That rests on the account of
buffers, `AccountOK`: what is in use is pending, or with the compositor, or in hand
of the call in progress.  `FrameCommitted` and the ring of the damage cache are
further conjuncts.  The pictures' types need an induction along the areas of the
cache that are applied: the folds of `Initialised` are functions on an interval, and
a property that they keep is shown by looking at the least index where it fails
(`Smallest`, `FoldStays`), since natural numbers are well-ordered.

`PendingShowsAll` is `PendingUpToDate`: when LVGL has a buffer to draw to, every byte
of it that LVGL has drawn is as LVGL drew it last.  It is a theorem under
`Conditions`, the four things the driver relies on and section 5 shows it to need:
a byte per pixel, a cache with more places than a frame has areas, the first size
arriving with the first configure, and a latest buffer that no trimming takes
(`KeepsLatest`: buffers are released in order, or there are no more of them than
`PREFER_NUM_BUFFERS`).  Each is a fact about the constants and none about a state.

`PendingUpToDate` is far from inductive: the buffer that is acquired next may be
any that was, so what it lacks has to be known of all of them.  `UpInv` says it along
the history of the buffers, with `Lack(b)` what buffer b does not show:

* `LatestOK`: the latest buffer lacks nothing.
* `RecordOK`: as long as the tags from some buffer on are there, the places between
  its tag and the end of the ring are still unwritten by later areas, and hold all
  that the buffer before it lacks.  The tags are given by their distance from the
  end, `far`, for a tag alone does not tell an empty stretch from a whole round.  Of
  a buffer that LVGL draws to, the distance is at most the flushes of this frame,
  hence below the capacity.
* `PendingOK`, `TurnOK`, `MarkedOK`: which buffer is the latest in each stage of a
  flush, and that those `smm_resize` has marked are out of the history.
* `OrderOK`, if the compositor releases in order: the latest is the last to return,
  and the last that the trimming would take.

An area drawn is either added where no tag reaches (`RoomInRing`), or finds the cache
full, and then the buffer drawn to loses its tag and with it the record of all the
buffers before it (`DrawRecords`).  What
`sme_init_buffer` copies is followed area by area (`CopyFold`, `ApplyFold`: a fold
that begins and steps as it should has the value expected) and adds up to what the
buffer lacked (`DamageSplits`, `SegmentShows`, `AppliedShows`, `InitialisedShows`).
TLC checked `UpInv` before it was proved: on the instances of `chain_order` (3.3
million states) and `chain_faults`, and on one with two buffers of which one is
preferred, in order, with faults and with areas that overlap (2.6 million).

### Windows and input

`WInv` says where the output cycle is in the list of windows (`CycleOK`), that a
pending resize is of a window with a display (`ResizeAsked`), that what is flagged or
drawn is listed, and that the objects which live are those of open windows
(`Furnished`) as long as nothing that is not there was used.  `DriverSurvives` and
`ObjectsAreOfOpen` are proved where a missing decoration, a surface that does not
attach and a missing draw buffer do not occur (`Survived`): with them the code does
use freed or `NULL` memory, as section 5 says.

`InInv` adds where the device is, the focus and the presses.  A press that is not
known to be lost is held over the body of the window that reports it (`PressedOK`).
As long as no two fingers have been on the screen together (`mixed`), a finger is
where the compositor has the device (`SpotOK`), so the window that reports a press has
the device and the focus (`Grip`), and no other window's closing takes the focus from
it.  That is what the handlers of leaving, unplugging and closing rely on, and each of
them is shown to keep it.  With several fingers the driver's one `touch_obj` is that of
the last one which came down, and nothing is said of the focus until all are lifted; a
press whose finger's lift does not reach its window is `unheard`, and section 5 names it.

### DRM

`SetupOK` follows the queries in order, and says of a plane that was found that it is
the first that suits; that there is a first is again the well-ordering of the natural
numbers (`Least`).  `FlipOK` says which of the two buffers the kernel shows, which
waits for a flip, and which LVGL has, at each stage of a flush, with and without
direct mode; `DrawnOK` what has been drawn in each.  `NothingTorn`, that no step draws
in the buffer that is shown or about to be, then is a property of single steps.

`DrmShowsWholeFrames`.  The picture on the screen is the buffer that the kernel
scans out, the one to come is the buffer that waits for its flip, and a picture is
what `current` says of a buffer (`Shown`, `Coming`, `Begun`).  Only `FlushArea` and
`Flip` move them.  An area drawn is in neither buffer by `FlipOK`, so it only becomes
missing on the screen; the last one of a frame hands over a buffer that has all of the
frame by `DrawnOK` and, in direct mode, everything; a commit that fails hands over
nothing (`Refuse`), as the code does.

### Kernel input

What LVGL is told depends on events that are still queued, so the invariant of
`KernelInputProofs` is about the queue: an event that presses something is followed
by its release, or the thing is held (`Downs`); the last event of the left button
agrees with the hand (`LeftOK`); and as long as the fingers on a screen have all
stayed and evdev is told of them (`Touched`), the state is a press or one is queued,
after every lift in the queue (`FingerOK`).  Each is shown to survive one more event
(`OneAppended`, `LeftAppended`, `FingerAppended`), the loss of the first (`Taken`,
`LeftTaken`, `FingerTaken`) and the releases that libinput adds when a device is
replaced (`Released`).  `ScanOK`: the room for devices is a number at
which the list grows, so that a list that does not grow has room left; that 2n + 1 is
one when n is, is a fact about odd divisors (`GrowsAgain`).

### The other drivers

`DriversProofs` has a section for each, and at the end shows that a behaviour of
`MCDrivers` is one of every driver, so that what holds of each holds of it.

* `SdlInv`: LVGL reads on in the middle of a key, and only then is one pressed; what
  was reported are the bytes that were accepted, each widened as C does (`BytesOf`,
  with `WidenedIs`: modulo 256 it is the byte, and a byte of ASCII is itself); and a
  window that asks for no refresh shows what was drawn.
* `X11Inv`: what the window does not show lies in the area that is yet to be put,
  which only grows in a frame (`ExtendHolds`).
* `GtkInv`: what the user did last is in the variables, but for the parts that the
  handler which runs has yet to store; and what a call of the callback has loaded is
  what the variables have, unless a handler ran into it (`torn`).
* `W32Inv`: of each key, what was typed and what the stack has pressed is together at
  most what was queued (`AtMost`), whatever is pushed, popped or fails; it is as much
  (`AsOften`), and no two presses lie next to each other, until two came to do so
  (`merged`); and after a press LVGL reads on.  `OneOnTop` and `OneOffTop` say what an
  entry that is pushed or popped changes, `NothingLost` what the end of the window, and
  `TwoPushed` which of two entries is on top.
* `TouchInv`: while a pen rests, the converter has measured what the state of
  `ad_touch_handler` asked for, and the states after the first coordinate have it
  (`Acquiring`); the points that `xpt2046_read` averages are made of coordinates that
  were measured in this touch (`OfTouch`), since a point of which the pen was lifted
  half way is one too, of what the pins had then; and a mean, which rounds down, lies
  between two of its terms (`MeanBetween`, from `SumExists` and `SumBounds`, again by
  well-ordering).
* `FbInv`: where the lines fit, the address of a pixel is the sum of its line's and
  its column's, and these two can be told apart again like the digits of a number
  (`TwoDigits`), so that no pixel is written over another.

### Assumptions

The proofs rest on the named `ASSUME`s of the modules alone.  Those of note: there
are finitely many buffers (`BufsAssumption`) and keys, a key is not the name of a
button (`KernelInputAssumption`), and the hardware's connectors, encoders and planes
are finite lists of records (`HardwareAssumption`), and a line of the frame buffer
has room for the pixels of a row (`FbAssumption`).

### What is only model-checked

Every invariant and every action property of the passing runs is a theorem, some
under the conditions given above.  What stays with TLC:

* Liveness (`CallsReturn`, `FlushReturns`, `FlaggedSent`, `CloseHonoured`,
  `ResizeHonoured`, `FlushEnds`, `InitReturns`): fairness needs `ENABLED`, which the
  prover does not support.
* Theorems of the library about induction take an operator as a parameter and
  cannot be used; induction along a sequence or a fold is therefore by
  well-ordering, as above.

## 5. Where the code and its comments disagree

* `chain_depth`.  `cache_apply_areas` adds `x1` to a byte offset without scaling
  it (`wayland.c:1319`).  With one byte per pixel the copy is right; with two or
  four it copies other bytes than those damaged, and leaves an old picture.
  This is why the passing runs have `BytesPerPixel = 1`.
* `chain_resize`.  A frame flushed before the first surface configure stays
  pending; a resize before that event (if the driver reads the two configure
  events in two goes) leaves the pending buffer with its old size.  Passing runs
  have `Batched = TRUE`.
* `window_errno`.  `lv_wayland_timer_handler` says that it sets `errno` when a flush
  is outstanding, and looks only at `flush_pending` (`wayland.c:2711`), which closing
  and resizing leave alone.  The call whose flush fails still has `EAGAIN` from
  `wl_display_flush`; the calls after it try no flush, since `shall_flush` was
  local, and set nothing: an application that clears `errno` between calls is no
  longer told, and the requests wait until something else asks for a flush.  A new
  cursor is better off: `cursor_flush_pending` stays set, and every call tries again
  and fails with `EAGAIN` itself.
* `_lv_wayland_flush` reads `window->body` (`wayland.c:2006`) before it looks at
  `closed`, when the body has been freed (`FlushSkipsClosed`).
* `lv_wayland_create_window` without a draw buffer leaves a destroyed window in
  the list that is not `closed`: `lv_wayland_window_is_open(NULL)` is true of
  it, and the timer handler dereferences its missing input devices.
* `sme_init_buffer` calls `cache_purge` only when the next buffer is `NULL`,
  inside a branch where it is not (`wayland.c:1450`), so damage is never purged.
  The cache then overflows although no buffer has more damage than it holds,
  which `wayland.c:1271` gives as the only reason; overflow is handled, at the
  price of whole copies, as `chain_order` shows.

* `evdev_axes`.  `evdev.c:165` defines `evdev_device_set_calibration(ver_min,
  hor_min, ver_max, hor_max)`; `evdev.h:98` declares, and `evdev_init` passes, the
  horizontal limits first.  With a calibration that is not square the two axes get
  each other's limits.

The following are in the models and no run is kept for them.

* `smm_destroy` returns buffers in use without clearing `group_resized`
  (`smm.c:222`).  The buffer's next owner gets it marked, and its first release
  goes to the pool instead of the unused queue.  `FreshBufferUnmarked` of `Smm`,
  added to `MCSmm.cfg`, fails.
* A buffer with exactly as many areas as the damage cache holds has its damage
  start where the next buffer's starts; none of it is applied.  Passing runs have
  `FrameAreas < Capacity`; with `FrameAreas = 3` in `MCSwapChain.cfg`
  `PendingUpToDate` fails.
* With more buffers than preferred and releases out of order, the trimming in
  `smm_release` may return the most recently acquired buffer; `purge_history`
  drops the older ones with it, and the next buffer acquired finds no picture to
  copy.  Passing runs have releases in order, or no more buffers than preferred;
  with `InOrder = FALSE` in `MCSwapChain.cfg` `PendingUpToDate` fails.
* `drm.c:284`.  A failed atomic commit frees the request and keeps the pointer, by
  which `drm_wait_vsync` waits for an event that nobody sends: LVGL stands still.
  `FlushEnds` says so by its exception.
* `drm.c:613`.  When `drm_setup` fails it closes the descriptor and `drm_init` closes
  it again (`closes`), by then perhaps another one.
* `wayland.c:2156`.  `pointer_obj` and `touch_obj` may be left pointing to a
  freed decoration, and the next button, axis, motion or up event uses it (`UseFreed`);
  `FocusExists` allows exactly this.
* `wayland.c:889`.  There is one `touch_obj` for all fingers, and ids are ignored.  A
  second finger's down takes it over, its up clears it, and the first finger's up then
  returns at line 923: the window under the first finger stays pressed for LVGL.  If
  the first finger goes first, it releases, or closes, what the second one is on.
  `FocusTracks` and `PressedIsHeld` name this (`mixed`, `unheard`).
* `evdev.c:188`.  A tracking id of -1 releases, whichever finger it is of, while others
  stay and BTN_TOUCH is not sent again; only an id of zero presses, which a device
  gives to its first touch.  `libinput.c:432` releases with any finger, too.  `Settled`
  is about fingers that have all stayed.
* `wayland.c:985`.  `touch_handle_cancel` does nothing, and `keyboard_handle_leave`
  leaves the key pressed: LVGL has it pressed until something else is.
* `x11.c:148`.  The empty area begins with a lower corner of -1 where `lv_coord_t`
  has 16 bits, so the union of the areas of a frame is wrong.  `X11Shows` is
  stated for 32 bits.
* `sdl.c:207`.  A second display that is double-buffered asks for a refresh and
  does not do it: it shows a frame when the first display is drawn to.
* `sdl.c:146`, `sdl.c:202`.  An area off the screen returns before the refresh, also
  when it is the last of its frame: what was drawn before it shows when something asks
  for a refresh again.  `SdlShows` excepts it (`outside`).
* `sdl_common.c:93`.  Text is UTF-8, of which each byte becomes a key; a byte above 127
  is widened with its sign where `char` has one.
* `gtkdrv.c:184`.  A read that a handler runs into may tell of the key of one event
  and the state of another; the next read makes up for it.
* `win32drv.c:1346`.  Without a window the thread ends and `lv_win32_init` waits for
  ever; `win32drv.c:1320` frees the context a callback may be using; a turn of the wheel
  between `ReadWheel` and `ResetWheel` is lost; and keys pushed together are read in the
  opposite order.  A press that comes to lie next to another is lost: `WM_KEYDOWN` of a
  key, and a character before LVGL reads, are two presses in a row, and the one it reads
  second, which was queued first, is no new key to it; so are a press and what is left
  of a pair when memory runs out.  `TypedOnce` says "each once" where this has not
  happened (`merged`), and "at most once" always.
* `fbdev.c:186`.  Where an area reaches beside the screen the rows after the first
  are skewed (the source advances by the truncated width); where lines are padded
  by part of a pixel, or at all with one bit per pixel, rows go to the wrong place;
  after a failed `mmap` the driver writes to the address -1, which it takes for a
  mapping.  `FbShows` names the cases it leaves out.
* `AD_touch.c:204`.  A point beyond the upper left edge of the calibration is
  reported as a release.
* `libinput.c:260`.  Presses and releases that are drained together collapse into
  the last one, of which `EveryKeyTold` holds of evdev only.

## 6. Plan

The components are modelled as far as section 7 says, and what the runs check is
proved as far as section 4 says.  Two things could be added: the proof of the
liveness properties, which needs a prover that reasons about `ENABLED`, and a
`PendingShowsAll` without its conditions, once the code no longer needs them.

## 7. Not modelled

* The display controllers on a bus (`GC9A01`, `ILI9341`, `R61581`, `SSD1963`,
  `ST7565`, `UC1610`, `SHARP_MIP`): fixed sequences of commands and conversions of
  pixels.  Nothing in them runs concurrently, no call reports a failure, and what
  outlives a call is at most a copy of the screen.
* `win_drv.c`: it calls `lv_task_create`, which the LVGL that the other drivers are
  written for does not have; `win32drv.c` replaces it.
* `sdl_gpu.c`: textures and their transformation, which are SDL's.
* `wl_shell`, the registry's globals and the cursor theme; the picture of
  decorations.
* The configuration templates and the redirecting headers.
* In the modelled drivers, what their sections above name as left out: mostly
  positions, colours and names.
