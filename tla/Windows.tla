------------------------------- MODULE Windows --------------------------------
(***************************************************************************)
(* The window manager (src/kernel/ui/window_manager.cpp), the session that *)
(* hosts it (kernel/apps/desktop_session.cpp, the older kernel desktop of  *)
(* builtin.cpp) and the window calls of a process (runtime_base.inc).      *)
(* Geometry is the code's, in pixels; what a window shows is a frame.      *)
(* Every operation is a function from the manager's state to its next one. *)
(* An input callback hands its event to the owner's queue, UiEventQueue.   *)
(***************************************************************************)
EXTENDS Integers, Sequences, FiniteSets, TLC

CONSTANTS
  UiPids, ParentOf,     \* processes, and who created each
  Running,              \* those of a session under way, as one of the initial states
  UiTitles,             \* the titles each may give its window
  UiBounds,             \* the rectangles they ask for
  UiFrames,             \* the frames they present
  Pointers, PinsUsed,   \* where the mouse may be, and the pins asked for by number
  Screens, BootScreen,  \* display modes, <<width, height>>, and the first
  MAX_WINDOWS, MAX_DAMAGE_REGIONS,
  MaxUiInputs, MaxUiCalls, MaxModes   \* bounds: input events, calls, mode changes

InitProcess == "init"
NoWindowOwner == "none"
KernelOwner == "kernel"
INVALID_WINDOW == <<0, 0>>

VARIABLES
  wm,         \* the manager: g_slots, g_order, g_focused, the captures, the damage ...
  ui,         \* per process, Context::ui: active and window
  procs_ui,   \* per process: unborn, live, ending (terminated, not yet cleaned up), ended
  display,    \* the mode of the framebuffer
  held,       \* the left button is down
  shown,      \* what the screen shows: layout and, per window, its look
  gesture,    \* history: who took the press of the gesture under way: a window, or the
              \* manager itself (chrome, dock)
  spent       \* inputs, calls and modes so far

windows_vars == <<wm, ui, procs_ui, display, held, shown, gesture, spent>>

HEADER_HEIGHT == 36
MINIMUM_WIDTH == 260
MINIMUM_HEIGHT == 160
DockPins == <<"home", "terminal", "files", "performance", "browser", "monitor", "settings", "about">>

NoGesture == [by |-> "nobody", window |-> INVALID_WINDOW]
R(x, y, w, h) == [x |-> x, y |-> y, w |-> w, h |-> h]
FreeWindowSlot(gen) ==
  [id |-> INVALID_WINDOW, owner |-> NoWindowOwner, title |-> "", bounds |-> R(0, 0, 0, 0),
   restore |-> R(0, 0, 0, 0), state |-> "Normal", before |-> "Normal",
   surface |-> <<>>, gen |-> gen]

-------------------------------------------------------------------------------
\* Lookup
Find(m, id) == id # INVALID_WINDOW /\ m.slots[id[1]].id = id
Exposed(s) == s.id # INVALID_WINDOW /\ s.owner # KernelOwner
FindByTitle(m, title) ==
  LET S == {i \in 1 .. MAX_WINDOWS : Exposed(m.slots[i]) /\ m.slots[i].title = title} IN
  IF S = {} THEN 0 ELSE CHOOSE i \in S : \A j \in S : i <= j
LoginSurface(m) ==
  LET i == FindByTitle(m, "login") IN IF i # 0 /\ m.slots[i].state # "Minimized" THEN i ELSE 0
Tasks(m) == SelectSeq(m.order, LAMBDA i : Exposed(m.slots[i]) /\ m.slots[i].title # "home")

\* belongs_to_session_tree(): up the chain of creators.  One that has ended is still
\* found while it is a zombie; the walk may succeed as long as it is.
Ancestor[n \in Nat, p \in UiPids \cup {InitProcess}] ==
  IF n = 0 \/ p = InitProcess THEN p ELSE Ancestor[n - 1, ParentOf[p]]
InSession(m, p) == \E n \in 0 .. Cardinality(UiPids) : Ancestor[n, p] = m.root

-------------------------------------------------------------------------------
\* Geometry
Clamp(v, lower, upper) == IF upper < lower \/ v < lower THEN lower ELSE IF v > upper THEN upper ELSE v
RectContains(r, p) == p[1] >= r.x /\ p[2] >= r.y /\ p[1] < r.x + r.w /\ p[2] < r.y + r.h
AtLeast(v, lower) == IF v > lower THEN v ELSE lower
AtMost(v, upper) == IF v < upper THEN v ELSE upper

WorkArea(m) == R(34, 50, AtLeast(m.screen[1] - 46, 1), AtLeast(m.screen[2] - 68, 1))
PinnedSectionWidth == 78 + (Len(DockPins) - 1) * (42 + 8)
Ribbon(m) ==
  LET tasks == Len(Tasks(m))
      most == m.screen[1] - 48
      fixed == 24 + PinnedSectionWidth + 16
      asked == IF tasks = 0 THEN fixed ELSE fixed + tasks * 96 + (tasks - 1) * 6
      width == Clamp(asked, AtMost(fixed, most), most) IN
  R((m.screen[1] - width) \div 2, m.screen[2] - 58 - 12, width, 58)
Chrome(b) ==
  LET y == b.y + (HEADER_HEIGHT - 20) \div 2
      control(n) == R(b.x + b.w - 8 - 22 - n * 26, y, 22, 20) IN
  [header |-> R(b.x, b.y, b.w, HEADER_HEIGHT), dismiss |-> control(0), expand |-> control(1),
   minimize |-> control(2), grip |-> R(b.x + b.w - 18, b.y + b.h - 18, 18, 18)]
Content(s) ==
  CASE s.title = "login" -> s.bounds
    [] s.title = "home" -> R(s.bounds.x + 8, s.bounds.y + 8, s.bounds.w - 16, s.bounds.h - 16)
    [] OTHER -> R(s.bounds.x + 4, s.bounds.y + HEADER_HEIGHT, s.bounds.w - 8, s.bounds.h - HEADER_HEIGHT - 4)
DockPinRect(m, i) ==
  LET x == Ribbon(m).x + 12  y == Ribbon(m).y + 8 IN
  IF i = 1 THEN R(x, y, 78, 42) ELSE R(x + 78 + 8 + (i - 2) * 50, y, 42, 42)
DesktopShortcutRect(m, i) ==
  LET ordinal == Cardinality({j \in m.pinned : j < i})
      rows == AtLeast(WorkArea(m).h \div 84, 1) IN
  R(WorkArea(m).x + 20 + (ordinal \div rows) * 88, WorkArea(m).y + 22 + (ordinal % rows) * 84, 76, 78)
RibbonItemRect(m, k) ==
  LET tasks == Len(Tasks(m))
      start == 12 + PinnedSectionWidth + 16
      width == Clamp((Ribbon(m).w - start - 12 - (tasks - 1) * 6) \div tasks, 48, 96) IN
  R(Ribbon(m).x + start + (k - 1) * (width + 6), Ribbon(m).y + 12, width, Ribbon(m).h - 24)
ValidBounds(m, b) ==
  LET a == WorkArea(m) IN
  /\ b.w >= MINIMUM_WIDTH /\ b.h >= MINIMUM_HEIGHT /\ b.w <= a.w /\ b.h <= a.h
  /\ b.x >= a.x /\ b.y >= a.y /\ b.x <= a.x + a.w - b.w /\ b.y <= a.y + a.h - b.h
NormalizeNewWindowBounds(m, title, b) ==
  LET a == WorkArea(m)
      w == AtMost(AtLeast(AtMost(a.w - 36, 580), 360), a.w)
      h == AtMost(AtLeast(AtMost(a.h - 12, 500), 420), a.h) IN
  IF title # "performance" \/ a.w < 320 \/ a.h < 300 THEN b
  ELSE R(a.x + (a.w - w) \div 2, a.y + (a.h - h) \div 2, w, h)

-------------------------------------------------------------------------------
\* Damage: a list of disjoint rectangles, or the whole screen.
MarkFullDirty(m) == [m EXCEPT !.dirty = "Full", !.damage = {}]
ClipDamageRegion(m, r) ==
  LET left == AtLeast(r.x, 0)  top == AtLeast(r.y, 0)
      right == AtMost(r.x + r.w, m.screen[1])  bottom == AtMost(r.y + r.h, m.screen[2]) IN
  IF left >= right \/ top >= bottom THEN R(0, 0, 0, 0) ELSE R(left, top, right - left, bottom - top)
DamageRegionsTouch(a, b) ==
  a.x <= b.x + b.w /\ b.x <= a.x + a.w /\ a.y <= b.y + b.h /\ b.y <= a.y + a.h
UniteDamageRegions(a, b) ==
  LET x == AtMost(a.x, b.x)  y == AtMost(a.y, b.y) IN
  R(x, y, AtLeast(a.x + a.w, b.x + b.w) - x, AtLeast(a.y + a.h, b.y + b.h) - y)
Absorb[n \in Nat, r \in [x : Int, y : Int, w : Int, h : Int], D \in SUBSET [x : Int, y : Int, w : Int, h : Int]] ==
  LET near == {d \in D : DamageRegionsTouch(r, d)}
      d == CHOOSE d \in near : TRUE IN
  IF n = 0 \/ near = {} THEN <<r, D>> ELSE Absorb[n - 1, UniteDamageRegions(r, d), D \ {d}]
InsertDamage(m, merged) ==
  IF Cardinality(merged[2]) >= MAX_DAMAGE_REGIONS THEN MarkFullDirty(m)
  ELSE [m EXCEPT !.dirty = "Regions", !.damage = merged[2] \cup {merged[1]}]
AddClippedRegion(m, r) ==
  IF m.dirty = "Full" \/ r.w = 0 THEN m
  ELSE InsertDamage(m, Absorb[MAX_DAMAGE_REGIONS, r, m.damage])
AddDamageRegion(m, requested) == AddClippedRegion(m, ClipDamageRegion(m, requested))
InvalidateWindow(m, id) ==
  IF ~Find(m, id) \/ m.slots[id[1]].state = "Minimized" THEN m
  ELSE AddDamageRegion(m, m.slots[id[1]].bounds)

-------------------------------------------------------------------------------
\* Focus, order and captures
Visible(s) == Exposed(s) /\ s.state # "Minimized"
Topmost(m, P(_)) ==
  LET S == {k \in DOMAIN m.order : Visible(m.slots[m.order[k]]) /\ P(m.slots[m.order[k]])} IN
  IF S = {} THEN INVALID_WINDOW ELSE m.slots[m.order[CHOOSE k \in S : \A j \in S : j <= k]].id
ChooseTopFocus(m) == [m EXCEPT !.focused = Topmost(m, LAMBDA s : TRUE)]
HitTest(m, p) == Topmost(m, LAMBDA s : RectContains(s.bounds, p))
CancelCapture(m, id) ==
  [m EXCEPT !.dragged = IF @ = id THEN INVALID_WINDOW ELSE @,
            !.resized = IF @ = id THEN INVALID_WINDOW ELSE @,
            !.capture = IF @ = id THEN INVALID_WINDOW ELSE @]
ClearHover(m, id) == [m EXCEPT !.hovered = IF @ = id THEN INVALID_WINDOW ELSE @]
NoCapture(m) ==
  [m EXCEPT !.dragged = INVALID_WINDOW, !.resized = INVALID_WINDOW,
            !.hovered = INVALID_WINDOW, !.capture = INVALID_WINDOW]

Raised(order, i) == Append(SelectSeq(order, LAMBDA j : j # i), i)
Focus(m, id) ==
  IF ~Find(m, id) \/ ~Visible(m.slots[id[1]]) THEN m
  ELSE IF m.focused = id /\ m.order[Len(m.order)] = id[1] THEN m
  ELSE MarkFullDirty([m EXCEPT !.order = Raised(@, id[1]), !.focused = id])

Titled(m, id, titles) == m.slots[id[1]].title \in titles

Minimize(m, id) ==
  IF ~Find(m, id) \/ ~Visible(m.slots[id[1]]) \/ Titled(m, id, {"login"}) THEN m
  ELSE LET c == ClearHover(CancelCapture(m, id), id)
           n == [c EXCEPT !.slots[id[1]].before = m.slots[id[1]].state,
                          !.slots[id[1]].state = "Minimized"] IN
       MarkFullDirty(IF m.focused = id THEN ChooseTopFocus(n) ELSE n)
Maximize(m, id) ==
  LET s == m.slots[id[1]] IN
  IF ~Find(m, id) \/ ~Exposed(s) \/ s.state = "Maximized" \/ s.title = "login" THEN m
  ELSE MarkFullDirty(Focus(
         [CancelCapture(m, id) EXCEPT !.slots[id[1]].restore = IF s.state = "Normal" THEN s.bounds ELSE @,
                                      !.slots[id[1]].state = "Maximized",
                                      !.slots[id[1]].bounds = WorkArea(m)], id))
Restore(m, id) ==
  LET s == m.slots[id[1]]
      maximized == s.state = "Minimized" /\ s.before = "Maximized" IN
  IF ~Find(m, id) \/ ~Exposed(s) \/ s.state = "Normal" \/ s.title = "login" THEN m
  ELSE MarkFullDirty(Focus(
         [CancelCapture(m, id) EXCEPT !.slots[id[1]].state = IF maximized THEN "Maximized" ELSE "Normal",
                                      !.slots[id[1]].bounds = IF maximized THEN WorkArea(m) ELSE s.restore], id))
Bring(m, id) == IF m.slots[id[1]].state = "Minimized" THEN Restore(m, id) ELSE Focus(m, id)

CloseWindow(m, id) ==
  IF ~Find(m, id) THEN m
  ELSE MarkFullDirty(ChooseTopFocus(CancelCapture(ClearHover(
         [m EXCEPT !.order = SelectSeq(@, LAMBDA j : j # id[1]),
                   !.slots[id[1]] = FreeWindowSlot(@.gen)], id), id)))
Dismiss(m, id) == IF Find(m, id) /\ Titled(m, id, {"home"}) THEN Minimize(m, id) ELSE CloseWindow(m, id)
CloseOwnedWindows(m, p) ==
  LET owned == {i \in 1 .. MAX_WINDOWS : m.slots[i].id # INVALID_WINDOW /\ m.slots[i].owner = p} IN
  IF owned = {} THEN m ELSE
  MarkFullDirty(ChooseTopFocus(
    LET gone == [m EXCEPT !.order = SelectSeq(@, LAMBDA j : j \notin owned),
                          !.slots = [i \in DOMAIN @ |-> IF i \in owned THEN FreeWindowSlot(@[i].gen) ELSE @[i]]]
        live(id) == IF Find(gone, id) THEN id ELSE INVALID_WINDOW IN
    [gone EXCEPT !.dragged = live(@), !.resized = live(@), !.hovered = live(@), !.capture = live(@)]))

\* move() of a dragged window and resize_window(): kept inside the work area.
MoveWindow(m, id, x, y) ==
  LET s == m.slots[id[1]]  a == WorkArea(m)
      b == R(Clamp(x, a.x, a.x + a.w - s.bounds.w), Clamp(y, a.y, a.y + a.h - s.bounds.h), s.bounds.w, s.bounds.h) IN
  IF ~Find(m, id) \/ ~Exposed(s) \/ s.state # "Normal" \/ s.title = "login"
  THEN [m EXCEPT !.dragged = INVALID_WINDOW]
  ELSE MarkFullDirty([m EXCEPT !.slots[id[1]].bounds = b, !.slots[id[1]].restore = b])
ResizeWindow(m, id, p) ==
  LET s == m.slots[id[1]]  a == WorkArea(m)
      w == a.x + a.w - s.bounds.x  h == a.y + a.h - s.bounds.y
      b == R(s.bounds.x, s.bounds.y, Clamp(p[1] - s.bounds.x + 1, AtMost(w, MINIMUM_WIDTH), w),
                                     Clamp(p[2] - s.bounds.y + 1, AtMost(h, MINIMUM_HEIGHT), h)) IN
  IF s.state # "Normal" \/ s.title = "login" THEN m
  ELSE MarkFullDirty([m EXCEPT !.slots[id[1]].bounds = b, !.slots[id[1]].restore = b])

-------------------------------------------------------------------------------
\* Pins of the dock and the desktop.  A pin whose application has no window sends its
\* command to Home, which starts the application.
QuietDesk(m) == [m |-> m, to |-> INVALID_WINDOW]
ActivateDockPin(m, i) ==
  LET existing == FindByTitle(m, DockPins[i])
      launcher == FindByTitle(m, "home") IN
  CASE existing # 0 -> QuietDesk(Bring(m, m.slots[existing].id))
    [] existing = 0 /\ (i = 1 \/ launcher = 0) -> QuietDesk(m)
    [] OTHER -> [m |-> m, to |-> m.slots[launcher].id]
SessionPin(m, i, action) ==
  LET existing == FindByTitle(m, DockPins[i]) IN
  CASE action = "focus" -> IF existing = 0 THEN m ELSE Bring(m, m.slots[existing].id)
    [] action # "focus" /\ i = 1 -> [m EXCEPT !.pinned = @ \cup {1}]
    [] action = "set" /\ i # 1 -> MarkFullDirty([m EXCEPT !.pinned = @ \cup {i}])
    [] action = "toggle" /\ i # 1 -> MarkFullDirty([m EXCEPT !.pinned = IF i \in @ THEN @ \ {i} ELSE @ \cup {i}])

MoveHover(m, next) ==
  [InvalidateWindow(IF m.hovered # next THEN InvalidateWindow(m, m.hovered) ELSE m, next)
     EXCEPT !.hovered = next]
UpdatePointerFeedback(m, e) ==
  IF e.type \in {"Move", "Down", "Up", "Other"} THEN MoveHover(m, HitTest(m, e.at)) ELSE m

\* The end of dispatch(): feedback, then the event goes to the capturing window, else to
\* the content below the pointer; keys go to the focused window.
DeliverTo(f, e, system_release) ==
  LET release == e.type = "Up"
      below == HitTest(f, e.at)
      target == IF f.capture # INVALID_WINDOW THEN f.capture
                ELSE IF release \/ below = INVALID_WINDOW THEN INVALID_WINDOW
                ELSE IF RectContains(Content(f.slots[below[1]]), e.at) THEN below ELSE INVALID_WINDOW
      consumed == system_release \/ f.dragged # INVALID_WINDOW \/ f.resized # INVALID_WINDOW
      to == IF e.type = "Key" THEN f.focused ELSE IF consumed THEN INVALID_WINDOW ELSE target IN
  [m |-> IF release THEN [f EXCEPT !.capture = INVALID_WINDOW] ELSE f,
   to |-> IF Find(f, to) THEN to ELSE INVALID_WINDOW]
Deliver(m, e, system_release) == DeliverTo(UpdatePointerFeedback(m, e), e, system_release)

\* A primary press: the dock, a desktop shortcut, a window's chrome, or its content.
PressWindow(f, e, id) ==
  LET s == f.slots[id[1]]
      c == Chrome(s.bounds)
      framed == s.title \notin {"login", "home"} IN
  CASE framed /\ RectContains(c.dismiss, e.at) -> QuietDesk(Dismiss(f, id))
    [] framed /\ RectContains(c.minimize, e.at) -> QuietDesk(Minimize(f, id))
    [] framed /\ RectContains(c.expand, e.at) ->
         QuietDesk(IF s.state = "Maximized" THEN Restore(f, id) ELSE Maximize(f, id))
    [] framed /\ s.state = "Normal" /\ RectContains(c.grip, e.at) -> QuietDesk([f EXCEPT !.resized = id])
    [] framed /\ s.state = "Normal" /\ RectContains(c.header, e.at)
              /\ \A k \in {c.dismiss, c.minimize, c.expand} : ~RectContains(k, e.at) ->
         QuietDesk([f EXCEPT !.dragged = id, !.offset = <<e.at[1] - s.bounds.x, e.at[2] - s.bounds.y>>])
    [] OTHER -> IF RectContains(Content(s), e.at) THEN Deliver([f EXCEPT !.capture = id], e, FALSE) ELSE QuietDesk(f)
PressAt(m, e, open, docked) ==
  LET pins == {i \in DOMAIN DockPins : docked /\ RectContains(DockPinRect(m, i), e.at)}
      items == {k \in DOMAIN Tasks(m) : docked /\ RectContains(RibbonItemRect(m, k), e.at)}
      target == HitTest(m, e.at)
      shortcuts == {i \in m.pinned : open /\ RectContains(DesktopShortcutRect(m, i), e.at)} IN
  CASE pins # {} -> ActivateDockPin(m, CHOOSE i \in pins : \A j \in pins : i <= j)
    [] pins = {} /\ items # {} ->
         QuietDesk(Bring(m, m.slots[Tasks(m)[CHOOSE k \in items : \A j \in items : k <= j]].id))
    [] pins = {} /\ items = {} /\ target # INVALID_WINDOW -> PressWindow(Focus(m, target), e, target)
    [] OTHER -> IF shortcuts # {} THEN ActivateDockPin(m, CHOOSE i \in shortcuts : \A j \in shortcuts : i <= j)
                ELSE Deliver(m, e, FALSE)

Press(m0, e) ==
  LET m == [m0 EXCEPT !.dragged = INVALID_WINDOW, !.resized = INVALID_WINDOW, !.capture = INVALID_WINDOW]
      open == LoginSurface(m) = 0
      docked == open /\ RectContains(Ribbon(m), e.at) IN
  PressAt(IF docked /\ ~m.dock THEN MarkFullDirty([m EXCEPT !.dock = TRUE]) ELSE m, e, open, docked)

\* A movement that resizes or drags, and the release that ends it.
Dragged(m, e) ==
  CASE e.type = "Move" /\ e.left /\ m.resized # INVALID_WINDOW ->
         IF Find(m, m.resized) THEN ResizeWindow(m, m.resized, e.at) ELSE [m EXCEPT !.resized = INVALID_WINDOW]
    [] e.type = "Move" /\ e.left /\ m.resized = INVALID_WINDOW /\ m.dragged # INVALID_WINDOW ->
         MoveWindow(m, m.dragged, e.at[1] - m.offset[1], e.at[2] - m.offset[2])
    [] e.type = "Up" -> [m EXCEPT !.dragged = INVALID_WINDOW, !.resized = INVALID_WINDOW]
    [] OTHER -> m

\* dispatch(): the dock's reveal, the rescue chords, a press, and the rest.
RevealDock(m, e) ==
  LET over == RectContains(Ribbon(m), e.at) IN
  IF e.type = "Move" /\ LoginSurface(m) = 0 /\ m.dock # over THEN MarkFullDirty([m EXCEPT !.dock = over]) ELSE m
Route(m, e) ==
  CASE e.type = "Chord" /\ LoginSurface(m) = 0 -> ActivateDockPin(m, e.pin)
    [] e.type = "Down" -> Press(m, e)
    [] OTHER -> Deliver(Dragged(m, e), [e EXCEPT !.type = IF @ = "Chord" THEN "Key" ELSE @],
                        e.type = "Up" /\ (m.dragged # INVALID_WINDOW \/ m.resized # INVALID_WINDOW))
Dispatch(m, e) == Route(RevealDock(m, e), e)

-------------------------------------------------------------------------------
\* initialize(), and the display's new mode met by the next render.
Initialized(m) ==
  MarkFullDirty(NoCapture([m EXCEPT
    !.slots = [i \in DOMAIN @ |-> FreeWindowSlot(@[i].gen)], !.order = <<>>, !.pinned = {1, 4},
    !.screen = display, !.focused = INVALID_WINDOW, !.dock = TRUE, !.root = NoWindowOwner]))
SetScreenSize(m) ==
  LET n == [m EXCEPT !.screen = display]
      a == WorkArea(n)
      fit(b) == LET w == AtMost(b.w, a.w)  h == AtMost(b.h, a.h) IN
                R(Clamp(b.x, a.x, a.x + a.w - w), Clamp(b.y, a.y, a.y + a.h - h), w, h)
      whole == R(0, 0, display[1], display[2])
      placed(s) ==
        IF s.id = INVALID_WINDOW THEN s
        ELSE IF s.title = "login" THEN [s EXCEPT !.bounds = whole, !.restore = whole]
        ELSE [s EXCEPT !.restore = fit(@),
                       !.bounds = IF "Maximized" \in {s.state} \cup (IF s.state = "Minimized" THEN {s.before} ELSE {})
                                  THEN a ELSE fit(@)] IN
  IF m.screen = display THEN m
  ELSE MarkFullDirty(NoCapture([n EXCEPT !.slots = [i \in DOMAIN @ |-> placed(@[i])]]))

\* create_window(): the two session titles are reserved to the login service and its
\* child; everything else belongs to Home's descendants.
LoginAllowed(p) == ParentOf[p] = InitProcess
HomeAllowed(m, p) ==
  LoginSurface(m) # 0 /\ FindByTitle(m, "home") = 0 /\ ParentOf[p] = m.slots[LoginSurface(m)].owner
PurgeExposedSession(m) ==
  LET kept == {i \in 1 .. MAX_WINDOWS : m.slots[i].owner = KernelOwner} IN
  MarkFullDirty(NoCapture([m EXCEPT
    !.order = SelectSeq(@, LAMBDA i : i \in kept), !.focused = INVALID_WINDOW, !.root = NoWindowOwner,
    !.slots = [i \in DOMAIN @ |-> IF i \in kept THEN @[i] ELSE FreeWindowSlot(@[i].gen)]]))
Vacant(m) == {i \in 1 .. MAX_WINDOWS : m.slots[i].id = INVALID_WINDOW}
NewWindow(m, owner, title, bounds) ==
  LET i == CHOOSE i \in Vacant(m) : \A j \in Vacant(m) : i <= j
      gen == m.slots[i].gen + 1 IN
  MarkFullDirty([m EXCEPT
    !.slots[i] = [FreeWindowSlot(gen) EXCEPT !.id = <<i, gen>>, !.owner = owner, !.title = title,
                    !.bounds = bounds, !.restore = bounds,
                    !.state = IF owner = KernelOwner THEN "Minimized" ELSE "Normal"],
    !.order = Append(@, i), !.root = IF title = "home" THEN owner ELSE @,
    !.focused = IF owner = KernelOwner THEN @ ELSE <<i, gen>>])

-------------------------------------------------------------------------------
\* What a render draws: the login alone while it is up, else every layer; a window's
\* frame, native widgets lit below the pointer, as draw_native_frame() does.
NativeTypes == [v \in 1 .. 4 |->
  {"panel", "label", "button", "input", "list_item", "progress", "separator"}
  \cup (IF v >= 2 THEN {"tile"} ELSE {}) \cup (IF v >= 3 THEN {"metric", "notice", "toggle"} ELSE {})]
NativeCommandValid(c, version) ==
  /\ c.type \in NativeTypes[version]
  /\ "pinned" \in c.flags => version >= 2
  /\ "destructive" \in c.flags => version >= 4 /\ c.type = "button"
  /\ c.type \in {"progress", "metric", "notice", "toggle"} => c.maximum # 0
  /\ c.type = "notice" => c.value \in 1 .. 4 /\ c.maximum = 4
  /\ c.type = "toggle" => c.value <= 1 /\ c.maximum = 1
NativeFrameValid(f) ==
  /\ f.version \in 1 .. 4
  /\ \A k \in DOMAIN f.commands : NativeCommandValid(f.commands[k], f.version)
FrameValid(f) == IF f.kind = "native" THEN NativeFrameValid(f) ELSE f.lines <= 20
Interactive(c) == "disabled" \notin c.flags /\ c.type \in {"button", "input", "list_item", "tile", "toggle"}
DrawNativeFrame(f, hovered) == [k \in DOMAIN f.commands |-> <<f.commands[k], hovered /\ Interactive(f.commands[k])>>]

\* draw_user_window(): nothing for a process that gave its window up; the retained
\* frame, or the background of an empty one.
DrawUserWindow(m, s) ==
  IF s.owner = KernelOwner \/ ~ui[s.owner].active THEN <<"nothing">>
  ELSE IF s.surface = <<>> THEN <<"empty">>
  ELSE IF s.surface[1].kind = "native"
       THEN <<"native", DrawNativeFrame(s.surface[1], m.hovered = s.id)>>
       ELSE <<"text", s.surface[1]>>
Drawn(m) ==
  IF LoginSurface(m) # 0 THEN <<LoginSurface(m)>> ELSE SelectSeq(m.order, LAMBDA i : Visible(m.slots[i]))
Looks(m) == [i \in {Drawn(m)[k] : k \in DOMAIN Drawn(m)} |-> DrawUserWindow(m, m.slots[i])]
Layout(m) ==
  [windows |-> [k \in DOMAIN Drawn(m) |-> LET s == m.slots[Drawn(m)[k]] IN
                                          <<s.id, s.bounds, s.state, m.focused = s.id>>],
   screen |-> m.screen,
   desktop |-> IF LoginSurface(m) # 0 THEN <<>>
               ELSE <<m.pinned, m.dock, FindByTitle(m, "home") # 0, Tasks(m),
                      [k \in DOMAIN Tasks(m) |-> m.slots[Tasks(m)[k]].state]>>]

Covered(r, D) == \E d \in D : d.x <= r.x /\ d.y <= r.y /\ r.x + r.w <= d.x + d.w /\ r.y + r.h <= d.y + d.h
\* A full frame redraws everything; a partial one the pixels of the damaged regions.
FullFrame(m) == [layout |-> Layout(m), looks |-> Looks(m)]
PartialFrame(m) ==
  [shown EXCEPT !.looks = [i \in DOMAIN @ |->
     IF i \in DOMAIN Looks(m) /\ Covered(ClipDamageRegion(m, m.slots[i].bounds), m.damage)
     THEN Looks(m)[i] ELSE @[i]]]
Clean(m) == [m EXCEPT !.dirty = "None", !.damage = {}]
RenderIfNeeded(m0) ==
  LET m == SetScreenSize(m0) IN
  IF m.dirty = "None" THEN wm' = m /\ shown' = shown
  ELSE /\ wm' = Clean(m)
       /\ \/ shown' = FullFrame(m)
          \/ m.dirty = "Regions" /\ shown' = PartialFrame(m)

-------------------------------------------------------------------------------
Boot ==
  [slots |-> [i \in 1 .. MAX_WINDOWS |-> FreeWindowSlot(0)], order |-> <<>>,
   focused |-> INVALID_WINDOW, dragged |-> INVALID_WINDOW, resized |-> INVALID_WINDOW,
   hovered |-> INVALID_WINDOW, capture |-> INVALID_WINDOW, offset |-> <<0, 0>>,
   dirty |-> "None", damage |-> {}, screen |-> BootScreen, dock |-> TRUE, pinned |-> {1, 4},
   root |-> NoWindowOwner]

\* The start of the machine, or of a session: Running lists its processes, Home first,
\* each with a window, and those that ended before.  A start has its share of the bounds.
Started[k \in Nat] ==
  IF k = 0 THEN Boot
  ELSE LET p == Running[k] IN
       NewWindow(Started[k - 1], p, CHOOSE t \in UiTitles[p] : TRUE, CHOOSE b \in UiBounds : TRUE)
WindowsInit ==
  /\ display = BootScreen /\ held = FALSE /\ gesture = NoGesture
  /\ \E k \in {0, Len(Running)} :
       LET m == Started[k]
           live == {Running[j] : j \in 1 .. k}
           ended == {p \in UiPids : \E q \in live : ParentOf[q] = p} \ live IN
       /\ wm = Clean(m)
       /\ procs_ui = [p \in UiPids |-> IF p \in live THEN "live" ELSE IF p \in ended THEN "ended" ELSE "unborn"]
       /\ ui = [p \in UiPids |->
            LET mine == {i \in 1 .. MAX_WINDOWS : m.slots[i].owner = p} IN
            [active |-> mine # {},
             window |-> IF mine = {} THEN INVALID_WINDOW ELSE m.slots[CHOOSE i \in mine : TRUE].id]]
       /\ shown = FullFrame(m)
       /\ spent = [inputs |-> IF k = 0 THEN MaxUiInputs - 1 ELSE 0,
                   calls |-> IF k = 0 THEN 0 ELSE MaxUiCalls - 1,
                   modes |-> IF k = 0 THEN MaxModes ELSE 0]

MouseSame == UNCHANGED <<held, gesture>>
WindowCalls == spent.calls < MaxUiCalls /\ spent' = [spent EXCEPT !.calls = @ + 1]

UiSpawn(p) ==
  /\ procs_ui[p] = "unborn" /\ (ParentOf[p] # InitProcess => procs_ui[ParentOf[p]] = "live")
  /\ procs_ui' = [procs_ui EXCEPT ![p] = "live"]
  /\ MouseSame /\ UNCHANGED <<wm, ui, display, shown, spent>>

\* A login that appears ends the session before it: every process with a window.
Owners(m) == {m.slots[i].owner : i \in {i \in 1 .. MAX_WINDOWS : Exposed(m.slots[i])}}
UiCreate(p) ==
  \E b \in UiBounds, title \in UiTitles[p] :
    LET bounds == NormalizeNewWindowBounds(wm, title, b)
        m == IF title = "login" THEN PurgeExposedSession(wm) ELSE wm IN
    /\ procs_ui[p] = "live" /\ ~ui[p].active /\ ValidBounds(wm, bounds)
    /\ CASE title = "login" -> LoginAllowed(p)
         [] title = "home" -> HomeAllowed(wm, p)
         [] OTHER -> InSession(wm, p)
    /\ procs_ui' = [q \in UiPids |-> IF title = "login" /\ q \in Owners(wm) THEN "ending" ELSE procs_ui[q]]
    /\ IF Vacant(m) = {} THEN wm' = m /\ ui' = [ui EXCEPT ![p].window = INVALID_WINDOW]
       ELSE LET n == NewWindow(m, p, title, bounds) IN
            wm' = n /\ ui' = [ui EXCEPT ![p] = [active |-> TRUE, window |-> n.focused]]
    /\ WindowCalls /\ MouseSame /\ UNCHANGED <<display, shown>>

\* UI_PRESENT, UI_POLL (a window that is gone is reported as closed), UI_CLOSE.
UiPresent(p) == \E f \in UiFrames :
  LET id == ui[p].window IN
  /\ procs_ui[p] = "live" /\ ui[p].active /\ FrameValid(f) /\ Find(wm, id)
  /\ wm' = InvalidateWindow([wm EXCEPT !.slots[id[1]].surface = <<f>>], id)
  /\ WindowCalls /\ MouseSame /\ UNCHANGED <<ui, procs_ui, display, shown>>
UiPoll(p) ==
  /\ procs_ui[p] = "live" /\ ui[p].active /\ ~Find(wm, ui[p].window)
  /\ ui' = [ui EXCEPT ![p] = [active |-> FALSE, window |-> INVALID_WINDOW]]
  /\ MouseSame /\ UNCHANGED <<wm, procs_ui, display, shown, spent>>
UiClose(p) ==
  /\ procs_ui[p] = "live" /\ ui[p].active
  /\ wm' = CloseWindow(wm, ui[p].window)
  /\ ui' = [ui EXCEPT ![p] = [active |-> FALSE, window |-> INVALID_WINDOW]]
  /\ MouseSame /\ UNCHANGED <<procs_ui, display, shown, spent>>
DesktopPin(p) == \E i \in PinsUsed, action \in {"set", "toggle", "focus"} :
  /\ procs_ui[p] = "live"
  /\ action = "focus" => /\ ui[p].active /\ Find(wm, ui[p].window)
                         /\ wm.slots[ui[p].window[1]].title = "home"
  /\ wm' = SessionPin(wm, i, action)
  /\ WindowCalls /\ MouseSame /\ UNCHANGED <<ui, procs_ui, display, shown>>

\* Another process terminates it, or it faults.  The end of a process: cleanup()
\* closes its window, process_entry() every window with its number.
UiTerminate(p) ==
  /\ procs_ui[p] = "live" /\ procs_ui' = [procs_ui EXCEPT ![p] = "ending"]
  /\ WindowCalls /\ MouseSame /\ UNCHANGED <<wm, ui, display, shown>>
ReclaimProcessWindows(m, p) == CloseOwnedWindows(m, p)
\* Mutant: a process that was terminated keeps its window.
UiExit_terminated(p) ==
  /\ procs_ui[p] \in {"live", "ending"}
  /\ procs_ui' = [procs_ui EXCEPT ![p] = "ended"]
  /\ wm' = IF procs_ui[p] = "live" THEN ReclaimProcessWindows(wm, p) ELSE wm
  /\ ui' = [ui EXCEPT ![p] = [active |-> FALSE, window |-> INVALID_WINDOW]]
  /\ MouseSame /\ UNCHANGED <<display, shown, spent>>
UiExit(p) ==
  /\ procs_ui[p] \in {"live", "ending"}
  /\ procs_ui' = [procs_ui EXCEPT ![p] = "ended"]
  /\ wm' = ReclaimProcessWindows(IF ui[p].active THEN CloseWindow(wm, ui[p].window) ELSE wm, p)
  /\ ui' = [ui EXCEPT ![p] = [active |-> FALSE, window |-> INVALID_WINDOW]]
  /\ MouseSame /\ UNCHANGED <<display, shown, spent>>

\* flux_session_input() and flux_session_tick(): an event, then a render; a render.
Event(kind, p, pin) == [type |-> kind, at |-> p, left |-> held, pin |-> pin]
Inputs ==
  {Event(kind, p, 1) : kind \in {"Move", "Down", "Up", "Other", "Wheel"}, p \in Pointers}
  \cup {Event("Chord", <<0, 0>>, pin) : pin \in PinsUsed} \cup {Event("Key", <<0, 0>>, 1)}
SessionInput(e, r) ==
  /\ spent.inputs < MaxUiInputs /\ spent' = [spent EXCEPT !.inputs = @ + 1]
  /\ RenderIfNeeded(r.m)
  /\ held' = (e.type = "Down" \/ (held /\ e.type # "Up"))
  /\ gesture' =
       CASE wm'.screen # wm.screen \/ e.type = "Up" -> NoGesture
         [] wm'.screen = wm.screen /\ e.type = "Down" ->
              [by |-> IF r.m.capture # INVALID_WINDOW THEN "window"
                      ELSE IF HitTest(wm, e.at) # INVALID_WINDOW \/ RectContains(Ribbon(wm), e.at) THEN "system" ELSE "nobody",
               window |-> r.m.capture]
         [] OTHER -> gesture
  /\ UNCHANGED <<ui, procs_ui, display>>
FluxSessionInput(e) == SessionInput(e, Dispatch(wm, e))
FluxSessionTick ==
  /\ SetScreenSize(wm).dirty # "None"
  /\ RenderIfNeeded(wm)
  /\ gesture' = IF wm'.screen # wm.screen THEN NoGesture ELSE gesture
  /\ UNCHANGED <<ui, procs_ui, display, held, spent>>

\* The kernel's own desktop starts the manager afresh, then opens its two windows, the
\* second only if the first could be.
OpenDesktopWindow(m, title, x, y) ==
  LET b == R(x, y, display[1] \div 2 - 45, IF display[2] > 500 THEN 300 ELSE 220) IN
  IF ValidBounds(m, b) /\ Vacant(m) # {} THEN NewWindow(m, KernelOwner, title, b) ELSE m
DesktopStart ==
  LET fresh == Initialized(wm)
      first == OpenDesktopWindow(fresh, "monitor", 30, 60)
      second == OpenDesktopWindow(first, "files", display[1] - (display[1] \div 2 - 45) - 30, 95) IN
  /\ WindowCalls
  /\ wm' = IF first = fresh THEN fresh ELSE second
  /\ MouseSame /\ UNCHANGED <<ui, procs_ui, display, shown>>

ChangeMode == \E d \in Screens :
  /\ d # display /\ spent.modes < MaxModes /\ display' = d
  /\ spent' = [spent EXCEPT !.modes = @ + 1]
  /\ MouseSame /\ UNCHANGED <<wm, ui, procs_ui, shown>>

WindowsNext ==
  \/ \E p \in UiPids : \/ UiSpawn(p) \/ UiCreate(p) \/ UiPresent(p) \/ UiPoll(p) \/ UiClose(p)
                       \/ DesktopPin(p) \/ UiTerminate(p) \/ UiExit(p)
  \/ \E e \in Inputs : FluxSessionInput(e)
  \/ FluxSessionTick \/ DesktopStart \/ ChangeMode

WindowsSpec == WindowsInit /\ [][WindowsNext]_windows_vars

-------------------------------------------------------------------------------
Inside(r, a) == a.x <= r.x /\ a.y <= r.y /\ r.x + r.w <= a.x + a.w /\ r.y + r.h <= a.y + a.h
Occupied == {i \in 1 .. MAX_WINDOWS : wm.slots[i].id # INVALID_WINDOW}

\* The order lists every window once; the focused window is the topmost one that can
\* be seen; what is dragged, resized, captured or hovered is a window on the screen;
\* and every window but the login, wherever it was moved, resized, maximised or
\* restored to, and whatever the display became, lies inside the work area.
DeskExact ==
  /\ {wm.order[k] : k \in DOMAIN wm.order} = Occupied /\ Len(wm.order) = Cardinality(Occupied)
  /\ wm.focused = Topmost(wm, LAMBDA s : TRUE)
  /\ \A id \in {wm.dragged, wm.resized, wm.capture, wm.hovered} \ {INVALID_WINDOW} :
       Find(wm, id) /\ Visible(wm.slots[id[1]])
  /\ \A i \in Occupied : LET s == wm.slots[i] IN
       s.title # "login" => Inside(s.bounds, WorkArea(wm)) /\ Inside(s.restore, WorkArea(wm))

\* A window belongs to a process that has not finished, which knows it as its own; there
\* is one login and one Home; and while the login is up no window of the session before
\* it remains or comes back: every window belongs to the login's descendants.
WindowsOwned ==
  \A i \in Occupied : LET s == wm.slots[i] IN
    /\ s.owner \in UiPids /\ procs_ui[s.owner] \in {"live", "ending"}
    /\ ui[s.owner] = [active |-> TRUE, window |-> s.id]
    /\ s.title \in {"login", "home"} => \A j \in Occupied \ {i} : wm.slots[j].title # s.title
    /\ s.title = "login" => \A j \in Occupied : \E n \in 0 .. Cardinality(UiPids) :
                              Ancestor[n, wm.slots[j].owner] = s.owner

\* What the screen shows is what the manager would draw, but for windows whose content
\* changed inside a region still to be repainted (render_if_needed() draws only those).
ScreenFresh ==
  wm.dirty # "Full" =>
    /\ shown.layout = Layout(wm) /\ DOMAIN shown.looks = DOMAIN Looks(wm)
    /\ \A i \in DOMAIN Looks(wm) :
         \/ shown.looks[i] = Looks(wm)[i]
         \/ wm.dirty = "Regions" /\ Covered(ClipDamageRegion(wm, wm.slots[i].bounds), wm.damage)

\* "While held, a primary-button gesture remains with its original application even
\* outside its bounds [...] unmatched primary releases must not leak to other apps"
\* (window_manager.cpp:1558): movement and the release go to the window that took the
\* press while it exists, and a release to nobody else.
GesturesKept ==
  \A p \in Pointers, kind \in {"Move", "Up"} :
    LET to == Dispatch(wm, Event(kind, p, 1)).to IN
    /\ gesture.by = "window" /\ Find(wm, gesture.window) => to = gesture.window
    /\ kind = "Up" /\ to # INVALID_WINDOW => to = gesture.window

-------------------------------------------------------------------------------
(***************************************************************************)
(* The queue of input events of one process's window                       *)
(* (src/kernel/user/ui_event_queue.hpp): the window's input callback       *)
(* (input_user_window() in runtime_base.inc) pushes, UI_POLL pops.  A       *)
(* pointer event is its button mask and a position, a wheel event its sign *)
(* and distance; only keys can be told apart otherwise.                    *)
(***************************************************************************)

CONSTANTS
  kCapacity,                 \* slots of the ring; one stays free
  Places, KeyCodes, Ticks,   \* positions, keys and wheel distances
  WheelLimit,                \* INT32_MAX
  MaxUiEvents                \* bound: events pushed

VARIABLES
  queue,      \* the events of the ring from tail to head, and dropped
  accepted_events,  \* history: the events push() accepted, none merged
  polled      \* history: the events pop() returned

queue_vars == <<queue, accepted_events, polled>>

Pointer(buttons, place) == [type |-> "pointer", buttons |-> buttons, place |-> place, key |-> 0, wheel |-> 0]
KeyEvent(k) == [type |-> "key", buttons |-> 0, place |-> 0, key |-> k, wheel |-> 0]
Scroll(n) == [type |-> "scroll", buttons |-> 0, place |-> 0, key |-> 0, wheel |-> n]

\* A pointer position is redundant when the next pointer event has the same buttons.
Pointers_after(q, i) == {j \in i + 1 .. Len(q) : q[j].type = "pointer"}
IsRedundantMotion(q, i) ==
  /\ q[i].type = "pointer" /\ Pointers_after(q, i) # {}
  /\ q[CHOOSE j \in Pointers_after(q, i) : \A k \in Pointers_after(q, i) : j <= k].buttons = q[i].buttons

RetireRedundantMotion(q) ==
  LET S == {i \in DOMAIN q : IsRedundantMotion(q, i)}
      i == CHOOSE i \in S : \A j \in S : i <= j IN
  IF S = {} THEN q ELSE SubSeq(q, 1, i - 1) \o SubSeq(q, i + 1, Len(q))

Saturated(n) == IF n > WheelLimit THEN WheelLimit ELSE IF n < -WheelLimit - 1 THEN -WheelLimit - 1 ELSE n
SameSign(a, b) == (a > 0 /\ b > 0) \/ (a < 0 /\ b < 0)

\* push(): an event like the last one is merged with it; a full ring gives up a
\* redundant position or refuses the event.
Push(event) ==
  LET q == queue.events
      n == Len(q)
      room == IF n + 1 = kCapacity THEN RetireRedundantMotion(q) ELSE q IN
  CASE n > 0 /\ event.type = "pointer" /\ q[n].type = "pointer" /\ q[n].buttons = event.buttons ->
         /\ queue' = [queue EXCEPT !.events[n] = event]
         /\ accepted_events' = Append(accepted_events, event)
    [] n > 0 /\ event.type = "scroll" /\ q[n].type = "scroll" /\ SameSign(event.wheel, q[n].wheel) ->
         /\ queue' = [queue EXCEPT !.events[n] = Scroll(Saturated(q[n].wheel + event.wheel))]
         /\ accepted_events' = Append(accepted_events, event)
    [] OTHER ->
         IF Len(room) + 1 = kCapacity
         THEN queue' = [queue EXCEPT !.dropped = @ + 1] /\ accepted_events' = accepted_events
         ELSE /\ queue' = [queue EXCEPT !.events = Append(room, event)]
              /\ accepted_events' = Append(accepted_events, event)
Pop ==
  /\ queue.events # <<>>
  /\ queue' = [queue EXCEPT !.events = Tail(@)] /\ polled' = Append(polled, Head(queue.events))
  /\ UNCHANGED accepted_events

\* input_user_window(): a key press, a movement or button, a turn of the wheel.
Pushed == Len(accepted_events) + queue.dropped < MaxUiEvents
InputUserWindow ==
  \/ \E k \in KeyCodes : Pushed /\ Push(KeyEvent(k)) /\ UNCHANGED polled
  \/ \E b \in {0, 1}, p \in Places : Pushed /\ Push(Pointer(b, p)) /\ UNCHANGED polled
  \/ \E t \in Ticks, s \in {1, -1} : Pushed /\ Push(Scroll(s * t)) /\ UNCHANGED polled

QueueInit == queue = [events |-> <<>>, dropped |-> 0] /\ accepted_events = <<>> /\ polled = <<>>
QueueNext == InputUserWindow \/ Pop
QueueSpec == QueueInit /\ [][QueueNext]_queue_vars

-------------------------------------------------------------------------------
\* What the process has read and will read.
Seen == polled \o queue.events
Keys(s) == SelectSeq(s, LAMBDA e : e.type = "key")

\* The keys, the presses and the releases (a change of the mask, from no button at first).
Before(s, i) == {j \in 1 .. i - 1 : s[j].type = "pointer"}
MaskBefore(s, i) ==
  IF Before(s, i) = {} THEN 0 ELSE s[CHOOSE j \in Before(s, i) : \A k \in Before(s, i) : k <= j].buttons
Edges(s) ==
  LET marked == [i \in DOMAIN s |-> <<s[i].type, s[i].buttons, s[i].key, IF s[i].type = "key" THEN 0 ELSE MaskBefore(s, i)>>] IN
  SelectSeq(marked, LAMBDA e : e[1] = "key" \/ (e[1] = "pointer" /\ e[2] # e[4]))
Clicks(s) == SelectSeq(Edges(s), LAMBDA e : e[1] = "pointer")
LastPlace(s) == LET p == SelectSeq(s, LAMBDA e : e.type = "pointer") IN p[Len(p)]

\* Of the events push() accepted the process sees every key in order, every press and
\* release in order, and the newest pointer position, whatever was merged or retired
\* when the ring was full; the ring never holds more than its capacity less one.
NothingAcceptedIsLost ==
  /\ Len(queue.events) < kCapacity
  /\ Keys(Seen) = Keys(accepted_events) /\ Clicks(Seen) = Clicks(accepted_events)
  /\ Clicks(Seen) # <<>> => LastPlace(Seen) = LastPlace(accepted_events)

\* The desktop as a user and a process see it: the windows, their owners, the screen,
\* the gestures and the events of the queue are what the calls and the mouse made them.
DesktopExact == DeskExact /\ WindowsOwned /\ ScreenFresh /\ GesturesKept /\ NothingAcceptedIsLost
===============================================================================
