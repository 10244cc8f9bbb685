---- MODULE NavMenu ----
(***************************************************************************)
(* The drop-down menus of the header (components/Header.tsx): one menu per *)
(* kind of product, opened by the pointer or by the keyboard focus, closed *)
(* at once by Escape, a click or the focus leaving, and after a delay when *)
(* the pointer leaves.  The delay is a timer that any opening cancels.     *)
(***************************************************************************)

CONSTANTS Kinds,   \* the kinds that have a menu
          None     \* no menu

ASSUME NavMenuConstants == None \notin Kinds

VARIABLES
    openKind,    \* the menu that is open
    closeTimer,  \* a close is scheduled
    pointer,     \* the menu the pointer is on, with its panel
    focus        \* the menu the keyboard focus is in

navVars == <<openKind, closeTimer, pointer, focus>>

KindOrNone == Kinds \cup {None}

NavTypeOK ==
    /\ openKind \in KindOrNone
    /\ closeTimer \in BOOLEAN
    /\ pointer \in KindOrNone /\ focus \in KindOrNone

NavInit == openKind = None /\ closeTimer = FALSE /\ pointer = None /\ focus = None

\* Slip: opening leaves the scheduled close alone.
OpenLate(k) == openKind' = k /\ UNCHANGED closeTimer
OpenMenu(k) == openKind' = k /\ closeTimer' = FALSE

\* A panel that closes takes the focus with it when one of its links had it;
\* the browser tells nobody.
Close == openKind' = None /\ focus' \in {focus, None}

\* So does a panel whose place another takes.
MakeWay(k) == focus' = focus \/ (openKind # k /\ focus = openKind /\ focus' = None)

PointerEnters(k) ==
    /\ pointer = None
    /\ pointer' = k
    /\ OpenMenu(k)
    /\ MakeWay(k)

\* Slip: leaving schedules nothing.
NoSchedule == UNCHANGED closeTimer
ScheduleClose == closeTimer' = TRUE

PointerLeaves ==
    /\ pointer # None
    /\ pointer' = None
    /\ ScheduleClose
    /\ UNCHANGED <<openKind, focus>>

\* The focus comes in, moves on to another menu, or moves within the open one.
FocusEnters(k) ==
    /\ focus # k \/ openKind = k
    /\ focus' = k
    /\ OpenMenu(k)
    /\ UNCHANGED pointer

FocusLeaves ==
    /\ focus # None
    /\ focus' = None
    /\ openKind' = None
    /\ UNCHANGED <<closeTimer, pointer>>

\* A click of the pointer, or the keyboard's, on the heading of a menu.
ToggleMenu(k) ==
    /\ k \in {pointer, focus}
    /\ IF openKind = k THEN Close ELSE openKind' = k /\ MakeWay(k)
    /\ UNCHANGED <<closeTimer, pointer>>

Escape ==
    /\ openKind # None
    /\ Close
    /\ UNCHANGED <<closeTimer, pointer>>

TimerFires ==
    /\ closeTimer
    /\ closeTimer' = FALSE
    /\ Close
    /\ UNCHANGED pointer

\* A link of the open panel: the menu closes and the tab goes to that category.
FollowLink(k) ==
    /\ openKind = k
    /\ k \in {pointer, focus}
    /\ Close
    /\ UNCHANGED <<closeTimer, pointer>>

NavNext ==
    \/ \E k \in Kinds :
         PointerEnters(k) \/ FocusEnters(k) \/ ToggleMenu(k) \/ FollowLink(k)
    \/ PointerLeaves \/ FocusLeaves \/ Escape \/ TimerFires

NavSpec == NavInit /\ [][NavNext]_navVars

-----------------------------------------------------------------------------

\* A menu never snaps shut under the pointer: no close is scheduled while the
\* pointer is on one of the menus (Header.tsx:39-41).
NeverUnderPointer == closeTimer => pointer = None

\* An open menu has the pointer or the focus on the menus, or is about to close:
\* none is left hanging over the page (Header.tsx:115-118, 128).
NoneLeftOpen == openKind # None => pointer # None \/ focus # None \/ closeTimer

====
