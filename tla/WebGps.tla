------------------------------- MODULE WebGps -------------------------------
(***************************************************************************)
(* The GPS of the page: the Start GPS button with its hints (client/app.js), the       *)
(* GpsTracker (client/gps.js) and the state pill (client/ui.js).                    *)
(*                                                                          *)
(* A unit of time is 4 s, after which a fix is stale; the hint of a missing fix comes    *)
(* after three.  The page's interval of 100 ms runs in every unit.  Of the numbers of a   *)
(* fix the heading is kept, as one of Points points of the compass: it is the one that    *)
(* goes round.  A smoothing or interpolation by some share of the way is any point of     *)
(* the way, both ends included, as the share can be less than a point.                *)
(***************************************************************************)
EXTENDS Integers

CONSTANTS
  Points,  \* of the compass
  None     \* a fix without heading, no transition, no text

Compass == 0..(Points - 1)
Fixes == [hdg : Compass \cup {None}]
ErrorTexts == {"gps-denied", "gps-unavailable", "gps-timeout", "gps-error"}
Texts == ErrorTexts \cup {"gps-not-supported", "gps-no-fix(http)", "gps-no-fix"}

ASSUME PointsAssumption == Points \in Nat \ {0} /\ Points % 2 = 0
ASSUME NoneAssumption == /\ None \notin Int /\ None \notin Texts /\ None \notin Fixes
                         /\ None \notin [from : Fixes, to : Fixes]

VARIABLES
  supported,         \* navigator.geolocation, window.isSecureContext
  secure,
  mode,
  watch,             \* off, on, or denied: no callback will come
  startGpsDisabled,
  noFixTimer,        \* units until it fires, or None
  gpsStateOverride,
  lastFix,           \* [hdg] or None
  displayFix,
  transition,        \* [from, to] or None
  age,               \* units since lastFix, up to 2
  pill,              \* text of the state pill
  arrow,             \* the heading the arrow is rotated to
  ticked,            \* the interval has run since the last event
  waited             \* history: units since the last click, up to NoFixAfter, or None

env == <<supported, secure>>
tracker == <<watch, lastFix, displayFix, transition, age>>
hints == <<startGpsDisabled, noFixTimer, gpsStateOverride, waited>>
panel == <<pill, arrow>>
vars == <<env, mode, tracker, hints, panel, ticked>>

NoFixAfter == 3

Init ==
  /\ supported \in BOOLEAN
  /\ secure \in BOOLEAN
  /\ mode = "hold"
  /\ watch = "off"
  /\ startGpsDisabled = FALSE
  /\ noFixTimer = None
  /\ gpsStateOverride = None
  /\ lastFix = None
  /\ displayFix = None
  /\ transition = None
  /\ age = 0
  /\ pill = "idle"
  /\ arrow = 0
  /\ ticked = FALSE
  /\ waited = None

-----------------------------------------------------------------------------
(* The heading.                                                               *)

(* Mutant: the difference is not taken round the compass.                            *)
DeltaStraight(a, b) == b - a

(* ((b - a + 540) % 360) - 180                                                     *)
Delta(a, b) == ((b - a + Points + Points \div 2) % Points) - Points \div 2

(* Mutant: the result is not normalized.                                            *)
TowardUnbounded(a, b) ==
  LET d == Delta(a, b) IN {a + n : n \in IF d < 0 THEN d..0 ELSE 0..d}

(* lerpHeading for the shares between 0 and 1, normalizeHeading included.               *)
Toward(a, b) ==
  LET d == Delta(a, b)
      way == IF d < 0 THEN d..0 ELSE 0..d
  IN {(a + n + Points) % Points : n \in way}

(* lerpFix and smoothFix: without a heading at either end the target's is taken.        *)
Between(from, to) ==
  IF from.hdg = None \/ to.hdg = None THEN {to}
  ELSE {[hdg |-> h] : h \in Toward(from.hdg, to.hdg)}

-----------------------------------------------------------------------------
(* The Start button.  start throws without the API, and then the button stays enabled.    *)
ClickStart ==
  /\ ~startGpsDisabled
  /\ noFixTimer' = NoFixAfter
  /\ waited' = 0
  /\ startGpsDisabled' = supported
  /\ watch' = IF supported THEN "on" ELSE watch
  /\ gpsStateOverride' = IF ~supported THEN "gps-not-supported"
                         ELSE IF secure THEN None ELSE "gps-no-fix(http)"
  /\ ticked' = FALSE
  /\ UNCHANGED <<env, mode, lastFix, displayFix, transition, age, panel>>

(* Mutant: the hint is given without a look at the tracker.                           *)
NoFixTimerBlind ==
  /\ noFixTimer = 0
  /\ noFixTimer' = None
  /\ gpsStateOverride' = "gps-no-fix"
  /\ ticked' = FALSE
  /\ UNCHANGED <<env, mode, tracker, startGpsDisabled, waited, panel>>

(* The timer of 12 s.                                                          *)
NoFixTimer ==
  /\ noFixTimer = 0
  /\ noFixTimer' = None
  /\ gpsStateOverride' = IF lastFix = None THEN "gps-no-fix" ELSE gpsStateOverride
  /\ ticked' = FALSE
  /\ UNCHANGED <<env, mode, tracker, startGpsDisabled, waited, panel>>

(* The success callback of watchPosition, with a valid position; an invalid one changes    *)
(* nothing.  That the fix is sent if the socket is open leaves no state here.           *)
OnFix(f) ==
  /\ watch = "on"
  /\ transition' = IF lastFix = None THEN None ELSE [from |-> lastFix, to |-> f]
  /\ lastFix' = f
  /\ displayFix' = IF displayFix = None THEN f ELSE displayFix
  /\ age' = 0
  /\ gpsStateOverride' = None
  /\ ticked' = FALSE
  /\ UNCHANGED <<env, mode, watch, startGpsDisabled, noFixTimer, waited, panel>>

(* The error callback; after a denied permission the browser calls no more.              *)
OnError(text) ==
  /\ watch = "on"
  /\ watch' = IF text = "gps-denied" THEN "denied" ELSE "on"
  /\ gpsStateOverride' = text
  /\ ticked' = FALSE
  /\ UNCHANGED <<env, mode, lastFix, displayFix, transition, age, startGpsDisabled,
                 noFixTimer, waited, panel>>

SetMode(m) ==
  /\ mode' = m
  /\ UNCHANGED <<env, tracker, hints, panel, ticked>>

(* What tick aims at, and the transition it leaves.  A transition takes from 0.25 to 2 s,    *)
(* whatever the timestamps say, so it is over when a unit is.                         *)
Target ==
  IF mode = "lerp" /\ transition # None
  THEN {<< transition.to, None >>} \cup
       IF age = 0 THEN {<< t, transition >> : t \in Between(transition.from, transition.to)}
       ELSE {}
  ELSE {<< lastFix, transition >>}

(* What updateGps writes on the pill, and to where it rotates the arrow: a heading that is   *)
(* missing leaves the arrow as it is.                                               *)
Pill == IF lastFix = None THEN "idle" ELSE IF age > 1 THEN "stale" ELSE "tracking"
Rotation == IF lastFix = None THEN 0
            ELSE IF displayFix'.hdg = None THEN arrow ELSE displayFix'.hdg

(* The interval: tick, updateGps, and then applyGpsOverrideIfNeeded, which has the last     *)
(* word as long as there is no fix.                                              *)
Interval ==
  /\ ticked' = TRUE
  /\ \/ /\ lastFix = None
        /\ pill' = IF gpsStateOverride = None THEN Pill ELSE gpsStateOverride
        /\ UNCHANGED <<displayFix, transition, gpsStateOverride>>
     \/ /\ lastFix # None
        /\ \E t \in Target :
             displayFix' \in Between(displayFix, t[1]) /\ transition' = t[2]
        /\ pill' = Pill
        /\ gpsStateOverride' = None
  /\ arrow' = Rotation
  /\ UNCHANGED <<env, mode, watch, lastFix, age, startGpsDisabled, noFixTimer, waited>>

(* A unit of time passes, no later than a timer is due and with the interval in it.         *)
Pass ==
  /\ ticked
  /\ noFixTimer # 0
  /\ ticked' = FALSE
  /\ noFixTimer' = IF noFixTimer = None THEN None ELSE noFixTimer - 1
  /\ age' = IF lastFix # None /\ age < 2 THEN age + 1 ELSE age
  /\ waited' = IF waited = None \/ waited = NoFixAfter THEN waited ELSE waited + 1
  /\ UNCHANGED <<env, mode, watch, lastFix, displayFix, transition, startGpsDisabled,
                 gpsStateOverride, panel>>

Next ==
  \/ ClickStart
  \/ NoFixTimer
  \/ \E f \in Fixes : OnFix(f)
  \/ \E text \in ErrorTexts : OnError(text)
  \/ \E m \in {"hold", "lerp"} : SetMode(m)
  \/ Interval
  \/ Pass

Spec == Init /\ [][Next]_vars

-----------------------------------------------------------------------------
TypeOK ==
  /\ {supported, secure, startGpsDisabled, ticked} \subseteq BOOLEAN
  /\ mode \in {"hold", "lerp"}
  /\ watch \in {"off", "on", "denied"}
  /\ noFixTimer \in 0..NoFixAfter \cup {None}
  /\ gpsStateOverride \in Texts \cup {None}
  /\ lastFix \in Fixes \cup {None}
  /\ displayFix \in Fixes \cup {None}
  /\ transition \in [from : Fixes, to : Fixes] \cup {None}
  /\ age \in 0..2
  /\ pill \in Texts \cup {"idle", "tracking", "stale"}
  /\ arrow \in Compass
  /\ waited \in 0..NoFixAfter \cup {None}

(* A user who has pressed Start and waits is told: 12 s after the last press, without a      *)
(* fix, the pill says why or at least that there is none, and it does not say so before,      *)
(* over repeated presses, errors in between and a timer that fires after a fix.           *)
NoFixIsSaid ==
  /\ (ticked /\ noFixTimer # 0 /\ waited = NoFixAfter /\ lastFix = None) => pill # "idle"
  /\ gpsStateOverride = "gps-no-fix" => waited = NoFixAfter /\ lastFix = None

(* The heading shown, as a number and by the line on the map, never turns away from the       *)
(* newest heading, whatever way round the compass it has to go: with hold always, and with    *)
(* lerp once the transition is over, also when the mode is switched in the middle of one.      *)
(* The arrow is animated from the one number to the other (the transition of styles.css), so   *)
(* that of its turns the same is true only where the short way does not lead over north;       *)
(* where it does, the arrow is seen to go all the way round.                            *)
Off(a, b) == IF a < b THEN b - a ELSE a - b
Arc(a, b) == LET n == (b - a + Points) % Points IN IF n <= Points - n THEN n ELSE Points - n
OverNorth(a, b) == a + Delta(a, b) \notin Compass

TurnsShortWay ==
  [][(/\ lastFix # None /\ lastFix' = lastFix /\ lastFix.hdg # None
      /\ displayFix.hdg # None
      /\ mode' = "hold" \/ transition' = None)
     => /\ displayFix'.hdg # None
        /\ Arc(displayFix'.hdg, lastFix.hdg) <= Arc(displayFix.hdg, lastFix.hdg)
        /\ (arrow = displayFix.hdg /\ ~OverNorth(arrow, lastFix.hdg)) =>
             Off(arrow', lastFix.hdg) <= Off(arrow, lastFix.hdg)]_vars
=============================================================================
