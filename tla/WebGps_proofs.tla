----------------------------- MODULE WebGps_proofs -----------------------------
(***************************************************************************)
(* Proofs about WebGps for a compass of any even number of points: what the pill    *)
(* says of a missing fix, and that the heading shown turns the short way round.      *)
(***************************************************************************)
EXTENDS WebGps, TLAPS

-----------------------------------------------------------------------------
(* The remainder, where the quotient is 0, 1 or 2.                                *)
LEMMA ModLow == \A p \in Nat \ {0}, x \in Int : 0 <= x /\ x < p => x % p = x
OBVIOUS
LEMMA ModMid == \A p \in Nat \ {0}, x \in Int : p <= x /\ x < 2 * p => x % p = x - p
OBVIOUS
LEMMA ModHigh == \A p \in Nat \ {0}, x \in Int : 2 * p <= x /\ x < 3 * p => x % p = x - 2 * p
OBVIOUS

LEMMA HalfExact == \E h \in Nat \ {0} : Points = 2 * h /\ Points \div 2 = h
<1> DEFINE h == Points \div 2
<1>1. h \in Int /\ Points = 2 * h + (Points % 2) /\ Points % 2 = 0 /\ Points \in Nat \ {0}
  BY PointsAssumption
<1>2. h \in Nat \ {0} /\ Points = 2 * h
  BY <1>1
<1> QED
  BY <1>2

(* lerpHeading turns by at most half a round, to the heading aimed at.               *)
LEMMA DeltaShort ==
  ASSUME NEW a \in Compass, NEW b \in Compass
  PROVE  /\ Delta(a, b) \in Int
         /\ -Points <= 2 * Delta(a, b) /\ 2 * Delta(a, b) < Points
         /\ Delta(a, b) \in {b - a, b - a - Points, b - a + Points}
<1>1. PICK h \in Nat \ {0} : Points = 2 * h /\ Points \div 2 = h
  BY HalfExact
<1> DEFINE x == b - a + Points + h
<1>2. x \in Int /\ 0 <= x /\ x < 3 * Points /\ Points \in Nat \ {0}
  BY <1>1 DEF Compass
<1>3. Delta(a, b) = (x % Points) - h
  BY <1>1 DEF Delta
<1>4. CASE x < Points
  <2>1. x % Points = x
    BY <1>2, <1>4, ModLow
  <2> QED
    BY <1>1, <1>2, <1>3, <1>4, <2>1 DEF Compass
<1>5. CASE Points <= x /\ x < 2 * Points
  <2>1. x % Points = x - Points
    BY <1>2, <1>5, ModMid
  <2> QED
    BY <1>1, <1>2, <1>3, <1>5, <2>1 DEF Compass
<1>6. CASE 2 * Points <= x
  <2>1. x % Points = x - 2 * Points
    BY <1>2, <1>6, ModHigh
  <2> QED
    BY <1>1, <1>2, <1>3, <1>6, <2>1 DEF Compass
<1> QED
  BY <1>2, <1>4, <1>5, <1>6

(* The remainder of a heading that has left the compass by at most a round.          *)
LEMMA Around ==
  ASSUME NEW y \in Int, -Points <= y, y < 2 * Points
  PROVE  /\ (y + Points) % Points \in Compass
         /\ (y + Points) % Points = IF y < 0 THEN y + Points
                                    ELSE IF y < Points THEN y ELSE y - Points
<1> DEFINE x == y + Points
<1>1. Points \in Nat \ {0} /\ x \in Int /\ 0 <= x /\ x < 3 * Points
  BY PointsAssumption
<1>2. CASE y < 0
  <2>1. x % Points = x
    BY <1>1, <1>2, ModLow
  <2> QED
    BY <1>1, <1>2, <2>1 DEF Compass
<1>3. CASE 0 <= y /\ y < Points
  <2>1. x % Points = x - Points
    BY <1>1, <1>3, ModMid
  <2> QED
    BY <1>1, <1>3, <2>1 DEF Compass
<1>4. CASE Points <= y
  <2>1. x % Points = x - 2 * Points
    <3>1. 2 * Points <= x
      BY <1>1, <1>4
    <3> HIDE DEF x
    <3> QED
      BY <1>1, <3>1, ModHigh
  <2> QED
    BY <1>1, <1>4, <2>1 DEF Compass
<1> QED
  BY <1>1, <1>2, <1>3, <1>4

LEMMA ArcIs ==
  ASSUME NEW a \in Compass, NEW b \in Compass
  PROVE  Arc(a, b) = LET n == IF a <= b THEN b - a ELSE b - a + Points
                     IN  IF 2 * n <= Points THEN n ELSE Points - n
<1>1. PICK h \in Nat \ {0} : Points = 2 * h
  BY HalfExact
<1>2. b - a \in Int /\ -Points <= b - a /\ b - a < Points
  BY <1>1 DEF Compass
<1> DEFINE y == b - a
<1>3. (y + Points) % Points = IF y < 0 THEN y + Points
                              ELSE IF y < Points THEN y ELSE y - Points
  <2> HIDE DEF y
  <2>1. y \in Int /\ -Points <= y /\ y < 2 * Points
    BY <1>1, <1>2 DEF y
  <2> QED
    BY <2>1, Around
<1> QED
  BY <1>1, <1>2, <1>3 DEF Arc, Compass

(* Any point on the way is a point of the compass, no farther from the end than the     *)
(* start was.                                                                 *)
LEMMA TowardShortens ==
  ASSUME NEW a \in Compass, NEW b \in Compass, NEW h \in Toward(a, b)
  PROVE  /\ h \in Compass /\ Arc(h, b) <= Arc(a, b)
         /\ ~OverNorth(a, b) => Off(h, b) <= Off(a, b)
<1> DEFINE d == Delta(a, b)
<1>1. /\ d \in Int /\ -Points <= 2 * d /\ 2 * d < Points
      /\ d \in {b - a, b - a - Points, b - a + Points}
  BY DeltaShort
<1>2. PICK n \in IF d < 0 THEN d..0 ELSE 0..d : h = (a + n + Points) % Points
  BY DEF Toward
<1> HIDE DEF d
<1>3. PICK m \in Nat \ {0} : Points = 2 * m
  BY HalfExact
<1>4. n \in Int /\ a \in Int /\ a >= 0 /\ a < Points /\ b \in Int /\ b >= 0 /\ b < Points
  BY <1>1, <1>2, <1>3 DEF Compass
<1>5. a + n \in Int /\ -Points <= a + n /\ a + n < 2 * Points
  BY <1>1, <1>2, <1>3, <1>4
<1> DEFINE y == a + n
<1>6. /\ h \in Compass
      /\ h = IF y < 0 THEN y + Points ELSE IF y < Points THEN y ELSE y - Points
  <2>1. y \in Int /\ -Points <= y /\ y < 2 * Points /\ h = (y + Points) % Points
    BY <1>2, <1>5
  <2> HIDE DEF y
  <2> QED
    BY <2>1, Around
<1>7. Arc(a, b) = IF d < 0 THEN -d ELSE d
  BY <1>1, <1>3, <1>4, ArcIs
<1>8. Arc(h, b) = IF d < 0 THEN n - d ELSE d - n
  BY <1>1, <1>2, <1>3, <1>4, <1>6, ArcIs
<1>9. ASSUME ~OverNorth(a, b) PROVE Off(h, b) <= Off(a, b)
  <2>1. a + d \in Compass
    BY <1>9 DEF OverNorth, d
  <2>2. d = b - a
    BY <1>1, <1>3, <1>4, <2>1 DEF Compass
  <2>3. h = a + n
    BY <1>1, <1>2, <1>3, <1>4, <1>6, <2>2
  <2> QED
    BY <1>1, <1>2, <1>4, <2>2, <2>3 DEF Off
<1> QED
  BY <1>1, <1>2, <1>4, <1>6, <1>7, <1>8, <1>9

-----------------------------------------------------------------------------
(* The invariant.  A transition ends in the newest fix.                             *)
FixInv ==
  /\ lastFix = None => displayFix = None /\ transition = None
  /\ lastFix # None => displayFix # None
  /\ transition # None => transition.to = lastFix

(* The timer counts down what has been waited, and once it has fired without a fix     *)
(* there is something to say; the interval has said it by the time it has run.          *)
HintInv ==
  /\ watch # "off" => waited # None
  /\ waited = None => noFixTimer = None /\ lastFix = None
  /\ waited # None => noFixTimer = IF noFixTimer = None THEN None ELSE NoFixAfter - waited
  /\ (waited # None /\ noFixTimer = None) => waited = NoFixAfter
  /\ (waited # None /\ noFixTimer = None /\ lastFix = None) => gpsStateOverride # None
  /\ (ticked /\ lastFix = None) =>
       pill = IF gpsStateOverride = None THEN "idle" ELSE gpsStateOverride

IInv ==
  /\ TypeOK
  /\ FixInv
  /\ HintInv
  /\ NoFixIsSaid

USE PointsAssumption, NoneAssumption

LEMMA BetweenFixes ==
  ASSUME NEW from \in Fixes, NEW to \in Fixes, NEW t \in Between(from, to)
  PROVE  t \in Fixes
<1>1. CASE from.hdg = None \/ to.hdg = None
  BY <1>1 DEF Between
<1>2. CASE ~(from.hdg = None \/ to.hdg = None)
  <2>1. from.hdg \in Compass /\ to.hdg \in Compass
    BY <1>2 DEF Fixes
  <2>2. PICK h \in Toward(from.hdg, to.hdg) : t = [hdg |-> h]
    BY <1>2 DEF Between
  <2>3. h \in Compass
    BY <2>1, <2>2, TowardShortens
  <2> QED
    BY <2>2, <2>3 DEF Fixes
<1> QED
  BY <1>1, <1>2

LEMMA InvInit == Init => IInv
<1> SUFFICES ASSUME Init PROVE IInv
  OBVIOUS
<1>1. TypeOK
  <2>1. {supported, secure, startGpsDisabled, ticked} \subseteq BOOLEAN
    BY DEF Init
  <2>2. noFixTimer \in 0..NoFixAfter \cup {None} /\ waited \in 0..NoFixAfter \cup {None}
    BY DEF Init
  <2>3. age \in 0..2
    BY DEF Init
  <2>4. pill \in Texts \cup {"idle", "tracking", "stale"}
    BY DEF Init
  <2>5. arrow \in Compass
    BY DEF Init, Compass
  <2> QED
    BY <2>1, <2>2, <2>3, <2>4, <2>5 DEF Init, TypeOK
<1>2. FixInv /\ HintInv
  BY DEF Init, FixInv, HintInv
<1>3. NoFixIsSaid
  BY DEF Init, NoFixIsSaid, Texts
<1> QED
  BY <1>1, <1>2, <1>3 DEF IInv

(* What the interval leaves behind.                                             *)
LEMMA IntervalFixes ==
  ASSUME TypeOK, FixInv, Interval
  PROVE  /\ displayFix' \in Fixes \cup {None}
         /\ transition' \in {transition, None}
         /\ lastFix # None => displayFix' # None
         /\ lastFix = None => UNCHANGED <<displayFix, transition>>
<1>1. CASE lastFix = None
  BY <1>1 DEF Interval, TypeOK
<1>2. CASE lastFix # None
  <2>1. PICK t \in Target : displayFix' \in Between(displayFix, t[1]) /\ transition' = t[2]
    BY <1>2 DEF Interval
  <2>2. lastFix \in Fixes /\ displayFix \in Fixes
    BY <1>2 DEF TypeOK, FixInv
  <2>3. t[1] \in Fixes /\ t[2] \in {transition, None}
    <3>1. CASE mode = "lerp" /\ transition # None
      <4>1. transition.from \in Fixes /\ transition.to \in Fixes
        BY <3>1 DEF TypeOK
      <4>2. CASE t = << transition.to, None >>
        BY <4>1, <4>2
      <4>3. CASE \E u \in Between(transition.from, transition.to) : t = << u, transition >>
        BY <4>1, <4>3, BetweenFixes
      <4> QED
        BY <2>1, <3>1, <4>2, <4>3 DEF Target
    <3>2. CASE ~(mode = "lerp" /\ transition # None)
      <4>1. t = << lastFix, transition >>
        BY <2>1, <3>2 DEF Target
      <4> QED
        BY <2>2, <4>1
    <3> QED
      BY <3>1, <3>2
  <2>4. displayFix' \in Fixes
    BY <2>1, <2>2, <2>3, BetweenFixes
  <2> QED
    BY <1>2, <2>1, <2>3, <2>4
<1> QED
  BY <1>1, <1>2

LEMMA TypeNext == IInv /\ [Next]_vars => TypeOK'
<1> SUFFICES ASSUME IInv, [Next]_vars PROVE TypeOK'
  OBVIOUS
<1> USE DEF IInv, TypeOK, env, tracker, hints, panel
<1>1. CASE ClickStart
  <2>1. noFixTimer' \in 0..NoFixAfter \cup {None} /\ waited' \in 0..NoFixAfter \cup {None}
    BY <1>1 DEF ClickStart, NoFixAfter
  <2>2. gpsStateOverride' \in Texts \cup {None}
    BY <1>1 DEF ClickStart, Texts
  <2>3. {supported', secure', startGpsDisabled', ticked'} \subseteq BOOLEAN
    BY <1>1 DEF ClickStart
  <2>4. watch' \in {"off", "on", "denied"}
    BY <1>1 DEF ClickStart
  <2> QED
    BY <1>1, <2>1, <2>2, <2>3, <2>4 DEF ClickStart
<1>2. CASE NoFixTimer
  BY <1>2 DEF NoFixTimer, Texts
<1>3. ASSUME NEW f \in Fixes, OnFix(f) PROVE TypeOK'
  <2>1. transition' \in [from : Fixes, to : Fixes] \cup {None}
    BY <1>3 DEF OnFix
  <2>2. displayFix' \in Fixes \cup {None} /\ lastFix' \in Fixes \cup {None}
    BY <1>3 DEF OnFix
  <2>3. age' \in 0..2
    BY <1>3 DEF OnFix
  <2>4. {supported', secure', startGpsDisabled', ticked'} \subseteq BOOLEAN
    BY <1>3 DEF OnFix
  <2> QED
    BY <1>3, <2>1, <2>2, <2>3, <2>4 DEF OnFix
<1>4. ASSUME NEW text \in ErrorTexts, OnError(text) PROVE TypeOK'
  BY <1>4 DEF OnError, Texts
<1>5. ASSUME NEW m \in {"hold", "lerp"}, SetMode(m) PROVE TypeOK'
  BY <1>5 DEF SetMode
<1>6. CASE Interval
  <2>1. /\ displayFix' \in Fixes \cup {None} /\ transition' \in {transition, None}
        /\ lastFix # None => displayFix' # None
    BY <1>6, IntervalFixes
  <2>2. arrow' \in Compass
    BY <1>6, <2>1 DEF Interval, Rotation, Compass, Fixes
  <2> QED
    BY <1>6, <2>1, <2>2 DEF Interval, Pill
<1>7. CASE Pass
  <2>1. noFixTimer' \in 0..NoFixAfter \cup {None}
    BY <1>7 DEF Pass, NoFixAfter
  <2>2. waited' \in 0..NoFixAfter \cup {None}
    BY <1>7 DEF Pass, NoFixAfter
  <2>3. age' \in 0..2
    BY <1>7 DEF Pass
  <2>4. {supported', secure', startGpsDisabled', ticked'} \subseteq BOOLEAN
    BY <1>7 DEF Pass
  <2> QED
    BY <1>7, <2>1, <2>2, <2>3, <2>4 DEF Pass
<1>8. CASE UNCHANGED vars
  BY <1>8 DEF vars
<1> QED
  BY <1>1, <1>2, <1>3, <1>4, <1>5, <1>6, <1>7, <1>8 DEF Next

LEMMA FixNext == IInv /\ [Next]_vars => FixInv'
<1> SUFFICES ASSUME IInv, [Next]_vars PROVE FixInv'
  OBVIOUS
<1> USE DEF IInv, FixInv, env, tracker, hints, panel
<1>1. ASSUME NEW f \in Fixes, OnFix(f) PROVE FixInv'
  BY <1>1 DEF OnFix, TypeOK
<1>2. CASE Interval
  BY <1>2, IntervalFixes DEF Interval
<1>3. ASSUME UNCHANGED <<lastFix, displayFix, transition>> PROVE FixInv'
  BY <1>3
<1> QED
  BY <1>1, <1>2, <1>3
     DEF Next, ClickStart, NoFixTimer, OnError, SetMode, Pass, vars

LEMMA HintNext == IInv /\ [Next]_vars => HintInv' /\ NoFixIsSaid'
<1> SUFFICES ASSUME IInv, [Next]_vars PROVE HintInv' /\ NoFixIsSaid'
  OBVIOUS
<1> USE DEF IInv, TypeOK, HintInv, NoFixIsSaid, env, tracker, hints, panel, NoFixAfter, Texts
<1>1. CASE ClickStart
  BY <1>1 DEF ClickStart
<1>2. CASE NoFixTimer
  BY <1>2 DEF NoFixTimer
<1>3. ASSUME NEW f \in Fixes, OnFix(f) PROVE HintInv' /\ NoFixIsSaid'
  BY <1>3 DEF OnFix
<1>4. ASSUME NEW text \in ErrorTexts, OnError(text) PROVE HintInv' /\ NoFixIsSaid'
  BY <1>4 DEF OnError, ErrorTexts
<1>5. ASSUME NEW m \in {"hold", "lerp"}, SetMode(m) PROVE HintInv' /\ NoFixIsSaid'
  BY <1>5 DEF SetMode
<1>6. CASE Interval
  BY <1>6 DEF Interval, Pill
<1>7. CASE Pass
  BY <1>7 DEF Pass
<1>8. CASE UNCHANGED vars
  BY <1>8 DEF vars
<1> QED
  BY <1>1, <1>2, <1>3, <1>4, <1>5, <1>6, <1>7, <1>8 DEF Next

LEMMA InvNext == IInv /\ [Next]_vars => IInv'
BY TypeNext, FixNext, HintNext DEF IInv

LEMMA InvAlways == Spec => []IInv
BY InvInit, InvNext, PTL DEF Spec

(* Every variable keeps its type; a heading never leaves the compass, however it is      *)
(* interpolated.                                                              *)
THEOREM TypeCorrect == Spec => []TypeOK
<1>1. IInv => TypeOK
  BY DEF IInv
<1> QED
  BY <1>1, InvAlways, PTL

(* Whoever has pressed Start is told after 12 s without a fix, and not before.           *)
THEOREM NoFixIsSaidCorrect == Spec => []NoFixIsSaid
<1>1. IInv => NoFixIsSaid
  BY DEF IInv
<1> QED
  BY <1>1, InvAlways, PTL

-----------------------------------------------------------------------------
(* One step of the heading shown and of the arrow.                                *)
LEMMA TurnStep ==
  ASSUME IInv, [Next]_vars, lastFix # None, lastFix' = lastFix, lastFix.hdg # None,
         displayFix.hdg # None, mode' = "hold" \/ transition' = None
  PROVE  /\ displayFix'.hdg # None
         /\ Arc(displayFix'.hdg, lastFix.hdg) <= Arc(displayFix.hdg, lastFix.hdg)
         /\ (arrow = displayFix.hdg /\ ~OverNorth(arrow, lastFix.hdg)) =>
              Off(arrow', lastFix.hdg) <= Off(arrow, lastFix.hdg)
<1>1. lastFix \in Fixes /\ displayFix \in Fixes /\ arrow \in Compass
  BY DEF IInv, TypeOK, FixInv
<1>2. lastFix.hdg \in Compass /\ displayFix.hdg \in Compass
  BY <1>1 DEF Fixes
<1>3. Arc(displayFix.hdg, lastFix.hdg) \in Int /\ Off(arrow, lastFix.hdg) \in Int
  <2> DEFINE a == displayFix.hdg
  <2> DEFINE b == lastFix.hdg
  <2>1. a \in Int /\ b \in Int /\ Points \in Int /\ Points > 0
    BY <1>2 DEF Compass
  <2>2. (b - a + Points) % Points \in Int
    BY <2>1
  <2>3. Off(arrow, b) \in Int
    BY <1>1, <1>2 DEF Off, Compass
  <2> QED
    BY <2>1, <2>2, <2>3 DEF Arc
<1>4. CASE UNCHANGED <<displayFix, arrow>>
  BY <1>3, <1>4
<1>5. CASE Interval
  <2>1. PICK t \in Target : displayFix' \in Between(displayFix, t[1]) /\ transition' = t[2]
    BY <1>5 DEF Interval
  <2>2. mode' = mode
    BY <1>5 DEF Interval
  <2>3. t[1] = lastFix
    <3>1. CASE mode = "lerp" /\ transition # None
      <4>1. mode' # "hold" /\ t[2] = None
        BY <2>1, <2>2, <3>1
      <4>2. t = << transition.to, None >>
        BY <2>1, <3>1, <4>1 DEF Target
      <4> QED
        BY <3>1, <4>2 DEF IInv, FixInv
    <3>2. CASE ~(mode = "lerp" /\ transition # None)
      BY <2>1, <3>2 DEF Target
    <3> QED
      BY <3>1, <3>2
  <2>4. PICK h \in Toward(displayFix.hdg, lastFix.hdg) : displayFix' = [hdg |-> h]
    BY <1>2, <2>1, <2>3 DEF Between
  <2>5. /\ h \in Compass /\ Arc(h, lastFix.hdg) <= Arc(displayFix.hdg, lastFix.hdg)
        /\ ~OverNorth(displayFix.hdg, lastFix.hdg) =>
             Off(h, lastFix.hdg) <= Off(displayFix.hdg, lastFix.hdg)
    BY <1>2, <2>4, TowardShortens
  <2>6. h # None
    BY <2>5 DEF Compass
  <2>7. arrow' = h
    BY <1>5, <2>4, <2>6 DEF Interval, Rotation
  <2> QED
    BY <2>4, <2>5, <2>6, <2>7
<1>6. ASSUME NEW f \in Fixes, OnFix(f) PROVE UNCHANGED <<displayFix, arrow>>
  BY <1>1, <1>6 DEF OnFix, panel
<1> QED
  BY <1>4, <1>5, <1>6
     DEF Next, ClickStart, NoFixTimer, OnError, SetMode, Pass, vars, tracker, panel

(* On a compass of any even number of points the heading shown never turns away from the    *)
(* newest heading, and neither does the arrow where the way does not lead over north.       *)
THEOREM TurnsCorrect == Spec => TurnsShortWay
<1>1. IInv /\ [Next]_vars =>
        [(/\ lastFix # None /\ lastFix' = lastFix /\ lastFix.hdg # None
          /\ displayFix.hdg # None
          /\ mode' = "hold" \/ transition' = None)
         => /\ displayFix'.hdg # None
            /\ Arc(displayFix'.hdg, lastFix.hdg) <= Arc(displayFix.hdg, lastFix.hdg)
            /\ (arrow = displayFix.hdg /\ ~OverNorth(arrow, lastFix.hdg)) =>
                 Off(arrow', lastFix.hdg) <= Off(arrow, lastFix.hdg)]_vars
  BY TurnStep
<1> QED
  BY <1>1, InvAlways, PTL DEF Spec, TurnsShortWay
=============================================================================
