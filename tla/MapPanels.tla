------------------------------ MODULE MapPanels ------------------------------
(***************************************************************************)
(* The map and the roadview of the page: initPublicConfig (client/app.js) starts    *)
(* NaverMap (client/naver-map.js) and then NaverRoadview (client/naver-roadview.js), *)
(* which share one script element of the map provider; the interval of the page       *)
(* draws the fix in both.                                                       *)
(*                                                                          *)
(* Places lie on a line, 4 m apart: the roadview follows from 8 m on, and two places   *)
(* are never the same point of the trail.  What the asynchronous functions do between   *)
(* two awaits that suspend is one step.  Objects of the provider are what the code       *)
(* expects of them: a constructor returns or throws.                                *)
(***************************************************************************)
EXTENDS Integers, Sequences

CONSTANTS
  TrailLimit,  \* trailLimit of the map
  MaxPlace     \* bound: the last place of the line

ASSUME LimitAssumption == TrailLimit \in Nat \ {0} /\ MaxPlace \in Nat

VARIABLES
  start,       \* where initPublicConfig is: what it awaits, or over
  script,      \* the element script[data-naver-maps]
  maps,        \* window.naver.maps is there
  map,         \* none, half (an object drawn on it is missing) or built
  tries,       \* constructions of the panorama that have thrown
  ready,       \* the roadview is ready
  hint,        \* the text below the map
  status,      \* the text below the roadview
  flagged,     \* window.__naverAuthFailed
  inText,      \* the container shows the provider's message of a rejected key
  authFailed,  \* of the map
  fix,         \* place of the newest fix
  trail,
  lastPanoFix

startVars == <<start, script, maps, map, tries, ready>>
authVars == <<flagged, inText, authFailed>>
drawVars == <<trail, lastPanoFix>>
vars == <<startVars, hint, status, authVars, fix, drawVars>>

Places == 0..MaxPlace
NoPlace == -1
Distance(p, q) == IF p < q THEN q - p ELSE p - q

Init ==
  /\ start = "config"
  /\ script = "none"
  /\ maps = FALSE
  /\ map = "none"
  /\ tries = 0
  /\ ready = FALSE
  /\ hint = "initial"
  /\ status = "initial"
  /\ flagged = FALSE
  /\ inText = FALSE
  /\ authFailed = FALSE
  /\ fix = NoPlace
  /\ trail = << >>
  /\ lastPanoFix = NoPlace

-----------------------------------------------------------------------------
(* The start.                                                                 *)

(* No answer, an error, or one that is no JSON (the service worker's start page): the    *)
(* catch writes below the roadview only.                                         *)
ConfigFails ==
  /\ start = "config"
  /\ start' = "over"
  /\ status' = "no config"
  /\ UNCHANGED <<script, maps, map, tries, ready, hint, authVars, fix, drawVars>>

(* Without a client id both panels stay off; with one the map appends the script.       *)
ConfigArrives(clientId) ==
  /\ start = "config"
  /\ IF clientId
     THEN start' = "script" /\ script' = "loading" /\ UNCHANGED <<hint, status>>
     ELSE start' = "over" /\ hint' = "no key" /\ status' = "no key" /\ UNCHANGED script
  /\ UNCHANGED <<maps, map, tries, ready, authVars, fix, drawVars>>

PanoTries == 5

(* Mutant: the loop goes on as long as the constructor throws.                        *)
TryPanoramaForever(ok) ==
  /\ ready' = ok
  /\ IF ok THEN start' = "over" /\ status' = "ready" /\ tries' = tries
     ELSE start' = "panorama" /\ status' = "loading" /\ tries' = (tries + 1) % PanoTries

(* One turn of the loop in NaverRoadview.init; after the last one and its sleep init     *)
(* throws to its own catch.                                                      *)
TryPanorama(ok) ==
  /\ ready' = ok
  /\ IF ok THEN start' = "over" /\ status' = "ready" /\ tries' = tries
     ELSE start' = "panorama" /\ status' = "loading" /\ tries' = tries + 1

(* The map's init goes on after its await, building as far as what, and the roadview's   *)
(* starts.  It finds window.naver.maps, or the element, whose events are over: then      *)
(* it waits for good.                                                           *)
InitsGoOn(what) ==
  /\ map' = what
  /\ authFailed' = (what = "built" /\ flagged)
  /\ hint' = IF what # "built" THEN "failed" ELSE IF flagged THEN "auth" ELSE "ready"
  /\ IF maps' THEN \E ok \in BOOLEAN : TryPanorama(ok)
     ELSE start' = "script again" /\ status' = "loading" /\ UNCHANGED <<tries, ready>>

(* A script that has loaded may still not have defined naver.maps.                    *)
ScriptSettles(outcome, defines) ==
  /\ start = "script"
  /\ script' = outcome
  /\ maps' = (outcome = "loaded" /\ defines)
  /\ \E what \in IF maps' THEN {"none", "half", "built"} ELSE {"none"} : InitsGoOn(what)
  /\ UNCHANGED <<flagged, inText, fix, drawVars>>

(* The sleep of 200 ms is over.                                                  *)
Retry ==
  /\ start = "panorama"
  /\ IF tries < PanoTries THEN \E ok \in BOOLEAN : TryPanorama(ok)
     ELSE start' = "over" /\ status' = "failed" /\ UNCHANGED <<tries, ready>>
  /\ UNCHANGED <<script, maps, map, hint, authVars, fix, drawVars>>

(* The panorama reports that it has a picture, or none near the place.                *)
PanoStatus(s) ==
  /\ ready
  /\ status' = s
  /\ UNCHANGED <<startVars, hint, authVars, fix, drawVars>>

-----------------------------------------------------------------------------
(* A rejected key, which the provider reports late, on the console (where the wrappers    *)
(* of installNaverAuthConsoleProbe hear it) or in the container.                     *)
AuthFails ==
  /\ script \in {"loading", "loaded"}
  /\ \/ flagged' = TRUE /\ UNCHANGED inText
     \/ map = "built" /\ inText' = TRUE /\ UNCHANGED flagged
  /\ UNCHANGED <<startVars, hint, status, authFailed, fix, drawVars>>

(* The interval of _startAuthWatch, which runs once the map is built.                  *)
AuthWatch ==
  /\ map = "built"
  /\ flagged \/ inText
  /\ flagged' = TRUE
  /\ authFailed' = TRUE
  /\ hint' = "auth"
  /\ UNCHANGED <<startVars, status, inText, fix, drawVars>>

-----------------------------------------------------------------------------
(* A fix is anywhere: near the last one or, after a gap, far away.                      *)
Fix(p) ==
  /\ fix' = p
  /\ UNCHANGED <<startVars, hint, status, authVars, drawVars>>

(* Mutant: the limit is forgotten.                                                *)
PushTrailUnbounded(p) ==
  IF trail # << >> /\ trail[Len(trail)] = p THEN trail ELSE Append(trail, p)

PushTrail(p) ==
  IF trail # << >> /\ trail[Len(trail)] = p THEN trail
  ELSE LET longer == Append(trail, p)
       IN IF Len(longer) > TrailLimit THEN Tail(longer) ELSE longer

(* Mutant: a failed key is forgotten as soon as a fix comes.                          *)
DrawMapHint(stale) ==
  /\ trail' = PushTrail(fix)
  /\ hint' = IF stale THEN "stale" ELSE "tracking"

(* NaverMap.updateFromFix on a map that is built.                                   *)
DrawMap(stale) ==
  /\ trail' = PushTrail(fix)
  /\ hint' = IF authFailed THEN hint ELSE IF stale THEN "stale" ELSE "tracking"

(* Mutant: 8 m are not enough.                                                   *)
DrawRoadviewLate(stale) ==
  lastPanoFix' =
    IF ready /\ ~stale /\ (lastPanoFix = NoPlace \/ Distance(lastPanoFix, fix) > 2)
    THEN fix ELSE lastPanoFix

(* NaverRoadview.updateFromFix, without the address line (ReverseGeocode).              *)
DrawRoadview(stale) ==
  lastPanoFix' =
    IF ready /\ ~stale /\ (lastPanoFix = NoPlace \/ Distance(lastPanoFix, fix) >= 2)
    THEN fix ELSE lastPanoFix

(* The interval of the page: on a map that is half built the drawing throws, before or    *)
(* after the trail, and the roadview is not reached.                                *)
Tick(stale) ==
  /\ fix # NoPlace
  /\ \/ map = "built" /\ DrawMap(stale) /\ DrawRoadview(stale)
     \/ map = "none" /\ DrawRoadview(stale) /\ UNCHANGED <<hint, trail>>
     \/ map = "half" /\ trail' \in {trail, PushTrail(fix)} /\ UNCHANGED <<hint, lastPanoFix>>
  /\ UNCHANGED <<startVars, status, authVars, fix>>

Next ==
  \/ ConfigFails
  \/ \E b \in BOOLEAN : ConfigArrives(b) \/ ScriptSettles("loaded", b) \/ Tick(b)
  \/ ScriptSettles("failed", FALSE)
  \/ Retry
  \/ \E s \in {"ok", "nothing near"} : PanoStatus(s)
  \/ AuthFails
  \/ AuthWatch
  \/ \E p \in Places : Fix(p)

Spec == Init /\ [][Next]_vars

(* Every request and every script settles, and timers fire.                           *)
FairSpec ==
  /\ Spec
  /\ WF_vars(ConfigFails \/ \E b \in BOOLEAN : ConfigArrives(b))
  /\ WF_vars(ScriptSettles("failed", FALSE) \/ \E b \in BOOLEAN : ScriptSettles("loaded", b))
  /\ WF_vars(Retry)
  /\ WF_vars(AuthWatch)

-----------------------------------------------------------------------------
ControlTypes ==
  /\ start \in {"config", "script", "script again", "panorama", "over"}
  /\ script \in {"none", "loading", "loaded", "failed"}
  /\ map \in {"none", "half", "built"}
  /\ tries \in 0..PanoTries
  /\ {maps, ready, flagged, inText, authFailed} \subseteq BOOLEAN
  /\ hint \in {"initial", "no key", "failed", "auth", "ready", "tracking", "stale"}
  /\ status \in {"initial", "no config", "no key", "loading", "ready", "failed", "ok",
                 "nothing near"}

DrawTypes ==
  /\ {fix, lastPanoFix} \subseteq Places \cup {NoPlace}
  /\ trail \in Seq(Places) /\ Len(trail) <= TrailLimit

TypeOK == ControlTypes /\ DrawTypes

(* The start comes to an end and the roadview says how, whatever the panorama does,      *)
(* unless the script was of no use: then NaverRoadview.init waits for an event that      *)
(* is over, and goes on saying that it loads.                                       *)
StartEnds ==
  <>\/ start = "over" /\ status \notin {"initial", "loading"}
    \/ start = "script again" /\ ~maps

(* No later fix takes the message of a rejected key away.                              *)
AuthStaysShown == [][hint = "auth" => hint' = "auth"]_vars

(* A rejected key, reported at any time before or after the map is built, is shown       *)
(* below the map in the end, and for good.                                          *)
AuthFailureIsShown ==
  /\ (map = "built" /\ (flagged \/ inText)) ~> (hint = "auth")
  /\ AuthStaysShown

(* A fix that is not stale leaves the roadview less than 8 m behind, however small or     *)
(* large the steps it came in, and the trail ends there, without a point twice in a       *)
(* row; only a map that is half built keeps the roadview behind.                       *)
PanelsFollow ==
  [][\A b \in BOOLEAN : Tick(b) =>
       /\ (ready /\ ~b /\ map # "half") => Distance(lastPanoFix', fix) < 2
       /\ map = "built" =>
            /\ trail'[Len(trail')] = fix
            /\ \A i \in 1..(Len(trail') - 1) : trail'[i] # trail'[i + 1]]_vars
=============================================================================
