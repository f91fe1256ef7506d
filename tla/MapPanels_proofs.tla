--------------------------- MODULE MapPanels_proofs ---------------------------
(***************************************************************************)
(* What holds of the map and the roadview for every length of the trail and of     *)
(* the line: both follow the vehicle, and a rejected key stays on the page.         *)
(***************************************************************************)
EXTENDS MapPanels, SequenceTheorems, TLAPS

-----------------------------------------------------------------------------
(* The inductive invariant.                                                      *)

(* Until the script has settled nothing is built and nobody has said anything.          *)
StartInv ==
  start \in {"config", "script"} =>
    map = "none" /\ tries = 0 /\ ~authFailed /\ hint = "initial"

(* The message of a rejected key is that of a map which knows, and so draws no other.    *)
AuthInv == hint = "auth" => authFailed /\ map = "built"

Apart(q) == \A i \in 1..(Len(q) - 1) : q[i] # q[i + 1]

IInv ==
  /\ TypeOK
  /\ StartInv
  /\ AuthInv
  /\ Apart(trail)

-----------------------------------------------------------------------------
(* The trail.                                                                  *)

(* A place is the end of the trail after it is pushed; the trail keeps its limit, and no      *)
(* place is there twice in a row.                                                   *)
LEMMA PushTrailKeeps ==
  ASSUME trail \in Seq(Places), Len(trail) <= TrailLimit, Apart(trail), NEW p \in Places
  PROVE  /\ PushTrail(p) \in Seq(Places) /\ Len(PushTrail(p)) \in 1..TrailLimit
         /\ PushTrail(p)[Len(PushTrail(p))] = p
         /\ Apart(PushTrail(p))
<1> DEFINE n == Len(trail)
<1>1. n \in Nat /\ TrailLimit \in Nat /\ TrailLimit >= 1
  BY LimitAssumption
<1>2. CASE trail # << >> /\ trail[n] = p
  <2>1. n >= 1 /\ PushTrail(p) = trail
    BY <1>2, EmptySeq, LenProperties DEF PushTrail
  <2> QED
    BY <1>1, <1>2, <2>1
<1>3. CASE ~(trail # << >> /\ trail[n] = p)
  <2> DEFINE longer == Append(trail, p)
  <2>1. /\ longer \in Seq(Places) /\ Len(longer) = n + 1
        /\ \A i \in 1..n : longer[i] = trail[i]
        /\ longer[n + 1] = p
    BY AppendProperties
  <2>2. PushTrail(p) = IF Len(longer) > TrailLimit THEN Tail(longer) ELSE longer
    BY <1>3 DEF PushTrail
  <2> HIDE DEF longer
  <2>3. Apart(longer)
    <3> SUFFICES ASSUME NEW i \in 1..(Len(longer) - 1) PROVE longer[i] # longer[i + 1]
      BY DEF Apart
    <3>1. CASE i = n
      <4>1. n >= 1 /\ trail # << >>
        BY <1>1, <3>1
      <4> QED
        BY <1>1, <1>3, <2>1, <3>1, <4>1
    <3>2. CASE i # n
      <4>1. i \in 1..(n - 1) /\ i \in 1..n /\ i + 1 \in 1..n
        BY <1>1, <2>1, <3>2
      <4> QED
        BY <2>1, <4>1 DEF Apart
    <3> QED
      BY <3>1, <3>2
  <2>4. CASE Len(longer) <= TrailLimit
    BY <1>1, <2>1, <2>2, <2>3, <2>4
  <2>5. CASE Len(longer) > TrailLimit
    <3>1. longer # << >> /\ n >= 1
      BY <1>1, <2>1, <2>5
    <3>2. /\ Tail(longer) \in Seq(Places) /\ Len(Tail(longer)) = n
          /\ \A i \in 1..n : Tail(longer)[i] = longer[i + 1]
      BY <1>1, <2>1, <3>1, HeadTailProperties
    <3> DEFINE t == Tail(longer)
    <3> HIDE DEF t
    <3>3. Apart(t)
      <4> SUFFICES ASSUME NEW i \in 1..(n - 1) PROVE t[i] # t[i + 1]
        BY <3>2 DEF Apart, t
      <4>1. t[i] = longer[i + 1] /\ t[i + 1] = longer[(i + 1) + 1]
        BY <1>1, <3>2 DEF t
      <4>2. i + 1 \in 1..(Len(longer) - 1)
        BY <1>1, <2>1
      <4> QED
        BY <2>3, <4>1, <4>2 DEF Apart
    <3>4. t[n] = p /\ n \in 1..TrailLimit
      BY <1>1, <2>1, <2>5, <3>1, <3>2 DEF t
    <3>5. PushTrail(p) = t
      BY <1>1, <2>1, <2>2, <2>5 DEF t
    <3> QED
      BY <3>2, <3>3, <3>4, <3>5 DEF t
  <2> QED
    BY <1>1, <2>1, <2>4, <2>5
<1> QED
  BY <1>2, <1>3

-----------------------------------------------------------------------------
(* The invariant holds always.                                                    *)

LEMMA InvInit == Init => IInv
<1> SUFFICES ASSUME Init PROVE IInv
  OBVIOUS
<1>1. /\ << >> \in Seq(Places) /\ Len(<< >>) = 0 /\ 0 <= TrailLimit /\ 0 \in 0..PanoTries
  BY EmptySeq, LimitAssumption DEF PanoTries
<1>2. TypeOK
  BY <1>1 DEF Init, TypeOK, ControlTypes, DrawTypes
<1>3. Apart(trail)
  BY <1>1 DEF Init, Apart
<1> QED
  BY <1>2, <1>3 DEF Init, IInv, StartInv, AuthInv

(* The types of a step that goes on with neither the start nor the texts.               *)
LEMMA ControlKept ==
  ASSUME ControlTypes, UNCHANGED <<start, script, map, tries, hint, status>>,
         {maps', ready', flagged', inText', authFailed'} \subseteq BOOLEAN
  PROVE  ControlTypes'
<1>1. /\ start' \in {"config", "script", "script again", "panorama", "over"}
      /\ script' \in {"none", "loading", "loaded", "failed"}
      /\ map' \in {"none", "half", "built"} /\ tries' \in 0..PanoTries
  BY DEF ControlTypes
<1>2. /\ hint' \in {"initial", "no key", "failed", "auth", "ready", "tracking", "stale"}
      /\ status' \in {"initial", "no config", "no key", "loading", "ready", "failed", "ok",
                     "nothing near"}
  BY DEF ControlTypes
<1> QED
  BY <1>1, <1>2 DEF ControlTypes

LEMMA InvNext == IInv /\ [Next]_vars => IInv'
<1> SUFFICES ASSUME IInv, [Next]_vars PROVE IInv'
  OBVIOUS
<1> USE DEF startVars, authVars, drawVars
<1>1. /\ TypeOK /\ ControlTypes /\ StartInv /\ AuthInv /\ Apart(trail)
      /\ tries \in 0..PanoTries /\ fix \in Places \cup {NoPlace}
  BY DEF IInv, TypeOK, ControlTypes, DrawTypes
(* All but the interval leaves the trail alone.                                      *)
<1>2. ASSUME UNCHANGED drawVars, ControlTypes', fix' \in Places \cup {NoPlace}, StartInv', AuthInv'
      PROVE  IInv'
  BY <1>1, <1>2 DEF IInv, TypeOK, DrawTypes, Apart
<1>3. ASSUME NEW ok \in BOOLEAN, TryPanorama(ok), tries < PanoTries
      PROVE  /\ tries' \in 0..PanoTries /\ ready' \in BOOLEAN
             /\ start' \in {"over", "panorama"} /\ status' \in {"ready", "loading"}
  BY <1>1, <1>3 DEF TryPanorama, PanoTries
<1>4. CASE ConfigFails
  BY <1>1, <1>2, <1>4 DEF ConfigFails, ControlTypes, StartInv, AuthInv
<1>5. ASSUME NEW clientId \in BOOLEAN, ConfigArrives(clientId) PROVE IInv'
  BY <1>1, <1>2, <1>5 DEF ConfigArrives, ControlTypes, StartInv, AuthInv
<1>6. ASSUME NEW outcome \in {"loaded", "failed"}, NEW defines \in BOOLEAN,
             ScriptSettles(outcome, defines)
      PROVE  IInv'
  <2>1. PICK what \in {"none", "half", "built"} : InitsGoOn(what)
    BY <1>6 DEF ScriptSettles
  <2>2. tries = 0 /\ tries < PanoTries /\ maps' \in BOOLEAN /\ script' \in {"loaded", "failed"}
    BY <1>1, <1>6 DEF ScriptSettles, StartInv, PanoTries
  <2>3. /\ tries' \in 0..PanoTries /\ ready' \in BOOLEAN
        /\ start' \in {"over", "panorama", "script again"} /\ status' \in {"ready", "loading"}
    <3>1. CASE maps'
      BY <1>3, <2>1, <2>2, <3>1 DEF InitsGoOn
    <3>2. CASE ~maps'
      BY <1>1, <2>1, <3>2 DEF InitsGoOn, ControlTypes
    <3> QED
      BY <3>1, <3>2
  <2>4. /\ map' = what /\ authFailed' = (what = "built" /\ flagged)
        /\ hint' = IF what # "built" THEN "failed" ELSE IF flagged THEN "auth" ELSE "ready"
        /\ UNCHANGED <<flagged, inText, fix, drawVars>>
    BY <1>6, <2>1 DEF InitsGoOn, ScriptSettles
  <2>5. StartInv' /\ AuthInv'
    BY <2>3, <2>4 DEF StartInv, AuthInv
  <2>6. /\ flagged \in BOOLEAN /\ authFailed' \in BOOLEAN
        /\ hint' \in {"failed", "auth", "ready"}
    BY <1>1, <2>4 DEF ControlTypes
  <2>7. ControlTypes'
    BY <1>1, <2>2, <2>3, <2>4, <2>6 DEF ControlTypes
  <2> QED
    BY <1>1, <1>2, <2>4, <2>5, <2>7
<1>7. CASE Retry
  <2>1. UNCHANGED <<script, maps, map, hint, authVars, fix, drawVars>> /\ start = "panorama"
    BY <1>7 DEF Retry
  <2>2. /\ tries' \in 0..PanoTries /\ ready' \in BOOLEAN
        /\ start' \in {"over", "panorama"} /\ status' \in {"ready", "loading", "failed"}
    <3>1. CASE tries < PanoTries
      BY <1>3, <1>7, <3>1 DEF Retry
    <3>2. CASE ~(tries < PanoTries)
      BY <1>1, <1>7, <3>2 DEF Retry, ControlTypes
    <3> QED
      BY <3>1, <3>2
  <2>3. ControlTypes' /\ StartInv' /\ AuthInv'
    <3>1. ControlTypes'
      BY <1>1, <2>1, <2>2 DEF ControlTypes
    <3>2. StartInv' /\ AuthInv'
      BY <1>1, <2>1, <2>2 DEF StartInv, AuthInv
    <3> QED
      BY <3>1, <3>2
  <2> QED
    BY <1>1, <1>2, <2>1, <2>3
<1>8. ASSUME NEW s \in {"ok", "nothing near"}, PanoStatus(s) PROVE IInv'
  <2>1. ControlTypes'
    BY <1>1, <1>8 DEF PanoStatus, ControlTypes
  <2>2. StartInv' /\ AuthInv'
    BY <1>1, <1>8 DEF PanoStatus, StartInv, AuthInv
  <2> QED
    BY <1>1, <1>2, <1>8, <2>1, <2>2 DEF PanoStatus
<1>9. CASE AuthFails
  <2>1. ControlTypes'
    <3>1. {maps', ready', flagged', inText', authFailed'} \subseteq BOOLEAN
      BY <1>1, <1>9 DEF AuthFails, ControlTypes
    <3>2. UNCHANGED <<start, script, map, tries, hint, status>>
      BY <1>9 DEF AuthFails
    <3> QED
      BY <1>1, <3>1, <3>2, ControlKept
  <2>2. StartInv' /\ AuthInv'
    BY <1>1, <1>9 DEF AuthFails, StartInv, AuthInv
  <2> QED
    BY <1>1, <1>2, <1>9, <2>1, <2>2 DEF AuthFails
<1>10. CASE AuthWatch
  <2>1. ControlTypes'
    BY <1>1, <1>10 DEF AuthWatch, ControlTypes
  <2>2. StartInv' /\ AuthInv'
    BY <1>1, <1>10 DEF AuthWatch, StartInv, AuthInv
  <2> QED
    BY <1>1, <1>2, <1>10, <2>1, <2>2 DEF AuthWatch
<1>11. ASSUME NEW p \in Places, Fix(p) PROVE IInv'
  <2>1. ControlTypes'
    <3>1. {maps', ready', flagged', inText', authFailed'} \subseteq BOOLEAN
      BY <1>1, <1>11 DEF Fix, ControlTypes
    <3>2. UNCHANGED <<start, script, map, tries, hint, status>>
      BY <1>11 DEF Fix
    <3> QED
      BY <1>1, <3>1, <3>2, ControlKept
  <2>2. StartInv' /\ AuthInv'
    BY <1>1, <1>11 DEF Fix, StartInv, AuthInv
  <2> QED
    BY <1>2, <1>11, <2>1, <2>2 DEF Fix
<1>12. ASSUME NEW stale \in BOOLEAN, Tick(stale) PROVE IInv'
  <2>1. fix \in Places /\ UNCHANGED <<startVars, status, authVars, fix>>
    BY <1>1, <1>12 DEF Tick
  <2>2. trail' \in {trail, PushTrail(fix)}
    BY <1>12 DEF Tick, DrawMap
  <2>3. trail' \in Seq(Places) /\ Len(trail') <= TrailLimit /\ Apart(trail')
    <3>1. trail \in Seq(Places) /\ Len(trail) <= TrailLimit
      BY <1>1 DEF TypeOK, DrawTypes
    <3>2. /\ PushTrail(fix) \in Seq(Places) /\ Len(PushTrail(fix)) \in 1..TrailLimit
          /\ Apart(PushTrail(fix))
      BY <1>1, <2>1, <3>1, PushTrailKeeps
    <3>3. Len(PushTrail(fix)) <= TrailLimit
      BY <3>2, LimitAssumption
    <3> QED
      BY <1>1, <2>2, <3>1, <3>2, <3>3
  <2>4. lastPanoFix' \in Places \cup {NoPlace}
    BY <1>1, <1>12, <2>1 DEF Tick, DrawRoadview, TypeOK, DrawTypes
  <2>5. hint' = hint \/ (map = "built" /\ ~authFailed /\ hint' \in {"stale", "tracking"})
    BY <1>1, <1>12 DEF Tick, DrawMap
  <2>6. TypeOK'
    <3>1. ControlTypes'
      BY <1>1, <2>1, <2>5 DEF ControlTypes
    <3> QED
      BY <2>1, <2>3, <2>4, <3>1 DEF TypeOK, DrawTypes
  <2>7. StartInv' /\ AuthInv'
    BY <1>1, <2>1, <2>5 DEF StartInv, AuthInv
  <2> QED
    BY <2>3, <2>6, <2>7 DEF IInv
<1>13. CASE UNCHANGED vars
  <2>1. ControlTypes'
    <3>1. {maps', ready', flagged', inText', authFailed'} \subseteq BOOLEAN
      BY <1>1, <1>13 DEF vars, ControlTypes
    <3>2. UNCHANGED <<start, script, map, tries, hint, status>>
      BY <1>13 DEF vars
    <3> QED
      BY <1>1, <3>1, <3>2, ControlKept
  <2>2. StartInv' /\ AuthInv'
    BY <1>1, <1>13 DEF vars, StartInv, AuthInv
  <2> QED
    BY <1>1, <1>2, <1>13, <2>1, <2>2 DEF vars
<1> QED
  BY <1>4, <1>5, <1>6, <1>7, <1>8, <1>9, <1>10, <1>11, <1>12, <1>13 DEF Next

LEMMA InvAlways == Spec => []IInv
<1>1. Init => IInv
  BY InvInit
<1>2. IInv /\ [Next]_vars => IInv'
  BY InvNext
<1> QED
  BY <1>1, <1>2, PTL DEF Spec

-----------------------------------------------------------------------------
(* The properties.                                                               *)

(* The state has its types: the panorama is tried at most PanoTries times, and the       *)
(* trail never grows over its limit.                                               *)
THEOREM TypeCorrect == Spec => []TypeOK
<1>1. IInv => TypeOK
  BY DEF IInv
<1> QED
  BY <1>1, InvAlways, PTL

(* Once the map says that its key was rejected it goes on saying so: no update from a      *)
(* fix, no end of the start and no later look of the watch takes it away.                *)
THEOREM AuthStays == Spec => AuthStaysShown
<1>1. ASSUME IInv, [Next]_vars PROVE [hint = "auth" => hint' = "auth"]_vars
  <2> SUFFICES ASSUME hint = "auth" PROVE hint' = "auth"
    OBVIOUS
  <2>1. authFailed /\ map = "built" /\ start \notin {"config", "script"}
    BY <1>1 DEF IInv, AuthInv, StartInv
  <2> QED
    BY <1>1, <2>1 DEF Next, ConfigFails, ConfigArrives, ScriptSettles, Retry, PanoStatus,
       AuthFails, AuthWatch, Fix, Tick, DrawMap, vars, startVars, authVars, drawVars
<1> QED
  BY <1>1, InvAlways, PTL DEF Spec, AuthStaysShown

(* Each turn of the interval brings both panels up to the fix: the roadview is less than    *)
(* 8 m behind, unless it is not ready, the fix is stale or the map half built, and the      *)
(* trail of a map that is built ends in the fix, without a place twice in a row.          *)
THEOREM PanelsCorrect == Spec => PanelsFollow
<1>1. ASSUME IInv
      PROVE  \A b \in BOOLEAN : Tick(b) =>
               /\ (ready /\ ~b /\ map # "half") => Distance(lastPanoFix', fix) < 2
               /\ map = "built" =>
                    /\ trail'[Len(trail')] = fix
                    /\ \A i \in 1..(Len(trail') - 1) : trail'[i] # trail'[i + 1]
  <2> SUFFICES ASSUME NEW b \in BOOLEAN, Tick(b)
               PROVE  /\ (ready /\ ~b /\ map # "half") => Distance(lastPanoFix', fix) < 2
                      /\ map = "built" =>
                           /\ trail'[Len(trail')] = fix
                           /\ \A i \in 1..(Len(trail') - 1) : trail'[i] # trail'[i + 1]
    OBVIOUS
  <2>1. fix \in Places /\ trail \in Seq(Places) /\ Len(trail) <= TrailLimit /\ Apart(trail)
    BY <1>1 DEF IInv, TypeOK, DrawTypes, Tick
  <2>2. ASSUME ready, ~b, map # "half" PROVE Distance(lastPanoFix', fix) < 2
    <3>1. map \in {"none", "half", "built"} /\ lastPanoFix \in Int /\ fix \in Int
      <4>1. map \in {"none", "half", "built"} /\ lastPanoFix \in Places \cup {NoPlace}
        BY <1>1 DEF IInv, TypeOK, ControlTypes, DrawTypes
      <4> QED
        BY <2>1, <4>1, LimitAssumption DEF Places, NoPlace
    <3>2. DrawRoadview(b)
      BY <2>2 DEF Tick
    <3> QED
      BY <2>2, <3>1, <3>2 DEF DrawRoadview, Distance
  <2>3. ASSUME map = "built"
        PROVE  /\ trail'[Len(trail')] = fix
               /\ \A i \in 1..(Len(trail') - 1) : trail'[i] # trail'[i + 1]
    <3>1. trail' = PushTrail(fix)
      BY <2>3 DEF Tick, DrawMap
    <3> QED
      BY <2>1, <3>1, PushTrailKeeps DEF Apart
  <2> QED
    BY <2>2, <2>3
<1>2. PanelsFollow <=>
        [][\A b \in BOOLEAN : Tick(b) =>
             /\ (ready /\ ~b /\ map # "half") => Distance(lastPanoFix', fix) < 2
             /\ map = "built" =>
                  /\ trail'[Len(trail')] = fix
                  /\ \A i \in 1..(Len(trail') - 1) : trail'[i] # trail'[i + 1]]_vars
  BY DEF PanelsFollow
<1> QED
  BY <1>1, <1>2, InvAlways, PTL
=============================================================================
