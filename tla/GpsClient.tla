------------------------------- MODULE GpsClient -------------------------------
(***************************************************************************)
(* Where the mobile app gets its fixes from: the class GpsClient of            *)
(* mobile/src/telemetry/gps-client.js, the Start, Stop and pilot buttons of     *)
(* mobile/src/App.js and the native bridges behind them                        *)
(* (RNAndroidLocationBridge.kt with LocationForegroundService.kt,              *)
(* RNIosLocationBridge.m).                                                     *)
(*                                                                          *)
(* A step of the app is one press, one answer of a permission prompt or one      *)
(* event.  Calls of a native method are queued and run later, in order, on a     *)
(* thread of their own; what they emit comes back as events.  A press of Start   *)
(* suspends in its prompts and goes on with the switch of the render it was       *)
(* pressed in.  Each platform shows and reads only its own pilot switch, so       *)
(* one variable stands for both.                                              *)
(***************************************************************************)
EXTENDS Integers, Sequences

CONSTANTS
  Presses,        \* presses of Start that can be suspended at the same time
  MaxNativeCalls  \* bound: native calls issued and not yet run

ASSUME MaxNativeCallsAssumption == MaxNativeCalls \in Nat

VARIABLES
  device,       \* [os, bridge, asksBackground]: the phone, never changes
  granted,      \* permissions granted so far: a subset of {"fine", "background"}
  pilot,        \* iosBgPilot or androidBgPilot
  prompt,       \* [Presses -> none | fine | background], the prompt awaited
  pressPilot,   \* [Presses -> BOOLEAN], pilot when it was pressed
  gpsRunning,
  gpsState,     \* gpsState without its wording
  watch,        \* watchId is set
  usingBridge,  \* _usingBridge, with its subscriptions
  nativeCalls,  \* native calls issued and not yet run
  active,       \* active (Android), _bgActive (iOS)
  listening,    \* location updates are requested from the system
  service,      \* the Android foreground service runs
  events,       \* kinds of events emitted and not yet handled
  crossed,      \* history: the source was started with another pilot than shown
  killed        \* history: the process was killed with the service running

promptVars == <<granted, prompt, pressPilot>>
clientVars == <<watch, usingBridge>>
screenVars == <<pilot, gpsRunning, gpsState>>
nativeVars == <<active, listening, service>>
vars == <<device, promptVars, clientVars, screenVars, nativeCalls, nativeVars,
          events, crossed, killed>>

Devices == [os : {"ios", "android"}, bridge : BOOLEAN, asksBackground : BOOLEAN]

(* What earlier runs of the app were granted; iOS has one permission.            *)
GrantedBefore(d) ==
  {{}, {"fine"}} \cup (IF d.os = "android" THEN {{"fine", "background"}} ELSE {})

Init ==
  /\ device \in Devices
  /\ granted \in GrantedBefore(device)
  /\ pilot = TRUE
  /\ prompt = [p \in Presses |-> "none"]
  /\ pressPilot = [p \in Presses |-> FALSE]
  /\ gpsRunning = FALSE
  /\ gpsState = "idle"
  /\ watch = FALSE
  /\ usingBridge = FALSE
  /\ nativeCalls = << >>
  /\ active = FALSE
  /\ listening = FALSE
  /\ service = FALSE
  /\ events = {}
  /\ crossed = FALSE
  /\ killed = FALSE

-----------------------------------------------------------------------------
(* The client of gps-client.js.  An operator gets what an earlier call in the    *)
(* same step has left and yields what it leaves: [watch, bridge, calls].        *)

Client == [watch |-> watch, bridge |-> usingBridge, calls |-> nativeCalls]

BecomesClient(c) ==
  /\ watch' = c.watch
  /\ usingBridge' = c.bridge
  /\ nativeCalls' = c.calls

(* Mutant: start does not ask whether it has been started.                     *)
StartAgain(c, mode) ==
  IF mode /\ device.bridge
  THEN [c EXCEPT !.bridge = TRUE, !.calls = Append(@, "start")]
  ELSE [c EXCEPT !.watch = TRUE]

(* start: nothing if a source is there, else the bridge in background mode if     *)
(* the build has it, else the watch.                                          *)
Start(c, mode) ==
  IF c.watch \/ c.bridge THEN c
  ELSE IF mode /\ device.bridge
       THEN [c EXCEPT !.bridge = TRUE, !.calls = Append(@, "start")]
       ELSE [c EXCEPT !.watch = TRUE]

(* Mutant: stop removes its subscriptions and leaves the native side running.    *)
StopForgetsNative(c) == [c EXCEPT !.watch = FALSE, !.bridge = FALSE]

(* stop.                                                                     *)
Stop(c) ==
  IF c.bridge THEN [c EXCEPT !.bridge = FALSE, !.calls = Append(@, "stop")]
              ELSE [c EXCEPT !.watch = FALSE]

-----------------------------------------------------------------------------
(* The screen.                                                               *)

(* requestLocationPermission up to its first prompt.                           *)
PressStart(p) ==
  /\ prompt[p] = "none"
  /\ prompt' = [prompt EXCEPT ![p] = "fine"]
  /\ pressPilot' = [pressPilot EXCEPT ![p] = pilot]
  /\ UNCHANGED <<device, granted, clientVars, screenVars, nativeCalls, nativeVars,
                 events, crossed, killed>>

NeedsBackground(p) ==
  device.os = "android" /\ pressPilot[p] /\ device.asksBackground

Room == Len(nativeCalls) + 2 <= MaxNativeCalls

(* Mutant: gpsRunning is left to the first fix.                                *)
StartGpsWatchUnmarked(c, mode) ==
  /\ BecomesClient(Start(c, mode))
  /\ gpsRunning' = (gpsRunning \/ c.watch)

(* startGpsWatch on a client c.                                               *)
StartGpsWatch(c, mode) ==
  /\ BecomesClient(Start(c, mode))
  /\ gpsRunning' = TRUE

(* The user, or the system for a permission it has granted before, answers the    *)
(* prompt: the next prompt, the start of the watch, or the denial.               *)
Answer(p, ok) ==
  /\ Room
  /\ prompt[p] # "none"
  /\ prompt[p] \in granted => ok
  /\ granted' = IF ok THEN granted \cup {prompt[p]} ELSE granted
  /\ \/ /\ ok /\ prompt[p] = "fine" /\ NeedsBackground(p)
        /\ prompt' = [prompt EXCEPT ![p] = "background"]
        /\ UNCHANGED <<clientVars, nativeCalls, gpsRunning, gpsState, crossed>>
     \/ /\ ok /\ ~(prompt[p] = "fine" /\ NeedsBackground(p))
        /\ prompt' = [prompt EXCEPT ![p] = "none"]
        /\ StartGpsWatch(Client, pressPilot[p])
        /\ crossed' = IF watch \/ usingBridge THEN crossed ELSE pressPilot[p] # pilot
        /\ UNCHANGED gpsState
     \/ /\ ~ok
        /\ prompt' = [prompt EXCEPT ![p] = "none"]
        /\ gpsState' = "denied"
        /\ UNCHANGED <<clientVars, nativeCalls, gpsRunning, crossed>>
  /\ UNCHANGED <<device, pressPilot, pilot, nativeVars, events, killed>>

(* The prompt fails instead of answering: the press ends where it awaits.         *)
PromptFails(p) ==
  /\ prompt[p] # "none"
  /\ prompt' = [prompt EXCEPT ![p] = "none"]
  /\ UNCHANGED <<device, granted, pressPilot, clientVars, screenVars, nativeCalls,
                 nativeVars, events, crossed, killed>>

(* stopGps, the Stop button.                                                  *)
PressStop ==
  /\ Room
  /\ BecomesClient(Stop(Client))
  /\ gpsRunning' = FALSE
  /\ gpsState' = "stopped"
  /\ crossed' = FALSE
  /\ UNCHANGED <<device, promptVars, pilot, nativeVars, events, killed>>

(* Mutant: the switch of a running app takes effect at the next start.           *)
PressPilotLater ==
  /\ Room
  /\ pilot' = ~pilot
  /\ UNCHANGED <<device, promptVars, gpsRunning, gpsState, clientVars, nativeCalls,
                 nativeVars, events, crossed, killed>>

(* toggleIosBgPilot, toggleAndroidBgPilot.                                      *)
PressPilot ==
  /\ Room
  /\ pilot' = ~pilot
  /\ IF gpsRunning
     THEN /\ StartGpsWatch(Stop(Client), ~pilot)
          /\ crossed' = FALSE
     ELSE UNCHANGED <<clientVars, nativeCalls, gpsRunning, crossed>>
  /\ UNCHANGED <<device, promptVars, gpsState, nativeVars, events, killed>>

(* The callbacks startGpsWatch hands to the client; the uplink of the fix is       *)
(* modelled in MobileUplink.                                                   *)
OnEvent(e) == gpsState' = IF e = "fix" THEN "ok" ELSE "error"

-----------------------------------------------------------------------------
(* The native side.                                                           *)

MayLocate == "fine" \in granted /\ (device.asksBackground => "background" \in granted)

(* startBackgroundLocation of the Android bridge: refused without a permission or   *)
(* a LocationManager; a request the system rejects is reported, and active is set    *)
(* all the same.                                                              *)
AndroidStart ==
  \/ /\ active
     /\ UNCHANGED <<nativeVars, events>>
  \/ /\ ~active        \* ~MayLocate, or locationManager = null
     /\ events' = events \cup {"error"}
     /\ UNCHANGED nativeVars
  \/ /\ ~active /\ MayLocate
     /\ service' = TRUE
     /\ active' = TRUE
     /\ \/ listening' = TRUE /\ UNCHANGED events
        \/ listening' = FALSE /\ events' = events \cup {"error"}

(* startBackgroundLocation of the iOS bridge.                                    *)
IosStart ==
  /\ active' = TRUE
  /\ listening' = TRUE
  /\ UNCHANGED <<service, events>>

(* Mutant: the bridge returns when it is not active, before it has stopped.       *)
NativeStopOnlyService ==
  /\ service' = FALSE
  /\ active' = FALSE
  /\ UNCHANGED <<listening, events>>

(* stopBackgroundLocation of either bridge.                                      *)
NativeStop ==
  /\ listening' = FALSE
  /\ service' = FALSE
  /\ active' = FALSE
  /\ UNCHANGED events

(* The next native call runs.                                                  *)
NativeCall ==
  /\ nativeCalls # << >>
  /\ nativeCalls' = Tail(nativeCalls)
  /\ \/ Head(nativeCalls) = "stop" /\ NativeStop
     \/ Head(nativeCalls) = "start" /\ device.os = "android" /\ AndroidStart
     \/ Head(nativeCalls) = "start" /\ device.os = "ios" /\ IosStart
  /\ UNCHANGED <<device, promptVars, clientVars, screenVars, crossed, killed>>

(* onLocationChanged, onProviderDisabled and the delegate of iOS.                *)
NativeEmits(e) ==
  /\ listening
  /\ e \notin events
  /\ events' = events \cup {e}
  /\ UNCHANGED <<device, promptVars, clientVars, screenVars, nativeCalls, nativeVars,
                 crossed, killed>>

(* The event reaches the app: the subscriptions, if any, get it.                  *)
BridgeEvent(e) ==
  /\ e \in events
  /\ events' = events \ {e}
  /\ IF usingBridge THEN OnEvent(e) ELSE UNCHANGED gpsState
  /\ UNCHANGED <<device, promptVars, clientVars, pilot, gpsRunning, nativeCalls,
                 nativeVars, crossed, killed>>

(* The watch of the geolocation library reports.                                *)
WatchEvent(e) ==
  /\ watch
  /\ OnEvent(e)
  /\ UNCHANGED <<device, promptVars, clientVars, pilot, gpsRunning, nativeCalls,
                 nativeVars, events, crossed, killed>>

(* The system kills the app and the user opens it again.  The service is sticky:   *)
(* the system starts it anew, without the app.                                  *)
Kill ==
  /\ prompt' = [p \in Presses |-> "none"]
  /\ pilot' = TRUE
  /\ gpsRunning' = FALSE
  /\ gpsState' = "idle"
  /\ watch' = FALSE
  /\ usingBridge' = FALSE
  /\ nativeCalls' = << >>
  /\ active' = FALSE
  /\ listening' = FALSE
  /\ events' = {}
  /\ crossed' = FALSE
  /\ killed' = (killed \/ service)
  /\ UNCHANGED <<device, granted, pressPilot, service>>

Next ==
  \/ \E p \in Presses : PressStart(p) \/ PromptFails(p) \/ (\E ok \in BOOLEAN : Answer(p, ok))
  \/ PressStop \/ PressPilot
  \/ NativeCall
  \/ \E e \in {"fix", "error"} : NativeEmits(e) \/ BridgeEvent(e) \/ WatchEvent(e)
  \/ Kill

Spec == Init /\ [][Next]_vars

(* Native calls are run.                                                       *)
FairSpec == Spec /\ WF_vars(NativeCall)

-----------------------------------------------------------------------------
TypeOK ==
  /\ device \in Devices
  /\ granted \in SUBSET {"fine", "background"}
  /\ pilot \in BOOLEAN
  /\ prompt \in [Presses -> {"none", "fine", "background"}]
  /\ pressPilot \in [Presses -> BOOLEAN]
  /\ gpsRunning \in BOOLEAN
  /\ gpsState \in {"idle", "ok", "error", "denied", "stopped"}
  /\ watch \in BOOLEAN
  /\ usingBridge \in BOOLEAN
  /\ nativeCalls \in Seq({"start", "stop"})
  /\ active \in BOOLEAN
  /\ listening \in BOOLEAN
  /\ service \in BOOLEAN
  /\ events \in SUBSET {"fix", "error"}
  /\ crossed \in BOOLEAN
  /\ killed \in BOOLEAN

(* The app has at most one source: never the watch and the bridge at once, and    *)
(* once the native calls have run, never a watch while the bridge still locates.   *)
OneSource ==
  /\ ~(watch /\ usingBridge)
  /\ (watch /\ nativeCalls = << >>) => ~listening

(* What the screen says and what the client does agree, over any presses of        *)
(* Start, Stop and the switch, overlapping prompts and kills: running is shown      *)
(* exactly while a source is held, and a source is held only with the permission.   *)
RunningIsHeld ==
  /\ gpsRunning <=> (watch \/ usingBridge)
  /\ gpsRunning => "fine" \in granted

(* The source is the one the switch shows, after any number of switches on the      *)
(* run; only a Start that was pressed before a switch can differ, until the next     *)
(* switch or Stop.                                                            *)
SourceIsSwitched ==
  (gpsRunning /\ ~crossed) => (usingBridge <=> (pilot /\ device.bridge))

(* Stop and start calls of the bridge alternate, so the native side ends up as the   *)
(* client wants it and none is left locating with nobody to hear it.                *)
NativeFollows ==
  /\ \A i \in 1..(Len(nativeCalls) - 1) : nativeCalls[i] # nativeCalls[i + 1]
  /\ nativeCalls # << >> => (nativeCalls[Len(nativeCalls)] = "start" <=> usingBridge)
  /\ (nativeCalls = << >> /\ ~usingBridge) => ~active /\ ~listening

(* GPS that is stopped for good is released: the updates end, and so does the        *)
(* foreground service, unless it is one the system has started after a kill.         *)
StoppedIsReleased ==
  <>[](~gpsRunning) => <>[](~listening /\ (service => killed))

-----------------------------------------------------------------------------
(* docs/android-fgs-bg-location.md, 3: activating the background mode requests the    *)
(* background permission, and only if it is granted the service is started.  So the   *)
(* bridge is not asked to start without the permissions it needs.  Switching the      *)
(* pilot on while GPS runs asks for no permission.                               *)
BridgeIsPermitted ==
  (device.os = "android" /\ usingBridge) => MayLocate
=============================================================================
