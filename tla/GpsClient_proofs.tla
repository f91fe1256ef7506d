---------------------------- MODULE GpsClient_proofs ----------------------------
(***************************************************************************)
(* Proofs about GpsClient for any number of suspended presses: the screen, the    *)
(* client and the native side agree, whatever the user presses and in whatever    *)
(* order prompts, native calls and events come.                                *)
(***************************************************************************)
EXTENDS GpsClient, TLAPS

(* The background prompt comes after the fine one was granted.                   *)
PromptInv ==
  \A p \in Presses : prompt[p] = "background" => "fine" \in granted

IInv ==
  /\ TypeOK
  /\ PromptInv
  /\ OneSource
  /\ RunningIsHeld
  /\ SourceIsSwitched
  /\ NativeFollows

-----------------------------------------------------------------------------
(* What the client does to the queue of native calls, for any queue.             *)

(* Calls alternate, and the last of them is what the client wants.               *)
Follows(calls, wanted) ==
  /\ calls \in Seq({"start", "stop"})
  /\ \A i \in 1..(Len(calls) - 1) : calls[i] # calls[i + 1]
  /\ calls # << >> => (calls[Len(calls)] = "start" <=> wanted)

(* Wanting the other thing and issuing the call for it keeps the queue right.     *)
LEMMA FollowsAppend ==
  ASSUME NEW calls, NEW wanted \in BOOLEAN, Follows(calls, wanted),
         NEW call \in {"start", "stop"}, call = "start" <=> ~wanted
  PROVE  Follows(Append(calls, call), ~wanted) /\ Append(calls, call) # << >>
<1> DEFINE longer == Append(calls, call)
<1>1. /\ longer \in Seq({"start", "stop"})
      /\ Len(longer) = Len(calls) + 1
      /\ longer[Len(calls) + 1] = call
      /\ \A i \in 1..Len(calls) : longer[i] = calls[i]
      /\ Len(calls) \in Nat
  BY DEF Follows
<1>2. longer # << >>
  BY <1>1
<1>3. ASSUME NEW i \in 1..(Len(longer) - 1)
      PROVE  longer[i] # longer[i + 1]
  <2>1. CASE i < Len(calls)
    <3>1. i \in 1..(Len(calls) - 1) /\ i + 1 \in 1..Len(calls)
      BY <1>1, <2>1
    <3> QED
      BY <1>1, <3>1 DEF Follows
  <2>2. CASE i = Len(calls)
    <3>1. calls # << >> /\ longer[i] = calls[Len(calls)] /\ longer[i + 1] = call
      BY <1>1, <2>2
    <3>2. calls[Len(calls)] = "start" <=> wanted
      BY <3>1 DEF Follows
    <3> QED
      BY <3>1, <3>2
  <2> QED
    BY <1>1, <2>1, <2>2
<1>4. longer[Len(longer)] = "start" <=> ~wanted
  BY <1>1
<1> QED
  BY <1>1, <1>2, <1>3, <1>4 DEF Follows

(* Running the first call keeps the rest right.                                 *)
LEMMA FollowsTail ==
  ASSUME NEW calls, NEW wanted \in BOOLEAN, Follows(calls, wanted), calls # << >>
  PROVE  /\ Follows(Tail(calls), wanted)
         /\ Head(calls) \in {"start", "stop"}
         /\ Tail(calls) = << >> => (Head(calls) = "start" <=> wanted)
<1> DEFINE rest == Tail(calls)
<1>1. /\ rest \in Seq({"start", "stop"})
      /\ Len(rest) = Len(calls) - 1
      /\ \A i \in 1..Len(rest) : rest[i] = calls[i + 1]
      /\ Len(calls) \in Nat /\ Len(calls) >= 1
      /\ Head(calls) = calls[1]
      /\ calls[1] \in {"start", "stop"}
  BY DEF Follows
<1>2. ASSUME NEW i \in 1..(Len(rest) - 1)
      PROVE  rest[i] # rest[i + 1]
  <2>1. i \in 1..Len(rest) /\ i + 1 \in 1..Len(rest) /\ i + 1 \in 1..(Len(calls) - 1)
    BY <1>1
  <2> QED
    BY <1>1, <2>1 DEF Follows
<1>3. ASSUME rest # << >>
      PROVE  rest[Len(rest)] = "start" <=> wanted
  <2>1. Len(rest) \in 1..Len(rest) /\ Len(rest) + 1 = Len(calls)
    BY <1>1, <1>3
  <2>2. rest[Len(rest)] = calls[Len(calls)]
    BY <1>1, <2>1
  <2> QED
    BY <2>2 DEF Follows
<1>4. ASSUME rest = << >>
      PROVE  Head(calls) = "start" <=> wanted
  <2>1. Len(calls) = 1
    <3> HIDE DEF rest
    <3>1. Len(rest) = 0
      BY <1>4
    <3> QED
      BY <1>1, <3>1
  <2> QED
    BY <1>1, <2>1 DEF Follows
<1> QED
  BY <1>1, <1>2, <1>3, <1>4 DEF Follows

(* A client that a press may leave: one source, and a queue that follows it.      *)
Sound(c) ==
  /\ c \in [watch : BOOLEAN, bridge : BOOLEAN, calls : Seq({"start", "stop"})]
  /\ ~(c.watch /\ c.bridge)
  /\ Follows(c.calls, c.bridge)

LEMMA StartSound ==
  ASSUME NEW c, Sound(c), NEW mode, device \in Devices
  PROVE  /\ Sound(Start(c, mode))
         /\ Start(c, mode).watch \/ Start(c, mode).bridge
         /\ ~c.watch /\ ~c.bridge =>
              (Start(c, mode).bridge <=> (mode /\ device.bridge))
         /\ c.watch \/ c.bridge => Start(c, mode) = c
         /\ Start(c, mode).calls = << >> =>
              c.calls = << >> /\ Start(c, mode).bridge = c.bridge
<1>1. CASE c.watch \/ c.bridge
  BY <1>1 DEF Start
<1>2. CASE ~c.watch /\ ~c.bridge /\ mode /\ device.bridge
  <2>1. Start(c, mode) = [c EXCEPT !.bridge = TRUE, !.calls = Append(@, "start")]
    BY <1>2 DEF Start
  <2>2. /\ Start(c, mode).watch = c.watch
        /\ Start(c, mode).bridge = TRUE
        /\ Start(c, mode).calls = Append(c.calls, "start")
    BY <2>1 DEF Sound
  <2>3. Follows(Append(c.calls, "start"), TRUE) /\ Append(c.calls, "start") # << >>
    <3>1. Follows(c.calls, FALSE)
      BY <1>2 DEF Sound
    <3>2. "start" = "start" <=> ~FALSE
      OBVIOUS
    <3> QED
      BY <3>1, <3>2, FollowsAppend
  <2>4. Start(c, mode) \in [watch : BOOLEAN, bridge : BOOLEAN,
                            calls : Seq({"start", "stop"})]
    <3>1. Append(c.calls, "start") \in Seq({"start", "stop"})
      BY <2>3 DEF Follows
    <3> QED
      BY <2>1, <3>1 DEF Sound
  <2> QED
    BY <1>2, <2>2, <2>3, <2>4 DEF Sound
<1>3. CASE ~c.watch /\ ~c.bridge /\ ~(mode /\ device.bridge)
  <2>1. Start(c, mode) = [c EXCEPT !.watch = TRUE]
    BY <1>3 DEF Start
  <2> QED
    BY <1>3, <2>1 DEF Sound
<1> QED
  BY <1>1, <1>2, <1>3

LEMMA StopSound ==
  ASSUME NEW c, Sound(c)
  PROVE  /\ Sound(Stop(c))
         /\ ~Stop(c).watch /\ ~Stop(c).bridge
         /\ Stop(c).calls = << >> => c.calls = << >> /\ ~c.bridge
<1>1. CASE c.bridge
  <2>1. Stop(c) = [c EXCEPT !.bridge = FALSE, !.calls = Append(@, "stop")]
    BY <1>1 DEF Stop
  <2>2. /\ Stop(c).watch = c.watch
        /\ Stop(c).bridge = FALSE
        /\ Stop(c).calls = Append(c.calls, "stop")
    BY <2>1 DEF Sound
  <2>3. Follows(Append(c.calls, "stop"), FALSE) /\ Append(c.calls, "stop") # << >>
    <3>1. Follows(c.calls, TRUE)
      BY <1>1 DEF Sound
    <3> QED
      BY <3>1, FollowsAppend
  <2>4. Stop(c) \in [watch : BOOLEAN, bridge : BOOLEAN, calls : Seq({"start", "stop"})]
    <3>1. Append(c.calls, "stop") \in Seq({"start", "stop"})
      BY <2>3 DEF Follows
    <3> QED
      BY <2>1, <3>1 DEF Sound
  <2> QED
    BY <1>1, <2>2, <2>3, <2>4 DEF Sound
<1>2. CASE ~c.bridge
  <2>1. Stop(c) = [c EXCEPT !.watch = FALSE]
    BY <1>2 DEF Stop
  <2> QED
    BY <1>2, <2>1 DEF Sound
<1> QED
  BY <1>1, <1>2

LEMMA ClientSound == IInv => Sound(Client)
BY DEF IInv, TypeOK, OneSource, NativeFollows, Sound, Follows, Client
-----------------------------------------------------------------------------
LEMMA InvInit == Init => IInv
<1> SUFFICES ASSUME Init PROVE IInv
  OBVIOUS
<1>1. TypeOK /\ PromptInv
  <2>1. granted \in SUBSET {"fine", "background"}
    BY DEF Init, GrantedBefore
  <2>2. /\ prompt \in [Presses -> {"none", "fine", "background"}]
        /\ pressPilot \in [Presses -> BOOLEAN]
        /\ \A p \in Presses : prompt[p] = "none"
    BY DEF Init
  <2>3. nativeCalls \in Seq({"start", "stop"})
    BY DEF Init
  <2> QED
    BY <2>1, <2>2, <2>3 DEF Init, TypeOK, PromptInv
<1>2. OneSource /\ RunningIsHeld /\ SourceIsSwitched /\ NativeFollows
  BY DEF Init, OneSource, RunningIsHeld, SourceIsSwitched, NativeFollows
<1> QED
  BY <1>1, <1>2 DEF IInv

(* After a step that leaves the client as c, the client's invariants hold if c is   *)
(* sound and no native call is missing.                                         *)
LEMMA BecomesSound ==
  ASSUME IInv, NEW c, Sound(c), BecomesClient(c), UNCHANGED nativeVars,
         c.calls = << >> /\ ~c.bridge => ~active /\ ~listening
  PROVE  /\ OneSource' /\ NativeFollows'
         /\ watch' \in BOOLEAN /\ usingBridge' \in BOOLEAN
         /\ nativeCalls' \in Seq({"start", "stop"})
BY DEF IInv, TypeOK, Sound, Follows, BecomesClient, OneSource, NativeFollows, nativeVars

LEMMA InvNext == IInv /\ [Next]_vars => IInv'
<1> SUFFICES ASSUME IInv, [Next]_vars PROVE IInv'
  OBVIOUS
<1>0. Sound(Client) /\ device \in Devices /\ pilot \in BOOLEAN
  BY ClientSound DEF IInv, TypeOK
<1>c. /\ Client.watch = watch /\ Client.bridge = usingBridge
      /\ Client.calls = nativeCalls
  BY DEF Client
<1>1. ASSUME NEW p \in Presses, PressStart(p)
      PROVE  IInv'
  <2>1. TypeOK'
    BY <1>1 DEF IInv, TypeOK, PressStart, clientVars, screenVars, nativeVars
  <2>2. PromptInv'
    BY <1>1 DEF IInv, TypeOK, PromptInv, PressStart
  <2>3. OneSource' /\ RunningIsHeld' /\ SourceIsSwitched' /\ NativeFollows'
    BY <1>1 DEF IInv, PressStart, clientVars, screenVars, nativeVars,
                OneSource, RunningIsHeld, SourceIsSwitched, NativeFollows
  <2> QED
    BY <2>1, <2>2, <2>3 DEF IInv
<1>2. ASSUME NEW p \in Presses, NEW ok \in BOOLEAN, Answer(p, ok)
      PROVE  IInv'
  <2>1. /\ granted' = IF ok THEN granted \cup {prompt[p]} ELSE granted
        /\ prompt[p] \in {"fine", "background"}
        /\ UNCHANGED <<device, pressPilot, pilot, nativeVars, events, killed>>
        /\ granted \subseteq granted' /\ granted' \in SUBSET {"fine", "background"}
    BY <1>2 DEF Answer, IInv, TypeOK
  <2>2. ASSUME ok, prompt[p] = "fine",
               prompt' = [prompt EXCEPT ![p] = "background"],
               UNCHANGED <<clientVars, nativeCalls, gpsRunning, gpsState, crossed>>
        PROVE  IInv'
    <3>1. TypeOK'
      BY <2>1, <2>2 DEF IInv, TypeOK, clientVars, nativeVars
    <3>2. PromptInv'
      BY <2>1, <2>2 DEF IInv, TypeOK, PromptInv
    <3>3. OneSource' /\ RunningIsHeld' /\ SourceIsSwitched' /\ NativeFollows'
      BY <2>1, <2>2 DEF IInv, clientVars, nativeVars,
                        OneSource, RunningIsHeld, SourceIsSwitched, NativeFollows
    <3> QED
      BY <3>1, <3>2, <3>3 DEF IInv
  <2>3. ASSUME ok,
               prompt' = [prompt EXCEPT ![p] = "none"],
               StartGpsWatch(Client, pressPilot[p]),
               crossed' = IF watch \/ usingBridge THEN crossed ELSE pressPilot[p] # pilot,
               UNCHANGED gpsState
        PROVE  IInv'
    <3> DEFINE c == Start(Client, pressPilot[p])
    <3>1. /\ Sound(c)
          /\ c.watch \/ c.bridge
          /\ ~watch /\ ~usingBridge => (c.bridge <=> (pressPilot[p] /\ device.bridge))
          /\ watch \/ usingBridge => c = Client
          /\ c.calls = << >> => nativeCalls = << >> /\ c.bridge = usingBridge
      BY <1>0, <1>c, StartSound
    <3>2. BecomesClient(c) /\ gpsRunning' = TRUE
      BY <2>3 DEF StartGpsWatch
    <3>3. c.calls = << >> /\ ~c.bridge => ~active /\ ~listening
      BY <3>1 DEF IInv, NativeFollows
    <3> HIDE DEF c
    <3>4. /\ OneSource' /\ NativeFollows'
          /\ watch' \in BOOLEAN /\ usingBridge' \in BOOLEAN
          /\ nativeCalls' \in Seq({"start", "stop"})
      BY <2>1, <3>1, <3>2, <3>3, BecomesSound
    <3>5. TypeOK'
      BY <2>1, <2>3, <3>2, <3>4 DEF IInv, TypeOK, nativeVars
    <3>6. "fine" \in granted'
      BY <2>1, <2>3 DEF IInv, PromptInv
    <3>7. PromptInv' /\ RunningIsHeld'
      BY <3>1, <3>2, <3>6 DEF PromptInv, RunningIsHeld, BecomesClient
    <3>8. SourceIsSwitched'
      <4>1. CASE watch \/ usingBridge
        <5>1. /\ UNCHANGED <<crossed, pilot, device>>
              /\ usingBridge' = usingBridge
              /\ gpsRunning
          BY <2>1, <2>3, <3>1, <3>2, <4>1, <1>c DEF BecomesClient, IInv, RunningIsHeld
        <5> QED
          BY <5>1 DEF IInv, SourceIsSwitched
      <4>2. CASE ~watch /\ ~usingBridge
        <5>1. crossed' = (pressPilot[p] # pilot) /\ UNCHANGED <<pilot, device>>
          BY <2>1, <2>3, <4>2
        <5>2. usingBridge' <=> (pressPilot[p] /\ device.bridge)
          BY <3>1, <3>2, <4>2 DEF BecomesClient
        <5> QED
          BY <5>1, <5>2 DEF SourceIsSwitched
      <4> QED
        BY <4>1, <4>2
    <3> QED
      BY <3>4, <3>5, <3>7, <3>8 DEF IInv
  <2>4. ASSUME ~ok,
               prompt' = [prompt EXCEPT ![p] = "none"],
               gpsState' = "denied",
               UNCHANGED <<clientVars, nativeCalls, gpsRunning, crossed>>
        PROVE  IInv'
    <3>1. TypeOK'
      BY <2>1, <2>4 DEF IInv, TypeOK, clientVars, nativeVars
    <3>2. PromptInv'
      BY <2>1, <2>4 DEF IInv, TypeOK, PromptInv
    <3>3. OneSource' /\ RunningIsHeld' /\ SourceIsSwitched' /\ NativeFollows'
      BY <2>1, <2>4 DEF IInv, clientVars, nativeVars,
                        OneSource, RunningIsHeld, SourceIsSwitched, NativeFollows
    <3> QED
      BY <3>1, <3>2, <3>3 DEF IInv
  <2> QED
    BY <1>2, <2>2, <2>3, <2>4 DEF Answer
<1>3. CASE PressStop
  <2> DEFINE c == Stop(Client)
  <2>1. /\ BecomesClient(c) /\ gpsRunning' = FALSE /\ gpsState' = "stopped"
        /\ crossed' = FALSE
        /\ UNCHANGED <<device, promptVars, pilot, nativeVars, events, killed>>
    BY <1>3 DEF PressStop
  <2>2. /\ Sound(c) /\ ~c.watch /\ ~c.bridge
        /\ c.calls = << >> => nativeCalls = << >> /\ ~usingBridge
    BY <1>0, <1>c, StopSound
  <2>3. c.calls = << >> /\ ~c.bridge => ~active /\ ~listening
    BY <2>2 DEF IInv, NativeFollows
  <2> HIDE DEF c
  <2>4. /\ OneSource' /\ NativeFollows'
        /\ watch' \in BOOLEAN /\ usingBridge' \in BOOLEAN
        /\ nativeCalls' \in Seq({"start", "stop"})
    BY <2>1, <2>2, <2>3, BecomesSound
  <2>5. TypeOK' /\ PromptInv'
    BY <2>1, <2>4 DEF IInv, TypeOK, PromptInv, promptVars, nativeVars
  <2>6. RunningIsHeld' /\ SourceIsSwitched'
    BY <2>1, <2>2 DEF RunningIsHeld, SourceIsSwitched, BecomesClient
  <2> QED
    BY <2>4, <2>5, <2>6 DEF IInv
<1>4. CASE PressPilot
  <2>1. /\ pilot' = ~pilot
        /\ UNCHANGED <<device, promptVars, gpsState, nativeVars, events, killed>>
    BY <1>4 DEF PressPilot
  <2>2. CASE gpsRunning
    <3> DEFINE c == Start(Stop(Client), ~pilot)
    <3>1. BecomesClient(c) /\ gpsRunning' = TRUE /\ crossed' = FALSE
      BY <1>4, <2>2 DEF PressPilot, StartGpsWatch
    <3>2. /\ Sound(Stop(Client)) /\ ~Stop(Client).watch /\ ~Stop(Client).bridge
          /\ Stop(Client).calls = << >> => nativeCalls = << >> /\ ~usingBridge
      BY <1>0, <1>c, StopSound
    <3>3. /\ Sound(c) /\ (c.watch \/ c.bridge)
          /\ c.bridge <=> (~pilot /\ device.bridge)
          /\ c.calls = << >> => Stop(Client).calls = << >>
      BY <1>0, <3>2, StartSound
    <3>4. c.calls = << >> /\ ~c.bridge => ~active /\ ~listening
      BY <3>2, <3>3 DEF IInv, NativeFollows
    <3> HIDE DEF c
    <3>5. /\ OneSource' /\ NativeFollows'
          /\ watch' \in BOOLEAN /\ usingBridge' \in BOOLEAN
          /\ nativeCalls' \in Seq({"start", "stop"})
      BY <2>1, <3>1, <3>3, <3>4, BecomesSound
    <3>6. TypeOK' /\ PromptInv'
      BY <2>1, <3>1, <3>5 DEF IInv, TypeOK, PromptInv, promptVars, nativeVars
    <3>7. RunningIsHeld'
      BY <2>1, <2>2, <3>1, <3>3 DEF IInv, RunningIsHeld, BecomesClient, promptVars
    <3>8. SourceIsSwitched'
      BY <2>1, <3>1, <3>3 DEF SourceIsSwitched, BecomesClient
    <3> QED
      BY <3>5, <3>6, <3>7, <3>8 DEF IInv
  <2>3. CASE ~gpsRunning
    <3>1. UNCHANGED <<clientVars, nativeCalls, gpsRunning, crossed>>
      BY <1>4, <2>3 DEF PressPilot
    <3>2. TypeOK' /\ PromptInv'
      BY <2>1, <3>1 DEF IInv, TypeOK, PromptInv, promptVars, nativeVars, clientVars
    <3>3. OneSource' /\ RunningIsHeld' /\ SourceIsSwitched' /\ NativeFollows'
      BY <2>1, <2>3, <3>1 DEF IInv, promptVars, clientVars, nativeVars,
           OneSource, RunningIsHeld, SourceIsSwitched, NativeFollows
    <3> QED
      BY <3>2, <3>3 DEF IInv
  <2> QED
    BY <2>2, <2>3
<1>5. CASE NativeCall
  <2>1. /\ nativeCalls # << >> /\ nativeCalls' = Tail(nativeCalls)
        /\ UNCHANGED <<device, promptVars, clientVars, screenVars, crossed, killed>>
    BY <1>5 DEF NativeCall
  <2>2. /\ Follows(nativeCalls', usingBridge)
        /\ Head(nativeCalls) \in {"start", "stop"}
        /\ nativeCalls' = << >> => (Head(nativeCalls) = "start" <=> usingBridge)
    <3>1. Follows(nativeCalls, usingBridge) /\ usingBridge \in BOOLEAN
      BY <1>0, <1>c DEF Sound, IInv, TypeOK
    <3> QED
      BY <2>1, <3>1, FollowsTail
  <2>3. /\ active' \in BOOLEAN /\ listening' \in BOOLEAN /\ service' \in BOOLEAN
        /\ events' \in SUBSET {"fix", "error"}
        /\ Head(nativeCalls) = "stop" => ~active' /\ ~listening'
    BY <1>5 DEF NativeCall, NativeStop, AndroidStart, IosStart, IInv, TypeOK, nativeVars
  <2>4. TypeOK' /\ PromptInv'
    BY <2>1, <2>2, <2>3
    DEF IInv, TypeOK, PromptInv, Follows, promptVars, clientVars, screenVars
  <2>5. NativeFollows'
    BY <2>1, <2>2, <2>3 DEF NativeFollows, Follows, clientVars
  <2>6. OneSource' /\ RunningIsHeld' /\ SourceIsSwitched'
    BY <2>1, <2>5 DEF IInv, promptVars, clientVars, screenVars,
         NativeFollows, OneSource, RunningIsHeld, SourceIsSwitched
  <2> QED
    BY <2>4, <2>5, <2>6 DEF IInv
<1>6. ASSUME NEW e \in {"fix", "error"}, NativeEmits(e) \/ BridgeEvent(e) \/ WatchEvent(e)
      PROVE  IInv'
  <2>1. /\ UNCHANGED <<device, promptVars, clientVars, pilot, gpsRunning, nativeCalls,
                       nativeVars, crossed, killed>>
        /\ events' \in SUBSET {"fix", "error"}
        /\ gpsState' \in {"idle", "ok", "error", "denied", "stopped"}
    BY <1>6 DEF NativeEmits, BridgeEvent, WatchEvent, OnEvent, screenVars, IInv, TypeOK
  <2>2. TypeOK' /\ PromptInv'
    BY <2>1 DEF IInv, TypeOK, PromptInv, promptVars, clientVars, nativeVars
  <2>3. OneSource' /\ RunningIsHeld' /\ SourceIsSwitched' /\ NativeFollows'
    BY <2>1 DEF IInv, promptVars, clientVars, nativeVars,
         OneSource, RunningIsHeld, SourceIsSwitched, NativeFollows
  <2> QED
    BY <2>2, <2>3 DEF IInv
<1>7. CASE Kill
  <2>1. TypeOK' /\ PromptInv'
    <3>1. /\ prompt' \in [Presses -> {"none", "fine", "background"}]
          /\ \A p \in Presses : prompt'[p] = "none"
      BY <1>7 DEF Kill
    <3>2. nativeCalls' \in Seq({"start", "stop"})
      BY <1>7 DEF Kill
    <3> QED
      BY <1>7, <3>1, <3>2 DEF Kill, IInv, TypeOK, PromptInv
  <2>2. OneSource' /\ RunningIsHeld' /\ SourceIsSwitched' /\ NativeFollows'
    BY <1>7 DEF Kill, OneSource, RunningIsHeld, SourceIsSwitched, NativeFollows
  <2> QED
    BY <2>1, <2>2 DEF IInv
<1>8. ASSUME NEW p \in Presses, PromptFails(p)
      PROVE  IInv'
  <2>1. /\ UNCHANGED <<device, granted, pressPilot, clientVars, screenVars, nativeCalls,
                       nativeVars, events, crossed, killed>>
        /\ prompt' = [prompt EXCEPT ![p] = "none"]
    BY <1>8 DEF PromptFails
  <2>2. TypeOK' /\ PromptInv'
    BY <2>1 DEF IInv, TypeOK, PromptInv, clientVars, screenVars, nativeVars
  <2>3. OneSource' /\ RunningIsHeld' /\ SourceIsSwitched' /\ NativeFollows'
    BY <2>1 DEF IInv, clientVars, screenVars, nativeVars,
         OneSource, RunningIsHeld, SourceIsSwitched, NativeFollows
  <2> QED
    BY <2>2, <2>3 DEF IInv
<1>9. CASE UNCHANGED vars
  BY <1>9 DEF vars, promptVars, clientVars, screenVars, nativeVars, IInv, TypeOK,
       PromptInv, OneSource, RunningIsHeld, SourceIsSwitched, NativeFollows
<1> QED
  BY <1>1, <1>2, <1>3, <1>4, <1>5, <1>6, <1>7, <1>8, <1>9 DEF Next

LEMMA Inductive == Spec => []IInv
<1>1. Init => IInv
  BY InvInit
<1>2. IInv /\ [Next]_vars => IInv'
  BY InvNext
<1> QED
  BY <1>1, <1>2, PTL DEF Spec
-----------------------------------------------------------------------------
(* Every variable of the location client has its type.                          *)
THEOREM TypeCorrect == Spec => []TypeOK
<1>1. IInv => TypeOK
  BY DEF IInv
<1> QED
  BY <1>1, Inductive, PTL

(* The app never holds both sources, and the bridge no longer locates behind a      *)
(* watch once the native calls have run.                                        *)
THEOREM OneSourceCorrect == Spec => []OneSource
<1>1. IInv => OneSource
  BY DEF IInv
<1> QED
  BY <1>1, Inductive, PTL

(* The screen says running exactly while startGpsWatch's source is held, and only    *)
(* with the permission, for any presses that overlap in the prompts.              *)
THEOREM RunningCorrect == Spec => []RunningIsHeld
<1>1. IInv => RunningIsHeld
  BY DEF IInv
<1> QED
  BY <1>1, Inductive, PTL

(* The source is the one the pilot switch shows, but for a Start pressed before      *)
(* the switch.                                                               *)
THEOREM SwitchCorrect == Spec => []SourceIsSwitched
<1>1. IInv => SourceIsSwitched
  BY DEF IInv
<1> QED
  BY <1>1, Inductive, PTL

(* The native side ends up as start and stop of GpsClient want it.                *)
THEOREM NativeCorrect == Spec => []NativeFollows
<1>1. IInv => NativeFollows
  BY DEF IInv
<1> QED
  BY <1>1, Inductive, PTL
=============================================================================
