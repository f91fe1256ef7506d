---------------------------- MODULE ReverseGeocode ----------------------------
(***************************************************************************)
(* The address line of the roadview: NaverRoadview._maybeReverseGeocode          *)
(* (client/naver-roadview.js), the service worker between page and server         *)
(* (client/sw.js), and api_naver_reverse_geocode (server/app.py), which asks two   *)
(* hosts of the map provider one after the other.                               *)
(*                                                                          *)
(* Places lie on a line, 10 m apart; a unit of time is 5 s, of which all waits of   *)
(* the page are multiples.  The abort timer of 4.5 s fires within the unit in which  *)
(* its request was sent or, timers being late in a hidden tab, in the next.         *)
(* The panorama is ready; that it is drawn is left out.                          *)
(***************************************************************************)
EXTENDS Integers, Sequences

CONSTANTS
  Requests,  \* calls of _maybeReverseGeocode that can be suspended at the same time
  MaxPlace   \* bound: the last place of the line

ASSUME MaxPlaceAssumption == MaxPlace \in Nat

VARIABLES
  place,                    \* where the vehicle is shown
  reverseGeocodeDisabled,
  reverseGeocodeInFlight,
  reverseGeocodeFailCount,  \* up to FailCap, from where it makes no difference
  cooldown,                 \* units until reverseGeocodeCooldownUntilMs
  gapOver,                  \* 5 s have passed since lastGeocodeAtMs
  lastGeocodeFix,
  shown,                    \* [text, place, wait] of the address line
  requests,                 \* [Requests -> the suspended call and its handler]
  worker,                   \* a service worker controls the page
  cache,                    \* [Places -> the answer the worker has stored, or none]
  failures,                 \* history: failures shown since a success was, up to FailCap
  rested,                   \* history: units since the last of them, up to MaxWait
  missed                    \* history: the last request failed, whatever is shown of it

pageVars == <<reverseGeocodeDisabled, reverseGeocodeFailCount, cooldown, shown,
              failures, rested, missed>>
askVars == <<gapOver, lastGeocodeFix>>
vars == <<place, pageVars, askVars, reverseGeocodeInFlight, requests, worker, cache>>

Places == 0..MaxPlace
NoPlace == -1

Distance(p, q) == IF p < q THEN q - p ELSE p - q

(* What a host can answer: an address, a result no address can be made of, 401 or    *)
(* 403, 429, and anything else, a timeout and an error in the payload included.      *)
Outcomes == {"address", "nothing", "auth", "limit", "error"}
Hosts == 2

(* What the page can get: the answer of the server, or the start page in its place.   *)
Answers == Outcomes \cup {"page"}

Idle == [phase |-> "none", place |-> 0, late |-> FALSE, viaWorker |-> FALSE,
         outcomes |-> << >>, authError |-> FALSE, rateLimitError |-> FALSE,
         answer |-> "error"]

FailCap == 5
MaxWait == 12

Init ==
  /\ place \in Places
  /\ reverseGeocodeDisabled = FALSE
  /\ reverseGeocodeInFlight = FALSE
  /\ reverseGeocodeFailCount = 0
  /\ cooldown = 0
  /\ gapOver = FALSE
  /\ lastGeocodeFix = NoPlace
  /\ shown = [text |-> "-", place |-> NoPlace, wait |-> 0]
  /\ requests = [r \in Requests |-> Idle]
  /\ worker \in BOOLEAN
  /\ cache = [p \in Places |-> "none"]
  /\ failures = 0
  /\ rested = MaxWait
  /\ missed = FALSE

-----------------------------------------------------------------------------
(* The page asks.                                                             *)

(* The vehicle moves on.                                                       *)
Move(p) ==
  /\ Distance(p, place) = 1
  /\ place' = p
  /\ UNCHANGED <<pageVars, askVars, reverseGeocodeInFlight, requests, worker, cache>>

(* 20 m from where the page has asked last.                                     *)
Far == lastGeocodeFix = NoPlace \/ Distance(lastGeocodeFix, place) >= 2

(* Mutant: a request under way does not keep the page from asking again.            *)
MayAskOverlapping ==
  /\ ~reverseGeocodeDisabled
  /\ cooldown = 0
  /\ gapOver
  /\ Far

MayAsk ==
  /\ ~reverseGeocodeDisabled
  /\ ~reverseGeocodeInFlight
  /\ cooldown = 0
  /\ gapOver
  /\ Far

(* The fetch handler of the worker: what is stored is answered, whatever it is.      *)
Fetched ==
  IF worker /\ cache[place] # "none"
  THEN [Idle EXCEPT !.phase = "body", !.place = place, !.answer = cache[place]]
  ELSE [Idle EXCEPT !.phase = "server", !.place = place, !.viaWorker = worker]

(* A fix that is not stale reaches _maybeReverseGeocode.                          *)
Ask(r) ==
  /\ requests[r].phase = "none"
  /\ MayAsk
  /\ gapOver' = FALSE
  /\ lastGeocodeFix' = place
  /\ reverseGeocodeInFlight' = TRUE
  /\ requests' = [requests EXCEPT ![r] = Fetched]
  /\ UNCHANGED <<place, pageVars, worker, cache>>

-----------------------------------------------------------------------------
(* The server answers.                                                        *)

(* Mutant: a host that rejects the key ends the loop.                             *)
AfterHostRaises(q, o) ==
  LET outs == Append(q.outcomes, o)
      auth == q.authError \/ o = "auth"
      limit == q.rateLimitError \/ o = "limit"
  IN IF o \in {"address", "nothing"} THEN [q EXCEPT !.phase = "body", !.answer = o,
                                                    !.outcomes = outs]
     ELSE [q EXCEPT !.outcomes = outs, !.authError = auth, !.rateLimitError = limit,
            !.phase = IF auth \/ Len(outs) = Hosts THEN "body" ELSE "server",
            !.answer = IF auth THEN "auth" ELSE IF limit THEN "limit" ELSE "error"]

(* The handler after the next host has answered o: an address or an empty result is   *)
(* passed on at once, anything else is noted, and after the last host a rejected key  *)
(* comes before a limit and that before any other error.                          *)
AfterHost(q, o) ==
  LET outs == Append(q.outcomes, o)
      auth == q.authError \/ o = "auth"
      limit == q.rateLimitError \/ o = "limit"
  IN IF o \in {"address", "nothing"} THEN [q EXCEPT !.phase = "body", !.answer = o,
                                                    !.outcomes = outs]
     ELSE [q EXCEPT !.outcomes = outs, !.authError = auth, !.rateLimitError = limit,
            !.phase = IF Len(outs) = Hosts THEN "body" ELSE "server",
            !.answer = IF auth THEN "auth" ELSE IF limit THEN "limit" ELSE "error"]

HostAnswers(r, o) ==
  /\ requests[r].phase = "server"
  /\ requests' = [requests EXCEPT ![r] = AfterHost(@, o)]
  /\ UNCHANGED <<place, pageVars, askVars, reverseGeocodeInFlight, worker, cache>>

(* 503: the server has no key, or its HTTP client is gone.                        *)
ServerRefuses(r) ==
  /\ requests[r].phase = "server"
  /\ requests[r].outcomes = << >>
  /\ requests' = [requests EXCEPT ![r].phase = "body", ![r].answer = "error"]
  /\ UNCHANGED <<place, pageVars, askVars, reverseGeocodeInFlight, worker, cache>>

-----------------------------------------------------------------------------
(* The page gets its answer.                                                    *)

AtMost(n, bound) == IF n < bound THEN n ELSE bound

(* Mutant: the wait doubles without a maximum.                                   *)
WaitUnbounded(n) == 2 ^ AtMost(n, 4)

(* min(60, 5 * 2 ** min(n, 4)) seconds.                                          *)
Wait(n) == AtMost(2 ^ AtMost(n, 4), MaxWait)

(* The finally block.                                                          *)
Done(r) ==
  /\ reverseGeocodeInFlight' = FALSE
  /\ requests' = [requests EXCEPT ![r] = Idle]

(* A failure is shown, with the wait that it has set.                               *)
Fails(text) ==
  /\ shown' = [text |-> text, place |-> NoPlace, wait |-> cooldown']
  /\ failures' = AtMost(failures + 1, FailCap)
  /\ rested' = 0
  /\ missed' = TRUE

(* Mutant: an aborted or failed request is not counted.                           *)
CatchUncounted(r) ==
  /\ cooldown' = Wait(reverseGeocodeFailCount)
  /\ Fails("failed")
  /\ Done(r)
  /\ UNCHANGED <<reverseGeocodeDisabled, reverseGeocodeFailCount>>

(* The catch block.                                                            *)
Catch(r) ==
  /\ reverseGeocodeFailCount' = AtMost(reverseGeocodeFailCount + 1, FailCap)
  /\ cooldown' = Wait(reverseGeocodeFailCount' - 1)
  /\ Fails("failed")
  /\ Done(r)
  /\ UNCHANGED reverseGeocodeDisabled

(* The branch of 429, without a Retry-After header: the server sets none.           *)
TooMany(r) ==
  /\ cooldown' = Wait(reverseGeocodeFailCount)
  /\ reverseGeocodeFailCount' = AtMost(reverseGeocodeFailCount + 1, FailCap)
  /\ Fails("limited")
  /\ Done(r)
  /\ UNCHANGED reverseGeocodeDisabled

(* The branch of 401 and 403.                                                   *)
Disable(r) ==
  /\ reverseGeocodeDisabled' = TRUE
  /\ shown' = [text |-> "auth", place |-> NoPlace, wait |-> 0]
  /\ missed' = FALSE
  /\ Done(r)
  /\ UNCHANGED <<reverseGeocodeFailCount, cooldown, failures, rested>>

(* The answer is ok; a payload that is no JSON, because it is the start page or because  *)
(* the body broke off, has no address, and counts as a success all the same.          *)
Show(r, complete) ==
  /\ reverseGeocodeFailCount' = 0
  /\ cooldown' = 0
  /\ shown' = IF complete /\ requests[r].answer = "address"
              THEN [text |-> "address", place |-> requests[r].place, wait |-> 0]
              ELSE [text |-> "nothing", place |-> NoPlace, wait |-> 0]
  /\ failures' = 0
  /\ rested' = MaxWait
  /\ missed' = (~complete \/ requests[r].answer = "page")
  /\ Done(r)
  /\ UNCHANGED reverseGeocodeDisabled

(* What follows res.json(), whose failure leaves a payload of null.                *)
Settle(r, complete) ==
  LET a == requests[r].answer
  IN \/ a = "auth" /\ Disable(r)
     \/ a = "limit" /\ TooMany(r)
     \/ a = "error" /\ Catch(r)
     \/ a \in {"address", "nothing", "page"} /\ Show(r, complete)

(* The body has arrived; the worker stores any answer of the server with it.         *)
BodyRead(r) ==
  /\ requests[r].phase = "body"
  /\ cache' = IF requests[r].viaWorker /\ requests[r].answer # "page"
              THEN [cache EXCEPT ![requests[r].place] = requests[r].answer]
              ELSE cache
  /\ Settle(r, TRUE)
  /\ UNCHANGED <<place, askVars, worker>>

(* The request gets no answer, or its body breaks off.  The worker answers with the    *)
(* start page for the first.                                                    *)
NetworkFails(r) ==
  /\ \/ /\ requests[r].phase = "server" /\ requests[r].viaWorker
        /\ requests' = [requests EXCEPT ![r].phase = "body", ![r].answer = "page"]
        /\ UNCHANGED <<pageVars, reverseGeocodeInFlight>>
     \/ requests[r].phase = "server" /\ ~requests[r].viaWorker /\ Catch(r)
     \/ requests[r].phase = "body" /\ Settle(r, FALSE)
  /\ UNCHANGED <<place, askVars, worker, cache>>

(* Mutant: the timer is cleared once the headers are there.                        *)
AbortBeforeHeaders(r) ==
  /\ requests[r].phase = "server"
  /\ Catch(r)
  /\ UNCHANGED <<place, askVars, worker, cache>>

(* Whether the abort of the page reaches the worker depends on the browser: it may     *)
(* still get an answer and store it.                                             *)
Orphaned(q) ==
  {cache} \cup
  IF ~q.viaWorker THEN {}
  ELSE {[cache EXCEPT ![q.place] = o] :
          o \in IF q.phase = "body" THEN {q.answer} \cap Outcomes ELSE Outcomes}

(* The abort timer fires: fetch throws, or the body breaks off.  The handler of the     *)
(* server goes on, and the page gets nothing of it.                                *)
Abort(r) ==
  /\ \/ requests[r].phase = "server" /\ Catch(r)
     \/ requests[r].phase = "body" /\ Settle(r, FALSE)
  /\ cache' \in Orphaned(requests[r])
  /\ UNCHANGED <<place, askVars, worker>>

-----------------------------------------------------------------------------
(* A version of the worker is installed and takes over: it deletes what the others     *)
(* have stored.                                                               *)
Activate ==
  /\ worker' = TRUE
  /\ cache' = [p \in Places |-> "none"]
  /\ UNCHANGED <<place, pageVars, askVars, reverseGeocodeInFlight, requests>>

(* A unit of time passes.                                                       *)
Tick ==
  /\ \A r \in Requests : requests[r].phase # "none" => ~requests[r].late
  /\ requests' = [r \in Requests |->
                    [requests[r] EXCEPT !.late = (requests[r].phase # "none")]]
  /\ cooldown' = IF cooldown > 0 THEN cooldown - 1 ELSE 0
  /\ gapOver' = TRUE
  /\ rested' = AtMost(rested + 1, MaxWait)
  /\ UNCHANGED <<place, reverseGeocodeDisabled, reverseGeocodeInFlight,
                 reverseGeocodeFailCount, lastGeocodeFix, shown, worker, cache, failures, missed>>

Next ==
  \/ \E p \in Places : Move(p)
  \/ \E r \in Requests :
       \/ Ask(r) \/ ServerRefuses(r)
       \/ \E o \in Outcomes : HostAnswers(r, o)
       \/ BodyRead(r) \/ NetworkFails(r) \/ Abort(r)
  \/ Activate
  \/ Tick

Spec == Init /\ [][Next]_vars

(* Time passes, timers fire, and fixes that are not stale keep coming.               *)
FairSpec ==
  /\ Spec
  /\ WF_vars(Tick)
  /\ \A r \in Requests : WF_vars(requests[r].late /\ Abort(r))
  /\ WF_vars(\E r \in Requests : Ask(r))

-----------------------------------------------------------------------------
RequestType ==
  [phase : {"none", "server", "body"}, place : Places, late : BOOLEAN,
   viaWorker : BOOLEAN, outcomes : Seq(Outcomes), authError : BOOLEAN,
   rateLimitError : BOOLEAN, answer : Answers]

TypeOK ==
  /\ place \in Places
  /\ reverseGeocodeDisabled \in BOOLEAN
  /\ reverseGeocodeInFlight \in BOOLEAN
  /\ reverseGeocodeFailCount \in 0..FailCap
  /\ cooldown \in 0..MaxWait
  /\ gapOver \in BOOLEAN
  /\ lastGeocodeFix \in Places \cup {NoPlace}
  /\ shown \in [text : {"-", "address", "nothing", "auth", "limited", "failed"},
                place : Places \cup {NoPlace}, wait : 0..MaxWait]
  /\ requests \in [Requests -> RequestType]
  /\ worker \in BOOLEAN
  /\ cache \in [Places -> Outcomes \cup {"none"}]
  /\ failures \in 0..FailCap
  /\ rested \in 0..MaxWait
  /\ missed \in BOOLEAN

(* The address line is never overwritten by the answer to an earlier request: an       *)
(* address that is shown with nothing under way is that of the place asked for last,   *)
(* over aborts, late answers and replies of the worker.                            *)
AddressIsOfLastAsk ==
  (shown.text = "address" /\ ~reverseGeocodeInFlight) => shown.place = lastGeocodeFix

(* What the hosts asked so far have said.                                        *)
Said(q) == {q.outcomes[i] : i \in DOMAIN q.outcomes}

AnswerIsComplete(q) ==
  (q.phase = "body" /\ q.outcomes # << >> /\ q.answer # "page") =>
    IF q.answer \in {"address", "nothing"}
    THEN q.answer \in Said(q)
    ELSE /\ Len(q.outcomes) = Hosts
         /\ Said(q) \cap {"address", "nothing"} = {}
         /\ q.answer = "auth" <=> "auth" \in Said(q)
         /\ q.answer = "limit" <=> ("limit" \in Said(q) /\ "auth" \notin Said(q))

(* The server gives up on no host too early and folds what they said into one answer:   *)
(* an error is passed on only after every host was asked and none had a result, and    *)
(* a rejected key or a limit is passed on exactly if some host said so.               *)
FallbackIsComplete == \A r \in Requests : AnswerIsComplete(requests[r])

(* While the address line says that the last request failed, the page does not ask        *)
(* before the wait that is announced there is over; and these waits are 5, 10, 20, 40 and     *)
(* then 60 s for the failures shown in a row, be they timeouts, errors or limits, mixed in    *)
(* any order.  A failure that is shown as a success, the start page for an answer or a body    *)
(* that breaks off, ends the row, and its retry is not asked for here: see FailedIsRetried.    *)
NoRequestInBackoff ==
  [][(~reverseGeocodeInFlight /\ reverseGeocodeInFlight') =>
       (failures > 0 => /\ shown.wait = << 1, 2, 4, 8, 12 >>[failures]
                        /\ rested >= shown.wait)]_vars

(* A vehicle that has got 20 m away from where the page asked last is asked for, unless  *)
(* it comes back before: no hanging server, broken body or backoff stops that for good.  *)
MovingIsAsked == Far ~> (~Far \/ reverseGeocodeDisabled)

-----------------------------------------------------------------------------
(* README.md:132 and server/README.md:66: after any failure but a rejected key the client    *)
(* retries by itself, with exponential backoff.  It does not where the vehicle stays: for a    *)
(* failure that is shown, lastGeocodeFix was set before the request and keeps the page from     *)
(* asking there again; and a network failure that the worker answers with the start page, or    *)
(* a body that breaks off, is taken for a success.  A retry that the worker answers with the     *)
(* error it has stored for the place is none either: it reaches no server.                   *)
FailedIsRetried ==
  missed ~> (reverseGeocodeDisabled \/ \E r \in Requests : requests[r].phase = "server")
=============================================================================
