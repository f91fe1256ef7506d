------------------------- MODULE ReverseGeocode_proofs -------------------------
(***************************************************************************)
(* What holds of the address line for every number of calls that can overlap     *)
(* and every length of the line: it never shows the answer to an earlier          *)
(* request, the server's fallback over its hosts is complete, and the page keeps    *)
(* the waits its failures call for.                                            *)
(***************************************************************************)
EXTENDS ReverseGeocode, SequenceTheorems, TLAPS

-----------------------------------------------------------------------------
(* The inductive invariant.                                                      *)

Active == {r \in Requests : requests[r].phase # "none"}

(* reverseGeocodeInFlight lets one call at a time through, and that call asks for        *)
(* the place noted last.                                                          *)
FlightInv ==
  /\ reverseGeocodeInFlight <=> Active # {}
  /\ \A r, s \in Active : r = s
  /\ \A r \in Active : requests[r].place = lastGeocodeFix

(* A handler that goes on asking has had no result yet, and its two flags hold what     *)
(* the hosts said.                                                               *)
Asking(q) ==
  /\ Len(q.outcomes) < Hosts
  /\ Said(q) \cap {"address", "nothing"} = {}
  /\ q.authError <=> "auth" \in Said(q)
  /\ q.rateLimitError <=> "limit" \in Said(q)

HandlerInv ==
  \A r \in Requests : requests[r].phase = "server" => Asking(requests[r])

(* The wait for a number of failures in a row, and: what is left of it and what has     *)
(* passed make up all of it.                                                       *)
Backoff == << 1, 2, 4, 8, 12 >>

PaceInv ==
  /\ reverseGeocodeFailCount = failures
  /\ failures > 0 => rested + cooldown >= Backoff[failures]
  /\ failures > 0 /\ ~reverseGeocodeDisabled => shown.wait = Backoff[failures]

IInv ==
  /\ TypeOK
  /\ FlightInv
  /\ AddressIsOfLastAsk
  /\ HandlerInv
  /\ FallbackIsComplete
  /\ PaceInv

-----------------------------------------------------------------------------

(* The waits of the page, of which the last is the maximum.                          *)
LEMMA WaitIs ==
  /\ Wait(0) = 1 /\ Wait(1) = 2 /\ Wait(2) = 4 /\ Wait(3) = 8
  /\ Wait(4) = 12 /\ Wait(5) = 12
BY DEF Wait, AtMost, MaxWait

(* Either way of counting a failure ends in the wait for one more than before.           *)
LEMMA FailurePaces ==
  ASSUME NEW n \in 0..FailCap
  PROVE  LET more == AtMost(n + 1, FailCap)
         IN  /\ more \in 1..FailCap
             /\ Wait(n) = Backoff[more] /\ Wait(more - 1) = Backoff[more]
             /\ Wait(n) \in 0..MaxWait /\ Wait(more - 1) \in 0..MaxWait
<1>1. n \in {0, 1, 2, 3, 4, 5}
  BY DEF FailCap
<1>2. /\ Backoff[1] = 1 /\ Backoff[2] = 2 /\ Backoff[3] = 4 /\ Backoff[4] = 8
      /\ Backoff[5] = 12
  BY DEF Backoff
<1>3. /\ AtMost(1, 5) = 1 /\ AtMost(2, 5) = 2 /\ AtMost(3, 5) = 3
      /\ AtMost(4, 5) = 4 /\ AtMost(5, 5) = 5 /\ AtMost(6, 5) = 5
  BY DEF AtMost
<1>4. CASE n = 0
  BY <1>2, <1>3, <1>4, WaitIs DEF FailCap, MaxWait
<1>5. CASE n = 1
  BY <1>2, <1>3, <1>5, WaitIs DEF FailCap, MaxWait
<1>6. CASE n = 2
  BY <1>2, <1>3, <1>6, WaitIs DEF FailCap, MaxWait
<1>7. CASE n = 3
  BY <1>2, <1>3, <1>7, WaitIs DEF FailCap, MaxWait
<1>8. CASE n = 4
  BY <1>2, <1>3, <1>8, WaitIs DEF FailCap, MaxWait
<1>9. CASE n = 5
  BY <1>2, <1>3, <1>9, WaitIs DEF FailCap, MaxWait
<1> QED
  BY <1>1, <1>4, <1>5, <1>6, <1>7, <1>8, <1>9

LEMMA BackoffTypes ==
  \A n \in 1..FailCap : Backoff[n] \in 1..MaxWait
<1>1. ASSUME NEW n \in 1..FailCap PROVE Backoff[n] \in 1..MaxWait
  <2>1. n \in {1, 2, 3, 4, 5}
    BY DEF FailCap
  <2> QED
    BY <2>1 DEF Backoff, MaxWait
<1> QED
  BY <1>1

-----------------------------------------------------------------------------
(* The handler of the server.                                                     *)

LEMMA SaidAppend ==
  ASSUME NEW q \in RequestType, NEW o \in Outcomes
  PROVE  /\ Append(q.outcomes, o) \in Seq(Outcomes)
         /\ Append(q.outcomes, o) # << >>
         /\ Len(Append(q.outcomes, o)) = Len(q.outcomes) + 1
         /\ {Append(q.outcomes, o)[i] : i \in DOMAIN Append(q.outcomes, o)} = Said(q) \cup {o}
<1> DEFINE s == q.outcomes
<1>1. s \in Seq(Outcomes)
  BY DEF RequestType
<1>2. Len(s) \in Nat /\ DOMAIN s = 1..Len(s)
  BY <1>1, LenProperties
<1> DEFINE a == Append(s, o)
<1>3. /\ a \in Seq(Outcomes) /\ Len(a) = Len(s) + 1
      /\ \A i \in 1..Len(s) : a[i] = s[i]
      /\ a[Len(s) + 1] = o
  BY <1>1, AppendProperties
<1> HIDE DEF a
<1>4. DOMAIN a = 1..(Len(s) + 1) /\ a # << >>
  BY <1>2, <1>3, LenProperties
<1>5. {a[i] : i \in DOMAIN a} = Said(q) \cup {o}
  BY <1>2, <1>3, <1>4 DEF Said
<1> QED
  BY <1>3, <1>4, <1>5 DEF a

(* One more host: the call goes on asking or its answer folds what all of them said.       *)
LEMMA HostKeeps ==
  ASSUME NEW q \in RequestType, q.phase = "server", Asking(q), NEW o \in Outcomes
  PROVE  LET p == AfterHost(q, o)
         IN  /\ p \in RequestType
             /\ p.phase # "none" /\ p.place = q.place
             /\ p.phase = "server" => Asking(p)
             /\ AnswerIsComplete(p)
<1> DEFINE outs == Append(q.outcomes, o)
<1> DEFINE auth == q.authError \/ o = "auth"
<1> DEFINE limit == q.rateLimitError \/ o = "limit"
<1> DEFINE p == AfterHost(q, o)
<1>1. /\ outs \in Seq(Outcomes) /\ outs # << >>
      /\ Len(outs) = Len(q.outcomes) + 1 /\ Len(q.outcomes) \in Nat
      /\ {outs[i] : i \in DOMAIN outs} = Said(q) \cup {o}
  <2>1. q.outcomes \in Seq(Outcomes)
    BY DEF RequestType
  <2> QED
    BY <2>1, SaidAppend, LenProperties
<1>2. /\ Len(q.outcomes) < Hosts /\ Said(q) \cap {"address", "nothing"} = {}
      /\ q.authError <=> "auth" \in Said(q)
      /\ q.rateLimitError <=> "limit" \in Said(q)
      /\ q.authError \in BOOLEAN /\ q.rateLimitError \in BOOLEAN
  BY DEF Asking, RequestType
<1> HIDE DEF outs
<1>3. CASE o \in {"address", "nothing"}
  <2>1. p = [q EXCEPT !.phase = "body", !.answer = o, !.outcomes = outs]
    BY <1>3 DEF AfterHost, outs
  <2>2. p \in RequestType /\ p.phase = "body" /\ p.place = q.place /\ p.answer = o /\ p.outcomes = outs
    BY <1>1, <2>1 DEF RequestType, Answers
  <2> HIDE DEF p
  <2>3. o \in Said(p)
    BY <1>1, <2>2 DEF Said
  <2> QED
    BY <1>3, <2>2, <2>3 DEF AnswerIsComplete, p
<1>4. CASE o \notin {"address", "nothing"}
  <2>1. p = [q EXCEPT !.outcomes = outs, !.authError = auth, !.rateLimitError = limit,
               !.phase = IF Len(outs) = Hosts THEN "body" ELSE "server",
               !.answer = IF auth THEN "auth" ELSE IF limit THEN "limit" ELSE "error"]
    BY <1>4 DEF AfterHost, outs
  <2>2. auth \in BOOLEAN /\ limit \in BOOLEAN
    BY <1>2
  <2>3. (IF auth THEN "auth" ELSE IF limit THEN "limit" ELSE "error") \in Answers
    BY DEF Answers, Outcomes
  <2>4. /\ auth <=> "auth" \in Said(q) \cup {o}
        /\ limit <=> "limit" \in Said(q) \cup {o}
        /\ (Said(q) \cup {o}) \cap {"address", "nothing"} = {}
    BY <1>2, <1>4
  <2> HIDE DEF auth, limit
  <2>5. p \in RequestType
    BY <1>1, <2>1, <2>2, <2>3 DEF RequestType
  <2>6. /\ p.place = q.place /\ p.outcomes = outs
        /\ p.authError = auth /\ p.rateLimitError = limit
        /\ p.phase = (IF Len(outs) = Hosts THEN "body" ELSE "server")
        /\ p.answer = (IF auth THEN "auth" ELSE IF limit THEN "limit" ELSE "error")
    BY <2>1 DEF RequestType
  <2> HIDE DEF p
  <2>7. Said(p) = Said(q) \cup {o}
    BY <1>1, <2>6 DEF Said
  <2>8. Asking(p) \/ Len(outs) = Hosts
    BY <1>1, <1>2, <2>4, <2>6, <2>7 DEF Asking, Hosts
  <2>9. Len(outs) = Hosts => AnswerIsComplete(p)
    BY <2>2, <2>4, <2>6, <2>7 DEF AnswerIsComplete
  <2>10. Len(outs) # Hosts => AnswerIsComplete(p)
    BY <2>6 DEF AnswerIsComplete
  <2> QED
    BY <2>5, <2>6, <2>8, <2>9, <2>10 DEF p
<1> QED
  BY <1>3, <1>4

-----------------------------------------------------------------------------
(* Where the invariant begins, and what each kind of step leaves of it.                   *)

LEMMA InvInit == Init => IInv
<1> SUFFICES ASSUME Init PROVE IInv
  OBVIOUS
<1>1. Idle \in RequestType /\ Idle.phase = "none"
  <2>1. << >> \in Seq(Outcomes) /\ 0 \in Places /\ "error" \in Answers
    BY EmptySeq, MaxPlaceAssumption DEF Places, Answers, Outcomes
  <2> QED
    BY <2>1 DEF Idle, RequestType
<1>2. requests = [r \in Requests |-> Idle]
  BY DEF Init
<1>3. \A r \in Requests : requests[r].phase = "none"
  BY <1>1, <1>2
<1>4. TypeOK
  <2>1. requests \in [Requests -> RequestType]
    BY <1>1, <1>2
  <2>2. /\ reverseGeocodeFailCount \in 0..FailCap /\ failures \in 0..FailCap
        /\ cooldown \in 0..MaxWait /\ rested \in 0..MaxWait
    BY DEF Init, FailCap, MaxWait
  <2> QED
    BY <2>1, <2>2 DEF Init, TypeOK
<1>5. FlightInv /\ HandlerInv
  BY <1>3 DEF Init, FlightInv, Active, HandlerInv
<1>6. FallbackIsComplete
  BY <1>3 DEF FallbackIsComplete, AnswerIsComplete
<1>7. AddressIsOfLastAsk /\ PaceInv
  BY DEF Init, AddressIsOfLastAsk, PaceInv
<1> QED
  BY <1>4, <1>5, <1>6, <1>7 DEF IInv

(* The call whose answer has been dealt with: the page may ask again, an address that is    *)
(* shown is that of the call, and a failure has set the wait that is due.                 *)
Ended(r) ==
  /\ reverseGeocodeInFlight' = FALSE
  /\ requests' = [requests EXCEPT ![r] = Idle]
  /\ shown' \in [text : {"-", "address", "nothing", "auth", "limited", "failed"},
                 place : Places \cup {NoPlace}, wait : 0..MaxWait]
  /\ shown'.text = "address" => shown'.place = requests[r].place
  /\ reverseGeocodeDisabled' \in BOOLEAN
  /\ reverseGeocodeFailCount' \in 0..FailCap
  /\ failures' = reverseGeocodeFailCount'
  /\ cooldown' \in 0..MaxWait /\ rested' \in 0..MaxWait /\ missed' \in BOOLEAN
  /\ failures' > 0 => rested' + cooldown' >= Backoff[failures']
  /\ failures' > 0 /\ ~reverseGeocodeDisabled' => shown'.wait = Backoff[failures']

LEMMA CatchEnds ==
  ASSUME IInv, NEW r \in Requests, Catch(r)
  PROVE  Ended(r)
<1> DEFINE n == reverseGeocodeFailCount
<1>1. n \in 0..FailCap /\ failures = n /\ reverseGeocodeDisabled \in BOOLEAN
  BY DEF IInv, TypeOK, PaceInv
<1> DEFINE more == AtMost(n + 1, FailCap)
<1>2. /\ more \in 1..FailCap
      /\ Wait(more - 1) = Backoff[more] /\ Wait(more - 1) \in 0..MaxWait
  BY <1>1, FailurePaces
<1>3. /\ reverseGeocodeFailCount' = more /\ failures' = more
      /\ cooldown' = Wait(more - 1) /\ rested' = 0 /\ missed' = TRUE
      /\ shown' = [text |-> "failed", place |-> NoPlace, wait |-> cooldown']
      /\ reverseGeocodeInFlight' = FALSE /\ requests' = [requests EXCEPT ![r] = Idle]
      /\ UNCHANGED reverseGeocodeDisabled
  BY <1>1 DEF Catch, Fails, Done
<1> HIDE DEF n, more
<1>4. /\ more \in 0..FailCap /\ 0 \in 0..MaxWait
      /\ rested' + cooldown' >= Backoff[more]
  BY <1>2, <1>3, BackoffTypes DEF MaxWait, FailCap
<1> QED
  BY <1>1, <1>2, <1>3, <1>4 DEF Ended

LEMMA TooManyEnds ==
  ASSUME IInv, NEW r \in Requests, TooMany(r)
  PROVE  Ended(r)
<1> DEFINE n == reverseGeocodeFailCount
<1>1. n \in 0..FailCap /\ failures = n /\ reverseGeocodeDisabled \in BOOLEAN
  BY DEF IInv, TypeOK, PaceInv
<1> DEFINE more == AtMost(n + 1, FailCap)
<1>2. /\ more \in 1..FailCap
      /\ Wait(n) = Backoff[more] /\ Wait(n) \in 0..MaxWait
  BY <1>1, FailurePaces
<1>3. /\ reverseGeocodeFailCount' = more /\ failures' = more
      /\ cooldown' = Wait(n) /\ rested' = 0 /\ missed' = TRUE
      /\ shown' = [text |-> "limited", place |-> NoPlace, wait |-> cooldown']
      /\ reverseGeocodeInFlight' = FALSE /\ requests' = [requests EXCEPT ![r] = Idle]
      /\ UNCHANGED reverseGeocodeDisabled
  BY <1>1 DEF TooMany, Fails, Done
<1> HIDE DEF n, more
<1>4. /\ more \in 0..FailCap /\ 0 \in 0..MaxWait
      /\ rested' + cooldown' >= Backoff[more]
  BY <1>2, <1>3, BackoffTypes DEF MaxWait, FailCap
<1> QED
  BY <1>1, <1>2, <1>3, <1>4 DEF Ended

LEMMA SettleEnds ==
  ASSUME IInv, NEW r \in Requests, NEW complete \in BOOLEAN, Settle(r, complete)
  PROVE  Ended(r)
<1>1. TypeOK /\ PaceInv /\ requests[r].place \in Places
  BY DEF IInv, TypeOK, RequestType
<1>2. CASE Disable(r)
  <2>1. 0 \in 0..MaxWait
    BY DEF MaxWait
  <2> QED
    BY <1>1, <1>2, <2>1 DEF Disable, Done, Ended, TypeOK, PaceInv
<1>3. ASSUME Show(r, complete) PROVE Ended(r)
  <2>1. /\ 0 \in 0..FailCap /\ 0 \in 0..MaxWait /\ MaxWait \in 0..MaxWait
    BY DEF FailCap, MaxWait
  <2>2. /\ shown' \in [text : {"-", "address", "nothing", "auth", "limited", "failed"},
                       place : Places \cup {NoPlace}, wait : 0..MaxWait]
        /\ shown'.text = "address" => shown'.place = requests[r].place
    BY <1>1, <1>3, <2>1 DEF Show
  <2> QED
    BY <1>1, <1>3, <2>1, <2>2 DEF Show, Done, Ended, TypeOK
<1>4. Disable(r) \/ TooMany(r) \/ Catch(r) \/ Show(r, complete)
  BY DEF Settle
<1> QED
  BY <1>2, <1>3, <1>4, CatchEnds, TooManyEnds

LEMMA EndedKeeps ==
  ASSUME IInv, NEW r \in Active, Ended(r), UNCHANGED <<place, askVars, worker>>,
         cache' \in [Places -> Outcomes \cup {"none"}]
  PROVE  IInv'
<1> USE DEF askVars
<1>1. /\ TypeOK /\ FlightInv /\ HandlerInv /\ FallbackIsComplete /\ r \in Requests
      /\ requests \in [Requests -> RequestType]
  BY DEF IInv, TypeOK, Active
<1>2. Idle \in RequestType /\ Idle.phase = "none"
  <2>1. << >> \in Seq(Outcomes) /\ 0 \in Places /\ "error" \in Answers
    BY EmptySeq, MaxPlaceAssumption DEF Places, Answers, Outcomes
  <2> QED
    BY <2>1 DEF Idle, RequestType
<1>3. /\ requests'[r].phase = "none"
      /\ \A s \in Requests : s # r => requests'[s] = requests[s]
      /\ requests' \in [Requests -> RequestType]
  BY <1>1, <1>2 DEF Ended
<1>4. Active' = {}
  BY <1>1, <1>3 DEF FlightInv, Active
<1>5. TypeOK'
  BY <1>1, <1>3 DEF TypeOK, Ended
<1>6. FlightInv'
  BY <1>4 DEF FlightInv, Ended
<1>7. AddressIsOfLastAsk'
  BY <1>1 DEF FlightInv, AddressIsOfLastAsk, Ended
<1>8. HandlerInv' /\ FallbackIsComplete'
  BY <1>1, <1>3 DEF HandlerInv, FallbackIsComplete, AnswerIsComplete
<1>9. PaceInv'
  BY DEF PaceInv, Ended
<1> QED
  BY <1>5, <1>6, <1>7, <1>8, <1>9 DEF IInv

(* The call under way goes on: it stays under way and asks for the same place.            *)
LEMMA CallKeeps ==
  ASSUME IInv, NEW r \in Active, NEW p \in RequestType,
         requests' = [requests EXCEPT ![r] = p],
         p.phase # "none", p.place = requests[r].place,
         p.phase = "server" => Asking(p), AnswerIsComplete(p),
         UNCHANGED <<place, pageVars, askVars, reverseGeocodeInFlight, worker, cache>>
  PROVE  IInv'
<1> USE DEF askVars, pageVars
<1>1. /\ TypeOK /\ FlightInv /\ HandlerInv /\ FallbackIsComplete /\ r \in Requests
      /\ requests \in [Requests -> RequestType]
  BY DEF IInv, TypeOK, Active
<1>2. /\ requests'[r] = p
      /\ \A s \in Requests : s # r => requests'[s] = requests[s]
      /\ requests' \in [Requests -> RequestType]
  BY <1>1
<1>3. Active' = Active
  BY <1>1, <1>2 DEF Active
<1>4. TypeOK'
  BY <1>1, <1>2 DEF TypeOK
<1>5. FlightInv'
  <2>1. \A s \in Active : requests'[s].place = requests[s].place
    BY <1>2 DEF Active
  <2> QED
    BY <1>1, <1>3, <2>1 DEF FlightInv
<1>6. HandlerInv' /\ FallbackIsComplete'
  BY <1>1, <1>2 DEF HandlerInv, FallbackIsComplete
<1>7. AddressIsOfLastAsk' /\ PaceInv'
  BY DEF IInv, AddressIsOfLastAsk, PaceInv
<1> QED
  BY <1>4, <1>5, <1>6, <1>7 DEF IInv

LEMMA FetchedIs ==
  ASSUME TypeOK
  PROVE  /\ Fetched \in RequestType
         /\ Fetched.phase # "none" /\ Fetched.place = place
         /\ Fetched.phase = "server" => Asking(Fetched)
         /\ AnswerIsComplete(Fetched)
<1>1. << >> \in Seq(Outcomes) /\ "error" \in Answers /\ Len(<< >>) = 0
  BY EmptySeq DEF Answers, Outcomes
<1>2. place \in Places /\ worker \in BOOLEAN /\ cache[place] \in Outcomes \cup {"none"}
  BY DEF TypeOK
<1> DEFINE stored == [Idle EXCEPT !.phase = "body", !.place = place, !.answer = cache[place]]
<1> DEFINE asked == [Idle EXCEPT !.phase = "server", !.place = place, !.viaWorker = worker]
<1>3. ASSUME cache[place] # "none"
      PROVE  /\ stored \in RequestType /\ stored.phase = "body" /\ stored.place = place
             /\ AnswerIsComplete(stored)
  BY <1>1, <1>2, <1>3 DEF Idle, RequestType, Answers, AnswerIsComplete
<1>4. /\ asked \in RequestType /\ asked.phase = "server" /\ asked.place = place
      /\ asked.outcomes = << >> /\ asked.authError = FALSE /\ asked.rateLimitError = FALSE
  BY <1>1, <1>2 DEF Idle, RequestType
<1> HIDE DEF stored, asked
<1>5. Said(asked) = {}
  BY <1>4 DEF Said
<1>6. Asking(asked) /\ AnswerIsComplete(asked)
  BY <1>1, <1>4, <1>5 DEF Asking, AnswerIsComplete, Hosts
<1>7. Fetched = IF worker /\ cache[place] # "none" THEN stored ELSE asked
  BY DEF Fetched, stored, asked
<1> QED
  BY <1>3, <1>4, <1>6, <1>7

LEMMA AskKeeps ==
  ASSUME IInv, NEW r \in Requests, Ask(r)
  PROVE  IInv'
<1> USE DEF pageVars
<1>1. /\ TypeOK /\ FlightInv /\ HandlerInv /\ FallbackIsComplete /\ place \in Places
      /\ requests \in [Requests -> RequestType]
  BY DEF IInv, TypeOK
<1>2. ~reverseGeocodeInFlight /\ Active = {} /\ reverseGeocodeInFlight' = TRUE
  BY <1>1 DEF Ask, MayAsk, FlightInv
<1>3. /\ Fetched \in RequestType /\ Fetched.phase # "none" /\ Fetched.place = place
      /\ Fetched.phase = "server" => Asking(Fetched)
      /\ AnswerIsComplete(Fetched)
  BY <1>1, FetchedIs
<1>4. /\ requests'[r] = Fetched
      /\ \A s \in Requests : s # r => requests'[s] = requests[s]
      /\ requests' \in [Requests -> RequestType]
  BY <1>1, <1>3 DEF Ask
<1>5. Active' = {r}
  BY <1>2, <1>3, <1>4 DEF Active
<1>6. TypeOK'
  BY <1>1, <1>2, <1>4 DEF Ask, TypeOK
<1>7. FlightInv' /\ AddressIsOfLastAsk'
  BY <1>2, <1>3, <1>4, <1>5 DEF Ask, FlightInv, AddressIsOfLastAsk
<1>8. HandlerInv' /\ FallbackIsComplete'
  BY <1>1, <1>3, <1>4 DEF HandlerInv, FallbackIsComplete
<1>9. PaceInv'
  BY DEF Ask, IInv, PaceInv
<1> QED
  BY <1>6, <1>7, <1>8, <1>9 DEF IInv

LEMMA WaitGoesOn ==
  ASSUME NEW r \in 0..MaxWait, NEW c \in 0..MaxWait, NEW w \in 1..MaxWait, r + c >= w,
         NEW rr \in 0..MaxWait, NEW cc \in 0..MaxWait, rr + cc >= r + c \/ rr = MaxWait
  PROVE  rr + cc >= w
BY DEF MaxWait

(* Time only moves what is left of a wait to what has passed of it.                     *)
LEMMA TickKeeps ==
  ASSUME IInv, Tick
  PROVE  IInv'
<1>1. /\ TypeOK /\ FlightInv /\ HandlerInv /\ FallbackIsComplete /\ PaceInv
      /\ requests \in [Requests -> RequestType]
  BY DEF IInv, TypeOK
<1>2. requests' \in [Requests -> RequestType]
  <2>1. ASSUME NEW q \in RequestType
        PROVE  [q EXCEPT !.late = (q.phase # "none")] \in RequestType
    BY DEF RequestType
  <2> QED
    BY <1>1, <2>1 DEF Tick
<1>3. ASSUME NEW r \in Requests
      PROVE  /\ requests'[r].phase = requests[r].phase
             /\ requests'[r].place = requests[r].place
             /\ requests'[r].outcomes = requests[r].outcomes
             /\ requests'[r].authError = requests[r].authError
             /\ requests'[r].rateLimitError = requests[r].rateLimitError
             /\ requests'[r].answer = requests[r].answer
  BY <1>1 DEF Tick, RequestType
<1>4. \A r \in Requests : Said(requests'[r]) = Said(requests[r])
  BY <1>3 DEF Said
<1>5. Active' = Active
  BY <1>3 DEF Active
<1>6. /\ cooldown \in 0..MaxWait /\ rested \in 0..MaxWait
      /\ cooldown' \in 0..MaxWait /\ rested' \in 0..MaxWait
      /\ rested' + cooldown' >= rested + cooldown \/ rested' = MaxWait
  BY <1>1 DEF Tick, TypeOK, AtMost, MaxWait
<1>7. TypeOK'
  BY <1>1, <1>2, <1>6 DEF Tick, TypeOK
<1>8. FlightInv' /\ AddressIsOfLastAsk'
  <2>1. \A r \in Active : requests'[r].place = requests[r].place
    BY <1>3 DEF Active
  <2> QED
    BY <1>1, <1>5, <2>1 DEF Tick, IInv, FlightInv, AddressIsOfLastAsk
<1>9. HandlerInv'
  BY <1>1, <1>3, <1>4 DEF HandlerInv, Asking
<1>10. FallbackIsComplete'
  BY <1>1, <1>3, <1>4 DEF FallbackIsComplete, AnswerIsComplete
<1>11. PaceInv'
  <2>1. UNCHANGED <<failures, reverseGeocodeFailCount, reverseGeocodeDisabled, shown>>
    BY DEF Tick
  <2>2. ASSUME failures > 0 PROVE rested' + cooldown' >= Backoff[failures]
    <3>1. failures \in 1..FailCap
      BY <1>1, <2>2 DEF TypeOK, FailCap
    <3>2. Backoff[failures] \in 1..MaxWait /\ rested + cooldown >= Backoff[failures]
      BY <1>1, <2>2, <3>1, BackoffTypes DEF PaceInv
    <3> QED
      BY <1>6, <3>1, <3>2, WaitGoesOn
  <2> QED
    BY <1>1, <2>1, <2>2 DEF PaceInv
<1> QED
  BY <1>7, <1>8, <1>9, <1>10, <1>11 DEF IInv

LEMMA InvNext == IInv /\ [Next]_vars => IInv'
<1> SUFFICES ASSUME IInv, [Next]_vars PROVE IInv'
  OBVIOUS
<1> USE DEF pageVars, askVars
<1>1. /\ TypeOK /\ FlightInv /\ HandlerInv /\ FallbackIsComplete /\ PaceInv
      /\ requests \in [Requests -> RequestType] /\ cache \in [Places -> Outcomes \cup {"none"}]
  BY DEF IInv, TypeOK
<1>2. ASSUME UNCHANGED <<pageVars, askVars, reverseGeocodeInFlight, requests>>,
             place' \in Places, worker' \in BOOLEAN,
             cache' \in [Places -> Outcomes \cup {"none"}]
      PROVE  IInv'
  <2>1. TypeOK'
    BY <1>1, <1>2 DEF TypeOK
  <2>2. FlightInv' /\ HandlerInv' /\ FallbackIsComplete'
    BY <1>1, <1>2 DEF FlightInv, Active, HandlerInv, FallbackIsComplete
  <2>3. AddressIsOfLastAsk' /\ PaceInv'
    BY <1>2 DEF IInv, AddressIsOfLastAsk, PaceInv
  <2> QED
    BY <2>1, <2>2, <2>3 DEF IInv
<1>3. ASSUME NEW p \in Places, Move(p) PROVE IInv'
  <2>1. worker \in BOOLEAN
    BY <1>1 DEF TypeOK
  <2> QED
    BY <1>1, <1>2, <1>3, <2>1 DEF Move
<1>4. ASSUME Activate PROVE IInv'
  <2>1. place \in Places /\ cache' \in [Places -> Outcomes \cup {"none"}]
    BY <1>1, <1>4 DEF TypeOK, Activate
  <2> QED
    BY <1>2, <1>4, <2>1 DEF Activate
<1>5. ASSUME NEW r \in Requests, ServerRefuses(r) PROVE IInv'
  <2> DEFINE p == [requests[r] EXCEPT !.phase = "body", !.answer = "error"]
  <2>1. requests[r].phase = "server" /\ requests[r].outcomes = << >> /\ r \in Active
    BY <1>5 DEF ServerRefuses, Active
  <2>2. /\ p \in RequestType /\ p.phase = "body" /\ p.place = requests[r].place
        /\ p.outcomes = requests[r].outcomes
    BY <1>1 DEF RequestType, Answers, Outcomes
  <2>3. AnswerIsComplete(p)
    BY <2>1, <2>2 DEF AnswerIsComplete
  <2>4. requests' = [requests EXCEPT ![r] = p]
    BY <1>1, <1>5 DEF ServerRefuses
  <2> HIDE DEF p
  <2> QED
    BY <1>5, <2>1, <2>2, <2>3, <2>4, CallKeeps DEF ServerRefuses
<1>6. ASSUME NEW r \in Requests, NEW o \in Outcomes, HostAnswers(r, o) PROVE IInv'
  <2> DEFINE q == requests[r]
  <2> DEFINE p == AfterHost(q, o)
  <2>1. q \in RequestType /\ q.phase = "server" /\ Asking(q) /\ r \in Active
    BY <1>1, <1>6 DEF HostAnswers, HandlerInv, Active
  <2>2. /\ p \in RequestType /\ p.phase # "none" /\ p.place = q.place
        /\ p.phase = "server" => Asking(p)
        /\ AnswerIsComplete(p)
    BY <2>1, HostKeeps
  <2>3. requests' = [requests EXCEPT ![r] = p]
    BY <1>6 DEF HostAnswers
  <2> HIDE DEF p
  <2> QED
    BY <1>6, <2>1, <2>2, <2>3, CallKeeps DEF HostAnswers
<1>7. ASSUME NEW r \in Requests, BodyRead(r) PROVE IInv'
  <2>1. r \in Active /\ Ended(r)
    BY <1>7, SettleEnds DEF BodyRead, Active
  <2>2. requests[r].answer # "page" => requests[r].answer \in Outcomes
    BY <1>1 DEF RequestType, Answers
  <2>3. cache' \in [Places -> Outcomes \cup {"none"}]
    BY <1>1, <1>7, <2>2 DEF BodyRead
  <2> QED
    BY <1>7, <2>1, <2>3, EndedKeeps DEF BodyRead
<1>8. ASSUME NEW r \in Requests, NetworkFails(r) PROVE IInv'
  <2>1. CASE /\ requests[r].phase = "server" /\ requests[r].viaWorker
             /\ requests' = [requests EXCEPT ![r].phase = "body", ![r].answer = "page"]
             /\ UNCHANGED <<pageVars, reverseGeocodeInFlight>>
    <3> DEFINE p == [requests[r] EXCEPT !.phase = "body", !.answer = "page"]
    <3>1. /\ p \in RequestType /\ p.phase = "body" /\ p.place = requests[r].place
          /\ p.answer = "page"
      BY <1>1 DEF RequestType, Answers
    <3>2. AnswerIsComplete(p) /\ r \in Active
      BY <2>1, <3>1 DEF AnswerIsComplete, Active
    <3>3. requests' = [requests EXCEPT ![r] = p]
      BY <1>1, <2>1
    <3> HIDE DEF p
    <3> QED
      BY <1>8, <2>1, <3>1, <3>2, <3>3, CallKeeps DEF NetworkFails
  <2>2. CASE requests[r].phase # "none" /\ (Catch(r) \/ Settle(r, FALSE))
    <3>1. r \in Active /\ Ended(r)
      BY <2>2, CatchEnds, SettleEnds DEF Active
    <3> QED
      BY <1>1, <1>8, <3>1, EndedKeeps DEF NetworkFails
  <2> QED
    BY <1>8, <2>1, <2>2 DEF NetworkFails
<1>9. ASSUME NEW r \in Requests, Abort(r) PROVE IInv'
  <2>1. r \in Active /\ Ended(r)
    BY <1>9, CatchEnds, SettleEnds DEF Abort, Active
  <2>2. cache' \in [Places -> Outcomes \cup {"none"}]
    <3>1. \A o \in Outcomes :
            [cache EXCEPT ![requests[r].place] = o] \in [Places -> Outcomes \cup {"none"}]
      BY <1>1
    <3> QED
      BY <1>1, <1>9, <3>1 DEF Abort, Orphaned
  <2> QED
    BY <1>9, <2>1, <2>2, EndedKeeps DEF Abort
<1>10. CASE UNCHANGED vars
  BY <1>1, <1>2, <1>10 DEF vars, TypeOK
<1> QED
  BY <1>3, <1>4, <1>5, <1>6, <1>7, <1>8, <1>9, <1>10, AskKeeps, TickKeeps DEF Next

LEMMA InvAlways == Spec => []IInv
<1>1. Init => IInv
  BY InvInit
<1>2. IInv /\ [Next]_vars => IInv'
  BY InvNext
<1> QED
  BY <1>1, <1>2, PTL DEF Spec

-----------------------------------------------------------------------------
(* The properties.                                                               *)

(* The state has its types: counts and waits up to their caps, calls that are known      *)
(* by the phase they are suspended in, and a cache that holds answers of the server       *)
(* only, never the start page.                                                    *)
THEOREM TypeCorrect == Spec => []TypeOK
<1>1. IInv => TypeOK
  BY DEF IInv
<1> QED
  BY <1>1, InvAlways, PTL

(* _maybeReverseGeocode never shows the address of an earlier request: reverseGeocodeInFlight *)
(* is released only by the call that took it, so what it shows is of the place noted        *)
(* last, over aborts, late bodies and replies out of the cache of the worker.              *)
THEOREM AddressCorrect == Spec => []AddressIsOfLastAsk
<1>1. IInv => AddressIsOfLastAsk
  BY DEF IInv
<1> QED
  BY <1>1, InvAlways, PTL

(* api_naver_reverse_geocode gives up on no host too early and folds what they said into     *)
(* one answer, a rejected key before a limit before any other error.                     *)
THEOREM FallbackCorrect == Spec => []FallbackIsComplete
<1>1. IInv => FallbackIsComplete
  BY DEF IInv
<1> QED
  BY <1>1, InvAlways, PTL

(* The page asks for an address only when the wait that it announces has passed, and the      *)
(* wait is that for the failures it has shown in a row, whichever of the branches of          *)
(* _maybeReverseGeocode counted each of them.                                           *)
THEOREM BackoffCorrect == Spec => NoRequestInBackoff
<1>1. ASSUME IInv, [Next]_vars
      PROVE  [(~reverseGeocodeInFlight /\ reverseGeocodeInFlight') =>
                (failures > 0 => /\ shown.wait = << 1, 2, 4, 8, 12 >>[failures]
                                 /\ rested >= shown.wait)]_vars
  <2> SUFFICES ASSUME ~reverseGeocodeInFlight, reverseGeocodeInFlight', failures > 0
               PROVE  /\ shown.wait = << 1, 2, 4, 8, 12 >>[failures]
                      /\ rested >= shown.wait
    OBVIOUS
  <2>1. TypeOK /\ PaceInv
    BY <1>1 DEF IInv
  <2>2. PICK r \in Requests : Ask(r)
    <3>1. ASSUME NEW r \in Requests, BodyRead(r) \/ NetworkFails(r) \/ Abort(r) PROVE FALSE
      <4>1. ~ reverseGeocodeInFlight' \/ UNCHANGED reverseGeocodeInFlight
        BY <3>1 DEF BodyRead, NetworkFails, Abort, Settle, Disable, TooMany, Catch, Show, Done
      <4> QED
        BY <4>1
    <3> QED
      BY <1>1, <3>1 DEF Next, Move, ServerRefuses, HostAnswers, Activate, Tick, vars
  <2>3. cooldown = 0 /\ ~reverseGeocodeDisabled
    BY <2>2 DEF Ask, MayAsk
  <2>4. rested + 0 >= Backoff[failures] /\ rested \in Int
    BY <2>1, <2>3 DEF PaceInv, TypeOK, MaxWait
  <2>5. rested >= Backoff[failures] /\ shown.wait = Backoff[failures]
    BY <2>1, <2>3, <2>4 DEF PaceInv
  <2> QED
    BY <2>5 DEF Backoff
<1> QED
  BY <1>1, InvAlways, PTL DEF Spec, NoRequestInBackoff
=============================================================================
