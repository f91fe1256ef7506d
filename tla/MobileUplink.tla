----------------------------- MODULE MobileUplink -----------------------------
(***************************************************************************)
(* The GPS uplink of the mobile app (mobile/src/App.js) with its             *)
(* StoreForwardQueue: every fix is sent live or stored, and a reconnect      *)
(* flushes the store.  The socket is reduced to open or not (MobileWsClient  *)
(* models how it reconnects); a message handed to an open socket is          *)
(* delivered in order or lost with the connection.                          *)
(***************************************************************************)
EXTENDS StoreForwardQueue, FiniteSets

CONSTANTS
  MaxFixes,     \* bound: fixes the location callback delivers
  MaxOpens,     \* bound: connections opened
  MaxCrashes,   \* bound: the OS ends the app, the user starts it again
  MaxFailures   \* bound: storage operations that fail

ASSUME BoundsAssumption == /\ MaxFixes \in Nat
                           /\ MaxOpens \in Nat
                           /\ MaxCrashes \in Nat
                           /\ MaxFailures \in Nat

VARIABLES
  wsOpen,       \* wsClientRef.current.isOpen()
  connected,    \* an effect for connectionState = "connected" is due
  flushing,     \* flushingRef.current
  net,          \* messages in flight: [fix, stamped]
  csv,          \* messages the server wrote to its GPS file
  fixes,        \* fixes delivered so far, the number of the newest
  opens, crashes, failures,  \* counters for the bounds
  rereads,      \* history: a getItem returned after another init had ended
  readFailed,   \* history: a getItem failed
  writeFailed,  \* history: the newest setItem to return failed
  overflowed,   \* history: fixes the bound of the queue has dropped
  netLost,      \* history: messages lost with a connection
  durable       \* history: fixes that have been in storage

netVars == <<wsOpen, net, csv, netLost>>
boundVars == <<fixes, opens, crashes, failures>>
historyVars == <<rereads, readFailed, writeFailed, overflowed, durable>>
vars == <<queueVars, netVars, connected, flushing, boundVars, historyVars>>

Elements(q) == {q[i] : i \in 1..Len(q)}

Live(fix) == [fix |-> fix, stamped |-> FALSE]
Replays(q) == [i \in 1..Len(q) |-> [fix |-> q[i], stamped |-> TRUE]]

(* The mount effect calls init.                                             *)
Init ==
  /\ QueueInit
  /\ ops = << GetOp("mount", NoFix) >>
  /\ wsOpen = FALSE
  /\ connected = FALSE
  /\ flushing = FALSE
  /\ net = << >>
  /\ csv = << >>
  /\ fixes = 0
  /\ opens = 0
  /\ crashes = 0
  /\ failures = 0
  /\ rereads = FALSE
  /\ readFailed = FALSE
  /\ writeFailed = FALSE
  /\ overflowed = {}
  /\ netLost = {}
  /\ durable = {}

-----------------------------------------------------------------------------
(* flushQueuedGps, with the messages sent before it in the same segment.      *)
FlushQueuedGps(sentBefore) ==
  IF flushing \/ ~wsOpen
  THEN /\ net' = net \o sentBefore
       /\ UNCHANGED <<items, overflowCount, ops, flushing>>
  ELSE /\ flushing' = TRUE
       /\ IF loaded
          THEN /\ Drain(items, wsOpen, ops)
               /\ net' = net \o sentBefore \o Replays(Sent(items, wsOpen))
          ELSE /\ AwaitInit("flush", NoFix)
               /\ net' = net \o sentBefore

(* The fixes a Push onto q drops.                                           *)
Overflow(q, fix) ==
  LET grown == Append(q, fix)
  IN  {grown[i] : i \in 1..Excess(Len(grown))}

(* sendGpsUplinkWithQueue: the live fix goes first, then what is stored; or   *)
(* the fix is stored.                                                       *)
GpsFix ==
  /\ fixes < MaxFixes
  /\ fixes' = fixes + 1
  /\ IF wsOpen
     THEN /\ FlushQueuedGps(<< Live(fixes + 1) >>)
          /\ UNCHANGED overflowed
     ELSE /\ IF loaded
             THEN /\ Push(items, fixes + 1, ops)
                  /\ overflowed' = overflowed \cup Overflow(items, fixes + 1)
             ELSE /\ AwaitInit("enqueue", fixes + 1)
                  /\ UNCHANGED overflowed
          /\ UNCHANGED <<net, flushing>>
  /\ UNCHANGED <<loaded, storage, wsOpen, csv, netLost, connected, opens,
                 crashes, failures, rereads, readFailed, writeFailed, durable>>

(* The effect for connectionState "connected" runs after the render.         *)
ConnectedEffect ==
  /\ connected
  /\ connected' = FALSE
  /\ FlushQueuedGps(<< >>)
  /\ UNCHANGED <<loaded, storage, wsOpen, csv, netLost, boundVars, historyVars>>

(* getItem returns: init ends and the call that awaited it goes on.          *)
ReadReturns(ok) ==
  /\ ops # << >>
  /\ Head(ops).kind = "get"
  /\ ok \/ failures < MaxFailures
  /\ failures' = IF ok THEN failures ELSE failures + 1
  /\ loaded' = TRUE
  /\ rereads' = (rereads \/ loaded)
  /\ readFailed' = (readFailed \/ ~ok)
  /\ LET op == Head(ops)
         q == AfterRead(ok)
     IN  \/ /\ op.then = "mount"
            /\ items' = q
            /\ ops' = Tail(ops)
            /\ UNCHANGED <<overflowCount, overflowed, net>>
         \/ /\ op.then = "enqueue"
            /\ Push(q, op.fix, Tail(ops))
            /\ overflowed' = overflowed \cup Overflow(q, op.fix)
            /\ UNCHANGED net
         \/ /\ op.then = "flush"
            /\ Drain(q, wsOpen, Tail(ops))
            /\ net' = net \o Replays(Sent(q, wsOpen))
            /\ UNCHANGED overflowed
  /\ UNCHANGED <<storage, wsOpen, csv, netLost, connected, flushing, fixes,
                 opens, crashes, writeFailed, durable>>

(* Mutant: the guard is dropped only behind a write that succeeded.             *)
WriteReturnsOrLocks(ok) ==
  /\ ops # << >>
  /\ Head(ops).kind = "set"
  /\ ok \/ failures < MaxFailures
  /\ failures' = IF ok THEN failures ELSE failures + 1
  /\ StoreWrite(Head(ops), ok)
  /\ ops' = Tail(ops)
  /\ flushing' = (flushing /\ ~(ok /\ Head(ops).then = "release"))
  /\ writeFailed' = ~ok
  /\ durable' = IF ok THEN durable \cup Elements(Head(ops).value) ELSE durable
  /\ UNCHANGED <<items, loaded, overflowCount, netVars, connected, fixes,
                 opens, crashes, rereads, readFailed, overflowed>>

(* setItem returns; the finally clause of flushQueuedGps drops the guard.     *)
WriteReturns(ok) ==
  /\ ops # << >>
  /\ Head(ops).kind = "set"
  /\ ok \/ failures < MaxFailures
  /\ failures' = IF ok THEN failures ELSE failures + 1
  /\ StoreWrite(Head(ops), ok)
  /\ ops' = Tail(ops)
  /\ flushing' = (flushing /\ Head(ops).then # "release")
  /\ writeFailed' = ~ok
  /\ durable' = IF ok THEN durable \cup Elements(Head(ops).value) ELSE durable
  /\ UNCHANGED <<items, loaded, overflowCount, netVars, connected, fixes,
                 opens, crashes, rereads, readFailed, overflowed>>

StorageReturns == \E ok \in BOOLEAN : ReadReturns(ok) \/ WriteReturns(ok)

-----------------------------------------------------------------------------
(* The socket (external to this module).                                    *)

WsOpens ==
  /\ ~wsOpen
  /\ opens < MaxOpens
  /\ opens' = opens + 1
  /\ wsOpen' = TRUE
  /\ connected' = TRUE
  /\ UNCHANGED <<queueVars, net, csv, netLost, flushing, fixes, crashes,
                 failures, historyVars>>

WsCloses ==
  /\ wsOpen
  /\ wsOpen' = FALSE
  /\ net' = << >>
  /\ netLost' = netLost \cup Elements(net)
  /\ UNCHANGED <<queueVars, csv, connected, flushing, boundVars, historyVars>>

(* The server's receive loop writes one row per message.                     *)
NetDelivers ==
  /\ net # << >>
  /\ csv' = Append(csv, Head(net))
  /\ net' = Tail(net)
  /\ UNCHANGED <<queueVars, wsOpen, netLost, connected, flushing, boundVars,
                 historyVars>>

(* The process ends at any point and the app is started again: what was not    *)
(* stored is gone, and so is every operation that had not been executed.      *)
Crash ==
  /\ crashes < MaxCrashes
  /\ crashes' = crashes + 1
  /\ items' = << >>
  /\ loaded' = FALSE
  /\ overflowCount' = 0
  /\ ops' = << GetOp("mount", NoFix) >>
  /\ wsOpen' = FALSE
  /\ connected' = FALSE
  /\ flushing' = FALSE
  /\ net' = << >>
  /\ netLost' = netLost \cup Elements(net)
  /\ UNCHANGED <<storage, csv, fixes, opens, failures, historyVars>>

Next ==
  \/ GpsFix \/ ConnectedEffect \/ StorageReturns
  \/ WsOpens \/ WsCloses \/ NetDelivers \/ Crash

Spec == Init /\ [][Next]_vars

(* AsyncStorage answers every call, the effect of a render runs, and what an   *)
(* open socket carries arrives.  No fix, connection or crash is owed.         *)
FairSpec == /\ Spec
            /\ WF_vars(StorageReturns)
            /\ WF_vars(ConnectedEffect)
            /\ WF_vars(NetDelivers)

-----------------------------------------------------------------------------
FixNumbers == 1..MaxFixes
Messages == [fix : FixNumbers, stamped : BOOLEAN]

Operations ==
  [kind : {"get"}, then : {"mount", "flush"}, fix : {NoFix}, value : {<< >>}]
    \cup [kind : {"get"}, then : {"enqueue"}, fix : FixNumbers, value : {<< >>}]
    \cup [kind : {"set"}, then : {"none", "release"}, fix : {NoFix}, value : Seq(FixNumbers)]

TypeOK ==
  /\ items \in Seq(FixNumbers)
  /\ {loaded, wsOpen, connected, flushing} \subseteq BOOLEAN
  /\ overflowCount \in Nat
  /\ storage = << >> \/ (storage = << storage[1] >> /\ storage[1] \in Seq(FixNumbers))
  /\ ops \in Seq(Operations)
  /\ net \in Seq(Messages)
  /\ csv \in Seq(Messages)
  /\ netLost \subseteq Messages
  /\ fixes \in 0..MaxFixes /\ opens \in 0..MaxOpens
  /\ crashes \in 0..MaxCrashes /\ failures \in 0..MaxFailures
  /\ {rereads, readFailed, writeFailed} \subseteq BOOLEAN
  /\ overflowed \subseteq FixNumbers /\ durable \subseteq FixNumbers

(* Fixes whose enqueue still awaits init.                                    *)
Waiting == {op.fix : op \in {o \in Elements(ops) : o.then = "enqueue"}}

FixesOf(msgs) == {m.fix : m \in Elements(msgs)}

(* Fixes handed to an open socket.                                          *)
Accepted == FixesOf(net) \cup FixesOf(csv) \cup {m.fix : m \in netLost}

(* In a run of the app without a crash, and in which getItem is not repeated,  *)
(* every fix is in exactly one place: waiting, queued, dropped by the bound    *)
(* of the queue, or handed to the socket; and it is handed over once.  The     *)
(* queue neither loses nor duplicates, whatever storage and network do.       *)
EveryFixInOnePlace ==
  (crashes = 0 /\ ~rereads) =>
    /\ Waiting \cup Elements(items) \cup overflowed \cup Accepted = 1..fixes
    /\ Waiting \cap (Elements(items) \cup overflowed \cup Accepted) = {}
    /\ Elements(items) \cap (overflowed \cup Accepted) = {}
    /\ overflowed \cap Accepted = {}
    /\ Cardinality(Elements(items)) = Len(items)
    /\ Cardinality(FixesOf(csv \o net)) = Len(csv) + Len(net)

(* The queue is bounded and in the order of the fixes, also after a restart      *)
(* with an older copy; while no crash makes the app replay again, the bound drops   *)
(* only fixes older than all it keeps, the count shown to the user is the number     *)
(* dropped, and replayed fixes reach the server in the order they were taken, over    *)
(* any number of partial flushes.                                              *)
QueueInOrder ==
  /\ Len(items) <= MaxItems
  /\ ~rereads => \A i, j \in 1..Len(items) : i < j => items[i] < items[j]
  /\ (crashes = 0 /\ ~rereads) =>
       /\ \A lost \in overflowed : \A kept \in Elements(items) : lost < kept
       /\ overflowCount = Cardinality(overflowed)
       /\ \A i, j \in 1..Len(csv) :
            (i < j /\ csv[i].stamped /\ csv[j].stamped) => csv[i].fix < csv[j].fix

Stored == IF storage = << >> THEN {} ELSE Elements(storage[1])

(* Durability over crashes: a fix that has reached storage stays there until    *)
(* it is handed to a socket or dropped by the bound, unless a getItem failed    *)
(* or was repeated.                                                         *)
DurableUntilHandled ==
  (~readFailed /\ ~rereads) =>
    durable \subseteq Stored \cup Accepted \cup overflowed

SetOps == {i \in 1..Len(ops) : ops[i].kind = "set"}

(* The newest write catches up with memory: the last setItem under way carries  *)
(* the current items, and with none under way storage holds them (unless that   *)
(* last write failed).  No older snapshot is ever written after a newer one,    *)
(* also when calls overlap.                                                  *)
NewestWriteIsCurrent ==
  loaded =>
    \/ \E i \in SetOps : ops[i].value = items /\ \A j \in SetOps : j <= i
    \/ SetOps = {} /\ storage = << items >>
    \/ SetOps = {} /\ storage = << >> /\ items = << >>
    \/ SetOps = {} /\ (writeFailed \/ readFailed)

(* The guard flushingRef is held over a storage write; it is always released,    *)
(* so no later flush is locked out for good.                                 *)
FlushGuardReleased == flushing ~> ~flushing

-----------------------------------------------------------------------------
(* What the documents promise and the code does not do.                      *)

(* scripts/copilot/assign_parallel_issues.py, Track-B: offline payloads are     *)
(* persisted and replayed after a reconnect; so, while the app runs, a fix      *)
(* taken offline is never gone.                                              *)
OfflineFixNeverGone ==
  crashes = 0 =>
    1..fixes \subseteq Waiting \cup Elements(items) \cup overflowed \cup Accepted
=============================================================================
