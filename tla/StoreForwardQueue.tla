-------------------------- MODULE StoreForwardQueue --------------------------
(***************************************************************************)
(* mobile/src/telemetry/store-forward-queue.js: the bounded queue of GPS     *)
(* payloads and its copy in AsyncStorage.                                   *)
(*                                                                          *)
(* JavaScript runs one segment at a time, from one await to the next.  The   *)
(* only awaits are the two AsyncStorage calls (external: one native queue,   *)
(* served in order), so the state of a suspended call is the entry of its    *)
(* storage operation in ops, with what is to happen when it returns.  The     *)
(* native execution of an operation and its callback are one step: only       *)
(* operations issued later could tell them apart.                            *)
(*                                                                          *)
(* _flushing is not a variable: it is set and reset within one segment.      *)
(* A payload is the number of its fix; the app numbers fixes as they come,    *)
(* so the number stands for the timestamp t of the payload.                  *)
(***************************************************************************)
EXTENDS Integers, Sequences

CONSTANTS
  MaxItems,    \* the maxItems option
  FlushLimit   \* the limit parameter of flush

ASSUME MaxItemsAssumption == MaxItems \in Nat \ {0}
ASSUME FlushLimitAssumption == FlushLimit \in Nat \ {0}

VARIABLES
  items,          \* this.items
  loaded,         \* this.loaded
  overflowCount,  \* this.overflowCount
  storage,        \* the stored value: << >> for no such key, << items >> else
  ops             \* storage operations issued and not yet returned, in order

queueVars == <<items, loaded, overflowCount, storage, ops>>

NoFix == 0

(* getItem, and what the suspended init continues with: the mount effect of   *)
(* the app, an enqueue of fix, or a flush.                                   *)
GetOp(then, fix) ==
  [kind |-> "get", then |-> then, fix |-> fix, value |-> << >>]

(* setItem of a value serialised when it is issued; "release" ends a flush    *)
(* of the app, "none" an enqueue.                                           *)
SetOp(then, value) ==
  [kind |-> "set", then |-> then, fix |-> NoFix, value |-> value]

(* The app is started for the first time, or again after an earlier run that   *)
(* left an empty queue behind.                                              *)
QueueInit ==
  /\ items = << >>
  /\ loaded = FALSE
  /\ overflowCount = 0
  /\ storage \in {<< >>, << << >> >>}

(* How many of the oldest items go when the queue has n.                     *)
Excess(n) == IF n > MaxItems THEN n - MaxItems ELSE 0

(* Mutant: the newest item goes when the queue is full.                       *)
PushDropsNewest(q, fix, pending) ==
  LET grown == Append(q, fix)
      dropped == Excess(Len(grown))
  IN  /\ items' = SubSeq(grown, 1, Len(grown) - dropped)
      /\ overflowCount' = overflowCount + dropped
      /\ ops' = Append(pending, SetOp("none", items'))

(* Mutant: the queue is stored before the item is appended.                   *)
PushPersistsFirst(q, fix, pending) ==
  LET grown == Append(q, fix)
      dropped == Excess(Len(grown))
  IN  /\ items' = SubSeq(grown, dropped + 1, Len(grown))
      /\ overflowCount' = overflowCount + dropped
      /\ ops' = Append(pending, SetOp("none", q))

(* enqueue once init has returned and left q in items.                       *)
Push(q, fix, pending) ==
  LET grown == Append(q, fix)
      dropped == Excess(Len(grown))
  IN  /\ items' = SubSeq(grown, dropped + 1, Len(grown))
      /\ overflowCount' = overflowCount + dropped
      /\ ops' = Append(pending, SetOp("none", items'))

(* How many items of q the loop of flush sends: sendFn succeeds as long as    *)
(* the socket is open, which cannot change within the segment.               *)
FlushCount(q, open) ==
  IF ~open THEN 0 ELSE IF Len(q) > FlushLimit THEN FlushLimit ELSE Len(q)

Sent(q, open) == SubSeq(q, 1, FlushCount(q, open))

(* Mutant: the flush empties the queue whatever it has sent.                   *)
DrainAll(q, open, pending) ==
  /\ items' = << >>
  /\ ops' = Append(pending, SetOp("release", << >>))
  /\ UNCHANGED overflowCount

(* The loop of flush and the _persist behind it, sent or not.                *)
Drain(q, open, pending) ==
  /\ items' = SubSeq(q, FlushCount(q, open) + 1, Len(q))
  /\ ops' = Append(pending, SetOp("release", items'))
  /\ UNCHANGED overflowCount

(* Mutant: the item is not kept over the await.                               *)
AwaitInitForgets(then, fix) ==
  /\ ops' = Append(ops, GetOp(then, NoFix))
  /\ UNCHANGED <<items, overflowCount>>

(* A call of enqueue or flush suspends in init while the queue is not loaded; *)
(* every such call issues its own getItem.                                   *)
AwaitInit(then, fix) ==
  /\ ops' = Append(ops, GetOp(then, fix))
  /\ UNCHANGED <<items, overflowCount>>

(* Mutant: init does not take over what is stored.                            *)
AfterReadKeeps(ok) == items

(* items after getItem has returned: what is stored replaces what is there,   *)
(* also when another init has completed meanwhile; no stored value leaves     *)
(* items alone, an error empties it.                                        *)
AfterRead(ok) ==
  IF ~ok THEN << >> ELSE IF storage = << >> THEN items ELSE storage[1]

(* setItem has returned; an error is ignored.                               *)
StoreWrite(op, ok) ==
  storage' = IF ok THEN << op.value >> ELSE storage
=============================================================================
