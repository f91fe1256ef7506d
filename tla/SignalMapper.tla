----------------------------- MODULE SignalMapper -----------------------------
(* SignalMapper (server/signal_mapper.py): which raw CAN signals the broadcast loop     *)
(* sends, and with which values, as operators over numbers in hundredths, Unit to one.   *)
(* A number that is missing or no number is NoNumber; a rule that is no object, and a      *)
(* configuration that is missing, no JSON or without signals, are NoRule and NoConfig.    *)
EXTENDS Integers

CONSTANTS NoNumber, NoRule, NoConfig

Unit == 100

Default(value, other) == IF value = NoNumber THEN other ELSE value

Raise(value, min) == IF min # NoNumber /\ value < min THEN min ELSE value
Lower(value, max) == IF max # NoNumber /\ value > max THEN max ELSE value

(* One turn of the loop in reload.  Decimals that are a Boolean are 0 or 1; with decimals   *)
(* that are no finite number int() raises and the process does not start.                  *)
Rule(key, entry) ==
  [source |-> Default(entry.source, key),
   enabled |-> entry.enabled,
   scale |-> Default(entry.scale, 1),
   offset |-> Default(entry.offset, 0),
   min |-> entry.min,
   max |-> entry.max,
   decimals |-> IF entry.decimals = NoNumber THEN NoNumber
                ELSE Lower(Raise(entry.decimals, 0), 6)]

(* reload: the rules by key, none if there is nothing to go by.                      *)
Rules(config) ==
  IF config = NoConfig THEN << >>
  ELSE [key \in {k \in DOMAIN config : config[k] # NoRule} |-> Rule(key, config[key])]

Off(v, n) == IF v < n THEN n - v ELSE v - n

(* round: the nearest multiples, of which a tie has two.                              *)
Rounded(value, decimals) ==
  IF decimals = NoNumber \/ decimals >= 2 THEN {value}
  ELSE LET step == IF decimals = 0 THEN Unit ELSE Unit \div 10
           below == value - (value % step)
       IN {v \in {below, below + step} :
             \A w \in {below, below + step} : Off(v, value) <= Off(w, value)}

(* Mutant: the range is that of the raw value.                                      *)
ValuesClampedFirst(rule, raw) ==
  Rounded(Lower(Raise(raw, rule.min), rule.max) * rule.scale + rule.offset, rule.decimals)

(* The values a rule can give a raw number.                                          *)
Values(rule, raw) ==
  Rounded(Lower(Raise(raw * rule.scale + rule.offset, rule.min), rule.max), rule.decimals)

(* apply, for one key: the values it can be sent with, none if it is not sent.           *)
Sent(rules, raw, key) ==
  IF DOMAIN rules = {}
  THEN {raw[key]} \ {NoNumber}
  ELSE IF ~rules[key].enabled \/ rules[key].source \notin DOMAIN raw
          \/ raw[rules[key].source] = NoNumber
  THEN {}
  ELSE Values(rules[key], raw[rules[key].source])

(* apply: the signals a raw frame can give.                                         *)
Applied(rules, raw) ==
  LET keys == IF DOMAIN rules = {} THEN DOMAIN raw ELSE DOMAIN rules
      sent == {key \in keys : Sent(rules, raw, key) # {}}
  IN  {signals \in [sent -> UNION {Sent(rules, raw, key) : key \in sent}] :
         \A key \in sent : signals[key] \in Sent(rules, raw, key)}

-----------------------------------------------------------------------------
(* What an entry of the configuration asks for, without following the code: the scaled     *)
(* number, or the end of the range that is nearest to it; an empty range gives its upper     *)
(* end; and a value up to half a unit of its last decimal off.                           *)
Goal(entry, number) == number * Default(entry.scale, 1) + Default(entry.offset, 0)

Inside(entry, goal) ==
  {n \in {goal} \cup ({entry.min, entry.max} \ {NoNumber}) :
     /\ entry.max # NoNumber => n <= entry.max
     /\ entry.min # NoNumber => n >= entry.min}

Targets(entry, goal) ==
  IF Inside(entry, goal) = {} THEN {entry.max}
  ELSE {n \in Inside(entry, goal) : \A m \in Inside(entry, goal) : Off(goal, n) <= Off(goal, m)}

Tolerance(decimals) ==
  IF decimals = NoNumber \/ decimals >= 2 THEN 0
  ELSE IF decimals = 1 THEN Unit \div 20 ELSE Unit \div 2

Source(config, key) == Default(config[key].source, key)

(* The signals a configuration asks for: those that are enabled and have a number.          *)
Asked(config, raw) ==
  {key \in DOMAIN config :
     /\ config[key] # NoRule
     /\ config[key].enabled
     /\ Source(config, key) \in DOMAIN raw
     /\ raw[Source(config, key)] # NoNumber}

(* Signals are those asked for, no other, with values near to what their entries ask for;   *)
(* without a configuration all numbers of the raw frame, as they are.  Of a configuration    *)
(* that has no rule nothing is said.                                                 *)
AsConfigured(config, raw, signals) ==
  IF config = NoConfig
  THEN signals = [key \in {k \in DOMAIN raw : raw[k] # NoNumber} |-> raw[key]]
  ELSE (\E key \in DOMAIN config : config[key] # NoRule) =>
         /\ DOMAIN signals = Asked(config, raw)
         /\ \A key \in Asked(config, raw) :
              \E n \in Targets(config[key], Goal(config[key], raw[Source(config, key)])) :
                Off(signals[key], n) <= Tolerance(config[key].decimals)
=============================================================================
