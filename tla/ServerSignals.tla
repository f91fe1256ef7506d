---------------------------- MODULE ServerSignals ----------------------------
(***************************************************************************)
(* The signals in the server's frames: TelemetryServer composed with the    *)
(* SignalMapper that app.py builds when the process starts, from the file    *)
(* signals.json as it is then.  Each iteration of the broadcast loop maps    *)
(* one raw frame of the CAN source, logs the result and sends it.           *)
(***************************************************************************)
EXTENDS TelemetryServer, SignalMapper

CONSTANTS
  Configs,    \* what a process can read from signals.json
  RawSignals  \* the raw frames of the CAN source

VARIABLES
  conf,    \* history: signals.json as it was when this process started
  rules,   \* signal_mapper.rules
  sample,  \* raw_sig of the newest CAN row of this session
  sig,     \* sig of that row, of the frame being sent
  sent     \* history: sig of the last frame this process sent to each socket

sigVars == <<conf, rules, sample, sig, sent>>
sigAllVars == <<vars, sigVars>>

Numbers == Int \cup {NoNumber}

IsEntry(entry) ==
  /\ entry.enabled \in BOOLEAN
  /\ {entry.scale, entry.offset, entry.min, entry.max, entry.decimals} \subseteq Numbers

ASSUME SignalsAssumption ==
  /\ NoNumber \notin Int
  /\ \A config \in Configs \ {NoConfig} : \A key \in DOMAIN config :
       config[key] # NoRule => IsEntry(config[key])
  /\ \A raw \in RawSignals : \A key \in DOMAIN raw : raw[key] \in Numbers

SigInit ==
  /\ Init
  /\ conf \in Configs
  /\ rules = Rules(conf)
  /\ sample = << >>
  /\ sig = << >>
  /\ sent = [ws \in Sockets |-> << >>]

(* An iteration that writes a CAN row, also one that fails when it has: next_frame and     *)
(* apply come before log_can.                                                       *)
LogSample ==
  /\ TickAlone \/ TickBroadcast \/ TickFails
  /\ rows' # rows
  /\ sample' \in RawSignals
  /\ sig' \in Applied(rules, sample')
  /\ UNCHANGED <<conf, rules, sent>>

(* The frame goes out with the signals that were logged.                            *)
SendSignals ==
  /\ SendOk
  /\ sent' = [sent EXCEPT ![cur] = sig]
  /\ UNCHANGED <<conf, rules, sample, sig>>

(* Mutant: the rules are those of the first process.                                  *)
RestartKeepsRules ==
  /\ Restart
  /\ conf' \in Configs
  /\ sample' = << >>
  /\ sig' = << >>
  /\ sent' = [ws \in Sockets |-> << >>]
  /\ UNCHANGED rules

(* A new process reads the file again, which may have been edited or removed.          *)
RestartReloads ==
  /\ Restart
  /\ conf' \in Configs
  /\ rules' = Rules(conf')
  /\ sample' = << >>
  /\ sig' = << >>
  /\ sent' = [ws \in Sockets |-> << >>]

(* Everything else leaves the signals alone.                                         *)
OtherStep ==
  /\ \/ SimDrop \/ (TickFails /\ rows' = rows) \/ SendFails
     \/ ApiGps \/ ApiEvent
     \/ BeginShutdown \/ LifespanExit \/ Kill
     \/ \E ws \in Sockets :
          \/ Accept(ws) \/ PeerTakes(ws) \/ HandlerExit(ws) \/ Receive(ws)
          \/ PeerCloses(ws) \/ PeerVanishes(ws) \/ KeepaliveTimeout(ws)
  /\ UNCHANGED sigVars

SigNext == LogSample \/ SendSignals \/ RestartReloads \/ OtherStep

SigSpec == SigInit /\ [][SigNext]_sigAllVars

SigFairSpec == SigSpec /\ Fairness

-----------------------------------------------------------------------------
(* A client that was sent the newest row has exactly the signals log_can was given, and they  *)
(* are what the configuration asks for that this process has read: no signal that is         *)
(* disabled, none left out, values scaled, cut to their range and rounded in this order; also  *)
(* for ranges that are open or empty, factors that turn the order round and decimals out of    *)
(* bounds, and after a restart with another configuration.                              *)
SignalsMapped ==
  \A ws \in Sockets :
    (rows > 0 /\ out[ws] # << >> /\ out[ws][Len(out[ws])].row = base + rows) =>
      /\ sent[ws] = sig
      /\ AsConfigured(conf, sample, sent[ws])
=============================================================================
