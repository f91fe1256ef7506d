------------------------------- MODULE GpsSink -------------------------------
(***************************************************************************)
(* server/gps_sink.py and the dispatch it drives: which CSV file, if any,   *)
(* one uplink payload ends up in.  Pure operators, used by TelemetryServer  *)
(* (the receive loop of /ws and the two REST handlers).                     *)
(*                                                                          *)
(* A JSON object is abstracted to the parts the code looks at:              *)
(*   type  "none"  - no "type" key (or null)                                *)
(*         "ping"  - exactly the string "ping"                              *)
(*         "mark"  - anything whose str().upper() is "MARK"                 *)
(*         "other" - any other value                                        *)
(*   gps   TRUE iff payload["gps"] is a JSON object                         *)
(***************************************************************************)

Payloads == [type : {"none", "ping", "mark", "other"}, gps : BOOLEAN]

(* extract_gps_row returns None unless "gps" is an object; nothing in the    *)
(* object itself is validated.                                              *)
IsGpsRow(p) == p.gps

(* extract_event_row: "type" present and equal to MARK up to case.          *)
IsEventRow(p) == p.type = "mark"

(* What the receive loop of ws_endpoint can get from receive_text: a JSON    *)
(* object, text that is not JSON, or JSON that is not an object (a list, a   *)
(* number), on which payload.get raises AttributeError.                      *)
WsTexts == {[kind |-> "object", payload |-> p] : p \in Payloads}
             \cup {[kind |-> "malformed"], [kind |-> "nonobject"]}

(* The outcome of one iteration of the loop; the order of the tests is the   *)
(* code's: ping first, then a GPS row, then an event row.                   *)
WsDispatch(text) ==
  CASE text.kind = "malformed" -> "ignore"
    [] text.kind = "nonobject" -> "raise"
    [] text.kind = "object" ->
         LET p == text.payload IN
           CASE p.type = "ping"                       -> "pong"
             [] p.type # "ping" /\ IsGpsRow(p)        -> "gps"
             [] p.type # "ping" /\ ~IsGpsRow(p)
                                /\ IsEventRow(p)      -> "event"
             [] OTHER                                 -> "ignore"
=============================================================================
