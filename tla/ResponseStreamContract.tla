----------------------- MODULE ResponseStreamContract -----------------------
(***************************************************************************)
(* What llm-switch promises of the event stream it hands to codex-core     *)
(* (the order documented at ChatSseState::finish), with no bytes, frames,  *)
(* translators or channel.  The sampling loop (try_run_sampling_request in *)
(* core/src/session/turn.rs) records an item, and starts its tool, when    *)
(* OutputItemDone arrives; it returns Ok at Completed, and an error, after *)
(* which the request is repeated, at an Err or at the end of the stream.   *)
(* Hence:                                                                  *)
(*   - a stream is deltas, then function calls, then at most one message,  *)
(*     then Completed; or deltas, then one error.  No error follows a      *)
(*     call, whose tool a repeated request would run again, and nothing    *)
(*     follows a terminal event;                                           *)
(*   - streamed text is recorded: the message repeats exactly the deltas,  *)
(*     and Completed never comes without it when there were any;           *)
(*   - the stream ends without a terminal event only when nobody listens.  *)
(* This is not all that codex-core asks: the loop asserts that a text      *)
(* delta belongs to an item that OutputItemAdded announced, an event no    *)
(* translator sends.  Every delta fails that assertion (a debug build      *)
(* panics, a release build logs it and drops the delta), so the message is *)
(* the only way the text reaches the user.                                 *)
(***************************************************************************)
EXTENDS Sequences, SequencesExt

VARIABLES phase,     \* "connecting", "refused", "streaming" or "closed"
          sent,      \* the events put into the stream
          streamed,  \* the text of the deltas among them
          listening  \* the receiver has not been dropped

vars == <<phase, sent, streamed, listening>>

Init ==
  /\ phase = "connecting"
  /\ sent = <<>>
  /\ streamed = <<>>
  /\ listening = TRUE

LastKind == IF sent = <<>> THEN "delta" ELSE sent[Len(sent)].kind

MayFollow ==
  CASE LastKind = "delta"   -> {"delta", "call", "message", "completed", "error"}
    [] LastKind = "call"    -> {"call", "message", "completed"}
    [] LastKind = "message" -> {"completed"}
    [] OTHER                -> {}

Terminal == {"completed", "error"}

Connect ==
  /\ phase = "connecting"
  /\ phase' \in {"streaming", "refused"}
  /\ UNCHANGED <<sent, streamed, listening>>

(* The stream grows by one event; the sender may end with a terminal one.   *)
Emit ==
  /\ phase = "streaming"
  /\ listening
  /\ Len(sent') > 0
  /\ LET e == Last(sent')
     IN  /\ sent' = Append(sent, e)
         /\ e.kind \in MayFollow
         /\ e.kind = "message" => e.text = streamed
         /\ e.kind = "completed" /\ LastKind # "message" => streamed = <<>>
         /\ streamed' = IF e.kind = "delta" THEN streamed \o e.text ELSE streamed
         /\ phase' \in IF e.kind \in Terminal THEN {"streaming", "closed"}
                       ELSE {"streaming"}
  /\ UNCHANGED listening

Hangup ==
  /\ listening
  /\ listening' = FALSE
  /\ UNCHANGED <<phase, sent, streamed>>

Close ==
  /\ phase = "streaming"
  /\ LastKind \in Terminal \/ ~listening
  /\ phase' = "closed"
  /\ UNCHANGED <<sent, streamed, listening>>

Next == Connect \/ Emit \/ Hangup \/ Close

Spec == Init /\ [][Next]_vars
=============================================================================
