-------------------------- MODULE CommandDelivery --------------------------
(***************************************************************************)
(* What the runtime bridge promises a caller of command(): a command takes  *)
(* effect at most once, success is reported only after the effect, and a    *)
(* refused command has none.  Once the caller was told of a timeout or of   *)
(* the bridge closing, the effect may still come ("execution is unknown");  *)
(* after any other answer it may not.                                       *)
(***************************************************************************)
EXTENDS Integers

CONSTANT Command

VARIABLES reply, effects

Reply == {"none", "open", "refused", "ok", "error", "timeout", "closed"}

Init ==
  /\ reply = [c \in Command |-> "none"]
  /\ effects = [c \in Command |-> 0]

\* The call is admitted or turned down.
Call(c) ==
  /\ reply[c] = "none" /\ reply'[c] \in {"open", "refused"}
  /\ effects'[c] = effects[c]

\* The client acts on the command, the only time it ever does.
Act(c) ==
  /\ effects[c] = 0 /\ effects'[c] = 1
  /\ reply[c] \in {"open", "timeout", "closed"} /\ reply'[c] = reply[c]

\* The caller is told the outcome, or that it is not known.
Report(c) ==
  /\ reply[c] = "open" /\ reply'[c] \in {"ok", "error", "timeout", "closed"}
  /\ reply'[c] = "ok" => effects[c] = 1
  /\ effects'[c] = effects[c]

Same(c) == reply'[c] = reply[c] /\ effects'[c] = effects[c]

\* Several commands may move in one step: one packet reports many results.
Next ==
  /\ reply' \in [Command -> Reply]
  /\ effects' \in [Command -> {0, 1}]
  /\ \A c \in Command : Call(c) \/ Act(c) \/ Report(c) \/ Same(c)

Spec == Init /\ [][Next]_<<reply, effects>>
=============================================================================
