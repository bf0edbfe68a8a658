----------------------------- MODULE TurnEffects -----------------------------
(***************************************************************************)
(* What a user may rely on when a Task is scheduled, with slots, retries   *)
(* of the machinery, stops and crashes left out: an authorization is open  *)
(* until the Task is terminal; while it lasts, the provider is set to work *)
(* once, and once more only after it proved that it refused the turn       *)
(* unread. Only the user opens a new authorization.                        *)
(***************************************************************************)
CONSTANTS Tasks, Turns

VARIABLES
    open,    \* the Task is queued or running
    effects  \* the turns of this authorization that may have had an effect

Init == open = [t \in Tasks |-> TRUE] /\ effects = [t \in Tasks |-> {}]

Stay(t) == open'[t] = open[t] /\ effects'[t] = effects[t]
\* A launch may lose the race against a cancel, so the Task need not be open.
Fire(t) ==
    /\ effects[t] = {} /\ \E p \in Turns : effects'[t] = {p}
    /\ open'[t] = open[t]
Refuse(t)    == effects[t] # {} /\ effects'[t] = {} /\ open'[t] = open[t]
Close(t)     == open[t] /\ ~open'[t] /\ effects'[t] = effects[t]
Authorize(t) == ~open[t] /\ open'[t] /\ effects'[t] = {}

\* A restart closes several Tasks at once.
Next == \A t \in Tasks :
    Stay(t) \/ Fire(t) \/ Refuse(t) \/ Close(t) \/ Authorize(t)

Spec == Init /\ [][Next]_<<open, effects>>
=============================================================================
