------------------------------- MODULE EventBus -------------------------------
(***************************************************************************)
(* What both event buses promise (the interface EventBus, eventstream.go): *)
(* a handler runs only for an emitted event of its subscription's topic,   *)
(* at most once for each event (its retries are one run), and no longer    *)
(* when the subscription is stopped.  When Off has stopped a subscription  *)
(* the memory bus has waited for its handlers (StopWaits); the distributed *)
(* bus lets them run on.                                                   *)
(***************************************************************************)
CONSTANTS Subs, Events, SubTopic, EventTopic, StopWaits

VARIABLES
  emitted,   \* the events given to Emit
  state,     \* of each subscription
  fate       \* of each event at each subscription: none, running or over

Init ==
  /\ emitted = {}
  /\ state = [s \in Subs |-> "fresh"]
  /\ fate = [s \in Subs |-> [e \in Events |-> "none"]]

Emit(e) == e \notin emitted /\ emitted' = emitted \cup {e} /\ UNCHANGED <<state, fate>>

Becomes(s, new) == state' = [state EXCEPT ![s] = new]
Settle(s, e, new) == fate' = [fate EXCEPT ![s][e] = new]

Open(s) == state[s] = "fresh" /\ Becomes(s, "open") /\ UNCHANGED <<emitted, fate>>

\* Off or Close begins to stop a subscription ...
Stop(s) == state[s] = "open" /\ Becomes(s, "stopping") /\ UNCHANGED <<emitted, fate>>

\* ... and has stopped it.
Stopped(s) ==
  /\ state[s] \in {"open", "stopping"}
  /\ StopWaits => \A e \in Events : fate[s][e] # "running"
  /\ Becomes(s, "stopped") /\ UNCHANGED <<emitted, fate>>

\* e is at hand for s.  If nobody waits, a subscription that is being stopped is
\* so when it has passed on the event it was given before.
Passes(s, e) ==
  /\ e \in emitted /\ SubTopic[s] = EventTopic[e] /\ fate[s][e] = "none"
  /\ \/ UNCHANGED state
     \/ ~StopWaits /\ state[s] = "stopping" /\ Becomes(s, "stopped")
  /\ UNCHANGED emitted

Start(s, e) == Passes(s, e) /\ state[s] \in {"open", "stopping"} /\ Settle(s, e, "running")

\* The event is refused, dropped or given up without a run of the handler.
Discard(s, e) == Passes(s, e) /\ state[s] # "fresh" /\ Settle(s, e, "over")

Finish(s, e) == fate[s][e] = "running" /\ Settle(s, e, "over") /\ UNCHANGED <<emitted, state>>

Next ==
  \/ \E e \in Events : Emit(e)
  \/ \E s \in Subs : Open(s) \/ Stop(s) \/ Stopped(s)
  \/ \E s \in Subs, e \in Events : Start(s, e) \/ Discard(s, e) \/ Finish(s, e)

vars == <<emitted, state, fate>>
Spec == Init /\ [][Next]_vars

===============================================================================
