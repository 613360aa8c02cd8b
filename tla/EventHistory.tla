---------------------------- MODULE EventHistory ----------------------------
(***************************************************************************)
(* eventHistory (memory_components.go) on its own: Emit calls add events,  *)
(* GetHistory calls read the newest of them, in any order.  The mutex      *)
(* makes each operation one step.  The log of all additions is the         *)
(* abstract history against which the retained slice is judged.            *)
(***************************************************************************)
EXTENDS History

CONSTANTS
  Events,
  MaxHistorySize,   \* MemoryConfig.MaxHistorySize
  Limits,           \* the arguments callers give GetHistory
  MaxAdds           \* bound: additions in a run

ASSUME HistoryAssumption ==
  /\ MaxHistorySize \in Nat \ {0}   \* MemoryConfig.Validate
  /\ Limits \subseteq Int
  /\ MaxAdds \in Nat

VARIABLES
  events,   \* the retained events, oldest first
  log,      \* auxiliary: every event ever added
  answer    \* the last answer of get, its limit, and the length of the log then

vars == <<events, log, answer>>

Init ==
  /\ events = <<>> /\ log = <<>>
  /\ answer = [limit |-> 0, got |-> <<>>, at |-> 0]

Add(e) ==
  /\ Len(log) < MaxAdds
  /\ events' = HistoryAdd(events, MaxHistorySize, e)
  /\ log' = Append(log, e)
  /\ UNCHANGED answer

Get(limit) ==
  /\ answer' = [limit |-> limit, got |-> HistoryGet(events, limit), at |-> Len(log)]
  /\ UNCHANGED <<events, log>>

Next == (\E e \in Events : Add(e)) \/ (\E limit \in Limits : Get(limit))

Spec == Init /\ [][Next]_vars

------------------------------------------------------------------------------
Smaller(m, n) == IF m < n THEN m ELSE n
\* The newest n events of a sequence that has as many.
Newest(s, n) == SubSeq(s, Len(s) - n + 1, Len(s))

\* The retained events and the log are sequences of events; an answer records
\* the limit asked for and a length the log had.
TypeOK ==
  /\ events \in Seq(Events) /\ log \in Seq(Events)
  /\ answer \in [limit : Int, got : Seq(Events), at : 0..Len(log)]

\* The history is bounded and forgets only the oldest: it holds the newest
\* MaxHistorySize events ever added, or all of them if there are fewer.
RetainsNewest == events = Newest(log, Smaller(Len(log), MaxHistorySize))

\* What get returned, however many events were added since, is the newest events
\* of the log at the time of the call: as many as asked for, if it asked for a
\* positive number and that many were retained, and else all that were.
ReadsNewest ==
  LET kept == Smaller(answer.at, MaxHistorySize)
      n == IF answer.limit > 0 THEN Smaller(answer.limit, kept) ELSE kept
  IN  answer.got = Newest(SubSeq(log, 1, answer.at), n)

\* What the proofs carry from step to step.
HistoryInv == TypeOK /\ RetainsNewest /\ ReadsNewest
==============================================================================
