------------------------------- MODULE History -------------------------------
(***************************************************************************)
(* The two operations of eventHistory (memory_components.go) as operators  *)
(* on the sequence of retained events, oldest first.  Both run under the   *)
(* history's mutex, so each is one atomic step of its caller.              *)
(***************************************************************************)
EXTENDS Integers, Sequences

\* Mutant of HistoryAdd: one slot of the capacity is never used.
HistoryAddMutant(events, maxSize, e) ==
  Append(IF Len(events) + 1 >= maxSize /\ events # <<>> THEN Tail(events) ELSE events, e)

\* add: at capacity the oldest event is cut off before the append.
HistoryAdd(events, maxSize, e) ==
  Append(IF Len(events) >= maxSize THEN Tail(events) ELSE events, e)

\* Mutant of HistoryGet: the copy starts at the oldest event.
HistoryGetMutant(events, limit) ==
  LET n == IF limit <= 0 \/ limit > Len(events) THEN Len(events) ELSE limit
  IN  SubSeq(events, 1, n)

\* get: a copy of the newest `limit` events; a limit that is not positive or
\* exceeds the number of events asks for all of them.
HistoryGet(events, limit) ==
  LET n == IF limit <= 0 \/ limit > Len(events) THEN Len(events) ELSE limit
  IN  SubSeq(events, Len(events) - n + 1, Len(events))
==============================================================================
