---------------------------- MODULE AsyncDelete ----------------------------
(***************************************************************************)
(* What service.Shortener promises about asynchronous deletion, with no    *)
(* channel, goroutine, lock or timer in sight (internal/service/           *)
(* shortener.go: DeleteUserURLs "schedules" a deletion, Close "waits for   *)
(* all scheduled deletions and flushes the last batch").                   *)
(*                                                                         *)
(*  - while the service is open, a call may schedule tasks;                *)
(*  - a scheduled task is handed to the repository once, at some later     *)
(*    time, together with any other scheduled tasks;                       *)
(*  - once shut, nothing more is scheduled;                                *)
(*  - Close has returned only when nothing scheduled is left, and then     *)
(*    nothing happens any more.                                            *)
(***************************************************************************)
EXTENDS Naturals

CONSTANT Tasks          \* every task any call may schedule

VARIABLES
  phase,                \* "open", "shut" (Close began), "returned"
  scheduled,            \* tasks accepted so far
  handled               \* how often each task was handed to the repository

avars == <<phase, scheduled, handled>>

Outstanding == {t \in scheduled : handled[t] = 0}

AInit ==
  /\ phase = "open"
  /\ scheduled = {}
  /\ handled = [t \in Tasks |-> 0]

\* A call schedules its tasks, none of which was scheduled before.
Schedule(S) ==
  /\ phase = "open"
  /\ S \cap scheduled = {}
  /\ scheduled' = scheduled \cup S
  /\ UNCHANGED <<phase, handled>>

\* Some outstanding tasks are handed to the repository.
Apply(S) ==
  /\ phase # "returned"
  /\ S \subseteq Outstanding
  /\ handled' = [t \in Tasks |-> IF t \in S THEN 1 ELSE handled[t]]
  /\ UNCHANGED <<phase, scheduled>>

Shut ==
  /\ phase = "open"
  /\ phase' = "shut"
  /\ UNCHANGED <<scheduled, handled>>

Return ==
  /\ phase = "shut"
  /\ Outstanding = {}
  /\ phase' = "returned"
  /\ UNCHANGED <<scheduled, handled>>

ANext ==
  \/ \E S \in SUBSET Tasks : Schedule(S) \/ Apply(S)
  \/ Shut
  \/ Return

ASpec == AInit /\ [][ANext]_avars
=============================================================================
