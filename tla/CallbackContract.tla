-------------------------- MODULE CallbackContract --------------------------
(***************************************************************************)
(* What the deferred callback queue promises to the host callbacks that    *)
(* leave tasks in it and to the shutdown that closes it, without saying    *)
(* how: no lock, no condition variable, no byte counter.                   *)
(***************************************************************************)
EXTENDS Integers, Sequences

CONSTANTS
  Tasks,     (* what may be submitted                    *)
  Size,      (* bytes a task retains while it is pending *)
  MaxTasks,  (* pending tasks, at most                   *)
  MaxBytes   (* pending bytes, at most                   *)

VARIABLES
  pending,   (* accepted and not begun, oldest first          *)
  begun,     (* the tasks that have begun, oldest first       *)
  running,   (* the last of `begun` has not ended             *)
  closed,    (* nothing more is accepted                      *)
  stopped,   (* the caller of shutdown was told all is done   *)
  refused    (* how many submissions were refused and counted *)

vars == <<pending, begun, running, closed, stopped, refused>>

\* The tasks of the sequence q retain w bytes together: `sum` adds them up
\* and, as no size is negative, never falls.
Weighs(q, w) ==
  \E sum \in [0 .. Len(q) -> 0 .. w] :
    /\ sum[0] = 0
    /\ sum[Len(q)] = w
    /\ \A i \in 1 .. Len(q) : sum[i] = sum[i - 1] + Size[q[i]]
    /\ \A i, j \in 0 .. Len(q) : i <= j => sum[i] <= sum[j]

HasRoom(t) ==
  /\ Len(pending) < MaxTasks
  /\ \E w \in 0 .. MaxBytes : Weighs(pending, w) /\ w + Size[t] <= MaxBytes

IsFull(t) ==
  \/ Len(pending) >= MaxTasks
  \/ \E w \in 0 .. MaxBytes : Weighs(pending, w) /\ w + Size[t] > MaxBytes

Init ==
  /\ pending = <<>>
  /\ begun = <<>>
  /\ running = FALSE
  /\ closed = FALSE
  /\ stopped = FALSE
  /\ refused = 0

Accept(t) ==
  /\ ~closed
  /\ HasRoom(t)
  /\ pending' = Append(pending, t)
  /\ UNCHANGED <<begun, running, closed, stopped, refused>>

\* Only a full or a closed queue refuses, and every refusal is counted.
Refuse(t) ==
  /\ closed \/ IsFull(t)
  /\ refused' = refused + 1
  /\ UNCHANGED <<pending, begun, running, closed, stopped>>

\* Tasks begin one at a time, the oldest first.
Begin ==
  /\ ~running
  /\ pending # <<>>
  /\ pending' = Tail(pending)
  /\ begun' = Append(begun, Head(pending))
  /\ running' = TRUE
  /\ UNCHANGED <<closed, stopped, refused>>

End ==
  /\ running
  /\ running' = FALSE
  /\ UNCHANGED <<pending, begun, closed, stopped, refused>>

Close ==
  /\ closed' = TRUE
  /\ UNCHANGED <<pending, begun, running, stopped, refused>>

Stop ==
  /\ closed
  /\ pending = <<>>
  /\ ~running
  /\ stopped' = TRUE
  /\ UNCHANGED <<pending, begun, running, closed, refused>>

Next ==
  \/ \E t \in Tasks : Accept(t) \/ Refuse(t)
  \/ Begin
  \/ End
  \/ Close
  \/ Stop

Spec == Init /\ [][Next]_vars
=============================================================================
