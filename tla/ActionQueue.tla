----------------------------- MODULE ActionQueue -----------------------------
(***************************************************************************)
(* openpi/action_queue.py: a chunk of actions fetched when the queue is    *)
(* empty, popped one at a time.                                            *)
(***************************************************************************)
EXTENDS Integers, Sequences

VARIABLES
  pending,        \* the rest of the chunk
  reset_pending,  \* the next request asks the server to forget
  global_step, closed

queueVars == <<pending, reset_pending, global_step, closed>>

QueueInit ==
  pending = <<>> /\ reset_pending = TRUE /\ global_step = 0 /\ closed = FALSE

QueueReset ==
  /\ pending' = <<>> /\ reset_pending' = TRUE /\ global_step' = 0
  /\ UNCHANGED closed

\* The request for a chunk has been made.
Requested == reset_pending' = FALSE

\* Mutant of Pop: the last action is taken first.
PopLast(chunk) == pending' = SubSeq(chunk, 1, Len(chunk) - 1)

Pop(chunk) == pending' = Tail(chunk)

MarkExecuted == global_step' = global_step + 1

QueueClose ==
  closed' = TRUE /\ pending' = <<>> /\ UNCHANGED <<reset_pending, global_step>>
=============================================================================
