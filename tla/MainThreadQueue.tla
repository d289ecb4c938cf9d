-------------------------- MODULE MainThreadQueue --------------------------
(***************************************************************************)
(* The queue that carries events from the transfer thread to the game      *)
(* thread (src/src/main_thread_queue.cpp).                                 *)
(*                                                                         *)
(* Post reads the atomic m_enabled before it takes the mutex, so the model *)
(* splits it: Post is the unlocked test, which leaves the event in the     *)
(* posting slot, and CommitPost is the critical section.  Between the two  *)
(* the game thread may disable or drain the queue.  Drain is one critical  *)
(* section and one step.                                                   *)
(***************************************************************************)
EXTENDS Sequences

VARIABLES
  events,      \* m_events, in posting order
  hasEvents,   \* m_hasEvents, the atomic the game frame polls without the lock
  enabled,     \* m_enabled
  posting      \* <<>>, or <<e>> while the poster is between the test and the lock

queueVars == <<events, hasEvents, enabled, posting>>

QueueInit ==
  /\ events = <<>>
  /\ hasEvents = FALSE
  /\ enabled = TRUE
  /\ posting = <<>>

\* Post up to the lock: an event posted to a disabled queue is dropped.
Post(e) ==
  /\ posting' = IF enabled THEN <<e>> ELSE <<>>
  /\ UNCHANGED <<events, hasEvents, enabled>>

\* Mutant: m_hasEvents is not raised, so no frame looks.
CommitPostSilently ==
  /\ posting # <<>>
  /\ events' = events \o posting
  /\ posting' = <<>>
  /\ UNCHANGED <<hasEvents, enabled>>

\* Mutant: the new event replaces what no frame has drained yet.
CommitPostOverwriting ==
  /\ posting # <<>>
  /\ events' = posting
  /\ hasEvents' = TRUE
  /\ posting' = <<>>
  /\ UNCHANGED enabled

\* Post under the lock.
CommitPost ==
  /\ posting # <<>>
  /\ events' = events \o posting
  /\ hasEvents' = TRUE
  /\ posting' = <<>>
  /\ UNCHANGED enabled

\* Drain swaps the whole vector out; its caller keeps what was in events.
Drain ==
  /\ events' = <<>>
  /\ hasEvents' = FALSE
  /\ UNCHANGED <<enabled, posting>>

SetEnabled(b) ==
  /\ enabled' = b
  /\ UNCHANGED <<events, hasEvents, posting>>

\* Everything posted and not yet drained, in the order it will be seen.
Stream == events \o posting
=============================================================================
