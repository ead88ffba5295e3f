-------------------------- MODULE EmissionSchedule --------------------------
(***************************************************************************)
(* What the emitter promises, with the recipient abstracted away: from the *)
(* moment it is started, BLNT is created at one unit per elapsed second.   *)
(* Every second is paid exactly once, at some later checkpoint, whichever  *)
(* backstop contract happens to be the recipient.                          *)
(*                                                                         *)
(* One unit is one whole BLNT; the seven decimals of the token are a       *)
(* common factor of every amount the emitter distributes.                  *)
(***************************************************************************)
EXTENDS Naturals

VARIABLES
  now,         \* ledger timestamp
  started,     \* the schedule runs
  start,       \* timestamp at which it was started
  checkpoint,  \* every second before this one has been paid
  emitted      \* BLNT created by the schedule so far

scheduleVars == <<now, started, start, checkpoint, emitted>>

ScheduleInit ==
  /\ now \in Nat
  /\ started = FALSE
  /\ start = 0
  /\ checkpoint = 0
  /\ emitted = 0

\* Time passes; nothing is paid by the passing of time itself.
Elapse ==
  /\ now' \in Nat
  /\ now' > now
  /\ UNCHANGED <<started, start, checkpoint, emitted>>

\* The schedule starts once.
Start ==
  /\ ~started
  /\ started' = TRUE
  /\ start' = now
  /\ checkpoint' = now
  /\ UNCHANGED <<now, emitted>>

\* Everything owed up to now is paid at once.
Emit ==
  /\ started
  /\ emitted' = emitted + (now - checkpoint)
  /\ checkpoint' = now
  /\ UNCHANGED <<now, started, start>>

ScheduleNext == Elapse \/ Start \/ Emit

ScheduleSpec == ScheduleInit /\ [][ScheduleNext]_scheduleVars
=============================================================================
