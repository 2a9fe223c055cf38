------------------------- MODULE SyncerStateMachine -------------------------
(***************************************************************************)
(* The syncer state machine of farcasterd                                  *)
(* (src/src/farcasterd/syncer_state_machine.rs): a sweep, a balance or a   *)
(* health check a client asks for, done by a syncer that is launched for   *)
(* it when none is up and terminated when nothing else uses it.  The three *)
(* requests take the same course.                                          *)
(***************************************************************************)
EXTENDS FarcasterRuntime

Job(id, c, client, given) ==
  [task |-> id, chain |-> c, client |-> client, given |-> given]

give_task(r, m) ==
  LET told == send(r, Syncer(m.chain), "Task", m.task)
  IN  IF told.ok THEN [told EXCEPT !.rt.ssms = @ \cup {[m EXCEPT !.given = TRUE]}] ELSE told

\* Start on SweepAddress, GetBalance or HealthCheck.
start_job(r, c, client) ==
  LET m == Job(r.rt.counter, c, client, FALSE)
      s == syncer_up([r EXCEPT !.rt.counter = @ + 1], c)
  IN  IF c \in registered_chains(s) THEN give_task(s, m)
      ELSE [s EXCEPT !.rt.ssms = @ \cup {m}]

\* AwaitingSyncer on the Hello of its syncer; in both states the source of any
\* other Hello takes the place of the client's.
ssm_hello(r, m, src) ==
  IF ~m.given /\ src = Syncer(m.chain) THEN give_task(r, m)
  ELSE [r EXCEPT !.rt.ssms = @ \cup {[m EXCEPT !.client = src]}]

\* AwaitingSyncerRequest on the answer: success, balance, health or failure.
\* When it cannot be sent, nothing is cleaned up.
end_job(r, m) == clean_up_after_syncer_usage(send(r, m.client, "Answer", m.task))
=============================================================================
