--------------------------------- MODULE Watch ---------------------------------
(***************************************************************************)
(* What a syncer is to its clients, whatever its chain and its servers: a  *)
(* task is given once and watched from then on or never, what is watched   *)
(* may be dropped for good, and events are about watched tasks, or answer  *)
(* a request that needs no watching.                                       *)
(***************************************************************************)
EXTENDS Integers

CONSTANT MaxTaskCount

VARIABLES given, task, watched, sent

watchVars == <<given, task, watched, sent>>

\* The answers to the tasks that are done at once.
OneOff == {"TransactionBroadcasted", "TransactionRetrieved", "AddressBalance",
           "HealthResult"}

about(e, S) == \E n \in S : e.id = task[n].id /\ e.source = task[n].source
\* The id 0 is nobody's: an Abort that found no task is answered with it.
answers(e) == e.kind \in OneOff \/ (e.kind = "TaskAborted" /\ e.id = 0)

WatchInit ==
    /\ given = 0
    /\ watched = {}
    /\ sent = {}

\* A new task may be refused, and what is known of it is told at once.
Give ==
    /\ given < MaxTaskCount
    /\ given' = given + 1
    /\ \A n \in DOMAIN task : n # given' => task'[n] = task[n]
    /\ watched' \in {watched, watched \cup {given'}}
    /\ \A e \in sent' : \E n \in watched' : e.id = task'[n].id /\ e.source = task'[n].source

Tell ==
    /\ UNCHANGED <<given, task>>
    /\ watched' \subseteq watched
    /\ \A e \in sent' : answers(e) \/ about(e, watched)

WatchSpec == WatchInit /\ [][Give \/ Tell]_watchVars

===============================================================================
