---------------------------- MODULE GenericHandler ----------------------------
(***************************************************************************)
(* The example sequence-command handler with a worker thread,              *)
(* GenericHandler (src/src/examples/GenericHandler.h).                     *)
(*                                                                         *)
(* GIAPI's dispatcher calls handle() for each incoming action, one at a    *)
(* time.  An odd action id is answered COMPLETED at once.  An even one     *)
(* joins and deletes the previous worker thread, makes a new Thread around *)
(* the one shared WorkerThread object, sets its id, starts it and answers  *)
(* STARTED; the worker later posts the completion of the action whose id   *)
(* it holds.  The destructor deletes the WorkerThread and then joins the   *)
(* thread.                                                                 *)
(*                                                                         *)
(* WorkerThread (ApplyHandler.h) is not part of this repository: its run() *)
(* is modelled from the GIAPI contract for STARTED actions, as reading its *)
(* id and posting one completion for it.                                   *)
(***************************************************************************)
EXTENDS Naturals, Sequences, TLC

CONSTANTS
  MaxId       \* action ids are drawn from 1 .. MaxId, increasing

VARIABLES
  hpc,          \* the dispatcher thread: "idle", "handle", "dtor", "gone"
  cur,          \* id of the action being handled (0 before the first)
  thread,       \* the handler's Thread pointer: the id it was made for, 0 = NULL
  threads,      \* threads[t]: "running" or "done" for every Thread made
  workerId,     \* WorkerThread::id, shared by every Thread
  workerAlive,  \* the WorkerThread object has not been deleted
  responses,    \* responses[id]: what handle() returned for action id
  posted,       \* completions posted by worker threads, in order
  freedUse      \* a worker used the WorkerThread after it was deleted

vars == <<hpc, cur, thread, threads, workerId, workerAlive, responses, posted,
          freedUse>>

Ids == 1 .. MaxId

\* The handler's previous Thread, if any, has finished (thread->join()
\* returns).
Joined == IF thread = 0 THEN TRUE ELSE threads[thread] = "done"

-----------------------------------------------------------------------------

\* The dispatcher calls handle(id, ...) for a new action.  Action ids come
\* from one counter for all handlers, so this handler sees an increasing
\* id of either parity.  Printing the configuration changes no state.
Dispatch ==
  /\ hpc = "idle"
  /\ \E id \in {cur + 1, cur + 2} \cap Ids : cur' = id
  /\ hpc' = "handle"
  /\ UNCHANGED <<thread, threads, workerId, workerAlive, responses, posted,
                 freedUse>>

\* 'if (id % 2 == 1) return COMPLETED'
HandleOdd ==
  /\ hpc = "handle" /\ cur % 2 = 1
  /\ responses' = responses @@ (cur :> "COMPLETED")
  /\ hpc' = "idle"
  /\ UNCHANGED <<cur, thread, threads, workerId, workerAlive, posted, freedUse>>

\* Mutant: 'thread->start()' is missing; joining a Thread that was never
\* started returns at once.
HandleEven_noStart ==
  /\ hpc = "handle" /\ cur % 2 = 0
  /\ Joined
  /\ thread' = cur
  /\ threads' = threads @@ (cur :> "done")
  /\ workerId' = cur
  /\ responses' = responses @@ (cur :> "STARTED")
  /\ hpc' = "idle"
  /\ UNCHANGED <<cur, workerAlive, posted, freedUse>>

\* Mutant: the previous thread is not joined before the shared worker's id
\* is overwritten.
HandleEven_noJoin ==
  /\ hpc = "handle" /\ cur % 2 = 0
  /\ thread' = cur
  /\ threads' = threads @@ (cur :> "running")
  /\ workerId' = cur
  /\ responses' = responses @@ (cur :> "STARTED")
  /\ hpc' = "idle"
  /\ UNCHANGED <<cur, workerAlive, posted, freedUse>>

\* 'if (thread != NULL) { thread->join(); delete thread; }' blocks until
\* the previous worker has finished; then 'thread = new Thread(worker);
\* worker->setId(id); thread->start(); return STARTED'.
HandleEven ==
  /\ hpc = "handle" /\ cur % 2 = 0
  /\ Joined
  /\ thread' = cur
  /\ threads' = threads @@ (cur :> "running")
  /\ workerId' = cur
  /\ responses' = responses @@ (cur :> "STARTED")
  /\ hpc' = "idle"
  /\ UNCHANGED <<cur, workerAlive, posted, freedUse>>

\* WorkerThread::run() on Thread t: reads the id of the shared WorkerThread
\* object and posts the completion of that action.
WorkerRun(t) ==
  /\ threads[t] = "running"
  /\ posted' = Append(posted, workerId)
  /\ freedUse' = (freedUse \/ ~workerAlive)
  /\ threads' = [threads EXCEPT ![t] = "done"]
  /\ UNCHANGED <<hpc, cur, thread, workerId, workerAlive, responses>>

\* ~GenericHandler(), once the dispatcher no longer calls it:
\* 'delete worker;'
Destroy ==
  /\ hpc = "idle"
  /\ workerAlive' = FALSE
  /\ hpc' = "dtor"
  /\ UNCHANGED <<cur, thread, threads, workerId, responses, posted, freedUse>>

\* '... if (thread != NULL) { thread->join(); delete thread; }'
DestroyJoin ==
  /\ hpc = "dtor" /\ Joined
  /\ hpc' = "gone"
  /\ thread' = 0
  /\ UNCHANGED <<cur, threads, workerId, workerAlive, responses, posted,
                 freedUse>>

\* GenericHandler(): 'worker = new WorkerThread(); thread = NULL;'
Init ==
  /\ hpc = "idle"
  /\ cur = 0
  /\ thread = 0
  /\ threads = << >>
  /\ workerId = 0
  /\ workerAlive = TRUE
  /\ responses = << >>
  /\ posted = << >>
  /\ freedUse = FALSE

Next ==
  \/ Dispatch \/ HandleOdd \/ HandleEven \/ Destroy \/ DestroyJoin
  \/ \E t \in DOMAIN threads : WorkerRun(t)

\* The dispatcher and the worker threads are threads the OS keeps running;
\* nothing obliges the program to send another action or to destroy the
\* handler.
Fairness ==
  /\ WF_vars(HandleOdd) /\ WF_vars(HandleEven) /\ WF_vars(DestroyJoin)
  /\ \A t \in Ids : WF_vars(t \in DOMAIN threads /\ WorkerRun(t))

Spec == Init /\ [][Next]_vars /\ Fairness

-----------------------------------------------------------------------------
(* Properties                                                              *)

Started == {id \in DOMAIN responses : responses[id] = "STARTED"}

\* Worker threads post completions only for actions handle() answered
\* STARTED, and at most one per action, although every thread shares one
\* WorkerThread object whose id handle() overwrites.
CompletionsMatchStarted ==
  /\ \A i \in DOMAIN posted : posted[i] \in Started
  /\ \A i, j \in DOMAIN posted : i # j => posted[i] # posted[j]

\* Every action answered STARTED is eventually completed by a worker.
EveryStartedCompletes ==
  \A id \in Ids :
    (id \in Started) ~> (\E i \in DOMAIN posted : posted[i] = id)

\* No worker thread uses the WorkerThread object after ~GenericHandler
\* deleted it.
NoWorkerUseAfterFree == ~freedUse

=============================================================================
