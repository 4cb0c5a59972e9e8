------------------------------ MODULE PVServer ------------------------------
(***************************************************************************)
(* The process-wide pvAccess server shared by all image handlers:          *)
(* PVImageAgent::handle_server (src/data/PVImageAgent.h) with its static   *)
(* 'started' flag and 'pvCtx' context, started from the PVImageHandlerImpl *)
(* constructor through startPVAserver and stopped from its destructor      *)
(* through stopPVAserver (src/data/PVImageHandler.cpp).                    *)
(*                                                                         *)
(* Each handler's constructor and destructor may run on its own thread;    *)
(* handle_server takes no lock, so its test of 'started', the start or     *)
(* reset of pvCtx, the write of 'started' and the read of the port are     *)
(* separate steps.  A context is a number; 0 is the empty shared_ptr.      *)
(***************************************************************************)
EXTENDS Naturals

CONSTANTS
  Handlers,      \* PVImageHandler instances of the process
  MaxCreations   \* bound on PVImageHandler::create calls

VARIABLES
  hstate,        \* where each handler's constructor or destructor is
  started,       \* static bool started of handle_server
  pvCtx,         \* static ServerContext::shared_pointer pvCtx (0 = empty)
  creations      \* handlers created so far; also names the next context

vars == <<hstate, started, pvCtx, creations>>

States == {"none", "check", "launch", "flag", "port", "alive", "stop",
           "reset", "crashed"}

-----------------------------------------------------------------------------

\* PVImageHandler::create: the constructor makes the RPC server, publishes
\* its port, creates and registers the agent, then calls startPVAserver,
\* i.e. handle_server(true), which first tests 'started'.
Create(h) ==
  /\ hstate[h] = "none" /\ creations < MaxCreations
  /\ hstate' = [hstate EXCEPT ![h] = "check"]
  /\ creations' = creations + 1
  /\ UNCHANGED <<started, pvCtx>>

\* 'if (!started)'
CheckStarted(h) ==
  /\ hstate[h] = "check"
  /\ hstate' = [hstate EXCEPT ![h] = IF started THEN "port" ELSE "launch"]
  /\ UNCHANGED <<started, pvCtx, creations>>

\* 'pvCtx = startPVAServer(...);' (assigning pvCtx releases the context
\* it held).
Launch(h) ==
  /\ hstate[h] = "launch"
  /\ pvCtx' = creations
  /\ hstate' = [hstate EXCEPT ![h] = "flag"]
  /\ UNCHANGED <<started, creations>>

\* 'started = true;'
SetStarted(h) ==
  /\ hstate[h] = "flag"
  /\ started' = TRUE
  /\ hstate' = [hstate EXCEPT ![h] = "port"]
  /\ UNCHANGED <<pvCtx, creations>>

\* 'return pvCtx->getServerPort();' dereferences pvCtx: with an empty
\* pointer the process crashes.
GetServerPort(h) ==
  /\ hstate[h] = "port"
  /\ hstate' = [hstate EXCEPT ![h] = IF pvCtx = 0 THEN "crashed" ELSE "alive"]
  /\ UNCHANGED <<started, pvCtx, creations>>

\* ~PVImageHandlerImpl: unregisterService, then stopPVAserver, i.e.
\* handle_server(false), which tests 'if (started)'.
Destroy(h) ==
  /\ hstate[h] = "alive"
  /\ hstate' = [hstate EXCEPT ![h] = IF started THEN "reset" ELSE "none"]
  /\ UNCHANGED <<started, pvCtx, creations>>

\* 'pvCtx.reset();'
ResetContext(h) ==
  /\ hstate[h] = "reset"
  /\ pvCtx' = 0
  /\ hstate' = [hstate EXCEPT ![h] = "stop"]
  /\ UNCHANGED <<started, creations>>

\* Mutant: 'started' is left set after the context is released.
ClearStarted_keepFlag(h) ==
  /\ hstate[h] = "stop"
  /\ hstate' = [hstate EXCEPT ![h] = "none"]
  /\ UNCHANGED <<started, pvCtx, creations>>

\* 'started = false;'
ClearStarted(h) ==
  /\ hstate[h] = "stop"
  /\ started' = FALSE
  /\ hstate' = [hstate EXCEPT ![h] = "none"]
  /\ UNCHANGED <<pvCtx, creations>>

Init ==
  /\ hstate = [h \in Handlers |-> "none"]
  /\ started = FALSE
  /\ pvCtx = 0
  /\ creations = 0

Next ==
  \E h \in Handlers :
    \/ Create(h) \/ CheckStarted(h) \/ Launch(h) \/ SetStarted(h)
    \/ GetServerPort(h)
    \/ Destroy(h) \/ ResetContext(h) \/ ClearStarted(h)

Spec == Init /\ [][Next]_vars

-----------------------------------------------------------------------------
(* Properties                                                              *)

\* No handler's startPVAserver dereferences an empty pvCtx: handle_server
\* only reads the port of a context that is still held.
NoNullServer == \A h \in Handlers : hstate[h] # "crashed"

\* handle_server starts a new pvAccess server only when none is held
\* ("Only start the PVA server once for this process"): pvCtx never goes
\* from one context straight to another.
StartOnlyWhenStopped ==
  [][pvCtx' # pvCtx /\ pvCtx' # 0 => pvCtx = 0]_vars

\* While a handler is alive (constructed and not yet being destroyed) the
\* shared server that publishes its image stream is running.
ServerRunsWhileHandlerAlive ==
  \A h \in Handlers : hstate[h] = "alive" => pvCtx # 0

=============================================================================
