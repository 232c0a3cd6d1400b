--------------------------- MODULE NodeLifecycle ---------------------------
(***************************************************************************)
(* SqueakNode.start_running and stop_running (src/squeaknode/node/         *)
(* squeak_node.py): the database initialisation loop of initialize_db, the *)
(* services started one after the other, the threads of the periodic       *)
(* workers doing their work, and what stop_running stops.                  *)
(*                                                                         *)
(* After the database loop, _initialize builds the other components; of   *)
(* these only lightning_client.init() talks to another process, so the    *)
(* building is one step that either succeeds or raises out of             *)
(* start_running.  A worker step stands for one iteration of a worker's   *)
(* loop, which reads or writes the store.                                  *)
(*                                                                         *)
(* The new-squeak worker is the Forwarding module, composed here: it is    *)
(* subscribed while "new_squeak" runs, and peers connect while the network *)
(* manager runs.                                                           *)
(***************************************************************************)
EXTENDS Naturals, Sequences, SequencesExt

CONSTANTS
    MaxAttempts,  \* the bound of the retry loop: range(10)
    Peers,        \* peer addresses (model values)
    NewSqueaks,   \* squeaks saved while the node runs (model values)
    NONE

ASSUME MaxAttempts \in Nat \ {0}

\* The services in the order start_running starts them.
StartOrder == <<"network_manager", "admin_rpc", "admin_web",
                "received_payment_processor", "peer_connection",
                "squeak_deletion", "offer_expiry", "new_squeak",
                "new_secret_key", "new_bitcoin_block">>
Services == ToSet(StartOrder)
Servers == {"network_manager", "admin_rpc", "admin_web"}
Workers == Services \ Servers

\* config.admin.rpc_enabled and config.webadmin.enabled.
Config == [rpc_enabled: BOOLEAN, web_enabled: BOOLEAN]

VARIABLES
    config,       \* the node's configuration
    pc,           \* where the main thread is
    attempts,     \* failed calls of squeak_db.init so far
    dbReady,      \* squeak_db.init has succeeded
    next,         \* index in StartOrder of the next service to start
    running,      \* services whose thread or server is running
    lastStep,     \* the service that did the last unit of work, or "none"
    connected, interest, made, queue, current, toVisit, sent, owed
                  \* the state of the Forwarding module

F == INSTANCE Forwarding WITH
    workerRunning <- "new_squeak" \in running,
    netRunning <- "network_manager" \in running

fwdVars == <<connected, interest, made, queue, current, toVisit, sent, owed>>
nodeVars == <<config, pc, attempts, dbReady, next, running, lastStep>>
vars == <<nodeVars, fwdVars>>

PCs == {"idle", "init_db", "init_components", "starting", "started", "stopped", "failed"}

TypeOK ==
    /\ config \in Config
    /\ pc \in PCs
    /\ attempts \in 0..MaxAttempts
    /\ dbReady \in BOOLEAN
    /\ next \in 1..Len(StartOrder) + 1
    /\ running \subseteq Services
    /\ lastStep \in Services \cup {"none"}
    /\ F!TypeOK

-----------------------------------------------------------------------------
\* start_running calls _initialize; its first steps load the network and
\* enter initialize_db.
StartRunning ==
    /\ pc = "idle"
    /\ pc' = "init_db"
    /\ UNCHANGED <<fwdVars, config, attempts, dbReady, next, running, lastStep>>

\* Mutant: range(11), one attempt more than the bound.
InitDbAttemptOffByOne(ok) ==
    /\ pc = "init_db"
    /\ IF ok
         THEN /\ dbReady' = TRUE
              /\ pc' = "init_components"
              /\ UNCHANGED attempts
         ELSE /\ attempts' = attempts + 1
              /\ pc' = IF attempts' > MaxAttempts THEN "init_components" ELSE "init_db"
              /\ UNCHANGED dbReady
    /\ UNCHANGED <<fwdVars, config, next, running, lastStep>>

\* One iteration of `for _ in range(10)`: squeak_db.init either returns
\* (break) or raises, which is logged and followed by time.sleep(10).
\* After the tenth failure the loop ends and _initialize goes on.
InitDbAttempt(ok) ==
    /\ pc = "init_db"
    /\ IF ok
         THEN /\ dbReady' = TRUE
              /\ pc' = "init_components"
              /\ UNCHANGED attempts
         ELSE /\ attempts' = attempts + 1
              /\ pc' = IF attempts' = MaxAttempts THEN "init_components" ELSE "init_db"
              /\ UNCHANGED dbReady
    /\ UNCHANGED <<fwdVars, config, next, running, lastStep>>

\* The rest of _initialize: the lightning client (whose init() is called
\* once, with no retry), the bitcoin clients, the core, the payment
\* processor, the network manager, the controller, the admin servers and
\* the workers are built.  If anything raises, the exception leaves
\* start_running and no service is started.
InitializeComponents(ok) ==
    /\ pc = "init_components"
    /\ pc' = IF ok THEN "starting" ELSE "failed"
    /\ UNCHANGED <<fwdVars, config, attempts, dbReady, next, running, lastStep>>

\* Whether start_running starts service s: the admin servers only when
\* enabled in the configuration.
Enabled(s) ==
    CASE s = "admin_rpc" -> config.rpc_enabled
      [] s = "admin_web" -> config.web_enabled
      [] OTHER           -> TRUE

\* Mutant: the loop over the services ends one too early.
StartServiceOffByOne ==
    /\ pc = "starting"
    /\ LET s == StartOrder[next] IN
         running' = IF Enabled(s) THEN running \cup {s} ELSE running
    /\ next' = next + 1
    /\ pc' = IF next' >= Len(StartOrder) THEN "started" ELSE pc
    /\ UNCHANGED <<fwdVars, config, attempts, dbReady, lastStep>>

\* One statement of start_running after _initialize.
StartService ==
    /\ pc = "starting"
    /\ LET s == StartOrder[next] IN
         running' = IF Enabled(s) THEN running \cup {s} ELSE running
    /\ next' = next + 1
    /\ pc' = IF next' > Len(StartOrder) THEN "started" ELSE pc
    /\ UNCHANGED <<fwdVars, config, attempts, dbReady, lastStep>>

\* The services stop_running stops, in its order: admin_web_server.stop(),
\* admin_rpc_server.stop(), network_manager.stop(),
\* received_payment_processor_worker.stop_running(),
\* new_squeak_worker.stop_running().
StoppedByStopRunning ==
    {"admin_web", "admin_rpc", "network_manager",
     "received_payment_processor", "new_squeak"}

StopRunning ==
    /\ pc = "started"
    /\ running' = running \ StoppedByStopRunning
    /\ pc' = "stopped"
    /\ UNCHANGED <<fwdVars, config, attempts, dbReady, next, lastStep>>

\* One unit of work of a running service: a worker's loop iteration, a
\* request served by an admin server or a peer message handled.
ServiceStep(s) ==
    /\ s \in running
    /\ lastStep' = s
    /\ UNCHANGED <<fwdVars, config, pc, attempts, dbReady, next, running>>

\* One step of the new-squeak worker's thread.
ForwarderStep ==
    /\ F!WorkerStep
    /\ lastStep' = "new_squeak"
    /\ UNCHANGED <<config, pc, attempts, dbReady, next, running>>

\* A squeak saved, or a peer connecting, disconnecting or sending its
\* filter: no service of this node does it.
EnvironmentStep ==
    /\ \/ \E sq \in NewSqueaks : F!SaveSqueak(sq)
       \/ F!PeerStep
    /\ UNCHANGED nodeVars

-----------------------------------------------------------------------------
Init ==
    /\ config \in Config
    /\ pc = "idle"
    /\ attempts = 0
    /\ dbReady = FALSE
    /\ next = 1
    /\ running = {}
    /\ lastStep = "none"
    /\ F!Init

Next ==
    \/ StartRunning
    \/ \E ok \in BOOLEAN : InitDbAttempt(ok)
    \/ \E ok \in BOOLEAN : InitializeComponents(ok)
    \/ StartService
    \/ StopRunning
    \/ \E s \in Services \ {"new_squeak"} : ServiceStep(s)
    \/ ForwarderStep
    \/ EnvironmentStep

\* The main thread runs start_running without waiting on anything but the
\* sleep of the retry loop, so each of its steps is taken while enabled.
\* Nothing is assumed of the outcome of squeak_db.init, which may fail
\* every time, nor of the building of the other components.  The
\* forwarder's thread loops as long as its subscription yields squeaks.
Spec ==
    /\ Init /\ [][Next]_vars
    /\ WF_vars(StartRunning)
    /\ WF_vars(\E ok \in BOOLEAN : InitDbAttempt(ok))
    /\ WF_vars(\E ok \in BOOLEAN : InitializeComponents(ok))
    /\ WF_vars(StartService)
    /\ WF_vars(ForwarderStep)

-----------------------------------------------------------------------------
(***************************************************************************)
(* Properties                                                              *)
(***************************************************************************)

\* start_running returns: however often squeak_db.init fails, the main
\* thread gets past the retry loop and either starts every enabled service
\* or raises having started none.
StartRunningReturns ==
    pc = "init_db" ~>
        \/ pc = "started" /\ \A s \in Services : Enabled(s) => s \in running
        \/ pc = "failed" /\ running = {}

\* Spec 5 and 9: every periodic worker owns a stop flag, so once
\* stop_running has returned no worker thread does any more work.
NoWorkAfterStop ==
    [][pc = "stopped" => lastStep' = lastStep]_vars

\* Spec 4.6: a squeak saved while the forwarder runs reaches every peer
\* connected with a matching filter from its saving until the forward,
\* whatever the snapshot of get_connected_peers misses (Forwarding).
ForwardedToSubscribers == F!ForwardedToSubscribers

\* No service does work over a store whose initialisation never succeeded.
ServicesRunOnlyOverInitialisedDb ==
    running # {} => dbReady

=============================================================================
