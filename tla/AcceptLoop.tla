----------------------------- MODULE AcceptLoop -----------------------------
(***************************************************************************)
(* Inside one daemon: the accept loop and the signal handler of            *)
(* src/daemon/mod.rs, and one handle_connection of src/daemon/server.rs    *)
(* per client.  They run concurrently and share the configuration behind   *)
(* its lock, the reload flag and the permit of shutdown_notify.  A step    *)
(* goes from one await point to the next.                                  *)
(*                                                                         *)
(* A configuration is its version.  Signals of one kind that arrive        *)
(* together are delivered as one.                                          *)
(***************************************************************************)
EXTENDS Naturals

CONSTANTS
    Clients,        \* each connects at most once
    Requests,       \* the requests a client may send: "Search", "Shutdown", ...
    MaxEdits,       \* bound: edits of the configuration file
    MaxHups         \* bound: SIGHUPs sent

ASSUME LoopConstants == MaxEdits \in Nat /\ MaxHups \in Nat

VARIABLES
    file,           \* version of the configuration file
    valid,          \* Config::load accepts it
    config,         \* version published behind the lock
    hup, term,      \* a signal of that kind is pending
    handler,        \* signal handler: "waiting", "publishing" or "gone"
    loaded,         \* the version it is about to publish
    reload,         \* reload_requested
    permit,         \* shutdown_notify holds a permit
    loop,           \* accept loop: "reading", "selecting", "draining", "done"
    current,        \* its current_config
    conn,           \* client -> state of its connection
    settings,       \* client -> the configuration its handler was given
    request,        \* client -> the request being dispatched
    hups, stale     \* history: SIGHUPs sent; connections accepted since the
                    \* last publication with settings older than it

signalVars == <<hup, term, handler, loaded, permit>>
connVars   == <<conn, settings, request>>
loopVars == <<file, valid, config, signalVars, reload, loop, current, connVars,
              hups, stale>>

Running == loop # "done"

Built == 0          \* the version Manager::new was given; it is never rebuilt

LoopInit ==
    /\ file = Built /\ valid = TRUE /\ config = Built
    /\ hup = FALSE /\ term = FALSE
    /\ handler = "waiting" /\ loaded = Built
    /\ reload = FALSE /\ permit = FALSE
    /\ loop = "reading" /\ current = Built
    /\ conn = [c \in Clients |-> "none"]
    /\ settings = [c \in Clients |-> Built]
    /\ request = [c \in Clients |-> "none"]
    /\ hups = 0 /\ stale = 0

-----------------------------------------------------------------------------
(* The operator: an edit may leave a file that does not load. *)
EditConfig ==
    /\ file < MaxEdits
    /\ file' = file + 1
    /\ valid' \in BOOLEAN
    /\ UNCHANGED <<config, signalVars, reload, loop, current, connVars, hups, stale>>

SendHup ==
    /\ Running
    /\ hups < MaxHups
    /\ hups' = hups + 1
    /\ hup' = TRUE
    /\ UNCHANGED <<file, valid, config, term, handler, loaded, permit, reload,
                   loop, current, connVars, stale>>

SendTerm ==
    /\ Running
    /\ term' = TRUE
    /\ UNCHANGED <<file, valid, config, hup, handler, loaded, permit, reload,
                   loop, current, connVars, hups, stale>>

-----------------------------------------------------------------------------
(* signal_handler *)

(* SIGHUP: raise the flag, then load the file.  A bad one is logged.       *)
TakeHupOrQuit ==                      \* fault: a load error ends the handler
    /\ Running
    /\ handler = "waiting"
    /\ hup
    /\ hup' = FALSE
    /\ reload' = TRUE
    /\ loaded' = IF valid THEN file ELSE loaded
    /\ handler' = IF valid THEN "publishing" ELSE "gone"
    /\ UNCHANGED <<file, valid, config, term, permit, loop, current, connVars,
                   hups, stale>>

TakeHup ==
    /\ Running
    /\ handler = "waiting"
    /\ hup
    /\ hup' = FALSE
    /\ reload' = TRUE
    /\ loaded' = IF valid THEN file ELSE loaded
    /\ handler' = IF valid THEN "publishing" ELSE "waiting"
    /\ UNCHANGED <<file, valid, config, term, permit, loop, current, connVars,
                   hups, stale>>

(* After config.write().await. *)
Publish ==
    /\ Running
    /\ handler = "publishing"
    /\ config' = loaded
    /\ handler' = "waiting"
    /\ stale' = 0
    /\ UNCHANGED <<file, valid, hup, term, loaded, permit, reload, loop, current,
                   connVars, hups>>

(* SIGTERM or SIGINT: leave a permit and return; later signals are lost.   *)
TakeTermWaiters ==                    \* fault: notify_waiters for notify_one
    /\ Running
    /\ handler = "waiting"
    /\ term
    /\ permit' = (loop = "selecting")
    /\ handler' = "gone"
    /\ UNCHANGED <<file, valid, config, hup, term, loaded, reload, loop, current,
                   connVars, hups, stale>>

TakeTerm ==
    /\ Running
    /\ handler = "waiting"
    /\ term
    /\ permit' = TRUE
    /\ handler' = "gone"
    /\ UNCHANGED <<file, valid, config, hup, term, loaded, reload, loop, current,
                   connVars, hups, stale>>

-----------------------------------------------------------------------------
(* accept_loop *)

(* The flag is cleared; the configuration is read whether it was set or    *)
(* not.                                                                    *)
ReadIfFlagged ==                      \* fault: read only when the flag is set
    /\ loop = "reading"
    /\ reload' = FALSE
    /\ current' = IF reload THEN config ELSE current
    /\ loop' = "selecting"
    /\ UNCHANGED <<file, valid, config, signalVars, connVars, hups, stale>>

ReadConfig ==
    /\ loop = "reading"
    /\ reload' = FALSE
    /\ current' = config
    /\ loop' = "selecting"
    /\ UNCHANGED <<file, valid, config, signalVars, connVars, hups, stale>>

Accept(c) ==
    /\ loop = "selecting"
    /\ conn[c] = "queued"
    /\ conn' = [conn EXCEPT ![c] = "open"]
    /\ settings' = [settings EXCEPT ![c] = current]
    /\ stale' = IF current < config THEN stale + 1 ELSE stale
    /\ loop' = "reading"
    /\ UNCHANGED <<file, valid, config, signalVars, reload, current, request, hups>>

(* An accept error is logged and the loop goes round. *)
AcceptFails ==
    /\ loop = "selecting"
    /\ loop' = "reading"
    /\ UNCHANGED <<file, valid, config, signalVars, reload, current, connVars,
                   hups, stale>>

(* Dropping the listener resets whoever is still queued. *)
Drain ==
    /\ loop = "selecting"
    /\ permit
    /\ permit' = FALSE
    /\ loop' = "draining"
    /\ conn' = [c \in Clients |-> IF conn[c] = "queued" THEN "reset" ELSE conn[c]]
    /\ UNCHANGED <<file, valid, config, hup, term, handler, loaded, reload,
                   current, settings, request, hups, stale>>

(* The grace period is slept through; then the process exits under the     *)
(* handlers that are left.                                                 *)
GraceElapses ==
    /\ loop = "draining"
    /\ loop' = "done"
    /\ conn' = [c \in Clients |->
                   IF conn[c] \in {"open", "dispatching"} THEN "cut" ELSE conn[c]]
    /\ UNCHANGED <<file, valid, config, signalVars, reload, current, settings,
                   request, hups, stale>>

-----------------------------------------------------------------------------
(* A client and its handle_connection *)

Connect(c) ==
    /\ conn[c] = "none"
    /\ loop \in {"reading", "selecting"}
    /\ conn' = [conn EXCEPT ![c] = "queued"]
    /\ UNCHANGED <<file, valid, config, signalVars, reload, loop, current,
                   settings, request, hups, stale>>

Send(c) ==
    /\ conn[c] = "open"
    /\ \E kind \in Requests : request' = [request EXCEPT ![c] = kind]
    /\ conn' = [conn EXCEPT ![c] = "dispatching"]
    /\ UNCHANGED <<file, valid, config, signalVars, reload, loop, current,
                   settings, hups, stale>>

(* dispatch_request returns and the response is written: the daemon's      *)
(* state is the same after it, for a Shutdown request too.                 *)
Respond(c) ==
    /\ conn[c] = "dispatching"
    /\ conn' = [conn EXCEPT ![c] = "open"]
    /\ request' = [request EXCEPT ![c] = "none"]
    /\ UNCHANGED <<file, valid, config, signalVars, reload, loop, current,
                   settings, hups, stale>>

(* EOF, a read error or a line over the size limit; or the response cannot *)
(* be written.  A line that does not parse is answered and changes nothing.*)
Disconnect(c) ==
    /\ conn[c] \in {"open", "dispatching"}
    /\ conn' = [conn EXCEPT ![c] = "closed"]
    /\ request' = [request EXCEPT ![c] = "none"]
    /\ UNCHANGED <<file, valid, config, signalVars, reload, loop, current,
                   settings, hups, stale>>

LoopNext ==
    \/ EditConfig
    \/ SendHup
    \/ SendTerm
    \/ TakeHup
    \/ Publish
    \/ TakeTerm
    \/ ReadConfig
    \/ Drain
    \/ GraceElapses
    \/ AcceptFails
    \/ \E c \in Clients :
          \/ Connect(c)
          \/ Accept(c)
          \/ Send(c)
          \/ Respond(c)
          \/ Disconnect(c)

LoopSpec == LoopInit /\ [][LoopNext]_loopVars

(* Tasks that are ready are polled, and select! picks at random among the  *)
(* branches that are ready: none of them is passed over for ever.          *)
FairLoopSpec ==
    /\ LoopSpec
    /\ WF_loopVars(Publish) /\ SF_loopVars(TakeHup) /\ SF_loopVars(TakeTerm)
    /\ WF_loopVars(ReadConfig) /\ SF_loopVars(Drain) /\ WF_loopVars(GraceElapses)
    /\ \A c \in Clients : SF_loopVars(Accept(c)) /\ WF_loopVars(Respond(c))

-----------------------------------------------------------------------------
(* However a reload interleaves with the accept loop, at most one client   *)
(* accepted after the new configuration is published is given the old one: *)
(* the connection the loop was already waiting for.                        *)
AtMostOneStale == stale <= 1

(* A SIGTERM ends the daemon, whatever state the loop is in when it comes, *)
(* and however many clients, accept errors and reloads come with it.       *)
SigtermStops == term ~> loop = "done"

(* A SIGHUP is not lost: the file as it was when the signal came, or a     *)
(* later one, is published, unless the file no longer loads or the daemon  *)
(* is being stopped.                                                       *)
ReloadIsApplied ==
    \A v \in 1..MaxEdits :
        hup /\ file = v ~> config >= v \/ ~valid \/ term

-----------------------------------------------------------------------------
(* What the documentation says and the code does not do.                   *)

(* "... so that new connections see updated settings".                     *)
NewClientsSeeReload ==
    [][\A c \in Clients :
         conn[c] = "queued" /\ conn'[c] = "open" => settings'[c] = config]_loopVars

(* "Signaled when a shutdown is requested (SIGTERM, SIGINT, or Shutdown    *)
(* request)".                                                              *)
ShutdownRequestStops ==
    \A c \in Clients :
        conn[c] = "dispatching" /\ request[c] = "Shutdown" ~> loop = "done"

-----------------------------------------------------------------------------
(* Why AtMostOneStale holds: a loop that still waits with old settings has *)
(* given them to nobody since the publication.                             *)
Versions == file \in Nat /\ loaded \in Nat /\ config \in Nat

StaleInv ==
    /\ Versions
    /\ stale \in {0, 1}
    /\ loop = "selecting" => current = config \/ stale = 0
=============================================================================
