----------------------------- MODULE StopCommand -----------------------------
(***************************************************************************)
(* `skipjackd stop` (cmd_stop in src/cli.rs) against the daemon processes  *)
(* of DaemonLifecycle: it reads the PID file, looks at the process, sends  *)
(* SIGTERM and waits for the socket file to vanish.  Between any two of    *)
(* these steps daemons start, stop and die.                                *)
(*                                                                         *)
(* The clock is left out: the ten seconds of the command and the thirty of *)
(* a draining daemon may end in either order.                              *)
(***************************************************************************)
EXTENDS DaemonLifecycle

CONSTANTS
    Commands,       \* stop commands, each given once
    NameIsBinary    \* the configured daemon name is that of the executable

ASSUME StopConstants == NameIsBinary \in BOOLEAN

VARIABLES
    stop,           \* command -> where it is, its pid and its outcome
    pending,        \* processes with a SIGTERM they have not acted upon
    born            \* history: pid -> the start that made its process

stopVars == <<stop, pending, born>>

NoPid == 0

StopInit ==
    /\ Init
    /\ stop = [u \in Commands |-> [pc |-> "idle", pid |-> NoPid, born |-> 0, outcome |-> "none"]]
    /\ pending = {}
    /\ born = [p \in Pids |-> 0]

-----------------------------------------------------------------------------
EndStop(u, outcome) ==
    stop' = [stop EXCEPT ![u].pc = "done", ![u].outcome = outcome]

(* read_to_string and parse: no file, or one that is still empty, ends it. *)
ReadsPidFile(u) ==
    /\ stop[u].pc = "idle"
    /\ IF pid_file \in Pids
       THEN stop' = [stop EXCEPT ![u].pc = "verifying", ![u].pid = pid_file]
       ELSE EndStop(u, "no_pid")
    /\ UNCHANGED <<pathVars, pending, born>>

(* /proc/<pid>/comm is the name of the executable. *)
verify_pid(pid) == pc[pid] # "off" /\ NameIsBinary

Verifies(u) ==
    /\ stop[u].pc = "verifying"
    /\ IF verify_pid(stop[u].pid)
       THEN stop' = [stop EXCEPT ![u].pc = "signalling"]
       ELSE EndStop(u, "not_daemon")
    /\ UNCHANGED <<pathVars, pending, born>>

(* signal_handler is spawned before Manager::new: from there on a SIGTERM  *)
(* may be caught and kept, as a permit, for the accept loop.               *)
Catching == {"building", "serving"}

(* kill(pid, SIGTERM).  A process that has not registered its handlers yet *)
(* ends at once and leaves its files; one that is stopping is not          *)
(* disturbed.                                                              *)
Signals(u) ==
    LET p == stop[u].pid IN
    /\ stop[u].pc = "signalling"
    /\ IF pc[p] = "off"
       THEN EndStop(u, "not_signalled") /\ UNCHANGED <<pathVars, pending>>
       ELSE /\ stop' = [stop EXCEPT ![u].pc = "waiting", ![u].born = born[p]]
            /\ \/ /\ pc[p] \in Starting \cup {"serving"}
                  /\ Crash(p)
                  /\ pending' = pending \ {p}
               \/ /\ pc[p] \in Catching
                  /\ pending' = pending \cup {p}
                  /\ UNCHANGED pathVars
               \/ /\ pc[p] \in Cleaning \cup {"draining"}
                  /\ UNCHANGED <<pathVars, pending>>
    /\ UNCHANGED born

(* socket_path.exists(), every 100 ms. *)
SeesSocketGone(u) ==
    /\ stop[u].pc = "waiting"
    /\ sock_file = Absent
    /\ EndStop(u, "stopped")
    /\ UNCHANGED <<pathVars, pending, born>>

(* Ten seconds are over; the daemon may be draining as it should. *)
GivesUp(u) ==
    /\ stop[u].pc = "waiting"
    /\ EndStop(u, "still_up")
    /\ UNCHANGED <<pathVars, pending, born>>

-----------------------------------------------------------------------------
(* The daemons.  SIGTERM and SIGINT come from elsewhere too. *)
Starts(p) ==
    /\ Start(p)
    /\ born' = [born EXCEPT ![p] = starts']
    /\ UNCHANGED <<stop, pending>>

StartsUp(p) ==
    /\ \/ LookForPid(p) \/ ReadPid(p) \/ Probe(p) \/ RemoveStalePid(p)
       \/ LookForSocket(p) \/ RemoveOldSocket(p) \/ BindSocket(p) \/ SetMode(p)
       \/ TruncatePid(p) \/ WritePid(p) \/ BuildManager(p)
    /\ pending' = {q \in pending : pc'[q] # "off"}
    /\ UNCHANGED <<stop, born>>

Interrupted(p) ==
    /\ pc[p] \in Catching
    /\ pending' = pending \cup {p}
    /\ UNCHANGED <<pathVars, stop, born>>

HandlesSigterm(p) ==
    /\ p \in pending
    /\ Terminate(p)
    /\ pending' = pending \ {p}
    /\ UNCHANGED <<stop, born>>

ShutsDown(p) ==
    /\ GraceOver(p) \/ CleanPid(p) \/ CleanSocket(p)
    /\ UNCHANGED <<stop, pending, born>>

Crashes(p) ==
    /\ Crash(p)
    /\ pending' = pending \ {p}
    /\ UNCHANGED <<stop, born>>

StopNext ==
    /\ \/ \E u \in Commands :
             \/ ReadsPidFile(u)
             \/ Verifies(u)
             \/ Signals(u)
             \/ SeesSocketGone(u)
             \/ GivesUp(u)
       \/ \E p \in Pids :
             \/ Starts(p)
             \/ StartsUp(p)
             \/ Interrupted(p)
             \/ HandlesSigterm(p)
             \/ ShutsDown(p)
             \/ Crashes(p)
    /\ History

StopSpec == StopInit /\ [][StopNext]_<<vars, stopVars>>

-----------------------------------------------------------------------------
(* "Daemon stopped successfully": when the command says so, the process it *)
(* signalled serves nobody any more, and does not come back to it, unless  *)
(* another process has taken its socket away (raced, overlapped).          *)
StopIsTrue ==
    ~raced /\ ~overlapped =>
        \A u \in Commands : stop[u].outcome = "stopped" =>
            LET p == stop[u].pid IN
            ~(pc[p] \in {"building"} \cup Serving /\ born[p] = stop[u].born)

-----------------------------------------------------------------------------
(* Why they hold.  Every process has a number of its own, the start that   *)
(* made it.  A process that was signalled either ends or has its socket,   *)
(* so once the path leads nowhere it has nothing left to serve with.       *)
StopTypes ==
    /\ stop \in [Commands -> [pc : {"idle", "verifying", "signalling", "waiting", "done"},
                              pid : Pids \cup {NoPid}, born : Nat,
                              outcome : {"none", "no_pid", "not_daemon", "not_signalled",
                                         "stopped", "still_up"}]]
    /\ born \in [Pids -> Nat]
    /\ \A u \in Commands :
          /\ stop[u].pc # "done" => stop[u].outcome = "none"
          /\ stop[u].pc \in {"verifying", "signalling", "waiting"} => stop[u].pid \in Pids

Waited(u) == stop[u].pc = "waiting" \/ stop[u].outcome = "stopped"

SignalledIsOld ==
    /\ \A p \in Pids : born[p] <= starts
    /\ \A u \in Commands : Waited(u) =>
          /\ stop[u].pid \in Pids
          /\ stop[u].born <= starts
          /\ pc[stop[u].pid] \in Starting \ {"building"} =>
                 born[stop[u].pid] # stop[u].born

StopInv ==
    /\ PidInv
    /\ SocketInv
    /\ StopTypes
    /\ SignalledIsOld
    /\ StopIsTrue
=============================================================================
