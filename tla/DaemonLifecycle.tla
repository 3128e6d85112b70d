--------------------------- MODULE DaemonLifecycle ---------------------------
(***************************************************************************)
(* Daemon processes that share a PID file and a socket path: Daemon::start *)
(* and what it calls, the shutdown sequence and cleanup, in                *)
(* src/daemon/mod.rs.  Nothing locks the two paths, so every file system   *)
(* call is a step of its own, and a process may die between any two.       *)
(*                                                                         *)
(* Starts, shutdowns and crashes of different processes overlap as they    *)
(* please.                                                                 *)
(*                                                                         *)
(* A process is named by its pid, and a pid may be used again.  fs::write  *)
(* truncates and then writes; what it writes is lost if the file has been  *)
(* unlinked in between.                                                    *)
(***************************************************************************)
EXTENDS Naturals

CONSTANTS
    Pids,           \* the pids daemon processes get
    Absent,         \* a path with no file
    Empty,          \* a PID file truncated and not yet written
    MaxStarts       \* bound: starts in all

ASSUME LifecycleConstants ==
    /\ Absent \notin Pids
    /\ Empty \notin Pids
    /\ Absent # Empty
    /\ MaxStarts \in Nat

VARIABLES
    pc,             \* pid -> where its process is, "off" if there is none
    pid_file,       \* Absent, Empty or the pid in it
    sock_file,      \* Absent or the process whose listener is bound there
    seen,           \* pid -> the pid its check_pid_file has read, at first its own
    starts,         \* starts so far
    raced,          \* history: two starts have gone past the check together
    overlapped      \* history: one has while another process was cleaning up

pathVars == <<pc, pid_file, sock_file, seen, starts>>
vars     == <<pathVars, raced, overlapped>>

Binding  == {"seeking", "clearing", "binding", "setting_mode"}
Writing  == {"opening", "writing", "building"}
Past     == {"unlinking"} \cup Binding \cup Writing
Starting == {"looking", "reading", "probing"} \cup Past
Serving  == {"serving", "draining"}
Cleaning == {"removing_pid", "removing_socket"}

Init ==
    /\ pc = [p \in Pids |-> "off"]
    /\ pid_file = Absent
    /\ sock_file = Absent
    /\ seen = [p \in Pids |-> p]
    /\ starts = 0
    /\ raced = FALSE
    /\ overlapped = FALSE

Goto(p, place) == pc' = [pc EXCEPT ![p] = place]
Forget(p)      == seen' = [seen EXCEPT ![p] = p]

-----------------------------------------------------------------------------
Start(p) ==
    /\ pc[p] = "off"
    /\ starts < MaxStarts
    /\ starts' = starts + 1
    /\ Goto(p, "looking")
    /\ UNCHANGED <<pid_file, sock_file, seen>>

(* check_pid_file: exists(), read and parse, kill(pid, 0), remove.  An     *)
(* empty or vanished file and a live pid, its own included, end the start. *)
is_process_alive(pid) == pc[pid] # "off"

SkipPidCheck(p) ==                    \* fault: the file is taken for stale
    /\ pc[p] = "looking"
    /\ Goto(p, "seeking")
    /\ UNCHANGED <<pid_file, sock_file, seen, starts>>

LookForPid(p) ==
    /\ pc[p] = "looking"
    /\ Goto(p, IF pid_file = Absent THEN "seeking" ELSE "reading")
    /\ UNCHANGED <<pid_file, sock_file, seen, starts>>

ReadPid(p) ==
    /\ pc[p] = "reading"
    /\ IF pid_file \in Pids
       THEN seen' = [seen EXCEPT ![p] = pid_file] /\ Goto(p, "probing")
       ELSE Goto(p, "off") /\ UNCHANGED seen
    /\ UNCHANGED <<pid_file, sock_file, starts>>

ProbeUnchecked(p) ==                  \* fault: no kill(pid, 0)
    /\ pc[p] = "probing"
    /\ Goto(p, "unlinking")
    /\ Forget(p)
    /\ UNCHANGED <<pid_file, sock_file, starts>>

ProbeCleansUp(p) ==                   \* fault: a refused start runs cleanup
    /\ pc[p] = "probing"
    /\ Goto(p, IF is_process_alive(seen[p]) THEN "removing_pid" ELSE "unlinking")
    /\ Forget(p)
    /\ UNCHANGED <<pid_file, sock_file, starts>>

Probe(p) ==
    /\ pc[p] = "probing"
    /\ Goto(p, IF is_process_alive(seen[p]) THEN "off" ELSE "unlinking")
    /\ Forget(p)
    /\ UNCHANGED <<pid_file, sock_file, starts>>

RemoveStalePid(p) ==
    /\ pc[p] = "unlinking"
    /\ pid_file' = Absent
    /\ Goto(p, "seeking")
    /\ UNCHANGED <<sock_file, seen, starts>>

(* create_socket: exists(), remove, bind and listen, set_permissions.  An  *)
(* error of any of them ends the start.                                    *)
LookForSocket(p) ==
    /\ pc[p] = "seeking"
    /\ Goto(p, IF sock_file = Absent THEN "binding" ELSE "clearing")
    /\ UNCHANGED <<pid_file, sock_file, seen, starts>>

RemoveOldSocket(p) ==
    /\ pc[p] = "clearing"
    /\ sock_file' = Absent
    /\ Goto(p, IF sock_file = Absent THEN "off" ELSE "binding")
    /\ UNCHANGED <<pid_file, seen, starts>>

BindSocket(p) ==
    /\ pc[p] = "binding"
    /\ sock_file' = IF sock_file = Absent THEN p ELSE sock_file
    /\ Goto(p, IF sock_file = Absent THEN "setting_mode" ELSE "off")
    /\ UNCHANGED <<pid_file, seen, starts>>

SetMode(p) ==
    /\ pc[p] = "setting_mode"
    /\ Goto(p, IF sock_file = Absent THEN "off" ELSE "opening")
    /\ UNCHANGED <<pid_file, sock_file, seen, starts>>

(* write_pid_file *)
TruncatePid(p) ==
    /\ pc[p] = "opening"
    /\ pid_file' = Empty
    /\ Goto(p, "writing")
    /\ UNCHANGED <<sock_file, seen, starts>>

WritePid(p) ==
    /\ pc[p] = "writing"
    /\ pid_file' = IF pid_file = Absent THEN Absent ELSE p
    /\ Goto(p, "building")
    /\ UNCHANGED <<sock_file, seen, starts>>

(* Manager::new succeeds and the accept loop runs, or it fails: there is   *)
(* no Daemon yet to drop, so the two files stay behind.                    *)
BuildManager(p) ==
    /\ pc[p] = "building"
    /\ \/ Goto(p, "serving")
       \/ Goto(p, "off")
    /\ UNCHANGED <<pid_file, sock_file, seen, starts>>

-----------------------------------------------------------------------------
TerminateUnlinks(p) ==                \* fault: the path goes with the listener
    /\ pc[p] = "serving"
    /\ Goto(p, "draining")
    /\ sock_file' = Absent
    /\ UNCHANGED <<pid_file, seen, starts>>

(* SIGTERM or SIGINT: the listener is dropped, its path stays.             *)
Terminate(p) ==
    /\ pc[p] = "serving"
    /\ Goto(p, "draining")
    /\ UNCHANGED <<pid_file, sock_file, seen, starts>>

GraceOver(p) ==
    /\ pc[p] = "draining"
    /\ Goto(p, "removing_pid")
    /\ UNCHANGED <<pid_file, sock_file, seen, starts>>

(* cleanup, from Daemon::drop: whatever the two paths hold is removed.     *)
CleanPid(p) ==
    /\ pc[p] = "removing_pid"
    /\ pid_file' = Absent
    /\ Goto(p, "removing_socket")
    /\ UNCHANGED <<sock_file, seen, starts>>

CleanSocket(p) ==
    /\ pc[p] = "removing_socket"
    /\ sock_file' = Absent
    /\ Goto(p, "off")
    /\ UNCHANGED <<pid_file, seen, starts>>

(* SIGKILL, a panic, a power cut, or SIGTERM before its handler is set.    *)
Crash(p) ==
    /\ pc[p] # "off"
    /\ Goto(p, "off")
    /\ Forget(p)
    /\ UNCHANGED <<pid_file, sock_file, starts>>

Move(p) ==
    \/ Start(p)
    \/ LookForPid(p)
    \/ ReadPid(p)
    \/ Probe(p)
    \/ RemoveStalePid(p)
    \/ LookForSocket(p)
    \/ RemoveOldSocket(p)
    \/ BindSocket(p)
    \/ SetMode(p)
    \/ TruncatePid(p)
    \/ WritePid(p)
    \/ BuildManager(p)
    \/ Terminate(p)
    \/ GraceOver(p)
    \/ CleanPid(p)
    \/ CleanSocket(p)
    \/ Crash(p)

-----------------------------------------------------------------------------
(* A start claims the two paths once it is past its check, and as soon as  *)
(* what it has read there is out of date.                                  *)
Claims(p) ==
    \/ pc[p] \in Past
    \/ pc[p] = "probing" /\ (seen[p] # pid_file \/ ~is_process_alive(seen[p]))

OneClaim == \A p, q \in Pids : Claims(p) /\ Claims(q) => p = q

(* A cleanup is still to remove a socket that is about to be replaced. *)
Meeting ==
    \E p, q \in Pids : p # q /\ pc[p] = "removing_socket" /\ pc[q] \in Past

History ==
    /\ raced' = (raced \/ ~OneClaim')
    /\ overlapped' = (overlapped \/ Meeting')

Next == (\E p \in Pids : Move(p)) /\ History

Spec == Init /\ [][Next]_vars

-----------------------------------------------------------------------------
(* Every variable keeps its range. *)
TypeOK ==
    /\ pc \in [Pids -> {"off"} \cup Starting \cup Serving \cup Cleaning]
    /\ pid_file \in Pids \cup {Absent, Empty}
    /\ sock_file \in Pids \cup {Absent}
    /\ seen \in [Pids -> Pids]
    /\ starts \in Nat
    /\ raced \in BOOLEAN
    /\ overlapped \in BOOLEAN

(* "Refuses to start if the daemon is already running": two processes      *)
(* never serve at once.                                                    *)
OneDaemon ==
    \A p, q \in Pids : pc[p] = "serving" /\ pc[q] = "serving" => p = q

(* Whatever overlaps, crashes and pids that are used again, that is so     *)
(* until two starts are past their checks at the same time.                *)
OneDaemonUnlessRaced == ~raced => OneDaemon

(* A serving daemon can be connected to: the socket path leads to it.      *)
ServingIsReachable ==
    \A p \in Pids : pc[p] = "serving" => sock_file = p

(* The same, when no two starts have raced: a cleanup is enough to break it. *)
ReachableUnlessRaced == ~raced => ServingIsReachable

(* Until starts race, a daemon that serves or drains can be stopped and is *)
(* seen by the next start: the PID file names it.                          *)
PidNamesDaemon ==
    ~raced => \A p \in Pids : pc[p] \in Serving => pid_file = p

(* Nothing but two starts, or a start and a cleanup, that meet makes a     *)
(* serving daemon unreachable: no crash, refused start or pid used again.  *)
ReachableUnlessOverlapped == ~raced /\ ~overlapped => ServingIsReachable

-----------------------------------------------------------------------------
(* Why they hold.  Whoever claims the paths is the only daemon, but for    *)
(* one that has given up its PID file and not yet its socket.              *)
NoneElse(p, places) == \A q \in Pids \ {p} : pc[q] \notin places

PidFollows ==
    \A p \in Pids :
        /\ pc[p] \in Serving \cup {"removing_pid", "building"} => pid_file = p
        /\ pc[p] = "writing" => pid_file = Empty
        /\ Claims(p) => NoneElse(p, Serving \cup {"removing_pid"})

PidInv ==
    /\ TypeOK
    /\ ~raced => OneClaim /\ PidFollows

(* And with no cleanup under way during a start, the socket follows too.   *)
CleanupApart ==
    \A p \in Pids : pc[p] = "removing_socket" => NoneElse(p, Past \cup Serving)

SocketFollows ==
    \A p \in Pids :
        pc[p] \in {"setting_mode"} \cup Writing \cup Serving => sock_file = p

SocketInv == ~raced /\ ~overlapped => CleanupApart /\ SocketFollows
=============================================================================
