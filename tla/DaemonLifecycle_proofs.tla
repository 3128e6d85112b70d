----------------------- MODULE DaemonLifecycle_proofs -----------------------
(***************************************************************************)
(* Proofs about the daemon: its life cycle and the stop command, for any   *)
(* set of pids, any number of starts, crashes and stop commands, however   *)
(* they overlap, and its accept loop, for any number of clients, edits and *)
(* signals.  Nothing is assumed of when processes start; what is claimed   *)
(* of the life cycle is claimed until two starts, or a start and a         *)
(* cleanup, have in fact met (raced, overlapped).                          *)
(***************************************************************************)
EXTENDS StopCommand, AcceptLoop, TLAPS

USE DEF Past, Starting, Binding, Writing, Serving, Cleaning

(* A move concerns one process. *)
LEMMA Moves ==
    ASSUME TypeOK, NEW p \in Pids, NEW place, Goto(p, place)
    PROVE  /\ pc'[p] = place
           /\ \A q \in Pids \ {p} : pc'[q] = pc[q]
BY DEF TypeOK, Goto

LEMMA OthersStay ==
    ASSUME TypeOK, NEW p \in Pids, Move(p)
    PROVE  \A q \in Pids \ {p} : pc'[q] = pc[q] /\ seen'[q] = seen[q]
<1>1. CASE Start(p)
    BY <1>1, Moves DEF Start, TypeOK, Forget
<1>2. CASE LookForPid(p)
    BY <1>2, Moves DEF LookForPid, TypeOK, Forget
<1>3. CASE ReadPid(p)
    BY <1>3, Moves DEF ReadPid, TypeOK, Forget
<1>4. CASE Probe(p)
    BY <1>4, Moves DEF Probe, TypeOK, Forget
<1>5. CASE RemoveStalePid(p)
    BY <1>5, Moves DEF RemoveStalePid, TypeOK, Forget
<1>6. CASE LookForSocket(p)
    BY <1>6, Moves DEF LookForSocket, TypeOK, Forget
<1>7. CASE RemoveOldSocket(p)
    BY <1>7, Moves DEF RemoveOldSocket, TypeOK, Forget
<1>8. CASE BindSocket(p)
    BY <1>8, Moves DEF BindSocket, TypeOK, Forget
<1>9. CASE SetMode(p)
    BY <1>9, Moves DEF SetMode, TypeOK, Forget
<1>10. CASE TruncatePid(p)
    BY <1>10, Moves DEF TruncatePid, TypeOK, Forget
<1>11. CASE WritePid(p)
    BY <1>11, Moves DEF WritePid, TypeOK, Forget
<1>12. CASE BuildManager(p)
    BY <1>12, Moves DEF BuildManager, TypeOK, Forget
<1>13. CASE Terminate(p)
    BY <1>13, Moves DEF Terminate, TypeOK, Forget
<1>14. CASE GraceOver(p)
    BY <1>14, Moves DEF GraceOver, TypeOK, Forget
<1>15. CASE CleanPid(p)
    BY <1>15, Moves DEF CleanPid, TypeOK, Forget
<1>16. CASE CleanSocket(p)
    BY <1>16, Moves DEF CleanSocket, TypeOK, Forget
<1>17. CASE Crash(p)
    BY <1>17, Moves DEF Crash, TypeOK, Forget
<1> QED BY <1>1, <1>2, <1>3, <1>4, <1>5, <1>6, <1>7, <1>8,
           <1>9, <1>10, <1>11, <1>12, <1>13, <1>14, <1>15, <1>16, <1>17 DEF Move

(* The variables keep their ranges. *)
LEMMA MovesInRange ==
    ASSUME TypeOK, NEW p \in Pids, NEW place, Goto(p, place),
           place \in {"off"} \cup Starting \cup Serving \cup Cleaning
    PROVE  pc' \in [Pids -> {"off"} \cup Starting \cup Serving \cup Cleaning]
BY DEF TypeOK, Goto

LEMMA TypeStep ==
    ASSUME TypeOK, (\E p \in Pids : Move(p)) \/ UNCHANGED pathVars, History
    PROVE  TypeOK'
<1> DEFINE PathTypes ==
        /\ pc \in [Pids -> {"off"} \cup Starting \cup Serving \cup Cleaning]
        /\ pid_file \in Pids \cup {Absent, Empty}
        /\ sock_file \in Pids \cup {Absent}
        /\ seen \in [Pids -> Pids]
        /\ starts \in Nat
<1>0. CASE UNCHANGED pathVars
    BY <1>0 DEF pathVars, History, TypeOK
<1>1. ASSUME NEW p \in Pids, Start(p) PROVE PathTypes'
    BY <1>1, MovesInRange DEF Start, Forget, TypeOK
<1>2. ASSUME NEW p \in Pids, LookForPid(p) PROVE PathTypes'
    BY <1>2, MovesInRange DEF LookForPid, Forget, TypeOK
<1>3. ASSUME NEW p \in Pids, ReadPid(p) PROVE PathTypes'
    BY <1>3, MovesInRange DEF ReadPid, Forget, TypeOK
<1>4. ASSUME NEW p \in Pids, Probe(p) PROVE PathTypes'
    BY <1>4, MovesInRange DEF Probe, Forget, TypeOK
<1>5. ASSUME NEW p \in Pids, RemoveStalePid(p) PROVE PathTypes'
    BY <1>5, MovesInRange DEF RemoveStalePid, Forget, TypeOK
<1>6. ASSUME NEW p \in Pids, LookForSocket(p) PROVE PathTypes'
    BY <1>6, MovesInRange DEF LookForSocket, Forget, TypeOK
<1>7. ASSUME NEW p \in Pids, RemoveOldSocket(p) PROVE PathTypes'
    BY <1>7, MovesInRange DEF RemoveOldSocket, Forget, TypeOK
<1>8. ASSUME NEW p \in Pids, BindSocket(p) PROVE PathTypes'
    BY <1>8, MovesInRange DEF BindSocket, Forget, TypeOK
<1>9. ASSUME NEW p \in Pids, SetMode(p) PROVE PathTypes'
    BY <1>9, MovesInRange DEF SetMode, Forget, TypeOK
<1>10. ASSUME NEW p \in Pids, TruncatePid(p) PROVE PathTypes'
    BY <1>10, MovesInRange DEF TruncatePid, Forget, TypeOK
<1>11. ASSUME NEW p \in Pids, WritePid(p) PROVE PathTypes'
    BY <1>11, MovesInRange DEF WritePid, Forget, TypeOK
<1>12. ASSUME NEW p \in Pids, BuildManager(p) PROVE PathTypes'
    BY <1>12, MovesInRange DEF BuildManager, Forget, TypeOK
<1>13. ASSUME NEW p \in Pids, Terminate(p) PROVE PathTypes'
    BY <1>13, MovesInRange DEF Terminate, Forget, TypeOK
<1>14. ASSUME NEW p \in Pids, GraceOver(p) PROVE PathTypes'
    BY <1>14, MovesInRange DEF GraceOver, Forget, TypeOK
<1>15. ASSUME NEW p \in Pids, CleanPid(p) PROVE PathTypes'
    BY <1>15, MovesInRange DEF CleanPid, Forget, TypeOK
<1>16. ASSUME NEW p \in Pids, CleanSocket(p) PROVE PathTypes'
    BY <1>16, MovesInRange DEF CleanSocket, Forget, TypeOK
<1>17. ASSUME NEW p \in Pids, Crash(p) PROVE PathTypes'
    BY <1>17, MovesInRange DEF Crash, Forget, TypeOK
<1> HIDE DEF PathTypes
<1>18. ASSUME NEW p \in Pids, Move(p) PROVE PathTypes'
    BY <1>18, <1>1, <1>2, <1>3, <1>4, <1>5, <1>6, <1>7, <1>8,
           <1>9, <1>10, <1>11, <1>12, <1>13, <1>14, <1>15, <1>16, <1>17 DEF Move
<1>19. raced' \in BOOLEAN /\ overlapped' \in BOOLEAN
    BY DEF History, TypeOK
<1> QED BY <1>0, <1>18, <1>19 DEF PathTypes, TypeOK

(* Whoever claims the paths stays the only daemon until a race.  A start   *)
(* past its check may do what it likes to the PID file: nobody depends on  *)
(* it.                                                                     *)
LEMMA ClaimantMoves ==
    ASSUME TypeOK, OneClaim, OneClaim', PidFollows, NEW p \in Pids,
           pc[p] \in Past, pc'[p] \in Past \cup {"off"},
           \A q \in Pids \ {p} : pc'[q] = pc[q] /\ seen'[q] = seen[q],
           pc'[p] = "writing" => pid_file' = Empty,
           pc'[p] = "building" => pid_file' = p
    PROVE  PidFollows'
<1>1. Claims(p) /\ \A q \in Pids \ {p} : ~Claims(q)
    BY DEF Claims, OneClaim
<1>2. \A q \in Pids \ {p} : pc'[q] \notin Serving \cup Past \cup {"removing_pid"}
    BY <1>1 DEF PidFollows, NoneElse, Claims
<1> QED BY <1>2 DEF PidFollows, NoneElse

(* A process that begins or ends leaves the PID file to whom it names.     *)
LEMMA EndsMove ==
    ASSUME TypeOK, OneClaim, PidFollows, NEW p \in Pids,
           pc'[p] \in {"off", "looking"}, pid_file' = pid_file,
           \A q \in Pids \ {p} : pc'[q] = pc[q] /\ seen'[q] = seen[q]
    PROVE  PidFollows'
<1>1. ASSUME NEW q \in Pids
      PROVE  /\ pc'[q] \in Serving \cup {"removing_pid", "building"} => pid_file' = q
             /\ pc'[q] = "writing" => pid_file' = Empty
    BY <1>1 DEF PidFollows
<1>2. ASSUME NEW q \in Pids, Claims(q)', NEW r \in Pids \ {q},
             pc'[r] \in Serving \cup {"removing_pid"}
      PROVE  FALSE
    <2>1. /\ q # p /\ r # p
          /\ pc'[q] = pc[q] /\ pc'[r] = pc[r] /\ seen'[q] = seen[q]
        BY <1>2 DEF Claims
    <2>2. pid_file = r
        BY <1>2, <2>1 DEF PidFollows
    <2>3. seen[q] \in Pids /\ (seen[q] = r => is_process_alive(r)')
        BY <1>2, <2>1 DEF TypeOK, is_process_alive
    <2>4. Claims(q)
        BY <1>2, <2>1, <2>2, <2>3 DEF Claims
    <2> QED BY <1>2, <2>1, <2>4 DEF PidFollows, NoneElse
<1> QED BY <1>1, <1>2 DEF PidFollows, NoneElse

LEMMA PidStep ==
    ASSUME PidInv, (\E p \in Pids : Move(p)) \/ UNCHANGED pathVars, History, ~raced'
    PROVE  OneClaim' /\ PidFollows'
<1>a. TypeOK /\ OneClaim /\ PidFollows /\ OneClaim'
    BY DEF PidInv, History
<1>0. CASE UNCHANGED pathVars
    BY <1>a, <1>0 DEF pathVars, PidFollows, NoneElse, Claims, is_process_alive
<1>1. ASSUME NEW p \in Pids,
             LookForSocket(p) \/ RemoveOldSocket(p) \/ BindSocket(p) \/ SetMode(p)
      PROVE  PidFollows'
    <2>1. Move(p) /\ pc[p] \in Past
        BY <1>1 DEF LookForSocket, RemoveOldSocket, BindSocket, SetMode, Move
    <2>2. pc'[p] \in {"off", "opening"} \cup Binding
        BY <1>1, <1>a, Moves DEF LookForSocket, RemoveOldSocket, BindSocket, SetMode
    <2> QED BY <1>a, <2>1, <2>2, OthersStay, ClaimantMoves
<1>2. ASSUME NEW p \in Pids, RemoveStalePid(p) \/ TruncatePid(p) \/ WritePid(p)
      PROVE  PidFollows'
    <2>1. Move(p) /\ pc[p] \in Past
        BY <1>2 DEF RemoveStalePid, TruncatePid, WritePid, Move
    <2>2. \/ pc'[p] = "seeking"
          \/ pc'[p] = "writing" /\ pid_file' = Empty
          \/ pc'[p] = "building" /\ pid_file' = p
        BY <1>2, <1>a, Moves, LifecycleConstants
           DEF RemoveStalePid, TruncatePid, WritePid, PidFollows
    <2> QED BY <1>a, <2>1, <2>2, OthersStay, ClaimantMoves
<1>3. ASSUME NEW p \in Pids, BuildManager(p) PROVE PidFollows'
    <2>1. /\ Move(p) /\ pc[p] = "building" /\ Claims(p)
          /\ pid_file' = pid_file /\ pid_file = p /\ seen' = seen
        BY <1>3, <1>a DEF BuildManager, Move, Claims, PidFollows
    <2>2. pc'[p] \in {"serving", "off"}
        BY <1>3, <1>a, Moves DEF BuildManager
    <2>3. CASE pc'[p] = "off"
        BY <1>a, <2>1, <2>3, OthersStay, ClaimantMoves
    <2>4. CASE pc'[p] = "serving"
        <3>1. \A q \in Pids \ {p} : pc'[q] = pc[q]
            BY <1>a, <2>1, OthersStay
        <3>2. \A q \in Pids \ {p} : ~Claims(q)
            BY <1>a, <2>1 DEF OneClaim
        <3>3. \A q \in Pids : ~Claims(q)'
            BY <1>a, <2>1, <2>4, <3>1, <3>2 DEF Claims, is_process_alive, TypeOK
        <3>4. \A q \in Pids \ {p} : pc'[q] \notin Serving \cup Past \cup {"removing_pid"}
            BY <1>a, <2>1, <3>1, <3>2 DEF PidFollows, NoneElse, Claims
        <3> QED BY <2>1, <3>3, <3>4, <2>4 DEF PidFollows, NoneElse
    <2> QED BY <2>2, <2>3, <2>4
<1>4. ASSUME NEW p \in Pids, Terminate(p) \/ GraceOver(p) PROVE PidFollows'
    <2>1. /\ Move(p) /\ pc[p] \in Serving
          /\ pid_file' = pid_file /\ pid_file = p /\ seen' = seen
        BY <1>4, <1>a DEF Terminate, GraceOver, Move, PidFollows
    <2>2. pc'[p] \in {"draining", "removing_pid"}
        BY <1>4, <1>a, Moves DEF Terminate, GraceOver
    <2>3. \A q \in Pids \ {p} : pc'[q] = pc[q]
        BY <1>a, <2>1, OthersStay
    <2>4. \A q \in Pids : Claims(q)' => Claims(q)
        BY <1>a, <2>1, <2>2, <2>3 DEF Claims, is_process_alive, TypeOK
    <2>5. \A q \in Pids \ {p} : ~Claims(q)
        BY <1>a, <2>1 DEF PidFollows, NoneElse
    <2> QED BY <1>a, <2>1, <2>2, <2>3, <2>4, <2>5 DEF PidFollows, NoneElse, Claims
<1>5. ASSUME NEW p \in Pids, CleanPid(p) PROVE PidFollows'
    <2>1. /\ Move(p) /\ pc[p] = "removing_pid" /\ pid_file = p
          /\ \A q \in Pids \ {p} : ~Claims(q)
        BY <1>5, <1>a DEF CleanPid, Move, PidFollows, NoneElse
    <2>2. pc'[p] = "removing_socket"
        BY <1>5, <1>a, Moves DEF CleanPid
    <2>3. \A q \in Pids \ {p} : pc'[q] = pc[q]
        BY <1>a, <2>1, OthersStay
    <2>4. \A q \in Pids \ {p} : pc[q] \notin Serving \cup Past \cup {"removing_pid"}
        BY <1>a, <2>1 DEF PidFollows, Claims
    <2> QED BY <2>2, <2>3, <2>4 DEF PidFollows, NoneElse
<1>6. ASSUME NEW p \in Pids, Start(p) \/ CleanSocket(p) \/ Crash(p) PROVE PidFollows'
    <2>1. Move(p) /\ pid_file' = pid_file
        BY <1>6 DEF Start, CleanSocket, Crash, Move
    <2>2. pc'[p] \in {"off", "looking"}
        BY <1>6, <1>a, Moves DEF Start, CleanSocket, Crash
    <2> QED BY <1>a, <2>1, <2>2, OthersStay, EndsMove
(* A start goes past its check when there is no file, and then no daemon.  *)
<1>7. ASSUME NEW p \in Pids, LookForPid(p) PROVE PidFollows'
    <2>1. /\ Move(p) /\ pc[p] = "looking"
          /\ pid_file' = pid_file /\ seen' = seen
        BY <1>7 DEF LookForPid, Move
    <2>2. pc'[p] = IF pid_file = Absent THEN "seeking" ELSE "reading"
        BY <1>7, <1>a, Moves DEF LookForPid
    <2>3. \A q \in Pids \ {p} : pc'[q] = pc[q]
        BY <1>a, <2>1, OthersStay
    <2>4. \A q \in Pids \ {p} : Claims(q)' => Claims(q)
        BY <1>a, <2>1, <2>2, <2>3 DEF Claims, is_process_alive, TypeOK
    <2>5. Claims(p)' => pid_file = Absent
        BY <2>2 DEF Claims
    <2>6. Claims(p)' => NoneElse(p, Serving \cup {"removing_pid"})'
        BY <1>a, <2>3, <2>5, LifecycleConstants DEF PidFollows, NoneElse
    <2> QED BY <1>a, <2>1, <2>2, <2>3, <2>4, <2>6 DEF PidFollows, NoneElse
<1>8. ASSUME NEW p \in Pids, ReadPid(p) PROVE PidFollows'
    <2>1. /\ Move(p) /\ pc[p] = "reading" /\ pid_file' = pid_file
        BY <1>8 DEF ReadPid, Move
    <2>2. \/ pc'[p] = "off"
          \/ pc'[p] = "probing" /\ seen'[p] = pid_file /\ pid_file \in Pids
        BY <1>8, <1>a, Moves DEF ReadPid, TypeOK
    <2>3. CASE pc'[p] = "off"
        BY <1>a, <2>1, <2>3, OthersStay, EndsMove
    <2>4. CASE pc'[p] = "probing" /\ seen'[p] = pid_file /\ pid_file \in Pids
        <3>1. \A q \in Pids \ {p} : pc'[q] = pc[q] /\ seen'[q] = seen[q]
            BY <1>a, <2>1, OthersStay
        <3>2. \A q \in Pids \ {p} : Claims(q)' => Claims(q)
            BY <1>a, <2>1, <2>4, <3>1 DEF Claims, is_process_alive, TypeOK
        <3>3. Claims(p)' => pc'[pid_file] = "off"
            BY <2>1, <2>4 DEF Claims, is_process_alive
        <3>4. Claims(p)' => NoneElse(p, Serving \cup {"removing_pid"})'
            BY <1>a, <2>4, <3>1, <3>3 DEF PidFollows, NoneElse
        <3> QED BY <1>a, <2>1, <2>4, <3>1, <3>2, <3>4 DEF PidFollows, NoneElse
    <2> QED BY <2>2, <2>3, <2>4
<1>9. ASSUME NEW p \in Pids, Probe(p) PROVE PidFollows'
    <2>1. Move(p) /\ pc[p] = "probing" /\ pid_file' = pid_file
        BY <1>9 DEF Probe, Move
    <2>2. pc'[p] = IF is_process_alive(seen[p]) THEN "off" ELSE "unlinking"
        BY <1>9, <1>a, Moves DEF Probe
    <2>3. CASE pc'[p] = "off"
        BY <1>a, <2>1, <2>3, OthersStay, EndsMove
    <2>4. CASE pc'[p] = "unlinking"
        <3>1. Claims(p) /\ \A q \in Pids \ {p} : ~Claims(q)
            BY <1>a, <2>1, <2>2, <2>4 DEF Claims, OneClaim
        <3>2. \A q \in Pids \ {p} : pc'[q] = pc[q]
            BY <1>a, <2>1, OthersStay
        <3>3. \A q \in Pids \ {p} : pc'[q] \notin Serving \cup Past \cup {"removing_pid"}
            BY <1>a, <3>1, <3>2 DEF PidFollows, NoneElse, Claims
        <3> QED BY <2>4, <3>3 DEF PidFollows, NoneElse
    <2> QED BY <2>2, <2>3, <2>4
<1> QED BY <1>a, <1>0, <1>1, <1>2, <1>3, <1>4, <1>5, <1>6, <1>7, <1>8, <1>9 DEF Move

LEMMA PidInvStep ==
    ASSUME PidInv, (\E p \in Pids : Move(p)) \/ UNCHANGED pathVars, History
    PROVE  PidInv'
BY TypeStep, PidStep DEF PidInv

(* PidInv is invariant, however starts, cleanups and crashes overlap.      *)
THEOREM PidInvariance == Spec => []PidInv
<1>1. Init => PidInv
    <2> SUFFICES ASSUME Init PROVE PidInv
        OBVIOUS
    <2>1. \A p \in Pids : pc[p] = "off" /\ ~Claims(p)
        BY DEF Init, Claims
    <2>2. TypeOK
        BY DEF Init, TypeOK
    <2> QED BY <2>1, <2>2 DEF PidInv, OneClaim, PidFollows
<1>2. PidInv /\ [Next]_vars => PidInv'
    <2> SUFFICES ASSUME PidInv, [Next]_vars PROVE PidInv'
        OBVIOUS
    <2>1. CASE UNCHANGED vars
        BY <2>1 DEF vars, pathVars, PidInv, TypeOK, OneClaim, Claims, is_process_alive,
                    PidFollows, NoneElse
    <2> QED BY <2>1, PidInvStep DEF Next
<1> QED BY <1>1, <1>2, PTL DEF Spec

(* A start never succeeds next to a daemon that serves, whatever crashes   *)
(* and whichever pids are used again, until two starts meet past the check. *)
THEOREM NoSecondDaemon == Spec => []OneDaemonUnlessRaced
<1>1. PidInv => OneDaemonUnlessRaced
    BY DEF PidInv, PidFollows, OneDaemonUnlessRaced, OneDaemon
<1> QED BY <1>1, PidInvariance, PTL

(* Until then the PID file names the daemon that serves or drains.         *)
THEOREM DaemonIsNamed == Spec => []PidNamesDaemon
<1>1. PidInv => PidNamesDaemon
    BY DEF PidInv, PidFollows, PidNamesDaemon
<1> QED BY <1>1, PidInvariance, PTL

-----------------------------------------------------------------------------
(* Who comes to clean up or to serve was about to. *)
LEMMA Arrivals ==
    ASSUME TypeOK, NEW p \in Pids, Move(p)
    PROVE  /\ pc'[p] = "removing_socket" => pc[p] = "removing_pid"
           /\ pc'[p] \in Serving => pc[p] \in Serving \cup {"building"}
<1>1. CASE Start(p)
    BY <1>1, Moves DEF Start
<1>2. CASE LookForPid(p)
    BY <1>2, Moves DEF LookForPid
<1>3. CASE ReadPid(p)
    BY <1>3, Moves DEF ReadPid
<1>4. CASE Probe(p)
    BY <1>4, Moves DEF Probe
<1>5. CASE RemoveStalePid(p)
    BY <1>5, Moves DEF RemoveStalePid
<1>6. CASE LookForSocket(p)
    BY <1>6, Moves DEF LookForSocket
<1>7. CASE RemoveOldSocket(p)
    BY <1>7, Moves DEF RemoveOldSocket
<1>8. CASE BindSocket(p)
    BY <1>8, Moves DEF BindSocket
<1>9. CASE SetMode(p)
    BY <1>9, Moves DEF SetMode
<1>10. CASE TruncatePid(p)
    BY <1>10, Moves DEF TruncatePid
<1>11. CASE WritePid(p)
    BY <1>11, Moves DEF WritePid
<1>12. CASE BuildManager(p)
    BY <1>12, Moves DEF BuildManager
<1>13. CASE Terminate(p)
    BY <1>13, Moves DEF Terminate
<1>14. CASE GraceOver(p)
    BY <1>14, Moves DEF GraceOver
<1>15. CASE CleanPid(p)
    BY <1>15, Moves DEF CleanPid
<1>16. CASE CleanSocket(p)
    BY <1>16, Moves DEF CleanSocket
<1>17. CASE Crash(p)
    BY <1>17, Moves DEF Crash
<1> QED BY <1>1, <1>2, <1>3, <1>4, <1>5, <1>6, <1>7, <1>8,
           <1>9, <1>10, <1>11, <1>12, <1>13, <1>14, <1>15, <1>16, <1>17 DEF Move

LEMMA ApartStep ==
    ASSUME PidInv, CleanupApart, ~raced, (\E p \in Pids : Move(p)), ~Meeting'
    PROVE  CleanupApart'
<1> SUFFICES ASSUME NEW p \in Pids, NEW q \in Pids \ {p}, pc'[p] = "removing_socket",
                    pc'[q] \in Past \cup Serving
             PROVE  FALSE
    BY DEF CleanupApart, NoneElse
<1>1. pc'[q] \in Serving
    BY DEF Meeting
<1>2. pc[p] \in {"removing_pid", "removing_socket"}
    BY Arrivals, OthersStay DEF PidInv
<1>3. pc[q] \in Serving \cup {"building"}
    BY <1>1, Arrivals, OthersStay DEF PidInv
<1>4. CASE pc[p] = "removing_socket"
    BY <1>3, <1>4 DEF CleanupApart, NoneElse
<1>5. CASE pc[p] = "removing_pid"
    BY <1>3, <1>5 DEF PidInv, PidFollows
<1> QED BY <1>2, <1>4, <1>5

(* The owner of the socket path stays in its place, unless this very step  *)
(* brings a start and a cleanup together.                                  *)
LEMMA SocketStep ==
    ASSUME PidInv, SocketInv, (\E p \in Pids : Move(p)) \/ UNCHANGED pathVars, History,
           ~raced', ~overlapped'
    PROVE  CleanupApart' /\ SocketFollows'
<1>a. /\ ~raced /\ ~Meeting' /\ TypeOK
      /\ OneClaim /\ PidFollows /\ CleanupApart /\ SocketFollows
    BY DEF PidInv, SocketInv, History
<1>0. CASE UNCHANGED pathVars
    BY <1>a, <1>0 DEF pathVars, CleanupApart, SocketFollows, NoneElse
<1> DEFINE Owning == {"setting_mode"} \cup Writing \cup Serving
<1>1. ASSUME NEW p \in Pids, Move(p), sock_file' = sock_file,
             pc'[p] \in Owning => pc[p] \in Owning
      PROVE  SocketFollows'
    BY <1>a, <1>1, OthersStay DEF SocketFollows
<1>2. ASSUME NEW p \in Pids, RemoveOldSocket(p) \/ BindSocket(p) PROVE SocketFollows'
    <2>1. Move(p) /\ Claims(p)
        BY <1>2 DEF RemoveOldSocket, BindSocket, Move, Claims
    <2>2. pc'[p] \in Owning => sock_file' = p
        BY <1>2, <1>a, Moves DEF RemoveOldSocket, BindSocket
    <2>3. \A q \in Pids \ {p} : pc[q] \notin Owning
        BY <1>a, <2>1 DEF OneClaim, Claims, PidFollows, NoneElse
    <2> QED BY <1>a, <2>1, <2>2, <2>3, OthersStay DEF SocketFollows
<1>3. ASSUME NEW p \in Pids, CleanSocket(p) PROVE SocketFollows'
    <2>1. Move(p) /\ pc[p] = "removing_socket"
        BY <1>3 DEF CleanSocket, Move
    <2>2. pc'[p] = "off"
        BY <1>3, <1>a, Moves DEF CleanSocket
    <2>3. \A q \in Pids \ {p} : pc[q] \notin Owning
        BY <1>a, <2>1 DEF CleanupApart, NoneElse
    <2> QED BY <1>a, <2>1, <2>2, <2>3, OthersStay DEF SocketFollows
<1>4. ASSUME NEW p \in Pids, Start(p) PROVE SocketFollows'
    BY <1>4, <1>a, <1>1, Moves DEF Start, Move
<1>5. ASSUME NEW p \in Pids, LookForPid(p) PROVE SocketFollows'
    BY <1>5, <1>a, <1>1, Moves DEF LookForPid, Move
<1>6. ASSUME NEW p \in Pids, ReadPid(p) PROVE SocketFollows'
    BY <1>6, <1>a, <1>1, Moves DEF ReadPid, Move
<1>7. ASSUME NEW p \in Pids, Probe(p) PROVE SocketFollows'
    BY <1>7, <1>a, <1>1, Moves DEF Probe, Move
<1>8. ASSUME NEW p \in Pids, RemoveStalePid(p) PROVE SocketFollows'
    BY <1>8, <1>a, <1>1, Moves DEF RemoveStalePid, Move
<1>9. ASSUME NEW p \in Pids, LookForSocket(p) PROVE SocketFollows'
    BY <1>9, <1>a, <1>1, Moves DEF LookForSocket, Move
<1>10. ASSUME NEW p \in Pids, SetMode(p) PROVE SocketFollows'
    BY <1>10, <1>a, <1>1, Moves DEF SetMode, Move
<1>11. ASSUME NEW p \in Pids, TruncatePid(p) PROVE SocketFollows'
    BY <1>11, <1>a, <1>1, Moves DEF TruncatePid, Move
<1>12. ASSUME NEW p \in Pids, WritePid(p) PROVE SocketFollows'
    BY <1>12, <1>a, <1>1, Moves DEF WritePid, Move
<1>13. ASSUME NEW p \in Pids, BuildManager(p) PROVE SocketFollows'
    BY <1>13, <1>a, <1>1, Moves DEF BuildManager, Move
<1>14. ASSUME NEW p \in Pids, Terminate(p) PROVE SocketFollows'
    BY <1>14, <1>a, <1>1, Moves DEF Terminate, Move
<1>15. ASSUME NEW p \in Pids, GraceOver(p) PROVE SocketFollows'
    BY <1>15, <1>a, <1>1, Moves DEF GraceOver, Move
<1>16. ASSUME NEW p \in Pids, CleanPid(p) PROVE SocketFollows'
    BY <1>16, <1>a, <1>1, Moves DEF CleanPid, Move
<1>17. ASSUME NEW p \in Pids, Crash(p) PROVE SocketFollows'
    BY <1>17, <1>a, <1>1, Moves DEF Crash, Move
<1>18. ASSUME NEW p \in Pids, Move(p) PROVE SocketFollows'
    BY <1>18, <1>2, <1>3, <1>4, <1>5, <1>6, <1>7, <1>8, <1>9,
           <1>10, <1>11, <1>12, <1>13, <1>14, <1>15, <1>16, <1>17 DEF Move
<1> QED BY <1>a, <1>0, <1>18, ApartStep

-----------------------------------------------------------------------------
(* Stop commands and what they do to the daemons. *)

(* A step of StopCommand is a step of the daemons, or leaves them alone.   *)
LEMMA StopStep ==
    ASSUME StopTypes, StopNext
    PROVE  /\ (\E p \in Pids : Move(p)) \/ UNCHANGED pathVars
           /\ History
<1>1. ASSUME NEW u \in Commands, Signals(u)
      PROVE  (\E p \in Pids : Move(p)) \/ UNCHANGED pathVars
    <2>1. stop[u].pid \in Pids
        BY <1>1 DEF StopTypes, Signals
    <2> QED BY <1>1, <2>1 DEF Signals, Move
<1>2. ASSUME NEW u \in Commands,
             ReadsPidFile(u) \/ Verifies(u) \/ SeesSocketGone(u) \/ GivesUp(u)
      PROVE  UNCHANGED pathVars
    BY <1>2 DEF ReadsPidFile, Verifies, SeesSocketGone, GivesUp
<1>3. ASSUME NEW p \in Pids,
             Starts(p) \/ StartsUp(p) \/ Interrupted(p) \/ HandlesSigterm(p)
             \/ ShutsDown(p) \/ Crashes(p)
      PROVE  (\E q \in Pids : Move(q)) \/ UNCHANGED pathVars
    BY <1>3 DEF Starts, StartsUp, Interrupted, HandlesSigterm, ShutsDown, Crashes, Move
<1> QED BY <1>1, <1>2, <1>3 DEF StopNext

(* The bookkeeping of the commands keeps its range. *)
LEMMA StopTypeStep ==
    ASSUME TypeOK, StopTypes, StopNext
    PROVE  StopTypes'
<1>2. ASSUME NEW u \in Commands, ReadsPidFile(u) PROVE StopTypes'
    BY <1>2 DEF ReadsPidFile, EndStop, StopTypes
<1>3. ASSUME NEW u \in Commands, Verifies(u) PROVE StopTypes'
    BY <1>3 DEF Verifies, EndStop, StopTypes
<1>4. ASSUME NEW u \in Commands, Signals(u) PROVE StopTypes'
    <2>1. stop[u].pid \in Pids
        BY <1>4 DEF Signals, StopTypes
    <2>2. born[stop[u].pid] \in Nat
        BY <2>1 DEF StopTypes
    <2> QED BY <1>4, <2>1, <2>2 DEF Signals, EndStop, StopTypes
<1>5. ASSUME NEW u \in Commands, SeesSocketGone(u) \/ GivesUp(u) PROVE StopTypes'
    BY <1>5 DEF SeesSocketGone, GivesUp, EndStop, StopTypes
<1>6. ASSUME NEW p \in Pids, Starts(p) PROVE StopTypes'
    BY <1>6 DEF Starts, Start, TypeOK, StopTypes
<1>7. ASSUME NEW p \in Pids,
             StartsUp(p) \/ Interrupted(p) \/ HandlesSigterm(p) \/ ShutsDown(p) \/ Crashes(p)
      PROVE  StopTypes'
    BY <1>7 DEF StartsUp, Interrupted, HandlesSigterm, ShutsDown, Crashes, StopTypes
<1> QED BY <1>2, <1>3, <1>4, <1>5, <1>6, <1>7 DEF StopNext

(* The steps of the daemons that begin no start: nobody comes to start, or *)
(* gets as far as its handlers, who was not starting or serving.           *)
Older(p) ==
    /\ pc'[p] \in Starting \ {"building"} => pc[p] \in Starting \ {"building"}
    /\ pc'[p] \in {"building"} \cup Serving => pc[p] \in Starting \cup Serving

LEMMA NobodyStarts ==
    ASSUME TypeOK, NEW p \in Pids,
           StartsUp(p) \/ Terminate(p) \/ ShutsDown(p) \/ Crash(p)
    PROVE  starts' = starts /\ \A q \in Pids : Older(q)
<1>1. CASE StartsUp(p)
    BY <1>1, Moves DEF StartsUp, LookForPid, ReadPid, Probe, RemoveStalePid, LookForSocket,
       RemoveOldSocket, BindSocket, SetMode, TruncatePid, WritePid, BuildManager, Older
<1>2. CASE Terminate(p)
    BY <1>2, Moves DEF Terminate, Older
<1>3. CASE ShutsDown(p)
    BY <1>3, Moves DEF ShutsDown, GraceOver, CleanPid, CleanSocket, Older
<1>4. CASE Crash(p)
    BY <1>4, Moves DEF Crash, Older
<1> QED BY <1>1, <1>2, <1>3, <1>4

(* What a step does to a process: it is the same one and no younger than   *)
(* it was, or it is a new one with a number nobody had.                    *)
LEMMA Aging ==
    ASSUME TypeOK, StopTypes, StopNext
    PROVE  \A q \in Pids :
              \/ starts' = starts /\ born'[q] = born[q] /\ Older(q)
              \/ starts' = starts + 1 /\ born'[q] = born[q] /\ Older(q)
              \/ starts' = starts + 1 /\ born'[q] = starts + 1 /\ pc'[q] \notin {"building"} \cup Serving
<1>1. ASSUME NEW p \in Pids, Starts(p)
      PROVE  \A q \in Pids :
                \/ starts' = starts + 1 /\ born'[q] = born[q] /\ Older(q)
                \/ starts' = starts + 1 /\ born'[q] = starts + 1 /\ pc'[q] \notin {"building"} \cup Serving
    <2>1. /\ starts' = starts + 1
          /\ born'[p] = starts + 1
          /\ \A q \in Pids \ {p} : born'[q] = born[q]
        BY <1>1 DEF Starts, Start, StopTypes
    <2>2. pc'[p] \notin {"building"} \cup Serving /\ \A q \in Pids \ {p} : Older(q)
        BY <1>1, Moves DEF Starts, Start, Older
    <2> QED BY <2>1, <2>2
<1>2. ASSUME NEW p \in Pids,
             StartsUp(p) \/ Interrupted(p) \/ HandlesSigterm(p) \/ ShutsDown(p) \/ Crashes(p)
      PROVE  starts' = starts /\ born' = born /\ \A q \in Pids : Older(q)
    <2>1. CASE Interrupted(p)
        BY <2>1 DEF Interrupted, pathVars, Older
    <2> QED BY <1>2, <2>1, NobodyStarts
            DEF StartsUp, HandlesSigterm, ShutsDown, Crashes
<1>3. ASSUME NEW u \in Commands,
             ReadsPidFile(u) \/ Verifies(u) \/ SeesSocketGone(u) \/ GivesUp(u)
      PROVE  starts' = starts /\ born' = born /\ \A q \in Pids : Older(q)
    BY <1>3 DEF ReadsPidFile, Verifies, SeesSocketGone, GivesUp, pathVars, Older
<1>4. ASSUME NEW u \in Commands, Signals(u)
      PROVE  starts' = starts /\ born' = born /\ \A q \in Pids : Older(q)
    <2>1. stop[u].pid \in Pids /\ born' = born /\ (UNCHANGED pathVars \/ Crash(stop[u].pid))
        BY <1>4 DEF Signals, StopTypes
    <2>2. CASE UNCHANGED pathVars
        BY <2>1, <2>2 DEF pathVars, Older
    <2> QED BY <2>1, <2>2, NobodyStarts
<1> QED BY <1>1, <1>2, <1>3, <1>4 DEF StopNext

(* What a step does to a command. *)
LEMMA CommandMoves ==
    ASSUME TypeOK, StopTypes, StopNext, NEW u \in Commands
    PROVE  \/ stop'[u] = stop[u]
           \/ ~Waited(u)'
           \/ /\ Waited(u) /\ SeesSocketGone(u)
              /\ stop'[u].pid = stop[u].pid /\ stop'[u].born = stop[u].born
           \/ /\ stop'[u].pid \in Pids /\ stop'[u].born = born[stop'[u].pid]
              /\ pc'[stop'[u].pid] \notin Starting \ {"building"}
              /\ stop'[u].outcome = "none"
              /\ starts' = starts /\ born' = born
<1>1. ASSUME NEW v \in Commands, v # u,
             ReadsPidFile(v) \/ Verifies(v) \/ Signals(v) \/ SeesSocketGone(v) \/ GivesUp(v)
      PROVE  stop'[u] = stop[u]
    BY <1>1 DEF ReadsPidFile, Verifies, Signals, SeesSocketGone, GivesUp, EndStop, StopTypes
<1>2. ASSUME NEW p \in Pids,
             Starts(p) \/ StartsUp(p) \/ Interrupted(p) \/ HandlesSigterm(p)
             \/ ShutsDown(p) \/ Crashes(p)
      PROVE  stop'[u] = stop[u]
    BY <1>2 DEF Starts, StartsUp, Interrupted, HandlesSigterm, ShutsDown, Crashes
<1>3. ASSUME ReadsPidFile(u) \/ Verifies(u) \/ GivesUp(u) PROVE ~Waited(u)'
    BY <1>3 DEF ReadsPidFile, Verifies, GivesUp, EndStop, StopTypes, Waited
<1>4. ASSUME SeesSocketGone(u)
      PROVE  /\ Waited(u)
             /\ stop'[u].pid = stop[u].pid /\ stop'[u].born = stop[u].born
    BY <1>4 DEF SeesSocketGone, EndStop, StopTypes, Waited
<1>5. ASSUME Signals(u), pc[stop[u].pid] = "off" PROVE ~Waited(u)'
    BY <1>5 DEF Signals, EndStop, StopTypes, Waited
<1>6. ASSUME Signals(u), pc[stop[u].pid] # "off"
      PROVE  /\ stop'[u].pid \in Pids /\ stop'[u].born = born[stop'[u].pid]
             /\ pc'[stop'[u].pid] \notin Starting \ {"building"}
             /\ stop'[u].outcome = "none"
             /\ starts' = starts /\ born' = born
    <2> DEFINE p == stop[u].pid
    <2>1. /\ p \in Pids /\ born' = born
          /\ stop'[u].pid = p /\ stop'[u].born = born[p] /\ stop'[u].outcome = "none"
        BY <1>6 DEF Signals, StopTypes
    <2>2. \/ Crash(p)
          \/ pc[p] \in {"building"} \cup Cleaning \cup Serving /\ UNCHANGED pathVars
        BY <1>6 DEF Signals, Catching
    <2>3. CASE Crash(p)
        <3>1. pc'[p] = "off" /\ starts' = starts
            BY <2>1, <2>3, Moves DEF Crash
        <3> QED BY <2>1, <3>1
    <2>4. CASE pc[p] \in {"building"} \cup Cleaning \cup Serving /\ UNCHANGED pathVars
        <3>1. pc'[p] \in {"building"} \cup Cleaning \cup Serving /\ starts' = starts
            BY <2>4 DEF pathVars
        <3> QED BY <2>1, <3>1
    <2> QED BY <2>2, <2>3, <2>4
<1> QED BY <1>1, <1>2, <1>3, <1>4, <1>5, <1>6 DEF StopNext

LEMMA OldStep ==
    ASSUME TypeOK, StopTypes, SignalledIsOld, StopNext
    PROVE  SignalledIsOld'
<1>1. starts \in Nat /\ \A p \in Pids : born[p] \in Nat
    BY DEF TypeOK, StopTypes
<1>2. ASSUME NEW p \in Pids PROVE born'[p] <= starts'
    BY <1>1, Aging DEF SignalledIsOld
<1>3. ASSUME NEW u \in Commands, Waited(u)'
      PROVE  /\ stop'[u].pid \in Pids
             /\ stop'[u].born <= starts'
             /\ pc'[stop'[u].pid] \in Starting \ {"building"} => born'[stop'[u].pid] # stop'[u].born
    <2>1. stop[u].born \in Nat
        BY DEF StopTypes
    <2>2. CASE /\ Waited(u)
               /\ stop'[u].pid = stop[u].pid /\ stop'[u].born = stop[u].born
        BY <1>1, <2>1, <2>2, Aging DEF SignalledIsOld, Older
    <2>3. CASE /\ stop'[u].pid \in Pids /\ stop'[u].born = born[stop'[u].pid]
               /\ pc'[stop'[u].pid] \notin Starting \ {"building"}
               /\ starts' = starts /\ born' = born
        BY <2>3 DEF SignalledIsOld
    <2>4. CASE stop'[u] = stop[u]
        BY <1>3, <2>2, <2>4 DEF Waited
    <2> QED BY <1>3, <2>2, <2>3, <2>4, CommandMoves
<1> QED BY <1>2, <1>3 DEF SignalledIsOld

LEMMA TruthStep ==
    ASSUME TypeOK, StopTypes, SignalledIsOld, SocketInv, StopIsTrue, StopNext
    PROVE  StopIsTrue'
<1> SUFFICES ASSUME ~raced', ~overlapped', NEW u \in Commands, stop'[u].outcome = "stopped",
                    pc'[stop'[u].pid] \in {"building"} \cup Serving,
                    born'[stop'[u].pid] = stop'[u].born
             PROVE  FALSE
    BY DEF StopIsTrue
<1>1. ~raced /\ ~overlapped
    BY DEF StopNext, History
<1>2. CASE stop'[u] = stop[u]
    <2>1. /\ stop[u].pid \in Pids /\ stop[u].born \in Nat /\ starts \in Nat
          /\ stop[u].born <= starts
          /\ pc[stop[u].pid] \in Starting \ {"building"} =>
                 born[stop[u].pid] # stop[u].born
        BY <1>2 DEF SignalledIsOld, Waited, StopTypes, TypeOK
    <2>2. pc[stop[u].pid] \notin Starting \cup Serving \/ born[stop[u].pid] # stop[u].born
        BY <1>1, <1>2, <2>1 DEF StopIsTrue
    <2> QED BY <1>2, <2>1, <2>2, Aging DEF Older
<1>3. CASE SeesSocketGone(u) /\ Waited(u) /\ stop'[u].pid = stop[u].pid
    <2>1. sock_file = Absent /\ UNCHANGED pathVars
        BY <1>3 DEF SeesSocketGone
    <2>2. stop[u].pid \in Pids /\ pc[stop[u].pid] \in {"building"} \cup Serving
        BY <1>3, <2>1 DEF SignalledIsOld, pathVars
    <2>3. sock_file = stop[u].pid
        BY <1>1, <2>2 DEF SocketInv, SocketFollows
    <2> QED BY <2>1, <2>2, <2>3, LifecycleConstants
<1> QED BY <1>2, <1>3, CommandMoves DEF Waited

(* StopInv is invariant, however starts, stops and crashes overlap.        *)
THEOREM StopInvariance == StopSpec => []StopInv
<1>1. StopInit => StopInv
    <2> SUFFICES ASSUME StopInit PROVE StopInv
        OBVIOUS
    <2>1. PidInv /\ SocketInv
        BY DEF StopInit, Init, SocketInv, PidInv, TypeOK, OneClaim, Claims, PidFollows,
               NoneElse, CleanupApart, SocketFollows
    <2>2. StopTypes
        BY DEF StopInit, StopTypes
    <2>3. SignalledIsOld
        BY DEF StopInit, Init, SignalledIsOld, Waited
    <2>4. StopIsTrue
        BY DEF StopInit, StopIsTrue
    <2> QED BY <2>1, <2>2, <2>3, <2>4 DEF StopInv
<1>2. StopInv /\ [StopNext]_<<vars, stopVars>> => StopInv'
    <2> SUFFICES ASSUME StopInv, [StopNext]_<<vars, stopVars>> PROVE StopInv'
        OBVIOUS
    <2>1. CASE UNCHANGED <<vars, stopVars>>
        <3> USE <2>1 DEF vars, pathVars, stopVars, StopInv
        <3>1. PidInv'
            BY DEF PidInv, TypeOK, OneClaim, Claims, is_process_alive, PidFollows, NoneElse
        <3>2. SocketInv'
            BY DEF SocketInv, CleanupApart, SocketFollows, NoneElse
        <3>3. StopTypes' /\ SignalledIsOld' /\ StopIsTrue'
            BY DEF StopTypes, SignalledIsOld, Waited, StopIsTrue
        <3> QED BY <3>1, <3>2, <3>3
    <2>2. CASE StopNext
        <3>1. /\ TypeOK /\ StopTypes /\ PidInv /\ SocketInv
              /\ (\E p \in Pids : Move(p)) \/ UNCHANGED pathVars
              /\ History
            BY <2>2, StopStep DEF StopInv, PidInv
        <3>2. PidInv'
            BY <3>1, PidInvStep
        <3>3. SocketInv'
            BY <3>1, SocketStep DEF SocketInv
        <3>4. StopTypes' /\ SignalledIsOld' /\ StopIsTrue'
            BY <2>2, <3>1, StopTypeStep, OldStep, TruthStep DEF StopInv
        <3> QED BY <3>2, <3>3, <3>4 DEF StopInv
    <2> QED BY <2>1, <2>2
<1> QED BY <1>1, <1>2, PTL DEF StopSpec

(* No crash, refused start, pid used again or stop command cuts a serving  *)
(* daemon off from its socket: that takes two starts that meet, or a start *)
(* that meets a cleanup.                                                   *)
THEOREM DaemonStaysReachable == StopSpec => []ReachableUnlessOverlapped
<1>1. StopInv => ReachableUnlessOverlapped
    BY DEF StopInv, SocketInv, SocketFollows, ReachableUnlessOverlapped, ServingIsReachable
<1> QED BY <1>1, StopInvariance, PTL

(* "Daemon stopped successfully" is true, and stays true of the process    *)
(* that was signalled, under the same condition.                           *)
THEOREM StopReportsTruth == StopSpec => []StopIsTrue
<1>1. StopInv => StopIsTrue
    BY DEF StopInv
<1> QED BY <1>1, StopInvariance, PTL

-----------------------------------------------------------------------------
(* The accept loop: a reload reaches every connection but one. *)
LEMMA StaleStep ==
    ASSUME StaleInv, [LoopNext]_loopVars
    PROVE  StaleInv'
<1> USE DEF StaleInv, Versions, signalVars, connVars
<1>1. CASE UNCHANGED loopVars
    BY <1>1 DEF loopVars
<1>2. CASE EditConfig \/ SendHup \/ SendTerm
    BY <1>2 DEF EditConfig, SendHup, SendTerm
<1>3. CASE TakeHup \/ TakeTerm
    BY <1>3 DEF TakeHup, TakeTerm
(* Publication starts a new count. *)
<1>4. CASE Publish
    BY <1>4 DEF Publish
(* Reading brings the loop up to date. *)
<1>5. CASE ReadConfig
    BY <1>5 DEF ReadConfig
(* A stale connection is the first one, and sends the loop back to read. *)
<1>6. ASSUME NEW c \in Clients, Accept(c) PROVE StaleInv'
    <2>1. loop' = "reading" /\ stale' \in {stale, stale + 1}
        BY <1>6 DEF Accept
    <2>2. CASE stale = 0
        BY <1>6, <2>1, <2>2 DEF Accept
    <2>3. CASE current = config
        <3>1. ~(current < config)
            BY <2>3
        <3>2. stale' = stale
            BY <1>6, <3>1 DEF Accept
        <3> QED BY <1>6, <2>1, <3>2 DEF Accept
    <2> QED BY <1>6, <2>2, <2>3 DEF Accept
<1>7. CASE AcceptFails \/ Drain \/ GraceElapses
    BY <1>7 DEF AcceptFails, Drain, GraceElapses
<1>8. ASSUME NEW c \in Clients,
             Connect(c) \/ Send(c) \/ Respond(c) \/ Disconnect(c)
      PROVE  StaleInv'
    BY <1>8 DEF Connect, Send, Respond, Disconnect
<1> QED BY <1>1, <1>2, <1>3, <1>4, <1>5, <1>6, <1>7, <1>8 DEF LoopNext

(* At most one client per reload is served under the old settings.         *)
THEOREM ReloadReachesAllButOne == LoopSpec => []AtMostOneStale
<1>1. LoopInit => StaleInv
    BY DEF LoopInit, StaleInv, Versions, Built
<1>2. StaleInv => AtMostOneStale
    BY DEF StaleInv, AtMostOneStale
<1> QED BY <1>1, <1>2, StaleStep, PTL DEF LoopSpec
=============================================================================
