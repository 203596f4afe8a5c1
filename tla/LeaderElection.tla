--------------------------- MODULE LeaderElection ---------------------------
(***************************************************************************)
(* internal/store/leader.go: replicas elect the one that runs the          *)
(* background workers by a session scoped Postgres advisory lock.          *)
(*                                                                         *)
(* A replica keeps one connection of its own for the lock.  The network    *)
(* may cut it: the replica learns that at its next query, the database     *)
(* when it ends the session, in either order, and only the end of the      *)
(* session frees the lock.  A replica may crash and boot again, or shut    *)
(* down in order.                                                          *)
(***************************************************************************)
EXTENDS Naturals, FiniteSets

CONSTANTS
  Replicas,
  MaxFaults     (* bound: cut connections, crashes and shutdowns             *)

ASSUME FaultsAssumption == MaxFaults \in Nat

VARIABLES
  loop,       (* what the election of a replica is doing                     *)
  ending,     (* the context the replica serves under is cancelled           *)
  leader,     (* Election.leader                                             *)
  conn,       (* Election.conn                                               *)
  lock,       (* the database: which session holds the advisory lock         *)
  faults

electionVars == <<loop, ending, leader, conn, lock, faults>>

LoopStates == {"off", "polling", "losing", "closed"}
ConnStates == {"none", "open", "cut"}

(* The session behind a replica's current connection, and one whose        *)
(* connection the replica has already closed or lost with its process.     *)
Current(r) == <<r, "current">>
Orphan(r)  == <<r, "orphan">>
Free       == <<"nobody", "free">>

ElectionInit ==
  /\ loop = [r \in Replicas |-> "off"]
  /\ ending = [r \in Replicas |-> FALSE]
  /\ leader = [r \in Replicas |-> FALSE]
  /\ conn = [r \in Replicas |-> "none"]
  /\ lock = Free
  /\ faults = 0

Fault == faults < MaxFaults /\ faults' = faults + 1

(* closeConn gives an open connection back to the pool of the process and  *)
(* drops a cut one.  Either way the session, with a lock it holds, goes on *)
(* until the pool or the database ends it.                                 *)
LockAfterClose(r) == IF lock = Current(r) THEN Orphan(r) ELSE lock

CloseConn(r) ==
  /\ conn' = [conn EXCEPT ![r] = "none"]
  /\ lock' = LockAfterClose(r)

(***************************************************************************)
(* The poll loop.                                                          *)
(***************************************************************************)
(* A replica starts: on standby until its first attempt.                   *)
Boot(r) ==
  /\ loop[r] = "off"
  /\ loop' = [loop EXCEPT ![r] = "polling"]
  /\ ending' = [ending EXCEPT ![r] = FALSE]
  /\ UNCHANGED <<leader, conn, lock, faults>>

(* pg_try_advisory_lock on the session of r.                               *)
Granted(r) == lock \in {Free, Current(r)}

Attempts(r) == loop[r] = "polling" /\ ~leader[r] /\ ~ending[r]

(* Variant of Acquire that takes any answer for the lock.                  *)
AcquireAnyway(r) ==
  /\ Attempts(r)
  /\ conn[r] # "cut"
  /\ conn' = [conn EXCEPT ![r] = "open"]
  /\ lock' = IF Granted(r) THEN Current(r) ELSE lock
  /\ leader' = [leader EXCEPT ![r] = TRUE]
  /\ UNCHANGED <<loop, ending, faults>>

(* tryAcquire opens a session when there is none and gets the lock.        *)
Acquire(r) ==
  /\ Attempts(r)
  /\ conn[r] # "cut"
  /\ Granted(r)
  /\ conn' = [conn EXCEPT ![r] = "open"]
  /\ lock' = Current(r)
  /\ leader' = [leader EXCEPT ![r] = TRUE]
  /\ UNCHANGED <<loop, ending, faults>>

(* Another session holds the lock: the connection is kept.                 *)
Refused(r) ==
  /\ Attempts(r)
  /\ conn[r] # "cut"
  /\ ~Granted(r)
  /\ conn' = [conn EXCEPT ![r] = "open"]
  /\ UNCHANGED <<loop, ending, leader, lock, faults>>

(* The attempt fails on a cut connection.                                  *)
AttemptFails(r) ==
  /\ Attempts(r)
  /\ conn[r] = "cut"
  /\ CloseConn(r)
  /\ UNCHANGED <<loop, ending, leader, faults>>

(* The reply to a granted attempt is lost with the connection.             *)
ReplyLost(r) ==
  /\ Attempts(r)
  /\ conn[r] # "cut"
  /\ lock = Free
  /\ Fault
  /\ conn' = [conn EXCEPT ![r] = "none"]
  /\ lock' = Orphan(r)
  /\ UNCHANGED <<loop, ending, leader>>

(* Variant of LeadersAfterLoss that leaves IsLeader as it was.             *)
StillLeaders(r) == leader

(* setLeader(false).                                                       *)
LeadersAfterLoss(r) == [leader EXCEPT ![r] = FALSE]

(* Variant of StepDown that reconnects and goes on leading.                *)
Reconnect(r) ==
  /\ loop[r] = "polling" /\ leader[r]
  /\ conn[r] = "cut"
  /\ conn' = [conn EXCEPT ![r] = "open"]
  /\ lock' = LockAfterClose(r)
  /\ UNCHANGED <<loop, ending, leader, faults>>

(* stillHeld fails: the connection is closed and leadership dropped.  A    *)
(* query under the cancelled context of a replica that ends fails as well. *)
StepDown(r) ==
  /\ loop[r] = "polling" /\ leader[r]
  /\ conn[r] # "open" \/ ending[r]
  /\ CloseConn(r)
  /\ leader' = LeadersAfterLoss(r)
  /\ loop' = [loop EXCEPT ![r] = "losing"]
  /\ UNCHANGED <<ending, faults>>

(* OnLose returned.                                                        *)
LossHandled(r) ==
  /\ loop[r] = "losing"
  /\ loop' = [loop EXCEPT ![r] = "polling"]
  /\ UNCHANGED <<ending, leader, conn, lock, faults>>

(***************************************************************************)
(* Shutdown, crash and the network.                                        *)
(***************************************************************************)
(* The replica is told to end: the context of everything it runs is        *)
(* cancelled.                                                              *)
Cancelled(r) ==
  /\ loop[r] \in {"polling", "losing"} /\ ~ending[r]
  /\ Fault
  /\ ending' = [ending EXCEPT ![r] = TRUE]
  /\ UNCHANGED <<loop, leader, conn, lock>>

(* pg_advisory_unlock, by a leader whose connection is open.               *)
LockAfterUnlock(r) ==
  IF leader[r] /\ conn[r] = "open" /\ lock = Current(r) THEN Free ELSE LockAfterClose(r)

(* Stop: the loop has ended, a leader unlocks, the connection is closed.   *)
Stop(r) ==
  /\ loop[r] = "polling" /\ ending[r]
  /\ conn' = [conn EXCEPT ![r] = "none"]
  /\ lock' = LockAfterUnlock(r)
  /\ leader' = [leader EXCEPT ![r] = FALSE]
  /\ loop' = [loop EXCEPT ![r] = "closed"]
  /\ UNCHANGED <<ending, faults>>

Exit(r) ==
  /\ loop[r] = "closed"
  /\ loop' = [loop EXCEPT ![r] = "off"]
  /\ UNCHANGED <<ending, leader, conn, lock, faults>>

(* The process dies; the database need not hear of it.                     *)
Crash(r) ==
  /\ loop[r] # "off"
  /\ Fault
  /\ loop' = [loop EXCEPT ![r] = "off"]
  /\ leader' = [leader EXCEPT ![r] = FALSE]
  /\ conn' = [conn EXCEPT ![r] = "none"]
  /\ lock' = LockAfterClose(r)
  /\ UNCHANGED ending

(* The connection of r is cut.                                             *)
Cut(r) ==
  /\ conn[r] = "open"
  /\ Fault
  /\ conn' = [conn EXCEPT ![r] = "cut"]
  /\ UNCHANGED <<loop, ending, leader, lock>>

(* The pool, or the database once the client is gone, ends a session: only *)
(* now is the lock free.                                                   *)
SessionEnds(r) ==
  /\ lock = Orphan(r) \/ (lock = Current(r) /\ conn[r] # "open")
  /\ lock' = Free
  /\ UNCHANGED <<loop, ending, leader, conn, faults>>

ElectionStep(r) ==
  \/ Boot(r) \/ Acquire(r) \/ Refused(r) \/ AttemptFails(r) \/ ReplyLost(r)
  \/ StepDown(r) \/ LossHandled(r)
  \/ Cancelled(r) \/ Stop(r) \/ Exit(r) \/ Crash(r) \/ Cut(r) \/ SessionEnds(r)

ElectionNext == \E r \in Replicas : ElectionStep(r)

ElectionSpec == ElectionInit /\ [][ElectionNext]_electionVars

(***************************************************************************)
(* Properties.                                                             *)
(***************************************************************************)
Sessions == {Free} \cup {Current(r) : r \in Replicas} \cup {Orphan(r) : r \in Replicas}

(* Every variable has its type, and a replica leads only from within its   *)
(* poll loop and over a connection it has not closed.                      *)
ElectionTypeOK ==
  /\ loop \in [Replicas -> LoopStates]
  /\ ending \in [Replicas -> BOOLEAN]
  /\ leader \in [Replicas -> BOOLEAN]
  /\ conn \in [Replicas -> ConnStates]
  /\ lock \in Sessions
  /\ faults \in Nat
  /\ \A r \in Replicas : leader[r] => conn[r] # "none" /\ loop[r] = "polling"

(* A replica that leads over an open connection holds the lock (IsLeader,  *)
(* leader.go 87-92): the only leader that is wrong about it is one whose   *)
(* connection is gone and that has not polled since.                       *)
LeaderHoldsLock == \A r \in Replicas : leader[r] /\ conn[r] = "open" => lock = Current(r)

(* Two replicas never both lead over an open connection, whatever is cut,  *)
(* crashes or reconnects (leader.go, stillHeld: a partitioned pod stops    *)
(* acting as leader once it notices).                                      *)
OneConnectedLeader ==
  \A r, s \in Replicas :
     leader[r] /\ leader[s] /\ conn[r] = "open" /\ conn[s] = "open" => r = s
=============================================================================
