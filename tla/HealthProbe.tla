---------------------------- MODULE HealthProbe ----------------------------
(***************************************************************************)
(* The readiness probe of the database.  A check asks its own pool, which  *)
(* has room for one connection and no queue, and runs one query; a timer   *)
(* and the shutdown of the application may end it at any time, and the     *)
(* pool may call back long after that.  Callbacks run one at a time, but   *)
(* the "finally" of check() runs some turns of the microtask queue after   *)
(* the probe has finished.                                                 *)
(***************************************************************************)
EXTENDS Integers, FiniteSets

CONSTANTS
  Probes,      \* the calls of check()
  Connections, \* the connections the pool may ever open
  NoProbe, NoConnection

ASSUME ProbesAssumption == NoProbe \notin Probes /\ NoConnection \notin Connections

VARIABLES
  probeRunning,     \* whether a check is running
  shuttingDown,
  activeConnection, \* the connection the shutdown would destroy
  abortActiveProbe, \* the probe the shutdown would stop
  probeStage,       \* how far each check has come
  acquired,         \* the connection each probe has got
  lentTo,           \* the probe that uses each connection
  open,             \* the connections of the pool
  closed,           \* the connections that have been closed
  opening           \* the probe for which the pool opens a connection

pool == <<lentTo, open, closed, opening>>
probeVars == <<probeRunning, shuttingDown, activeConnection, abortActiveProbe,
               probeStage, acquired, pool>>

ProbeInit ==
  /\ probeRunning = FALSE /\ shuttingDown = FALSE
  /\ activeConnection = NoConnection /\ abortActiveProbe = NoProbe
  /\ probeStage = [p \in Probes |-> "new"]
  /\ acquired = [p \in Probes |-> NoConnection]
  /\ lentTo = [c \in Connections |-> NoProbe]
  /\ open = {} /\ closed = {} /\ opening = NoProbe

-----------------------------------------------------------------------------
Completed(p) == probeStage[p] \in {"ok", "failed", "answered"}

\* The pool gets a connection back, or loses it.
GiveBack(c, destroy) ==
  /\ lentTo' = [lentTo EXCEPT ![c] = NoProbe]
  /\ IF destroy THEN open' = open \ {c} /\ closed' = closed \cup {c}
                ELSE UNCHANGED <<open, closed>>
  /\ UNCHANGED opening

\* finish(): only the first of the callbacks ends the probe.
Finish(p, ok) ==
  /\ probeStage' = [probeStage EXCEPT ![p] = IF ok THEN "ok" ELSE "failed"]
  /\ abortActiveProbe' = NoProbe
  /\ UNCHANGED <<probeRunning, acquired>>

ReturnConnection(p, destroy) ==
  IF acquired[p] # NoConnection THEN GiveBack(acquired[p], destroy) ELSE UNCHANGED pool

\* check(): one probe at a time, and none once the application shuts down.
\* The pool opens a connection unless it has one or is opening one.
Check(p) ==
  /\ probeStage[p] = "new"
  /\ IF shuttingDown \/ probeRunning
     THEN /\ probeStage' = [probeStage EXCEPT ![p] = "answered"]
          /\ UNCHANGED <<probeRunning, abortActiveProbe, opening>>
     ELSE /\ probeStage' = [probeStage EXCEPT ![p] = "acquiring"]
          /\ probeRunning' = TRUE
          /\ abortActiveProbe' = p
          /\ opening' = IF open = {} /\ opening = NoProbe THEN p ELSE opening
  /\ UNCHANGED <<shuttingDown, activeConnection, acquired, lentTo, open, closed>>

\* The connections with which the pool may call p back.
OfferedTo(p) ==
  IF opening = p THEN Connections \ (open \cup closed)
  ELSE {c \in open : lentTo[c] = NoProbe}

Opened(p) == opening' = IF opening = p THEN NoProbe ELSE opening

Acquire(p) ==
  /\ probeStage[p] = "acquiring"
  /\ \E c \in OfferedTo(p) :
       /\ lentTo' = [lentTo EXCEPT ![c] = p]
       /\ open' = open \cup {c}
       /\ acquired' = [acquired EXCEPT ![p] = c]
       /\ activeConnection' = c
  /\ Opened(p)
  /\ probeStage' = [probeStage EXCEPT ![p] = "querying"]
  /\ UNCHANGED <<probeRunning, shuttingDown, abortActiveProbe, closed>>

AcquireFails(p) ==
  /\ probeStage[p] = "acquiring"
  /\ Finish(p, FALSE)
  /\ Opened(p)
  /\ UNCHANGED <<shuttingDown, activeConnection, lentTo, open, closed>>

\* Mutant of AcquireLate: the late connection is kept as if in time.
AcquireLateAndKeep(p) ==
  /\ Completed(p) /\ opening = p
  /\ opening' = NoProbe
  /\ \E c \in OfferedTo(p) :
       /\ lentTo' = [lentTo EXCEPT ![c] = p]
       /\ open' = open \cup {c}
       /\ acquired' = [acquired EXCEPT ![p] = c]
       /\ activeConnection' = c
  /\ UNCHANGED <<probeRunning, shuttingDown, abortActiveProbe, probeStage, closed>>

\* The pool calls back when the probe has already been ended: with an error,
\* or with a connection, which is destroyed.
AcquireLate(p) ==
  /\ Completed(p) /\ opening = p
  /\ opening' = NoProbe
  /\ \/ UNCHANGED closed
     \/ \E c \in OfferedTo(p) : closed' = closed \cup {c}
  /\ UNCHANGED <<probeRunning, shuttingDown, activeConnection, abortActiveProbe, probeStage,
                 acquired, lentTo, open>>

QueryAnswered(p) ==
  /\ probeStage[p] = "querying"
  /\ \E ok \in BOOLEAN : Finish(p, ok) /\ ReturnConnection(p, ~ok)
  /\ UNCHANGED <<shuttingDown, activeConnection>>

\* Mutant of Timeout: only the query has a time limit.
TimeoutOfQuery(p) ==
  /\ probeStage[p] = "querying"
  /\ Finish(p, FALSE) /\ ReturnConnection(p, TRUE)
  /\ UNCHANGED <<shuttingDown, activeConnection>>

\* The timer is armed from the start of the probe until it finishes.
Timeout(p) ==
  /\ probeStage[p] \in {"acquiring", "querying"}
  /\ Finish(p, FALSE) /\ ReturnConnection(p, TRUE)
  /\ UNCHANGED <<shuttingDown, activeConnection>>

\* The end of check(), after which the next one may run.
Finally(p) ==
  /\ probeStage[p] \in {"ok", "failed"}
  /\ probeStage' = [probeStage EXCEPT ![p] = "answered"]
  /\ probeRunning' = FALSE
  /\ activeConnection' = NoConnection
  /\ UNCHANGED <<shuttingDown, abortActiveProbe, acquired, pool>>

\* The running probe is stopped; if it has just finished, its connection,
\* which the pool has by now, is closed too.  The pool closes what is left.
OnApplicationShutdown ==
  /\ ~shuttingDown
  /\ shuttingDown' = TRUE
  /\ activeConnection' = NoConnection
  /\ LET stopped == IF abortActiveProbe # NoProbe THEN acquired[abortActiveProbe]
                    ELSE activeConnection
     IN lentTo' = [c \in Connections |-> IF c = stopped THEN NoProbe ELSE lentTo[c]]
  /\ IF abortActiveProbe # NoProbe
     THEN Finish(abortActiveProbe, FALSE)
     ELSE UNCHANGED <<probeRunning, probeStage, abortActiveProbe, acquired>>
  /\ closed' = closed \cup open
  /\ open' = {}
  /\ UNCHANGED opening

-----------------------------------------------------------------------------
ProbeNext ==
  \/ \E p \in Probes :
       \/ Check(p) \/ Acquire(p) \/ AcquireFails(p) \/ AcquireLate(p)
       \/ QueryAnswered(p) \/ Timeout(p) \/ Finally(p)
  \/ OnApplicationShutdown

\* Timers fire and the microtask queue is emptied; the pool and the database
\* need never answer.
ProbeFairness == \A p \in Probes : WF_probeVars(Timeout(p)) /\ WF_probeVars(Finally(p))

ProbeSpec == ProbeInit /\ [][ProbeNext]_probeVars /\ ProbeFairness

-----------------------------------------------------------------------------
(* Properties *)

\* The types of the state.
ProbeTypeOK ==
  /\ probeRunning \in BOOLEAN /\ shuttingDown \in BOOLEAN
  /\ activeConnection \in Connections \cup {NoConnection}
  /\ abortActiveProbe \in Probes \cup {NoProbe}
  /\ probeStage \in [Probes -> {"new", "acquiring", "querying", "ok", "failed", "answered"}]
  /\ acquired \in [Probes -> Connections \cup {NoConnection}]
  /\ lentTo \in [Connections -> Probes \cup {NoProbe}]
  /\ open \subseteq Connections /\ closed \subseteq Connections
  /\ opening \in Probes \cup {NoProbe}

\* A connection is in use exactly while its probe runs its query, whichever
\* callbacks came first: otherwise the only connection of the pool has leaked
\* and no check can succeed any more, or the shutdown or a timer has closed
\* it under a later probe.
LeaseEndsWithProbe ==
  /\ \A c \in Connections, p \in Probes :
       lentTo[c] = p <=> acquired[p] = c /\ probeStage[p] = "querying"
  /\ \A c \in Connections : lentTo[c] # NoProbe => open = {c}
  /\ open \cap closed = {}

\* Every check that starts is answered within its time, whatever the pool and
\* the database do, and so makes room for the next one.
ProbesEnd == \A p \in Probes : probeStage[p] = "acquiring" ~> probeStage[p] = "answered"
=============================================================================
