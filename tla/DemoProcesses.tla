--------------------------- MODULE DemoProcesses ---------------------------
(***************************************************************************)
(* The demo programs that a ground station starts and stops through the    *)
(* communication bridge.  The server thread looks a demo up in nodeMap and *)
(* later inserts or erases its entry; the ROS thread's timer collects      *)
(* children that ended, and later erases the entries it found.  Nothing    *)
(* locks nodeMap: each access is a step, and the steps of the two threads  *)
(* interleave.  (An access during another one is undefined; the steps are  *)
(* the mildest outcome of it.)                                             *)
(***************************************************************************)
EXTENDS Integers, FiniteSets

CONSTANTS
  Demos,      \* command lines of demos
  Pids        \* children the bridge may start, each once

NoPid == 0
ASSUME DemoAssumption == Pids \subseteq Nat \ {NoPid}

VARIABLES
  nodeMap,        \* the child of each demo that is known to run
  tcp,            \* what the server thread is about to do to nodeMap
  keysToRemove,   \* demos the timer found ended
  checking,       \* is the timer between its two loops over nodeMap?
  child           \* external: the children

demoVars == <<nodeMap, tcp, keysToRemove, checking, child>>

\* A child is unborn, runs, runs but was sent SIGTERM, ended, or was waited for.
ChildStates == {"unborn", "running", "stopping", "ended", "reaped"}

TcpIdle == [op |-> "idle"]
TcpType == {TcpIdle} \union [op: {"insert"}, demo: Demos, pid: Pids]
           \union [op: {"erase"}, demo: Demos]

DemoTypeOK ==
  /\ nodeMap \in [Demos -> Pids \union {NoPid}]
  /\ tcp \in TcpType
  /\ keysToRemove \in SUBSET Demos
  /\ checking \in BOOLEAN
  /\ child \in [Pids -> [state: ChildStates, demo: Demos]]

DemoInit ==
  /\ nodeMap = [d \in Demos |-> NoPid]
  /\ tcp = TcpIdle
  /\ keysToRemove = {} /\ checking = FALSE
  /\ child \in [Pids -> [state: {"unborn"}, demo: Demos]]
  /\ \A p, q \in Pids : child[p] = child[q]

-----------------------------------------------------------------------------
\* TCPServerCallBack, DemoMessage with demoState true: nothing when the demo is
\* known, else a fork, which may fail.
StartDemo(d) ==
  /\ tcp = TcpIdle
  /\ \/ \E p \in Pids :
          /\ nodeMap[d] = NoPid
          /\ child[p].state = "unborn"
          /\ child' = [child EXCEPT ![p] = [state |-> "running", demo |-> d]]
          /\ tcp' = [op |-> "insert", demo |-> d, pid |-> p]
     \/ UNCHANGED <<child, tcp>>
  /\ UNCHANGED <<nodeMap, keysToRemove, checking>>

\* std::map::insert keeps an entry that is there.
Insert ==
  /\ tcp.op = "insert"
  /\ nodeMap' = [nodeMap EXCEPT ![tcp.demo] = IF @ = NoPid THEN tcp.pid ELSE @]
  /\ tcp' = TcpIdle
  /\ UNCHANGED <<keysToRemove, checking, child>>

\* DemoMessage with demoState false: SIGTERM, which a child not yet waited for
\* takes even when it has ended.
StopDemo(d) ==
  LET p == nodeMap[d]
  IN  /\ tcp = TcpIdle
      /\ IF p # NoPid /\ child[p].state \in {"running", "stopping", "ended"}
         THEN /\ child' = [child EXCEPT ![p].state = IF @ = "running" THEN "stopping" ELSE @]
              /\ tcp' = [op |-> "erase", demo |-> d]
         ELSE UNCHANGED <<child, tcp>>
      /\ UNCHANGED <<nodeMap, keysToRemove, checking>>

Erase ==
  /\ tcp.op = "erase"
  /\ nodeMap' = [nodeMap EXCEPT ![tcp.demo] = NoPid]
  /\ tcp' = TcpIdle
  /\ UNCHANGED <<keysToRemove, checking, child>>

\* CheckChildProcessCallBack, first loop: waitpid on each known child.
Ended == {d \in Demos : nodeMap[d] # NoPid /\ child[nodeMap[d]].state = "ended"}

CheckChildren ==
  /\ ~checking
  /\ checking' = TRUE
  /\ keysToRemove' = Ended
  /\ child' = [p \in Pids |-> IF \E d \in Ended : nodeMap[d] = p
                              THEN [child[p] EXCEPT !.state = "reaped"] ELSE child[p]]
  /\ UNCHANGED <<nodeMap, tcp>>

\* Mutant of RemoveKeys: an entry is erased only while its child can be waited for.
RemoveWaitable ==
  LET waitable(d) == nodeMap[d] \in Pids /\ child[nodeMap[d]].state = "ended"
  IN  /\ checking
      /\ checking' = FALSE
      /\ nodeMap' = [d \in Demos |-> IF d \in keysToRemove /\ waitable(d)
                                     THEN NoPid ELSE nodeMap[d]]
      /\ keysToRemove' = {}
      /\ UNCHANGED <<tcp, child>>

\* Second loop.
RemoveKeys ==
  /\ checking
  /\ checking' = FALSE
  /\ nodeMap' = [d \in Demos |-> IF d \in keysToRemove THEN NoPid ELSE nodeMap[d]]
  /\ keysToRemove' = {}
  /\ UNCHANGED <<tcp, child>>

\* External: a child ends, by itself or of SIGTERM.
ChildEnds(p) ==
  /\ child[p].state \in {"running", "stopping"}
  /\ child' = [child EXCEPT ![p].state = "ended"]
  /\ UNCHANGED <<nodeMap, tcp, keysToRemove, checking>>

TcpAccess == Insert \/ Erase
TimerStep == CheckChildren \/ RemoveKeys

DemoNext == \/ \E d \in Demos : StartDemo(d) \/ StopDemo(d)
            \/ TcpAccess \/ TimerStep
            \/ \E p \in Pids : ChildEnds(p)

DemoSpec == DemoInit /\ [][DemoNext]_demoVars

-----------------------------------------------------------------------------
(***************************************************************************)
(* Properties.                                                             *)
(***************************************************************************)

\* A demo that ended is forgotten, so that it can be started again.
EndedIsForgotten ==
  \A d \in Demos, p \in Pids :
    nodeMap[d] = p /\ child[p].state \in {"ended", "reaped"} ~> nodeMap[d] # p

\* "Basically only this function uses these data, so no lock for now"
\* (communication_bridge.cpp:446): a demo that runs, and that nobody stopped, is
\* known, or the server thread is about to make it known.
RunningIsKnown ==
  \A p \in Pids : child[p].state = "running"
    => \/ nodeMap[child[p].demo] = p
       \/ tcp.op = "insert" /\ tcp.pid = p
=============================================================================
