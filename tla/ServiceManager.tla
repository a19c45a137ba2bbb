--------------------------- MODULE ServiceManager ---------------------------
(***************************************************************************)
(* The service manager: callers of StartService and StopService, the map   *)
(* of running services under its RWMutex, and the life of the instances of *)
(* the DHCP service they start and stop.  There is one service key, since  *)
(* only "dhcp" is registered.  Taking a lock and what is done under it are *)
(* separate steps, because one access to the map takes no lock.            *)
(***************************************************************************)
EXTENDS Naturals, FiniteSets

CONSTANTS
  Callers,      \* goroutines that call the manager
  MaxMade,      \* bound on the instances one process makes
  None,         \* no instance
  MayRefuse     \* whether a service's Start may return an error

Instances == 1..MaxMade

ASSUME ManagerAssumption ==
  /\ MaxMade \in Nat
  /\ None \notin Instances
  /\ MayRefuse \in BOOLEAN

VARIABLES
  services,     \* the instance in sm.services, or None
  made,         \* how many instances the process has made
  watcher,      \* each instance's leases watcher: off, on or cancelled
  serving,      \* the instances whose socket is bound; nothing closes one
  cancelled,    \* the instances whose context is cancelled
  pc,           \* where each caller is
  mine,         \* the instance its call is about (sc, serviceCtx)
  overlapped    \* history: whether two calls were ever in progress at once

vars == <<services, made, watcher, serving, cancelled, pc, mine, overlapped>>
instanceVars == <<made, watcher, serving, cancelled>>

Starting == {"look", "looking", "make", "insert", "inserting", "load", "bind", "forget"}
Stopping == {"remove", "removing", "halt", "cancel"}

\* Where a call has an instance to work on.
Holding == {"insert", "inserting", "load", "bind", "forget", "halt", "cancel"}

TypeOK ==
  /\ services \in Instances \cup {None}
  /\ made \in 0..MaxMade
  /\ watcher \in [Instances -> {"off", "on", "cancelled"}]
  /\ serving \subseteq Instances
  /\ cancelled \subseteq Instances
  /\ pc \in [Callers -> {"idle"} \cup Starting \cup Stopping]
  /\ mine \in [Callers -> Instances \cup {None}]
  /\ \A p \in Callers : pc[p] \in Holding => mine[p] # None
  /\ overlapped \in BOOLEAN

\* NewServiceManager.
Init ==
  /\ services = None
  /\ made = 0
  /\ watcher = [i \in Instances |-> "off"]
  /\ serving = {}
  /\ cancelled = {}
  /\ pc = [p \in Callers |-> "idle"]
  /\ mine = [p \in Callers |-> None]
  /\ overlapped = FALSE

Idle == {p \in Callers : pc[p] = "idle"}

Goto(p, l) == pc' = [pc EXCEPT ![p] = l]

Return(p) == Goto(p, "idle") /\ mine' = [mine EXCEPT ![p] = None]

\* A caller calls StartService or StopService.
Call(p, l) ==
  /\ pc[p] = "idle"
  /\ Goto(p, l)
  /\ overlapped' = (overlapped \/ Idle # Callers)
  /\ UNCHANGED <<services, instanceVars, mine>>

\* serviceMutex: a waiting writer keeps new readers out.
NoWriter == \A q \in Callers : pc[q] \notin {"inserting", "removing"}
NoneWaiting == \A q \in Callers : pc[q] \notin {"insert", "remove"}
NoReader == \A q \in Callers : pc[q] # "looking"

\* RWMutex.Unlock lets the waiting readers in before the next writer.
UnlockTo(p, l) ==
  pc' = [q \in Callers |-> IF q = p THEN l
                           ELSE IF pc[q] = "look" THEN "looking" ELSE pc[q]]

(***************************************************************************)
(* StartService.                                                           *)
(***************************************************************************)

\* exists: RLock, the lookup, RUnlock.
LockRead(p) ==
  /\ pc[p] = "look" /\ NoWriter /\ NoneWaiting
  /\ Goto(p, "looking")
  /\ UNCHANGED <<services, instanceVars, mine, overlapped>>

\* Mutant: whether the service runs already is not looked at.
LookAside(p) ==
  /\ pc[p] = "looking"
  /\ Goto(p, "make") /\ UNCHANGED mine
  /\ UNCHANGED <<services, instanceVars, overlapped>>

Look(p) ==
  /\ pc[p] = "looking"
  /\ IF services = None THEN Goto(p, "make") /\ UNCHANGED mine ELSE Return(p)
  /\ UNCHANGED <<services, instanceVars, overlapped>>

\* ForService and the constructor the DHCP service registered.
Make(p) ==
  /\ pc[p] = "make" /\ made < MaxMade
  /\ made' = made + 1
  /\ mine' = [mine EXCEPT ![p] = made']
  /\ Goto(p, "insert")
  /\ UNCHANGED <<services, watcher, serving, cancelled, overlapped>>

LockInsert(p) ==
  /\ pc[p] = "insert" /\ NoWriter /\ NoReader
  /\ Goto(p, "inserting")
  /\ UNCHANGED <<services, instanceVars, mine, overlapped>>

\* Whatever is in the map by now is overwritten.
Insert(p) ==
  /\ pc[p] = "inserting"
  /\ services' = mine[p]
  /\ UnlockTo(p, "load")
  /\ UNCHANGED <<instanceVars, mine, overlapped>>

\* Service.Start begins: the watcher loads the leases and watches, unless the
\* context it is given was cancelled in the meantime.
Load(p) ==
  /\ pc[p] = "load"
  /\ watcher' = [watcher EXCEPT ![mine[p]] =
                   IF mine[p] \in cancelled THEN "cancelled" ELSE "on"]
  /\ Goto(p, "bind")
  /\ UNCHANGED <<services, made, serving, cancelled, mine, overlapped>>

\* initHandler4 binds the socket, which is shared (SO_REUSEADDR), and Serve
\* runs.  If it fails, log.Fatal ends the process: that is Exit.
Bind(p) ==
  /\ pc[p] = "bind"
  /\ serving' = serving \cup {mine[p]}
  /\ Return(p)
  /\ UNCHANGED <<services, made, watcher, cancelled, overlapped>>

\* A service whose Start returns an error, having started nothing.
Refuse(p) ==
  /\ MayRefuse
  /\ pc[p] = "load"
  /\ Goto(p, "forget")
  /\ UNCHANGED <<services, instanceVars, mine, overlapped>>

\* The failed start deletes what is in the map, without the lock; the context
\* of the instance is never cancelled.  (The runtime may end the process if it
\* notices an access to the map at the same time: that is Exit.)
Forget(p) ==
  /\ pc[p] = "forget"
  /\ services' = None
  /\ Return(p)
  /\ UNCHANGED <<instanceVars, overlapped>>

(***************************************************************************)
(* StopService.                                                            *)
(***************************************************************************)

LockRemove(p) ==
  /\ pc[p] = "remove" /\ NoWriter /\ NoReader
  /\ Goto(p, "removing")
  /\ UNCHANGED <<services, instanceVars, mine, overlapped>>

\* Mutant: the early return of a service that does not run forgets to unlock.
RemoveKeepsLock(p) ==
  /\ pc[p] = "removing" /\ services # None
  /\ UnlockTo(p, "halt")
  /\ mine' = [mine EXCEPT ![p] = services]
  /\ services' = None
  /\ UNCHANGED <<instanceVars, overlapped>>

\* Mutant: the service is looked up under the lock and not deleted there.
RemoveNothing(p) ==
  /\ pc[p] = "removing"
  /\ UnlockTo(p, IF services = None THEN "idle" ELSE "halt")
  /\ mine' = [mine EXCEPT ![p] = services]
  /\ UNCHANGED <<services, instanceVars, overlapped>>

\* Mutant: that there is no service is not looked at.
RemoveUnchecked(p) ==
  /\ pc[p] = "removing"
  /\ UnlockTo(p, "halt")
  /\ mine' = [mine EXCEPT ![p] = services]
  /\ services' = None
  /\ UNCHANGED <<instanceVars, overlapped>>

\* Lookup and delete under one lock; without a service StopService returns.
Remove(p) ==
  /\ pc[p] = "removing"
  /\ UnlockTo(p, IF services = None THEN "idle" ELSE "halt")
  /\ mine' = [mine EXCEPT ![p] = services]
  /\ services' = None
  /\ UNCHANGED <<instanceVars, overlapped>>

\* Mutant: the watcher is not stopped, and the context is not cancelled.
HaltNothing(p) ==
  /\ pc[p] = "halt"
  /\ Return(p)
  /\ UNCHANGED <<services, instanceVars, overlapped>>

CancelWatcher(i) ==
  watcher' = [watcher EXCEPT ![i] = IF @ = "on" THEN "cancelled" ELSE @]

\* Service.Stop cancels the watcher, if it was started; it leaves the socket
\* open, and returns no error.
Halt(p) ==
  /\ pc[p] = "halt"
  /\ CancelWatcher(mine[p])
  /\ Goto(p, "cancel")
  /\ UNCHANGED <<services, made, serving, cancelled, mine, overlapped>>

\* cancelFunc, from which the watcher's own context derives.
Cancel(p) ==
  /\ pc[p] = "cancel"
  /\ cancelled' = cancelled \cup {mine[p]}
  /\ CancelWatcher(mine[p])
  /\ Return(p)
  /\ UNCHANGED <<services, made, serving, overlapped>>

(***************************************************************************)
(* The process.                                                            *)
(***************************************************************************)

Locking(p) == LockRead(p) \/ LockInsert(p) \/ LockRemove(p)

Step(p) ==
  \/ Locking(p)
  \/ Look(p) \/ Make(p) \/ Insert(p)
  \/ Load(p) \/ Bind(p) \/ Refuse(p) \/ Forget(p)
  \/ Remove(p) \/ Halt(p) \/ Cancel(p)

\* The process ends, as serverCmd does after a stop and log.Fatal at any time,
\* and another one begins.
Exit ==
  /\ made > 0 \/ Idle # Callers
  /\ services' = None
  /\ made' = 0
  /\ watcher' = [i \in Instances |-> "off"]
  /\ serving' = {}
  /\ cancelled' = {}
  /\ pc' = [p \in Callers |-> "idle"]
  /\ mine' = [p \in Callers |-> None]
  /\ overlapped' = FALSE

Next ==
  \/ \E p \in Callers : Call(p, "look") \/ Call(p, "remove") \/ Step(p)
  \/ Exit

Spec == Init /\ [][Next]_vars

\* Callers keep running, and sync.RWMutex starves neither readers nor writers.
FairSpec ==
  /\ Spec
  /\ \A p \in Callers : WF_vars(Step(p)) /\ SF_vars(Locking(p))

(***************************************************************************)
(* Properties.                                                             *)
(***************************************************************************)

Live == {i \in Instances : watcher[i] = "on"}

\* As long as no two calls overlap, the map tells the truth whenever no call is
\* in progress: the instance in it, if any, is the only one whose watcher runs
\* and its socket is bound, so that no instance is out of StopService's reach.
\* (exists and the insertion are under two locks, and the insertion comes
\* before Start: with overlapping calls this is false.)
MapTellsTruth ==
  (~overlapped /\ Idle = Callers) =>
     /\ Live = {services} \ {None}
     /\ Live \subseteq serving

\* Even when calls overlap, no instance is stopped by two of them: the call
\* that stops it is the only one that took it out of the map.
StoppedByOne ==
  \A p, q \in Callers :
    (p # q /\ pc[p] \in {"halt", "cancel"} /\ pc[q] \in {"halt", "cancel"})
      => mine[p] # mine[q]

\* Every call returns, or the process ends: no path leaves serviceMutex locked.
\* (The bound on the instances may stop a call too.)
CallsReturn ==
  \A p \in Callers :
    pc[p] # "idle" ~> (pc[p] = "idle" \/ (pc[p] = "make" /\ made = MaxMade))

\* While calls do not overlap, the manager implements OneService step by step.
One == INSTANCE OneService WITH up <- Live

ActsLikeOneService == One!Init /\ [][overlapped' \/ One!Next]_Live

=============================================================================
