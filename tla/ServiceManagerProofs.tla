------------------------ MODULE ServiceManagerProofs ------------------------
(***************************************************************************)
(* Theorems about ServiceManager for any number of callers and instances.  *)
(***************************************************************************)
EXTENDS ServiceManager, TLAPS

LEMMA InstanceTypes ==
  /\ MaxMade \in Nat /\ None \notin Instances
  /\ \A i \in Instances : i \in Nat /\ i >= 1 /\ i <= MaxMade
BY ManagerAssumption DEF Instances

(***************************************************************************)
(* Type correctness, and whose instance is whose.                          *)
(***************************************************************************)

\* An instance that is about to be inserted is known to its caller only; one that
\* is being stopped is out of the map, and one caller stops it.
Unborn == {"insert", "inserting"}
Dying == {"halt", "cancel"}

Owned ==
  /\ services # None => services <= made
  /\ \A p \in Callers : mine[p] # None => mine[p] <= made
  /\ \A p \in Callers : pc[p] \in Unborn \cup Dying => mine[p] # services
  /\ \A p, q \in Callers :
       (p # q /\ pc[p] \in Unborn) => mine[p] # mine[q]
  /\ StoppedByOne

SafeInv == TypeOK /\ Owned

PCs == {"idle"} \cup Starting \cup Stopping

\* Letting the readers in only turns "look" into "looking".
LEMMA UnlockedPCs ==
  ASSUME pc \in [Callers -> PCs], NEW p \in Callers, NEW l \in PCs, UnlockTo(p, l)
  PROVE  /\ pc' \in [Callers -> PCs]
         /\ pc'[p] = l
         /\ \A q \in Callers \ {p} :
              pc'[q] = pc[q] \/ (pc[q] = "look" /\ pc'[q] = "looking")
BY DEF UnlockTo, PCs, Starting

LEMMA SafeInit == Init => SafeInv
<1> SUFFICES ASSUME Init PROVE SafeInv
  OBVIOUS
<1>1. TypeOK
  <2>1. pc = [p \in Callers |-> "idle"] /\ \A p \in Callers : pc[p] \notin Holding
    BY DEF Init, Holding
  <2>2. pc \in [Callers -> {"idle"} \cup Starting \cup Stopping]
    BY <2>1
  <2>3. /\ made \in 0..MaxMade /\ services = None /\ overlapped = FALSE
        /\ serving = {} /\ cancelled = {}
    BY InstanceTypes DEF Init
  <2>4. /\ watcher \in [Instances -> {"off", "on", "cancelled"}]
        /\ mine \in [Callers -> Instances \cup {None}]
    BY DEF Init
  <2> QED BY <2>1, <2>2, <2>3, <2>4 DEF TypeOK
<1>2. Owned
  BY InstanceTypes DEF Init, Owned, StoppedByOne, Unborn, Dying
<1> QED BY <1>1, <1>2 DEF SafeInv

LEMMA SafeNext == SafeInv /\ [Next]_vars => SafeInv'
<1> SUFFICES ASSUME SafeInv, [Next]_vars PROVE SafeInv'
  OBVIOUS
<1> USE DEF SafeInv
<1>0. /\ TypeOK /\ Owned
      /\ pc \in [Callers -> PCs] /\ mine \in [Callers -> Instances \cup {None}]
  BY DEF TypeOK, PCs
<1>1. ASSUME NEW p \in Callers, Call(p, "look") \/ Call(p, "remove")
      PROVE  SafeInv'
  <2> PICK l \in {"look", "remove"} : Call(p, l)
    BY <1>1
  <2>1. /\ pc' = [pc EXCEPT ![p] = l] /\ overlapped' = (overlapped \/ Idle # Callers)
        /\ UNCHANGED <<services, made, watcher, serving, cancelled, mine>>
    BY DEF Call, Goto, instanceVars
  <2>2. TypeOK'
    BY <1>0, <2>1 DEF TypeOK, Starting, Stopping, Holding
  <2>3. Owned'
    BY <1>0, <2>1 DEF Owned, Unborn, Dying, StoppedByOne
  <2> QED BY <2>2, <2>3
<1>2. ASSUME NEW p \in Callers, LockRead(p)
      PROVE  SafeInv'
  BY <1>0, <1>2
     DEF LockRead, NoWriter, Goto, instanceVars, TypeOK, Starting, Stopping, Holding,
         Owned, Unborn, Dying, StoppedByOne
<1>3. ASSUME NEW p \in Callers, LockInsert(p)
      PROVE  SafeInv'
  BY <1>0, <1>3
     DEF LockInsert, NoWriter, NoReader, Goto, instanceVars, TypeOK, Starting, Stopping,
         Holding, Owned, Unborn, Dying, StoppedByOne
<1>4. ASSUME NEW p \in Callers, LockRemove(p)
      PROVE  SafeInv'
  BY <1>0, <1>4
     DEF LockRemove, NoWriter, NoReader, Goto, instanceVars, TypeOK, Starting, Stopping,
         Holding, Owned, Unborn, Dying, StoppedByOne
<1>5. ASSUME NEW p \in Callers, Look(p)
      PROVE  SafeInv'
  BY <1>0, <1>5, InstanceTypes
     DEF Look, Return, Goto, instanceVars, TypeOK, Starting, Stopping, Holding, Owned,
         Unborn, Dying, StoppedByOne
<1>6. ASSUME NEW p \in Callers, Make(p)
      PROVE  SafeInv'
  <2>1. made' = made + 1 /\ made' \in Instances /\ made \in Nat
    BY <1>0, <1>6, InstanceTypes DEF Make, TypeOK, Instances
  <2>2. /\ mine' = [mine EXCEPT ![p] = made'] /\ pc' = [pc EXCEPT ![p] = "insert"]
        /\ UNCHANGED <<services, watcher, serving, cancelled, overlapped>>
    BY <1>6 DEF Make, Goto
  <2>3. services # made' /\ \A q \in Callers : mine[q] # made'
    BY <1>0, <2>1, InstanceTypes DEF Owned, TypeOK, Instances
  <2>4. TypeOK'
    BY <1>0, <2>1, <2>2, InstanceTypes DEF TypeOK, Starting, Holding, Instances
  <2>5. Owned'
    BY <1>0, <2>1, <2>2, <2>3, InstanceTypes
       DEF Owned, Unborn, Dying, StoppedByOne, TypeOK, Instances
  <2> QED BY <2>4, <2>5
<1>7. ASSUME NEW p \in Callers, Insert(p)
      PROVE  SafeInv'
  <2>1. /\ pc[p] = "inserting" /\ services' = mine[p]
        /\ UnlockTo(p, "load") /\ UNCHANGED <<instanceVars, mine, overlapped>>
    BY <1>7 DEF Insert
  <2>2. /\ pc' \in [Callers -> PCs] /\ pc'[p] = "load"
        /\ \A q \in Callers \ {p} :
             pc'[q] = pc[q] \/ (pc[q] = "look" /\ pc'[q] = "looking")
    BY <1>0, <2>1, UnlockedPCs DEF PCs, Starting
  <2>3. TypeOK'
    BY <1>0, <2>1, <2>2 DEF TypeOK, Holding, PCs, instanceVars
  <2>4. Owned'
    BY <1>0, <2>1, <2>2 DEF Owned, Unborn, Dying, StoppedByOne, instanceVars
  <2> QED BY <2>3, <2>4
<1>8. ASSUME NEW p \in Callers, Load(p) \/ Bind(p)
      PROVE  SafeInv'
  BY <1>0, <1>8
     DEF Load, Bind, Return, Goto, TypeOK, Starting, Stopping, Holding, Owned, Unborn,
         Dying, StoppedByOne
<1>9. ASSUME NEW p \in Callers, Refuse(p) \/ Forget(p)
      PROVE  SafeInv'
  BY <1>0, <1>9
     DEF Refuse, Forget, Return, Goto, instanceVars, TypeOK, Starting, Stopping, Holding,
         Owned, Unborn, Dying, StoppedByOne
<1>10. ASSUME NEW p \in Callers, Remove(p)
       PROVE  SafeInv'
  <2> DEFINE l == IF services = None THEN "idle" ELSE "halt"
  <2>1. /\ pc[p] = "removing" /\ UnlockTo(p, l) /\ services' = None
        /\ mine' = [mine EXCEPT ![p] = services]
        /\ UNCHANGED <<instanceVars, overlapped>>
    BY <1>10 DEF Remove
  <2>2. /\ pc' \in [Callers -> PCs] /\ pc'[p] = l
        /\ \A q \in Callers \ {p} :
             pc'[q] = pc[q] \/ (pc[q] = "look" /\ pc'[q] = "looking")
    BY <1>0, <2>1, UnlockedPCs DEF PCs, Stopping
  <2>3. TypeOK'
    BY <1>0, <2>1, <2>2 DEF TypeOK, Holding, PCs, instanceVars
  <2>4. Owned'
    BY <1>0, <2>1, <2>2 DEF Owned, Unborn, Dying, StoppedByOne, instanceVars, TypeOK, Holding
  <2> QED BY <2>3, <2>4
<1>11. ASSUME NEW p \in Callers, Halt(p) \/ Cancel(p)
       PROVE  SafeInv'
  BY <1>0, <1>11
     DEF Halt, Cancel, CancelWatcher, Return, Goto, TypeOK, Starting, Stopping, Holding,
         Owned, Unborn, Dying, StoppedByOne
<1>12. CASE Exit
  <2>1. Init'
    BY <1>12 DEF Exit, Init
  <2> QED BY <2>1, SafeInit, PTL
<1>13. CASE UNCHANGED vars
  BY <1>0, <1>13
     DEF vars, TypeOK, Holding, Owned, Unborn, Dying, StoppedByOne
<1> QED
  BY <1>1, <1>2, <1>3, <1>4, <1>5, <1>6, <1>7, <1>8, <1>9, <1>10, <1>11, <1>12, <1>13
     DEF Next, Step, Locking

\* Every reachable state is well typed, and a call that works on an instance has
\* one: StopService never stops a service that is not there.
THEOREM ManagerTyped == Spec => []TypeOK
<1>1. SafeInv => TypeOK
  BY DEF SafeInv
<1> QED BY <1>1, SafeInit, SafeNext, PTL DEF Spec

\* However calls overlap, and whatever a failed start deletes, the lookup and the
\* delete under one lock of StopService (service_manager.go:74-83) leave each
\* instance to one call.
THEOREM OneStopper == Spec => []StoppedByOne
<1>1. SafeInv => StoppedByOne
  BY DEF SafeInv, Owned
<1> QED BY <1>1, SafeInit, SafeNext, PTL DEF Spec

(***************************************************************************)
(* Calls that do not overlap.                                              *)
(***************************************************************************)

Truth == Live = {services} \ {None} /\ Live \subseteq serving

\* What holds at each place of the only call in progress.
Progress(p) ==
  /\ pc[p] \in {"look", "looking", "remove", "removing"} => Truth
  /\ pc[p] \in {"make", "insert", "inserting"} => services = None /\ Live = {}
  /\ pc[p] \in {"insert", "inserting", "load"} => mine[p] \notin cancelled
  /\ pc[p] = "load" => services = mine[p] /\ Live = {}
  /\ pc[p] = "bind" => services = mine[p] /\ Live = {mine[p]}
  /\ pc[p] = "forget" => Live = {}
  /\ pc[p] = "halt" => services = None /\ Live = {mine[p]}
  /\ pc[p] = "cancel" => services = None /\ Live = {}

Alone == \A p, q \in Callers : p # q => pc[p] = "idle" \/ pc[q] = "idle"

Sequential ==
  ~overlapped =>
    /\ Alone
    /\ Idle = Callers => Truth
    /\ \A p \in Callers : Progress(p)

\* What was not made yet was neither started nor cancelled.
Unmade == \A i \in Instances : i > made => watcher[i] = "off" /\ i \notin cancelled

SeqInv == SafeInv /\ Sequential /\ Unmade

LEMMA SeqInit == Init => SeqInv
<1> SUFFICES ASSUME Init PROVE SeqInv
  OBVIOUS
<1>1. Live = {} /\ services = None /\ \A p \in Callers : pc[p] = "idle"
  BY DEF Init, Live
<1>2. Sequential
  BY <1>1 DEF Sequential, Alone, Truth, Progress
<1>3. Unmade
  BY DEF Init, Unmade
<1> QED BY <1>2, <1>3, SafeInit DEF SeqInv

\* A step of one caller that leaves the others idle where they are.
LEMMA SeqStep ==
  ASSUME SeqInv, NEW p \in Callers, pc[p] # "idle", ~overlapped,
         \A q \in Callers \ {p} : pc[q] = "idle" => pc'[q] = "idle",
         Progress(p)', pc'[p] = "idle" => Truth'
  PROVE  Sequential'
<1>1. \A q \in Callers \ {p} : pc[q] = "idle" /\ pc'[q] = "idle"
  BY DEF SeqInv, Sequential, Alone
<1>2. Alone'
  BY <1>1 DEF Alone
<1>3. (Idle = Callers => Truth)'
  BY DEF Idle
<1>4. \A q \in Callers : Progress(q)'
  BY <1>1 DEF Progress
<1> QED BY <1>2, <1>3, <1>4 DEF Sequential

LEMMA SeqNext == SeqInv /\ [Next]_vars => SeqInv'
<1> SUFFICES ASSUME SeqInv, [Next]_vars PROVE SeqInv'
  OBVIOUS
<1>0. /\ SafeInv /\ TypeOK /\ Owned /\ Sequential /\ Unmade /\ SafeInv'
      /\ pc \in [Callers -> PCs] /\ mine \in [Callers -> Instances \cup {None}]
      /\ watcher \in [Instances -> {"off", "on", "cancelled"}]
  BY SafeNext DEF SeqInv, SafeInv, TypeOK, PCs
<1>a. ASSUME NEW p \in Callers, NEW l \in {"look", "remove"}, Call(p, l)
      PROVE  SeqInv'
  <2>1. /\ pc[p] = "idle" /\ pc' = [pc EXCEPT ![p] = l]
        /\ overlapped' = (overlapped \/ Idle # Callers)
        /\ UNCHANGED <<services, made, watcher, serving, cancelled, mine>>
    BY <1>a DEF Call, Goto, instanceVars
  <2>2. Sequential'
    <3> SUFFICES ASSUME ~overlapped, Idle = Callers PROVE Sequential'
      BY <2>1 DEF Sequential
    <3>1. Truth'
      BY <1>0, <2>1 DEF Sequential, Truth, Live
    <3>2. \A q \in Callers : pc[q] = "idle"
      BY DEF Idle
    <3>3. Alone' /\ \A q \in Callers : Progress(q)'
      BY <1>0, <2>1, <3>1, <3>2 DEF Alone, Progress
    <3> QED BY <3>1, <3>3 DEF Sequential
  <2>3. Unmade'
    BY <1>0, <2>1 DEF Unmade
  <2> QED BY <1>0, <2>2, <2>3 DEF SeqInv
<1>b. ASSUME NEW p \in Callers, Step(p)
      PROVE  SeqInv'
  <2>0. overlapped' = overlapped /\ pc[p] # "idle"
    BY <1>b, <1>0
       DEF Step, Locking, LockRead, LockInsert, LockRemove, Look, Make, Insert, Load, Bind,
           Refuse, Forget, Remove, Halt, Cancel
  <2>1. Unmade'
    <3>1. CASE Make(p)
      BY <1>0, <3>1, InstanceTypes DEF Unmade, Make, TypeOK
    <3>2. CASE Load(p)
      <4>1. mine[p] \in Instances /\ mine[p] <= made /\ made \in Nat
        BY <1>0, <3>2, InstanceTypes DEF Load, TypeOK, Holding, Owned
      <4> QED BY <1>0, <3>2, <4>1, InstanceTypes DEF Unmade, Load
    <3>3. CASE Halt(p) \/ Cancel(p)
      <4>1. mine[p] \in Instances /\ mine[p] <= made /\ made \in Nat
        BY <1>0, <3>3, InstanceTypes DEF Halt, Cancel, TypeOK, Holding, Owned
      <4> QED BY <1>0, <3>3, <4>1, InstanceTypes DEF Unmade, Halt, Cancel, CancelWatcher
    <3>4. CASE UNCHANGED <<made, watcher, cancelled>>
      BY <1>0, <3>4 DEF Unmade
    <3> QED
      BY <1>b, <3>1, <3>2, <3>3, <3>4
         DEF Step, Locking, LockRead, LockInsert, LockRemove, Look, Insert, Bind, Refuse,
             Forget, Remove, instanceVars
  <2>2. Sequential'
    <3> SUFFICES ASSUME ~overlapped PROVE Sequential'
      BY <2>0 DEF Sequential
    <3>0. Alone /\ Progress(p) /\ \A q \in Callers \ {p} : pc[q] = "idle"
      BY <1>0, <2>0 DEF Sequential, Alone
    <3>1. CASE Locking(p) \/ Look(p) \/ Refuse(p)
      <4>1. /\ \A q \in Callers \ {p} : pc'[q] = "idle"
            /\ UNCHANGED <<services, made, watcher, serving, cancelled>>
        BY <1>0, <3>0, <3>1
           DEF Locking, LockRead, LockInsert, LockRemove, Look, Refuse, Return, Goto,
               instanceVars
      <4>2. /\ pc[p] \in {"look", "looking", "remove"} =>
                 \/ pc'[p] \in {"looking", "removing", "idle"}
                 \/ pc'[p] = "make" /\ services = None
            /\ pc[p] \notin {"look", "looking", "remove"} =>
                 /\ mine' = mine
                 /\ <<pc[p], pc'[p]>> \in {<<"insert", "inserting">>, <<"load", "forget">>}
        BY <1>0, <3>1
           DEF Locking, LockRead, LockInsert, LockRemove, Look, Refuse, Return, Goto
      <4>3. Progress(p)' /\ (pc'[p] = "idle" => Truth')
        BY <3>0, <4>1, <4>2 DEF Progress, Truth, Live
      <4> QED BY <2>0, <4>1, <4>3, SeqStep
    <3>2. CASE Make(p)
      <4>1. /\ pc' = [pc EXCEPT ![p] = "insert"] /\ pc[p] = "make"
            /\ mine' = [mine EXCEPT ![p] = made'] /\ made' = made + 1
            /\ made' \in Instances /\ made' \notin cancelled
            /\ UNCHANGED <<services, watcher, serving, cancelled>>
        BY <1>0, <3>2, InstanceTypes DEF Make, Goto, Unmade, TypeOK, Instances
      <4>2. Progress(p)' /\ pc'[p] # "idle" /\ \A q \in Callers \ {p} : pc'[q] = pc[q]
        BY <1>0, <3>0, <4>1 DEF Progress, Live
      <4> QED BY <2>0, <4>2, SeqStep
    <3>3. CASE Insert(p)
      <4>1. /\ pc[p] = "inserting" /\ pc'[p] = "load" /\ services' = mine[p]
            /\ \A q \in Callers \ {p} : pc'[q] = "idle"
            /\ UNCHANGED <<made, watcher, serving, cancelled, mine>>
        BY <1>0, <3>0, <3>3 DEF Insert, UnlockTo, instanceVars
      <4>2. Progress(p)'
        BY <3>0, <4>1 DEF Progress, Live
      <4> QED BY <2>0, <4>1, <4>2, SeqStep
    <3>4. CASE Load(p)
      <4>1. /\ pc[p] = "load" /\ pc' = [pc EXCEPT ![p] = "bind"]
            /\ mine[p] \in Instances /\ mine[p] \notin cancelled
            /\ watcher' = [watcher EXCEPT ![mine[p]] = "on"]
            /\ Live = {} /\ services = mine[p]
            /\ UNCHANGED <<services, made, serving, cancelled, mine>>
        BY <1>0, <3>0, <3>4 DEF Load, Goto, Progress, TypeOK, Holding
      <4>2. Live' = {mine[p]}
        BY <1>0, <4>1 DEF Live
      <4>3. Progress(p)' /\ pc'[p] # "idle" /\ \A q \in Callers \ {p} : pc'[q] = pc[q]
        BY <1>0, <4>1, <4>2 DEF Progress
      <4> QED BY <2>0, <4>3, SeqStep
    <3>5. CASE Bind(p)
      <4>1. /\ pc[p] = "bind" /\ pc' = [pc EXCEPT ![p] = "idle"]
            /\ serving' = serving \cup {mine[p]} /\ mine[p] \in Instances
            /\ UNCHANGED <<services, watcher>>
        BY <1>0, <3>5 DEF Bind, Return, Goto, TypeOK, Holding
      <4>2. Truth'
        BY <3>0, <4>1, InstanceTypes DEF Progress, Truth, Live
      <4>3. Progress(p)' /\ \A q \in Callers \ {p} : pc'[q] = pc[q]
        BY <1>0, <4>1 DEF Progress
      <4> QED BY <2>0, <4>2, <4>3, SeqStep
    <3>6. CASE Forget(p)
      <4>1. /\ pc[p] = "forget" /\ pc' = [pc EXCEPT ![p] = "idle"]
            /\ services' = None /\ UNCHANGED <<watcher, serving>>
        BY <3>6 DEF Forget, Return, Goto, instanceVars
      <4>2. Truth'
        BY <3>0, <4>1 DEF Progress, Truth, Live
      <4>3. Progress(p)' /\ \A q \in Callers \ {p} : pc'[q] = pc[q]
        BY <1>0, <4>1 DEF Progress
      <4> QED BY <2>0, <4>2, <4>3, SeqStep
    <3>7. CASE Remove(p)
      <4>1. /\ pc[p] = "removing" /\ services' = None
            /\ pc'[p] = (IF services = None THEN "idle" ELSE "halt")
            /\ \A q \in Callers \ {p} : pc'[q] = "idle"
            /\ mine'[p] = services
            /\ UNCHANGED <<watcher, serving, cancelled>>
        BY <1>0, <3>0, <3>7 DEF Remove, UnlockTo, instanceVars
      <4>2. Progress(p)' /\ (pc'[p] = "idle" => Truth')
        BY <3>0, <4>1 DEF Progress, Truth, Live
      <4> QED BY <2>0, <4>1, <4>2, SeqStep
    <3>8. CASE Halt(p)
      <4>1. /\ pc[p] = "halt" /\ pc' = [pc EXCEPT ![p] = "cancel"]
            /\ Live = {mine[p]} /\ services = None /\ mine[p] \in Instances
            /\ watcher' = [watcher EXCEPT ![mine[p]] = IF @ = "on" THEN "cancelled" ELSE @]
            /\ services' = services
        BY <1>0, <3>0, <3>8 DEF Halt, CancelWatcher, Goto, Progress, TypeOK, Holding
      <4>2. Live' = {}
        BY <1>0, <4>1 DEF Live
      <4>3. Progress(p)' /\ pc'[p] # "idle" /\ \A q \in Callers \ {p} : pc'[q] = pc[q]
        BY <1>0, <4>1, <4>2 DEF Progress
      <4> QED BY <2>0, <4>3, SeqStep
    <3>9. CASE Cancel(p)
      <4>1. /\ pc[p] = "cancel" /\ pc' = [pc EXCEPT ![p] = "idle"]
            /\ Live = {} /\ services = None /\ mine[p] \in Instances
            /\ watcher' = [watcher EXCEPT ![mine[p]] = IF @ = "on" THEN "cancelled" ELSE @]
            /\ services' = services
        BY <1>0, <3>0, <3>9 DEF Cancel, CancelWatcher, Return, Goto, Progress, TypeOK, Holding
      <4>2. Live' = {}
        BY <1>0, <4>1 DEF Live
      <4>3. Truth' /\ Progress(p)' /\ \A q \in Callers \ {p} : pc'[q] = pc[q]
        BY <1>0, <4>1, <4>2 DEF Progress, Truth
      <4> QED BY <2>0, <4>3, SeqStep
    <3> QED
      BY <1>b, <3>1, <3>2, <3>3, <3>4, <3>5, <3>6, <3>7, <3>8, <3>9 DEF Step
  <2> QED BY <1>0, <2>1, <2>2 DEF SeqInv
<1>c. CASE Exit
  <2>1. Init'
    BY <1>c DEF Exit, Init
  <2> QED BY <2>1, SeqInit, PTL
<1>d. CASE UNCHANGED vars
  <2>1. Sequential' /\ Unmade'
    BY <1>0, <1>d
       DEF vars, Sequential, Unmade, Alone, Idle, Truth, Live, Progress
  <2> QED BY <1>0, <2>1 DEF SeqInv
<1> QED
  BY <1>a, <1>b, <1>c, <1>d DEF Next

\* While calls do not overlap, the map of the manager is the truth about what runs,
\* for any number of calls, instances and failed starts.
THEOREM MapIsTrue == Spec => []MapTellsTruth
<1>1. SeqInv => MapTellsTruth
  BY DEF SeqInv, Sequential, Truth, MapTellsTruth
<1> QED BY <1>1, SeqInit, SeqNext, PTL DEF Spec

\* While calls do not overlap, every step of StartService and StopService is a
\* start of the only instance, a stop of it, or a stutter of OneService.
THEOREM ImplementsOneService == Spec => ActsLikeOneService
<1>1. Init => One!Init
  BY DEF Init, One!Init, Live
<1>2. SeqInv /\ [Next]_vars => [overlapped' \/ One!Next]_Live
  <2> SUFFICES ASSUME SeqInv, [Next]_vars, ~overlapped', Live' # Live
               PROVE  One!Next
    OBVIOUS
  <2>0. TypeOK /\ Sequential
    BY DEF SeqInv, SafeInv
  <2>1. CASE Exit
    <3>1. Live' = {}
      BY <2>1 DEF Exit, Live
    <3> QED BY <3>1 DEF One!Next, One!Stop
  <2>2. ASSUME NEW p \in Callers, Load(p)
        PROVE  One!Next
    <3>1. mine[p] \in Instances /\ ~overlapped /\ Live = {} /\ mine[p] \notin cancelled
      BY <2>0, <2>2 DEF Load, TypeOK, Holding, Sequential, Progress
    <3>2. Live' = {mine[p]}
      BY <2>0, <2>2, <3>1 DEF Load, Live, TypeOK
    <3> QED BY <3>1, <3>2 DEF One!Next, One!Start
  <2>3. ASSUME NEW p \in Callers, Halt(p) \/ Cancel(p)
        PROVE  One!Next
    <3>1. /\ mine[p] \in Instances /\ ~overlapped
          /\ Live = {} \/ Live = {mine[p]}
      BY <2>0, <2>3 DEF Halt, Cancel, TypeOK, Holding, Sequential, Progress
    <3>2. Live' = {}
      BY <2>0, <2>3, <3>1 DEF Halt, Cancel, CancelWatcher, Live, TypeOK
    <3> QED BY <3>2 DEF One!Next, One!Stop
  <2>4. CASE UNCHANGED watcher
    BY <2>4 DEF Live
  <2> QED
    BY <2>1, <2>2, <2>3, <2>4
       DEF Next, Step, Locking, Call, LockRead, LockInsert, LockRemove, Look, Make, Insert,
           Bind, Refuse, Forget, Remove, instanceVars, vars
<1> QED BY <1>1, <1>2, SeqInit, SeqNext, PTL DEF Spec, ActsLikeOneService

=============================================================================
