------------------------ MODULE ConfigMapSync_proofs ------------------------
(***************************************************************************)
(* What holds of the ConfigMap controller for any set of hosts, any number *)
(* of changes, faults and subscribers, and any capacity of the channels.   *)
(***************************************************************************)
EXTENDS ConfigMapSync, EcsNode_proofs

CmOK ==
  /\ cm \in Data /\ cache \in Data
  /\ stale \in BOOLEAN /\ cmWork \in BOOLEAN /\ cmSending \in BOOLEAN /\ telling \in BOOLEAN
  /\ triggers \in 0..CmTriggerCap /\ retries \in Nat
  /\ sync \in [on : BOOLEAN, base : Data, fresh : BOOLEAN]

\* The parts make up the type invariant.
LEMMA TypeParts == EcsTypes /\ CmOK <=> TypeOK
BY EcsTypeParts DEF TypeOK, CmOK

\* What the ConfigMap may hold includes every copy of hostips.
LEMMA DataType == Absent \in Data /\ HostMap \subseteq Data /\ Edits \cup {Absent} \subseteq Data
<1>1. HostMap \subseteq [Ips -> SUBSET (Ips \cup {NoIp})]
  BY DEF HostMap
<1> QED BY <1>1, EditsAssumption DEF Data

\* No sync is under way.
LEMMA NoSyncType == NoSync \in [on : BOOLEAN, base : Data, fresh : BOOLEAN]
BY DataType DEF NoSync

\* Whatever the composed system does, EcsNode does one of its own steps, or none.
LEMMA StepsOfEcs == ASSUME [Next]_vars PROVE EcsNext
<1> DEFINE still == UNCHANGED <<apiVars, pubVars, subVars>> /\ (Fault \/ UNCHANGED faults)
<1>1. CASE UNCHANGED vars
  BY <1>1 DEF vars, ecsVars, apiVars, pubVars, subVars, EcsNext
<1>2. CASE EcsApi /\ UNCHANGED cmVars
  BY <1>2 DEF EcsNext
<1>3. CASE Ecs
  BY <1>3 DEF Ecs, EcsNext
<1>4. CASE CmWorker
  <2>1. still
    BY <1>4 DEF CmWorker, CmReconcile, CmSend, ecsVars, apiVars, pubVars, subVars
  <2> QED BY <2>1 DEF EcsNext
<1>5. CASE CmReader
  <2>1. CASE CmReceive \/ CmRead \/ CmMerged
    BY <2>1, MeAssumption DEF CmReceive, CmRead, CmMerged, Reader, EcsNext
  <2>2. CASE Tell \/ SyncGet \/ SyncPut
    <3>1. still
      BY <2>2 DEF Tell, SyncGet, SyncPut, ecsVars, apiVars, pubVars, subVars
    <3> QED BY <3>1 DEF EcsNext
  <2> QED BY <1>5, <2>1, <2>2 DEF CmReader
<1>6. CASE Deliver \/ Retry \/ Edit
  <2>1. still
    BY <1>6 DEF Deliver, Retry, Edit, ecsVars, apiVars, pubVars, subVars
  <2> QED BY <2>1 DEF EcsNext
<1>7. CASE CmCrash
  BY <1>7 DEF CmCrash, EcsNext
<1> QED BY <1>1, <1>2, <1>3, <1>4, <1>5, <1>6, <1>7 DEF Next

-----------------------------------------------------------------------------
(* Types *)

\* A trigger that is sent fits into the channel.
LEMMA TriggersType ==
  ASSUME CmOK
  PROVE  /\ triggers < CmTriggerCap => triggers + 1 \in 0..CmTriggerCap
         /\ triggers > 0 => triggers - 1 \in 0..CmTriggerCap
         /\ 0 \in 0..CmTriggerCap
BY CmCapAssumption DEF CmOK

\* Every step keeps the types of the ConfigMap controller's own variables.
LEMMA CmNextType == ASSUME EcsTypes, CmOK, [Next]_vars PROVE CmOK'
<1> USE TriggersType
<1>1. CASE UNCHANGED cmVars
  BY <1>1 DEF cmVars, storeVars, workVars, loopVars, CmOK
<1>2. CASE CmReconcile
  <2>1. cmSending' \in BOOLEAN
    BY <1>2 DEF CmReconcile, CmOK
  <2> QED BY <1>2, <2>1 DEF CmReconcile, storeVars, loopVars, CmOK
<1>3. CASE CmSend
  BY <1>3 DEF CmSend, storeVars, CmOK
<1>4. CASE CmMerged
  <2>1. telling' \in BOOLEAN
    BY <1>4, MeAssumption DEF CmMerged, EcsTypes, SubOK
  <2> QED BY <1>4, <2>1 DEF CmMerged, storeVars, workVars, CmOK
<1>5. CASE Tell
  BY <1>5 DEF Tell, storeVars, workVars, CmOK
<1>6. CASE SyncGet
  <2>1. sync' \in [on : BOOLEAN, base : Data, fresh : BOOLEAN]
    BY <1>6 DEF SyncGet, CmOK
  <2> QED BY <1>6, <2>1 DEF SyncGet, storeVars, workVars, CmOK
<1>7. CASE SyncPut
  <2>1. cm' \in Data /\ stale' \in BOOLEAN
    BY <1>7, DataType, MeAssumption DEF SyncPut, Store, CmOK, EcsTypes, SubOK
  <2>2. retries' \in Nat
    BY <1>7 DEF SyncPut, Store, CmOK
  <2> QED BY <1>7, <2>1, <2>2, NoSyncType DEF SyncPut, workVars, CmOK
<1>8. CASE Deliver
  BY <1>8 DEF Deliver, loopVars, CmOK
<1>9. CASE Retry
  <2>1. retries' \in Nat
    BY <1>9 DEF Retry, CmOK
  <2> QED BY <1>9, <2>1 DEF Retry, storeVars, workVars, CmOK
<1>10. CASE Edit
  <2>1. cm' \in Data
    BY <1>10, DataType DEF Edit, Store
  <2>2. sync' \in [on : BOOLEAN, base : Data, fresh : BOOLEAN]
    BY <1>10 DEF Edit, CmOK
  <2> QED BY <1>10, <2>1, <2>2 DEF Edit, Store, workVars, CmOK
<1>11. CASE CmCrash
  <2>1. cmWork' \in BOOLEAN
    BY <1>11 DEF CmCrash
  <2> QED BY <1>11, <2>1, NoSyncType DEF CmCrash, CmOK
<1>12. UNCHANGED vars => UNCHANGED cmVars
  BY DEF vars
<1> QED BY <1>1, <1>2, <1>3, <1>4, <1>5, <1>6, <1>7, <1>8, <1>9, <1>10, <1>11, <1>12
        DEF Next, Ecs, CmWorker, CmReader, CmReceive, CmRead

\* The types hold at the start.
LEMMA CmInitType == ASSUME Init PROVE EcsTypes /\ CmOK
<1>1. EcsTypes
  BY EcsInitType DEF Init
<1>2. cm \in Data /\ cmWork \in BOOLEAN /\ 0 \in 0..CmTriggerCap
  BY DataType, CmCapAssumption DEF Init
<1>3. CmOK
  BY <1>2, NoSyncType DEF Init, CmOK
<1> QED BY <1>1, <1>3

\* configmap.go, ecnode.go, pubsub.go: every variable keeps its type; no channel gets
\* more than its capacity, whatever is sent while the receiver sends itself.
THEOREM TypeCorrect == Spec => []TypeOK
<1>1. Init => EcsTypes /\ CmOK
  BY CmInitType
<1>2. EcsTypes /\ CmOK /\ [Next]_vars => (EcsTypes /\ CmOK)'
  BY StepsOfEcs, EcsNextType, CmNextType
<1>3. EcsTypes /\ CmOK => TypeOK
  BY TypeParts
<1> QED BY <1>1, <1>2, <1>3, PTL DEF Spec

\* ecnode.go:121-128, 173-187, pubsub.go:80-87, configmap.go:106-121: no subscriber
\* ever misses a change for good, although messages are dropped, the map is read
\* without a lock, and the trigger is sent after the map has changed.
THEOREM NoUpdateIsLost == Spec => []NoLostUpdate
<1>1. Init => EcsTypes /\ CmOK /\ NoLostUpdate
  BY CmInitType, EcsInitFollows DEF Init
<1>2. EcsTypes /\ CmOK /\ NoLostUpdate /\ [Next]_vars => (EcsTypes /\ CmOK /\ NoLostUpdate)'
  BY StepsOfEcs, EcsNextType, CmNextType, EcsNextFollows
<1> QED BY <1>1, <1>2, PTL DEF Spec

-----------------------------------------------------------------------------
(* No lost sync *)

CacheFollows == ~stale => cache = cm

\* The goroutine that syncs, or sends to itself, reads no message meanwhile.
SyncAlone == sync.on \/ telling => reading[Me] = Idle

\* A version of the ConfigMap that was read fresh is still the last one.
BaseIsLast == sync.on /\ sync.fresh => sync.base = cm

\* Something will write or compare the ConfigMap again.  Reading counts only if the
\* copy has changed, and a sync under way only if its write can succeed.
Coming ==
  \/ stale \/ cmWork \/ cmSending \/ telling \/ triggers > 0 \/ retries > 0
  \/ reading[Me] # Idle /\ changed[Me]
  \/ sync.on /\ sync.fresh

Synced == cm = copy[Me] \/ NotSynced \/ Coming

SyncInv == CacheFollows /\ SyncAlone /\ BaseIsLast /\ Synced

\* A step that leaves these alone keeps the invariant.
LEMMA SameSync ==
  ASSUME SyncInv, UNCHANGED <<cmVars, copy, reading, changed>> PROVE SyncInv'
BY DEF SyncInv, CacheFollows, SyncAlone, BaseIsLast, Synced, NotSynced, Coming,
       cmVars, storeVars, workVars, loopVars

\* A step of the loops either leaves the copy alone or is remembered in changed.
LEMMA ReadSync ==
  ASSUME EcsTypes, CmOK, SyncInv, CmRead PROVE SyncInv'
<1>0. UNCHANGED cmVars /\ (StartPrune(Me) \/ \E k \in Ips : ReadHost(Me, k) \/ PruneHost(Me, k))
  BY DEF CmRead
<1>1. reading[Me] # Idle /\ reading'[Me] # Idle
  <2>1. ASSUME NEW k \in Ips, ReadHost(Me, k) PROVE reading[Me] # Idle /\ reading'[Me] # Idle
    BY <2>1, IdleIsNoSet, MeAssumption DEF ReadHost, EcsTypes, SubOK
  <2>2. StartPrune(Me) \/ (\E k \in Ips : PruneHost(Me, k)) => reading[Me] = {} /\ reading' = reading
    BY DEF StartPrune, PruneHost
  <2> QED BY <1>0, <2>1, <2>2, IdleIsNoSet
<1>2. ~sync.on /\ ~telling /\ sync' = sync /\ telling' = telling
  BY <1>0, <1>1 DEF SyncInv, SyncAlone, cmVars, loopVars
<1>3. CASE UNCHANGED <<copy, changed>>
  BY <1>0, <1>1, <1>2, <1>3 DEF SyncInv, CacheFollows, SyncAlone, BaseIsLast, Synced, NotSynced, Coming,
       cmVars, storeVars, workVars, loopVars
<1>4. CASE changed' = [changed EXCEPT ![Me] = TRUE]
  <2>1. changed'[Me]
    BY <1>4, MeAssumption DEF EcsTypes, SubOK
  <2>2. Synced'
    BY <1>1, <2>1 DEF Synced, Coming
  <2> QED BY <1>0, <1>2, <2>2 DEF SyncInv, CacheFollows, SyncAlone, BaseIsLast,
       cmVars, storeVars, workVars, loopVars
<1> QED BY <1>0, <1>3, <1>4 DEF ReadHost, StartPrune, PruneHost, Deleted

\* Every step keeps the invariant.
LEMMA SyncNext ==
  ASSUME EcsTypes, CmOK, SyncInv, [Next]_vars PROVE SyncInv'
<1> USE DEF SyncInv, CacheFollows, SyncAlone, BaseIsLast, Synced
<1>1. CASE UNCHANGED vars
  BY <1>1, SameSync DEF vars, ecsVars, subVars
<1>2. CASE EcsApi /\ UNCHANGED cmVars
  <2>1. UNCHANGED subVars
    BY <1>2 DEF EcsApi, WriteObject, FinalizeObject, Vanish, Touch
  <2> QED BY <1>2, <2>1, SameSync DEF subVars
<1>3. CASE Ecs
  <2>1. UNCHANGED <<copy, reading, changed>>
    BY <1>3 DEF Ecs, Controller, SendTrigger, Reconcile, Publish, subVars
  <2> QED BY <1>3, <2>1, SameSync DEF Ecs
<1>4. CASE CmReconcile
  <2>1. UNCHANGED <<storeVars, loopVars, copy, reading, changed>>
    BY <1>4 DEF CmReconcile, ecsVars, subVars
  <2>2. CASE NotSynced
    BY <2>1, <2>2 DEF NotSynced, storeVars, loopVars
  <2>3. CASE ~NotSynced /\ cache = Absent
    <3>1. cmSending'
      BY <1>4, <2>3 DEF CmReconcile
    <3> QED BY <2>1, <3>1 DEF Coming, storeVars, loopVars
  <2>4. CASE ~NotSynced /\ cache # Absent
    <3>1. cmSending' = (cache # copy[Me])
      BY <1>4, <2>4 DEF CmReconcile
    <3>2. CASE cache # copy[Me]
      BY <2>1, <3>1, <3>2 DEF Coming, storeVars, loopVars
    <3>3. CASE cache = copy[Me]
      BY <2>1, <3>3 DEF Coming, storeVars, loopVars
    <3> QED BY <3>2, <3>3
  <2> QED BY <2>2, <2>3, <2>4
<1>5. CASE CmSend \/ Tell \/ Retry
  <2>1. triggers' > 0
    BY <1>5 DEF CmSend, Tell, Retry, CmOK
  <2>2. UNCHANGED <<storeVars, sync, reading>> /\ (telling' => telling)
    BY <1>5 DEF CmSend, Tell, Retry, ecsVars, subVars
  <2> QED BY <2>1, <2>2 DEF Coming, storeVars
<1>6. CASE CmReceive
  <2>1. ~sync.on /\ ~telling /\ reading[Me] = Idle
    BY <1>6 DEF CmReceive, AtSelect
  <2>2. UNCHANGED <<cmVars, copy>>
    BY <1>6 DEF CmReceive, Receive
  <2> QED BY <2>1, <2>2 DEF Coming, NotSynced, cmVars, storeVars, workVars, loopVars
<1>7. CASE CmRead
  BY <1>7, ReadSync
<1>8. CASE CmMerged
  <2>1. reading[Me] = {} /\ {} # Idle
    BY <1>8, IdleIsNoSet DEF CmMerged, Merged
  <2>2. ~sync.on /\ ~telling /\ reading'[Me] = Idle
    BY <1>8, <2>1, MeAssumption DEF CmMerged, Merged, EcsTypes, SubOK
  <2>3. UNCHANGED <<storeVars, workVars, triggers, sync, retries>> /\ telling' = changed[Me]
    BY <1>8 DEF CmMerged
  <2>4. CASE changed[Me]
    BY <2>2, <2>3, <2>4 DEF Coming, storeVars
  <2>5. CASE ~changed[Me]
    <3>1. copy' = copy
      BY <1>8 DEF CmMerged, Merged
    <3> QED BY <2>2, <2>3, <2>5, <3>1 DEF Coming, NotSynced, storeVars, workVars
  <2> QED BY <2>4, <2>5
<1>9. CASE SyncGet
  <2>1. sync' = [on |-> TRUE, base |-> cache, fresh |-> ~stale] /\ reading[Me] = Idle
    BY <1>9 DEF SyncGet, AtSelect
  <2>2. UNCHANGED <<storeVars, copy, reading>>
    BY <1>9 DEF SyncGet, ecsVars, subVars
  <2> QED BY <2>1, <2>2 DEF Coming, storeVars, CmOK
<1>10. CASE SyncPut
  <2>1. sync' = NoSync /\ UNCHANGED <<copy, reading, changed, cache, workVars, telling, triggers>>
    BY <1>10 DEF SyncPut, subVars
  <2>2. ~sync'.on
    BY <2>1 DEF NoSync
  <2>3. CASE UpToDate(sync.base) /\ UNCHANGED <<cm, stale, retries, faults>>
    BY <2>1, <2>2, <2>3 DEF UpToDate, Coming, NotSynced, workVars
  <2>4. CASE Store(copy[Me])
    BY <2>1, <2>2, <2>4 DEF Store
  <2>5. CASE retries' = retries + 1 /\ UNCHANGED <<cm, stale>>
    <3>1. retries' > 0
      BY <2>5 DEF CmOK
    <3> QED BY <2>1, <2>2, <2>5, <3>1 DEF Coming
  <2> QED BY <1>10, <2>3, <2>4, <2>5 DEF SyncPut
<1>11. CASE Deliver
  BY <1>11 DEF Deliver, Coming, ecsVars, subVars, loopVars
<1>12. CASE Edit
  <2>1. stale' /\ sync' = [sync EXCEPT !.fresh = FALSE] /\ UNCHANGED <<reading, telling>>
    BY <1>12 DEF Edit, Store, subVars
  <2>2. sync'.on = sync.on /\ ~sync'.fresh
    BY <2>1 DEF CmOK
  <2> QED BY <2>1, <2>2 DEF Coming
<1>13. CASE CmCrash
  <2>1. copy'[Me] = NoHosts /\ ~sync'.on /\ ~telling' /\ cache' = cm /\ cm' = cm
    BY <1>13, MeAssumption DEF CmCrash, EcsCrash, EcsRestart, NoSync
  <2> QED BY <2>1 DEF NotSynced
<1> QED BY <1>1, <1>2, <1>3, <1>4, <1>5, <1>6, <1>7, <1>8, <1>9, <1>10, <1>11, <1>12, <1>13
        DEF Next, CmWorker, CmReader

\* At the start nothing is known yet.
LEMMA SyncInit == ASSUME Init PROVE SyncInv
BY MeAssumption
   DEF Init, EcsInit, NoSync, SyncInv, CacheFollows, SyncAlone, BaseIsLast, Synced, NotSynced

\* configmap.go:123-140, 154-183: a ConfigMap that differs from the copy is always
\* about to be compared or written again: no stale read, conflict, failed write or
\* edit by others, at whatever moment, leaves it different for good.
THEOREM NoSyncIsLost == Spec => []NoLostSync
<1>1. Init => EcsTypes /\ CmOK /\ SyncInv
  BY CmInitType, SyncInit
<1>2. EcsTypes /\ CmOK /\ SyncInv /\ [Next]_vars => (EcsTypes /\ CmOK /\ SyncInv)'
  BY StepsOfEcs, EcsNextType, CmNextType, SyncNext
<1>3. SyncInv => NoLostSync
  BY DEF SyncInv, Synced, Coming, NoLostSync
<1> QED BY <1>1, <1>2, <1>3, PTL DEF Spec

-----------------------------------------------------------------------------
\* ecnode.go:110-131, configmap.go:98-126: for any number of subscribers and whatever
\* their channels hold, what they see is only ever what is published at that moment.
THEOREM CopiesAreHosts == Spec => CopiesHosts
<1>1. Init => EcsTypes /\ CmOK /\ Promise!Init
  BY CmInitType, PromiseInit DEF Init
<1>2. EcsTypes /\ CmOK /\ [Next]_vars => (EcsTypes /\ CmOK)'
  BY StepsOfEcs, EcsNextType, CmNextType
<1>3. EcsTypes /\ EcsTypes' /\ [Next]_vars => [Promise!Next]_(Promise!vars)
  BY StepsOfEcs, Simulates
<1> QED BY <1>1, <1>2, <1>3, PTL DEF Spec, CopiesHosts, Promise!Spec

-----------------------------------------------------------------------------
(* No sync takes away the entry of a host that exists *)

\* No ECSNode that stays has the master IP of one that is being deleted: the key of
\* an entry is all that tells two hosts apart (ecnode.go:173-187).
HostsDiffer == \A o \in Live, d \in deleting : MasterIp(node[o]) # MasterIp(node[d])

\* Before onceInit nothing is known, sent or written.
AtRest ==
  ~inited =>
    /\ ~sending /\ trigger = 0 /\ queue[Me] = 0 /\ reading[Me] = Idle /\ copy[Me] = NoHosts
    /\ ~cmSending /\ ~telling /\ triggers = 0 /\ retries = 0 /\ ~sync.on

\* After it, hostips has every host whose object has been reconciled.
HostsKnown == inited => \A o \in Live \ work : hostips[MasterIp(node[o])] # {}

\* A new process is at rest until its first Reconcile.
LEMMA AtRestNext ==
  ASSUME EcsTypes, CmOK, AtRest, [Next]_vars PROVE AtRest'
<1> SUFFICES ASSUME ~inited'
             PROVE  (/\ ~sending /\ trigger = 0 /\ queue[Me] = 0 /\ reading[Me] = Idle
                     /\ copy[Me] = NoHosts
                     /\ ~cmSending /\ ~telling /\ triggers = 0 /\ retries = 0 /\ ~sync.on)'
  BY DEF AtRest
<1>1. CASE CmCrash
  BY <1>1, MeAssumption DEF CmCrash, EcsCrash, EcsRestart, NoSync
<1>2. CASE ~CmCrash
  <2>1. ~inited
    BY <1>2 DEF Next, EcsApi, WriteObject, FinalizeObject, Vanish, Touch, Ecs, Controller, SendTrigger,
        Reconcile, OnceInit, Ignore, Update, Publish, CmWorker, CmReconcile, CmSend, CmReader, CmReceive,
        Receive, CmRead, ReadHost, StartPrune, PruneHost, CmMerged, Merged, Tell, SyncGet, SyncPut, Deliver,
        Retry, Edit, vars, ecsVars, pubVars
  <2>2. /\ ~sending /\ trigger = 0 /\ queue[Me] = 0 /\ reading[Me] = Idle /\ copy[Me] = NoHosts
        /\ ~cmSending /\ ~telling /\ triggers = 0 /\ retries = 0 /\ ~sync.on
    BY <2>1 DEF AtRest
  <2>3. CASE UNCHANGED vars
    BY <2>2, <2>3 DEF vars, ecsVars, pubVars, subVars, cmVars, workVars, loopVars
  <2>4. CASE EcsApi /\ UNCHANGED cmVars
    BY <2>2, <2>4 DEF EcsApi, WriteObject, FinalizeObject, Vanish, Touch, subVars, cmVars, workVars, loopVars
  <2>5. ~Ecs
    BY <1>2, <2>1, <2>2 DEF Ecs, Controller, SendTrigger, Reconcile, OnceInit, Ignore, Update, Publish
  <2>6. CASE CmReconcile
    <3>1. NotSynced
      BY <2>2 DEF NotSynced
    <3> QED BY <2>2, <2>6, <3>1 DEF CmReconcile, ecsVars, pubVars, subVars, loopVars
  <2>7. ~CmSend /\ ~CmReceive /\ ~CmRead /\ ~Tell /\ ~SyncGet /\ ~SyncPut /\ ~Retry
    BY <2>2, IdleIsNoSet
    DEF CmSend, CmReceive, Receive, CmRead, ReadHost, StartPrune, PruneHost, Tell, SyncGet, SyncPut, Retry
  <2>8. ~CmMerged
    BY <2>2, IdleIsNoSet DEF CmMerged, Merged
  <2>9. CASE Deliver
    BY <2>2, <2>9 DEF Deliver, ecsVars, pubVars, subVars, loopVars
  <2>10. CASE Edit
    <3>1. sync'.on = sync.on
      BY <2>10 DEF Edit, CmOK
    <3> QED BY <2>2, <2>10, <3>1 DEF Edit, pubVars, subVars, workVars
  <2> QED BY <1>2, <2>3, <2>4, <2>5, <2>6, <2>7, <2>8, <2>9, <2>10 DEF Next, CmWorker, CmReader
<1> QED BY <1>1, <1>2

\* A change of an object is queued before it shows; a Reconcile, of the whole list or of
\* one object, gives each host it has seen an entry.
LEMMA HostsKnownNext ==
  ASSUME EcsTypes, HostsDiffer, HostsKnown, [Next]_vars PROVE HostsKnown'
<1> SUFFICES ASSUME inited', NEW o \in Live', o \notin work'
             PROVE  hostips'[MasterIp(node'[o])] # {}
  BY DEF HostsKnown
<1> USE DEF EcsTypes
<1>1. o \in Objects /\ node'[o] # Absent /\ MasterIp(node'[o]) # NoIp /\ o \notin deleting'
  BY DEF Live, HasMaster, Present
<1>2. CASE UNCHANGED <<apiVars, pubVars>>
  <2>1. o \in Live /\ o \notin work /\ inited
    BY <1>1, <1>2 DEF apiVars, pubVars, Live, HasMaster, Present
  <2> QED BY <1>2, <2>1 DEF apiVars, pubVars, HostsKnown
<1>3. CASE EcsApi
  <2>1. PICK q \in Objects : WriteObject(q) \/ FinalizeObject(q) \/ Vanish(q)
    BY <1>3 DEF EcsApi
  <2>2. work' = work \cup {q} /\ UNCHANGED <<hostips, inited>>
    BY <2>1 DEF WriteObject, FinalizeObject, Vanish, Touch
  <2>3. o # q /\ o \notin work
    BY <2>2
  <2>4. node'[o] = node[o] /\ (o \in deleting => o \in deleting')
    <3>1. node \in [Objects -> Specs]
      BY DEF ApiOK
    <3>2. CASE WriteObject(q)
      BY <1>1, <2>3, <3>1, <3>2 DEF WriteObject
    <3>3. CASE FinalizeObject(q)
      BY <3>3 DEF FinalizeObject
    <3>4. CASE Vanish(q)
      BY <1>1, <2>3, <3>1, <3>4 DEF Vanish
    <3> QED BY <2>1, <3>2, <3>3, <3>4
  <2>5. o \in Live
    BY <1>1, <2>4 DEF Live, HasMaster, Present
  <2> QED BY <2>2, <2>3, <2>4, <2>5 DEF HostsKnown
<1>4. CASE SendTrigger
  <2>1. UNCHANGED <<apiVars, work, inited, hostips>>
    BY <1>4 DEF SendTrigger
  <2> QED BY <1>1, <2>1 DEF apiVars, Live, HasMaster, Present, HostsKnown
<1>5. CASE Publish
  <2>1. UNCHANGED <<apiVars, work, inited, hostips>>
    BY <1>5 DEF Publish
  <2> QED BY <1>1, <2>1 DEF apiVars, Live, HasMaster, Present, HostsKnown
<1>6. ASSUME NEW q \in Objects, Reconcile(q) PROVE hostips'[MasterIp(node'[o])] # {}
  <2>1. UNCHANGED <<node, deleting>> /\ work' = work \ {q}
    BY <1>6 DEF Reconcile, apiVars
  <2>2. HasMaster(o) /\ o \in Present /\ o \in Live
    BY <1>1, <2>1 DEF HasMaster, Present, Live
  <2>3. MasterIp(node[o]) \in Ips /\ MasterIp(node[o]) \in IpSet(node[o])
    BY <2>2, IpSetType DEF HasMaster
  <2>4. CASE OnceInit(q)
    <3> DEFINE k    == MasterIp(node[o])
               here == {n \in Present : MasterIp(node[n]) = k}
    <3>1. hostips' \in Listed
      BY <2>4 DEF OnceInit
    <3>2. IF here = {} THEN hostips'[k] = {} ELSE \E n \in here : hostips'[k] = IpSet(node[n])
      BY <2>3, <3>1 DEF Listed
    <3>3. PICK n \in here : hostips'[k] = IpSet(node[n])
      BY <2>2, <3>2
    <3>4. n \in Present /\ HasMaster(n) /\ MasterIp(node[n]) = k
      BY <2>2, <3>3 DEF HasMaster
    <3>5. k \in IpSet(node[n])
      BY <3>4, IpSetType
    <3> QED BY <2>1, <3>3, <3>5
  <2>5. CASE Ignore(q)
    <3>1. o # q /\ o \notin work /\ inited
      BY <2>1, <2>2, <2>5 DEF Ignore
    <3> QED BY <2>1, <2>2, <2>5, <3>1 DEF Ignore, HostsKnown
  <2>6. CASE Update(q)
    <3>1. hostips' = [hostips EXCEPT ![MasterIp(node[q])] = Entry(q)] /\ HasMaster(q) /\ inited
      BY <2>6 DEF Update
    <3>2. CASE MasterIp(node[o]) = MasterIp(node[q])
      <4>1. q \notin deleting
        BY <2>2, <3>2 DEF HostsDiffer
      <4>2. hostips'[MasterIp(node[o])] = IpSet(node[q])
        BY <2>3, <3>1, <3>2, <4>1 DEF PubOK, HostMap, Entry
      <4>3. q \in Present
        BY <3>1 DEF HasMaster
      <4> QED BY <2>1, <3>1, <3>2, <4>2, <4>3, IpSetType
    <3>3. CASE MasterIp(node[o]) # MasterIp(node[q])
      <4>1. o \notin work
        BY <2>1, <3>3
      <4>2. hostips'[MasterIp(node[o])] = hostips[MasterIp(node[o])]
        BY <2>3, <3>1, <3>3 DEF PubOK, HostMap
      <4> QED BY <2>1, <2>2, <3>1, <4>1, <4>2 DEF HostsKnown
    <3> QED BY <3>2, <3>3
  <2> QED BY <1>6, <2>4, <2>5, <2>6 DEF Reconcile
<1>7. CASE CmCrash
  BY <1>7 DEF CmCrash, EcsCrash, EcsRestart
<1>8. CASE CmWorker \/ CmReader \/ Deliver \/ Retry \/ Edit \/ UNCHANGED vars
  BY <1>2, <1>8
  DEF CmWorker, CmReconcile, CmSend, CmReader, CmReceive, Receive, CmRead, ReadHost, StartPrune,
      PruneHost, CmMerged, Merged, Tell, SyncGet, SyncPut, Deliver, Retry, Edit, vars, ecsVars
<1> QED BY <1>3, <1>4, <1>5, <1>6, <1>7, <1>8 DEF Next, Ecs, Controller

\* What a sync writes has every host of which nothing is on its way.
LEMMA SyncKeepsHosts ==
  ASSUME EcsTypes, NoLostUpdate, SyncInv, AtRest, HostsKnown, SyncPut, cm # Absent,
         NEW o \in Live, inited => ~OnItsWay(o), cm[MasterIp(node[o])] \cap Ips # {}
  PROVE  cm'[MasterIp(node[o])] # {}
<1>1. CASE cm' = cm
  BY <1>1
<1>2. CASE cm' = copy[Me]
  <2>1. sync.on
    BY DEF SyncPut
  <2>2. inited /\ reading[Me] = Idle
    BY <2>1 DEF AtRest, SyncInv, SyncAlone
  <2>3. o \notin work /\ ~Told(Me)
    BY <2>2 DEF OnItsWay, Told
  <2>4. HasMaster(o) /\ o \in Present
    BY DEF Live, HasMaster
  <2>5. MasterIp(node[o]) \in Ips
    BY <2>4, IpSetType DEF HasMaster, EcsTypes
  <2>6. copy[Me][MasterIp(node[o])] = hostips[MasterIp(node[o])]
    BY <2>2, <2>3, <2>5, MeAssumption, FollowsAll DEF Follows
  <2> QED BY <1>2, <2>2, <2>3, <2>6 DEF HostsKnown
<1> QED BY <1>1, <1>2 DEF SyncPut, Store

\* configmap.go:154-157, ecnode.go:97-105: whatever crashes, edits, refused writes and
\* late messages there are, no write of the ConfigMap empties the entry of a host that
\* exists, also not the first one of a new process: a sync before onceInit, or one with
\* a copy made from half of the list, would.  Two hosts with one master IP, one of which
\* is deleted, share an entry, and lose it.  Once the hosts are listed, the property is about
\* the moments when nothing is OnItsWay to the copy.
THEOREM LiveHostsAreKept == Spec /\ []HostsDiffer => KeepsLiveHosts
<1> DEFINE Kept == SyncPut /\ cm # Absent =>
                     \A o \in Live :
                       LET k == MasterIp(node[o])
                       IN  (inited => ~OnItsWay(o)) /\ cm[k] \cap Ips # {} => cm'[k] # {}
           HInv == EcsTypes /\ CmOK /\ NoLostUpdate /\ SyncInv /\ AtRest /\ HostsKnown
<1>1. Init => HInv
  <2> SUFFICES ASSUME Init PROVE AtRest /\ HostsKnown
    BY CmInitType, EcsInitFollows, SyncInit DEF Init
  <2> QED BY MeAssumption DEF Init, EcsInit, NoSync, AtRest, HostsKnown
<1>2. HInv /\ HostsDiffer /\ [Next]_vars => HInv'
  BY StepsOfEcs, EcsNextType, CmNextType, EcsNextFollows, SyncNext, AtRestNext, HostsKnownNext
<1>3. HInv => Kept
  BY SyncKeepsHosts
<1> HIDE DEF HInv, Kept
<1>4. Spec /\ []HostsDiffer => [][Kept]_vars
  BY <1>1, <1>2, <1>3, PTL DEF Spec
<1> QED BY <1>4 DEF KeepsLiveHosts, Kept

=============================================================================
