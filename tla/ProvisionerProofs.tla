--------------------------- MODULE ProvisionerProofs ---------------------------
(***************************************************************************)
(* Theorems about Provisioner, for any databases and any bounds.           *)
(***************************************************************************)
EXTENDS Provisioner, FiniteSetTheorems, TLAPS

(*------------------------------- types -----------------------------------*)
LEMMA NothingYet == NoParameters \in Parameters /\ Idle \in Job
BY DEF NoParameters, Parameters, Idle, Job, Steps

(* What the three ways an actor goes on do to its job.                     *)
LEMMA GoType ==
  ASSUME job \in [Actors -> Job], NEW a \in Actors, NEW step \in Steps, Go(a, step)
  PROVE  job' \in [Actors -> Job]
<1>1. [job[a] EXCEPT !.step = step] \in Job
  BY DEF Job
<1> QED
  BY <1>1 DEF Go

LEMMA GoWithType ==
  ASSUME job \in [Actors -> Job], NEW a \in Actors, NEW step \in Steps,
         NEW c \in Parameters, GoWith(a, step, c)
  PROVE  job' \in [Actors -> Job]
<1>1. [step |-> step, copy |-> c] \in Job
  BY DEF Job
<1> QED
  BY <1>1 DEF GoWith

LEMMA StopType ==
  ASSUME job \in [Actors -> Job], NEW a \in Actors, Stop(a)
  PROVE  job' \in [Actors -> Job]
BY NothingYet DEF Stop

(* What is written into one database.                                      *)
AllDatabases == [Databases \cup {Foreign} -> Database]

LEMMA StatusWrite ==
  ASSUME TypeOK, NEW d \in Databases \cup {Foreign},
         NEW s \in {"none", "creating", "available", "deleting", "gone"}
  PROVE  [db EXCEPT ![d].status = s] \in AllDatabases
<1>1. db \in AllDatabases /\ db[d] \in Database
  BY DEF TypeOK, AllDatabases
<1>2. [db[d] EXCEPT !.status = s] \in Database
  BY <1>1 DEF Database
<1> QED
  BY <1>1, <1>2 DEF AllDatabases

LEMMA FlagWrite ==
  ASSUME TypeOK, NEW d \in Databases \cup {Foreign}, NEW b \in BOOLEAN
  PROVE  /\ [db EXCEPT ![d].protect = b] \in AllDatabases
         /\ [db EXCEPT ![d].replica = b] \in AllDatabases
         /\ [db EXCEPT ![d].recorded = b] \in AllDatabases
         /\ [db EXCEPT ![d].dropped = b] \in AllDatabases
         /\ [db EXCEPT ![d].kept = b] \in AllDatabases
<1>1. db \in AllDatabases /\ db[d] \in Database
  BY DEF TypeOK, AllDatabases
<1>2. /\ [db[d] EXCEPT !.protect = b] \in Database
      /\ [db[d] EXCEPT !.replica = b] \in Database
      /\ [db[d] EXCEPT !.recorded = b] \in Database
      /\ [db[d] EXCEPT !.dropped = b] \in Database
      /\ [db[d] EXCEPT !.kept = b] \in Database
  BY <1>1 DEF Database
<1> QED
  BY <1>1, <1>2 DEF AllDatabases

LEMMA OptionsType ==
  ASSUME NEW o \in Releases
  PROVE  o.source \in BOOLEAN /\ o.dropped \in BOOLEAN
<1>1. CASE o = Dropped
  BY <1>1 DEF Dropped
<1>2. CASE \E p \in Options : o = [protect |-> p.protect, import |-> p.import,
                                   source |-> p.source, dropped |-> FALSE]
  <2> PICK p \in Options : o = [protect |-> p.protect, import |-> p.import,
                               source |-> p.source, dropped |-> FALSE]
    BY <1>2
  <2>1. p.source \in BOOLEAN
    BY DEF Options
  <2> QED
    BY <2>1
<1> QED
  BY <1>1, <1>2 DEF Releases

LEMMA CopyType ==
  ASSUME TypeOK, NEW a \in Actors
  PROVE  /\ Copy(a) \in Parameters /\ job[a].step \in Steps
         /\ Copy(a).db \in Databases \cup {Foreign}
         /\ record.says \in Parameters
         /\ record.says.db \in Databases \cup {Foreign}
BY DEF TypeOK, Copy, Job, Parameters

LEMMA TypeInit == Init => TypeOK
<1> SUFFICES ASSUME Init PROVE TypeOK
  OBVIOUS
<1>1. db \in [Databases \cup {Foreign} -> Database]
  BY DEF Init, Database
<1>2. record \in [there : BOOLEAN, deleted : BOOLEAN, says : Parameters]
  BY NothingYet DEF Init, NoRecord
<1>3. job \in [Actors -> Job]
  BY NothingYet DEF Init
<1>4. wanted \in Releases /\ waiting \in BOOLEAN
  BY DEF Init, Releases
<1> QED
  <2>1. releases \in 0..MaxReleases /\ faults \in 0..MaxFaults
    BY ProvisionerAssumption DEF Init
  <2>2. ~record.deleted
    BY DEF Init, NoRecord
  <2> QED
    BY <1>1, <1>2, <1>3, <1>4, <2>1, <2>2 DEF Init, TypeOK

LEMMA TypeProvision ==
  ASSUME TypeOK, NEW o \in Releases, Provision(o) PROVE TypeOK'
<1>1. Updated(o, record.says) \in Parameters
  BY DEF Updated, TypeOK, Parameters
<1>2. job' \in [Actors -> Job]
  <2>1. "promote" \in Actors /\ job \in [Actors -> Job]
    BY DEF Actors, TypeOK
  <2>2. (\E step \in Steps : Go("promote", step))
        \/ (\E step \in Steps : GoWith("promote", step, Updated(o, record.says)))
    BY DEF Provision, Steps
  <2> QED
    BY <1>1, <2>1, <2>2, GoType, GoWithType
<1>3. releases' \in 0..MaxReleases
  <2>1. /\ releases \in 0..MaxReleases /\ releases < MaxReleases
        /\ releases' = releases + 1
    BY DEF Provision, TypeOK
  <2> QED
    BY <2>1, ProvisionerAssumption
<1> QED
  BY <1>2, <1>3 DEF Provision, TypeOK, aws

LEMMA TypeGroups ==
  TypeOK /\ (CreateGroup \/ AddIngressRule \/ CreateSubnetGroup) => TypeOK'
<1> SUFFICES ASSUME TypeOK, CreateGroup \/ AddIngressRule \/ CreateSubnetGroup
             PROVE  TypeOK'
  OBVIOUS
<1>1. \E step \in Steps : Go("promote", step)
  BY DEF CreateGroup, AddIngressRule, CreateSubnetGroup, Steps
<1>2. job' \in [Actors -> Job]
  BY <1>1, GoType DEF Actors, TypeOK
<1> QED
  BY <1>2 DEF CreateGroup, AddIngressRule, CreateSubnetGroup, TypeOK, rack

LEMMA TypeCreate == TypeOK /\ Create => TypeOK'
<1> SUFFICES ASSUME TypeOK, Create PROVE TypeOK'
  OBVIOUS
<1> PICK d \in Databases \ Made :
      /\ db' = [db EXCEPT ![d] = [db[d] EXCEPT !.status = "creating",
                  !.protect = (wanted.protect = "true") /\ kind = "rds",
                  !.replica = wanted.source]]
      /\ GoWith("promote", Created,
           [db |-> d, protect |-> wanted.protect = "true",
            source |-> wanted.source, groups |-> ~wanted.source, host |-> FALSE])
  BY DEF Create
<1>1. wanted.source \in BOOLEAN
  BY OptionsType DEF TypeOK
<1>2. [db |-> d, protect |-> wanted.protect = "true", source |-> wanted.source,
       groups |-> ~wanted.source, host |-> FALSE] \in Parameters
  BY <1>1 DEF Parameters
<1>3. job' \in [Actors -> Job]
  <2>1. Created \in Steps /\ "promote" \in Actors /\ job \in [Actors -> Job]
    BY DEF Actors, TypeOK, Created, Steps
  <2> QED
    BY <1>2, <2>1, GoWithType
<1>4. db' \in [Databases \cup {Foreign} -> Database]
  <2>1. db \in [Databases \cup {Foreign} -> Database] /\ db[d] \in Database
    BY DEF TypeOK
  <2>2. [db[d] EXCEPT !.status = "creating",
           !.protect = (wanted.protect = "true") /\ kind = "rds",
           !.replica = wanted.source] \in Database
    BY <1>1, <2>1 DEF Database
  <2> QED
    BY <2>1, <2>2
<1> QED
  BY <1>3, <1>4 DEF Create, TypeOK, rack

LEMMA TypeImport == TypeOK /\ Import => TypeOK'
<1> SUFFICES ASSUME TypeOK, Import PROVE TypeOK'
  OBVIOUS
<1>1. [db |-> Foreign, protect |-> db[Foreign].protect, source |-> FALSE,
       groups |-> FALSE, host |-> FALSE] \in Parameters
  BY DEF TypeOK, Database, Parameters
<1>2. job' \in [Actors -> Job]
  BY <1>1, GoWithType DEF Import, Actors, TypeOK, Steps
<1> QED
  BY <1>2 DEF Import, TypeOK, aws, rack

LEMMA TypePromoteReplica == TypeOK /\ PromoteReplica => TypeOK'
<1> SUFFICES ASSUME TypeOK, PromoteReplica PROVE TypeOK'
  OBVIOUS
<1> DEFINE d == Copy("promote").db
           c == [Copy("promote") EXCEPT !.source = FALSE]
<1>1. "promote" \in Actors /\ d \in Databases \cup {Foreign} /\ c \in Parameters
  BY CopyType DEF Actors, Parameters
<1>2. db' \in [Databases \cup {Foreign} -> Database]
  BY <1>1, FlagWrite DEF PromoteReplica, TypeOK, AllDatabases
<1>3. Stop("promote") \/ GoWith("promote", "available", c)
        \/ GoWith("promote", "modify", c)
  BY DEF PromoteReplica
<1>4. job' \in [Actors -> Job]
  BY <1>1, <1>3, StopType, GoWithType DEF TypeOK, Steps
<1> QED
  BY <1>2, <1>4 DEF PromoteReplica, TypeOK, rack

LEMMA TypeModify == TypeOK /\ (ModifyDatabase \/ ModifyCache) => TypeOK'
<1> SUFFICES ASSUME TypeOK, ModifyDatabase \/ ModifyCache PROVE TypeOK'
  OBVIOUS
<1>1. "promote" \in Actors /\ Copy("promote").db \in Databases \cup {Foreign}
        /\ Copy("promote").protect \in BOOLEAN
  BY CopyType DEF Actors, Parameters
<1>2. db' \in [Databases \cup {Foreign} -> Database]
  <2>1. db' = db
          \/ db' = [db EXCEPT ![Copy("promote").db].protect = Copy("promote").protect]
    BY DEF ModifyDatabase, ModifyCache, aws
  <2>2. [db EXCEPT ![Copy("promote").db].protect = Copy("promote").protect]
          \in AllDatabases
    BY <1>1, FlagWrite
  <2> QED
    BY <2>1, <2>2 DEF TypeOK, AllDatabases
<1>3. Stop("promote") \/ Go("promote", "save")
  BY DEF ModifyDatabase, ModifyCache
<1>4. job' \in [Actors -> Job]
  BY <1>1, <1>3, StopType, GoType DEF TypeOK, Steps
<1> QED
  BY <1>2, <1>4 DEF ModifyDatabase, ModifyCache, TypeOK, aws, rack

LEMMA TypeListStates == TypeOK /\ (IsAvailable \/ ListStates) => TypeOK'
<1> SUFFICES ASSUME TypeOK, IsAvailable \/ ListStates PROVE TypeOK'
  OBVIOUS
<1>1. "promote" \in Actors /\ record.says.db \in Databases \cup {Foreign}
  BY CopyType DEF Actors
<1>2. db' \in [Databases \cup {Foreign} -> Database]
  <2>1. db' = db \/ db' = [db EXCEPT ![record.says.db].dropped = TRUE]
    BY DEF IsAvailable, ListStates, aws
  <2>2. [db EXCEPT ![record.says.db].dropped = TRUE] \in AllDatabases
    BY <1>1, FlagWrite
  <2> QED
    BY <2>1, <2>2 DEF TypeOK, AllDatabases
<1>3. Stop("promote") \/ Go("promote", "connect") \/ Go("promote", "list")
  BY DEF IsAvailable, ListStates
<1>4. job' \in [Actors -> Job]
  BY <1>1, <1>3, StopType, GoType DEF TypeOK, Steps
<1>5. wanted.dropped \in BOOLEAN
  BY OptionsType DEF TypeOK
<1> QED
  BY <1>2, <1>4, <1>5 DEF IsAvailable, ListStates, TypeOK, aws, rack

LEMMA TypeConnect ==
  ASSUME TypeOK, NEW a \in Actors, Connect(a) \/ WaitUntilAvailable(a)
  PROVE  TypeOK'
<1> DEFINE c == [Copy(a) EXCEPT !.host = TRUE]
<1>1. c \in Parameters /\ record.says \in Parameters
  BY CopyType DEF Parameters
<1>2. \/ Stop(a) \/ GoWith(a, "host", c)
      \/ GoWith(a, "connected", record.says) \/ GoWith(a, "wait", record.says)
  BY DEF Connect, WaitUntilAvailable
<1>3. job' \in [Actors -> Job]
  BY <1>1, <1>2, StopType, GoWithType DEF TypeOK, Steps
<1> QED
  BY <1>3 DEF Connect, WaitUntilAvailable, TypeOK, aws, rack

LEMMA TypeSave ==
  ASSUME TypeOK, NEW a \in Actors, Save(a) PROVE TypeOK'
<1>1. Copy(a) \in Parameters /\ Copy(a).db \in Databases \cup {Foreign}
  BY CopyType
<1>2. db' \in [Databases \cup {Foreign} -> Database]
  BY <1>1, FlagWrite DEF Save, TypeOK, AllDatabases
<1>3. Go(a, "available") \/ Go(a, "connected")
  BY DEF Save, Saves
<1>4. job' \in [Actors -> Job]
  BY <1>3, GoType DEF TypeOK, Steps
<1>5. record' \in [there : BOOLEAN, deleted : BOOLEAN, says : Parameters]
        /\ record'.there
  BY <1>1 DEF Save, TypeOK
<1> QED
  BY <1>2, <1>4, <1>5 DEF Save, TypeOK

LEMMA TypeUninstall ==
  ASSUME TypeOK, NEW a \in Actors, Uninstall(a) PROVE TypeOK'
<1> DEFINE d == Copy(a).db
<1>1. record.says \in Parameters /\ d \in Databases \cup {Foreign}
  BY CopyType
<1>2. Stop(a) \/ GoWith(a, "delete", record.says)
        \/ \E step \in Steps : Go(a, step)
  BY DEF Uninstall, Fetch, DeleteDatabase, DeleteCache, Delete, Uninstalled,
         DeleteSecurityGroup, DeleteSubnetGroup, Steps
<1>3. job' \in [Actors -> Job]
  BY <1>1, <1>2, StopType, GoType, GoWithType DEF TypeOK, Steps
<1>4. \/ db' = db
      \/ db' = [db EXCEPT ![d].kept = TRUE]
      \/ db' = [db EXCEPT ![d].status = "deleting"]
  BY DEF Uninstall, Fetch, DeleteDatabase, DeleteCache, Delete,
         DeleteSecurityGroup, DeleteSubnetGroup, aws
<1>5. db' \in [Databases \cup {Foreign} -> Database]
  <2>1. [db EXCEPT ![d].kept = TRUE] \in AllDatabases
    BY <1>1, FlagWrite
  <2>2. [db EXCEPT ![d].status = "deleting"] \in AllDatabases
    BY <1>1, StatusWrite
  <2> QED
    BY <1>4, <2>1, <2>2 DEF TypeOK, AllDatabases
<1>6. sg' \in {"none", "closed", "open"} /\ subnet' \in BOOLEAN
  BY DEF Uninstall, Fetch, DeleteDatabase, DeleteCache, DeleteSecurityGroup,
         DeleteSubnetGroup, TypeOK, aws
<1>7. UNCHANGED <<kind, rack, faults>>
  BY DEF Uninstall, Fetch, DeleteDatabase, DeleteCache, DeleteSecurityGroup,
         DeleteSubnetGroup
<1> QED
  BY <1>3, <1>5, <1>6, <1>7 DEF TypeOK, rack

LEMMA TypeStep == TypeOK /\ [Next]_vars => TypeOK'
<1> SUFFICES ASSUME TypeOK, [Next]_vars PROVE TypeOK'
  OBVIOUS
<1>1. CASE PromoteStep
  BY <1>1, TypeProvision, TypeGroups, TypeCreate, TypeImport, TypePromoteReplica,
     TypeModify, TypeListStates, TypeConnect, TypeSave, TypeUninstall
     DEF PromoteStep, Actors
<1>2. ASSUME NEW a \in Actors, NEW s \in Steps, Stop(a) \/ Go(a, s),
             UNCHANGED <<kind, aws, record, wanted, releases, faults>>,
             waiting' \in BOOLEAN
      PROVE  TypeOK'
  BY <1>2, StopType, GoType DEF TypeOK, aws
<1>3. CASE ResolverStep
  <2>1. CASE Resolve \/ Connected
    BY <1>2, <2>1 DEF Resolve, Connected, Actors, Steps, TypeOK, aws, rack
  <2> QED
    BY <1>3, <2>1, TypeConnect, TypeSave DEF ResolverStep, Actors
<1>4. CASE RemoverStep
  <2>1. CASE Notified
    BY <1>2, <2>1 DEF Notified, Actors, Steps, TypeOK, aws, rack
  <2>2. CASE RemoveFinalizer
    <3>1. Emptied(record) \in [there : BOOLEAN, deleted : BOOLEAN, says : Parameters]
            /\ (Emptied(record).deleted => Emptied(record).there)
      BY NothingYet DEF Emptied, NoRecord, TypeOK
    <3>2. job' \in [Actors -> Job]
      BY <2>2, StopType DEF RemoveFinalizer, Actors, TypeOK
    <3> QED
      BY <2>2, <3>1, <3>2 DEF RemoveFinalizer, TypeOK, aws
  <2> QED
    BY <1>4, <2>1, <2>2, TypeUninstall DEF RemoverStep, Actors
<1>5. ASSUME NEW d \in Databases, Arrive(d) \/ Vanish(d) PROVE TypeOK'
  <2>1. db' \in [Databases \cup {Foreign} -> Database]
    <3>1. [db EXCEPT ![d].status = "available"] \in AllDatabases
            /\ [db EXCEPT ![d].status = "gone"] \in AllDatabases
      BY StatusWrite
    <3> QED
      BY <1>5, <3>1 DEF Arrive, Vanish, AllDatabases
  <2> QED
    BY <1>5, <2>1 DEF Arrive, Vanish, TypeOK, rack
<1>6. ASSUME NEW a \in Actors, CallFails(a) \/ Crash(a) PROVE TypeOK'
  <2>1. Stop(a) \/ Go(a, "fetch")
    BY <1>6 DEF CallFails, Crash
  <2>2. job' \in [Actors -> Job]
    BY <2>1, StopType, GoType DEF TypeOK, Steps
  <2>3. faults' \in 0..MaxFaults
    <3>1. faults \in 0..MaxFaults /\ faults < MaxFaults /\ faults' = faults + 1
      BY <1>6 DEF CallFails, Crash, TypeOK
    <3> QED
      BY <3>1, ProvisionerAssumption
  <2> QED
    BY <1>6, <2>2, <2>3 DEF CallFails, Crash, TypeOK, aws, rack
<1>7. CASE UNCHANGED vars
  BY <1>7 DEF TypeOK, vars, aws
<1> QED
  BY <1>1, <1>3, <1>4, <1>5, <1>6, <1>7 DEF Next

(* The state of the three actors, of AWS and of the record always makes    *)
(* sense: no record is deleted and gone, no call is in an unknown place.   *)
THEOREM TypeCorrect == Spec => []TypeOK
<1> QED
  BY TypeInit, TypeStep, PTL DEF Spec
(*------------------------- what may be uninstalled -----------------------*)
(* Convox may ask AWS to delete it, or its tag says that convox may not.   *)
Doomed(d) == d = Foreign \/ db[d].dropped

Installing == {"group", "ingress", "subnet", "create", "record"}
Changing == {"demote", "demote, modify", "modify", "save", "wait", "host"}

(* A record deleted or being uninstalled names a database that was         *)
(* dropped; a promote that installs or imports finds nothing else in the   *)
(* record; and whatever the promote or the resolver is going to write over *)
(* the record names the same database, or one of the two was dropped.      *)
DeletedInv == record.deleted => record.there /\ Doomed(record.says.db)

RemoverInv ==
  /\ job["remover"].step \in
       {"idle", "fetch", "delete", "sweep", "subnets", "release"}
  /\ At("remover", "fetch") => record.deleted
  /\ \A a \in Actors : At(a, "delete") => Doomed(Copy(a).db)

InstallInv ==
  /\ job["promote"].step \in Installing \cup {"import", "fetch"} =>
       (record.there => Doomed(record.says.db))
  /\ job["promote"].step \in Installing => ~record.deleted

ChangeInv ==
  job["promote"].step \in Changing =>
    /\ record.deleted => Doomed(Copy("promote").db)
    /\ record.there => (Copy("promote").db = record.says.db
                          \/ Doomed(record.says.db))

ResolverInv ==
  /\ job["resolver"].step \in {"idle", "connect", "wait", "host", "connected"}
  /\ job["resolver"].step \in {"wait", "host"} =>
       \/ Doomed(Copy("resolver").db)
       \/ record.there /\ Copy("resolver").db = record.says.db

UninstallInv ==
  DeletedInv /\ RemoverInv /\ InstallInv /\ ChangeInv /\ ResolverInv

(*---------------------- the invariant is inductive -----------------------*)
(* How an actor that goes on leaves its job, and the others theirs.        *)
LEMMA GoJob ==
  ASSUME TypeOK, NEW a \in Actors, NEW s, Go(a, s)
  PROVE  /\ job'[a].step = s /\ job'[a].copy = job[a].copy
         /\ \A b \in Actors \ {a} : job'[b] = job[b]
<1>1. job[a] \in Job
  BY DEF TypeOK
<1>2. job' = [job EXCEPT ![a] = [job[a] EXCEPT !.step = s]]
  BY DEF Go
<1> QED
  BY <1>1, <1>2 DEF TypeOK, Job

LEMMA GoWithJob ==
  ASSUME TypeOK, NEW a \in Actors, NEW s, NEW c, GoWith(a, s, c)
  PROVE  /\ job'[a].step = s /\ job'[a].copy = c
         /\ \A b \in Actors \ {a} : job'[b] = job[b]
BY DEF TypeOK, GoWith

LEMMA StopJob ==
  ASSUME TypeOK, NEW a \in Actors, Stop(a)
  PROVE  /\ job'[a].step = "idle"
         /\ \A b \in Actors \ {a} : job'[b] = job[b]
BY DEF TypeOK, Stop, Idle

(* A database that was dropped stays so.                                   *)
LEMMA DroppedStays ==
  ASSUME TypeOK, Next, NEW d \in Databases \cup {Foreign}, db[d].dropped
  PROVE  db'[d].dropped
<1>1. db[d] \in Database /\ DOMAIN db = Databases \cup {Foreign}
  BY DEF TypeOK
<1>2. CASE UNCHANGED db
  BY <1>2
<1>3. CASE Create
  BY <1>1, <1>3 DEF Create, Database
<1>4. ASSUME NEW a \in Actors, Uninstall(a) PROVE db'[d].dropped
  <2>1. \/ db' = db
        \/ db' = [db EXCEPT ![Copy(a).db].kept = TRUE]
        \/ db' = [db EXCEPT ![Copy(a).db].status = "deleting"]
    BY <1>4 DEF Uninstall, Fetch, DeleteDatabase, DeleteCache, Delete,
           DeleteSecurityGroup, DeleteSubnetGroup, aws
  <2> QED
    BY <1>1, <2>1 DEF Database
<1>5. CASE PromoteReplica \/ ModifyDatabase \/ ListStates
  <2>1. /\ record.says.db \in DOMAIN db
        /\ Copy("promote").db \in DOMAIN db
    BY <1>1, CopyType DEF Actors
  <2>2. CASE PromoteReplica
    <3>1. db' = db \/ db' = [db EXCEPT ![Copy("promote").db].replica = FALSE]
      BY <2>2 DEF PromoteReplica
    <3> QED
      BY <1>1, <2>1, <3>1 DEF Database
  <2>3. CASE ModifyDatabase
    BY <1>1, <2>1, <2>3 DEF ModifyDatabase, Database
  <2>4. CASE ListStates
    <3>1. db' = db \/ db' = [db EXCEPT ![record.says.db].dropped = TRUE]
      BY <2>4 DEF ListStates
    <3> QED
      BY <1>1, <2>1, <3>1 DEF Database
  <2> QED
    BY <1>5, <2>2, <2>3, <2>4
<1>6. ASSUME NEW a \in Actors, Save(a) PROVE db'[d].dropped
  BY <1>1, <1>6 DEF Save, Database
<1>7. ASSUME NEW e \in Databases, Arrive(e) \/ Vanish(e) PROVE db'[d].dropped
  BY <1>1, <1>7 DEF Arrive, Vanish, Database
<1> QED
  <2>1. CASE PromoteStep
    BY <2>1, <1>2, <1>3, <1>4, <1>5, <1>6
       DEF PromoteStep, Provision, CreateGroup, AddIngressRule, CreateSubnetGroup,
           Import, ModifyCache, IsAvailable, Connect, WaitUntilAvailable, aws, Actors
  <2>2. CASE ResolverStep
    BY <2>2, <1>2, <1>6
       DEF ResolverStep, Resolve, Connected, Connect, WaitUntilAvailable, aws, Actors
  <2>3. CASE RemoverStep
    BY <2>3, <1>2, <1>4 DEF RemoverStep, Notified, RemoveFinalizer, aws, Actors
  <2>4. CASE \E a \in Actors : CallFails(a) \/ Crash(a)
    BY <2>4, <1>2 DEF CallFails, Crash, aws
  <2> QED
    BY <2>1, <2>2, <2>3, <2>4, <1>7 DEF Next

LEMMA UninstallInit == Init => UninstallInv
BY DEF Init, UninstallInv, DeletedInv, RemoverInv, InstallInv, ChangeInv,
       ResolverInv, NoRecord, Idle, At, Actors, Installing, Changing

(* A step of the promote that leaves the record alone has to keep only     *)
(* what is said of the promote.                                            *)
LEMMA PromoteAlone ==
  ASSUME TypeOK, Next, UninstallInv, record' = record,
         \A b \in Actors \ {"promote"} : job'[b] = job[b],
         InstallInv', ChangeInv',
         At("promote", "delete")' => Doomed(Copy("promote").db)'
  PROVE  UninstallInv'
<1>1. record.says.db \in Databases \cup {Foreign}
        /\ \A a \in Actors : Copy(a).db \in Databases \cup {Foreign}
  BY CopyType DEF Actors
<1>2. DeletedInv'
  BY <1>1, DroppedStays DEF UninstallInv, DeletedInv, Doomed
<1>3. RemoverInv'
  BY <1>1, DroppedStays DEF UninstallInv, RemoverInv, Doomed, At, Copy, Actors
<1>4. ResolverInv'
  BY <1>1, DroppedStays DEF UninstallInv, ResolverInv, Doomed, At, Copy, Actors
<1> QED
  BY <1>2, <1>3, <1>4 DEF UninstallInv

LEMMA InstallKeeps ==
  ASSUME TypeOK, Next, UninstallInv,
         CreateGroup \/ AddIngressRule \/ CreateSubnetGroup \/ Create \/ Import
  PROVE  UninstallInv'
<1>1. /\ record' = record
      /\ job["promote"].step \in Installing \cup {"import"}
  BY DEF CreateGroup, AddIngressRule, CreateSubnetGroup, Create, Import, rack,
         At, Installing
<1>2. /\ \A b \in Actors \ {"promote"} : job'[b] = job[b]
      /\ \/ job'["promote"].step \in Installing
         \/ job'["promote"].step = "save" /\ job'["promote"].copy.db = Foreign
  <2>1. CASE CreateGroup \/ AddIngressRule \/ CreateSubnetGroup
    <3>1. \E step \in Installing : Go("promote", step)
      BY <2>1 DEF CreateGroup, AddIngressRule, CreateSubnetGroup, Installing
    <3> QED
      BY <3>1, GoJob DEF Actors
  <2>2. CASE Create
    <3>1. \E c : GoWith("promote", "record", c)
      BY <2>2 DEF Create, Created
    <3> QED
      BY <3>1, GoWithJob DEF Actors, Installing
  <2>3. CASE Import
    BY <2>3, GoWithJob DEF Import, Actors
  <2> QED
    BY <2>1, <2>2, <2>3
<1>3. record.says.db \in Databases \cup {Foreign}
  BY CopyType DEF Actors
<1>4. job["promote"].step = "import" => job'["promote"].step = "save"
  BY GoWithJob DEF CreateGroup, AddIngressRule, CreateSubnetGroup, Create, Import,
                   At, Actors
<1>5. InstallInv'
  BY <1>1, <1>2, <1>3, <1>4, DroppedStays
     DEF UninstallInv, InstallInv, Installing, Doomed
<1>6. ChangeInv'
  BY <1>1, <1>2, <1>3, DroppedStays
     DEF UninstallInv, InstallInv, ChangeInv, Installing, Changing, Doomed, Copy
<1> QED
  BY <1>1, <1>2, <1>5, <1>6, PromoteAlone DEF At, Installing

LEMMA ProvisionKeeps ==
  ASSUME TypeOK, Next, UninstallInv, NEW o \in Releases, Provision(o)
  PROVE  UninstallInv'
<1>1. record' = record /\ db' = db
  BY DEF Provision, aws
<1>2. \A b \in Actors \ {"promote"} : job'[b] = job[b]
  BY GoJob, GoWithJob DEF Provision, Actors
<1>3. Updated(o, record.says).db = record.says.db
  BY DEF Updated, TypeOK, Parameters
<1>4. \/ job'["promote"].step \in {"list", "available"}
      \/ job'["promote"].step = "import"
           /\ (record.there => record.says.db = Foreign)
      \/ job'["promote"].step \in {"create", "group"} /\ ~record.there
      \/ /\ job'["promote"].step \in {"demote", "demote, modify", "modify"}
         /\ job'["promote"].copy.db = record.says.db
  BY <1>3, GoJob, GoWithJob DEF Provision, Actors
<1>5. ~record.there => ~record.deleted
  BY DEF UninstallInv, DeletedInv
<1>6. InstallInv'
  BY <1>1, <1>4, <1>5 DEF InstallInv, Installing, Doomed
<1>7. ChangeInv'
  BY <1>1, <1>4 DEF UninstallInv, DeletedInv, ChangeInv, Changing, Doomed, Copy
<1> QED
  BY <1>1, <1>2, <1>4, <1>6, <1>7, PromoteAlone DEF At

LEMMA UpdateKeeps ==
  ASSUME TypeOK, Next, UninstallInv,
         PromoteReplica \/ ModifyDatabase \/ ModifyCache \/ IsAvailable
  PROVE  UninstallInv'
<1>1. record' = record
  BY DEF PromoteReplica, ModifyDatabase, ModifyCache, IsAvailable, rack
<1>2. record.says.db \in Databases \cup {Foreign}
        /\ Copy("promote") \in Parameters
        /\ Copy("promote").db \in Databases \cup {Foreign}
  BY CopyType DEF Actors
<1>3. \A b \in Actors \ {"promote"} : job'[b] = job[b]
  BY GoJob, GoWithJob, StopJob
     DEF PromoteReplica, ModifyDatabase, ModifyCache, IsAvailable, Actors
<1>4. [Copy("promote") EXCEPT !.source = FALSE].db = Copy("promote").db
  BY <1>2 DEF Parameters
<1>5. \/ job'["promote"].step \in {"idle", "available", "list", "connect"}
      \/ /\ job["promote"].step \in Changing
         /\ job'["promote"].step \in {"modify", "save"}
         /\ job'["promote"].copy.db = Copy("promote").db
  BY <1>4, GoJob, GoWithJob, StopJob
     DEF PromoteReplica, ModifyDatabase, ModifyCache, IsAvailable, Actors, At,
         Copy, Changing
<1>6. InstallInv'
  BY <1>5 DEF InstallInv, Installing
<1>7. ChangeInv'
  BY <1>1, <1>2, <1>5, DroppedStays
     DEF UninstallInv, ChangeInv, Changing, Doomed, Copy
<1> QED
  BY <1>1, <1>3, <1>5, <1>6, <1>7, PromoteAlone DEF At

LEMMA ListKeeps ==
  ASSUME TypeOK, Next, UninstallInv, ListStates PROVE UninstallInv'
<1> DEFINE d == record.says.db
<1>1. record \in [there : BOOLEAN, deleted : BOOLEAN, says : Parameters]
        /\ d \in Databases \cup {Foreign}
        /\ \A a \in Actors : Copy(a).db \in Databases \cup {Foreign}
  BY CopyType DEF TypeOK, Actors
<1>2. /\ record'.there = record.there /\ record'.says = record.says
      /\ record.deleted => record'.deleted
  BY <1>1 DEF ListStates
<1>3. /\ job'["promote"].step = "idle"
      /\ \A b \in Actors \ {"promote"} : job'[b] = job[b]
  BY StopJob DEF ListStates, Actors
<1>4. record'.deleted => record'.there /\ Doomed(record.says.db)'
  <2>1. CASE wanted.dropped /\ record.there
    <3>1. db[d] \in Database
      BY <1>1 DEF TypeOK
    <3>2. db' = [db EXCEPT ![d].dropped = TRUE]
      BY <2>1 DEF ListStates
    <3>3. db'[d].dropped
      BY <1>1, <3>1, <3>2 DEF TypeOK, Database
    <3> QED
      BY <1>2, <2>1, <3>3 DEF Doomed
  <2>2. CASE ~(wanted.dropped /\ record.there)
    BY <2>2 DEF ListStates, UninstallInv, DeletedInv, Doomed
  <2> QED
    BY <2>1, <2>2
<1>5. RemoverInv'
  BY <1>1, <1>2, <1>3, DroppedStays
     DEF UninstallInv, RemoverInv, At, Copy, Actors, Doomed
<1>6. ResolverInv'
  BY <1>1, <1>2, <1>3, DroppedStays
     DEF UninstallInv, ResolverInv, Copy, Actors, Doomed
<1>7. InstallInv' /\ ChangeInv'
  BY <1>3 DEF InstallInv, ChangeInv, Installing, Changing
<1> QED
  BY <1>4, <1>5, <1>6, <1>7 DEF UninstallInv, DeletedInv

LEMMA ConnectKeeps ==
  ASSUME TypeOK, Next, UninstallInv, NEW a \in {"promote", "resolver"},
         Connect(a) \/ WaitUntilAvailable(a)
  PROVE  UninstallInv'
<1>1. record' = record /\ db' = db
  BY DEF Connect, WaitUntilAvailable, aws, rack
<1>2. a \in Actors /\ [Copy(a) EXCEPT !.host = TRUE].db = Copy(a).db
  BY CopyType DEF Actors, Parameters
<1>3. /\ \A b \in Actors \ {a} : job'[b] = job[b]
      /\ \/ job'[a].step \in {"idle", "connected"}
         \/ /\ job'[a].step = "wait" /\ record.there
            /\ job'[a].copy = record.says
         \/ /\ job[a].step = "wait" /\ job'[a].step = "host"
            /\ job'[a].copy.db = job[a].copy.db
  <2>1. CASE Connect(a)
    BY <1>2, <2>1, GoWithJob, StopJob DEF Connect
  <2>2. CASE WaitUntilAvailable(a)
    <3>1. At(a, "wait")
            /\ (Stop(a) \/ GoWith(a, "host", [Copy(a) EXCEPT !.host = TRUE]))
      BY <2>2 DEF WaitUntilAvailable
    <3>2. job'[a].step = "idle"
            \/ (job'[a].step = "host" /\ job'[a].copy = [Copy(a) EXCEPT !.host = TRUE])
      BY <1>2, <3>1, GoWithJob, StopJob
    <3>3. \A b \in Actors \ {a} : job'[b] = job[b]
      BY <1>2, <3>1, GoWithJob, StopJob
    <3> QED
      BY <1>2, <3>1, <3>2, <3>3 DEF At, Copy
  <2> QED
    BY <2>1, <2>2
<1>4. CASE a = "promote"
  <2>1. InstallInv'
    BY <1>3, <1>4 DEF InstallInv, Installing
  <2>2. ChangeInv'
    BY <1>1, <1>3, <1>4
       DEF UninstallInv, DeletedInv, ChangeInv, Changing, Doomed, Copy
  <2> QED
    BY <1>1, <1>3, <1>4, <2>1, <2>2, PromoteAlone DEF At
<1>5. CASE a = "resolver"
  <2>1. DeletedInv' /\ InstallInv' /\ ChangeInv'
    BY <1>1, <1>3, <1>5 DEF UninstallInv, DeletedInv, InstallInv, ChangeInv,
                            Doomed, Copy, Actors
  <2>2. RemoverInv'
    BY <1>1, <1>3, <1>5 DEF UninstallInv, RemoverInv, Doomed, At, Copy, Actors
  <2>3. ResolverInv'
    BY <1>1, <1>3, <1>5 DEF UninstallInv, ResolverInv, Doomed, Copy
  <2> QED
    BY <2>1, <2>2, <2>3 DEF UninstallInv
<1> QED
  BY <1>4, <1>5

(* Whatever copy is written over the record, it and the record name the    *)
(* same database, or the one that is lost is doomed.                       *)
LEMMA SaveKeeps ==
  ASSUME TypeOK, Next, UninstallInv, NEW a \in {"promote", "resolver"}, Save(a)
  PROVE  UninstallInv'
<1> DEFINE d == record.says.db
           c == Copy(a).db
<1>1. a \in Actors /\ d \in Databases \cup {Foreign}
        /\ \A b \in Actors : Copy(b).db \in Databases \cup {Foreign}
  BY CopyType DEF Actors
<1>2. /\ record'.there /\ record'.deleted = record.deleted
      /\ record'.says.db = c
  BY DEF Save
<1>3. /\ job[a].step \in {"record", "save", "host"}
      /\ job'[a].step \in {"available", "connected"}
      /\ job[a].step = "host" => job'[a].step = "connected"
      /\ \A b \in Actors \ {a} : job'[b] = job[b]
  BY <1>1, GoJob DEF Save, Saves
<1>4. record.deleted => Doomed(c)
  <2>1. CASE a = "promote"
    BY <1>3, <2>1 DEF UninstallInv, InstallInv, ChangeInv, Installing, Changing
  <2>2. CASE a = "resolver"
    BY <1>3, <2>2 DEF UninstallInv, DeletedInv, ResolverInv
  <2> QED
    BY <2>1, <2>2
<1>5. DeletedInv'
  BY <1>1, <1>2, <1>4, DroppedStays DEF DeletedInv, Doomed
<1>6. RemoverInv'
  BY <1>1, <1>2, <1>3, DroppedStays
     DEF UninstallInv, RemoverInv, Doomed, At, Copy, Actors
<1>7. CASE a = "promote"
  <2>1. InstallInv' /\ ChangeInv'
    BY <1>3, <1>7 DEF InstallInv, ChangeInv, Installing, Changing
  <2>2. record.there => c = d \/ Doomed(d)
    BY <1>3, <1>7 DEF UninstallInv, InstallInv, ChangeInv, Installing, Changing
  <2>3. ResolverInv'
    BY <1>1, <1>2, <1>3, <1>7, <2>2, DroppedStays
       DEF UninstallInv, ResolverInv, Doomed, Copy, Actors
  <2> QED
    BY <1>5, <1>6, <2>1, <2>3 DEF UninstallInv
<1>8. CASE a = "resolver"
  <2>1. Doomed(c) \/ (record.there /\ c = d)
    BY <1>3, <1>8 DEF UninstallInv, ResolverInv
  <2>2. InstallInv'
    BY <1>1, <1>2, <1>3, <1>8, <2>1, DroppedStays
       DEF UninstallInv, InstallInv, Doomed, Actors
  <2>3. ChangeInv'
    BY <1>1, <1>2, <1>3, <1>8, <2>1, DroppedStays
       DEF UninstallInv, ChangeInv, Doomed, Copy, Actors
  <2>4. ResolverInv'
    BY <1>3, <1>8 DEF UninstallInv, ResolverInv
  <2> QED
    BY <1>5, <1>6, <2>2, <2>3, <2>4 DEF UninstallInv
<1> QED
  BY <1>7, <1>8

LEMMA UninstallKeeps ==
  ASSUME TypeOK, Next, UninstallInv, NEW a \in {"promote", "remover"}, Uninstall(a)
  PROVE  UninstallInv'
<1>1. a \in Actors /\ record' = record
        /\ record.says.db \in Databases \cup {Foreign}
        /\ \A b \in Actors : Copy(b).db \in Databases \cup {Foreign}
  BY CopyType
     DEF Actors, Uninstall, Fetch, DeleteDatabase, DeleteCache,
         DeleteSecurityGroup, DeleteSubnetGroup, rack
<1>2. /\ \A b \in Actors \ {a} : job'[b] = job[b]
      /\ \/ job'[a].step \in {"idle", "release", "sweep", "subnets"}
         \/ /\ job[a].step = "fetch" /\ job'[a].step = "delete"
            /\ record.there /\ job'[a].copy = record.says
  <2>1. CASE Fetch(a)
    BY <1>1, <2>1, GoWithJob, StopJob DEF Fetch, At
  <2>2. CASE ~Fetch(a)
    <3>1. Stop(a) \/ \E s \in {"release", "sweep", "subnets"} : Go(a, s)
      BY <2>2 DEF Uninstall, DeleteDatabase, DeleteCache, Delete, Uninstalled,
                  DeleteSecurityGroup, DeleteSubnetGroup
    <3> QED
      BY <1>1, <3>1, GoJob, StopJob
  <2> QED
    BY <2>1, <2>2
<1>3. job'[a].step = "delete" => Doomed(record.says.db)
  BY <1>2 DEF UninstallInv, RemoverInv, DeletedInv, InstallInv, At
<1>4. CASE a = "promote"
  <2>1. InstallInv' /\ ChangeInv'
    BY <1>2, <1>4 DEF InstallInv, ChangeInv, Installing, Changing
  <2>2. At("promote", "delete")' => Doomed(Copy("promote").db)'
    BY <1>1, <1>2, <1>3, <1>4, DroppedStays DEF At, Copy, Doomed
  <2> QED
    BY <1>1, <1>2, <1>4, <2>1, <2>2, PromoteAlone
<1>5. CASE a = "remover"
  <2>1. DeletedInv' /\ InstallInv'
    BY <1>1, <1>2, <1>5, DroppedStays
       DEF UninstallInv, DeletedInv, InstallInv, Doomed, Actors
  <2>2. ChangeInv' /\ ResolverInv'
    BY <1>1, <1>2, <1>5, DroppedStays
       DEF UninstallInv, ChangeInv, ResolverInv, Doomed, Copy, Actors
  <2>3. RemoverInv'
    BY <1>1, <1>2, <1>3, <1>5, DroppedStays
       DEF UninstallInv, RemoverInv, Doomed, At, Copy, Actors
  <2> QED
    BY <2>1, <2>2, <2>3 DEF UninstallInv
<1> QED
  BY <1>4, <1>5

LEMMA FaultKeeps ==
  ASSUME TypeOK, Next, UninstallInv, NEW a \in Actors, CallFails(a) \/ Crash(a)
  PROVE  UninstallInv'
<1>1. record' = record /\ db' = db
  BY DEF CallFails, Crash, aws, rack
<1>2. /\ \A b \in Actors \ {a} : job'[b] = job[b]
      /\ \/ job'[a].step = "idle"
         \/ job'[a].step = "fetch" /\ job[a].step \in {"create", "record"}
  BY GoJob, StopJob DEF CallFails, Crash
<1>3. DeletedInv' /\ RemoverInv'
  <2>1. a = "remover" => job'[a].step = "idle"
    BY <1>2 DEF UninstallInv, RemoverInv
  <2> QED
    BY <1>1, <1>2, <2>1
       DEF UninstallInv, DeletedInv, RemoverInv, Doomed, At, Copy, Actors
<1>4. InstallInv' /\ ChangeInv'
  BY <1>1, <1>2 DEF UninstallInv, InstallInv, ChangeInv, Installing, Changing,
                    Doomed, Copy, Actors
<1>5. ResolverInv'
  BY <1>1, <1>2 DEF UninstallInv, ResolverInv, Doomed, Copy, Actors
<1> QED
  BY <1>3, <1>4, <1>5 DEF UninstallInv

LEMMA BeginKeeps ==
  ASSUME TypeOK, Next, UninstallInv, Resolve \/ Connected \/ Notified
  PROVE  UninstallInv'
<1>1. record' = record /\ db' = db
  BY DEF Resolve, Connected, Notified, aws, rack
<1>2. /\ job'["promote"] = job["promote"]
      /\ \/ /\ job'["remover"] = job["remover"]
            /\ job'["resolver"].step \in {"idle", "connect"}
         \/ /\ job'["resolver"] = job["resolver"]
            /\ job'["remover"].step = "fetch" /\ record.deleted
  BY GoJob, StopJob DEF Resolve, Connected, Notified, Actors
<1>3. DeletedInv' /\ InstallInv' /\ ChangeInv'
  BY <1>1, <1>2 DEF UninstallInv, DeletedInv, InstallInv, ChangeInv, Doomed, Copy
<1>4. RemoverInv' /\ ResolverInv'
  BY <1>1, <1>2
     DEF UninstallInv, RemoverInv, ResolverInv, Doomed, At, Copy, Actors
<1> QED
  BY <1>3, <1>4 DEF UninstallInv

LEMMA FinalizerKeeps ==
  ASSUME TypeOK, Next, UninstallInv, RemoveFinalizer PROVE UninstallInv'
<1>1. db' = db
  BY DEF RemoveFinalizer, aws
<1>2. /\ job'["remover"].step = "idle"
      /\ \A b \in Actors \ {"remover"} : job'[b] = job[b]
  BY StopJob DEF RemoveFinalizer, Actors
<1>3. CASE record.deleted
  <2>1. ~record'.there /\ ~record'.deleted
    BY <1>3 DEF RemoveFinalizer, Emptied, NoRecord
  <2>2. ResolverInv'
    BY <1>1, <1>2, <1>3
       DEF UninstallInv, DeletedInv, ResolverInv, Doomed, Copy, Actors
  <2>3. RemoverInv'
    BY <1>1, <1>2 DEF UninstallInv, RemoverInv, Doomed, At, Copy, Actors
  <2> QED
    BY <2>1, <2>2, <2>3 DEF UninstallInv, DeletedInv, InstallInv, ChangeInv
<1>4. CASE ~record.deleted
  <2>1. record' = record
    BY <1>4 DEF RemoveFinalizer, Emptied
  <2>2. DeletedInv' /\ InstallInv' /\ ChangeInv'
    BY <1>1, <1>2, <2>1
       DEF UninstallInv, DeletedInv, InstallInv, ChangeInv, Doomed, Copy, Actors
  <2>3. RemoverInv' /\ ResolverInv'
    BY <1>1, <1>2, <2>1
       DEF UninstallInv, RemoverInv, ResolverInv, Doomed, At, Copy, Actors
  <2> QED
    BY <2>2, <2>3 DEF UninstallInv
<1> QED
  BY <1>3, <1>4

LEMMA QuietKeeps ==
  ASSUME TypeOK, UninstallInv, UNCHANGED <<job, record>>,
         \A d \in Databases \cup {Foreign} : db[d].dropped => db'[d].dropped
  PROVE  UninstallInv'
<1>1. record.says.db \in Databases \cup {Foreign}
        /\ \A a \in Actors : Copy(a).db \in Databases \cup {Foreign}
  BY CopyType DEF Actors
<1>2. DeletedInv' /\ InstallInv' /\ ChangeInv'
  BY <1>1 DEF UninstallInv, DeletedInv, InstallInv, ChangeInv, Doomed, Copy, Actors
<1>3. RemoverInv' /\ ResolverInv'
  BY <1>1 DEF UninstallInv, RemoverInv, ResolverInv, Doomed, At, Copy, Actors
<1> QED
  BY <1>2, <1>3 DEF UninstallInv

LEMMA UninstallStep == TypeOK /\ UninstallInv /\ [Next]_vars => UninstallInv'
<1> SUFFICES ASSUME TypeOK, UninstallInv, [Next]_vars PROVE UninstallInv'
  OBVIOUS
<1>1. CASE UNCHANGED vars
  BY <1>1, QuietKeeps DEF vars, aws
<1>2. CASE Next
  <2>1. CASE PromoteStep
    BY <1>2, <2>1, ProvisionKeeps, InstallKeeps, UpdateKeeps, ListKeeps,
       ConnectKeeps, SaveKeeps, UninstallKeeps DEF PromoteStep
  <2>2. CASE ResolverStep
    BY <1>2, <2>2, BeginKeeps, ConnectKeeps, SaveKeeps DEF ResolverStep
  <2>3. CASE RemoverStep
    BY <1>2, <2>3, BeginKeeps, FinalizerKeeps, UninstallKeeps DEF RemoverStep
  <2>4. CASE \E d \in Databases : Arrive(d) \/ Vanish(d)
    BY <1>2, <2>4, QuietKeeps, DroppedStays DEF Arrive, Vanish, rack
  <2>5. CASE \E a \in Actors : CallFails(a) \/ Crash(a)
    BY <1>2, <2>5, FaultKeeps
  <2> QED
    BY <1>2, <2>1, <2>2, <2>3, <2>4, <2>5 DEF Next
<1> QED
  BY <1>1, <1>2

(* Only a database of convox that a release has dropped, unprotected in    *)
(* AWS if it is RDS, is ever asked to go, whatever promotes, resolvers,    *)
(* uninstalls and faults did before (Uninstall in both provisioners).      *)
THEOREM DroppedAreDeleted == Spec => OnlyDroppedAreDeleted
<1> DEFINE Fine ==
      \A d \in DOMAIN db : db[d].status \in Live /\ db'[d].status = "deleting" =>
        /\ d # Foreign
        /\ db[d].dropped
        /\ kind = "rds" => ~db[d].protect
<1>1. TypeOK /\ UninstallInv /\ [Next]_vars => [Fine]_vars
  <2> SUFFICES ASSUME TypeOK, UninstallInv, Next PROVE Fine
    OBVIOUS
  <2>1. DOMAIN db = Databases \cup {Foreign}
          /\ (\A d \in DOMAIN db : db[d] \in Database)
          /\ (\A a \in Actors : Copy(a).db \in DOMAIN db)
    BY CopyType DEF TypeOK
  <2>2. ASSUME NEW a \in Actors, Uninstall(a) PROVE Fine
    <3> DEFINE c == Copy(a).db
    <3>1. CASE DeleteDatabase(a) \/ DeleteCache(a)
      <4>1. Doomed(c)
        BY <3>1 DEF UninstallInv, RemoverInv, DeleteDatabase, DeleteCache
      <4>2. \/ db' = db
            \/ db' = [db EXCEPT ![c].kept = TRUE]
            \/ /\ db' = [db EXCEPT ![c].status = "deleting"]
               /\ c # Foreign /\ (kind = "rds" => ~db[c].protect)
        BY <3>1 DEF DeleteDatabase, DeleteCache, Delete, Tagged
      <4> QED
        BY <2>1, <4>1, <4>2 DEF Database, Live, Doomed
    <3>2. CASE UNCHANGED db
      BY <3>2 DEF Live
    <3> QED
      BY <2>2, <3>1, <3>2
         DEF Uninstall, Fetch, DeleteSecurityGroup, DeleteSubnetGroup, aws
  <2>3. CASE UNCHANGED db
    BY <2>3 DEF Live
  <2>4. ASSUME NEW a \in Actors, Save(a) PROVE Fine
    BY <2>1, <2>4 DEF Save, Live, Database
  <2>5. CASE Create
    BY <2>1, <2>5 DEF Create, Live, Database
  <2>6. CASE PromoteReplica \/ ModifyDatabase \/ ListStates
    <3>1. \/ db' = db
          \/ db' = [db EXCEPT ![Copy("promote").db].replica = FALSE]
          \/ db' = [db EXCEPT ![Copy("promote").db].protect = Copy("promote").protect]
          \/ db' = [db EXCEPT ![record.says.db].dropped = TRUE]
      BY <2>6 DEF PromoteReplica, ModifyDatabase, ListStates
    <3>2. record.says.db \in DOMAIN db /\ Copy("promote").db \in DOMAIN db
      BY <2>1, CopyType DEF Actors
    <3>3. \A d \in DOMAIN db : db'[d].status = db[d].status
      BY <2>1, <3>1, <3>2 DEF Database
    <3> QED
      BY <3>3 DEF Live
  <2>7. ASSUME NEW e \in Databases, Arrive(e) \/ Vanish(e) PROVE Fine
    BY <2>1, <2>7 DEF Arrive, Vanish, Live, Database
  <2>8. CASE PromoteStep
    BY <2>8, <2>2, <2>3, <2>4, <2>5, <2>6
       DEF PromoteStep, Provision, CreateGroup, AddIngressRule, CreateSubnetGroup,
           Import, ModifyCache, IsAvailable, Connect, WaitUntilAvailable, aws, Actors
  <2>9. CASE ResolverStep
    BY <2>9, <2>3, <2>4
       DEF ResolverStep, Resolve, Connected, Connect, WaitUntilAvailable, aws, Actors
  <2>10. CASE RemoverStep
    BY <2>10, <2>2, <2>3 DEF RemoverStep, Notified, RemoveFinalizer, aws, Actors
  <2>11. CASE \E a \in Actors : CallFails(a) \/ Crash(a)
    BY <2>11, <2>3 DEF CallFails, Crash, aws
  <2> QED
    BY <2>7, <2>8, <2>9, <2>10, <2>11 DEF Next
<1> QED
  BY <1>1, TypeInit, TypeStep, UninstallInit, UninstallStep, PTL
     DEF Spec, OnlyDroppedAreDeleted

(*--------------------------- what can be lost ----------------------------*)
(* No database is made or unrecorded, and a promote that has one to record *)
(* stays where it is.                                                      *)
Harmless ==
  /\ \A d \in Databases : /\ db[d].status = "none" => db'[d].status = "none"
                          /\ db[d].recorded => db'[d].recorded
  /\ At("promote", "record") => job'["promote"] = job["promote"]

LEMMA HarmlessStep ==
  ASSUME TypeOK, Next, ~Create, UNCHANGED faults,
         \A a \in Actors : ~Save(a)
  PROVE  Harmless
<1>1. DOMAIN db = Databases \cup {Foreign}
        /\ (\A d \in DOMAIN db : db[d] \in Database)
        /\ (\A a \in Actors : Copy(a).db \in DOMAIN db)
        /\ record.says.db \in DOMAIN db
  BY CopyType DEF TypeOK, Actors
<1>2. \A d \in Databases : /\ db[d].status = "none" => db'[d].status = "none"
                           /\ db[d].recorded => db'[d].recorded
  <2> DEFINE Same == \A d \in Databases :
               /\ db[d].status = "none" => db'[d].status = "none"
               /\ db[d].recorded => db'[d].recorded
  <2>1. CASE UNCHANGED db
    BY <2>1
  <2>2. ASSUME NEW a \in Actors, Uninstall(a) PROVE Same
    <3> DEFINE c == Copy(a).db
    <3>1. \/ db' = db
          \/ db' = [db EXCEPT ![c].kept = TRUE]
          \/ /\ db[c].status = "available"
             /\ db' = [db EXCEPT ![c].status = "deleting"]
      BY <2>2 DEF Uninstall, Fetch, DeleteDatabase, DeleteCache, Delete,
                  DeleteSecurityGroup, DeleteSubnetGroup, aws
    <3> QED
      BY <1>1, <3>1 DEF Database
  <2>3. CASE PromoteReplica \/ ModifyDatabase \/ ListStates
    <3>1. \/ db' = db
          \/ db' = [db EXCEPT ![Copy("promote").db].replica = FALSE]
          \/ db' = [db EXCEPT ![Copy("promote").db].protect = Copy("promote").protect]
          \/ db' = [db EXCEPT ![record.says.db].dropped = TRUE]
      BY <2>3 DEF PromoteReplica, ModifyDatabase, ListStates
    <3> QED
      BY <1>1, <3>1 DEF Database, Actors
  <2>4. ASSUME NEW e \in Databases, Arrive(e) \/ Vanish(e) PROVE Same
    BY <1>1, <2>4 DEF Arrive, Vanish, Database
  <2>5. CASE PromoteStep
    BY <2>5, <2>1, <2>2, <2>3
       DEF PromoteStep, Provision, CreateGroup, AddIngressRule, CreateSubnetGroup,
           Import, ModifyCache, IsAvailable, Connect, WaitUntilAvailable, aws, Actors
  <2>6. CASE ResolverStep
    BY <2>6, <2>1
       DEF ResolverStep, Resolve, Connected, Connect, WaitUntilAvailable, aws, Actors
  <2>7. CASE RemoverStep
    BY <2>7, <2>1, <2>2 DEF RemoverStep, Notified, RemoveFinalizer, aws, Actors
  <2>8. CASE \E a \in Actors : CallFails(a) \/ Crash(a)
    BY <2>8, <2>1 DEF CallFails, Crash, aws
  <2> QED
    BY <2>4, <2>5, <2>6, <2>7, <2>8 DEF Next
<1>3. At("promote", "record") => job'["promote"] = job["promote"]
  <2> SUFFICES ASSUME At("promote", "record")
               PROVE  job'["promote"] = job["promote"]
    OBVIOUS
  <2>1. ~PromoteStep
    BY DEF PromoteStep, Provision, CreateGroup, AddIngressRule, CreateSubnetGroup,
           Import, PromoteReplica, ModifyDatabase, ModifyCache, IsAvailable,
           ListStates, Connect, WaitUntilAvailable, Uninstall, Fetch,
           DeleteDatabase, DeleteCache, DeleteSecurityGroup, DeleteSubnetGroup,
           At, Actors
  <2>2. CASE ResolverStep
    <3>1. CASE Resolve \/ Connected
      BY <3>1, GoJob, StopJob DEF Resolve, Connected, Actors
    <3>2. CASE Connect("resolver") \/ WaitUntilAvailable("resolver")
      <4>1. Stop("resolver") \/ \E s, c : GoWith("resolver", s, c)
        BY <3>2 DEF Connect, WaitUntilAvailable
      <4> QED
        BY <4>1, GoWithJob, StopJob DEF Actors
    <3> QED
      BY <2>2, <3>1, <3>2 DEF ResolverStep, Actors
  <2>3. CASE RemoverStep
    <3>1. CASE Notified \/ RemoveFinalizer
      BY <3>1, GoJob, StopJob DEF Notified, RemoveFinalizer, Actors
    <3>2. CASE Uninstall("remover")
      <4>1. Stop("remover") \/ (\E s : Go("remover", s))
              \/ (\E s, c : GoWith("remover", s, c))
        BY <3>2 DEF Uninstall, Fetch, DeleteDatabase, DeleteCache, Delete,
                    Uninstalled, DeleteSecurityGroup, DeleteSubnetGroup
      <4> QED
        BY <4>1, GoJob, GoWithJob, StopJob DEF Actors
    <3> QED
      BY <2>3, <3>1, <3>2 DEF RemoverStep
  <2>4. CASE \E d \in Databases : Arrive(d) \/ Vanish(d)
    BY <2>4 DEF Arrive, Vanish
  <2>5. ~\E a \in Actors : CallFails(a) \/ Crash(a)
    BY DEF CallFails, Crash, TypeOK
  <2> QED
    BY <2>1, <2>2, <2>3, <2>4, <2>5 DEF Next
<1> QED
  BY <1>2, <1>3 DEF Harmless

LEMMA LostGrows ==
  ASSUME TypeOK, [Next]_vars
  PROVE  \/ Lost' \subseteq Lost /\ faults' = faults
         \/ Lost' \subseteq Lost \cup {Copy("promote").db} /\ faults' = faults + 1
<1>1. DOMAIN db = Databases \cup {Foreign}
        /\ \A d \in DOMAIN db : db[d] \in Database
  BY DEF TypeOK
<1>2. CASE UNCHANGED vars
  BY <1>2 DEF vars, aws, Lost, Made, At, Copy
<1>3. CASE Next /\ Harmless /\ UNCHANGED faults
  BY <1>3 DEF Harmless, Lost, Made, At, Copy
<1>4. CASE Create
  <2> PICK d \in Databases \ Made : \E c \in [db : {d}, protect : BOOLEAN,
        source : BOOLEAN, groups : BOOLEAN, host : BOOLEAN] :
      /\ GoWith("promote", "record", c)
      /\ \A e \in Databases \ {d} : db'[e] = db[e]
    <3>1. wanted.source \in BOOLEAN
      BY OptionsType DEF TypeOK
    <3> QED
      BY <1>1, <1>4, <3>1 DEF Create, Created
  <2>1. At("promote", "record")' /\ Copy("promote").db' = d
    BY GoWithJob DEF At, Copy, Actors
  <2>2. UNCHANGED faults /\ ~At("promote", "record")
    BY <1>4 DEF Create, At
  <2> QED
    BY <2>1, <2>2 DEF Lost, Made
<1>5. ASSUME NEW a \in Actors, Save(a)
      PROVE  Lost' \subseteq Lost /\ faults' = faults
  <2>1. Copy(a).db \in DOMAIN db /\ db' = [db EXCEPT ![Copy(a).db].recorded = TRUE]
    BY <1>1, <1>5, CopyType DEF Save
  <2>2. db'[Copy(a).db].recorded
          /\ \A d \in DOMAIN db : /\ db'[d].status = db[d].status
                                  /\ db[d].recorded => db'[d].recorded
    BY <1>1, <2>1 DEF Database
  <2>3. a = "promote" \/ job'["promote"] = job["promote"]
    BY <1>5, GoJob DEF Save, Actors
  <2> QED
    BY <1>1, <1>5, <2>2, <2>3 DEF Save, Lost, Made, At, Copy
<1>6. ASSUME NEW a \in Actors, CallFails(a) \/ Crash(a)
      PROVE  Lost' \subseteq Lost \cup {Copy("promote").db} /\ faults' = faults + 1
  BY <1>6 DEF CallFails, Crash, Lost, Made, aws
<1> QED
  <2>1. CASE Next /\ (\A a \in Actors : ~(CallFails(a) \/ Crash(a)))
    <3>1. UNCHANGED faults
      BY <2>1 DEF Next, PromoteStep, ResolverStep, RemoverStep, Uninstall,
         Provision, CreateGroup, AddIngressRule, CreateSubnetGroup, Create, Import,
         PromoteReplica, ModifyDatabase, ModifyCache, IsAvailable, ListStates,
         Connect, WaitUntilAvailable, Save, Fetch, DeleteDatabase, DeleteCache,
         DeleteSecurityGroup, DeleteSubnetGroup, Resolve, Connected, Notified,
         RemoveFinalizer, Arrive, Vanish
    <3> QED
      BY <2>1, <3>1, <1>3, <1>4, <1>5, HarmlessStep
  <2> QED
    BY <2>1, <1>2, <1>6

(* A database nobody can find again has cost a failing call or a process   *)
(* that died between its creation and its record, and each such fault one  *)
(* database at most (Provision in both provisioners).                      *)
THEOREM LostByFaults == Spec => []LostOnlyByFaults
<1>1. Init => LostOnlyByFaults
  <2> SUFFICES ASSUME Init PROVE LostOnlyByFaults
    OBVIOUS
  <2>1. Lost = {}
    BY ProvisionerAssumption DEF Init, Lost, Made
  <2> QED
    BY <2>1, FS_EmptySet DEF LostOnlyByFaults, Init
<1>2. TypeOK /\ LostOnlyByFaults /\ [Next]_vars => LostOnlyByFaults'
  <2> SUFFICES ASSUME TypeOK, LostOnlyByFaults, [Next]_vars PROVE LostOnlyByFaults'
    OBVIOUS
  <2> DEFINE c == Copy("promote").db
  <2>1. IsFiniteSet(Lost)
    BY ProvisionerAssumption, FS_Subset DEF Lost, Made
  <2>2. IsFiniteSet(Lost \cup {c}) /\ Cardinality(Lost) \in Nat
          /\ Cardinality(Lost \cup {c}) <= Cardinality(Lost) + 1
    BY <2>1, FS_AddElement, FS_CardinalityType
  <2>3. faults \in Nat
    BY ProvisionerAssumption DEF TypeOK
  <2>4. CASE Lost' \subseteq Lost /\ faults' = faults
    BY <2>1, <2>2, <2>3, <2>4, FS_Subset, FS_CardinalityType DEF LostOnlyByFaults
  <2>5. CASE Lost' \subseteq Lost \cup {c} /\ faults' = faults + 1
    BY <2>2, <2>3, <2>5, FS_Subset, FS_CardinalityType DEF LostOnlyByFaults
  <2> QED
    BY <2>4, <2>5, LostGrows
<1> QED
  BY <1>1, <1>2, TypeInit, TypeStep, PTL DEF Spec

(*------------------------ the record goes last ---------------------------*)
(* AWS was asked to delete it, or never will be.                           *)
Over(d) == d = Foreign \/ db[d].status \in {"deleting", "gone"} \/ db[d].kept

LEMMA OverStays ==
  ASSUME TypeOK, Next, NEW d \in Databases \cup {Foreign},
         db[d].status \in {"deleting", "gone"} \/ db[d].kept
  PROVE  db'[d].status \in {"deleting", "gone"} \/ db'[d].kept
<1> DEFINE Stays == db'[d].status \in {"deleting", "gone"} \/ db'[d].kept
<1>1. DOMAIN db = Databases \cup {Foreign}
        /\ (\A e \in DOMAIN db : db[e] \in Database)
        /\ (\A a \in Actors : Copy(a).db \in DOMAIN db)
        /\ record.says.db \in DOMAIN db
  BY CopyType DEF TypeOK, Actors
<1>2. CASE UNCHANGED db
  BY <1>2
<1>3. CASE Create
  BY <1>1, <1>3 DEF Create, Made, Database
<1>4. ASSUME NEW a \in Actors, Uninstall(a) PROVE Stays
  <2>1. \/ db' = db
        \/ db' = [db EXCEPT ![Copy(a).db].kept = TRUE]
        \/ db' = [db EXCEPT ![Copy(a).db].status = "deleting"]
    BY <1>4 DEF Uninstall, Fetch, DeleteDatabase, DeleteCache, Delete,
                DeleteSecurityGroup, DeleteSubnetGroup, aws
  <2> QED
    BY <1>1, <2>1 DEF Database
<1>5. CASE PromoteReplica \/ ModifyDatabase \/ ListStates
  <2>1. \/ db' = db
        \/ db' = [db EXCEPT ![Copy("promote").db].replica = FALSE]
        \/ db' = [db EXCEPT ![Copy("promote").db].protect = Copy("promote").protect]
        \/ db' = [db EXCEPT ![record.says.db].dropped = TRUE]
    BY <1>5 DEF PromoteReplica, ModifyDatabase, ListStates
  <2> QED
    BY <1>1, <2>1 DEF Database, Actors
<1>6. ASSUME NEW a \in Actors, Save(a) PROVE Stays
  BY <1>1, <1>6 DEF Save, Database
<1>7. ASSUME NEW e \in Databases, Arrive(e) \/ Vanish(e) PROVE Stays
  BY <1>1, <1>7 DEF Arrive, Vanish, Database
<1> QED
  <2>1. CASE PromoteStep
    BY <2>1, <1>2, <1>3, <1>4, <1>5, <1>6
       DEF PromoteStep, Provision, CreateGroup, AddIngressRule, CreateSubnetGroup,
           Import, ModifyCache, IsAvailable, Connect, WaitUntilAvailable, aws, Actors
  <2>2. CASE ResolverStep
    BY <2>2, <1>2, <1>6
       DEF ResolverStep, Resolve, Connected, Connect, WaitUntilAvailable, aws, Actors
  <2>3. CASE RemoverStep
    BY <2>3, <1>2, <1>4 DEF RemoverStep, Notified, RemoveFinalizer, aws, Actors
  <2>4. CASE \E a \in Actors : CallFails(a) \/ Crash(a)
    BY <2>4, <1>2 DEF CallFails, Crash, aws
  <2> QED
    BY <2>1, <2>2, <2>3, <2>4, <1>7 DEF Next

(* Past the deletion, the database that the uninstall read from the record *)
(* is over.                                                                *)
OverInv ==
  job["remover"].step \in {"sweep", "subnets", "release"} => Over(Copy("remover").db)

(* How the remover gets there.                                             *)
LEMMA RemoverMoves ==
  ASSUME TypeOK, Next
  PROVE  \/ job'["remover"] = job["remover"]
         \/ job'["remover"].step \in {"idle", "fetch", "delete"}
         \/ /\ job'["remover"].copy = job["remover"].copy
            /\ \/ job["remover"].step \in {"sweep", "subnets"}
               \/ DeleteDatabase("remover") \/ DeleteCache("remover")
<1>1. CASE PromoteStep
  <2>1. (\E s : Go("promote", s)) \/ (\E s, c : GoWith("promote", s, c))
          \/ Stop("promote")
    <3>1. CASE \E o \in Releases : Provision(o)
      BY <3>1 DEF Provision
    <3>2. CASE Uninstall("promote")
      BY <3>2 DEF Uninstall, Fetch, DeleteDatabase, DeleteCache, Delete,
                  Uninstalled, DeleteSecurityGroup, DeleteSubnetGroup
    <3>3. CASE Create \/ Import
      BY <3>3 DEF Create, Import
    <3> QED
      BY <1>1, <3>1, <3>2, <3>3
         DEF PromoteStep, CreateGroup, AddIngressRule, CreateSubnetGroup,
             PromoteReplica, ModifyDatabase, ModifyCache, IsAvailable, ListStates,
             Connect, WaitUntilAvailable, Save
  <2> QED
    BY <2>1, GoJob, GoWithJob, StopJob DEF Actors
<1>2. CASE ResolverStep
  <2>1. (\E s : Go("resolver", s)) \/ (\E s, c : GoWith("resolver", s, c))
          \/ Stop("resolver")
    BY <1>2 DEF ResolverStep, Resolve, Connected, Connect, WaitUntilAvailable, Save
  <2> QED
    BY <2>1, GoJob, GoWithJob, StopJob DEF Actors
<1>3. CASE RemoverStep
  <2>1. CASE Notified \/ RemoveFinalizer \/ Fetch("remover")
    BY <2>1, GoJob, GoWithJob, StopJob DEF Notified, RemoveFinalizer, Fetch, Actors
  <2>2. CASE DeleteDatabase("remover") \/ DeleteCache("remover")
    <3>1. Stop("remover") \/ \E s : Go("remover", s)
      BY <2>2 DEF DeleteDatabase, DeleteCache, Delete, Uninstalled
    <3> QED
      BY <2>2, <3>1, GoJob, StopJob DEF Actors
  <2>3. CASE DeleteSecurityGroup("remover") \/ DeleteSubnetGroup("remover")
    <3>1. job["remover"].step \in {"sweep", "subnets"}
            /\ (Stop("remover") \/ \E s : Go("remover", s))
      BY <2>3 DEF DeleteSecurityGroup, DeleteSubnetGroup, Uninstalled, At
    <3> QED
      BY <3>1, GoJob, StopJob DEF Actors
  <2> QED
    BY <1>3, <2>1, <2>2, <2>3 DEF RemoverStep, Uninstall
<1>4. CASE \E d \in Databases : Arrive(d) \/ Vanish(d)
  BY <1>4 DEF Arrive, Vanish
<1>5. ASSUME NEW a \in Actors, CallFails(a) \/ Crash(a)
      PROVE  job'["remover"] = job["remover"]
               \/ job'["remover"].step \in {"idle", "fetch"}
  BY <1>5, GoJob, StopJob DEF CallFails, Crash, Actors
<1> QED
  BY <1>1, <1>2, <1>3, <1>4, <1>5 DEF Next

(* The finalizer is the only thing that takes a record away, and it does   *)
(* so when the database named by the record the uninstall has read is not  *)
(* to be deleted any more (processStateDelete, Uninstall).                 *)
THEOREM RecordIsLast == Spec => RecordGoesLast
<1> DEFINE c == Copy("remover").db
           Fine == record.there /\ ~record'.there =>
                     Settled(record.says.db) \/ record.says.db # c
<1>1. Init => OverInv
  BY DEF Init, OverInv, Idle, Actors
<1>2. TypeOK /\ OverInv /\ [Next]_vars => OverInv'
  <2> SUFFICES ASSUME TypeOK, OverInv, [Next]_vars PROVE OverInv'
    OBVIOUS
  <2>1. CASE UNCHANGED vars
    BY <2>1 DEF vars, aws, OverInv, Over, Copy
  <2>2. CASE Next
    <3>1. c \in Databases \cup {Foreign}
      BY CopyType DEF Actors
    <3>2. CASE DeleteDatabase("remover") \/ DeleteCache("remover")
      <4>1. db[c] \in Database /\ c \in DOMAIN db
        BY <3>1 DEF TypeOK
      <4>2. \/ db' = db /\ (NotFound(c) \/ ~Tagged(c) \/ Stop("remover"))
            \/ db' = [db EXCEPT ![c].kept = TRUE]
            \/ db' = [db EXCEPT ![c].status = "deleting"]
        BY <3>2 DEF DeleteDatabase, DeleteCache, Delete
      <4>3. c = Foreign \/ db'[c].status \in {"deleting", "gone"} \/ db'[c].kept
              \/ job'["remover"].step = "idle"
        BY <4>1, <4>2, StopJob DEF NotFound, Tagged, Database, Actors
      <4> QED
        BY <2>2, <4>3, RemoverMoves DEF OverInv, Over, Copy, DeleteDatabase, DeleteCache, At
    <3>3. CASE ~(DeleteDatabase("remover") \/ DeleteCache("remover"))
      BY <2>2, <3>1, <3>3, RemoverMoves, OverStays DEF OverInv, Over, Copy
    <3> QED
      BY <3>2, <3>3
  <2> QED
    BY <2>1, <2>2
<1>3. TypeOK /\ OverInv /\ [Next]_vars => [Fine]_vars
  <2> SUFFICES ASSUME TypeOK, OverInv, Next PROVE Fine
    OBVIOUS
  <2>1. CASE RemoveFinalizer
    BY <2>1 DEF RemoveFinalizer, OverInv, Over, Settled, Live, At, Copy
  <2>2. CASE ~RemoveFinalizer
    <3>1. ASSUME NEW a \in Actors, Save(a) PROVE record'.there
      BY <3>1 DEF Save
    <3>2. CASE ListStates
      BY <3>2 DEF ListStates, TypeOK
    <3>3. ASSUME NEW a \in Actors, Uninstall(a) PROVE record' = record
      BY <3>3 DEF Uninstall, Fetch, DeleteDatabase, DeleteCache,
                  DeleteSecurityGroup, DeleteSubnetGroup, rack
    <3>4. CASE PromoteStep
      BY <3>1, <3>2, <3>3, <3>4
         DEF PromoteStep, Provision, CreateGroup, AddIngressRule, CreateSubnetGroup,
             Create, Import, PromoteReplica, ModifyDatabase, ModifyCache,
             IsAvailable, Connect, WaitUntilAvailable, rack, Actors
    <3>5. CASE ResolverStep
      BY <3>1, <3>5
         DEF ResolverStep, Resolve, Connected, Connect, WaitUntilAvailable, rack, Actors
    <3>6. CASE RemoverStep
      BY <2>2, <3>3, <3>6 DEF RemoverStep, Notified, rack, Actors
    <3>7. CASE \E d \in Databases : Arrive(d) \/ Vanish(d)
      BY <3>7 DEF Arrive, Vanish, rack
    <3>8. CASE \E a \in Actors : CallFails(a) \/ Crash(a)
      BY <3>8 DEF CallFails, Crash, rack
    <3> QED
      BY <3>4, <3>5, <3>6, <3>7, <3>8 DEF Next
  <2> QED
    BY <2>1, <2>2
<1> QED
  BY <1>1, <1>2, <1>3, TypeInit, TypeStep, PTL DEF Spec, RecordGoesLast
=============================================================================
