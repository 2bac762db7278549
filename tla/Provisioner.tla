------------------------------ MODULE Provisioner ------------------------------
(***************************************************************************)
(* One AWS resource of an app, an RDS database or an ElastiCache cache     *)
(* (provider/aws/provisioner/rds and .../elasticache), through the         *)
(* releases that want it and those that dropped it.                        *)
(*                                                                         *)
(* AWS has the databases and the security and subnet group made for them.  *)
(* What the rack knows of them is one Kubernetes secret, the record, with  *)
(* the parameters as JSON; a finalizer keeps a deleted record until the    *)
(* database was asked to go.  A database gets a fresh random name, so only *)
(* the record leads back to it.                                            *)
(*                                                                         *)
(* Three actors work on them, none excludes another: the promote of a      *)
(* release (provider/k8s/release.go, releaseRdsResources), the resolver    *)
(* that waits for the connection of a resource that was not available      *)
(* (provider/k8s/controller_atom.go, processRdsDependency), and the secret *)
(* controller, which uninstalls what a deleted record names.  Every call   *)
(* to AWS or to Kubernetes is a step; a record is written without looking  *)
(* whether it has changed since it was read.                               *)
(***************************************************************************)
EXTENDS Naturals, FiniteSets

CONSTANTS
  Databases,     \* names that databases of this resource can get
  Foreign,       \* a database convox has not made, to be imported
  MaxReleases,   \* bound on promotes
  MaxFaults      \* bound on failing calls and dying processes

ASSUME ProvisionerAssumption ==
  /\ Foreign \notin Databases /\ IsFiniteSet(Databases)
  /\ MaxReleases \in Nat /\ MaxFaults \in Nat

VARIABLES
  kind,       \* "rds" or "cache", never changes
  db,         \* AWS: the databases
  sg, subnet, \* AWS: the security group and the subnet group of the resource
  record,     \* the state secret
  job,        \* what each actor is doing
  wanted,     \* the options of the release being promoted
  waiting,    \* whether the promoted atom has the resource as a dependency
  releases, faults   \* the bounds' counters

aws == <<db, sg, subnet>>
rack == <<record, wanted, waiting, releases>>
vars == <<kind, aws, record, job, wanted, waiting, releases, faults>>

Actors == {"promote", "resolver", "remover"}

(* The resource in a release's manifest: whether deletionProtection is set *)
(* or left out, and whether import or readSourceDB is given.               *)
Options == [protect : {"true", "false", ""}, import : BOOLEAN, source : BOOLEAN]
Dropped == [protect |-> "", import |-> FALSE, source |-> FALSE, dropped |-> TRUE]
Releases == {[protect |-> o.protect, import |-> o.import, source |-> o.source,
              dropped |-> FALSE] : o \in {p \in Options : ~(p.import /\ p.source)}}
            \cup {Dropped}

(* What the record says: the database, whether deletion is protected, the  *)
(* source if it is a replica, whether it was made with the subnet group,   *)
(* and whether the host is known.                                          *)
Parameters == [db : Databases \cup {Foreign}, protect : BOOLEAN,
               source : BOOLEAN, groups : BOOLEAN, host : BOOLEAN]
NoParameters == [db |-> Foreign, protect |-> FALSE, source |-> FALSE,
                 groups |-> FALSE, host |-> FALSE]
NoRecord == [there |-> FALSE, deleted |-> FALSE, says |-> NoParameters]

(* The call that is made next.                                             *)
Steps == {"idle", "group", "ingress", "subnet", "create", "record", "import",
          "demote", "demote, modify", "modify", "save", "available", "connect",
          "wait", "host", "connected", "list",
          "fetch", "delete", "sweep", "subnets", "release"}

Idle == [step |-> "idle", copy |-> NoParameters]

Go(a, step) == job' = [job EXCEPT ![a].step = step]
GoWith(a, step, copy) == job' = [job EXCEPT ![a] = [step |-> step, copy |-> copy]]
Stop(a) == job' = [job EXCEPT ![a] = Idle]
At(a, step) == job[a].step = step
Copy(a) == job[a].copy

Live == {"creating", "available"}
Made == {d \in Databases : db[d].status # "none"}
(* AWS refuses to delete groups that a database still uses.                *)
GroupsInUse == \E d \in Made : db[d].status # "gone" /\ ~db[d].replica

(*------------------------------ the promote ------------------------------*)
(* Provision, for a resource the release has: import it, install it when   *)
(* no record is found, else update it.  Whatever else is wrong with the    *)
(* options ends the promote at once, which it may also do here: a promote  *)
(* that fails before its first call is one that does not begin.  A         *)
(* resource that convox has made is not turned into an import.             *)
Changed(o, says) == o.protect # "" /\ (o.protect = "true") # says.protect

Updated(o, says) ==
  [says EXCEPT !.protect = IF o.protect = "" THEN @ ELSE o.protect = "true"]

Demoted(o, says) == says.source /\ ~o.source

Provision(o) ==
  /\ At("promote", "idle") /\ releases < MaxReleases
  /\ o.source => kind = "rds"
  /\ o.import => (record.there => record.says.db = Foreign)
  /\ releases' = releases + 1 /\ wanted' = o
  /\ IF o.dropped THEN Go("promote", "list")
     ELSE IF o.import THEN Go("promote", "import")
     ELSE IF ~record.there
          THEN Go("promote", IF o.source THEN "create" ELSE "group")
     ELSE /\ o.source => record.says.source
          /\ GoWith("promote",
               IF Demoted(o, record.says)
               THEN IF Changed(o, record.says) THEN "demote, modify" ELSE "demote"
               ELSE IF Changed(o, record.says) THEN "modify" ELSE "available",
               Updated(o, record.says))
  /\ UNCHANGED <<kind, aws, record, waiting, faults>>

(* createSecurityGroupIfNotProvided and createDBSubnetGroupIfNotProvided.  *)
CreateGroup ==
  /\ At("promote", "group")
  /\ IF sg = "none" THEN sg' = "closed" /\ Go("promote", "ingress")
     ELSE sg' = sg /\ Go("promote", "subnet")
  /\ UNCHANGED <<kind, db, subnet, rack, faults>>

AddIngressRule ==
  /\ At("promote", "ingress")
  /\ sg' = IF sg = "closed" THEN "open" ELSE sg
  /\ Go("promote", "subnet")
  /\ UNCHANGED <<kind, db, subnet, rack, faults>>

CreateSubnetGroup ==
  /\ At("promote", "subnet")
  /\ subnet' = TRUE
  /\ Go("promote", "create")
  /\ UNCHANGED <<kind, db, sg, rack, faults>>

(* Variant: the record is left to the first look at the connection.        *)
CreatedUnrecorded == "available"
Created == "record"

(* CreateDBInstance, CreateDBInstanceReadReplica or the cache's; what is   *)
(* left to do is to record it.                                             *)
Create ==
  /\ At("promote", "create")
  /\ \E d \in Databases \ Made :
       LET protect == wanted.protect = "true"
       IN /\ db' = [db EXCEPT ![d] = [db[d] EXCEPT !.status = "creating",
                      !.protect = protect /\ kind = "rds",
                      !.replica = wanted.source]]
          /\ GoWith("promote", Created,
               [db |-> d, protect |-> protect, source |-> wanted.source,
                groups |-> ~wanted.source, host |-> FALSE])
  /\ UNCHANGED <<kind, sg, subnet, rack, faults>>

(* Import reads the database and records it.                               *)
Import ==
  /\ At("promote", "import")
  /\ GoWith("promote", "save",
       [db |-> Foreign, protect |-> db[Foreign].protect, source |-> FALSE,
        groups |-> FALSE, host |-> FALSE])
  /\ UNCHANGED <<kind, aws, rack, faults>>

(* Update, when the source parameter is gone: the replica is promoted.     *)
(* AWS refuses that of a database that is none, and unless another         *)
(* parameter changed the promotion is not recorded.                        *)
PromoteReplica ==
  /\ job["promote"].step \in {"demote", "demote, modify"}
  /\ LET d == Copy("promote").db IN
     IF db[d].replica /\ db[d].status = "available"
     THEN /\ db' = [db EXCEPT ![d].replica = FALSE]
          /\ GoWith("promote",
               IF At("promote", "demote") THEN "available" ELSE "modify",
               [Copy("promote") EXCEPT !.source = FALSE])
     ELSE db' = db /\ Stop("promote")
  /\ UNCHANGED <<kind, sg, subnet, rack, faults>>

(* ModifyDBInstance; deletion protection is an attribute of the instance.  *)
ModifyDatabase ==
  /\ kind = "rds" /\ At("promote", "modify")
  /\ LET d == Copy("promote").db IN
     IF db[d].status = "available"
     THEN /\ db' = [db EXCEPT ![d].protect = Copy("promote").protect]
          /\ Go("promote", "save")
     ELSE db' = db /\ Stop("promote")
  /\ UNCHANGED <<kind, sg, subnet, rack, faults>>

(* The calls that change a cache; its protection is kept in the record     *)
(* only.                                                                   *)
ModifyCache ==
  /\ kind = "cache" /\ At("promote", "modify")
  /\ IF db[Copy("promote").db].status = "available"
     THEN Go("promote", "save") ELSE Stop("promote")
  /\ UNCHANGED <<kind, aws, rack, faults>>

(* IsDbAvailable.  A database that does not answer ends the promote, one   *)
(* that is not ready becomes a dependency of the atom.                     *)
IsAvailable ==
  /\ At("promote", "available")
  /\ IF ~record.there \/ db[record.says.db].status = "gone" THEN Stop("promote")
     ELSE Go("promote", IF db[record.says.db].status = "available"
                        THEN "connect" ELSE "list")
  /\ UNCHANGED <<kind, aws, rack, faults>>

(* The records that the manifest no longer has are deleted, and the atom   *)
(* is applied, with a dependency if the connection is not known.           *)
ListStates ==
  /\ \/ At("promote", "list") /\ waiting' = ~wanted.dropped
     \/ At("promote", "connected") /\ waiting' = FALSE
  /\ record' = IF wanted.dropped /\ record.there
               THEN [record EXCEPT !.deleted = TRUE] ELSE record
  /\ db' = IF wanted.dropped /\ record.there
           THEN [db EXCEPT ![record.says.db].dropped = TRUE] ELSE db
  /\ Stop("promote")
  /\ UNCHANGED <<kind, sg, subnet, wanted, releases, faults>>

(*------------------------- the connection's host -------------------------*)
(* processDependency takes the dependency up; it is started again as long  *)
(* as the atom has it.                                                     *)
Resolve ==
  /\ At("resolver", "idle") /\ waiting
  /\ Go("resolver", "connect")
  /\ UNCHANGED <<kind, aws, rack, faults>>

(* GetConnectionInfo of promote and resolver.  The host is asked for once, *)
(* after waiting for the database, and then written into the record as it  *)
(* was read before the wait.                                               *)
Connect(a) ==
  /\ At(a, "connect")
  /\ IF ~record.there THEN Stop(a)
     ELSE GoWith(a, IF record.says.host THEN "connected" ELSE "wait", record.says)
  /\ UNCHANGED <<kind, aws, rack, faults>>

WaitUntilAvailable(a) ==
  /\ At(a, "wait")
  /\ \/ /\ db[Copy(a).db].status = "available"
        /\ GoWith(a, "host", [Copy(a) EXCEPT !.host = TRUE])
     \/ /\ db[Copy(a).db].status \in {"deleting", "gone"} \/ ~record.there
        /\ Stop(a)
  /\ UNCHANGED <<kind, aws, rack, faults>>

Connected ==
  /\ At("resolver", "connected")
  /\ waiting' = FALSE
  /\ Stop("resolver")
  /\ UNCHANGED <<kind, aws, record, wanted, releases, faults>>

(* SaveState: the record is created, or overwritten as it is, deleted or   *)
(* not.                                                                    *)
Saves == [record |-> "available", save |-> "available", host |-> "connected"]

Save(a) ==
  /\ job[a].step \in DOMAIN Saves
  /\ record' = [there |-> TRUE, deleted |-> record.deleted, says |-> Copy(a)]
  /\ db' = [db EXCEPT ![Copy(a).db].recorded = TRUE]
  /\ Go(a, Saves[job[a].step])
  /\ UNCHANGED <<kind, sg, subnet, wanted, waiting, releases, faults>>

(*------------------------------- uninstall -------------------------------*)
(* The secret controller is notified of a deleted record, again at every   *)
(* resync as long as its finalizer is there.                               *)
Notified ==
  /\ At("remover", "idle") /\ record.deleted
  /\ Go("remover", "fetch")
  /\ UNCHANGED <<kind, aws, rack, faults>>

(* Uninstall is called by the remover, and by an install that has failed.  *)
Fetch(a) ==
  /\ At(a, "fetch")
  /\ IF record.there THEN GoWith(a, "delete", record.says) ELSE Stop(a)
  /\ UNCHANGED <<kind, aws, rack, faults>>

Uninstalled(a) == IF a = "remover" THEN Go(a, "release") ELSE Stop(a)

(* Variant: the tag that says who made the database is not looked at.      *)
TaggedAlways(d) == TRUE
Tagged(d) == d # Foreign

(* Variant: a database that is not found is an error.                      *)
NotFoundNever(d) == FALSE
NotFound(d) == db[d].status = "gone"

(* Variant: the error of the deletion is not looked at.                    *)
DeleteUnchecked(a, d) ==
  IF db[d].status = "available"
  THEN db' = [db EXCEPT ![d].status = "deleting"] /\ Go(a, "sweep")
  ELSE db' = db /\ Go(a, "sweep")

(* DeleteDBInstance and the cache's are refused unless the database is     *)
(* available; an error ends the uninstall.                                 *)
Delete(a, d) ==
  IF db[d].status = "available"
  THEN db' = [db EXCEPT ![d].status = "deleting"] /\ Go(a, "sweep")
  ELSE db' = db /\ Stop(a)

DeleteDatabase(a) ==
  /\ kind = "rds" /\ At(a, "delete")
  /\ LET d == Copy(a).db IN
     CASE NotFound(d) -> db' = db /\ Go(a, "sweep")
       [] ~NotFound(d) /\ db[d].protect ->
            db' = [db EXCEPT ![d].kept = TRUE] /\ Uninstalled(a)
       [] ~NotFound(d) /\ ~db[d].protect /\ Tagged(d) -> Delete(a, d)
       [] OTHER -> db' = db /\ Go(a, "sweep")
  /\ UNCHANGED <<kind, sg, subnet, rack, faults>>

DeleteCache(a) ==
  /\ kind = "cache" /\ At(a, "delete")
  /\ LET d == Copy(a).db IN
     CASE Copy(a).protect -> db' = [db EXCEPT ![d].kept = TRUE] /\ Uninstalled(a)
       [] ~Copy(a).protect /\ ~NotFound(d) /\ Tagged(d) -> Delete(a, d)
       [] OTHER -> db' = db /\ Go(a, "sweep")
  /\ UNCHANGED <<kind, sg, subnet, rack, faults>>

(* The groups are deleted if AWS lets them go, errors of that are not      *)
(* looked at.  The record of an imported cache has no parameter for the    *)
(* subnet group, which is an error.                                        *)
DeleteSecurityGroup(a) ==
  /\ At(a, "sweep")
  /\ sg' = IF GroupsInUse THEN sg ELSE "none"
  /\ Go(a, "subnets")
  /\ UNCHANGED <<kind, db, subnet, rack, faults>>

DeleteSubnetGroup(a) ==
  /\ At(a, "subnets")
  /\ subnet' = (subnet /\ (GroupsInUse \/ ~Copy(a).groups))
  /\ IF kind = "cache" /\ Copy(a).db = Foreign THEN Stop(a) ELSE Uninstalled(a)
  /\ UNCHANGED <<kind, db, sg, rack, faults>>

(* Variant: the record's deletion mark is left behind.                     *)
EmptiedMarked(r) == [r EXCEPT !.there = FALSE]
Emptied(r) == IF r.deleted THEN NoRecord ELSE r

(* The finalizer is taken off and the record is gone.                      *)
RemoveFinalizer ==
  /\ At("remover", "release")
  /\ record' = Emptied(record)
  /\ Stop("remover")
  /\ UNCHANGED <<kind, aws, wanted, waiting, releases, faults>>

(*------------------------------ AWS, faults ------------------------------*)
Arrive(d) ==
  /\ db[d].status = "creating"
  /\ db' = [db EXCEPT ![d].status = "available"]
  /\ UNCHANGED <<kind, sg, subnet, job, rack, faults>>

Vanish(d) ==
  /\ db[d].status = "deleting"
  /\ db' = [db EXCEPT ![d].status = "gone"]
  /\ UNCHANGED <<kind, sg, subnet, job, rack, faults>>

(* The call of this step fails: a group without its rule is deleted again, *)
(* a failed creation or recording is followed by Uninstall.                *)
CallFails(a) ==
  /\ ~At(a, "idle") /\ faults < MaxFaults
  /\ faults' = faults + 1
  /\ sg' = IF At(a, "ingress") THEN "none" ELSE sg
  /\ IF job[a].step \in {"create", "record"} THEN Go(a, "fetch") ELSE Stop(a)
  /\ UNCHANGED <<kind, db, subnet, rack>>

Crash(a) ==
  /\ ~At(a, "idle") /\ faults < MaxFaults
  /\ faults' = faults + 1
  /\ Stop(a)
  /\ UNCHANGED <<kind, aws, rack>>

(*----------------------------- specification -----------------------------*)
Init ==
  /\ kind \in {"rds", "cache"}
  /\ db = [d \in Databases \cup {Foreign} |->
             [status |-> IF d = Foreign THEN "available" ELSE "none",
              protect |-> FALSE, replica |-> FALSE,
              recorded |-> FALSE, dropped |-> FALSE, kept |-> FALSE]]
  /\ sg = "none" /\ subnet = FALSE
  /\ record = NoRecord
  /\ job = [a \in Actors |-> Idle]
  /\ wanted = Dropped /\ waiting = FALSE
  /\ releases = 0 /\ faults = 0

Uninstall(a) ==
  \/ Fetch(a) \/ DeleteDatabase(a) \/ DeleteCache(a)
  \/ DeleteSecurityGroup(a) \/ DeleteSubnetGroup(a)

PromoteStep ==
  \/ \E o \in Releases : Provision(o)
  \/ CreateGroup \/ AddIngressRule \/ CreateSubnetGroup \/ Create
  \/ Import \/ PromoteReplica \/ ModifyDatabase \/ ModifyCache
  \/ IsAvailable \/ ListStates
  \/ Connect("promote") \/ WaitUntilAvailable("promote") \/ Save("promote")
  \/ Uninstall("promote")

ResolverStep ==
  \/ Resolve \/ Connected
  \/ Connect("resolver") \/ WaitUntilAvailable("resolver") \/ Save("resolver")

RemoverStep == Notified \/ Uninstall("remover") \/ RemoveFinalizer

Next ==
  \/ PromoteStep \/ ResolverStep \/ RemoverStep
  \/ \E d \in Databases : Arrive(d) \/ Vanish(d)
  \/ \E a \in Actors : CallFails(a) \/ Crash(a)

Spec == Init /\ [][Next]_vars

(* Resyncs notify the remover every ten minutes, and AWS gets on with what *)
(* it was asked for.  Nothing is assumed of promotes.                      *)
FairSpec ==
  /\ Spec
  /\ WF_vars(RemoverStep)
  /\ \A d \in Databases : WF_vars(Arrive(d)) /\ WF_vars(Vanish(d))

(*------------------------------- properties ------------------------------*)
Database ==
  [status : {"none", "creating", "available", "deleting", "gone"},
   protect : BOOLEAN, replica : BOOLEAN,
   recorded : BOOLEAN, dropped : BOOLEAN, kept : BOOLEAN]
Job == [step : Steps, copy : Parameters]

TypeOK ==
  /\ kind \in {"rds", "cache"}
  /\ db \in [Databases \cup {Foreign} -> Database]
  /\ sg \in {"none", "closed", "open"} /\ subnet \in BOOLEAN
  /\ record \in [there : BOOLEAN, deleted : BOOLEAN, says : Parameters]
  /\ record.deleted => record.there
  /\ job \in [Actors -> Job]
  /\ wanted \in Releases /\ waiting \in BOOLEAN
  /\ releases \in 0..MaxReleases /\ faults \in 0..MaxFaults

(* However promotes, resolvers and uninstalls overlap and fail, a database *)
(* is deleted only if convox made it and a release has dropped it, and an  *)
(* RDS database only while its deletion protection is off                  *)
(* (docs/reference/primitives/app/resource/README.md:183).                 *)
OnlyDroppedAreDeleted ==
  [][\A d \in DOMAIN db : db[d].status \in Live /\ db'[d].status = "deleting" =>
       /\ d # Foreign
       /\ db[d].dropped
       /\ kind = "rds" => ~db[d].protect]_vars

Lost ==
  {d \in Made :
     ~db[d].recorded /\ ~(At("promote", "record") /\ Copy("promote").db = d)}

(* A database that no record has ever named, and no promote is about to    *)
(* record, costs money and cannot be found again: a release that is        *)
(* promoted again after a failure makes another one.  Only a call that     *)
(* fails or a process that dies leaves one, and one such fault leaves at   *)
(* most one.                                                               *)
LostOnlyByFaults == Cardinality(Lost) <= faults

Settled(d) == d = Foreign \/ db[d].status \notin Live \/ db[d].kept

(* The record outlives the database it names: it goes only when that was   *)
(* asked to go, was kept for its protection, or is not ours, unless an old *)
(* copy, of another database, was written over it during the uninstall.    *)
RecordGoesLast ==
  [][record.there /\ ~record'.there =>
       Settled(record.says.db) \/ record.says.db # Copy("remover").db]_vars

(* The uninstall of a dropped resource comes to its end, also when it was  *)
(* interrupted after the deletion was asked for, or when it came too early *)
(* for the database to be deleted, unless it is that of an imported cache. *)
DroppedIsRemoved ==
  record.deleted ~> ~record.deleted \/ (kind = "cache" /\ record.says.db = Foreign)
=============================================================================
