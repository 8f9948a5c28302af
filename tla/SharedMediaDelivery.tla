------------------------ MODULE SharedMediaDelivery ------------------------
(***************************************************************************)
(* How approved media of one SKU reach the directories that the            *)
(* marketplaces are served from (services/variant-delivery/index.ts), and  *)
(* how that is made known (services/delivery-outbox.ts).                   *)
(*                                                                         *)
(* An approval delivers to one platform or to both, one after the other.   *)
(* A delivery is staged and verified next to the media of its platform and *)
(* SKU, renamed to its place and registered in the manifest, which is the  *)
(* commit point; then the approval is archived, once for both platforms.   *)
(* Several tasks of a SKU (images and videos of its variants) are          *)
(* delivered concurrently and share the manifests; a lock in memory, and   *)
(* for OZON a lock file as well, is all that orders them.  Cleaning up a   *)
(* published SKU takes the whole directory away under the same lock.       *)
(*                                                                         *)
(* Each approval is of a task of its own, so that at most one operation of *)
(* an approval is active (theorem MutualExclusion of module                *)
(* ReviewOperations_proofs); a transaction of the state store is one step. *)
(***************************************************************************)
EXTENDS Integers, FiniteSets

CONSTANTS
  Approval,    \* operations that approve a task, one for each task
  Delivery,    \* their submissionIds, frozen with the approval
  ApprovalOf,  \* [Delivery -> Approval]
  Wb, Ozon,    \* the platforms
  PlatformOf,  \* [Delivery -> Platform]
  Nobody,
  MaxFaults,   \* bound: failing file operations, failing checks, refused calls
  MaxCrash,    \* bound: process crashes
  MaxWriteFail \* bound: failed writes of db.json

Platform == {Wb, Ozon}
Cleaner  == "cleaner"
Of(a)    == {d \in Delivery : ApprovalOf[d] = a}
On(p)    == {d \in Delivery : PlatformOf[d] = p}

ASSUME MediaAssumption ==
  /\ Wb # Ozon
  /\ ApprovalOf \in [Delivery -> Approval] /\ PlatformOf \in [Delivery -> Platform]
  /\ \A a \in Approval : Of(a) # {}
  /\ \A d, e \in Delivery : d # e => <<ApprovalOf[d], PlatformOf[d]>> # <<ApprovalOf[e], PlatformOf[e]>>
  /\ Approval \cap Delivery = {} /\ Nobody \notin Approval \cup Delivery
  /\ Cleaner \notin Approval \cup {Nobody}
  /\ {MaxFaults, MaxCrash, MaxWriteFail} \subseteq Nat

(* The approval, or the RETRY operation of one of its deliveries: the code   *)
(* accepts a new operation for each retry, here there is one.                *)
Op == Approval \cup Delivery
TaskOf(o) == IF o \in Approval THEN o ELSE ApprovalOf[o]
OpsOf(a)  == {a} \cup Of(a)

VARIABLES
  op,           \* [Op -> status of the operation row]
  ckpt,         \* [Delivery -> deliveryCheckpoints row]
  hist,         \* [Delivery -> status in submissionHistory; UNKNOWN: failed, outcome unknown]
  outbox,       \* [Delivery -> status of the deliveryOutbox row]
  run,          \* [Approval -> memory of the run on its task]
  lock,         \* [Platform -> who holds the source-media lock of the SKU]
  sending,      \* the delivery a tick of the outbox is announcing
  writeFailure, \* StateStore.writeFailure is set
  manifest,     \* [Platform -> deliveries registered in variant-media-manifest.json]
  dest,         \* deliveries whose media are at their destination
  staging,      \* [Delivery -> its directory in .staging]
  archiveTemp,  \* [Delivery -> its staging in the archive]
  archive,      \* deliveries archived
  registered,   \* [Delivery -> how often it was written to the manifest]
  announced,    \* deliveries the downstream service was told of
  faults, crashes, writeFails

store  == <<op, ckpt, hist, outbox>>
shared == <<manifest, dest, registered>>
disk   == <<shared, staging, archiveTemp, archive>>
notice == <<sending, announced>>
vars   == <<store, run, lock, notice, writeFailure, disk, faults, crashes, writeFails>>

ActiveStatus == {"QUEUED", "RUNNING", "RETRY_WAIT", "NEEDS_ATTENTION"}
Retriable    == {"QUEUED", "RUNNING", "FAILED", "PARTIAL_SUCCESS", "NEEDS_ATTENTION"}
Status       == ActiveStatus \cup {"ABSENT", "SUCCEEDED", "PARTIAL_SUCCESS", "FAILED"}
Uncertain    == {"COMMIT_INTENT", "NEEDS_ATTENTION"}

Rebuildable  == {"NONE", "PREPARING", "VERIFIED"}
Phase        == Rebuildable \cup Uncertain \cup {"TARGET_COMMITTED", "COMPLETE"}
Result       == {"SUCCESS", "PARTIAL_SUCCESS", "FAILED"}
Public       == {"SUCCESS", "PARTIAL_SUCCESS"}
RawErrors    == {"transient", "permanent"}
Error        == RawErrors \cup {"none", "unknown"}
Place        == {"idle", "next", "lock", "clear", "build", "verified", "inspect", "intend", "rename",
                 "read", "write", "archive", "save", "caught", "note", "return", "thrown"}

(* arch: the delivery has to be archived; filed: it was; result: its record. *)
Checkpoint == [phase: Phase, owner: Op \cup {Nobody}, arch: BOOLEAN, filed: BOOLEAN, result: Result]
NoCheckpoint ==
  [phase |-> "NONE", owner |-> Nobody, arch |-> FALSE, filed |-> FALSE, result |-> "FAILED"]

(* op: the operation; item: the delivery in hand, mem: its checkpoint,       *)
(* fresh: verified in this run; bad: the records of failed deliveries;       *)
(* filed: one delivery was archived; base: the manifest as it was read.      *)
Idle == [op |-> Nobody, at |-> "idle", todo |-> {}, item |-> Nobody, mem |-> NoCheckpoint,
         fresh |-> FALSE, err |-> "none", ok |-> {}, bad |-> {}, filed |-> FALSE, base |-> {}]
Failure  == [delivery: Delivery, result: Result, err: Error]
Memories == [op: Op \cup {Nobody}, at: Place, todo: SUBSET Delivery, item: Delivery \cup {Nobody},
             mem: Checkpoint, fresh: BOOLEAN, err: Error, ok: SUBSET Delivery, bad: SUBSET Failure,
             filed: BOOLEAN, base: SUBSET Delivery]

TypeOK ==
  /\ op \in [Op -> Status]
  /\ ckpt \in [Delivery -> Checkpoint]
  /\ hist \in [Delivery -> Result \cup {"NONE", "UNKNOWN"}]
  /\ outbox \in [Delivery -> {"NONE", "PENDING", "SENT"}]
  /\ run \in [Approval -> Memories]
  /\ \A a \in Approval :
       /\ run[a].op \in OpsOf(a) \cup {Nobody} /\ run[a].item \in Of(a) \cup {Nobody}
       /\ run[a].todo \subseteq Of(a) /\ run[a].ok \subseteq Of(a)
  /\ lock \in [Platform -> Approval \cup {Nobody, Cleaner}]
  /\ sending \in Delivery \cup {Nobody} /\ announced \subseteq Delivery
  /\ writeFailure \in BOOLEAN
  /\ manifest \in [Platform -> SUBSET Delivery]
  /\ dest \subseteq Delivery /\ archive \subseteq Delivery
  /\ staging \in [Delivery -> {"absent", "partial", "complete", "empty"}]
  /\ archiveTemp \in [Delivery -> {"absent", "partial", "complete"}]
  /\ registered \in [Delivery -> Nat]
  /\ faults \in 0..MaxFaults /\ crashes \in 0..MaxCrash /\ writeFails \in 0..MaxWriteFail

Init ==
  /\ op = [o \in Op |-> "ABSENT"]
  /\ ckpt = [d \in Delivery |-> NoCheckpoint]
  /\ hist = [d \in Delivery |-> "NONE"] /\ outbox = [d \in Delivery |-> "NONE"]
  /\ run = [a \in Approval |-> Idle]
  /\ lock = [p \in Platform |-> Nobody]
  /\ sending = Nobody /\ announced = {}
  /\ writeFailure = FALSE
  /\ manifest = [p \in Platform |-> {}] /\ dest = {} /\ archive = {}
  /\ staging = [d \in Delivery |-> "absent"] /\ archiveTemp = [d \in Delivery |-> "absent"]
  /\ registered = [d \in Delivery |-> 0]
  /\ faults = 0 /\ crashes = 0 /\ writeFails = 0

-----------------------------------------------------------------------------
(* Writes of the state file, faults of the file system.                    *)

Committed == writeFailure' = FALSE /\ UNCHANGED writeFails
Lost ==
  /\ writeFails < MaxWriteFail
  /\ writeFails' = writeFails + 1 /\ writeFailure' = TRUE
Fault == faults < MaxFaults /\ faults' = faults + 1

(* Any other write of the state file. *)
OtherWrite ==
  /\ Committed \/ Lost
  /\ UNCHANGED <<store, run, lock, notice, disk, faults, crashes>>

Active(o)   == op[o] \in ActiveStatus
Unlocked(a) == \A o \in OpsOf(a) : ~Active(o)

-----------------------------------------------------------------------------
(* Operations: accepted, continued, started (see ReviewOperations).        *)

Enqueue(o) ==
  /\ op' = [op EXCEPT ![o] = "QUEUED"]
  /\ Committed
  /\ UNCHANGED <<ckpt, hist, outbox, run, lock, notice, disk, faults, crashes>>

Accept(a) == op[a] = "ABSENT" /\ Unlocked(a) /\ Enqueue(a)

(* POST submissions/:id/retry.  If the operation of the checkpoint waits for *)
(* attention it is continued instead, see Requeue.                           *)
OwnerWaits(d) == ckpt[d].owner # Nobody /\ op[ckpt[d].owner] = "NEEDS_ATTENTION"
AcceptRetry(d) ==
  /\ hist[d] \in Result /\ ~OwnerWaits(d)
  /\ op[d] = "ABSENT" /\ Unlocked(ApprovalOf[d])
  /\ Enqueue(d)

Requeue(o) ==
  /\ op[o] \in Retriable /\ run[TaskOf(o)].op # o
  /\ \A p \in OpsOf(TaskOf(o)) \ {o} : ~Active(p)
  /\ Enqueue(o)

Begin(o) ==
  LET a == TaskOf(o) IN
  /\ run[a].op = Nobody /\ ~writeFailure
  /\ op[o] \in {"QUEUED", "RETRY_WAIT"}
  /\ \/ /\ op' = [op EXCEPT ![o] = "RUNNING"]
        /\ run' = [run EXCEPT ![a] = [Idle EXCEPT !.op = o, !.at = "next",
                                      !.todo = IF o \in Approval THEN Of(a) ELSE {o}]]
        /\ Committed
     \/ Lost /\ UNCHANGED <<op, run>>
  /\ UNCHANGED <<ckpt, hist, outbox, lock, notice, disk, faults, crashes>>

-----------------------------------------------------------------------------
(* The run on task a: approveTask or retrySubmission.                      *)

At(a, place)   == run[a].at = place
Goto(a, place) == run' = [run EXCEPT ![a].at = place]
It(a)          == run[a].item
Pl(a)          == PlatformOf[It(a)]
Mem(a)         == run[a].mem
Approving(a)   == run[a].op \in Approval
NothingStored  == UNCHANGED <<store, writeFailure, writeFails>>

Throw(a, err) == run' = [run EXCEPT ![a].at = "thrown", ![a].err = err]
ThrowRaw(a)   == \E err \in RawErrors : Throw(a, err)

(* Media missing, a platform that is not ready, a stage that is disabled. *)
Refuse(a) ==
  /\ At(a, "next") /\ run[a].ok = {} /\ run[a].bad = {}
  /\ Fault /\ Throw(a, "permanent")
  /\ NothingStored /\ UNCHANGED <<lock, notice, disk, crashes>>

(* Mutant: the other platform need not have archived anything. *)
ArchivedByOther(a, d) == run[a].ok \cup run[a].bad # {}

(* Whether another delivery of the approval has been archived. *)
Archived(a, d) ==
  IF Approving(a) THEN run[a].filed
  ELSE \E e \in Of(a) \ {d} : hist[e] = "SUCCESS" /\ ckpt[e].filed

(* deliver: the checkpoint is loaded, or begun in memory. *)
Loaded(a, d) ==
  IF ckpt[d].phase # "NONE" THEN ckpt[d]
  ELSE [phase |-> "PREPARING", owner |-> run[a].op, arch |-> ~Archived(a, d),
        filed |-> FALSE, result |-> "FAILED"]
NeedsLock(d, phase) == PlatformOf[d] = Ozon \/ phase \notin Rebuildable

Deliver(a, d) ==
  /\ At(a, "next") /\ d \in run[a].todo /\ ckpt[d].phase # "COMPLETE"
  /\ run' = [run EXCEPT ![a] =
               [run[a] EXCEPT !.item = d, !.mem = Loaded(a, d), !.fresh = FALSE, !.err = "none",
                              !.at = IF NeedsLock(d, Loaded(a, d).phase) THEN "lock" ELSE "clear"]]
  /\ NothingStored /\ UNCHANGED <<lock, notice, disk, faults, crashes>>

(* The delivery is over: the approval goes on, a retry returns. *)
Settled(a, d, next) ==
  run' = [run EXCEPT ![a] =
            [run[a] EXCEPT !.at = next, !.ok = @ \cup {d}, !.todo = @ \ {d},
                           !.filed = @ \/ ckpt'[d].filed, !.fresh = FALSE,
                           !.item = IF next = "note" THEN d ELSE Nobody,
                           !.mem = IF next = "note" THEN @ ELSE NoCheckpoint]]
Skip(a, d) ==
  /\ At(a, "next") /\ d \in run[a].todo /\ ckpt[d].phase = "COMPLETE"
  /\ NothingStored /\ UNCHANGED <<lock, notice, disk, faults, crashes>>
  /\ Settled(a, d, IF Approving(a) THEN "next" ELSE "return")

(* What is thrown under the lock releases it. *)
Free(a) == lock' = [p \in Platform |-> IF lock[p] = a THEN Nobody ELSE lock[p]]

Raise(a, err) ==
  /\ run' = [run EXCEPT ![a].at = "caught", ![a].err = err]
  /\ Free(a)
RaiseRaw(a) == \E err \in RawErrors : Raise(a, err)

(* saveCheckpoint: memory has the new phase even if the write is lost. *)
SaveCheckpoint(a, phase, place) ==
  /\ \/ /\ ckpt' = [ckpt EXCEPT ![It(a)] = [Mem(a) EXCEPT !.phase = phase]]
        /\ run' = [run EXCEPT ![a].mem.phase = phase, ![a].at = place]
        /\ Committed /\ UNCHANGED lock
     \/ /\ \E err \in RawErrors :
             run' = [run EXCEPT ![a].mem.phase = phase, ![a].at = "caught", ![a].err = err]
        /\ Free(a) /\ Lost /\ UNCHANGED ckpt
  /\ UNCHANGED <<op, hist, outbox, notice, disk, faults, crashes>>

-----------------------------------------------------------------------------
(* deliver, up to the commit.                                              *)

(* Mutant: commits are not ordered. *)
AnyTime(a) == At(a, "lock")

(* The lock of the SKU: around the commit, for OZON around staging as well.  *)
LockFree(a) == At(a, "lock") /\ lock[Pl(a)] = Nobody
Lock(a) ==
  /\ LockFree(a)
  /\ lock' = [lock EXCEPT ![Pl(a)] = a]
  /\ Goto(a, IF Mem(a).phase \in Rebuildable /\ ~run[a].fresh THEN "clear" ELSE "inspect")
  /\ NothingStored /\ UNCHANGED <<notice, disk, faults, crashes>>

Clear(a) ==
  /\ At(a, "clear")
  /\ staging' = [staging EXCEPT ![It(a)] = "partial"]
  /\ Goto(a, "build")
  /\ NothingStored /\ UNCHANGED <<lock, notice, shared, archiveTemp, archive, faults, crashes>>

(* stageFiles and the copy for the archive, verified. *)
Build(a) ==
  /\ At(a, "build") /\ staging[It(a)] = "partial"
  /\ staging' = [staging EXCEPT ![It(a)] = "complete"]
  /\ archiveTemp' = IF Mem(a).arch THEN [archiveTemp EXCEPT ![It(a)] = "complete"] ELSE archiveTemp
  /\ run' = [run EXCEPT ![a].at = "verified", ![a].fresh = TRUE]
  /\ NothingStored /\ UNCHANGED <<lock, notice, shared, archive, faults, crashes>>

BuildFails(a) ==
  /\ At(a, "build")
  /\ IF staging[It(a)] = "partial" THEN Fault ELSE UNCHANGED faults
  /\ RaiseRaw(a)
  /\ \/ UNCHANGED archiveTemp
     \/ /\ Mem(a).arch
        /\ \E left \in {"absent", "partial"} : archiveTemp' = [archiveTemp EXCEPT ![It(a)] = left]
  /\ NothingStored /\ UNCHANGED <<notice, shared, staging, archive, crashes>>

Verify(a) ==
  At(a, "verified") /\ SaveCheckpoint(a, "VERIFIED", IF lock[Pl(a)] = a THEN "inspect" ELSE "lock")

(* Mutant: the checkpoint alone is trusted. *)
ByCheckpoint(a) == Mem(a).phase = "TARGET_COMMITTED"

(* The manifest tells whether the delivery is committed already. *)
Registered(a) == It(a) \in manifest[Pl(a)]
Inspect(a) ==
  /\ At(a, "inspect")
  /\ IF Mem(a).phase = "TARGET_COMMITTED" \/ Registered(a)
     THEN /\ run' = [run EXCEPT ![a].mem.phase = "TARGET_COMMITTED", ![a].at = "archive"]
          /\ Free(a)
     ELSE Goto(a, "intend") /\ UNCHANGED lock
  /\ NothingStored /\ UNCHANGED <<notice, disk, faults, crashes>>

Intend(a) == At(a, "intend") /\ SaveCheckpoint(a, "COMMIT_INTENT", "rename")

(* The verified directory moves to its place; `.staging/<submissionId>`      *)
(* stays behind, empty.  The flush that follows may fail.                    *)
Staged(a)  == staging[It(a)] = "complete"
Rename(a) ==
  /\ At(a, "rename") /\ ~writeFailure
  /\ \/ It(a) \in dest /\ UNCHANGED <<dest, staging>>
     \/ /\ It(a) \notin dest /\ Staged(a)
        /\ dest' = dest \cup {It(a)} /\ staging' = [staging EXCEPT ![It(a)] = "empty"]
  /\ \/ Goto(a, "read") /\ UNCHANGED <<lock, faults>>
     \/ Fault /\ RaiseRaw(a)
  /\ NothingStored /\ UNCHANGED <<notice, manifest, registered, archiveTemp, archive, crashes>>

(* assertWritable fails, or neither the staging nor the target is there: in  *)
(* a later run that is an unknown outcome, in this one an error of rename.   *)
RenameFails(a) ==
  /\ At(a, "rename")
  /\ \/ writeFailure /\ Raise(a, "permanent")
     \/ /\ ~writeFailure /\ It(a) \notin dest /\ ~Staged(a)
        /\ Raise(a, IF run[a].fresh THEN "permanent" ELSE "unknown")
  /\ NothingStored /\ UNCHANGED <<notice, disk, faults, crashes>>

(* updateManifest reads the manifest again and writes it as a whole. *)
Read(a) ==
  /\ At(a, "read")
  /\ run' = [run EXCEPT ![a].base = manifest[Pl(a)], ![a].at = "write"]
  /\ NothingStored /\ UNCHANGED <<lock, notice, disk, faults, crashes>>

Write(a) ==
  /\ At(a, "write")
  /\ manifest' = [manifest EXCEPT ![Pl(a)] = run[a].base \cup {It(a)}]
  /\ registered' = [registered EXCEPT ![It(a)] = @ + 1]
  /\ \/ /\ run' = [run EXCEPT ![a].mem.phase = "TARGET_COMMITTED", ![a].at = "archive", ![a].base = {}]
        /\ Free(a) /\ UNCHANGED faults
     \/ Fault /\ RaiseRaw(a)
  /\ NothingStored /\ UNCHANGED <<notice, dest, staging, archiveTemp, archive, crashes>>

(* The lock file of OZON is taken, the manifest cannot be read or written,   *)
(* a directory cannot be renamed or does not hold what it should.            *)
Break(a) ==
  /\ \/ At(a, "lock") /\ Pl(a) = Ozon /\ RaiseRaw(a)
     \/ At(a, "inspect") /\ Mem(a).phase # "TARGET_COMMITTED" /\ Raise(a, "permanent")
     \/ At(a, "read") /\ Raise(a, "permanent")
     \/ At(a, "rename") /\ ~writeFailure /\ RaiseRaw(a)
     \/ At(a, "write") /\ RaiseRaw(a)
  /\ Fault
  /\ NothingStored /\ UNCHANGED <<notice, disk, crashes>>

-----------------------------------------------------------------------------
(* deliver, from the archive on.                                           *)

(* Mutant: a delivery that is not archived is complete. *)
CompleteAnyway(a, result, filed) ==
  run' = [run EXCEPT ![a].at = "save", ![a].mem.result = result, ![a].mem.filed = @ \/ filed,
                     ![a].mem.phase = "COMPLETE"]

Conclusion(a, result, filed) ==
  run' = [run EXCEPT ![a].at = "save", ![a].mem.result = result, ![a].mem.filed = @ \/ filed,
                     ![a].mem.phase = IF result = "SUCCESS" THEN "COMPLETE" ELSE @]

Archive(a) ==
  /\ At(a, "archive")
  /\ \/ /\ Mem(a).arch => It(a) \in archive
        /\ UNCHANGED <<archive, archiveTemp>>
     \/ /\ Mem(a).arch /\ It(a) \notin archive /\ archiveTemp[It(a)] = "complete"
        /\ archive' = archive \cup {It(a)}
        /\ archiveTemp' = [archiveTemp EXCEPT ![It(a)] = "absent"]
  /\ Conclusion(a, "SUCCESS", Mem(a).arch)
  /\ NothingStored /\ UNCHANGED <<lock, notice, shared, staging, faults, crashes>>

ArchiveFails(a) ==
  /\ At(a, "archive") /\ Mem(a).arch
  /\ IF It(a) \in archive \/ archiveTemp[It(a)] = "complete" THEN Fault ELSE UNCHANGED faults
  /\ Conclusion(a, "PARTIAL_SUCCESS", FALSE)
  /\ NothingStored /\ UNCHANGED <<lock, notice, disk, crashes>>

(* The final save: checkpoint, history and outbox in one transaction. *)
Save(a) ==
  /\ At(a, "save")
  /\ \/ /\ ckpt' = [ckpt EXCEPT ![It(a)] = Mem(a)]
        /\ hist' = [hist EXCEPT ![It(a)] = Mem(a).result]
        /\ outbox' = [outbox EXCEPT ![It(a)] = IF @ = "NONE" THEN "PENDING" ELSE @]
        /\ Settled(a, It(a), IF Approving(a) THEN "next" ELSE "note")
        /\ Committed
     \/ /\ \E err \in RawErrors : run' = [run EXCEPT ![a].at = "caught", ![a].err = err]
        /\ Lost /\ UNCHANGED <<ckpt, hist, outbox>>
  /\ UNCHANGED <<op, lock, notice, disk, faults, crashes>>

(* The catch of deliver; its save may be lost unnoticed.  An approval goes   *)
(* on with the other platform unless the outcome is unknown.                 *)
Doubtful(a) == Mem(a).phase \in {"COMMIT_INTENT", "COMPLETE"} \/ run[a].err = "unknown"
Caught(a) ==
  IF Doubtful(a) THEN [Mem(a) EXCEPT !.phase = "NEEDS_ATTENTION", !.result = "FAILED"] ELSE Mem(a)
Catch(a) ==
  LET err == IF Doubtful(a) THEN "unknown" ELSE run[a].err
      failure == [delivery |-> It(a), result |-> Caught(a).result, err |-> err] IN
  /\ At(a, "caught")
  /\ \/ ckpt' = [ckpt EXCEPT ![It(a)] = Caught(a)] /\ Committed
     \/ Lost /\ UNCHANGED ckpt
  /\ run' = IF ~Approving(a)
            THEN [run EXCEPT ![a].at = "note", ![a].mem = Caught(a), ![a].err = err]
            ELSE IF err = "unknown" THEN [run EXCEPT ![a].at = "thrown", ![a].err = err]
            ELSE [run EXCEPT ![a] =
                   [run[a] EXCEPT !.at = "next", !.err = "none", !.todo = @ \ {It(a)},
                                  !.bad = @ \cup {failure}, !.fresh = FALSE,
                                  !.item = Nobody, !.mem = NoCheckpoint, !.base = {}]]
  /\ UNCHANGED <<op, hist, outbox, lock, notice, disk, faults, crashes>>

-----------------------------------------------------------------------------
(* What the callers of deliver write, and how run ends.                    *)

(* retrySubmission updates the record with the outcome. *)
Note(a) ==
  /\ At(a, "note")
  /\ \/ /\ hist' = [hist EXCEPT ![It(a)] = IF run[a].err = "unknown" THEN "UNKNOWN" ELSE Mem(a).result]
        /\ Goto(a, IF run[a].err = "none" THEN "return" ELSE "thrown")
        /\ Committed
     \/ ThrowRaw(a) /\ Lost /\ UNCHANGED hist
  /\ UNCHANGED <<op, ckpt, outbox, lock, notice, disk, faults, crashes>>

(* approveTask records the failures; if nothing was delivered it throws.     *)
Failed(a, d) == {f \in run[a].bad : f.delivery = d}
Conclude(a) ==
  /\ At(a, "next") /\ run[a].todo = {}
  /\ \/ /\ hist' = [d \in Delivery |-> IF Failed(a, d) = {} THEN hist[d]
                                       ELSE (CHOOSE f \in Failed(a, d) : TRUE).result]
        /\ IF run[a].ok # {} THEN Goto(a, "return") ELSE \E f \in run[a].bad : Throw(a, f.err)
        /\ Committed
     \/ ThrowRaw(a) /\ Lost /\ UNCHANGED hist
  /\ UNCHANGED <<op, ckpt, outbox, lock, notice, disk, faults, crashes>>

(* Mutant: the row gets the status of its records. *)
RecordStatus(a) == IF run[a].bad # {} THEN "PARTIAL_SUCCESS" ELSE "SUCCESS"

ResultStatus(a) ==
  IF run[a].bad # {} \/ \E d \in run[a].ok : hist[d] = "PARTIAL_SUCCESS"
  THEN "PARTIAL_SUCCESS" ELSE "SUCCEEDED"

(* Whether a transient error finds retries left is not modelled. *)
ErrorStatuses(a, err) ==
  IF err = "unknown" \/ \E d \in Delivery : ckpt[d].owner = run[a].op /\ ckpt[d].phase \in Uncertain
  THEN {"NEEDS_ATTENTION"}
  ELSE IF err = "transient" THEN {"RETRY_WAIT", "FAILED"} ELSE {"FAILED"}

End(a) ==
  /\ At(a, "return") \/ At(a, "thrown")
  /\ \/ /\ \E s \in IF At(a, "return") THEN {ResultStatus(a)} ELSE ErrorStatuses(a, run[a].err) :
             op' = [op EXCEPT ![run[a].op] = s]
        /\ Committed
     \/ /\ At(a, "return") /\ writeFails < MaxWriteFail
        /\ \E err \in RawErrors : \E s \in ErrorStatuses(a, err) : op' = [op EXCEPT ![run[a].op] = s]
        /\ writeFails' = writeFails + 1 /\ writeFailure' = FALSE
     \/ Lost /\ UNCHANGED op
  /\ run' = [run EXCEPT ![a] = Idle]
  /\ UNCHANGED <<ckpt, hist, outbox, lock, notice, disk, faults, crashes>>

-----------------------------------------------------------------------------
(* Mutant: a notification whose receipt was lost is not repeated. *)
Once(d) ==
  /\ d \notin announced /\ sending = Nobody /\ ~writeFailure
  /\ outbox[d] = "PENDING" /\ hist[d] \in Public
  /\ announced' = announced \cup {d} /\ sending' = d
  /\ NothingStored /\ UNCHANGED <<run, lock, disk, faults, crashes>>

(* The outbox: one entry at a time; the call may reach the service and fail. *)

Announce(d) ==
  /\ sending = Nobody /\ ~writeFailure
  /\ outbox[d] = "PENDING" /\ hist[d] \in Public
  /\ announced' = announced \cup {d}
  /\ \/ sending' = d /\ UNCHANGED faults
     \/ Fault /\ UNCHANGED sending
  /\ NothingStored /\ UNCHANGED <<run, lock, disk, crashes>>

Sent(d) ==
  /\ sending = d
  /\ sending' = Nobody
  /\ \/ outbox' = [outbox EXCEPT ![d] = "SENT"] /\ Committed
     \/ Lost /\ UNCHANGED outbox
  /\ UNCHANGED <<op, ckpt, hist, run, lock, announced, disk, faults, crashes>>

Tick == \E d \in Delivery : Announce(d) \/ Sent(d)

-----------------------------------------------------------------------------
(* The cleanup of a published SKU, and the end of the process.             *)

(* quarantine: under the lock, the directory holds what the manifest lists   *)
(* and nothing is in its .staging; then the whole of it is renamed away.     *)
CleanLook(p) ==
  /\ lock[p] = Nobody
  /\ manifest[p] # {} /\ dest \cap On(p) = manifest[p]
  /\ \A d \in On(p) : staging[d] = "absent"
  /\ lock' = [lock EXCEPT ![p] = Cleaner]
  /\ NothingStored /\ UNCHANGED <<run, notice, disk, faults, crashes>>

CleanMove(p) ==
  /\ lock[p] = Cleaner
  /\ \/ /\ manifest' = [manifest EXCEPT ![p] = {}]
        /\ dest' = dest \ On(p)
        /\ staging' = [d \in Delivery |-> IF d \in On(p) THEN "absent" ELSE staging[d]]
     \/ UNCHANGED <<manifest, dest, staging>>
  /\ lock' = [lock EXCEPT ![p] = Nobody]
  /\ NothingStored /\ UNCHANGED <<run, notice, registered, archiveTemp, archive, faults, crashes>>

(* An operator deletes what a delivery left in .staging. *)
RemoveLeftover(d) ==
  /\ staging[d] = "empty"
  /\ staging' = [staging EXCEPT ![d] = "absent"]
  /\ NothingStored /\ UNCHANGED <<run, lock, notice, shared, archiveTemp, archive, faults, crashes>>

Crash ==
  /\ crashes < MaxCrash
  /\ crashes' = crashes + 1
  /\ op' = [o \in Op |-> IF op[o] = "RUNNING" THEN "QUEUED" ELSE op[o]]
  /\ run' = [a \in Approval |-> Idle]
  /\ lock' = [p \in Platform |-> Nobody]
  /\ sending' = Nobody /\ writeFailure' = FALSE
  /\ UNCHANGED <<ckpt, hist, outbox, announced, disk, faults, writeFails>>

Work(a) ==
  \/ Refuse(a) \/ \E d \in Of(a) : Deliver(a, d) \/ Skip(a, d)
  \/ Lock(a) \/ Clear(a) \/ Build(a) \/ BuildFails(a) \/ Verify(a) \/ Inspect(a) \/ Intend(a)
  \/ Rename(a) \/ RenameFails(a) \/ Read(a) \/ Write(a) \/ Break(a)
  \/ Archive(a) \/ ArchiveFails(a) \/ Save(a) \/ Catch(a)
  \/ Note(a) \/ Conclude(a) \/ End(a)

Next ==
  \/ \E a \in Approval : Accept(a) \/ Work(a)
  \/ \E o \in Op : Requeue(o) \/ Begin(o)
  \/ \E d \in Delivery : AcceptRetry(d) \/ RemoveLeftover(d)
  \/ \E p \in Platform : CleanLook(p) \/ CleanMove(p)
  \/ Tick \/ OtherWrite \/ Crash

Spec == Init /\ [][Next]_vars

(* Runs come to an end: their calls return, the lock is handed on in the     *)
(* order in which it was asked for, cleanups give it back; the outbox ticks. *)
Fairness ==
  /\ \A a \in Approval : WF_vars(Work(a)) /\ SF_vars(Lock(a))
  /\ WF_vars(\E p \in Platform : CleanMove(p))
  /\ WF_vars(Tick)
FairSpec == Spec /\ Fairness

-----------------------------------------------------------------------------
(* Media are registered at most once, whatever crashes, lost writes,         *)
(* retries and cleanups do in between: a delivery that was published and     *)
(* cleaned up is not delivered again (deliver, the manifest as commit point). *)
RegisteredOnce == \A d \in Delivery : registered[d] <= 1

(* The checkpoint never denies that media were registered, nor claims it     *)
(* when they were not (the three writes of the commit).                      *)
CheckpointTellsTruth ==
  \A d \in Delivery :
    /\ registered[d] > 0 => ckpt[d].phase \notin Rebuildable
    /\ ckpt[d].phase \in {"TARGET_COMMITTED", "COMPLETE"} => registered[d] > 0

(* A manifest loses entries only when the whole SKU is cleaned up: two tasks *)
(* that deliver at the same time do not drop each other's media              *)
(* (updateManifest reads and writes it in two steps).                        *)
ManifestKeepsOthers ==
  [][\A p \in Platform : manifest[p] \subseteq manifest'[p] \/ manifest'[p] = {}]_vars

(* Between runs, an uncertain OZON delivery that is not registered can be    *)
(* proved or completed: its verified staging or its media are there.  (WB    *)
(* stages outside of the lock that a cleanup holds, and can lose it.)        *)
EvidenceKept ==
  \A d \in On(Ozon) :
    run[ApprovalOf[d]].op = Nobody /\ ckpt[d].phase \in Uncertain /\ registered[d] = 0
      => staging[d] = "complete" \/ d \in dest

(* A delivery is a success in the history exactly if its checkpoint is       *)
(* complete, and then it is registered and the outbox knows of it            *)
(* (saveCheckpoint writes the three of them; the callers write again).       *)
HistoryAgrees ==
  \A d \in Delivery :
    /\ hist[d] = "SUCCESS" <=> ckpt[d].phase = "COMPLETE"
    /\ hist[d] = "SUCCESS" => outbox[d] # "NONE" /\ registered[d] = 1
    /\ outbox[d] # "NONE" => registered[d] = 1

(* What a retry, the history and the outbox know of a delivery agrees with   *)
(* what is registered, although it is written in three steps (deliver).      *)
RecordsAgree == CheckpointTellsTruth /\ EvidenceKept /\ HistoryAgrees

(* A succeeded approval has delivered to every platform and one of its       *)
(* deliveries is archived, in whatever order and run each was made           *)
(* (archiveMedia of approveTask, alreadyArchived of retrySubmission).        *)
SucceededMeansDelivered ==
  \A a \in Approval :
    op[a] = "SUCCEEDED" => Of(a) \cap archive # {} /\ \A d \in Of(a) : hist[d] = "SUCCESS"

Due(d) == outbox[d] = "PENDING" /\ hist[d] \in Public /\ ~writeFailure

(* Every run ends, as no wait for a lock lasts for ever; and what the outbox *)
(* has to announce is announced, across crashes and lost receipts: again and *)
(* again nothing is left that could be (withSkuLock, tick).                  *)
DeliveriesSettle ==
  /\ \A a \in Approval : []<>(run[a].op = Nobody)
  /\ []<>(\A d \in Delivery : ~Due(d))
=============================================================================
