---------------------------- MODULE QueueDelivery ----------------------------
(***************************************************************************)
(* How the deliveries of one review task become directories in the watched *)
(* queues of other stages (services/submissions/index.ts).  An approval in *)
(* a "direct" stage is the operation that delivers, its items are frozen   *)
(* with it; in other stages it writes rows of pendingSubmissions that are  *)
(* delivered by batches and retries later.                                 *)
(*                                                                         *)
(* A package is copied and verified in `.staging`, renamed into the queue  *)
(* of its target (from there a consumer takes it whenever it likes) and    *)
(* archived.  A checkpoint, written before and after each of these steps,  *)
(* tells a later run of this or of another operation what may be done: the *)
(* process may die, and the write of db.json or a file operation may fail, *)
(* between any two of them.                                                *)
(*                                                                         *)
(* All rows are of one task, so that at most one operation is active       *)
(* (theorem MutualExclusion of module ReviewOperations_proofs); a          *)
(* transaction of the state store is one step, as there.                   *)
(***************************************************************************)
EXTENDS Integers, FiniteSets

CONSTANTS
  Direct,      \* the task is in one of DIRECT_DIRECTORY_REVIEW_STAGE_IDS
  Item,        \* identities of deliveries: rows of pendingSubmissions, direct items
  Target,      \* target stages
  TargetOf,    \* [Item -> Target]
  Group,       \* variant groups
  GroupOf,     \* [Item -> Group]
  NoItem,
  Selection,   \* media selections of a group
  Parameters,  \* n8n parameters
  Template,    \* those an approval gives to its rows
  Policy,      \* conflict policies clients use: "skip" and "new-revision"
  RetryLimit,  \* the length of RETRY_MS, 3 in the code
  MaxRevision, \* bound: names a directory may get, 9999 in the code
  MaxOps,      \* bound: operations ever accepted
  MaxEdits,    \* bound: approvals, changes and removals of rows
  MaxFaults,   \* bound: failing file operations and failing checks of sources
  MaxCrash,    \* bound: process crashes
  MaxWriteFail \* bound: failed writes of db.json

Op   == 1..MaxOps
NoOp == 0
Name == 1..MaxRevision

ASSUME DeliveryAssumption ==
  /\ Direct \in BOOLEAN
  /\ TargetOf \in [Item -> Target] /\ GroupOf \in [Item -> Group]
  /\ NoItem \notin Item
  /\ Template \in Parameters
  /\ Policy \subseteq {"skip", "new-revision"}
  /\ Policy # {} /\ Selection # {} /\ MaxRevision \in Nat \ {0}
  /\ {RetryLimit, MaxOps, MaxEdits, MaxFaults, MaxCrash, MaxWriteFail} \subseteq Nat

VARIABLES
  op,           \* [Op -> operation row]
  live,         \* the operation with a run, or NoOp
  row,          \* [Item -> row of pendingSubmissions, or item frozen with an operation]
  ckpt,         \* [Item -> deliveryCheckpoints row]
  hist,         \* [Item -> status of its submissionHistory row]
  exec,         \* [Item -> where its submitOne is]; fresh: it is packaged in this run
  locks,        \* SubmissionService.locks
  writeFailure, \* StateStore.writeFailure is set
  targetTemp,   \* [Item -> its staging in the target queue]
  archiveTemp,  \* [Item -> its staging in the archive]
  target,       \* [Target -> [Name -> whose package is in the queue]]
  archive,      \* [Name -> whose package was renamed here, whose parameters were added]
  published,    \* [Item -> how often its package entered the queue]
  edits, faults, crashes, writeFails

store  == <<op, row, ckpt, hist>>
staging == <<targetTemp, archiveTemp>>
public == <<target, published>>
disk   == <<staging, public, archive>>
budget == <<edits, faults, crashes, writeFails>>
vars   == <<store, live, exec, locks, writeFailure, disk, budget>>

ActiveStatus == {"QUEUED", "RUNNING", "RETRY_WAIT", "NEEDS_ATTENTION"}
Retriable    == {"QUEUED", "RUNNING", "FAILED", "PARTIAL_SUCCESS", "NEEDS_ATTENTION"}
Status       == ActiveStatus \cup {"ABSENT", "SUCCEEDED", "PARTIAL_SUCCESS", "FAILED"}
LiveRow      == {"PENDING", "PACKAGING", "FAILED"}
Uncertain    == {"COMMIT_INTENT", "NEEDS_ATTENTION"}

(* Mutant: a package whose commit was intended is built once more. *)
IntendedToo == {"NONE", "PREPARING", "VERIFIED", "COMMIT_INTENT"}

Rebuildable  == {"NONE", "PREPARING", "VERIFIED"}
Phase        == Rebuildable \cup Uncertain \cup {"TARGET_COMMITTED", "COMPLETE"}
Result       == {"SUCCESS", "PARTIAL_SUCCESS", "FAILED", "SKIPPED_CONFLICT"}
Error        == {"none", "transient", "permanent", "conflict", "unknown"}
Place        == {"idle", "todo", "prepare", "clear", "build", "verify", "intend", "rename", "receipt",
                 "archive", "archived", "unarchived", "doubt", "caught", "fail", "thrown", "ended"}

Idle == [at |-> "idle", err |-> "none", fresh |-> FALSE]
NoCheckpoint == [phase |-> "NONE", owner |-> NoOp, name |-> 1,
                 sel |-> CHOOSE s \in Selection : TRUE, par |-> Template]

Policies    == Policy \cup {"new-revision"}
Operations  == [status: Status, kind: {"BATCH", "RETRY", "DIRECT"}, items: SUBSET Item,
                policy: Policies, attempt: 0..(RetryLimit + 1)]
Rows        == [status: LiveRow \cup {"NONE", "GONE", "FROZEN"}, sel: Selection,
                par: Parameters, policy: Policies]
Checkpoints == [phase: Phase, owner: Op \cup {NoOp}, name: Name, sel: Selection, par: Parameters]
Executions  == [at: Place, err: Error, fresh: BOOLEAN]
Cells       == [base: Item \cup {NoItem}, merged: SUBSET Item]
Temps       == {"absent", "partial", "complete"}

TypeOK ==
  /\ op \in [Op -> Operations] /\ live \in Op \cup {NoOp}
  /\ row \in [Item -> Rows] /\ ckpt \in [Item -> Checkpoints]
  /\ hist \in [Item -> Result \cup {"NONE"}] /\ exec \in [Item -> Executions]
  /\ locks \subseteq Target /\ writeFailure \in BOOLEAN
  /\ targetTemp \in [Item -> Temps] /\ archiveTemp \in [Item -> Temps]
  /\ target \in [Target -> [Name -> Item \cup {NoItem}]] /\ archive \in [Name -> Cells]
  /\ published \in [Item -> Nat]
  /\ edits \in 0..MaxEdits /\ faults \in 0..MaxFaults
  /\ crashes \in 0..MaxCrash /\ writeFails \in 0..MaxWriteFail

Init ==
  /\ op = [o \in Op |-> [status |-> "ABSENT", kind |-> "BATCH", items |-> {},
                         policy |-> CHOOSE p \in Policy : TRUE, attempt |-> 0]]
  /\ live = NoOp
  /\ row = [i \in Item |-> [status |-> "NONE", sel |-> CHOOSE s \in Selection : TRUE,
                            par |-> Template, policy |-> CHOOSE p \in Policy : TRUE]]
  /\ ckpt = [i \in Item |-> NoCheckpoint]
  /\ hist = [i \in Item |-> "NONE"]
  /\ exec = [i \in Item |-> Idle]
  /\ locks = {} /\ writeFailure = FALSE
  /\ targetTemp = [i \in Item |-> "absent"] /\ archiveTemp = [i \in Item |-> "absent"]
  /\ target = [t \in Target |-> [n \in Name |-> NoItem]]
  /\ archive = [n \in Name |-> [base |-> NoItem, merged |-> {}]]
  /\ published = [i \in Item |-> 0]
  /\ edits = 0 /\ faults = 0 /\ crashes = 0 /\ writeFails = 0

-----------------------------------------------------------------------------
(* Writes of the state file, faults of the file system.                    *)

Committed == writeFailure' = FALSE /\ UNCHANGED writeFails
Lost ==
  /\ writeFails < MaxWriteFail
  /\ writeFails' = writeFails + 1 /\ writeFailure' = TRUE
Fault == faults < MaxFaults /\ faults' = faults + 1
RawErrors == {"transient", "permanent"}

Present(o) == op[o].status # "ABSENT"
Active(o)  == op[o].status \in ActiveStatus
Unlocked   == \A o \in Op : ~Active(o)
IsRow(i)   == row[i].status \in LiveRow
Slot(i)    == <<TargetOf[i], GroupOf[i]>>

(* Any other write of the state file. *)
OtherWrite ==
  /\ Committed \/ Lost
  /\ UNCHANGED <<store, live, exec, locks, disk, edits, faults, crashes>>

-----------------------------------------------------------------------------
(* What users do with the rows while no operation holds the task.          *)

Edit ==
  /\ Unlocked /\ edits < MaxEdits
  /\ edits' = edits + 1
  /\ Committed
  /\ UNCHANGED <<op, ckpt, hist, live, exec, locks, disk, faults, crashes>>

(* An approval for queued stages: one row per chosen target and group, an    *)
(* existing one is reset, the rows of other targets and groups are removed.  *)
Chosen(items, targets, groups) ==
  /\ {Slot(i) : i \in items} = targets \X groups
  /\ \A i \in items : row[i].status \in LiveRow \cup {"NONE"}
  /\ \A i \in items : \A j \in Item \ {i} :
       Slot(i) = Slot(j) => j \notin items /\ (row[i].status = "NONE" => ~IsRow(j))

Approve(items, sel) ==
  /\ ~Direct /\ Edit
  /\ items # {} /\ \E targets \in SUBSET Target, groups \in SUBSET Group :
                     Chosen(items, targets, groups)
  /\ row' = [i \in Item |->
       IF i \in items
       THEN [row[i] EXCEPT !.status = "PENDING", !.sel = sel, !.par = Template]
       ELSE IF IsRow(i) THEN [row[i] EXCEPT !.status = "GONE"] ELSE row[i]]

(* PATCH pending-submissions/:id: parameters, conflict policy or both. *)
ChangeRow(i, par, policy) ==
  /\ Edit
  /\ IsRow(i) /\ (par # row[i].par => row[i].status # "PACKAGING")
  /\ row' = [row EXCEPT ![i].par = par, ![i].policy = policy]

(* DELETE pending-submissions/:id. *)
RemoveRow(i) ==
  /\ Edit
  /\ IsRow(i)
  /\ row' = [row EXCEPT ![i].status = "GONE"]

-----------------------------------------------------------------------------
(* Operations on the rows: accepted, retried, started, ended.              *)

Accept(o, kind, items, policy) ==
  /\ Unlocked
  /\ ~Present(o) /\ \A p \in 1..(o - 1) : Present(p)
  /\ op' = [op EXCEPT ![o] = [status |-> "QUEUED", kind |-> kind, items |-> items,
                              policy |-> policy, attempt |-> 0]]
  /\ Committed
  /\ UNCHANGED <<ckpt, hist, live, exec, locks, disk, edits, faults, crashes>>

(* POST approve in a direct stage.  Its items get their identities in the   *)
(* first run, before any file is touched, and keep them for ever.           *)
ApproveDirect(o, items, sel) ==
  /\ Direct
  /\ items # {} /\ \A i \in items : row[i].status = "NONE"
  /\ \E targets \in SUBSET Target, groups \in SUBSET Group : Chosen(items, targets, groups)
  /\ Accept(o, "DIRECT", items, "new-revision")
  /\ row' = [i \in Item |-> IF i \in items
                            THEN [status |-> "FROZEN", sel |-> sel, par |-> Template,
                                  policy |-> "new-revision"] ELSE row[i]]

(* POST submissions/batch. *)
Batch(o, items, policy) ==
  /\ items # {} /\ \A i \in items : IsRow(i)
  /\ Accept(o, "BATCH", items, policy)
  /\ UNCHANGED row

(* retry of an operation by its id: see ReviewOperations. *)
Requeue(o) ==
  /\ live # o
  /\ op[o].status \in Retriable
  /\ \A p \in Op \ {o} : ~Active(p)
  /\ op' = [op EXCEPT ![o].status = "QUEUED"]
  /\ Committed
  /\ UNCHANGED <<row, ckpt, hist, live, exec, locks, disk, edits, faults, crashes>>

(* POST submissions/:id/retry: the operation that waits for attention, or    *)
(* that the item is frozen with, is continued, otherwise a new one is        *)
(* accepted for the one row.                                                 *)
OwnerWaits(i) == ckpt[i].owner # NoOp /\ op[ckpt[i].owner].status = "NEEDS_ATTENTION"
RetrySubmission(o, i) ==
  /\ \/ hist[i] \in Result
     \/ OwnerWaits(i) /\ ckpt[i].phase \in Uncertain \cup {"TARGET_COMMITTED"}
  /\ \/ row[i].status = "FROZEN" /\ hist[i] # "SUCCESS" /\ i \in op[o].items /\ Requeue(o)
     \/ row[i].status # "FROZEN" /\ OwnerWaits(i) /\ o = ckpt[i].owner /\ Requeue(o)
     \/ /\ row[i].status # "FROZEN" /\ ~OwnerWaits(i)
        /\ Accept(o, "RETRY", {i}, row[i].policy) /\ UNCHANGED row

(* How run classifies an error: an uncertain checkpoint of this operation,   *)
(* an unknown outcome, a transient error while there are retries left.       *)
ErrorStatus(o, err, attempt) ==
  IF err = "unknown" \/ \E i \in Item : ckpt[i].owner = o /\ ckpt[i].phase \in Uncertain
  THEN "NEEDS_ATTENTION"
  ELSE IF err = "transient" /\ attempt <= RetryLimit THEN "RETRY_WAIT" ELSE "FAILED"

Begin(o) ==
  /\ live = NoOp /\ ~writeFailure
  /\ op[o].status \in {"QUEUED", "RETRY_WAIT"}
  /\ \/ /\ op' = [op EXCEPT ![o].status = "RUNNING",
                            ![o].attempt = IF @ > RetryLimit THEN @ ELSE @ + 1]
        /\ live' = o /\ Committed
     \/ Lost /\ UNCHANGED <<op, live>>
  /\ UNCHANGED <<row, ckpt, hist, exec, locks, disk, edits, faults, crashes>>

Items == IF live = NoOp THEN {} ELSE op[live].items

(* runBatch and retrySubmission need the rows that are not delivered yet. *)
Missing ==
  \E i \in Items :
    /\ ~IsRow(i) /\ row[i].status # "FROZEN" /\ ckpt[i].phase # "COMPLETE"
    /\ op[live].kind = "RETRY" => ckpt[i].phase # "TARGET_COMMITTED"

Everywhere(place, err) ==
  exec' = [i \in Item |-> IF i \in Items THEN [Idle EXCEPT !.at = place, !.err = err] ELSE Idle]

(* runItems up to the batch record, which sets the conflict policy as well.  *)
(* A row is missing, a stage is disabled or the record cannot be written:    *)
(* the whole run fails.                                                      *)
Admit ==
  /\ live # NoOp /\ \A i \in Items : exec[i].at = "idle"
  /\ \/ /\ ~Missing
        /\ row' = [i \in Item |-> IF i \in Items /\ IsRow(i)
                                  THEN [row[i] EXCEPT !.policy = op[live].policy] ELSE row[i]]
        /\ Everywhere("todo", "none")
        /\ Committed /\ UNCHANGED faults
     \/ /\ \/ Missing /\ UNCHANGED faults
           \/ ~Missing /\ Fault
        /\ Everywhere("thrown", "permanent")
        /\ UNCHANGED <<row, writeFailure, writeFails>>
     \/ /\ ~Missing
        /\ \E err \in RawErrors : Everywhere("thrown", err)
        /\ Lost /\ UNCHANGED <<row, faults>>
  /\ UNCHANGED <<op, ckpt, hist, live, locks, disk, edits, crashes>>


Over(i) ==
  \/ exec[i].at \in {"thrown", "ended"}
  \/ exec[i].at = "todo" /\ \E j \in Items : TargetOf[j] = TargetOf[i] /\ exec[j].at = "thrown"

(* Mutant: the row gets the status of its items, "SUCCESS". *)
ItemStatus == IF \E i \in Items : hist[i] = "FAILED" THEN "FAILED" ELSE "SUCCESS"

(* Mutant: one success makes up for the items that failed. *)
SomeSucceeded == IF \A i \in Items : hist[i] = "FAILED" THEN "FAILED" ELSE "SUCCEEDED"

ResultStatus ==
  IF \A i \in Items : hist[i] = "FAILED" THEN "FAILED"
  ELSE IF \E i \in Items : hist[i] \in {"FAILED", "PARTIAL_SUCCESS"} THEN "PARTIAL_SUCCESS"
  ELSE "SUCCEEDED"

Thrown == {i \in Items : exec[i].at = "thrown"}
Outcomes ==
  IF Thrown = {} THEN {ResultStatus}
  ELSE {ErrorStatus(live, exec[i].err, op[live].attempt) : i \in Thrown}

(* The run ends with the results of its items or with an error of one of     *)
(* them.  Results that cannot be saved become an error, an error that cannot *)
(* be saved leaves the row as it is.                                         *)
End ==
  /\ live # NoOp
  /\ \A i \in Items : Over(i)
  /\ \/ /\ \E s \in Outcomes : op' = [op EXCEPT ![live].status = s]
        /\ Committed
     \/ /\ Thrown = {}
        /\ \E err \in RawErrors :
             op' = [op EXCEPT ![live].status = ErrorStatus(live, err, op[live].attempt)]
        /\ writeFails < MaxWriteFail
        /\ writeFails' = writeFails + 1 /\ writeFailure' = FALSE
     \/ Lost /\ UNCHANGED op
  /\ live' = NoOp
  /\ exec' = [i \in Item |-> Idle]
  /\ UNCHANGED <<row, ckpt, hist, locks, disk, edits, faults, crashes>>

-----------------------------------------------------------------------------
(* A status is only written to a row of pendingSubmissions. *)
Marked(i, status) == IF IsRow(i) THEN [row EXCEPT ![i].status = status] ELSE row

(* submitOne, step by step.  An error inside of packageAndSubmit is caught,  *)
(* one of a reconciliation ends the item and aborts its target's group.      *)

At(i, place) == i \in Items /\ exec[i].at = place
Goto(i, place) == exec' = [exec EXCEPT ![i].at = place]
Throw(i, err) ==
  exec' = [exec EXCEPT ![i].at = IF exec[i].fresh THEN "caught" ELSE "thrown", ![i].err = err]
ThrowRaw(i) == \E err \in RawErrors : Throw(i, err)

(* saveCheckpoint of the next phase. *)
SaveCheckpoint(i, phase, place) ==
  /\ \/ /\ ckpt' = [ckpt EXCEPT ![i].phase = phase]
        /\ Goto(i, place) /\ Committed
     \/ ThrowRaw(i) /\ Lost /\ UNCHANGED ckpt
  /\ UNCHANGED <<op, row, hist, live, locks, disk, edits, faults, crashes>>

(* The items of a target, which share the names of its queue, are delivered  *)
(* one by one; an error ends the group.                                      *)
Turn(i) ==
  /\ At(i, "todo")
  /\ \A j \in Items \ {i} : TargetOf[j] = TargetOf[i] => exec[j].at \in {"todo", "ended"}

Delivered(i) == target[TargetOf[i]][ckpt[i].name] = i
Staged(i)    == target[TargetOf[i]][ckpt[i].name] = NoItem /\ targetTemp[i] = "complete"

(* reconcile: what the checkpoint and the directories tell about the item. *)
Reconcile(i) ==
  /\ Turn(i)
  /\ ckpt[i].phase \notin Rebuildable
  /\ Goto(i, IF ckpt[i].phase = "COMPLETE" THEN "ended"
             ELSE IF ckpt[i].phase = "TARGET_COMMITTED" THEN "archive"
             ELSE IF Delivered(i) THEN "receipt"
             ELSE IF Staged(i) THEN "rename" ELSE "doubt")
  /\ UNCHANGED <<store, live, locks, writeFailure, disk, budget>>

(* The source cannot be read, a stage is disabled, the target is locked. *)
Refuse(i) ==
  /\ Turn(i)
  /\ ckpt[i].phase \in Rebuildable
  /\ exec' = [exec EXCEPT ![i].at = "fail", ![i].err = "permanent"]
  /\ \/ TargetOf[i] \in locks /\ UNCHANGED faults
     \/ TargetOf[i] \notin locks /\ Fault
  /\ UNCHANGED <<store, live, locks, writeFailure, disk, edits, crashes, writeFails>>

(* The lock is taken before the row is marked, which may fail. *)
Package(i) ==
  /\ Turn(i)
  /\ ckpt[i].phase \in Rebuildable
  /\ TargetOf[i] \notin locks
  /\ locks' = locks \cup {TargetOf[i]}
  /\ \/ /\ row' = Marked(i, "PACKAGING")
        /\ exec' = [exec EXCEPT ![i].at = "prepare", ![i].fresh = TRUE]
        /\ Committed
     \/ ThrowRaw(i) /\ Lost /\ UNCHANGED row
  /\ UNCHANGED <<op, ckpt, hist, live, disk, edits, faults, crashes>>

(* resolveDestinationName: the base name, or the next revision that is free. *)
Free(t) == {n \in Name : target[t][n] = NoItem}
FirstFree(t) == CHOOSE n \in Free(t) : \A m \in Free(t) : n <= m
InputChanged(i) ==
  ckpt[i].phase # "NONE" /\ <<ckpt[i].sel, ckpt[i].par>> # <<row[i].sel, row[i].par>>
NameTaken(i) ==
  /\ ckpt[i].phase = "NONE"
  /\ 1 \notin Free(TargetOf[i])
  /\ row[i].policy = "skip" \/ Free(TargetOf[i]) = {}

Prepare(i) ==
  /\ At(i, "prepare")
  /\ \/ /\ ~InputChanged(i) /\ ~NameTaken(i)
        /\ ckpt' = IF ckpt[i].phase # "NONE" THEN ckpt
                   ELSE [ckpt EXCEPT ![i] = [phase |-> "PREPARING", owner |-> live,
                                             name |-> FirstFree(TargetOf[i]),
                                             sel |-> row[i].sel, par |-> row[i].par]]
        /\ Goto(i, "clear") /\ Committed /\ UNCHANGED faults
     \/ /\ ~InputChanged(i) /\ ~NameTaken(i)
        /\ ThrowRaw(i) /\ Lost /\ UNCHANGED <<ckpt, faults>>
     \/ /\ \/ InputChanged(i) /\ Throw(i, "permanent") /\ UNCHANGED faults
           \/ NameTaken(i) /\ Throw(i, "conflict") /\ UNCHANGED faults
           \/ Fault /\ ThrowRaw(i)
        /\ UNCHANGED <<ckpt, writeFailure, writeFails>>
  /\ UNCHANGED <<op, row, hist, live, locks, disk, edits, crashes>>

(* removeOwnedStaging, and the first of the copies. *)
Clear(i) ==
  /\ At(i, "clear")
  /\ targetTemp'  = [targetTemp EXCEPT ![i] = "partial"]
  /\ archiveTemp' = [archiveTemp EXCEPT ![i] = "absent"]
  /\ Goto(i, "build")
  /\ UNCHANGED <<store, live, locks, writeFailure, public, archive, budget>>

(* Media, parameters, manifests and the copy for the archive, all verified. *)
Build(i) ==
  /\ At(i, "build")
  /\ \/ /\ targetTemp'  = [targetTemp EXCEPT ![i] = "complete"]
        /\ archiveTemp' = [archiveTemp EXCEPT ![i] = "complete"]
        /\ Goto(i, "verify") /\ UNCHANGED faults
     \/ /\ \E left \in {"absent", "partial"} :
             archiveTemp' = [archiveTemp EXCEPT ![i] = left]
        /\ Fault /\ ThrowRaw(i) /\ UNCHANGED targetTemp
  /\ UNCHANGED <<store, live, locks, writeFailure, public, archive, edits, crashes, writeFails>>

(* Mutant: the intent to commit is not recorded. *)
NotIntended(i) == At(i, "intend") /\ SaveCheckpoint(i, "VERIFIED", "rename")

Verify(i) == At(i, "verify") /\ SaveCheckpoint(i, "VERIFIED", "intend")
Intend(i) == At(i, "intend") /\ SaveCheckpoint(i, "COMMIT_INTENT", "rename")

(* The package moves into the queue, unless its name is taken there. *)
Enter(i) ==
  /\ target[TargetOf[i]][ckpt[i].name] = NoItem
  /\ target' = [target EXCEPT ![TargetOf[i]][ckpt[i].name] = i]
  /\ targetTemp' = [targetTemp EXCEPT ![i] = "absent"]
  /\ published' = [published EXCEPT ![i] = @ + 1]

(* assertWritable, the rename, which may fail, and the flush of the queue,   *)
(* which may fail after the package has become visible.                      *)
Rename(i) ==
  /\ At(i, "rename")
  /\ \/ /\ ~writeFailure
        /\ Enter(i)
        /\ \/ Goto(i, "receipt") /\ UNCHANGED faults
           \/ Fault /\ ThrowRaw(i)
     \/ /\ \/ writeFailure /\ Throw(i, "unknown") /\ UNCHANGED faults
           \/ /\ ~writeFailure /\ target[TargetOf[i]][ckpt[i].name] # NoItem
              /\ ThrowRaw(i) /\ UNCHANGED faults
           \/ ~writeFailure /\ Fault /\ ThrowRaw(i)
        /\ UNCHANGED <<public, targetTemp>>
  /\ UNCHANGED <<store, live, locks, writeFailure, archiveTemp, archive, edits, crashes, writeFails>>

Receipt(i) == At(i, "receipt") /\ SaveCheckpoint(i, "TARGET_COMMITTED", "archive")
Doubt(i) ==
  /\ At(i, "doubt")
  /\ \/ /\ ckpt' = [ckpt EXCEPT ![i].phase = "NEEDS_ATTENTION"]
        /\ Throw(i, "unknown") /\ Committed
     \/ ThrowRaw(i) /\ Lost /\ UNCHANGED ckpt
  /\ UNCHANGED <<op, row, hist, live, locks, disk, edits, faults, crashes>>

-----------------------------------------------------------------------------
(* finishArchive, one item at a time for each directory of the archive.      *)

Cell(i) == archive[ckpt[i].name]
Archived(i) == Cell(i) = [base |-> i, merged |-> {}]

(* isCompatibleArchive: the same task and the same selected paths. *)
Compatible(i) ==
  /\ Cell(i).base \in Item \ {i}
  /\ GroupOf[Cell(i).base] = GroupOf[i] /\ ckpt[Cell(i).base].sel = ckpt[i].sel

(* Mutant: the tail of the directory is joined on arrival, behind all others. *)
ArchiveTurnYielding(i) ==
  /\ At(i, "archive")
  /\ \A j \in Items \ {i} : ckpt[j].name = ckpt[i].name => ~At(j, "archive")

ArchiveTurn(i) ==
  /\ At(i, "archive")
  /\ \A j \in Items : ckpt[j].name = ckpt[i].name => exec[j].at \notin {"archived", "unarchived"}

(* The package is there, moves there, or adds its parameters to the package  *)
(* of another target with the same media.                                    *)
Archive(i) ==
  /\ ArchiveTurn(i)
  /\ \/ Archived(i) /\ UNCHANGED <<archive, archiveTemp>>
     \/ /\ archiveTemp[i] = "complete" /\ Cell(i).base = NoItem
        /\ archive' = [archive EXCEPT ![ckpt[i].name].base = i]
        /\ archiveTemp' = [archiveTemp EXCEPT ![i] = "absent"]
     \/ /\ archiveTemp[i] = "complete" /\ Compatible(i)
        /\ archive' = [archive EXCEPT ![ckpt[i].name].merged = @ \cup {i}]
        /\ UNCHANGED archiveTemp
  /\ Goto(i, "archived")
  /\ UNCHANGED <<store, live, locks, writeFailure, targetTemp, public, budget>>

Blocked(i) ==
  ~Archived(i) /\ (archiveTemp[i] = "complete" => Cell(i).base # NoItem /\ ~Compatible(i))

(* Mutant: an error of the archive is ignored. *)
ArchiveErrorIgnored(i) ==
  /\ ArchiveTurn(i) /\ Blocked(i)
  /\ Goto(i, "archived")
  /\ UNCHANGED <<store, live, locks, writeFailure, disk, budget>>

ArchiveFails(i) ==
  /\ ArchiveTurn(i)
  /\ \/ Blocked(i) /\ UNCHANGED faults
     \/ ~Blocked(i) /\ Fault
  /\ Goto(i, "unarchived")
  /\ UNCHANGED <<store, live, locks, writeFailure, disk, edits, crashes, writeFails>>

(* The checkpoint, the history and the row change in one transaction. *)
Release(i) == locks' = IF exec[i].fresh THEN locks \ {TargetOf[i]} ELSE locks
Record(i) ==
  /\ At(i, "archived") \/ At(i, "unarchived")
  /\ LET done == exec[i].at = "archived" IN
     \/ /\ ckpt' = [ckpt EXCEPT ![i].phase = IF done THEN "COMPLETE" ELSE "TARGET_COMMITTED"]
        /\ hist' = [hist EXCEPT ![i] = IF done THEN "SUCCESS" ELSE "PARTIAL_SUCCESS"]
        /\ row' = Marked(i, IF done THEN "GONE" ELSE "FAILED")
        /\ Goto(i, "ended") /\ Release(i)
        /\ Committed
     \/ ThrowRaw(i) /\ Lost /\ UNCHANGED <<ckpt, hist, row, locks>>
  /\ UNCHANGED <<op, live, disk, edits, faults, crashes>>

-----------------------------------------------------------------------------
(* The catch of submitOne and failProgress.                                *)

Escape(i, err) == exec' = [exec EXCEPT ![i].at = "thrown", ![i].err = err]
Escapes(i) ==
  ckpt[i].phase \in Uncertain \/ (exec[i].err = "transient" /\ op[live].attempt <= RetryLimit)

Catch(i) ==
  /\ At(i, "caught")
  /\ \/ writeFailure /\ Escape(i, "unknown") /\ Release(i)
     \/ ~writeFailure /\ Escapes(i) /\ Escape(i, exec[i].err) /\ Release(i)
     \/ ~writeFailure /\ ~Escapes(i) /\ Goto(i, "fail") /\ UNCHANGED locks
  /\ UNCHANGED <<store, live, writeFailure, disk, budget>>

(* Mutant: failProgress forgets about deliveries that are certain. *)
UncertainOnly(i) == ckpt[i].phase \in Uncertain

(* failProgress refuses to report a failure of what may have been delivered. *)
Undeniable(i) == ckpt[i].phase \notin Rebuildable
Fail(i) ==
  /\ At(i, "fail")
  /\ \/ /\ writeFailure \/ Undeniable(i)
        /\ Escape(i, "unknown")
        /\ UNCHANGED <<hist, row, writeFailure, writeFails>>
     \/ /\ ~writeFailure /\ ~Undeniable(i)
        /\ hist' = [hist EXCEPT ![i] = IF exec[i].err = "conflict" THEN "SKIPPED_CONFLICT" ELSE "FAILED"]
        /\ row' = Marked(i, "FAILED")
        /\ Goto(i, "ended") /\ Committed
     \/ /\ ~writeFailure /\ ~Undeniable(i)
        /\ \E err \in RawErrors : Escape(i, err)
        /\ Lost /\ UNCHANGED <<hist, row>>
  /\ Release(i)
  /\ UNCHANGED <<op, ckpt, live, disk, edits, faults, crashes>>

-----------------------------------------------------------------------------
(* The rest of the world.                                                  *)

(* n8n takes a package out of a queue. *)
Take(t, n) ==
  /\ target[t][n] # NoItem
  /\ target' = [target EXCEPT ![t][n] = NoItem]
  /\ UNCHANGED <<store, live, exec, locks, writeFailure, staging, archive, published, budget>>

(* DELETE settings/staging: not while a checkpoint that is not COMPLETE     *)
(* refers to the directory.                                                 *)
Sweepable(i) == ckpt[i].phase \in {"NONE", "COMPLETE"}
SweepStaging(i) ==
  /\ Sweepable(i)
  /\ targetTemp' = [targetTemp EXCEPT ![i] = "absent"]
  /\ archiveTemp' = [archiveTemp EXCEPT ![i] = "absent"]
  /\ UNCHANGED <<store, live, exec, locks, writeFailure, public, archive, budget>>

(* The process dies and starts again: rows that were RUNNING are queued. *)
Crash ==
  /\ crashes < MaxCrash
  /\ crashes' = crashes + 1
  /\ op' = [o \in Op |-> IF op[o].status = "RUNNING" THEN [op[o] EXCEPT !.status = "QUEUED"]
                         ELSE op[o]]
  /\ live' = NoOp /\ locks' = {} /\ writeFailure' = FALSE
  /\ exec' = [i \in Item |-> Idle]
  /\ UNCHANGED <<row, ckpt, hist, disk, edits, faults, writeFails>>

User ==
  \/ \E items \in SUBSET Item, sel \in Selection : Approve(items, sel)
  \/ \E i \in Item : RemoveRow(i)
  \/ \E i \in Item, par \in Parameters, policy \in Policy : ChangeRow(i, par, policy)
  \/ \E o \in Op :
       \/ Requeue(o)
       \/ \E items \in SUBSET Item, sel \in Selection : ApproveDirect(o, items, sel)
       \/ \E items \in SUBSET Item, policy \in Policy : Batch(o, items, policy)
       \/ \E i \in Item : RetrySubmission(o, i)

Submit(i) ==
  \/ Reconcile(i) \/ Refuse(i) \/ Package(i) \/ Prepare(i) \/ Clear(i) \/ Build(i)
  \/ Verify(i) \/ Intend(i) \/ Rename(i) \/ Receipt(i) \/ Doubt(i)
  \/ Archive(i) \/ ArchiveFails(i) \/ Record(i) \/ Catch(i) \/ Fail(i)

Next ==
  \/ User
  \/ \E o \in Op : Begin(o)
  \/ \E i \in Item : Submit(i) \/ SweepStaging(i)
  \/ Admit \/ End \/ OtherWrite \/ Crash
  \/ \E t \in Target, n \in Name : Take(t, n)

Spec == Init /\ [][Next]_vars

(* Code that is running comes to an end: awaited calls return. *)
Fairness == WF_vars(Admit) /\ WF_vars(End) /\ \A i \in Item : WF_vars(Submit(i))
FairSpec == Spec /\ Fairness

-----------------------------------------------------------------------------
(* A package enters the queue of its target at most once, whatever crashes,  *)
(* lost writes, retries and consumers do in between (reconcile, submitOne).  *)
AtMostOncePublish == \A i \in Item : published[i] <= 1

(* The checkpoint never denies a delivery and never invents one: a package   *)
(* has been published only if the intent was recorded before, and it has     *)
(* been published if the checkpoint says so (submitOne, reconcile).          *)
CheckpointTellsTruth ==
  \A i \in Item :
    /\ published[i] > 0 => ckpt[i].phase \notin Rebuildable
    /\ ckpt[i].phase \in {"TARGET_COMMITTED", "COMPLETE"} => published[i] > 0

(* As long as the outcome of a rename is uncertain, the package is either    *)
(* published or still complete in staging: it is never swept away or rebuilt *)
(* (removeOwnedStaging, DELETE settings/staging).                            *)
EvidenceKept ==
  \A i \in Item :
    ckpt[i].phase \in Uncertain => published[i] > 0 \/ targetTemp[i] = "complete"

(* A delivery reported as SUCCESS is in the archive, as a package of its own *)
(* or as parameters added to the package of another target (finishArchive).  *)
SuccessIsArchived ==
  \A i \in Item :
    hist[i] = "SUCCESS" => i \in {Cell(i).base} \cup Cell(i).merged

(* A directory of the archive only holds targets of one selection: media     *)
(* that were approved together (isCompatibleArchive).                        *)
ArchiveOfOneSelection ==
  \A n \in Name : \A i \in archive[n].merged :
    /\ archive[n].base # NoItem /\ GroupOf[archive[n].base] = GroupOf[i]
    /\ ckpt[archive[n].base].sel = ckpt[i].sel

(* A shared archive lets no target report a success it does not hold, and    *)
(* never mixes what was approved apart (finishArchive of several targets).   *)
ArchiveAgrees == SuccessIsArchived /\ ArchiveOfOneSelection

(* An operation that may have published something it cannot confirm keeps    *)
(* its task locked, unless it was helped by others (run's catch, accept).    *)
OwnerKeepsLock ==
  \A i \in Item :
    ckpt[i].phase \in Uncertain
      /\ (\A o \in Op : i \in op[o].items => o = ckpt[i].owner)
      => Active(ckpt[i].owner)

(* What a run reads of an earlier one holds, and nobody changes it meanwhile: *)
(* checkpoint and staging agree with what has been published, and a doubt     *)
(* belongs to one operation (reconcile, removeOwnedStaging, accept).          *)
EvidenceSound == CheckpointTellsTruth /\ EvidenceKept /\ OwnerKeepsLock

(* An operation ends as SUCCEEDED only if each of the items it was asked for *)
(* is published and archived, or was left out by the policy "skip": the      *)
(* failure of one is never hidden by the success of another, whatever        *)
(* crashes, lost writes, changes and retries came before (run, submit).      *)
SucceededMeansDelivered ==
  [][\A o \in Op : op[o].status # "SUCCEEDED" /\ op'[o].status = "SUCCEEDED" =>
       \A i \in op[o].items :
         \/ published[i] = 1 /\ hist[i] = "SUCCESS"
         \/ hist[i] = "SKIPPED_CONFLICT"]_vars

Outcome(i) ==
  IF hist[i] \in {"FAILED", "SKIPPED_CONFLICT"} THEN "refused"
  ELSE IF hist[i] = "PARTIAL_SUCCESS" THEN "incomplete"
  ELSE IF hist[i] = "SUCCESS" THEN "done" ELSE "none"

Promise == INSTANCE DeliveryPromise WITH
             Row <- Item, delivered <- published, report <- [i \in Item |-> Outcome(i)]

(* Whatever is tried how often, a row is delivered at most once and its      *)
(* history never reports a failure of what was delivered, nor a delivery of  *)
(* what was not, and a success is final (failProgress, finishArchive).       *)
ImplementsPromise == Promise!Spec

(* A run comes to an end: the items of a target wait for each other, those   *)
(* of different targets wait for the directories of the archive they share.  *)
RunsEnd == []<>(live = NoOp)
=============================================================================
