-------------------------- MODULE ReviewOperations --------------------------
(***************************************************************************)
(* The durable operation queue of the review centre                        *)
(* (services/review-operations.ts) on top of the serial, whole-file state  *)
(* store (repositories/store.ts).                                          *)
(*                                                                         *)
(* Every change is a transaction that waits in StateStore.saveChain.  The  *)
(* head of the chain is validated against the newest data, written to disk *)
(* and only then published to memory, so a transaction commits in one      *)
(* step, is rejected, or fails to be written.  The `running` map, the      *)
(* executors and the chain live in memory and die with the process; the    *)
(* operation rows and the documents survive.                               *)
(*                                                                         *)
(* Operations are numbered in the order of createdAt.  A document is a row *)
(* of `reviews` or of `pendingSubmissions`; it belongs to one task, and    *)
(* whoever changes it must pass assertSubjectsUnlocked.  What an executor  *)
(* does beyond that (files, checkpoints) is left to modules QueueDelivery  *)
(* and SharedMediaDelivery: here it writes documents of its own tasks and  *)
(* ends in any way it can.                                                 *)
(***************************************************************************)
EXTENDS Integers, Sequences, FiniteSets, FiniteSetsExt

CONSTANTS
  Task,        \* review tasks, the subjects "task:<id>" of an operation
  ReviewDoc,   \* rows of reviews
  PendingDoc,  \* rows of pendingSubmissions
  DocTask,     \* [ReviewDoc \cup PendingDoc -> Task]
  Key,         \* Idempotency-Keys chosen by clients
  Request,     \* request contents as told apart by stableHash({kind, request})
  KindOf,      \* [Request -> {"APPROVE", "BATCH", "RETRY"}]
  SubjectsOf,  \* [Request -> SUBSET Task]
  DocsOf,      \* [Request -> SUBSET Doc]: the rows whose version is validated
  UnitsOf,     \* [Request -> Nat]: items counted against the queue limit
  QueueLimit,  \* 200 in the code
  MaxRunning,  \* 4 in the code
  RetryLimit,  \* the length of RETRY_MS, 3 in the code
  MaxOps,      \* bound: operations ever accepted
  MaxChain,    \* bound: chain length at which clients wait before they ask again
  MaxEdits,    \* bound: document changes ever requested
  MaxCrash,    \* bound: process crashes
  MaxWriteFail \* bound: failed writes of db.json

Doc  == ReviewDoc \cup PendingDoc
Op   == 1..MaxOps
NoOp == 0
DocState == [live: BOOLEAN, gen: Nat, version: Nat]
Row(live) == [live |-> live, gen |-> 0, version |-> 0]
NoRow == Row(FALSE)

ASSUME ConstantsAssumption ==
  /\ ReviewDoc \cap PendingDoc = {}
  /\ DocTask \in [Doc -> Task]
  /\ KindOf \in [Request -> {"APPROVE", "BATCH", "RETRY"}]
  /\ SubjectsOf \in [Request -> (SUBSET Task) \ {{}}]
  /\ Request # {}
  /\ DocsOf \in [Request -> SUBSET Doc]
  /\ \A r \in Request : KindOf[r] = "BATCH" => \A d \in DocsOf[r] : DocTask[d] \in SubjectsOf[r]
  /\ UnitsOf \in [Request -> Nat \ {0}]
  /\ {MaxOps, QueueLimit, RetryLimit, MaxRunning, MaxChain, MaxEdits} \subseteq Nat
  /\ {MaxCrash, MaxWriteFail} \subseteq Nat

VARIABLES
  status,       \* [Op -> status of the row], "ABSENT" before acceptance
  request,      \* [Op -> Request], meaningful once accepted
  keys,         \* [Op -> SUBSET Key]: requestKey and requestAliases
  input,        \* [Op -> [Doc -> DocState]]: the row versions frozen with the operation
  attempt,      \* [Op -> Nat], counted up to RetryLimit + 1: the code tells no more apart
  doc,          \* [Doc -> DocState]; gen changes when a row is deleted and created again
  chain,        \* saveChain: the transactions waiting to be applied
  writeFailure, \* StateStore.writeFailure is set
  running,      \* [Op -> place of the run], "idle" when not in the running map
  service,      \* "down", "starting", "up" or "stopping"
  edits, crashes, writeFails  \* how much of MaxEdits, MaxCrash, MaxWriteFail is used

rowVars == <<status, request, keys, input, attempt>>
budget  == <<edits, crashes, writeFails>>
vars    == <<rowVars, doc, chain, writeFailure, running, service, budget>>

ActiveStatus == {"QUEUED", "RUNNING", "RETRY_WAIT", "NEEDS_ATTENTION"}
Terminal     == {"SUCCEEDED", "PARTIAL_SUCCESS", "FAILED", "NEEDS_ATTENTION"}
Retriable    == {"QUEUED", "RUNNING", "FAILED", "PARTIAL_SUCCESS", "NEEDS_ATTENTION"}
Outcome      == Terminal \cup {"RETRY_WAIT"}
Place        == {"idle", "begin", "exec", "save", "approve", "result", "failed", "error"}
Status       == ActiveStatus \cup Terminal \cup {"ABSENT"}

AcceptTxn == [kind: {"accept"}, key: Key, request: Request, seen: [Doc -> DocState]]
EditTxn   == [kind: {"edit"}, saved: SUBSET Doc, dropped: SUBSET Doc, owner: Op \cup {NoOp}]
ApproveTxn == [kind: {"approve"}, saved: SUBSET Doc, op: Op]
OpTxn     == [kind: {"retry", "begin"}, op: Op]
FinishTxn == [kind: {"finish"}, op: Op, status: Outcome]
PlainTxn  == [kind: {"recover", "event"}]
Txn       == AcceptTxn \cup EditTxn \cup ApproveTxn \cup OpTxn \cup FinishTxn \cup PlainTxn

TypeOK ==
  /\ status \in [Op -> Status]
  /\ request \in [Op -> Request]
  /\ keys \in [Op -> SUBSET Key]
  /\ input \in [Op -> [Doc -> DocState]]
  /\ attempt \in [Op -> 0..(RetryLimit + 1)]
  /\ doc \in [Doc -> DocState]
  /\ chain \in Seq(Txn)
  /\ writeFailure \in BOOLEAN
  /\ running \in [Op -> Place]
  /\ service \in {"down", "starting", "up", "stopping"}
  /\ edits \in 0..MaxEdits /\ crashes \in 0..MaxCrash /\ writeFails \in 0..MaxWriteFail

-----------------------------------------------------------------------------
Present(o)  == status[o] # "ABSENT"
Active(o)   == status[o] \in ActiveStatus
Subjects(o) == SubjectsOf[request[o]]
DocsIn(T)   == {d \in Doc : DocTask[d] \in T}

(* Mutant: only operations on just the same tasks exclude each other. *)
SameTasksOnly(T, owner) == {o \in Op \ {owner} : Active(o) /\ Subjects(o) = T}

(* The active operations, other than `owner`, that lock one of the tasks T. *)
Lockers(T, owner) == {o \in Op \ {owner} : Active(o) /\ Subjects(o) \cap T # {}}

(* A row changes: an existing one gets the next version, a missing one is *)
(* created anew without a version.                                        *)
Saved(d) == IF doc[d].live
            THEN [doc[d] EXCEPT !.version = @ + 1]
            ELSE [live |-> TRUE, gen |-> doc[d].gen + 1, version |-> 0]
Changed(saved, dropped) ==
  [d \in Doc |-> IF d \in saved THEN Saved(d)
                 ELSE IF d \in dropped THEN [doc[d] EXCEPT !.live = FALSE]
                 ELSE doc[d]]
TasksOf(saved, dropped) ==
  {DocTask[d] : d \in saved \cup {e \in dropped : doc[e].live}}

Init ==
  /\ status = [o \in Op |-> "ABSENT"]
  /\ request \in [Op -> {CHOOSE r \in Request : TRUE}]
  /\ keys = [o \in Op |-> {}]
  /\ input = [o \in Op |-> [d \in Doc |-> NoRow]]
  /\ attempt = [o \in Op |-> 0]
  /\ \E live \in SUBSET Doc : doc = [d \in Doc |-> Row(d \in live)]
  /\ chain = <<>>
  /\ writeFailure = FALSE
  /\ running = [o \in Op |-> "idle"]
  /\ service = "down"
  /\ edits = 0 /\ crashes = 0 /\ writeFails = 0

-----------------------------------------------------------------------------
(* What clients do.  Each call only appends a transaction to saveChain.    *)

Enqueue(t) == chain' = Append(chain, t)
ClientTurn == service = "up" /\ Len(chain) < MaxChain

KeyOwners(k) == {o \in Op : Present(o) /\ k \in keys[o]}
Incoming == {i \in DOMAIN chain : chain[i].kind = "accept"}

(* The row states a client bases its request on: those it read last. *)
Seen(r) == [d \in Doc |-> IF d \in DocsOf[r] THEN doc[d] ELSE NoRow]

(* POST approve / batch / retry.  `lookup` answers a known key without      *)
(* queueing anything; a batch needs its pending rows to exist.              *)
RequestOperation(k, r) ==
  /\ ClientTurn
  /\ KeyOwners(k) = {}
  /\ Cardinality({o \in Op : Present(o)}) + Cardinality(Incoming) < MaxOps
  /\ KindOf[r] = "BATCH" => \A d \in DocsOf[r] : doc[d].live
  /\ Enqueue([kind |-> "accept", key |-> k, request |-> r, seen |-> Seen(r)])
  /\ UNCHANGED <<rowVars, doc, writeFailure, running, service, budget>>

(* Mutant: an operation is put back in the queue while its run is alive. *)
EvenIfRunning(o) == Present(o)

AtRest(o) == Present(o) /\ running[o] = "idle"

(* POST review-operations/:id/retry: nothing happens while the run is alive. *)
RequestRetry(o) ==
  /\ ClientTurn /\ AtRest(o)
  /\ Enqueue([kind |-> "retry", op |-> o])
  /\ UNCHANGED <<rowVars, doc, writeFailure, running, service, budget>>

(* What a user may ask to change about a task, as the rows written and the   *)
(* rows removed: its draft is saved; a pending row is changed or deleted;    *)
(* the review is reopened, becoming a draft without pending rows, or deleted.*)
Reviews(t) == {d \in ReviewDoc : DocTask[d] = t}
LivePending(t) == {d \in PendingDoc : DocTask[d] = t /\ doc[d].live}

SaveDraft(t) == {<<{d}, {}>> : d \in Reviews(t)}
ChangePending(t) == {<<{d}, {}>> : d \in LivePending(t)} \cup {<<{}, {d}>> : d \in LivePending(t)}
ReopenOrDelete(t) ==
  {<<{d}, LivePending(t)>> : d \in {e \in Reviews(t) : doc[e].live}}
    \cup {<<{}, Reviews(t) \cup LivePending(t)>>}

Edits(t) == SaveDraft(t) \cup ChangePending(t) \cup ReopenOrDelete(t)

RequestEdit(t) ==
  /\ ClientTurn
  /\ edits < MaxEdits
  /\ \E e \in Edits(t) :
       Enqueue([kind |-> "edit", saved |-> e[1], dropped |-> e[2], owner |-> NoOp])
  /\ edits' = edits + 1
  /\ UNCHANGED <<rowVars, doc, writeFailure, running, service, crashes, writeFails>>

(* Any other write of the state file, such as an application event. *)
RequestEvent ==
  /\ ClientTurn
  /\ Enqueue([kind |-> "event"])
  /\ UNCHANGED <<rowVars, doc, writeFailure, running, service, budget>>

-----------------------------------------------------------------------------
(* The scheduler and the executors.                                        *)

Waiting(o) == status[o] = "QUEUED" /\ running[o] = "idle"

Startable(o) == status[o] \in {"QUEUED", "RETRY_WAIT"} /\ running[o] = "idle"

(* Mutant: kick takes the rows as they come. *)
AnyOrder(o) == o \in Op

OldestWaiting(o) == \A p \in 1..(o - 1) : ~Waiting(p)

(* kick: the oldest waiting operation first; a RETRY_WAIT row takes its     *)
(* place once its delay has passed, which may be at any time.               *)
Kick(o) ==
  /\ service = "up" /\ ~writeFailure
  /\ Startable(o) /\ OldestWaiting(o)
  /\ Cardinality({p \in Op : running[p] # "idle"}) < MaxRunning
  /\ running' = [running EXCEPT ![o] = "begin"]
  /\ Enqueue([kind |-> "begin", op |-> o])
  /\ UNCHANGED <<rowVars, doc, writeFailure, service, budget>>

(* The executor of o writes rows of its own tasks: the status of a review,   *)
(* which is part of its version, or the removal of delivered pending rows.   *)
(* The status of a pending row is not part of its version: writing it        *)
(* changes nothing here.                                                     *)
Work(o) ==
  /\ running[o] = "exec"
  /\ edits < MaxEdits
  /\ \E d \in {e \in DocsIn(Subjects(o)) : doc[e].live} :
       \/ /\ d \in ReviewDoc
          /\ Enqueue([kind |-> "edit", saved |-> {d}, dropped |-> {}, owner |-> o])
       \/ /\ d \in PendingDoc
          /\ Enqueue([kind |-> "edit", saved |-> {}, dropped |-> {d}, owner |-> o])
  /\ running' = [running EXCEPT ![o] = "save"]
  /\ edits' = edits + 1
  /\ UNCHANGED <<rowVars, doc, writeFailure, service, crashes, writeFails>>

(* The last transaction of approveTask for a queued stage: the review, a     *)
(* pending row for each chosen target, the removal of the task's other       *)
(* pending rows and the success of the operation itself.                     *)
Approve(o) ==
  /\ running[o] = "exec" /\ KindOf[request[o]] = "APPROVE"
  /\ edits < MaxEdits
  /\ \E targets \in SUBSET (DocsIn(Subjects(o)) \cap PendingDoc) :
       Enqueue([kind |-> "approve", op |-> o,
                saved |-> targets \cup (DocsIn(Subjects(o)) \cap ReviewDoc)])
  /\ running' = [running EXCEPT ![o] = "approve"]
  /\ edits' = edits + 1
  /\ UNCHANGED <<rowVars, doc, writeFailure, service, crashes, writeFails>>

(* How an error of the executor is classified: an unknown outcome keeps the *)
(* operation, a transient one is retried a few times, any other fails it.   *)
ErrorOutcomes(o) ==
  {"NEEDS_ATTENTION", "FAILED"} \cup
  IF attempt[o] <= RetryLimit THEN {"RETRY_WAIT"} ELSE {}

(* Mutant: the row gets the status of its items, "SUCCESS". *)
ItemOutcomes == {"SUCCESS", "PARTIAL_SUCCESS", "FAILED"}

ResultOutcomes == {"SUCCEEDED", "PARTIAL_SUCCESS", "FAILED"}

FinishWith(o, outcomes, place) ==
  /\ \E s \in outcomes : Enqueue([kind |-> "finish", op |-> o, status |-> s])
  /\ running' = [running EXCEPT ![o] = place]
  /\ UNCHANGED <<rowVars, doc, writeFailure, service, budget>>

Finish(o) ==
  \/ running[o] = "exec" /\ FinishWith(o, ResultOutcomes, "result")
  \/ running[o] \in {"exec", "failed"} /\ FinishWith(o, ErrorOutcomes(o), "error")

-----------------------------------------------------------------------------
(* Transactions of saveChain, one disjunct per mutator.                    *)

Next1(t, k) == chain # <<>> /\ t = Head(chain) /\ t.kind = k

(* updateSections once the mutator returned and the file was replaced. *)
Written ==
  /\ chain' = Tail(chain)
  /\ writeFailure' = FALSE
  /\ UNCHANGED <<service, budget>>

FreshRows(t) ==
  \A d \in DocsOf[t.request] :
    /\ KindOf[t.request] = "APPROVE" =>
         (IF doc[d].live THEN doc[d].version ELSE 0)
           = (IF t.seen[d].live THEN t.seen[d].version ELSE 0)
    /\ KindOf[t.request] = "BATCH" =>
         doc[d].live /\ doc[d].gen = t.seen[d].gen /\ doc[d].version = t.seen[d].version

Units(o) == UnitsOf[request[o]]
ActiveUnits == MapThenSumSet(Units, {o \in Op : Active(o)})

(* The same content is already being worked on for one of the tasks. *)
Twins(t) == {o \in Lockers(SubjectsOf[t.request], NoOp) : request[o] = t.request}

Replays(t)  == \E o \in KeyOwners(t.key) : request[o] = t.request
Aliased(t)  == KeyOwners(t.key) = {} /\ Twins(t) # {}

(* Mutant: only lookup, outside of the transaction, compares the keys. *)
AcceptedUnderAnyKey(t) ==
  /\ Lockers(SubjectsOf[t.request], NoOp) = {}
  /\ ActiveUnits + UnitsOf[t.request] <= QueueLimit
  /\ FreshRows(t)

(* Mutant: the rows are compared before the wait for saveChain only. *)
AcceptedUnchecked(t) ==
  /\ KeyOwners(t.key) = {}
  /\ Lockers(SubjectsOf[t.request], NoOp) = {}
  /\ ActiveUnits + UnitsOf[t.request] <= QueueLimit

Accepted(t) ==
  /\ KeyOwners(t.key) = {}
  /\ Lockers(SubjectsOf[t.request], NoOp) = {}
  /\ ActiveUnits + UnitsOf[t.request] <= QueueLimit
  /\ FreshRows(t)

CommitReplay(t) ==
  /\ Next1(t, "accept") /\ Replays(t)
  /\ Written /\ UNCHANGED <<rowVars, doc, running>>

CommitAlias(t) ==
  /\ Next1(t, "accept") /\ Aliased(t)
  /\ \E o \in Twins(t) : keys' = [keys EXCEPT ![o] = @ \cup {t.key}]
  /\ Written /\ UNCHANGED <<status, request, input, attempt, doc, running>>

CommitAccept(t, o) ==
  /\ Next1(t, "accept") /\ Accepted(t)
  /\ ~Present(o) /\ \A p \in 1..(o - 1) : Present(p)
  /\ status'  = [status EXCEPT ![o] = "QUEUED"]
  /\ request' = [request EXCEPT ![o] = t.request]
  /\ keys'    = [keys EXCEPT ![o] = {t.key}]
  /\ input'   = [input EXCEPT ![o] = t.seen]
  /\ attempt' = [attempt EXCEPT ![o] = 0]
  /\ Written /\ UNCHANGED <<doc, running>>

(* Mutant: a retry does not look at the status it finds. *)
RequeuedAlways(t) == Present(t.op)

Requeued(t) == status[t.op] \in Retriable

(* Mutant: a retry does not look for other operations on its tasks. *)
NoRetryConflict(t) == Requeued(t) /\ FALSE

RetryConflict(t) == Requeued(t) /\ Lockers(Subjects(t.op), t.op) # {}

CommitRetry(t) ==
  /\ Next1(t, "retry") /\ ~RetryConflict(t)
  /\ status' = IF Requeued(t) THEN [status EXCEPT ![t.op] = "QUEUED"] ELSE status
  /\ Written /\ UNCHANGED <<request, keys, input, attempt, doc, running>>

CommitBegin(t) ==
  /\ Next1(t, "begin")
  /\ status' = [status EXCEPT ![t.op] = "RUNNING"]
  /\ attempt' = [attempt EXCEPT ![t.op] = IF @ > RetryLimit THEN @ ELSE @ + 1]
  /\ running' = [running EXCEPT ![t.op] = "exec"]
  /\ Written /\ UNCHANGED <<request, keys, input, doc>>

(* assertSubjectsUnlocked: the rows' tasks are not locked by anyone else. *)
Locked(t) == Lockers(TasksOf(t.saved, t.dropped), t.owner) # {}

CommitEdit(t) ==
  /\ Next1(t, "edit") /\ ~Locked(t)
  /\ doc' = Changed(t.saved, t.dropped)
  /\ running' = IF t.owner = NoOp THEN running ELSE [running EXCEPT ![t.owner] = "exec"]
  /\ Written /\ UNCHANGED rowVars

CommitApprove(t) ==
  /\ Next1(t, "approve")
  /\ Lockers(Subjects(t.op), t.op) = {}
  /\ doc' = Changed(t.saved, DocsIn(Subjects(t.op)) \ t.saved)
  /\ status' = [status EXCEPT ![t.op] = "SUCCEEDED"]
  /\ running' = [running EXCEPT ![t.op] = "idle"]
  /\ Written /\ UNCHANGED <<request, keys, input, attempt>>

CommitFinish(t) ==
  /\ Next1(t, "finish")
  /\ status' = [status EXCEPT ![t.op] = t.status]
  /\ running' = [running EXCEPT ![t.op] = "idle"]
  /\ Written /\ UNCHANGED <<request, keys, input, attempt, doc>>

CommitEvent(t) ==
  /\ Next1(t, "event")
  /\ Written /\ UNCHANGED <<rowVars, doc, running>>

(* Mutant: start leaves the rows as it found them. *)
NothingRecovered == status

(* start: whatever was running when the process died is queued again. *)
Recovered == [o \in Op |-> IF status[o] = "RUNNING" THEN "QUEUED" ELSE status[o]]

CommitRecover(t) ==
  /\ Next1(t, "recover")
  /\ status' = Recovered
  /\ chain' = Tail(chain) /\ writeFailure' = FALSE
  /\ service' = "up"
  /\ UNCHANGED <<request, keys, input, attempt, doc, running, budget>>

(* The mutator or the lock check throws: nothing is written. *)
Rejected(t) ==
  \/ t.kind = "accept" /\ ~(Replays(t) \/ Aliased(t) \/ Accepted(t))
  \/ t.kind = "retry" /\ RetryConflict(t)
  \/ t.kind = "edit" /\ Locked(t)

Reject ==
  /\ chain # <<>> /\ Rejected(Head(chain))
  /\ chain' = Tail(chain)
  /\ LET t == Head(chain) IN
     running' = IF t.kind = "edit" /\ t.owner # NoOp
                THEN [running EXCEPT ![t.owner] = "exec"] ELSE running
  /\ UNCHANGED <<rowVars, doc, writeFailure, service, budget>>

(* Where a run finds itself when its transaction could not be written: the   *)
(* first and the last one end it, a lost success is reported as an error, an *)
(* executor handles the failure of its own writes as it likes.               *)
AfterLoss(place) ==
  IF place \in {"begin", "error"} THEN "idle"
  ELSE IF place \in {"approve", "result"} THEN "failed" ELSE "exec"
RunsOf(t) ==
  {o \in Op : \/ t.kind \in {"begin", "approve", "finish"} /\ o = t.op
              \/ t.kind = "edit" /\ o = t.owner}

(* The write fails: memory keeps the old data, writeFailure is raised and    *)
(* whoever waits for the transaction gets the error; start gives up.         *)
WriteFails ==
  /\ chain # <<>> /\ ~Rejected(Head(chain))
  /\ writeFails < MaxWriteFail
  /\ chain' = Tail(chain)
  /\ writeFailure' = TRUE
  /\ writeFails' = writeFails + 1
  /\ running' = [o \in Op |-> IF o \in RunsOf(Head(chain))
                             THEN AfterLoss(running[o]) ELSE running[o]]
  /\ service' = IF Head(chain).kind = "recover" THEN "down" ELSE service
  /\ UNCHANGED <<rowVars, doc, edits, crashes>>

-----------------------------------------------------------------------------
(* The life of the process.                                                *)

(* initialize reads the file back; start queues the recovery transaction. *)
Start ==
  /\ service = "down"
  /\ service' = "starting"
  /\ writeFailure' = FALSE
  /\ Enqueue([kind |-> "recover"])
  /\ UNCHANGED <<rowVars, doc, running, budget>>

Crash ==
  /\ service # "down" /\ crashes < MaxCrash
  /\ crashes' = crashes + 1
  /\ service' = "down"
  /\ chain' = <<>>
  /\ running' = [o \in Op |-> "idle"]
  /\ writeFailure' = FALSE
  /\ UNCHANGED <<rowVars, doc, edits, writeFails>>

(* stop: no new requests, no new runs; the live runs end first. *)
Stop ==
  /\ service = "up"
  /\ service' = "stopping"
  /\ UNCHANGED <<rowVars, doc, chain, writeFailure, running, budget>>

Stopped ==
  /\ service = "stopping" /\ chain = <<>>
  /\ \A o \in Op : running[o] = "idle"
  /\ service' = "down"
  /\ writeFailure' = FALSE
  /\ UNCHANGED <<rowVars, doc, chain, running, budget>>

Client ==
  \/ \E k \in Key, r \in Request : RequestOperation(k, r)
  \/ \E o \in Op : RequestRetry(o)
  \/ \E t \in Task : RequestEdit(t)
  \/ RequestEvent

Run(o) == Work(o) \/ Approve(o) \/ Finish(o)

Commit ==
  \E t \in {chain[i] : i \in DOMAIN chain} :
    \/ CommitReplay(t) \/ CommitAlias(t) \/ \E o \in Op : CommitAccept(t, o)
    \/ CommitRetry(t) \/ CommitBegin(t) \/ CommitEdit(t) \/ CommitApprove(t)
    \/ CommitFinish(t) \/ CommitEvent(t) \/ CommitRecover(t)

Process == Start \/ Crash \/ Stop \/ Stopped

Next ==
  \/ Client
  \/ \E o \in Op : Kick(o) \/ Run(o)
  \/ Commit \/ Reject \/ WriteFails
  \/ Process

Spec == Init /\ [][Next]_vars

(* The timer and the end of every run call kick; executors come to an end;  *)
(* saveChain is drained; the service manager starts the process again.  A   *)
(* waiting operation may be passed by an older one that a user retries, so  *)
(* its start needs strong fairness: kick runs before a retry can be queued. *)
Fairness ==
  /\ \A o \in Op : SF_vars(Kick(o)) /\ WF_vars(Finish(o))
  /\ WF_vars(Commit \/ Reject)
  /\ WF_vars(Start) /\ WF_vars(Stopped)

FairSpec == Spec /\ Fairness

-----------------------------------------------------------------------------
(* A task is locked by at most one operation at any time, whatever requests, *)
(* retries, crashes and failed saves come between (accept, retry).           *)
OneOperationPerTask ==
  \A o, p \in Op :
    o # p /\ Active(o) /\ Active(p) => Subjects(o) \cap Subjects(p) = {}

(* An Idempotency-Key, first or alias, names one operation for ever, so a    *)
(* repeated request can never start the same work twice (accept, lookup).    *)
KeyNamesOneOperation ==
  \A o, p \in Op : o # p => keys[o] \cap keys[p] = {}

(* While an executor is alive its row stays RUNNING: no retry, recovery or   *)
(* second run changes the row under it (run, retry, start).                  *)
RunOwnsItsRow ==
  \A o \in Op :
    /\ running[o] = "begin" => status[o] \in {"QUEUED", "RETRY_WAIT"}
    /\ running[o] \notin {"idle", "begin"} => status[o] = "RUNNING"

(* The transactions of saveChain are in step with the running map: a run has *)
(* at most one of them in flight and waits for just that one, a retry stands *)
(* before the first transaction of the run it releases, and nothing is       *)
(* queued around the recovery of start (kick, run, retry, start).            *)
AwaitedAt(t, place) ==
  \/ t.kind = "begin" /\ place = "begin"
  \/ t.kind = "approve" /\ place = "approve"
  \/ t.kind = "finish" /\ place \in {"result", "error"}
  \/ t.kind = "edit" /\ place = "save"

RunsAwaitTheirTxn ==
  \A i \in DOMAIN chain : \A o \in RunsOf(chain[i]) :
    /\ AwaitedAt(chain[i], running[o])
    /\ \A j \in DOMAIN chain : o \in RunsOf(chain[j]) => i = j

RetriesPrecedeRuns ==
  \A i \in DOMAIN chain : chain[i].kind = "retry" =>
    /\ Present(chain[i].op)
    /\ \/ running[chain[i].op] = "idle"
       \/ /\ running[chain[i].op] = "begin"
          /\ \E j \in DOMAIN chain :
               j > i /\ chain[j].kind = "begin" /\ chain[j].op = chain[i].op

RecoveryAlone ==
  /\ \A i \in DOMAIN chain : chain[i].kind = "recover" => service = "starting"
  /\ service = "starting" => Len(chain) = 1 /\ chain[1].kind = "recover"
  /\ service = "down" => Len(chain) = 0
  /\ service \in {"down", "starting"} => \A o \in Op : running[o] = "idle"

ChainDiscipline == RunsAwaitTheirTxn /\ RetriesPrecedeRuns /\ RecoveryAlone

(* A batch first runs on exactly the pending rows its client saw: neither    *)
(* the wait for saveChain nor the wait in the queue lets an edit slip in.    *)
BatchRunsOnSeenRows ==
  \A o \in Op :
    Active(o) /\ attempt[o] = 0 /\ KindOf[request[o]] = "BATCH"
      => \A d \in DocsOf[request[o]] : doc[d] = input[o][d]

(* Operations are first run in the order in which they were accepted (kick,  *)
(* across recovery and retries).                                             *)
StartsInOrder ==
  \A o, p \in Op : p < o /\ attempt[o] > 0 => attempt[p] > 0

(* What first runs is what was accepted: on the rows that were seen, whatever *)
(* is edited before the request reaches the head of saveChain or before its   *)
(* run; and, until a write of the state file fails, in the order of           *)
(* acceptance (the re-check inside accept, kick).                             *)
FirstRunsAsAccepted ==
  BatchRunsOnSeenRows /\ (writeFails = 0 => StartsInOrder)

(* A succeeded operation is never run again, not even by retries that were   *)
(* asked for before it succeeded.                                            *)
SucceededIsFinal ==
  [][\A o \in Op : status[o] = "SUCCEEDED"
       => status'[o] = "SUCCEEDED" /\ running'[o] = "idle"]_vars

(* Without failing writes every accepted operation comes to an end or to     *)
(* NEEDS_ATTENTION, across crashes, restarts and automatic retries.          *)
AcceptedSettles ==
  \A o \in Op : []<>(Active(o) => status[o] \in Terminal)

Locks == INSTANCE TaskLocks WITH
           Holder <- Op,
           held <- [o \in Op |-> IF Active(o) THEN Subjects(o) ELSE {}]

(* The queue implements one lock per task, taken for all tasks of an         *)
(* operation at once and given back at once.                                 *)
ImplementsTaskLocks == Locks!Spec
=============================================================================
