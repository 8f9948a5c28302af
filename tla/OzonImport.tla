---------------------------- MODULE OzonImport ----------------------------
(***************************************************************************)
(* How one store publication is imported into OZON and archived.           *)
(*                                                                         *)
(*   job         the row of ozon_publish_jobs                              *)
(*   runs        the n8n executions that claimed it, each with the lease   *)
(*               token it was given (P002 and the S001 it starts)          *)
(*   ledger      the row of ozon_gateway_requests for the import; every    *)
(*               run of the task uses the same requestRef                  *)
(*   ozon        the marketplace: what became of the import, how many      *)
(*               requests it accepted, and the requests on their way       *)
(*   disk        which lifecycle directory holds the task                  *)
(*   committing  "moved" or "found" while a success COMMIT is undecided:   *)
(*               what its run did to the directory                         *)
(*   overtaken   did the row succeed on an archive that was being undone?  *)
(*   faults      how many faults have happened                             *)
(*                                                                         *)
(* A run works on the copy of the row it was handed; "current" says that   *)
(* its row version is still the row's.  Backoff times are left out: a row  *)
(* that waits is due again at once.  The claim from the inbox, the media,  *)
(* price and stock writes, image repair, the readback hold and the error   *)
(* markers in the directory are left out; the media of a retry hash to the *)
(* payload of the first try, which is the retry the code intends.          *)
(***************************************************************************)
EXTENDS Integers, FiniteSets

CONSTANTS
  Tokens,      \* lease tokens; one not in use stands for a fresh UUID
  MaxFaults,   \* faults: a death, a lease that lapses under a living run, a write
               \* that never left or whose answer is lost, a failed read, a lost COMMIT
  None

ASSUME OzonAssumption ==
  /\ None \notin Tokens
  /\ MaxFaults \in Nat

VARIABLES job, runs, ledger, ozon, disk, committing, overtaken, faults

vars == <<job, runs, ledger, ozon, disk, committing, overtaken, faults>>

AbsentNeeded == 3   \* readings without any offer before a retry is allowed

Claims == {"READY", "UPLOADING_MEDIA", "SUBMITTING", "IMPORTING", "MODERATING"}
Settled == {"SUCCEEDED", "NEEDS_ATTENTION"}
Archiving == {"move", "commit", "unsure", "refused", "rollback"}

Run(pc) == [pc |-> pc, current |-> TRUE, saw |-> ""]
Idle == [pc |-> "idle", current |-> FALSE, saw |-> ""]

Init ==
  /\ job = [state |-> "READY", phase |-> "", absent |-> 0, task |-> FALSE,
            dir |-> "processing", holder |-> None, live |-> FALSE]
  /\ runs = [t \in Tokens |-> Idle]
  /\ ledger = [st |-> "none", token |-> None]
  /\ ozon = [import |-> "none", sent |-> 0, wire |-> {}]
  /\ disk = "processing"
  /\ committing = ""
  /\ overtaken = FALSE
  /\ faults = 0

Fault == faults < MaxFaults /\ faults' = faults + 1

\* Every write of the row moves its version.
Stale == [t \in Tokens |-> [runs[t] EXCEPT !.current = FALSE]]

\* Mutant: releasing a lease forgets its expiry.
ReleasedHalf(j) == [j EXCEPT !.holder = None]

Released(j) == [j EXCEPT !.holder = None, !.live = FALSE]

Leased(t) == job.holder = t /\ job.live

\* assertRuntimeBinding and the checks of the update itself.
Accept(t) == runs[t].current /\ Leased(t)

\* A callback of run t: an accepted one moves the row to j and the run to pc,
\* a refused one ends the run.  It waits for the lock of an open transaction.
Save(t, j, pc) ==
  /\ committing = ""
  /\ IF Accept(t)
     THEN job' = j /\ runs' = [Stale EXCEPT ![t] = IF pc = "idle" THEN Idle ELSE Run(pc)]
     ELSE job' = job /\ runs' = [runs EXCEPT ![t] = Idle]
  /\ UNCHANGED <<ledger, ozon, disk, committing, overtaken>>

---------------------------------------------------------------------------
(* P002: claim the task and choose what to do. *)

Mode ==
  IF job.state = "MODERATING" THEN "verify"
  ELSE IF job.state = "IMPORTING" THEN IF job.task THEN "poll" ELSE "offers"
  ELSE IF job.task THEN "verify" ELSE "lock"

Claim(t) ==
  /\ job.state \in Claims
  /\ ~job.live /\ committing = ""
  /\ runs[t].pc = "idle" /\ ledger.token # t
  /\ job' = [job EXCEPT !.holder = t, !.live = TRUE]
  /\ runs' = [Stale EXCEPT ![t] = Run(Mode)]
  /\ UNCHANGED <<ledger, ozon, disk, committing, overtaken, faults>>

\* Nothing renews a lease: it runs out after ten minutes.
Expire ==
  /\ job.live
  /\ \/ runs[job.holder].pc = "idle" /\ UNCHANGED faults
     \/ runs[job.holder].pc # "idle" /\ Fault
  /\ job' = [job EXCEPT !.live = FALSE]
  /\ UNCHANGED <<runs, ledger, ozon, disk, committing, overtaken>>

Crash(t) ==
  /\ runs[t].pc # "idle"
  /\ Fault
  /\ runs' = [runs EXCEPT ![t] = Idle]
  /\ UNCHANGED <<job, ledger, ozon, disk, committing, overtaken>>

---------------------------------------------------------------------------
(* S001: lock, upload the media, persist the intent, call the gateway. *)

Lock(t) ==
  /\ runs[t].pc = "lock"
  /\ Save(t, [job EXCEPT !.state = "UPLOADING_MEDIA"], "media")
  /\ UNCHANGED faults

\* S001 was not started, or the media are not reachable: later, or a person.
Postpone(t) ==
  /\ runs[t].pc = "media"
  /\ Fault
  /\ \E s \in {"SUBMITTING", "NEEDS_ATTENTION"} :
       Save(t, Released([job EXCEPT !.state = s]), "idle")

Persist(t) ==
  /\ runs[t].pc = "media"
  /\ Save(t, [job EXCEPT !.state = "IMPORTING", !.phase = "PERSISTED", !.absent = 0], "begin")
  /\ UNCHANGED faults

Saw(t, pc, saw) == [runs EXCEPT ![t].pc = pc, ![t].saw = saw]

\* gatewayLedgerMayRetry
MayRetry == ledger.st \in {"new", "retryable"}

FromLedger ==
  IF ledger.st = "accepted" THEN "task"
  ELSE IF ledger.st = "refused" THEN "refused"
  ELSE IF ledger.st = "sending" THEN "unknown" ELSE "notsent"

\* The request hash of a write contains the lease token.
SameRequest(t) == ledger.token = t

\* Mutant: every lease has a ledger row of its own.
BeginPerLease(t) ==
  /\ runs[t].pc = "begin"
  /\ IF ~Leased(t)
     THEN runs' = Saw(t, "answer", "notsent") /\ UNCHANGED ledger
     ELSE runs' = Saw(t, "mark", "") /\ ledger' = [st |-> "new", token |-> t]
  /\ UNCHANGED <<job, ozon, disk, committing, overtaken, faults>>

\* beginGatewayRequest: a row under the same requestRef but with another hash is
\* a conflict, which OZON-A001 reports as not sent.
Begin(t) ==
  /\ runs[t].pc = "begin"
  /\ IF ~Leased(t) \/ (ledger.st # "none" /\ ~SameRequest(t))
     THEN runs' = Saw(t, "answer", "notsent") /\ UNCHANGED ledger
     ELSE IF ledger.st = "none"
     THEN runs' = Saw(t, "mark", "") /\ ledger' = [st |-> "new", token |-> t]
     ELSE /\ runs' = IF MayRetry THEN Saw(t, "mark", "") ELSE Saw(t, "answer", FromLedger)
          /\ UNCHANGED ledger
  /\ UNCHANGED <<job, ozon, disk, committing, overtaken, faults>>

\* markGatewaySending, and rejectBeforeSend when the lease is gone.
Mark(t) ==
  /\ runs[t].pc = "mark"
  /\ IF MayRetry /\ Leased(t)
     THEN /\ ledger' = [ledger EXCEPT !.st = "sending"]
          /\ ozon' = [ozon EXCEPT !.wire = @ \union {t}]
          /\ runs' = Saw(t, "wait", "")
     ELSE /\ ledger' = [ledger EXCEPT !.st = IF MayRetry THEN "rejected" ELSE @]
          /\ runs' = Saw(t, "answer", IF MayRetry THEN "notsent" ELSE FromLedger)
          /\ UNCHANGED ozon
  /\ UNCHANGED <<job, disk, committing, overtaken, faults>>

\* The gateway completes its row and answers the run, if it is still there.
Reply(t, st, saw) ==
  IF runs[t].pc = "wait"
  THEN ledger' = [ledger EXCEPT !.st = st] /\ runs' = Saw(t, "answer", saw)
  ELSE UNCHANGED <<ledger, runs>>

Accepted(t) ==
  /\ t \in ozon.wire
  /\ ozon' = [import |-> IF ozon.import = "none" THEN "running" ELSE ozon.import,
              sent |-> ozon.sent + 1, wire |-> ozon.wire \ {t}]
  /\ Reply(t, "accepted", "task")
  /\ UNCHANGED <<job, disk, committing, overtaken, faults>>

Refused(t) ==
  /\ t \in ozon.wire
  /\ ozon' = [ozon EXCEPT !.wire = @ \ {t}]
  /\ Reply(t, "refused", "refused")
  /\ UNCHANGED <<job, disk, committing, overtaken, faults>>

\* 425, 429, or a connection that was never made.
TurnedAway(t) ==
  /\ t \in ozon.wire /\ runs[t].pc = "wait"
  /\ Fault
  /\ ozon' = [ozon EXCEPT !.wire = @ \ {t}]
  /\ Reply(t, "retryable", "notsent")
  /\ UNCHANGED <<job, disk, committing, overtaken>>

\* A timeout or a 5xx: the request may still arrive, or have arrived.
NoAnswer(t) ==
  /\ runs[t].pc = "wait"
  /\ Fault
  /\ Reply(t, "sending", "unknown")
  /\ UNCHANGED <<job, ozon, disk, committing, overtaken>>

\* What S001 makes of the gateway's answer.
Answered(saw) ==
  IF saw = "task" THEN [job EXCEPT !.task = TRUE, !.phase = "TASK_ID_BOUND"]
  ELSE IF saw = "refused"
  THEN Released([job EXCEPT !.state = "NEEDS_ATTENTION", !.phase = "REJECTED"])
  ELSE IF saw = "notsent"
  THEN Released([job EXCEPT !.state = "SUBMITTING", !.phase = "RETRY_ALLOWED"])
  ELSE Released([job EXCEPT !.state = "IMPORTING", !.phase = "AWAITING_READBACK"])

Answer(t) ==
  /\ runs[t].pc = "answer"
  /\ LET saw == runs[t].saw
     IN  Save(t, Answered(saw), IF saw = "task" THEN "poll" ELSE "idle")
  /\ UNCHANGED faults

---------------------------------------------------------------------------
(* Reading the marketplace: the import task, the offers, the final state. *)

Visible == ozon.import \in {"created", "approved"}

View(pc) ==
  IF pc = "verify" THEN IF ozon.import = "approved" THEN "approved" ELSE "pending"
  ELSE IF Visible THEN "created"
  ELSE IF pc = "offers" THEN "absent"
  ELSE IF ozon.import = "failed" THEN "failed" ELSE "pending"

Reading(t) == runs[t].pc \in {"poll", "offers", "verify"} /\ runs[t].saw = ""

Look(t) ==
  /\ Reading(t)
  /\ runs' = Saw(t, runs[t].pc, View(runs[t].pc))
  /\ UNCHANGED <<job, ledger, ozon, disk, committing, overtaken, faults>>

LookFails(t) ==
  /\ Reading(t)
  /\ Fault
  /\ \E saw \in {"pending"} \union (IF runs[t].pc = "verify" THEN {"mismatch"} ELSE {}) :
       runs' = Saw(t, runs[t].pc, saw)
  /\ UNCHANGED <<job, ledger, ozon, disk, committing, overtaken>>

\* No offer is there: after three such readings the import may be retried.
Absent ==
  LET seen == job.absent + 1
  IN  IF seen >= AbsentNeeded
      THEN [job EXCEPT !.state = "SUBMITTING", !.phase = "RETRY_ALLOWED", !.absent = AbsentNeeded]
      ELSE [job EXCEPT !.state = "IMPORTING", !.phase = "CONFIRMING_ABSENCE", !.absent = seen]

\* Mutant: a failed import task is waited for like a running one.
ConcludedWaiting(pc, saw) ==
  Released(
    IF saw = "created"
    THEN [job EXCEPT !.state = "MODERATING", !.phase = IF pc = "offers" THEN "CONFIRMED_CREATED" ELSE @]
    ELSE IF saw = "absent" THEN Absent
    ELSE IF saw = "mismatch" THEN [job EXCEPT !.state = "NEEDS_ATTENTION"]
    ELSE [job EXCEPT !.state = IF pc = "verify" THEN "MODERATING" ELSE "IMPORTING"])

Concluded(pc, saw) ==
  Released(
    IF saw = "created"
    THEN [job EXCEPT !.state = "MODERATING", !.phase = IF pc = "offers" THEN "CONFIRMED_CREATED" ELSE @]
    ELSE IF saw = "absent" THEN Absent
    ELSE IF saw \in {"failed", "mismatch"} THEN [job EXCEPT !.state = "NEEDS_ATTENTION"]
    ELSE [job EXCEPT !.state = IF pc = "verify" THEN "MODERATING" ELSE "IMPORTING"])

Conclude(t) ==
  /\ runs[t].pc \in {"poll", "offers", "verify"}
  /\ runs[t].saw \notin {"", "approved"}
  /\ Save(t, Concluded(runs[t].pc, runs[t].saw), "idle")
  /\ UNCHANGED faults

---------------------------------------------------------------------------
(* SUCCEEDED: the directory is renamed first, then the row is updated. *)

Enter(t) ==
  /\ runs[t].pc = "verify" /\ runs[t].saw = "approved"
  /\ runs' = [runs EXCEPT ![t] = IF Accept(t) THEN [@ EXCEPT !.pc = "move"] ELSE Idle]
  /\ UNCHANGED <<job, ledger, ozon, disk, committing, overtaken, faults>>

\* archiveSucceededDirectory: a directory archived before is taken as it is.
Move(t) ==
  /\ runs[t].pc = "move"
  /\ runs' = Saw(t, "commit", IF disk = "processing" THEN "moved" ELSE "found")
  /\ disk' = "success"
  /\ UNCHANGED <<job, ledger, ozon, committing, overtaken, faults>>

\* A run that renamed the directory has moved it back, or is about to.
Undone == disk = "processing" \/ \E t \in Tokens : runs[t].pc = "rollback"

\* The success of a run that "moved" or "found" the directory is in the row.
Succeed(saw) ==
  /\ job' = Released([job EXCEPT !.state = "SUCCEEDED", !.dir = "success"])
  /\ overtaken' = (saw # "moved" /\ Undone)

\* recordN8nUpdate: the compare-and-set on the row version and the lease.
Commit(t) ==
  /\ runs[t].pc = "commit" /\ committing = ""
  /\ IF Accept(t)
     THEN Succeed(runs[t].saw) /\ runs' = [Stale EXCEPT ![t] = Idle]
     ELSE /\ runs' = IF runs[t].saw = "moved" THEN Saw(t, "refused", "") ELSE [runs EXCEPT ![t] = Idle]
          /\ UNCHANGED <<job, overtaken>>
  /\ UNCHANGED <<ledger, ozon, disk, committing, faults>>

\* The connection is lost while COMMIT is under way.
LoseCommit(t) ==
  /\ runs[t].pc = "commit" /\ committing = "" /\ Accept(t)
  /\ Fault
  /\ \/ runs[t].saw = "moved" /\ committing' = "moved" /\ runs' = Saw(t, "unsure", "")
     \/ runs[t].saw = "found" /\ committing' = "found" /\ runs' = [runs EXCEPT ![t] = Idle]
  /\ UNCHANGED <<job, ledger, ozon, disk, overtaken>>

LateCommit ==
  /\ committing # ""
  /\ committing' = ""
  /\ \/ Succeed(committing) /\ runs' = Stale
     \/ UNCHANGED <<job, runs, overtaken>>
  /\ UNCHANGED <<ledger, ozon, disk, faults>>

\* Mutant: what the row says now decides, however the update failed.
ReadbackTrusting(t) ==
  /\ runs[t].pc \in {"unsure", "refused"}
  /\ runs' = IF job.dir = "processing" THEN Saw(t, "rollback", "") ELSE [runs EXCEPT ![t] = Idle]
  /\ UNCHANGED <<job, ledger, ozon, disk, committing, overtaken, faults>>

\* Only a refusal that is certain may be compensated.
Readback(t) ==
  /\ runs[t].pc \in {"unsure", "refused"}
  /\ runs' = IF runs[t].pc = "refused" /\ job.dir = "processing"
             THEN Saw(t, "rollback", "") ELSE [runs EXCEPT ![t] = Idle]
  /\ UNCHANGED <<job, ledger, ozon, disk, committing, overtaken, faults>>

\* rollbackPlatformStatusArchive does not look at the row again.
Rollback(t) ==
  /\ runs[t].pc = "rollback"
  /\ disk' = "processing"
  /\ runs' = [runs EXCEPT ![t] = Idle]
  /\ UNCHANGED <<job, ledger, ozon, committing, overtaken, faults>>

---------------------------------------------------------------------------
(* OZON works on what it accepted. *)

Becomes(from, to) ==
  /\ ozon.import = from
  /\ ozon' = [ozon EXCEPT !.import = to]
  /\ UNCHANGED <<job, runs, ledger, disk, committing, overtaken, faults>>

Create == Becomes("running", "created")
Fail == Becomes("running", "failed")
Approve == Becomes("created", "approved")

Own(t) ==
  \/ Lock(t) \/ Persist(t) \/ Begin(t) \/ Mark(t) \/ Answer(t)
  \/ Look(t) \/ Conclude(t)
  \/ Enter(t) \/ Move(t) \/ Commit(t) \/ Readback(t) \/ Rollback(t)

Mishap(t) ==
  \/ Crash(t) \/ Postpone(t) \/ TurnedAway(t) \/ NoAnswer(t) \/ LookFails(t) \/ LoseCommit(t)

Next ==
  \/ \E t \in Tokens : Claim(t) \/ Own(t) \/ Mishap(t) \/ Accepted(t) \/ Refused(t)
  \/ Expire \/ LateCommit
  \/ Create \/ Fail \/ Approve

\* P002 scans every 30 seconds, a living execution goes on, a lease runs out,
\* a request is answered, a transaction ends, and OZON decides on an import.
Fairness ==
  /\ WF_vars(\E t \in Tokens : Claim(t))
  /\ \A t \in Tokens : WF_vars(Own(t)) /\ WF_vars(Accepted(t) \/ Refused(t))
  /\ WF_vars(Expire) /\ WF_vars(LateCommit)
  /\ WF_vars(Create \/ Fail) /\ WF_vars(Approve)

Spec == Init /\ [][Next]_vars /\ Fairness

---------------------------------------------------------------------------
(* Properties. *)

Jobs == [state : Claims \union Settled,
         phase : {"", "PERSISTED", "AWAITING_READBACK", "CONFIRMING_ABSENCE", "RETRY_ALLOWED",
                  "TASK_ID_BOUND", "CONFIRMED_CREATED", "REJECTED"},
         absent : 0 .. AbsentNeeded, task : BOOLEAN, dir : {"processing", "success"},
         holder : Tokens \union {None}, live : BOOLEAN]

Executions == [pc : {"idle", "lock", "media", "begin", "mark", "wait", "answer",
                     "poll", "offers", "verify"} \union Archiving,
               current : BOOLEAN,
               saw : {"", "task", "refused", "notsent", "unknown", "created", "pending",
                      "absent", "failed", "mismatch", "approved", "moved", "found"}]

Requests == [st : {"none", "new", "sending", "accepted", "refused", "retryable", "rejected"},
             token : Tokens \union {None}]

Marketplace == [import : {"none", "running", "created", "failed", "approved"},
                sent : Nat, wire : SUBSET Tokens]

\* Every variable holds values the code can store in it.
TypeOK ==
  /\ job \in Jobs /\ (job.live => job.holder # None)
  /\ runs \in [Tokens -> Executions]
  /\ ledger \in Requests
  /\ ozon \in Marketplace
  /\ disk \in {"processing", "success"}
  /\ committing \in {"", "moved", "found"} /\ overtaken \in BOOLEAN
  /\ faults \in 0 .. MaxFaults

\* OZON accepts the import of a publication at most once, whatever answers are
\* lost, however slow OZON is and however often the lease changes hands: a retry
\* that the readings allowed too early is stopped by the ledger.
ImportedOnce == ozon.sent <= 1

\* A publication that succeeded stays archived: no compensation of a refused, lost
\* or late update moves its directory back, whatever other runs archive meanwhile.
\* The exception is a success on a directory that another run had renamed and had
\* already decided to move back: the rollback does not look at the row again.
SuccessIsArchived == job.state = "SUCCEEDED" /\ ~overtaken => disk = "success"

\* An import that is known to OZON, by its task or by its offers, comes to an end:
\* also when a run died between the rename and the update, when a COMMIT was lost
\* or when an archive was rolled back.
ConfirmedImportSettles ==
  (job.task \/ job.phase = "CONFIRMED_CREATED") ~> job.state \in Settled

\* What the workflow says when it allows a retry ("the original intent will be
\* retried automatically"): the retry gets somewhere.
AllowedRetrySettles ==
  job.phase = "RETRY_ALLOWED" ~> (job.state \in Settled \/ ozon.sent > 0)
=============================================================================
