---------------------------- MODULE DownloadJobs ----------------------------
(***************************************************************************)
(* The download queue: rows of download_jobs in PostgreSQL                 *)
(* (repositories/purchases.ts) and the workers that take them, one at a    *)
(* time over all workers, call the n8n webhook of the job and record its   *)
(* answer (services/downloads/index.ts).                                   *)
(*                                                                         *)
(* A worker holds a job by a lease: a random token in the row, an expiry   *)
(* that a heartbeat moves on.  A worker that crashed, or was stopped for   *)
(* longer than its lease, loses the job: whether another one may repeat    *)
(* the request depends on the recovery mode of the workflow.  The former   *)
(* holder may still be there and answer late.  A failed job is told of in  *)
(* a notification, from which it can be retried as a new job; jobs that    *)
(* were queued as a batch are reported together when the last one is over. *)
(*                                                                         *)
(* A statement or transaction of the database is one step: the row in hand *)
(* is locked by it (FOR UPDATE).  Either side of the connection may fail,  *)
(* so a transaction can take place without its caller knowing.  What the   *)
(* webhook answers is free, as far as a job is concerned; module           *)
(* DownloadIdempotency is about the answers.                               *)
(***************************************************************************)
EXTENDS Integers, FiniteSets

CONSTANTS
  MaxJobs,   \* bound: rows of download_jobs
  Sku,
  Replayable,\* SKUs whose workflow has recoveryMode IDEMPOTENT_REPLAY; the others: MANUAL
  Batch,     \* batches that may be requested
  SkusOf,    \* [Batch -> the SKUs asked for]
  Worker,
  Nobody,
  Lease,     \* ticks a lease lasts
  Deadline,  \* ticks after the first start: timeoutMs + recoveryGraceMs
  MaxWaits,  \* DOWNLOAD_RESOURCE_RETRY_MAX_ATTEMPTS
  Budget,    \* DOWNLOAD_RESOURCE_RETRY_BUDGET_MS, in ticks
  MaxDelay,  \* longest of DOWNLOAD_RESOURCE_RETRY_DELAYS_MS, in ticks
  MaxFaults  \* bound: leases of live workers that run out, crashes and stops of
             \* workers, failed or unacknowledged transactions

Job   == 1..MaxJobs       \* in the order of queue_sequence
Token == 1..Cardinality(Worker) + 1
Expiry == "expiry"

ASSUME DownloadAssumption ==
  /\ Replayable \subseteq Sku /\ SkusOf \in [Batch -> (SUBSET Sku) \ {{}}]
  /\ IsFiniteSet(Sku) /\ IsFiniteSet(Worker) /\ Nobody \notin Worker \cup Batch /\ Expiry \notin Worker \cup {Nobody}
  /\ {MaxJobs, Budget, MaxDelay, MaxFaults} \subseteq Nat
  /\ {Lease, Deadline, MaxWaits} \subseteq Nat \ {0}

VARIABLES
  status,   \* [Job -> status, NONE: not inserted]
  sku,      \* [Job -> its SKU]
  inBatch,  \* [Job -> its batch]
  thread,   \* [Job -> notification_thread_id: the job the notification was made for, or 0]
  token,    \* [Job -> lease_token, 0: NULL]
  left,     \* [Job -> ticks until lease_expires_at]
  age,      \* [Job -> ticks since started_at, up to Deadline]
  waits,    \* [Job -> resource_retry_count]
  waited,   \* [Job -> ticks since resource_wait_started_at, up to Budget]
  due,      \* [Job -> ticks until next_attempt_at]
  note,     \* [Job -> notification about it]
  batch,    \* [Batch -> row of download_batches]
  mem,      \* [Worker -> memory of its processNext]
  holder,   \* [Job -> worker that claimed it last]
  by,       \* [Job -> who recorded its outcome]
  faults

lease  == <<token, left>>
times  == <<age, waits, waited, due>>
told   == <<note, batch>>
ids    == <<sku, inBatch>>
rows   == <<status, ids, thread, lease, times, holder, by>>
vars   == <<rows, told, mem, faults>>

Active == {"QUEUED", "WAITING_RESOURCE", "RUNNING"}
Over   == {"SUCCEEDED", "FAILED"}
Answer == {"success", "failure", "busy"}

(* Someone a notification has been closed by: a retry that succeeded, or a user. *)
Closers == {"nobody", "retry", "user"}
NoNote  == [made |-> FALSE, history |-> {}, closed |-> "nobody"]
NoBatch == [state |-> "none", skipped |-> 0, succeeded |-> 0, failed |-> 0]
Down    == [at |-> "down", job |-> 0, token |-> 0, lost |-> FALSE, answer |-> "failure"]
Idle    == [Down EXCEPT !.at = "idle"]

Statuses == Active \cup Over \cup {"NONE"}
Notes    == [made: BOOLEAN, closed: Closers, history: SUBSET (Job \X {"QUEUED", "SUCCEEDED", "FAILED"})]
Batches  == [state: {"none", "open", "finished"}, skipped: Nat, succeeded: Nat, failed: Nat]
Places   == {"down", "stopped", "idle", "invoke", "report", "fail"}
Memories == [at: Places, job: Job \cup {0}, token: Token \cup {0}, lost: BOOLEAN, answer: Answer]

TypeOK ==
  /\ status \in [Job -> Statuses]
  /\ sku \in [Job -> Sku \cup {Nobody}] /\ inBatch \in [Job -> Batch \cup {Nobody}]
  /\ thread \in [Job -> Job \cup {0}]
  /\ token \in [Job -> Token \cup {0}] /\ left \in [Job -> 0..Lease]
  /\ age \in [Job -> 0..Deadline] /\ waits \in [Job -> 0..MaxWaits]
  /\ waited \in [Job -> 0..Budget] /\ due \in [Job -> 0..MaxDelay]
  /\ note \in [Job -> Notes] /\ batch \in [Batch -> Batches] /\ mem \in [Worker -> Memories]
  /\ holder \in [Job -> Worker \cup {Nobody}] /\ by \in [Job -> Worker \cup {Nobody, Expiry}]
  /\ faults \in 0..MaxFaults
  \* the indices download_jobs_one_global_running and download_jobs_one_active_per_sku,
  \* the constraint download_jobs_running_lease_complete
  /\ \A i, j \in Job : status[i] = "RUNNING" /\ status[j] = "RUNNING" => i = j
  /\ \A i, j \in Job : {status[i], status[j]} \subseteq Active /\ sku[i] = sku[j] => i = j
  /\ \A j \in Job : (status[j] = "RUNNING") = (token[j] # 0)

Init ==
  /\ status = [j \in Job |-> "NONE"]
  /\ sku = [j \in Job |-> Nobody] /\ inBatch = [j \in Job |-> Nobody]
  /\ thread = [j \in Job |-> 0]
  /\ token = [j \in Job |-> 0] /\ left = [j \in Job |-> 0]
  /\ age = [j \in Job |-> 0] /\ waits = [j \in Job |-> 0]
  /\ waited = [j \in Job |-> 0] /\ due = [j \in Job |-> 0]
  /\ note = [j \in Job |-> NoNote] /\ batch = [b \in Batch |-> NoBatch]
  /\ mem = [w \in Worker |-> Idle]
  /\ holder = [j \in Job |-> Nobody] /\ by = [j \in Job |-> Nobody]
  /\ faults = 0

-----------------------------------------------------------------------------
(* Jobs are queued: one, a batch, or again from the notification.          *)

Used        == {j \in Job : status[j] # "NONE"}
Free        == Job \ Used
(* Mutant: a job that waits for the browser does not keep its SKU. *)
IsActiveUnlessWaiting(s) == \E j \in Used : sku[j] = s /\ status[j] \in {"QUEUED", "RUNNING"}

IsActive(s) == \E j \in Used : sku[j] = s /\ status[j] \in Active

(* insertDownloadJob, for each SKU of S in some order; next: the rows. *)
Insert(next, b, t) ==
  /\ status' = [j \in Job |-> IF j \in DOMAIN next THEN "QUEUED" ELSE status[j]]
  /\ sku' = [j \in Job |-> IF j \in DOMAIN next THEN next[j] ELSE sku[j]]
  /\ inBatch' = [j \in Job |-> IF j \in DOMAIN next THEN b ELSE inBatch[j]]
  /\ thread' = [j \in Job |-> IF j \in DOMAIN next THEN t ELSE thread[j]]
  /\ UNCHANGED <<lease, times, holder, by, mem, faults>>

(* The lists of the n next rows and who could be in them. *)
Rows(S) == LET u == Cardinality(Used) IN {f \in [u + 1..u + Cardinality(S) -> S] : \A s \in S : \E j \in DOMAIN f : f[j] = s}

Enqueue(s) ==
  /\ ~IsActive(s) /\ Free # {}
  /\ \E next \in Rows({s}) : Insert(next, Nobody, 0)
  /\ UNCHANGED told

EnqueueBatch(b) ==
  LET queued == {s \in SkusOf[b] : ~IsActive(s)} IN
  /\ batch[b].state = "none"
  /\ Cardinality(queued) <= Cardinality(Free)
  /\ \E next \in Rows(queued) : Insert(next, b, 0)
  /\ batch' = [batch EXCEPT ![b] = [state |-> IF queued = {} THEN "finished" ELSE "open",
                                    skipped |-> Cardinality(SkusOf[b] \ queued), succeeded |-> 0, failed |-> 0]]
  /\ UNCHANGED note

(* retryNotification *)
RetryFrom(t) ==
  /\ note[t].made /\ ~IsActive(sku[t]) /\ Free # {}
  /\ \E next \in Rows({sku[t]}) :
       /\ Insert(next, Nobody, t)
       /\ note' = [note EXCEPT ![t].history = @ \cup {<<j, "QUEUED">> : j \in DOMAIN next},
                               ![t].closed = "nobody"]
  /\ UNCHANGED batch

(* updateNotification *)
Resolve(t) ==
  /\ note[t].made
  /\ \/ note[t].closed = "nobody" /\ note' = [note EXCEPT ![t].closed = "user"]
     \/ note[t].closed # "nobody" /\ note' = [note EXCEPT ![t].closed = "nobody"]
  /\ UNCHANGED <<rows, batch, mem, faults>>

-----------------------------------------------------------------------------
(* The outcome of a job: its row, its notification, its batch.             *)

Thread(j) == IF thread[j] = 0 THEN j ELSE thread[j]

(* Mutant: a job that waits for the browser does not count. *)
FinalizedEarly(j) ==
  LET b == inBatch[j]
      of(s) == {i \in Job : inBatch[i] = b /\ status'[i] = s} IN
  IF b = Nobody THEN batch
  ELSE IF batch[b].state = "finished" \/ of("QUEUED") \cup of("RUNNING") # {} THEN batch
  ELSE [batch EXCEPT ![b].state = "finished", ![b].succeeded = Cardinality(of("SUCCEEDED")),
                     ![b].failed = Cardinality(of("FAILED"))]

(* finalizeBatchIfComplete, with the new statuses. *)
Finalized(j) ==
  LET b == inBatch[j]
      of(s) == {i \in Job : inBatch[i] = b /\ status'[i] = s} IN
  IF b = Nobody THEN batch
  ELSE IF batch[b].state = "finished" \/ \E s \in Active : of(s) # {} THEN batch
  ELSE [batch EXCEPT ![b].state = "finished", ![b].succeeded = Cardinality(of("SUCCEEDED")),
                     ![b].failed = Cardinality(of("FAILED"))]

(* upsertFailureNotification: the thread is opened, or opened again. *)
TellFailure(j) ==
  /\ note' = [note EXCEPT ![Thread(j)] =
                [made |-> TRUE, history |-> @.history \cup {<<j, "FAILED">>}, closed |-> "nobody"]]
  /\ thread' = [thread EXCEPT ![j] = Thread(j)]

(* resolveRetryNotification *)
TellSuccess(j) ==
  /\ note' = IF thread[j] = 0 THEN note
             ELSE [note EXCEPT ![thread[j]].history = @ \cup {<<j, "SUCCEEDED">>},
                               ![thread[j]].closed = "retry"]
  /\ UNCHANGED thread

Recorded(j, outcome, who) ==
  /\ IF outcome = "SUCCEEDED" THEN TellSuccess(j) ELSE TellFailure(j)
  /\ batch' = Finalized(j)
  /\ by' = [by EXCEPT ![j] = who]

-----------------------------------------------------------------------------
(* Faults: of the database here.                                           *)

Working(w)  == mem[w].at \in {"invoke", "report", "fail"}
Faulty       == faults < MaxFaults /\ faults' = faults + 1
DbFails      == Faulty
Acknowledged == UNCHANGED faults

(* Mutant: the token is not compared. *)
HoldsAny(w) == Working(w) /\ status[mem[w].job] = "RUNNING"

(* The row is RUNNING under the token of w. *)
Holds(w) == Working(w) /\ status[mem[w].job] = "RUNNING" /\ token[mem[w].job] = mem[w].token

-----------------------------------------------------------------------------
(* claimNextJob                                                            *)

Running == {j \in Job : status[j] = "RUNNING"}

(* Mutant: only what may be asked for again is looked at. *)
LapsedReplayable == {j \in Running : left[j] = 0 /\ sku[j] \in Replayable}

Lapsed  == {j \in Running : left[j] = 0}

(* The oldest comes first, but a row another transaction has locked is skipped: *)
(* nothing here relies on the order.                                            *)
Ready   == {j \in Job : status[j] = "QUEUED" \/ (status[j] = "WAITING_RESOURCE" /\ due[j] = 0)}

(* randomUUID: a token nobody remembers. *)
FreshToken == CHOOSE t \in Token : \A w \in Worker : mem[w].token # t

(* The columns of a claimed row, while those of gone (if any) are cleared. *)
Take(w, j, gone) ==
  /\ status' = [i \in Job |-> IF i = j THEN "RUNNING" ELSE IF i \in gone THEN "FAILED" ELSE status[i]]
  /\ token' = [i \in Job |-> IF i = j THEN FreshToken ELSE IF i \in gone THEN 0 ELSE token[i]]
  /\ left' = [i \in Job |-> IF i = j THEN Lease ELSE IF i \in gone THEN 0 ELSE left[i]]
  /\ holder' = [holder EXCEPT ![j] = w]
  /\ \/ /\ Acknowledged
        /\ mem' = [mem EXCEPT ![w] = [Down EXCEPT !.at = "invoke", !.job = j, !.token = FreshToken]]
     \/ DbFails /\ UNCHANGED mem

(* A job whose holder is gone is asked for again, under the same id. *)
Recover(w) ==
  /\ mem[w].at = "idle"
  /\ \E j \in Lapsed : sku[j] \in Replayable /\ Take(w, j, {})
  /\ UNCHANGED <<ids, thread, times, by, told>>

Claim(w) ==
  /\ mem[w].at = "idle" /\ Running = {}
  /\ \E j \in Ready : Take(w, j, {})
  /\ UNCHANGED <<ids, thread, times, by, told>>

(* Without idempotent replay nobody knows what the holder has done. *)
GiveUp(w) ==
  /\ mem[w].at = "idle"
  /\ \E j \in Lapsed :
       /\ sku[j] \notin Replayable
       /\ IF Ready = {}
          THEN /\ status' = [status EXCEPT ![j] = "FAILED"]
               /\ token' = [token EXCEPT ![j] = 0] /\ left' = [left EXCEPT ![j] = 0]
               /\ UNCHANGED <<holder, mem, faults>>
          ELSE \E i \in Ready : Take(w, i, {j})
       /\ Recorded(j, "FAILED", Expiry)
  /\ UNCHANGED <<ids, times>>

-----------------------------------------------------------------------------
(* The heartbeat, and time.                                                *)

(* renewJobLease; a failing one is only logged. *)
Renew(w) ==
  /\ Working(w) /\ ~mem[w].lost
  /\ IF Holds(w) THEN left' = [left EXCEPT ![mem[w].job] = Lease] /\ UNCHANGED mem
                 ELSE mem' = [mem EXCEPT ![w].lost = TRUE] /\ UNCHANGED left
  /\ UNCHANGED <<status, ids, thread, token, times, holder, by, told, faults>>

(* The beat of a live worker is much shorter than its lease. *)
Beaten == {j \in Running : left[j] = 1 /\ \E w \in Worker : Holds(w) /\ mem[w].job = j}

Capped(n, cap) == IF n < cap THEN n + 1 ELSE cap
Less(n)        == IF n > 0 THEN n - 1 ELSE 0
Started        == {j \in Job : status[j] \in {"RUNNING", "WAITING_RESOURCE"}}

Tick ==
  /\ IF Beaten = {} THEN UNCHANGED faults ELSE Faulty
  /\ left' = [j \in Job |-> Less(left[j])]
  /\ due' = [j \in Job |-> Less(due[j])]
  /\ age' = [j \in Job |-> IF j \in Started THEN Capped(age[j], Deadline) ELSE age[j]]
  /\ waited' = [j \in Job |-> IF j \in Started /\ waits[j] > 0 THEN Capped(waited[j], Budget) ELSE waited[j]]
  /\ UNCHANGED <<status, ids, thread, token, waits, holder, by, told, mem>>

-----------------------------------------------------------------------------
(* processNext, invokeUntilTerminal                                        *)

Goto(w, place) == mem' = [mem EXCEPT ![w].at = place]
ToFail(w)      == mem' = [mem EXCEPT ![w].at = "fail", ![w].answer = "failure"]
Done(w)        == mem' = [mem EXCEPT ![w] = Idle]
ToReport(w, a) == mem' = [mem EXCEPT ![w].at = "report", ![w].answer = a]

(* The id and the destination were refused, or there is a terminal answer and *)
(* its output is checked; ignored if the lease is known to be lost.           *)
Answered(w) ==
  /\ mem[w].at = "invoke"
  /\ IF mem[w].lost THEN Done(w) ELSE \E a \in Answer : ToReport(w, a)
  /\ UNCHANGED <<rows, told, faults>>

(* No answer, or 202: the job is asked for again until its deadline. *)
Unanswered(w) ==
  LET j == mem[w].job IN
  /\ mem[w].at = "invoke"
  /\ IF sku[j] \notin Replayable
     THEN ToFail(w) /\ UNCHANGED faults
     ELSE \/ /\ UNCHANGED faults
             /\ IF mem[w].lost \/ ~Holds(w) THEN Done(w)
                ELSE age[j] >= Deadline /\ ToReport(w, "failure")
          \/ DbFails /\ ToFail(w)
  /\ UNCHANGED <<rows, told>>

(* finishJob: only for the holder of the lease. *)
Finish(w, outcome) ==
  LET j == mem[w].job IN
  IF Holds(w)
  THEN /\ status' = [status EXCEPT ![j] = outcome]
       /\ token' = [token EXCEPT ![j] = 0] /\ left' = [left EXCEPT ![j] = 0]
       /\ due' = [due EXCEPT ![j] = 0]
       /\ Recorded(j, outcome, w)
       /\ UNCHANGED <<ids, age, waits, waited, holder>>
  ELSE UNCHANGED <<rows, told>>

Exhausted(j) == waits[j] + 1 >= MaxWaits \/ (waits[j] > 0 /\ waited[j] >= Budget)

(* deferResourceJob: the profile of the browser is in use. *)
Defer(w) ==
  LET j == mem[w].job IN
  IF ~Holds(w) THEN UNCHANGED <<rows, told>>
  ELSE /\ waits' = [waits EXCEPT ![j] = @ + 1]
       /\ token' = [token EXCEPT ![j] = 0] /\ left' = [left EXCEPT ![j] = 0]
       /\ IF Exhausted(j)
          THEN /\ status' = [status EXCEPT ![j] = "FAILED"]
               /\ Recorded(j, "FAILED", w)
               /\ UNCHANGED due
          ELSE /\ status' = [status EXCEPT ![j] = "WAITING_RESOURCE"]
               /\ \E d \in 0..MaxDelay : due' = [due EXCEPT ![j] = d]
               /\ UNCHANGED <<thread, told, by>>
       /\ UNCHANGED <<ids, age, waited, holder>>

Report(w) ==
  /\ mem[w].at = "report"
  /\ \/ /\ IF mem[w].answer = "busy" THEN Defer(w)
           ELSE Finish(w, IF mem[w].answer = "success" THEN "SUCCEEDED" ELSE "FAILED")
        /\ \/ Acknowledged /\ Done(w)
           \/ DbFails /\ ToFail(w)
     \/ DbFails /\ ToFail(w) /\ UNCHANGED <<rows, told>>

(* failJob; if this fails as well the row stays RUNNING until its lease is over. *)
Fail(w) ==
  /\ mem[w].at = "fail"
  /\ \/ Finish(w, "FAILED") /\ Acknowledged
     \/ DbFails /\ UNCHANGED <<rows, told>>
  /\ Done(w)

-----------------------------------------------------------------------------
(* Workers come and go.                                                    *)

(* stop ends the loop once the job in hand is reported: the worker is idle then. *)
Stop(w) ==
  /\ mem[w].at = "idle"
  /\ Goto(w, "stopped") /\ Faulty
  /\ UNCHANGED <<rows, told>>

Start(w) == mem[w].at = "stopped" /\ Done(w) /\ UNCHANGED <<rows, told, faults>>

Crash(w) ==
  /\ mem[w].at # "down"
  /\ mem' = [mem EXCEPT ![w] = Down] /\ Faulty
  /\ UNCHANGED <<rows, told>>

Restart(w) == mem[w].at = "down" /\ Done(w) /\ UNCHANGED <<rows, told, faults>>

-----------------------------------------------------------------------------
Request ==
  \/ \E s \in Sku : Enqueue(s)
  \/ \E b \in Batch : EnqueueBatch(b)
  \/ \E t \in Job : RetryFrom(t) \/ Resolve(t)

Invoke(w) == Answered(w) \/ Unanswered(w)

Work(w) == Recover(w) \/ Claim(w) \/ GiveUp(w) \/ Invoke(w) \/ Report(w) \/ Fail(w)

Next ==
  \/ Request \/ Tick
  \/ \E w \in Worker : Work(w) \/ Renew(w) \/ Stop(w) \/ Start(w) \/ Crash(w) \/ Restart(w)

(* The timer of processNext and the heartbeat fire again and again, the     *)
(* deadline faults every request, a worker that stopped is started again.   *)
Fairness ==
  /\ WF_vars(Tick)
  /\ \A w \in Worker : WF_vars(Work(w)) /\ WF_vars(Start(w)) /\ WF_vars(Restart(w))

Spec == Init /\ [][Next]_vars /\ Fairness

-----------------------------------------------------------------------------
(* What the queue promises.                                                *)

(* An outcome is recorded by the worker that claimed the job last, or by   *)
(* the expiry of a job nobody could confirm: never by a former holder      *)
(* whose answer arrives after the job has been handed on.                  *)
ResultFromHolder == \A j \in Job : status[j] \in Over => by[j] \in {holder[j], Expiry}

(* No failure is lost, however the job failed: it is in the history of its *)
(* thread, which is open unless someone closed it or a later retry did.    *)
FailuresAreTold ==
  \A j \in Job : status[j] = "FAILED" =>
    /\ thread[j] # 0
    /\ <<j, "FAILED">> \in note[thread[j]].history
    /\ \/ note[thread[j]].closed # "retry"
       \/ \E i \in Job : i > j /\ thread[i] = thread[j] /\ status[i] = "SUCCEEDED"

(* A batch is reported as soon as its last job is over, once, with the     *)
(* numbers of successes and failures that its rows will show for ever.     *)
BatchToldRight ==
  \A b \in Batch : batch[b].state # "none" =>
    LET of(S) == {j \in Job : inBatch[j] = b /\ status[j] \in S} IN
    /\ (batch[b].state = "finished") = (of(Active) = {})
    /\ batch[b].state = "finished" =>
         /\ batch[b].succeeded = Cardinality(of({"SUCCEEDED"}))
         /\ batch[b].failed = Cardinality(of({"FAILED"}))

(* Whoever ends a job, in whatever order the jobs of a batch end, the user *)
(* is told of it rightly, in its thread and in its batch.                  *)
OutcomesTold == FailuresAreTold /\ BatchToldRight

(* Whatever crashes, stalls, waits for the browser and answers that never  *)
(* arrive there are, every queued job is over in the end.                  *)
JobsSettle == \A j \in Job : []<>(status[j] \notin Active)

=============================================================================
