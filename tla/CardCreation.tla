--------------------------- MODULE CardCreation ---------------------------
(***************************************************************************)
(* How one CREATE_ONLY publication task writes its card to Wildberries.    *)
(*                                                                         *)
(*   job      the row of wb_publish_jobs with the parts of its runtime     *)
(*            JSON the card write depends on                               *)
(*   execs    the runs of the n8n workflow S001 on the task                *)
(*   ledger   the CARD_UPLOAD rows of wb_gateway_requests, by attempt      *)
(*   wb       what became of each attempt at the marketplace               *)
(*   retries  the operator's retries, rows of wb_auto_publish_retries      *)
(*   check    the retry worker's inspection in progress                    *)
(*   faults   how many faults have happened                                *)
(*                                                                         *)
(* An S001 run claims the task, does one outward thing (a read, or the     *)
(* card write behind a persisted intent) and saves what it concludes with  *)
(* a compare-and-set on the row version.  The version is modelled by what  *)
(* it decides: whether the run's copy of the row is still "current".       *)
(* A row in RETRY_WAIT is due again at once.  The recycle bin, several     *)
(* variants and the media, price and stock stages are left out: a card     *)
(* that is found takes the task through MEDIA_RECONCILING to SUCCEEDED.    *)
(***************************************************************************)
EXTENDS Integers, FiniteSets

CONSTANTS
  Execs,        \* S001 executions
  Retries,      \* requests of the operator to retry the publication
  MaxAttempt,   \* physical attempts the model has room for
  MaxFaults,    \* faults: a write that never left the server, a party that waited
                \* too long, a death, a proof grown old, a failed or denied read
  None

ASSUME CardAssumption ==
  /\ IsFiniteSet(Retries)
  /\ MaxAttempt \in Nat /\ MaxAttempt >= 2 + Cardinality(Retries)
  /\ None \notin Execs \union Retries

VARIABLES job, execs, ledger, wb, retries, check, faults

vars == <<job, execs, ledger, wb, retries, check, faults>>

Attempts == 1 .. MaxAttempt

Live == {"CARD_CREATE_GUARD", "CARD_CREATE_READY", "CARD_SUBMITTING", "CARD_WAITING",
         "CARD_ERROR_RECONCILING", "MEDIA_RECONCILING", "RETRY_WAIT"}
Stopped == {"FAILED", "NEEDS_ATTENTION", "BLOCKED_AUTH", "BLOCKED_EXISTING_CARD"}

Untold == 0         \* no failing request is on record
Elsewhere == -1     \* the failing request was not the card write
Refuse == 0         \* plans of the retry worker: the retry is unsafe,
ReadOnly == -1      \*   only look for the card, or grant attempt n > 0

Closed == {"accepted", "refused", "throttled", "unknown", "notsent"}
Active == {"CHECKING", "RUNNING"}

Idle == [pc |-> "idle", current |-> FALSE, stage |-> "", saw |-> "", attempt |-> 0]
NoCheck == [of |-> None, current |-> FALSE, plan |-> Refuse]

Init ==
  /\ job = [state |-> "CARD_CREATE_GUARD", resume |-> "", lease |-> None,
            attempt |-> 0, guard |-> FALSE, replay |-> FALSE, late |-> FALSE,
            rec |-> [active |-> FALSE, old |-> FALSE, proof |-> FALSE, rounds |-> 0, firm |-> 0],
            manual |-> [of |-> None, attempt |-> 0, ok |-> FALSE],
            failed |-> Untold, last |-> Untold, expired |-> FALSE]
  /\ execs = [e \in Execs |-> Idle]
  /\ ledger = [a \in Attempts |-> [res |-> "none", old |-> FALSE]]
  /\ wb = [a \in Attempts |-> "none"]
  /\ retries = [r \in Retries |-> [st |-> "none", attempt |-> 0, consumed |-> FALSE,
                                   ref |-> Untold, age |-> 0]]
  /\ check = NoCheck
  /\ faults = 0

Fault == faults < MaxFaults /\ faults' = faults + 1

\* Every write of the row moves its version: copies taken before are out of date.
Outdated == [e \in Execs |-> [execs[e] EXCEPT !.current = FALSE]]
Overtaken == [check EXCEPT !.current = FALSE]

---------------------------------------------------------------------------
(* S001: Build Step. *)

Found == \E a \in Attempts : wb[a] = "created"

\* RETRY_WAIT resumes the state it was entered for.
At == IF job.state = "RETRY_WAIT" THEN job.resume ELSE job.state

Stage ==
  IF At = "CARD_ERROR_RECONCILING" THEN "errors"
  ELSE IF At = "CARD_CREATE_GUARD" \/ (job.rec.active /\ At \in {"CARD_WAITING", "CARD_SUBMITTING"})
       THEN "check" ELSE "list"

View(stage) ==
  IF stage = "errors"
  THEN IF job.attempt > 0 /\ wb[job.attempt] = "rejected" THEN "rejected" ELSE "none"
  ELSE IF Found THEN "active" ELSE "none"

Claimable == job.state \in Live /\ job.lease = None

\* Claim the task and read from the marketplace what its state asks for.
Read(e, saw) ==
  /\ Claimable /\ At # "CARD_CREATE_READY"
  /\ execs[e].pc = "idle"
  /\ job' = [job EXCEPT !.lease = e]
  /\ execs' = [Outdated EXCEPT ![e] = [Idle EXCEPT !.pc = "read", !.current = TRUE,
                                                   !.stage = Stage, !.saw = saw]]
  /\ check' = Overtaken
  /\ UNCHANGED <<ledger, wb, retries>>

Reading(e) ==
  \/ Read(e, View(Stage)) /\ UNCHANGED faults
  \/ Read(e, "down") /\ Fault
  \/ Read(e, "denied") /\ Fault

\* Two empty rounds of proof authorise attempt 2 after an unknown attempt 1.
Resending == job.rec.active /\ job.attempt = 1 /\ job.rec.rounds = 2
Replaying == job.replay /\ job.attempt = 2 /\ job.rec.rounds = 2
NextAttempt ==
  IF job.manual.ok THEN job.manual.attempt
  ELSE IF Resending THEN 2
  ELSE IF job.attempt = 0 THEN 1 ELSE job.attempt

Unguarded == ~(job.manual.ok \/ Resending \/ Replaying \/ job.guard)
Exceeding == NextAttempt > 2 /\ ~job.manual.ok
Repeating == ~job.manual.ok /\ NextAttempt = 2 /\ job.attempt = 2 /\ ~job.replay

\* CARD_CREATE_READY: check the guard again, give up, read back, or persist the
\* intent to write; only a persisted intent goes on to the gateway.
Ready(e) ==
  /\ Claimable /\ At = "CARD_CREATE_READY"
  /\ execs[e].pc = "idle"
  /\ LET goto(s) == [job EXCEPT !.state = s, !.resume = "", !.expired = FALSE]
     IN  \/ /\ Unguarded
            /\ job' = goto("CARD_CREATE_GUARD") /\ execs' = Outdated
         \/ /\ ~Unguarded /\ Exceeding
            /\ job' = goto("NEEDS_ATTENTION") /\ execs' = Outdated
         \/ /\ ~Unguarded /\ Repeating
            /\ job' = goto("CARD_SUBMITTING") /\ execs' = Outdated
         \/ /\ ~(Unguarded \/ Exceeding \/ Repeating)
            /\ job' = [goto("CARD_SUBMITTING") EXCEPT !.attempt = NextAttempt, !.lease = e]
            /\ execs' = [Outdated EXCEPT ![e] = [Idle EXCEPT !.pc = "send", !.current = TRUE,
                                                             !.attempt = NextAttempt]]
  /\ check' = Overtaken
  /\ UNCHANGED <<ledger, wb, retries, faults>>

---------------------------------------------------------------------------
(* The gateway: the ledger row is written before the request leaves. *)

Grant == retries[job.manual.of]

Manual(a) == job.manual.ok /\ job.manual.attempt = a

ManualGrant(a) ==
  /\ Grant.st = "RUNNING" /\ Grant.attempt = a
  /\ Grant.consumed \/ Grant.age < 2
  /\ a > 1 /\ ledger[a - 1].res \in Closed \ {"unknown"}

\* Mutant: the rounds of S001 count without the gateway's own 30 minutes.
AutomaticGrantUnaged(a) ==
  a = 1 \/ (a = 2 /\ ledger[1].res = "unknown" /\ job.rec.active /\ job.rec.rounds = 2)

AutomaticGrant(a) ==
  \/ a = 1
  \/ /\ a = 2
     /\ ledger[1].res = "unknown" /\ ledger[1].old
     /\ job.rec.active /\ job.rec.rounds = 2 /\ job.rec.firm = 2

\* assertCardUploadAttemptAuthorization
Authorized(a) ==
  /\ job.state = "CARD_SUBMITTING" /\ job.attempt = a
  /\ IF Manual(a) THEN ManualGrant(a) ELSE AutomaticGrant(a)

ProofExpired(a) ==
  /\ job.state = "CARD_SUBMITTING" /\ job.attempt = a
  /\ Manual(a) /\ Grant.st = "RUNNING" /\ Grant.attempt = a
  /\ ~Grant.consumed /\ Grant.age = 2

\* A row that exists is answered from the ledger, unless it never left the server.
Known(a) == ledger[a].res \notin {"none", "notsent"}
FromLedger(a) == IF ledger[a].res \in Closed THEN ledger[a].res ELSE "unknown"

Begin(e) ==
  LET a == execs[e].attempt
      told(answer) == [execs EXCEPT ![e].pc = "reply", ![e].saw = answer]
  IN
  /\ execs[e].pc = "send"
  /\ \/ /\ Known(a)
        /\ execs' = told(FromLedger(a))
        /\ UNCHANGED <<ledger, retries>>
     \/ /\ ~Known(a) /\ ~Authorized(a)
        /\ execs' = told(IF ProofExpired(a) THEN "expired" ELSE "forbidden")
        /\ UNCHANGED <<ledger, retries>>
     \/ /\ ~Known(a) /\ Authorized(a)
        /\ execs' = [execs EXCEPT ![e].pc = "wait"]
        /\ ledger' = [ledger EXCEPT ![a] = [res |-> "open", old |-> FALSE]]
        /\ retries' = IF Manual(a) THEN [retries EXCEPT ![job.manual.of].consumed = TRUE] ELSE retries
  /\ UNCHANGED <<job, wb, check, faults>>

\* The same attempt must never reach the marketplace twice.
Delivered(a) == [wb EXCEPT ![a] = IF @ = "none" THEN "pending" ELSE "double"]

Waiting(a) == {e \in Execs : execs[e].pc = "wait" /\ execs[e].attempt = a}
Reply(a, answer) ==
  [e \in Execs |-> IF e \in Waiting(a) THEN [execs[e] EXCEPT !.pc = "reply", !.saw = answer]
                   ELSE execs[e]]

\* The request is sent, its outcome classified and the row completed.
Complete(a, res) ==
  /\ ledger[a].res = "open"
  /\ ledger' = [ledger EXCEPT ![a].res = res]
  /\ execs' = Reply(a, res)
  /\ \/ res \in {"accepted", "unknown"} /\ wb' = Delivered(a)
     \/ res # "accepted" /\ UNCHANGED wb
  /\ IF res = "notsent" THEN Fault ELSE UNCHANGED faults
  /\ UNCHANGED <<job, retries, check>>

\* n8n gives up waiting for the gateway, which carries on.
HangUp(e) ==
  /\ execs[e].pc = "wait"
  /\ Fault
  /\ execs' = [execs EXCEPT ![e].pc = "reply", ![e].saw = "unknown"]
  /\ UNCHANGED <<job, ledger, wb, retries, check>>

\* The server dies: a request between its ledger row and its completion stays
\* open for ever, and the retry worker starts over.
Crash ==
  /\ Fault
  /\ LET open == {a \in Attempts : ledger[a].res = "open"} IN
     /\ open # {} \/ check.of # None
     /\ ledger' = [a \in Attempts |-> IF a \in open THEN [ledger[a] EXCEPT !.res = "dead"]
                                      ELSE ledger[a]]
     /\ wb' \in {wb} \union {Delivered(a) : a \in open}
     /\ execs' = [e \in Execs |-> IF execs[e].pc = "wait"
                                  THEN [execs[e] EXCEPT !.pc = "reply", !.saw = "unknown"]
                                  ELSE execs[e]]
  /\ check' = NoCheck
  /\ UNCHANGED <<job, retries>>

---------------------------------------------------------------------------
(* S001: Handle WB Response, by what was read or answered. *)

\* Mutant: the state to resume is not cleared.
GotoKeepingResume(j, s) == [j EXCEPT !.state = s, !.expired = FALSE]

Goto(j, s) == [j EXCEPT !.state = s, !.resume = "", !.expired = FALSE]
Later(j, s) == [j EXCEPT !.state = "RETRY_WAIT", !.resume = s, !.expired = FALSE]
Failing(j, at) == [Goto(j, "FAILED") EXCEPT !.failed = at, !.manual.ok = FALSE]

AfterCheck(j, saw) ==
  IF j.rec.active
  THEN IF saw = "active"
       THEN [Goto(j, "CARD_WAITING") EXCEPT !.rec.active = FALSE]
       ELSE [Goto(j, "CARD_ERROR_RECONCILING") EXCEPT !.rec.proof = TRUE]
  ELSE IF saw = "active"
       THEN Goto(j, "BLOCKED_EXISTING_CARD")
       ELSE [Goto(j, "CARD_CREATE_READY") EXCEPT !.guard = TRUE]

AfterList(j, saw) ==
  IF saw = "active" THEN Goto(j, "SUCCEEDED") ELSE Goto(j, "CARD_ERROR_RECONCILING")

\* A round of proof; the gateway counts it only once its own row is old enough.
Round(j) ==
  [Goto(j, "CARD_SUBMITTING") EXCEPT !.rec.proof = FALSE, !.rec.rounds = @ + 1,
     !.rec.firm = IF ledger[1].old THEN @ + 1 ELSE @]

AfterProof(j) ==
  LET k == [j EXCEPT !.rec.proof = FALSE]
  IN  IF j.attempt >= 2
      THEN Goto(k, IF j.late THEN "NEEDS_ATTENTION" ELSE "CARD_SUBMITTING")
      ELSE IF ~j.rec.old THEN Goto(k, "CARD_SUBMITTING")
      ELSE IF j.rec.rounds = 0 THEN Round(j)
      ELSE IF j.rec.rounds = 1 THEN [Round(j) EXCEPT !.state = "CARD_CREATE_READY"]
      ELSE Goto(k, "NEEDS_ATTENTION")

\* Mutant: the 24 hours of a stage do not count while waiting for the card.
AfterErrorsForEver(j, saw) ==
  IF saw = "rejected" THEN Failing(j, Elsewhere)
  ELSE IF j.rec.active /\ j.rec.proof THEN AfterProof(j)
  ELSE Goto(j, IF j.rec.active THEN "CARD_SUBMITTING" ELSE "CARD_WAITING")

AfterErrors(j, saw) ==
  IF saw = "rejected" THEN Failing(j, Elsewhere)
  ELSE IF j.rec.active
       THEN IF j.rec.proof THEN AfterProof(j) ELSE Goto(j, "CARD_SUBMITTING")
       ELSE Goto(j, IF j.late THEN "NEEDS_ATTENTION" ELSE "CARD_WAITING")

\* An unknown write opens the recovery; one that was never sent is replayed.
AfterWrite(j, a, saw) ==
  LET k == [j EXCEPT !.last = a, !.replay = FALSE]
  IN  IF saw = "accepted" THEN Goto(j, "CARD_WAITING")
      ELSE IF saw = "unknown" THEN [Later(k, "CARD_SUBMITTING") EXCEPT !.rec.active = TRUE]
      ELSE IF saw = "notsent" THEN [Later(k, "CARD_CREATE_READY") EXCEPT !.replay = TRUE]
      ELSE IF saw = "throttled" THEN Later(k, "CARD_SUBMITTING")
      ELSE [Failing([j EXCEPT !.last = a], a) EXCEPT !.expired = (saw = "expired")]

After(j, x) ==
  IF x.pc = "reply" THEN AfterWrite(j, x.attempt, x.saw)
  ELSE IF x.saw = "down" THEN [Later(j, At) EXCEPT !.replay = FALSE, !.last = Elsewhere]
  ELSE IF x.saw = "denied" THEN [Goto(j, "BLOCKED_AUTH") EXCEPT !.last = Elsewhere]
  ELSE IF x.stage = "check" THEN AfterCheck(j, x.saw)
  ELSE IF x.stage = "errors" THEN AfterErrors(j, x.saw)
  ELSE AfterList(j, x.saw)

\* Save the conclusion and drop the lease; a stale copy is discarded.
Persist(e) ==
  /\ execs[e].pc \in {"read", "reply"}
  /\ IF execs[e].current
     THEN /\ job' = [After(job, execs[e]) EXCEPT !.lease = None]
          /\ execs' = [Outdated EXCEPT ![e] = Idle]
          /\ check' = Overtaken
     ELSE /\ execs' = [execs EXCEPT ![e] = Idle]
          /\ UNCHANGED <<job, check>>
  /\ UNCHANGED <<ledger, wb, retries, faults>>

\* An execution dies; its lease lapses on its own.
Die(e) ==
  /\ execs[e].pc # "idle"
  /\ Fault
  /\ execs' = [execs EXCEPT ![e] = Idle]
  /\ UNCHANGED <<job, ledger, wb, retries, check>>

Lapse ==
  /\ job.lease # None
  /\ IF execs[job.lease].current THEN Fault ELSE UNCHANGED faults
  /\ job' = [job EXCEPT !.lease = None]
  /\ UNCHANGED <<execs, ledger, wb, retries, check>>

---------------------------------------------------------------------------
(* The operator's retries. *)

Ask(r) ==
  /\ retries[r].st = "none"
  /\ \A q \in Retries : retries[q].st \notin Active
  /\ job.state \in Stopped /\ job.lease = None
  /\ retries' = [retries EXCEPT ![r].st = "CHECKING"]
  /\ UNCHANGED <<job, execs, ledger, wb, check, faults>>

\* The failing request: the checkpoint of the last failure if there is one,
\* otherwise the last answer above 399 in the audit trail.
FailedAt == IF job.failed # Untold THEN job.failed ELSE job.last

Rows == {a \in Attempts : ledger[a].res # "none"}
Highest == CHOOSE a \in Rows : \A b \in Rows : b <= a

\* buildWbRetryPlan, for a task whose card is not at the marketplace.
Plan(r) ==
  LET at == FailedAt
      unused == IF retries[r].consumed THEN 0 ELSE retries[r].attempt
  IN  IF at \notin Rows \/ ledger[at].res = "accepted" THEN Refuse
      ELSE IF ledger[at].res \in {"open", "dead", "unknown"} THEN ReadOnly
      ELSE IF Highest = job.attempt \/ (unused = Highest + 1 /\ job.attempt = unused)
           THEN Highest + 1 ELSE Refuse

\* Take the snapshot and the receipts; the marketplace is read next.
Inspect(r) ==
  /\ check.of = None
  /\ retries[r].st = "CHECKING"
  /\ job.state \in Stopped /\ job.lease = None
  /\ check' = [of |-> r, current |-> TRUE, plan |-> Plan(r)]
  /\ UNCHANGED <<job, execs, ledger, wb, retries, faults>>

Settle(r, status) ==
  /\ retries' = [retries EXCEPT ![r].st = status]
  /\ UNCHANGED <<job, execs>>

Defer == UNCHANGED <<job, execs, retries>>

\* The runtime row is given back to S001, under a grant if the plan has one.
\* The checkpoint of the failure stays in the row.
Resume(r, stage, attempt) ==
  IF ~check.current \/ job.lease # None THEN Defer
  ELSE /\ job' = [job EXCEPT !.state = stage, !.resume = "", !.late = FALSE, !.expired = FALSE,
                             !.manual = [of |-> r, attempt |-> attempt, ok |-> attempt > 0]]
       /\ execs' = Outdated
       /\ retries' = [retries EXCEPT ![r].st = "RUNNING", ![r].attempt = attempt,
                                     ![r].ref = FailedAt, ![r].age = 0]

Decide(r) ==
  /\ check.of = r
  /\ check' = NoCheck
  /\ \/ Defer /\ Fault
     \/ Settle(r, "BLOCKED") /\ Fault
     \/ /\ UNCHANGED faults
        /\ LET rejected == \E a \in Attempts : wb[a] = "rejected" IN
           \/ rejected /\ Settle(r, "BLOCKED")
           \/ ~rejected /\ Found /\ Resume(r, "MEDIA_RECONCILING", 0)
           \/ /\ ~rejected /\ ~Found
              /\ \/ check.plan = Refuse /\ Settle(r, "BLOCKED")
                 \/ check.plan = ReadOnly /\ Resume(r, "CARD_SUBMITTING", 0)
                 \/ check.plan > 0 /\ Resume(r, "CARD_CREATE_READY", check.plan)
                 \* the marketplace named a field: no grant
                 \/ /\ check.plan > 0 /\ ledger[FailedAt].res = "refused"
                    /\ Settle(r, "BLOCKED")
  /\ UNCHANGED <<ledger, wb>>

\* A grant nobody used is taken back before its proof is too old.
Refreshing(r) ==
  /\ retries[r].attempt > 0 /\ ~retries[r].consumed
  /\ job.expired \/ (job.state \in {"CARD_CREATE_READY", "CARD_SUBMITTING"} /\ retries[r].age > 0)

RefreshUnconsumed(r) ==
  /\ job.lease = None
  /\ job' = [job EXCEPT !.state = "FAILED", !.failed = retries[r].ref]
  /\ execs' = Outdated
  /\ retries' = [retries EXCEPT ![r].st = "CHECKING"]

Watch(r) ==
  /\ \/ retries[r].st = "RUNNING" /\ Refreshing(r) /\ RefreshUnconsumed(r)
     \/ /\ retries[r].st = "RUNNING" /\ ~Refreshing(r)
        /\ \/ job.state = "SUCCEEDED" /\ Settle(r, "SUCCEEDED")
           \/ job.state = "FAILED" /\ Settle(r, "FAILED")
           \/ job.state \in Stopped \ {"FAILED"} /\ Settle(r, "BLOCKED")
     \/ retries[r].st = "CHECKING" /\ job.state = "SUCCEEDED" /\ Settle(r, "SUCCEEDED")
  /\ check' = IF check.of = r THEN NoCheck ELSE check
  /\ UNCHANGED <<ledger, wb, faults>>

---------------------------------------------------------------------------
(* Time and the marketplace. *)

\* The marketplace works through what it was sent; a request whose answer was
\* lost may have been lost with it.
Resolve(a) ==
  /\ wb[a] = "pending"
  /\ \E fate \in {"created", "rejected", "lost"} :
       /\ fate = "lost" => ledger[a].res # "accepted"
       /\ wb' = [wb EXCEPT ![a] = fate]
  /\ UNCHANGED <<job, execs, ledger, retries, check, faults>>

\* 30 minutes pass after an unknown answer.  The marketplace is assumed to
\* settle a request in that time.
RowOld(a) ==
  /\ ledger[a].res = "unknown" /\ ~ledger[a].old
  /\ wb[a] # "pending"
  /\ ledger' = [ledger EXCEPT ![a].old = TRUE]
  /\ UNCHANGED <<job, execs, wb, retries, check, faults>>

\* The same on the clock of S001, which starts when it saved the unknown answer.
RecOld ==
  /\ job.rec.active /\ ~job.rec.old
  /\ job' = [job EXCEPT !.rec.old = TRUE]
  /\ UNCHANGED <<execs, ledger, wb, retries, check, faults>>

\* A stage is over its 24 hours.
Day ==
  /\ ~job.late /\ job.state \in Live
  /\ \A a \in Attempts : wb[a] # "pending" /\ ledger[a].res # "open"
  /\ job' = [job EXCEPT !.late = TRUE]
  /\ UNCHANGED <<execs, ledger, wb, retries, check, faults>>

GuardExpires ==
  /\ job.guard
  /\ Fault
  /\ job' = [job EXCEPT !.guard = FALSE]
  /\ UNCHANGED <<execs, ledger, wb, retries, check>>

\* The proof under an unused grant passes 8, then 10 minutes.
AgeProof(r) ==
  /\ retries[r].st = "RUNNING" /\ retries[r].attempt > 0
  /\ ~retries[r].consumed /\ retries[r].age < 2
  /\ Fault
  /\ retries' = [retries EXCEPT ![r].age = @ + 1]
  /\ UNCHANGED <<job, execs, ledger, wb, check>>

---------------------------------------------------------------------------

Outcomes == {"accepted", "refused", "throttled", "unknown", "notsent"}

Gateway(a) == \E res \in Outcomes : Complete(a, res)
Worker(r) == Inspect(r) \/ Decide(r) \/ Watch(r)

Next ==
  \/ \E e \in Execs : Reading(e) \/ Ready(e) \/ Begin(e) \/ HangUp(e) \/ Persist(e) \/ Die(e)
  \/ \E a \in Attempts : Gateway(a) \/ Resolve(a) \/ RowOld(a)
  \/ \E r \in Retries : Ask(r) \/ Worker(r) \/ AgeProof(r)
  \/ Lapse \/ Crash \/ RecOld \/ Day \/ GuardExpires

Fairness ==
  /\ WF_vars(\E e \in Execs : Reading(e) \/ Ready(e))
  /\ \A e \in Execs : WF_vars(Begin(e)) /\ WF_vars(Persist(e))
  /\ \A a \in Attempts : WF_vars(Gateway(a)) /\ WF_vars(Resolve(a)) /\ WF_vars(RowOld(a))
  /\ \A r \in Retries : WF_vars(Worker(r))
  /\ WF_vars(job.lease # None /\ ~execs[job.lease].current /\ Lapse)
  /\ WF_vars(RecOld) /\ WF_vars(Day)

Spec == Init /\ [][Next]_vars /\ Fairness

---------------------------------------------------------------------------
(* Properties. *)

\* Type invariant.
TypeOK ==
  /\ job.state \in Live \union Stopped \union {"SUCCEEDED"}
  /\ (job.state = "RETRY_WAIT") = (job.resume # "")
  /\ job.lease \in Execs \union {None}
  /\ job.attempt \in 0 .. MaxAttempt /\ job.rec.rounds \in 0 .. 2
  /\ job.rec.firm \in 0 .. job.rec.rounds
  /\ \A e \in Execs : execs[e].current => job.lease \in {e, None}
  /\ \A a \in Attempts : /\ ledger[a].res \in Closed \union {"none", "open", "dead"}
                         /\ wb[a] \in {"none", "pending", "created", "rejected", "lost", "double"}
  /\ \A r \in Retries : retries[r].attempt \in 0 .. MaxAttempt /\ retries[r].age \in 0 .. 2

\* Physical attempts are made one after the other: one that is in the ledger
\* follows attempts that all have their outcome recorded there.
AttemptsInOrder ==
  \A a, b \in Attempts : ledger[b].res # "none" /\ a < b => ledger[a].res \in Closed

\* One failed request has earned two retries a write of their own.
GrantedTwice ==
  \E r, q \in Retries : /\ r # q /\ retries[r].consumed /\ retries[q].consumed
                        /\ retries[r].ref = retries[q].ref

\* However runs, crashes, lost answers and any number of retries interleave,
\* attempts follow one another, none reaches the marketplace twice, and two of
\* them can both become a card only after one refusal was granted twice, which
\* the retry worker does not prevent (buildWbRetryPlan).
SecondCardNeedsTwoGrants ==
  /\ AttemptsInOrder
  /\ \A a \in Attempts : wb[a] # "double"
  /\ \A a, b \in Attempts : {wb[a], wb[b]} \subseteq {"pending", "created"} /\ a # b => GrantedTwice

\* A retry the operator asked for ends, whatever became of the card.
RetrySettles == \A r \in Retries : []<>(retries[r].st \notin Active)
=============================================================================
