------------------------- MODULE OzonImport_proofs -------------------------
(***************************************************************************)
(* Proofs about the import of a publication into OZON, for every set of    *)
(* lease tokens and every number of faults.                                *)
(***************************************************************************)
EXTENDS OzonImport, TLAPS

---------------------------------------------------------------------------
(* Type correctness. *)

(* What may become of an execution. *)
LEMMA ExecutionTypes ==
  /\ Idle \in Executions
  /\ \A pc \in {"lock", "media", "begin", "poll", "offers", "verify"} : Run(pc) \in Executions
  /\ \A e \in Executions : [e EXCEPT !.current = FALSE] \in Executions
BY DEF Idle, Run, Executions

(* A write of the row leaves executions behind. *)
LEMMA StaleType ==
  ASSUME runs \in [Tokens -> Executions]
  PROVE  Stale \in [Tokens -> Executions]
BY ExecutionTypes DEF Stale

\* The fields of an execution, as sets of their own.
Saws == {"", "task", "refused", "notsent", "unknown", "created", "pending",
         "absent", "failed", "mismatch", "approved", "moved", "found"}
Places == {"idle", "lock", "media", "begin", "mark", "wait", "answer",
           "poll", "offers", "verify", "move", "commit", "unsure", "refused", "rollback"}

(* Moving one execution to a place, with what it saw, is well formed. *)
LEMMA SawType ==
  ASSUME runs \in [Tokens -> Executions], NEW t \in Tokens, NEW pc \in Places, NEW saw \in Saws
  PROVE  Saw(t, pc, saw) \in [Tokens -> Executions]
<1>1. [[runs[t] EXCEPT !.pc = pc] EXCEPT !.saw = saw] \in Executions
  BY ZenonT(60) DEF Executions, Places, Saws, Archiving
<1> QED
  BY <1>1 DEF Saw

(* What may become of the row. *)
LEMMA JobTypes ==
  ASSUME NEW j \in Jobs
  PROVE  /\ \A s \in Claims \union Settled : [j EXCEPT !.state = s] \in Jobs
         /\ \A p \in {"PERSISTED", "AWAITING_READBACK", "CONFIRMING_ABSENCE", "RETRY_ALLOWED",
                      "TASK_ID_BOUND", "CONFIRMED_CREATED", "REJECTED"} : [j EXCEPT !.phase = p] \in Jobs
         /\ \A n \in 0 .. AbsentNeeded : [j EXCEPT !.absent = n] \in Jobs
         /\ j.absent \in 0 .. AbsentNeeded
BY DEF Jobs

(* A released row is well formed and leases nothing. *)
LEMMA ReleasedType ==
  ASSUME NEW j \in Jobs
  PROVE  Released(j) \in Jobs /\ ~Released(j).live
BY DEF Released, Jobs

(* What a run makes of what it has read, or of the gateway's answer. *)
LEMMA ConcludedType ==
  ASSUME job \in Jobs, NEW pc, NEW saw
  PROVE  Concluded(pc, saw) \in Jobs /\ ~Concluded(pc, saw).live
<1>1. Absent \in Jobs
  <2>1. ASSUME NEW n \in 0 .. AbsentNeeded, NEW s \in {"SUBMITTING", "IMPORTING"},
               NEW p \in {"RETRY_ALLOWED", "CONFIRMING_ABSENCE"}
        PROVE  [job EXCEPT !.state = s, !.phase = p, !.absent = n] \in Jobs
    <3> DEFINE k == [job EXCEPT !.state = s]
               l == [k EXCEPT !.phase = p]
    <3>1. k \in Jobs
      BY JobTypes DEF Claims
    <3>2. l \in Jobs
      BY <3>1, JobTypes
    <3>3. [l EXCEPT !.absent = n] \in Jobs
      BY <3>2, JobTypes
    <3> QED
      BY <3>3
  <2>2. job.absent \in 0 .. AbsentNeeded
    BY JobTypes
  <2>3. /\ job.absent + 1 >= AbsentNeeded \/ job.absent + 1 \in 0 .. AbsentNeeded
        /\ AbsentNeeded \in 0 .. AbsentNeeded
    BY <2>2 DEF AbsentNeeded
  <2> QED
    BY <2>1, <2>3 DEF Absent
<1>2. [job EXCEPT !.state = "NEEDS_ATTENTION"] \in Jobs
  BY DEF Jobs, Settled
<1>3. [job EXCEPT !.state = IF pc = "verify" THEN "MODERATING" ELSE "IMPORTING"] \in Jobs
  BY DEF Jobs, Claims
<1>4. [job EXCEPT !.state = "MODERATING", !.phase = IF pc = "offers" THEN "CONFIRMED_CREATED" ELSE @] \in Jobs
  BY DEF Jobs, Claims
<1> QED
  BY <1>1, <1>2, <1>3, <1>4, ReleasedType DEF Concluded

(* So is the row that the gateway's answer leads to. *)
LEMMA AnsweredType ==
  ASSUME job \in Jobs, job.live => job.holder # None, NEW saw
  PROVE  Answered(saw) \in Jobs /\ (Answered(saw).live => Answered(saw).holder # None)
<1>1. [job EXCEPT !.task = TRUE, !.phase = "TASK_ID_BOUND"] \in Jobs
  BY DEF Jobs
<1>2. [job EXCEPT !.state = "NEEDS_ATTENTION", !.phase = "REJECTED"] \in Jobs
  BY DEF Jobs, Settled
<1>3. [job EXCEPT !.state = "SUBMITTING", !.phase = "RETRY_ALLOWED"] \in Jobs
  BY DEF Jobs, Claims
<1>4. [job EXCEPT !.state = "IMPORTING", !.phase = "AWAITING_READBACK"] \in Jobs
  BY DEF Jobs, Claims
<1>5. LET j == [job EXCEPT !.task = TRUE, !.phase = "TASK_ID_BOUND"]
      IN  j.live = job.live /\ j.holder = job.holder
  BY DEF Jobs
<1> QED
  BY <1>1, <1>2, <1>3, <1>4, <1>5, ReleasedType DEF Answered

(* A callback with a well-formed row keeps everything well formed. *)
LEMMA SaveType ==
  ASSUME TypeOK, NEW t \in Tokens, NEW j \in Jobs, j.live => j.holder # None,
         NEW pc \in {"media", "begin", "poll", "idle"}, Save(t, j, pc), faults' \in 0 .. MaxFaults
  PROVE  TypeOK'
<1>1. runs' \in [Tokens -> Executions]
  BY ExecutionTypes, StaleType DEF Save, TypeOK
<1>2. job' \in Jobs /\ (job'.live => job'.holder # None)
  BY DEF Save, TypeOK
<1> QED
  BY <1>1, <1>2 DEF Save, TypeOK

(* Every step keeps the types. *)
LEMMA TypeStep == TypeOK /\ [Next]_vars => TypeOK'
<1> SUFFICES ASSUME TypeOK, [Next]_vars PROVE TypeOK'
  OBVIOUS
<1> USE OzonAssumption
<1>0. runs \in [Tokens -> Executions] /\ job \in Jobs /\ faults \in 0 .. MaxFaults
  BY DEF TypeOK
<1>a. ASSUME Fault PROVE faults' \in 0 .. MaxFaults
  <2>1. faults \in Nat /\ faults < MaxFaults /\ faults' = faults + 1
    BY <1>0, <1>a DEF Fault
  <2> QED
    BY <2>1
<1>1. ASSUME NEW t \in Tokens, Claim(t) PROVE TypeOK'
  <2>1. runs' \in [Tokens -> Executions]
    BY <1>0, <1>1, ExecutionTypes, StaleType DEF Claim, Mode
  <2>2. job' \in Jobs /\ job'.holder # None
    BY <1>1 DEF Claim, TypeOK, Jobs
  <2> QED
    BY <1>1, <2>1, <2>2 DEF Claim, TypeOK
<1>2. ASSUME NEW t \in Tokens, Lock(t) \/ Persist(t) PROVE TypeOK'
  <2>a. /\ [job EXCEPT !.state = "UPLOADING_MEDIA"] \in Jobs
        /\ [job EXCEPT !.state = "IMPORTING"] \in Jobs
    BY <1>0, JobTypes DEF Claims
  <2>b. [job EXCEPT !.state = "IMPORTING", !.phase = "PERSISTED"] \in Jobs
    BY <2>a, JobTypes
  <2>c. 0 \in 0 .. AbsentNeeded
    BY DEF AbsentNeeded
  <2>1. [job EXCEPT !.state = "IMPORTING", !.phase = "PERSISTED", !.absent = 0] \in Jobs
    BY <2>b, <2>c, JobTypes
  <2>2. /\ [job EXCEPT !.state = "UPLOADING_MEDIA"].live = job.live
        /\ [job EXCEPT !.state = "UPLOADING_MEDIA"].holder = job.holder
        /\ [job EXCEPT !.state = "IMPORTING", !.phase = "PERSISTED", !.absent = 0].live = job.live
        /\ [job EXCEPT !.state = "IMPORTING", !.phase = "PERSISTED", !.absent = 0].holder = job.holder
    BY <1>0 DEF Jobs
  <2>3. job.live => job.holder # None
    BY DEF TypeOK
  <2>4. CASE Lock(t)
    BY <1>0, <2>a, <2>2, <2>3, <2>4, SaveType DEF Lock
  <2>5. CASE Persist(t)
    BY <1>0, <2>1, <2>2, <2>3, <2>5, SaveType DEF Persist
  <2> QED
    BY <1>2, <2>4, <2>5
<1>3. ASSUME NEW t \in Tokens, Answer(t) \/ Conclude(t) PROVE TypeOK'
  <2>1. CASE Answer(t)
    BY <1>0, <2>1, SaveType, AnsweredType DEF Answer, TypeOK
  <2>2. CASE Conclude(t)
    BY <1>0, <2>2, SaveType, ConcludedType DEF Conclude
  <2> QED
    BY <1>3, <2>1, <2>2
<1>4. ASSUME NEW t \in Tokens, Postpone(t) PROVE TypeOK'
  <2>1. PICK s \in {"SUBMITTING", "NEEDS_ATTENTION"} : Save(t, Released([job EXCEPT !.state = s]), "idle")
    BY <1>4 DEF Postpone
  <2>2. [job EXCEPT !.state = s] \in Jobs
    BY DEF Jobs, TypeOK, Claims, Settled
  <2> QED
    BY <1>4, <1>a, <2>1, <2>2, SaveType, ReleasedType DEF Postpone
<1>5. ASSUME NEW t \in Tokens, Begin(t) \/ Mark(t) PROVE TypeOK'
  <2>1. FromLedger \in Saws
    BY DEF FromLedger, Saws
  <2>2. runs' \in [Tokens -> Executions]
    <3>1. /\ Saw(t, "answer", "notsent") \in [Tokens -> Executions]
          /\ Saw(t, "mark", "") \in [Tokens -> Executions]
          /\ Saw(t, "wait", "") \in [Tokens -> Executions]
          /\ Saw(t, "answer", FromLedger) \in [Tokens -> Executions]
      BY ZenonT(60), <1>0, <2>1, SawType DEF Places, Saws
    <3> QED
      BY <1>5, <3>1 DEF Begin, Mark
  <2>3. ledger' \in Requests /\ ozon' \in Marketplace
    <3>1. ASSUME NEW st \in {"sending", "rejected", ledger.st} PROVE [ledger EXCEPT !.st = st] \in Requests
      BY DEF TypeOK, Requests
    <3>2. [st |-> "new", token |-> t] \in Requests
      BY DEF Requests
    <3>3. [ozon EXCEPT !.wire = @ \union {t}] \in Marketplace
      BY DEF TypeOK, Marketplace
    <3>4. CASE Begin(t)
      BY <3>2, <3>4 DEF Begin, TypeOK
    <3>5. CASE Mark(t)
      BY <3>1, <3>3, <3>5 DEF Mark, TypeOK
    <3> QED
      BY <1>5, <3>4, <3>5
  <2> QED
    BY <1>5, <2>2, <2>3 DEF Begin, Mark, TypeOK
<1>6. ASSUME NEW t \in Tokens, Accepted(t) \/ Refused(t) \/ TurnedAway(t) \/ NoAnswer(t) PROVE TypeOK'
  <2>1. ASSUME NEW st \in {"accepted", "refused", "retryable", "sending"},
               NEW saw \in {"task", "refused", "notsent", "unknown"}, Reply(t, st, saw)
        PROVE  ledger' \in Requests /\ runs' \in [Tokens -> Executions]
    <3>1. Saw(t, "answer", saw) \in [Tokens -> Executions]
      BY <1>0, SawType DEF Places, Saws
    <3>2. [ledger EXCEPT !.st = st] \in Requests
      BY DEF TypeOK, Requests
    <3> QED
      BY <1>0, <2>1, <3>1, <3>2 DEF Reply, TypeOK
  <2>2. ledger' \in Requests /\ runs' \in [Tokens -> Executions]
    <3>1. CASE Accepted(t)
      BY <2>1, <3>1 DEF Accepted
    <3>2. CASE Refused(t)
      BY <2>1, <3>2 DEF Refused
    <3>3. CASE TurnedAway(t)
      BY <2>1, <3>3 DEF TurnedAway
    <3>4. CASE NoAnswer(t)
      BY <2>1, <3>4 DEF NoAnswer
    <3> QED
      BY <1>6, <3>1, <3>2, <3>3, <3>4
  <2>3. faults' \in 0 .. MaxFaults
    BY <1>0, <1>6, <1>a DEF Accepted, Refused, TurnedAway, NoAnswer
  <2>4. ozon' \in Marketplace
    <3>0. ozon \in Marketplace
      BY DEF TypeOK
    <3>1. CASE Accepted(t)
      BY <3>0, <3>1 DEF Accepted, Marketplace
    <3>2. CASE Refused(t) \/ TurnedAway(t)
      BY <3>0, <3>2 DEF Refused, TurnedAway, Marketplace
    <3>3. CASE NoAnswer(t)
      BY <3>0, <3>3 DEF NoAnswer
    <3> QED
      BY <1>6, <3>1, <3>2, <3>3
  <2> QED
    BY <1>6, <2>2, <2>3, <2>4 DEF Accepted, Refused, TurnedAway, NoAnswer, TypeOK
<1>7. ASSUME NEW t \in Tokens, Look(t) \/ LookFails(t) PROVE TypeOK'
  <2>1. ASSUME NEW pc \in {"poll", "offers", "verify"},
               NEW saw \in {"approved", "pending", "created", "absent", "failed", "mismatch"}
        PROVE  Saw(t, pc, saw) \in [Tokens -> Executions]
    BY ZenonT(60), <1>0, SawType DEF Places, Saws
  <2>2. View(runs[t].pc) \in {"approved", "pending", "created", "absent", "failed", "mismatch"}
    BY DEF View
  <2>3. runs' \in [Tokens -> Executions]
    <3>1. CASE Look(t)
      BY <2>1, <2>2, <3>1 DEF Look, Reading
    <3>2. CASE LookFails(t)
      <4>1. PICK saw \in {"pending", "mismatch"} : runs' = Saw(t, runs[t].pc, saw)
        BY <3>2 DEF LookFails
      <4> QED
        BY <2>1, <3>2, <4>1 DEF LookFails, Reading
    <3> QED
      BY <1>7, <3>1, <3>2
  <2>4. faults' \in 0 .. MaxFaults
    BY <1>0, <1>7, <1>a DEF Look, LookFails
  <2> QED
    BY <1>7, <2>3, <2>4 DEF Look, LookFails, TypeOK
<1>8. ASSUME NEW t \in Tokens, Enter(t) PROVE TypeOK'
  <2>1. runs[t] \in Executions
    BY <1>0
  <2>2. [runs[t] EXCEPT !.pc = "move"] \in Executions
    BY <2>1 DEF Executions, Archiving
  <2> QED
    BY <1>8, <2>2, ExecutionTypes DEF Enter, TypeOK
<1>9. ASSUME NEW saw, Succeed(saw)
      PROVE  job' \in Jobs /\ ~job'.live /\ overtaken' \in BOOLEAN
  <2>1. [job EXCEPT !.state = "SUCCEEDED", !.dir = "success"] \in Jobs
    BY <1>0 DEF Jobs, Settled
  <2> QED
    BY <1>9, <2>1, ReleasedType DEF Succeed
<1>10. ASSUME NEW t \in Tokens, Move(t) \/ Commit(t) \/ LoseCommit(t) \/ Readback(t) \/ Rollback(t)
      PROVE  TypeOK'
  <2>0. /\ Saw(t, "commit", "moved") \in [Tokens -> Executions]
        /\ Saw(t, "commit", "found") \in [Tokens -> Executions]
        /\ \A pc \in {"unsure", "refused", "rollback"} : Saw(t, pc, "") \in [Tokens -> Executions]
    BY <1>0, SawType DEF Places, Saws
  <2>1. runs' \in [Tokens -> Executions]
    BY <1>0, <1>10, <2>0, StaleType, ExecutionTypes DEF Move, Commit, LoseCommit, Readback, Rollback
  <2>2. faults' \in 0 .. MaxFaults
    BY <1>0, <1>10, <1>a DEF Move, Commit, LoseCommit, Readback, Rollback
  <2>3. CASE Commit(t)
    <3>1. job' \in Jobs /\ (job'.live => job'.holder # None) /\ overtaken' \in BOOLEAN
      BY <1>9, <2>3 DEF Commit, TypeOK
    <3> QED
      BY <2>1, <2>2, <2>3, <3>1 DEF Commit, TypeOK
  <2>4. CASE LoseCommit(t)
    <3>1. committing' \in {"", "moved", "found"}
      BY <2>4 DEF LoseCommit
    <3> QED
      BY <2>1, <2>2, <2>4, <3>1 DEF LoseCommit, TypeOK
  <2>5. CASE Move(t) \/ Readback(t) \/ Rollback(t)
    BY <2>1, <2>2, <2>5 DEF Move, Readback, Rollback, TypeOK
  <2> QED
    BY <1>10, <2>3, <2>4, <2>5
<1>11. ASSUME NEW t \in Tokens, Crash(t) PROVE TypeOK'
  BY <1>11, <1>a, ExecutionTypes DEF Crash, TypeOK
<1>12. ASSUME Expire PROVE TypeOK'
  <2>1. job' \in Jobs /\ ~job'.live
    BY <1>0, <1>12 DEF Expire, Jobs
  <2> QED
    BY <1>12, <1>a, <2>1 DEF Expire, TypeOK
<1>13. ASSUME LateCommit PROVE TypeOK'
  <2>1. CASE Succeed(committing) /\ runs' = Stale
    BY <1>0, <1>9, <1>13, <2>1, StaleType DEF LateCommit, TypeOK
  <2>2. CASE UNCHANGED <<job, runs, overtaken>>
    BY <1>13, <2>2 DEF LateCommit, TypeOK
  <2> QED
    BY <1>13, <2>1, <2>2 DEF LateCommit
<1>14. ASSUME Create \/ Fail \/ Approve PROVE TypeOK'
  BY <1>14 DEF Create, Fail, Approve, Becomes, TypeOK, Marketplace
<1>15. CASE UNCHANGED vars
  BY <1>15 DEF vars, TypeOK
<1> QED
  BY <1>1, <1>2, <1>3, <1>4, <1>5, <1>6, <1>7, <1>8, <1>10, <1>11, <1>12, <1>13, <1>14, <1>15
     DEF Next, Own, Mishap

(* Every variable always holds values the code can store in it. *)
THEOREM TypeCorrect == Spec => []TypeOK
<1>1. Init => TypeOK
  <2> SUFFICES ASSUME Init PROVE TypeOK
    OBVIOUS
  <2>1. job \in Jobs
    <3>1. "READY" \in Claims /\ 0 \in 0 .. AbsentNeeded
      BY DEF Claims, AbsentNeeded
    <3> QED
      BY <3>1 DEF Init, Jobs
  <2>4. ~job.live
    BY DEF Init
  <2>5. faults \in 0 .. MaxFaults
    <3>1. MaxFaults \in Nat /\ faults = 0
      BY OzonAssumption DEF Init
    <3> QED
      BY <3>1
  <2>2. runs \in [Tokens -> Executions]
    BY ExecutionTypes DEF Init
  <2>3. ledger \in Requests /\ ozon \in Marketplace
    BY DEF Init, Requests, Marketplace
  <2> QED
    BY <2>1, <2>2, <2>3, <2>4, <2>5 DEF Init, TypeOK
<1> QED
  BY <1>1, TypeStep, PTL DEF Spec

---------------------------------------------------------------------------
(* What the operators make of each execution. *)

(* Moving one execution touches no other. *)
LEMMA SawStep ==
  ASSUME runs \in [Tokens -> Executions], NEW t \in Tokens, NEW pc, NEW saw, runs' = Saw(t, pc, saw)
  PROVE  /\ \A s \in Tokens : s # t => runs'[s] = runs[s]
         /\ runs'[t].pc = pc /\ runs'[t].saw = saw
BY DEF Saw, Executions

(* A write of the row moves no execution, but makes none current. *)
LEMMA StaleFacts ==
  ASSUME runs \in [Tokens -> Executions], NEW s \in Tokens
  PROVE  /\ Stale \in [Tokens -> Executions] /\ ~Stale[s].current
         /\ Stale[s].pc = runs[s].pc /\ Stale[s].saw = runs[s].saw
BY StaleType DEF Stale, Executions

(* A new execution works on the current row, one that ended does not. *)
LEMMA FreshFacts ==
  /\ \A pc : Run(pc).pc = pc /\ Run(pc).current
  /\ Idle.pc = "idle" /\ ~Idle.current
BY DEF Run, Idle

(* A callback lets one run go on, and writes the row only under the lease. *)
LEMMA SaveFacts ==
  ASSUME runs \in [Tokens -> Executions], NEW t \in Tokens, NEW j, NEW pc, Save(t, j, pc)
  PROVE  /\ \A s \in Tokens : s # t => runs'[s].pc = runs[s].pc /\ runs'[s].saw = runs[s].saw
         /\ runs'[t].pc \in {pc, "idle"}
         /\ job' # job => Accept(t) /\ job' = j
         /\ UNCHANGED <<ledger, ozon, disk, committing, overtaken>>
<1>1. UNCHANGED <<ledger, ozon, disk, committing, overtaken>>
  BY DEF Save
<1>2. CASE Accept(t)
  <2>1. job' = j /\ runs' = [Stale EXCEPT ![t] = IF pc = "idle" THEN Idle ELSE Run(pc)]
    BY <1>2 DEF Save
  <2>2. \A s \in Tokens : s # t => runs'[s] = Stale[s]
    BY <2>1
  <2>3. runs'[t] = IF pc = "idle" THEN Idle ELSE Run(pc)
    BY <2>1, StaleFacts
  <2> QED
    BY <1>1, <1>2, <2>1, <2>2, <2>3, StaleFacts, FreshFacts
<1>3. CASE ~Accept(t)
  <2>1. job' = job /\ runs' = [runs EXCEPT ![t] = Idle]
    BY <1>3 DEF Save
  <2>2. runs'[t] = Idle /\ \A s \in Tokens : s # t => runs'[s] = runs[s]
    BY <2>1
  <2> QED
    BY <1>1, <2>1, <2>2, FreshFacts
<1> QED
  BY <1>2, <1>3

---------------------------------------------------------------------------
(* At most one import leaves, under the token in the ledger. *)

\* What is on its way is the one request of the ledger, and OZON has accepted
\* nothing while the ledger says that nothing was sent.
OneRequest ==
  /\ ledger.st \in {"none", "new"} => ozon.sent = 0 /\ ozon.wire = {}
  /\ \A t \in ozon.wire : ozon.sent = 0 /\ ozon.wire = {t}
  /\ \A t \in Tokens :
       /\ runs[t].pc = "mark" => ledger.token = t /\ ledger.st = "new"
       /\ runs[t].pc = "wait" => ledger.token = t /\ ledger.st = "sending"
       /\ runs[t].pc \in {"lock", "media", "begin"} => ledger.token # t
  /\ ImportedOnce

(* Every step keeps the one request. *)
LEMMA OneRequestStep == TypeOK /\ OneRequest /\ [Next]_vars => OneRequest'
<1> SUFFICES ASSUME TypeOK, OneRequest, [Next]_vars PROVE OneRequest'
  OBVIOUS
<1>0. runs \in [Tokens -> Executions] /\ ledger \in Requests /\ ozon \in Marketplace
  BY DEF TypeOK
<1>1. ASSUME NEW t \in Tokens, Claim(t) PROVE OneRequest'
  <2>1. \A s \in Tokens : runs'[s].pc = IF s = t THEN Mode ELSE runs[s].pc
    BY <1>0, <1>1, StaleFacts, FreshFacts DEF Claim
  <2>2. Mode \notin {"mark", "wait", "media", "begin"}
    BY DEF Mode
  <2> QED
    BY ZenonT(60), <1>1, <2>1, <2>2 DEF Claim, OneRequest, ImportedOnce
<1>2. ASSUME NEW t \in Tokens, Lock(t) \/ Postpone(t) \/ Persist(t) \/ Answer(t) \/ Conclude(t)
      PROVE  OneRequest'
  <2>1. /\ UNCHANGED <<ledger, ozon>>
        /\ \A s \in Tokens : s # t => runs'[s].pc = runs[s].pc
        /\ \/ runs'[t].pc \in {"idle", "poll"}
           \/ runs'[t].pc \in {"media", "begin"} /\ runs[t].pc \in {"lock", "media"}
    <3>1. CASE Lock(t)
      BY <1>0, <3>1, SaveFacts DEF Lock, Save
    <3>2. CASE Persist(t)
      BY <1>0, <3>2, SaveFacts DEF Persist, Save
    <3>3. CASE Answer(t)
      <4>1. PICK j, pc : pc \in {"poll", "idle"} /\ Save(t, j, pc)
        BY <3>3 DEF Answer
      <4> QED
        BY <1>0, <4>1, SaveFacts
    <3>4. CASE Postpone(t) \/ Conclude(t)
      <4>1. PICK j : Save(t, j, "idle")
        BY <3>4 DEF Postpone, Conclude
      <4> QED
        BY <1>0, <4>1, SaveFacts DEF Save
    <3> QED
      BY <1>2, <3>1, <3>2, <3>3, <3>4
  <2> QED
    BY <2>1 DEF OneRequest, ImportedOnce
<1>3. ASSUME NEW t \in Tokens, Begin(t) PROVE OneRequest'
  <2>1. ledger.token # t /\ UNCHANGED ozon
    BY <1>3 DEF Begin, OneRequest
  <2>2. CASE ledger' = ledger
    <3>1. runs' = Saw(t, "answer", "notsent")
      <4>1. ledger.st # "none"  \/ ~Leased(t)
        <5> SUFFICES ASSUME ledger.st = "none", Leased(t) PROVE FALSE
          OBVIOUS
        <5>1. ledger' = [st |-> "new", token |-> t]
          BY <1>3 DEF Begin
        <5> QED
          BY <2>2, <5>1
      <4> QED
        BY <1>3, <2>1, <4>1 DEF Begin, SameRequest
    <3>2. runs'[t].pc = "answer" /\ \A s \in Tokens : s # t => runs'[s] = runs[s]
      BY <1>0, <3>1, SawStep
    <3> QED
      BY <2>1, <2>2, <3>2 DEF OneRequest, ImportedOnce
  <2>3. CASE ledger' # ledger
    <3>1. ledger.st = "none" /\ ledger' = [st |-> "new", token |-> t] /\ runs' = Saw(t, "mark", "")
      BY <1>3, <2>1, <2>3 DEF Begin, SameRequest
    <3>2. \A s \in Tokens : runs'[s].pc = IF s = t THEN "mark" ELSE runs[s].pc
      BY <1>0, <3>1, SawStep
    <3> QED
      BY <2>1, <3>1, <3>2 DEF OneRequest, ImportedOnce
  <2> QED
    BY <2>2, <2>3
<1>4. ASSUME NEW t \in Tokens, Mark(t) PROVE OneRequest'
  <2>1. ledger.token = t /\ ledger.st = "new" /\ ozon.sent = 0 /\ ozon.wire = {}
    BY <1>4 DEF Mark, OneRequest
  <2>2. \A s \in Tokens : s # t => runs[s].pc \notin {"mark", "wait"}
    BY <2>1 DEF OneRequest
  <2>3. CASE Leased(t)
    <3>1. /\ ledger' = [ledger EXCEPT !.st = "sending"]
          /\ ozon' = [ozon EXCEPT !.wire = @ \union {t}]
          /\ runs' = Saw(t, "wait", "")
      BY <1>4, <2>1, <2>3 DEF Mark, MayRetry
    <3>2. ledger'.token = t /\ ledger'.st = "sending" /\ ozon'.wire = {t} /\ ozon'.sent = 0
      BY <1>0, <2>1, <3>1 DEF Requests, Marketplace
    <3>3. runs'[t].pc = "wait" /\ \A s \in Tokens : s # t => runs'[s].pc = runs[s].pc
      BY <1>0, <3>1, SawStep
    <3> QED
      BY <2>2, <3>2, <3>3 DEF OneRequest, ImportedOnce
  <2>4. CASE ~Leased(t)
    <3>1. /\ ledger' = [ledger EXCEPT !.st = "rejected"]
          /\ UNCHANGED ozon
          /\ runs' = Saw(t, "answer", "notsent")
      BY <1>4, <2>1, <2>4 DEF Mark, MayRetry
    <3>2. ledger'.token = t /\ ledger'.st = "rejected"
      BY <1>0, <2>1, <3>1 DEF Requests
    <3>3. runs'[t].pc = "answer" /\ \A s \in Tokens : s # t => runs'[s].pc = runs[s].pc
      BY <1>0, <3>1, SawStep
    <3> QED
      BY <2>1, <2>2, <3>1, <3>2, <3>3 DEF OneRequest, ImportedOnce
  <2> QED
    BY <2>3, <2>4
<1>5. ASSUME NEW t \in Tokens, NoAnswer(t) \/ TurnedAway(t) \/ Refused(t) PROVE OneRequest'
  BY <1>0, <1>5, SawStep DEF NoAnswer, TurnedAway, Refused, Reply, OneRequest, ImportedOnce, Requests, Marketplace
<1>6. ASSUME NEW t \in Tokens, Accepted(t) PROVE OneRequest'
  BY <1>0, <1>6, SawStep DEF Accepted, Reply, OneRequest, ImportedOnce, Requests, Marketplace
<1>7. ASSUME NEW t \in Tokens, Look(t) \/ LookFails(t) \/ Move(t) \/ Readback(t) \/ Enter(t)
                               \/ Commit(t) \/ LoseCommit(t) \/ Rollback(t) \/ Crash(t)
      PROVE  OneRequest'
  <2>1. /\ UNCHANGED <<ledger, ozon>>
        /\ \A s \in Tokens : s # t => runs'[s].pc = runs[s].pc
        /\ runs'[t].pc \in {"poll", "offers", "verify", "idle"} \union Archiving
    <3>1. CASE Look(t)
      BY <1>0, <3>1, SawStep DEF Look, Reading
    <3>6. CASE LookFails(t)
      <4>1. PICK saw : runs' = Saw(t, runs[t].pc, saw)
        BY <3>6 DEF LookFails
      <4>2. runs[t].pc \in {"poll", "offers", "verify"} /\ UNCHANGED <<ledger, ozon>>
        BY <3>6 DEF LookFails, Reading
      <4> QED
        BY <1>0, <4>1, <4>2, SawStep
    <3>2. CASE Move(t)
      BY <1>0, <3>2, SawStep DEF Move, Archiving
    <3>7. CASE Readback(t)
      BY ZenonT(60), <1>0, <3>7, SawStep, FreshFacts DEF Readback, Archiving
    <3>8. CASE LoseCommit(t)
      <4>1. UNCHANGED <<ledger, ozon>>
        BY <3>8 DEF LoseCommit
      <4>2. CASE runs' = Saw(t, "unsure", "")
        BY <1>0, <4>1, <4>2, SawStep DEF Archiving
      <4>3. CASE runs' = [runs EXCEPT ![t] = Idle]
        BY <1>0, <4>1, <4>3, FreshFacts
      <4> QED
        BY <3>8, <4>2, <4>3 DEF LoseCommit
    <3>3. CASE Commit(t)
      <4>1. CASE runs' = Saw(t, "refused", "")
        BY ZenonT(60), <1>0, <3>3, <4>1, SawStep DEF Commit, Archiving
      <4>2. CASE runs' \in {[Stale EXCEPT ![t] = Idle], [runs EXCEPT ![t] = Idle]}
        BY <1>0, <3>3, <4>2, StaleFacts, FreshFacts DEF Commit
      <4> QED
        BY <3>3, <4>1, <4>2 DEF Commit
    <3>4. CASE Enter(t)
      BY <1>0, <3>4, FreshFacts DEF Enter, Archiving, Executions
    <3>5. CASE Rollback(t) \/ Crash(t)
      BY <1>0, <3>5, FreshFacts DEF Rollback, Crash
    <3> QED
      BY <1>7, <3>1, <3>2, <3>3, <3>4, <3>5, <3>6, <3>7, <3>8
  <2> QED
    BY <2>1 DEF OneRequest, ImportedOnce, Archiving
<1>8. ASSUME Expire \/ LateCommit \/ Create \/ Fail \/ Approve \/ UNCHANGED vars PROVE OneRequest'
  <2>1. CASE Expire \/ UNCHANGED vars
    BY <2>1 DEF Expire, vars, OneRequest, ImportedOnce
  <2>2. CASE LateCommit
    <3>1. UNCHANGED <<ledger, ozon>> /\ runs' \in {Stale, runs}
      BY <2>2 DEF LateCommit
    <3>2. \A s \in Tokens : runs'[s].pc = runs[s].pc
      BY <1>0, <3>1, StaleFacts
    <3> QED
      BY <3>1, <3>2 DEF OneRequest, ImportedOnce
  <2>3. CASE Create \/ Fail \/ Approve
    <3>1. UNCHANGED <<ledger, runs>>
      BY <2>3 DEF Create, Fail, Approve, Becomes
    <3>2. ozon'.sent = ozon.sent /\ ozon'.wire = ozon.wire
      BY <2>3 DEF Create, Fail, Approve, Becomes, TypeOK, Marketplace
    <3> QED
      BY <3>1, <3>2 DEF OneRequest, ImportedOnce
  <2> QED
    BY <1>8, <2>1, <2>2, <2>3
<1> QED
  BY <1>1, <1>2, <1>3, <1>4, <1>5, <1>6, <1>7, <1>8 DEF Next, Own, Mishap

(* OZON accepts at most one import of a publication. *)
THEOREM ImportsOnce == Spec => []ImportedOnce
<1>1. Init => OneRequest
  <2> SUFFICES ASSUME Init PROVE OneRequest
    OBVIOUS
  <2>1. \A t \in Tokens : runs[t].pc = "idle"
    BY FreshFacts DEF Init
  <2>2. ledger.st = "none" /\ ozon.sent = 0 /\ ozon.wire = {}
    BY DEF Init
  <2> QED
    BY <2>1, <2>2 DEF OneRequest, ImportedOnce
<1>2. OneRequest => ImportedOnce
  BY DEF OneRequest
<1> QED
  BY <1>1, <1>2, OneRequestStep, TypeCorrect, PTL DEF Spec

---------------------------------------------------------------------------
(* A success is archived, unless its directory was already being moved back. *)

\* The run renamed the directory and may still have to move it back.
HoldsRename(e) ==
  \/ e.pc = "commit" /\ e.saw = "moved"
  \/ e.pc \in {"unsure", "refused", "rollback"}

\* One run at a time has renamed the directory, and it is where the run put it.
OneRename ==
  \A s, t \in Tokens :
    HoldsRename(runs[s]) => disk = "success" /\ (HoldsRename(runs[t]) => s = t)

\* An undecided COMMIT of that run keeps it from moving the directory back.
RenameUndecided ==
  committing = "moved" =>
    disk = "success" /\ \A t \in Tokens : HoldsRename(runs[t]) => runs[t].pc = "unsure"

\* Nobody has the lease of a row that succeeded, and it says where the directory is.
SuccessIsFinal ==
  job.state = "SUCCEEDED" => ~job.live /\ job.dir = "success" /\ (overtaken \/ ~Undone)

ArchiveInv == OneRename /\ RenameUndecided /\ SuccessIsFinal

(* A step that moves no directory and brings no run into its archive. *)
Calm ==
  /\ UNCHANGED <<disk, committing, overtaken>>
  /\ \A s \in Tokens :
       runs'[s].pc \in {"commit", "unsure", "refused", "rollback"} =>
         runs'[s].pc = runs[s].pc /\ runs'[s].saw = runs[s].saw
  /\ job'.state = "SUCCEEDED" => job.state = "SUCCEEDED" /\ job'.dir = job.dir /\ (job'.live => job.live)

(* Such a step leaves the archive as it is. *)
LEMMA CalmStep == ArchiveInv /\ Calm => ArchiveInv'
<1> SUFFICES ASSUME ArchiveInv, Calm PROVE ArchiveInv'
  OBVIOUS
<1>1. \A s \in Tokens : HoldsRename(runs'[s]) => HoldsRename(runs[s]) /\ runs'[s].pc = runs[s].pc
  BY DEF Calm, HoldsRename
<1>2. Undone' => Undone
  BY DEF Calm, Undone
<1>3. OneRename' /\ RenameUndecided'
  BY <1>1 DEF ArchiveInv, OneRename, RenameUndecided, Calm
<1>4. SuccessIsFinal'
  BY <1>2 DEF ArchiveInv, SuccessIsFinal, Calm
<1> QED
  BY <1>3, <1>4 DEF ArchiveInv

(* The lease that a callback needs is gone once the row has succeeded. *)
LEMMA SaveArchive ==
  ASSUME TypeOK, ArchiveInv, NEW t \in Tokens, NEW j, NEW pc \in {"idle", "media", "begin", "poll"},
         Save(t, j, pc), j.state = "SUCCEEDED" => job.state = "SUCCEEDED"
  PROVE  ArchiveInv'
<1>0. runs \in [Tokens -> Executions]
  BY DEF TypeOK
<1>1. \A s \in Tokens : s # t => runs'[s].pc = runs[s].pc /\ runs'[s].saw = runs[s].saw
  BY <1>0, SaveFacts
<1>2. runs'[t].pc \in {pc, "idle"}
  BY <1>0, SaveFacts
<1>3. job' = job \/ (job' = j /\ job.live)
  BY <1>0, SaveFacts DEF Accept, Leased
<1>4. job'.state = "SUCCEEDED" => job' = job
  BY <1>3 DEF ArchiveInv, SuccessIsFinal
<1>5. Calm
  BY <1>1, <1>2, <1>4 DEF Calm, Save
<1> QED
  BY <1>5, CalmStep

(* A run that ends beside an unchanged row is one archive less. *)
LEMMA EndArchive ==
  ASSUME TypeOK, ArchiveInv, NEW t \in Tokens, runs' = [runs EXCEPT ![t] = Idle],
         UNCHANGED <<job, disk, committing, overtaken>>
  PROVE  ArchiveInv'
<1>1. runs'[t] = Idle /\ \A s \in Tokens : s # t => runs'[s] = runs[s]
  BY DEF TypeOK
<1>2. Calm
  BY <1>1, FreshFacts DEF Calm
<1> QED
  BY <1>2, CalmStep

(* Neither is a run that goes on outside the archive in its way. *)
LEMMA SawArchive ==
  ASSUME TypeOK, ArchiveInv, NEW t \in Tokens,
         NEW pc \in {"answer", "mark", "wait", "poll", "offers", "verify"}, NEW saw,
         runs' = Saw(t, pc, saw), UNCHANGED <<job, disk, committing, overtaken>>
  PROVE  ArchiveInv'
<1>1. runs'[t].pc = pc /\ \A s \in Tokens : s # t => runs'[s] = runs[s]
  BY SawStep DEF TypeOK
<1>2. Calm
  BY <1>1 DEF Calm
<1> QED
  BY <1>2, CalmStep

(* A run that has renamed the directory goes on with its archive. *)
LEMMA RenameGoesOn ==
  ASSUME TypeOK, ArchiveInv, NEW t \in Tokens, HoldsRename(runs[t]),
         NEW pc \in {"unsure", "refused", "rollback"}, runs' = Saw(t, pc, ""),
         UNCHANGED <<job, disk, overtaken>>,
         pc = "rollback" => job.state # "SUCCEEDED",
         committing' = "moved" => pc = "unsure"
  PROVE  ArchiveInv'
<1>1. runs'[t].pc = pc /\ \A s \in Tokens : s # t => runs'[s] = runs[s]
  BY SawStep DEF TypeOK
<1>2. disk = "success" /\ \A s \in Tokens : s # t => ~HoldsRename(runs[s])
  BY DEF ArchiveInv, OneRename
<1>3. \A s \in Tokens : HoldsRename(runs'[s]) => s = t
  BY <1>1, <1>2
<1>4. OneRename' /\ RenameUndecided'
  BY <1>1, <1>2, <1>3 DEF OneRename, RenameUndecided
<1>5. ASSUME job.state = "SUCCEEDED" PROVE Undone' => Undone
  BY <1>1, <1>5 DEF Undone
<1>6. SuccessIsFinal'
  BY <1>5 DEF ArchiveInv, SuccessIsFinal
<1> QED
  BY <1>4, <1>6 DEF ArchiveInv

(* A success on an archive that nobody is undoing is one that stays. *)
LEMMA SucceedArchive ==
  ASSUME TypeOK, ArchiveInv, NEW saw, Succeed(saw),
         saw = "moved" => disk = "success" /\ \A t \in Tokens : runs[t].pc # "rollback",
         UNCHANGED disk, committing' = "",
         \A s \in Tokens : runs'[s].pc \in {"commit", "unsure", "refused", "rollback"} =>
                             runs'[s].pc = runs[s].pc /\ runs'[s].saw = runs[s].saw
  PROVE  ArchiveInv'
<1>1. ~job'.live /\ job'.dir = "success"
  BY DEF Succeed, Released, TypeOK, Jobs
<1>2. Undone' => Undone
  BY DEF Undone
<1>3. saw = "moved" => ~Undone
  BY DEF Undone
<1>4. overtaken' \/ ~Undone'
  BY <1>2, <1>3 DEF Succeed
<1>5. \A s \in Tokens : HoldsRename(runs'[s]) => HoldsRename(runs[s])
  BY DEF HoldsRename
<1>6. OneRename' /\ RenameUndecided'
  BY <1>5 DEF ArchiveInv, OneRename, RenameUndecided
<1> QED
  BY <1>1, <1>4, <1>6 DEF ArchiveInv, SuccessIsFinal

(* Every step keeps the archive in order, however many runs archive at once. *)
LEMMA ArchiveStep == TypeOK /\ ArchiveInv /\ [Next]_vars => ArchiveInv'
<1> SUFFICES ASSUME TypeOK, ArchiveInv, [Next]_vars PROVE ArchiveInv'
  OBVIOUS
<1>0. runs \in [Tokens -> Executions] /\ job \in Jobs
  BY DEF TypeOK
<1>1. ASSUME NEW t \in Tokens, Claim(t) PROVE ArchiveInv'
  <2>1. \A s \in Tokens : s # t => runs'[s].pc = runs[s].pc /\ runs'[s].saw = runs[s].saw
    BY <1>0, <1>1, StaleFacts DEF Claim
  <2>2. runs'[t].pc \notin {"commit", "unsure", "refused", "rollback"}
    BY ZenonT(60), <1>0, <1>1, StaleFacts, FreshFacts DEF Claim, Mode
  <2>3. job'.state # "SUCCEEDED"
    BY <1>0, <1>1 DEF Claim, Claims, Jobs
  <2> QED
    BY <1>1, <2>1, <2>2, <2>3, CalmStep DEF Calm, Claim
<1>2. ASSUME NEW t \in Tokens, Lock(t) \/ Postpone(t) \/ Persist(t) \/ Answer(t) \/ Conclude(t)
      PROVE  ArchiveInv'
  <2>1. CASE Lock(t)
    BY <1>0, <2>1, SaveArchive DEF Lock, Jobs
  <2>2. CASE Persist(t)
    BY <1>0, <2>2, SaveArchive DEF Persist, Jobs
  <2>3. CASE Answer(t)
    <3>1. Answered(runs[t].saw).state = "SUCCEEDED" => job.state = "SUCCEEDED"
      BY <1>0 DEF Answered, Released, Jobs
    <3> QED
      BY <2>3, <3>1, SaveArchive DEF Answer
  <2>4. CASE Conclude(t)
    <3>1. Concluded(runs[t].pc, runs[t].saw).state # "SUCCEEDED"
      BY <1>0 DEF Concluded, Absent, Released, Jobs
    <3> QED
      BY <2>4, <3>1, SaveArchive DEF Conclude
  <2>5. CASE Postpone(t)
    <3>1. PICK st \in {"SUBMITTING", "NEEDS_ATTENTION"} : Save(t, Released([job EXCEPT !.state = st]), "idle")
      BY <2>5 DEF Postpone
    <3>2. Released([job EXCEPT !.state = st]).state = st
      BY <1>0 DEF Released, Jobs
    <3> QED
      BY <3>1, <3>2, SaveArchive
  <2> QED
    BY <1>2, <2>1, <2>2, <2>3, <2>4, <2>5
<1>3. ASSUME NEW t \in Tokens, Begin(t) \/ Mark(t) PROVE ArchiveInv'
  <2>1. \/ runs' = Saw(t, "answer", "notsent")
        \/ runs' = Saw(t, "mark", "")
        \/ runs' = Saw(t, "wait", "")
        \/ runs' = Saw(t, "answer", FromLedger)
    BY <1>3 DEF Begin, Mark
  <2>2. UNCHANGED <<job, disk, committing, overtaken>>
    BY <1>3 DEF Begin, Mark
  <2> QED
    BY <2>1, <2>2, SawArchive
<1>4. ASSUME UNCHANGED <<runs, disk, committing, overtaken>>,
             job'.state = job.state, job'.dir = job.dir, job'.live => job.live
      PROVE  ArchiveInv'
  BY <1>4, CalmStep DEF Calm
<1>5. ASSUME NEW t \in Tokens, Accepted(t) \/ Refused(t) \/ TurnedAway(t) \/ NoAnswer(t) PROVE ArchiveInv'
  <2>1. ASSUME NEW st, NEW saw, Reply(t, st, saw), UNCHANGED <<job, disk, committing, overtaken>> PROVE ArchiveInv'
    BY <1>4, <2>1, SawArchive DEF Reply
  <2>2. CASE Accepted(t)
    BY <2>1, <2>2 DEF Accepted
  <2>3. CASE Refused(t)
    BY <2>1, <2>3 DEF Refused
  <2>4. CASE TurnedAway(t)
    BY <2>1, <2>4 DEF TurnedAway
  <2>5. CASE NoAnswer(t)
    BY <2>1, <2>5 DEF NoAnswer
  <2> QED
    BY <1>5, <2>2, <2>3, <2>4, <2>5
<1>6. ASSUME NEW t \in Tokens, Look(t) \/ LookFails(t) PROVE ArchiveInv'
  <2>1. PICK saw : runs' = Saw(t, runs[t].pc, saw)
    BY <1>6 DEF Look, LookFails
  <2>2. runs[t].pc \in {"poll", "offers", "verify"} /\ UNCHANGED <<job, disk, committing, overtaken>>
    BY <1>6 DEF Look, LookFails, Reading
  <2> QED
    BY <2>1, <2>2, SawArchive
<1>7. ASSUME NEW t \in Tokens, Crash(t) PROVE ArchiveInv'
  BY <1>7, EndArchive DEF Crash
<1>8. ASSUME NEW t \in Tokens, Enter(t) PROVE ArchiveInv'
  <2>1. CASE Accept(t)
    <3>1. runs'[t].pc = "move" /\ \A s \in Tokens : s # t => runs'[s] = runs[s]
      BY <1>0, <1>8, <2>1 DEF Enter, Executions
    <3> QED
      BY <1>8, <3>1, CalmStep DEF Calm, Enter
  <2>2. CASE ~Accept(t)
    BY <1>8, <2>2, EndArchive DEF Enter
  <2> QED
    BY <2>1, <2>2
<1>9. ASSUME NEW t \in Tokens, Move(t) PROVE ArchiveInv'
  <2>1. /\ runs'[t].pc = "commit" /\ (runs'[t].saw = "moved" => disk = "processing")
        /\ \A s \in Tokens : s # t => runs'[s] = runs[s]
    <3>1. CASE runs' = Saw(t, "commit", "moved") /\ disk = "processing"
      BY <1>0, <3>1, SawStep
    <3>2. CASE runs' = Saw(t, "commit", "found")
      BY <1>0, <3>2, SawStep
    <3> QED
      BY <1>9, <3>1, <3>2 DEF Move
  <2>2. disk = "processing" => \A s \in Tokens : ~HoldsRename(runs[s])
    BY DEF ArchiveInv, OneRename
  <2>3. HoldsRename(runs'[t]) => disk = "processing"
    BY <2>1 DEF HoldsRename
  <2>4. disk' = "success" /\ UNCHANGED <<job, committing, overtaken>>
    BY <1>9 DEF Move
  <2>5. OneRename'
    BY <2>1, <2>2, <2>3, <2>4 DEF ArchiveInv, OneRename
  <2>6. RenameUndecided'
    BY <2>1, <2>3, <2>4 DEF ArchiveInv, RenameUndecided
  <2>7. Undone' => Undone
    BY <2>1, <2>4 DEF Undone
  <2> QED
    BY <2>4, <2>5, <2>6, <2>7 DEF ArchiveInv, SuccessIsFinal
<1>10. ASSUME NEW t \in Tokens, Commit(t) PROVE ArchiveInv'
  <2>1. runs[t].pc = "commit" /\ committing' = "" /\ UNCHANGED disk
    BY <1>10 DEF Commit
  <2>2. CASE Accept(t)
    <3>1. Succeed(runs[t].saw) /\ runs' = [Stale EXCEPT ![t] = Idle]
      BY <1>10, <2>2 DEF Commit
    <3>2. \A s \in Tokens :
            /\ s # t => runs'[s].pc = runs[s].pc /\ runs'[s].saw = runs[s].saw
            /\ runs'[t].pc = "idle"
      BY <1>0, <3>1, StaleFacts, FreshFacts
    <3>3. runs[t].saw = "moved" => disk = "success" /\ \A s \in Tokens : runs[s].pc # "rollback"
      BY <2>1 DEF ArchiveInv, OneRename, HoldsRename
    <3> QED
      BY <2>1, <3>1, <3>2, <3>3, SucceedArchive
  <2>3. CASE ~Accept(t)
    <3>1. UNCHANGED <<job, disk, committing, overtaken>> /\ committing = ""
      BY <1>10, <2>3 DEF Commit
    <3>2. CASE runs[t].saw = "moved" /\ runs' = Saw(t, "refused", "")
      BY <2>1, <3>1, <3>2, RenameGoesOn DEF HoldsRename
    <3>3. CASE runs' = [runs EXCEPT ![t] = Idle]
      BY <3>1, <3>3, EndArchive
    <3> QED
      BY <1>10, <2>3, <3>2, <3>3 DEF Commit
  <2> QED
    BY <2>2, <2>3
<1>11. ASSUME NEW t \in Tokens, LoseCommit(t) PROVE ArchiveInv'
  <2>1. runs[t].pc = "commit" /\ UNCHANGED <<job, disk, overtaken>>
    BY <1>11 DEF LoseCommit
  <2>2. CASE runs[t].saw = "moved" /\ runs' = Saw(t, "unsure", "")
    BY <2>1, <2>2, RenameGoesOn DEF HoldsRename
  <2>3. CASE committing' = "found" /\ runs' = [runs EXCEPT ![t] = Idle]
    <3>1. \A s \in Tokens : runs'[s].pc # "idle" => runs'[s] = runs[s]
      BY <1>0, <2>3, FreshFacts
    <3>2. \A s \in Tokens : HoldsRename(runs'[s]) => HoldsRename(runs[s])
      BY <3>1 DEF HoldsRename
    <3>3. Undone' => Undone
      BY <2>1, <3>1 DEF Undone
    <3> QED
      BY <2>1, <2>3, <3>2, <3>3 DEF ArchiveInv, OneRename, RenameUndecided, SuccessIsFinal
  <2> QED
    BY <1>11, <2>2, <2>3 DEF LoseCommit
<1>12. ASSUME LateCommit PROVE ArchiveInv'
  <2>1. committing' = "" /\ UNCHANGED disk
    BY <1>12 DEF LateCommit
  <2>2. CASE Succeed(committing) /\ runs' = Stale
    <3>1. \A s \in Tokens : runs'[s].pc = runs[s].pc /\ runs'[s].saw = runs[s].saw
      BY <1>0, <2>2, StaleFacts
    <3>2. committing = "moved" => disk = "success" /\ \A s \in Tokens : runs[s].pc # "rollback"
      BY DEF ArchiveInv, RenameUndecided, HoldsRename
    <3> QED
      BY <2>1, <2>2, <3>1, <3>2, SucceedArchive
  <2>3. CASE UNCHANGED <<job, runs, overtaken>>
    BY <2>1, <2>3 DEF ArchiveInv, OneRename, RenameUndecided, SuccessIsFinal, Undone
  <2> QED
    BY <1>12, <2>2, <2>3 DEF LateCommit
<1>13. ASSUME NEW t \in Tokens, Readback(t) PROVE ArchiveInv'
  <2>1. UNCHANGED <<job, disk, committing, overtaken>>
    BY <1>13 DEF Readback
  <2>2. CASE runs' = Saw(t, "rollback", "") /\ runs[t].pc = "refused" /\ job.dir = "processing"
    <3>1. HoldsRename(runs[t]) /\ runs[t].pc # "unsure"
      BY <2>2 DEF HoldsRename
    <3>2. committing # "moved" /\ job.state # "SUCCEEDED"
      BY <2>2, <3>1 DEF ArchiveInv, RenameUndecided, SuccessIsFinal
    <3> QED
      BY <2>1, <2>2, <3>1, <3>2, RenameGoesOn
  <2>3. CASE runs' = [runs EXCEPT ![t] = Idle]
    BY <2>1, <2>3, EndArchive
  <2> QED
    BY <1>13, <2>2, <2>3 DEF Readback
<1>14. ASSUME NEW t \in Tokens, Rollback(t) PROVE ArchiveInv'
  <2>1. HoldsRename(runs[t]) /\ runs[t].pc = "rollback"
    BY <1>14 DEF Rollback, HoldsRename
  <2>2. \A s \in Tokens : ~HoldsRename(runs'[s])
    <3>1. runs'[t] = Idle /\ \A s \in Tokens : s # t => runs'[s] = runs[s]
      BY <1>0, <1>14 DEF Rollback
    <3>2. ~HoldsRename(Idle)
      BY FreshFacts DEF HoldsRename
    <3> QED
      BY <2>1, <3>1, <3>2 DEF ArchiveInv, OneRename
  <2>3. committing # "moved"
    BY <2>1 DEF ArchiveInv, RenameUndecided
  <2>4. job.state = "SUCCEEDED" => overtaken
    BY <2>1 DEF ArchiveInv, SuccessIsFinal, Undone
  <2> QED
    BY <1>14, <2>2, <2>3, <2>4 DEF Rollback, ArchiveInv, OneRename, RenameUndecided, SuccessIsFinal
<1>15. ASSUME Expire \/ Create \/ Fail \/ Approve \/ UNCHANGED vars PROVE ArchiveInv'
  <2>1. UNCHANGED <<runs, disk, committing, overtaken>>
    BY <1>15 DEF Expire, Create, Fail, Approve, Becomes, vars
  <2>2. job'.state = job.state /\ job'.dir = job.dir /\ (job'.live => job.live)
    BY <1>0, <1>15 DEF Expire, Create, Fail, Approve, Becomes, vars, Jobs
  <2> QED
    BY <1>4, <2>1, <2>2
<1> QED
  BY <1>1, <1>2, <1>3, <1>5, <1>6, <1>7, <1>8, <1>9, <1>10, <1>11, <1>12, <1>13, <1>14, <1>15
     DEF Next, Own, Mishap

(* A publication that succeeded stays archived, whatever dies, is lost or is late    *)
(* and however many runs archive at once, unless it succeeded on a directory that    *)
(* another run was already moving back.                                              *)
THEOREM SuccessStaysArchived == Spec => []SuccessIsArchived
<1>1. Init => ArchiveInv
  <2> SUFFICES ASSUME Init PROVE ArchiveInv
    OBVIOUS
  <2>1. \A t \in Tokens : ~HoldsRename(runs[t])
    BY FreshFacts DEF Init, HoldsRename
  <2>2. committing = "" /\ job.state = "READY"
    BY DEF Init
  <2> QED
    BY <2>1, <2>2 DEF ArchiveInv, OneRename, RenameUndecided, SuccessIsFinal
<1>2. TypeOK /\ ArchiveInv /\ [Next]_vars => ArchiveInv'
  BY ArchiveStep
<1>3. TypeOK /\ ArchiveInv => SuccessIsArchived
  BY DEF TypeOK, ArchiveInv, SuccessIsFinal, Undone, SuccessIsArchived
<1> QED
  BY <1>1, <1>2, <1>3, TypeCorrect, PTL DEF Spec
===========================================================================
