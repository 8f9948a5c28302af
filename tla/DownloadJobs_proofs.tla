------------------------ MODULE DownloadJobs_proofs ------------------------
(***************************************************************************)
(* Proofs about the download queue, for any finite sets of SKUs and        *)
(* workers, any batches and any bounds.                                    *)
(***************************************************************************)
EXTENDS DownloadJobs, FiniteSetTheorems, TLAPS

\* Rows are inserted at the end; of the rows of a SKU only the last may be
\* active, and a job that is not over may still wait for the browser.
RowsInv ==
  /\ Used = 1 .. Cardinality(Used)
  /\ \A j \in Used : sku[j] \in Sku
  /\ \A i, j \in Used : i < j /\ sku[i] = sku[j] => status[i] \in Over
  /\ \A j \in Job : status[j] \notin Over => waits[j] < MaxWaits

\* The worker whose token is in the row is the one that claimed it last.
HeldInv ==
  /\ \A w \in Worker : Working(w) => mem[w].job \in Job
  /\ \A w \in Worker : Holds(w) => holder[mem[w].job] = w
  /\ ResultFromHolder

\* Threads stay with one SKU, and rows with a batch that is there.
ToldInv ==
  /\ \A j \in Used : thread[j] # 0 => thread[j] \in Used /\ sku[thread[j]] = sku[j]
  /\ \A t \in Job : note[t].made => t \in Used
  /\ \A j \in Used : inBatch[j] # Nobody => batch[inBatch[j]].state # "none"
  /\ OutcomesTold

Inv == TypeOK /\ RowsInv /\ HeldInv /\ ToldInv

---------------------------------------------------------------------------
(* Rows and tokens. *)

(* The image of a finite set. *)
LEMMA FiniteImage ==
  ASSUME NEW S, IsFiniteSet(S), NEW f
  PROVE  /\ IsFiniteSet({f[x] : x \in S})
         /\ Cardinality({f[x] : x \in S}) <= Cardinality(S)
<1> DEFINE T == {f[x] : x \in S}
           g == [x \in S |-> f[x]]
<1>1. g \in Surjection(S, T)
  BY DEF Surjection
<1> HIDE DEF g
<1> QED
  BY <1>1, FS_Surjection

(* There is one token more than workers. *)
LEMMA FreshFacts == FreshToken \in Token /\ \A w \in Worker : mem[w].token # FreshToken
<1> DEFINE f == [w \in Worker |-> mem[w].token]
           A == {f[w] : w \in Worker}
           n == Cardinality(Worker)
<1>1. IsFiniteSet(Worker) /\ n \in Nat
  BY DownloadAssumption, FS_CardinalityType
<1>2. IsFiniteSet(A) /\ Cardinality(A) <= n
  <2> HIDE DEF f
  <2> QED
    BY <1>1, FiniteImage
<1>3. ~ (Token \subseteq A)
  <2> HIDE DEF A, n
  <2>1. Token = 1 .. n + 1
    BY DEF Token, n
  <2>2. IsFiniteSet(1 .. n + 1) /\ Cardinality(1 .. n + 1) = n + 1
    BY <1>1, FS_Interval
  <2>3. ASSUME Token \subseteq A PROVE Cardinality(1 .. n + 1) <= Cardinality(A)
    BY <1>2, <2>1, <2>3, FS_Subset
  <2>4. Cardinality(A) \in Nat
    BY <1>2, FS_CardinalityType
  <2> QED
    BY <1>1, <1>2, <2>2, <2>3, <2>4
<1>4. PICK t \in Token : t \notin A
  BY <1>3
<1>5. \A w \in Worker : mem[w].token # t
  BY <1>4
<1> QED
  BY <1>5 DEF FreshToken

(* There are finitely many rows. *)
LEMMA RowsFinite ==
  /\ IsFiniteSet(Job) /\ Cardinality(Job) = MaxJobs
  /\ \A S \in SUBSET Job : IsFiniteSet(S) /\ Cardinality(S) \in Nat
<1>1. MaxJobs \in Nat
  BY DownloadAssumption
<1>2. IsFiniteSet(Job) /\ Cardinality(Job) = MaxJobs
  BY <1>1, FS_Interval DEF Job
<1> QED
  BY <1>2, FS_Subset, FS_CardinalityType

(* Rows that are inserted were free, follow the others, and have each its SKU. *)
InsertedAfter(next) ==
  /\ DOMAIN next \subseteq Free
  /\ \A i, j \in DOMAIN next : next[i] = next[j] => i = j
  /\ \A i \in Used : \A j \in DOMAIN next : i < j
  /\ Used \cup DOMAIN next = 1 .. Cardinality(Used \cup DOMAIN next)

(* The rows that a list of free rows stands for, one for each SKU. *)
LEMMA InsertFacts ==
  ASSUME RowsInv, NEW S, IsFiniteSet(S), Cardinality(S) <= Cardinality(Free), NEW next \in Rows(S)
  PROVE  /\ InsertedAfter(next)
         /\ \A j \in DOMAIN next : next[j] \in S
         /\ \A s \in S : \E j \in DOMAIN next : next[j] = s
<1> DEFINE u == Cardinality(Used)
           c == Cardinality(S)
           D == u + 1 .. u + c
<1>1. u \in Nat /\ c \in Nat /\ MaxJobs \in Nat
  BY RowsFinite, FS_CardinalityType, DownloadAssumption DEF Used
<1>2. /\ next \in [D -> S] /\ DOMAIN next = D
      /\ \A s \in S : \E j \in D : next[j] = s
  BY DEF Rows
<1>3. Used = 1 .. u
  BY DEF RowsInv
<1> HIDE DEF u, c
<1>4. u <= MaxJobs
  <2>1. Used \in SUBSET Job
    BY DEF Used
  <2> QED
    BY <2>1, RowsFinite, FS_Subset DEF u
<1>5. Free = u + 1 .. MaxJobs
  BY <1>1, <1>3, <1>4 DEF Free, Job
<1>6. Cardinality(Free) = MaxJobs - u
  <2>1. u + 1 \in Int /\ MaxJobs \in Int
    BY <1>1
  <2>2. Cardinality(u + 1 .. MaxJobs) = IF u + 1 > MaxJobs THEN 0 ELSE MaxJobs - (u + 1) + 1
    BY <2>1, FS_Interval
  <2> QED
    BY <1>1, <1>4, <1>5, <2>2
<1>7. u + c <= MaxJobs
  BY <1>1, <1>6 DEF c
<1>8. IsFiniteSet(D) /\ Cardinality(D) = c
  BY <1>1, FS_Interval
<1>9. next \in Injection(D, S)
  <2>1. next \in Surjection(D, S)
    BY <1>2 DEF Surjection
  <2>2. Cardinality(D) = Cardinality(S)
    BY <1>8 DEF c
  <2> HIDE DEF D
  <2> QED
    BY <1>8, <2>1, <2>2, FS_SurjSameCardinalityImpliesInj
<1>10. \A i, j \in D : next[i] = next[j] => i = j
  BY <1>2, <1>9 DEF Injection, IsInjective
<1>11. Used \cup D = 1 .. u + c /\ Cardinality(1 .. u + c) = u + c
  BY <1>1, <1>3, FS_Interval
<1>12. D \subseteq Free /\ \A i \in Used : \A j \in D : i < j
  BY <1>1, <1>3, <1>5, <1>7
<1> QED
  BY <1>2, <1>10, <1>11, <1>12 DEF InsertedAfter

---------------------------------------------------------------------------
(* The kinds of steps there are. *)

\* What is to be done to a row outlives no change of the memory of its worker.
Kept ==
  /\ mem' \in [Worker -> Memories]
  /\ \A w \in Worker : Working(w)' => /\ Working(w)
                                      /\ mem'[w].job = mem[w].job /\ mem'[w].token = mem[w].token

\* No row changes, but times and perhaps who has closed a thread.
QuietStep ==
  /\ UNCHANGED <<status, ids, thread, token, waits, holder, by, batch>>
  /\ Kept
  /\ \/ UNCHANGED note
     \/ \E t \in Job : /\ note[t].made
                       /\ \E c \in {"user", "nobody"} : note' = [note EXCEPT ![t].closed = c]

\* Job j ends, or waits for the browser.
EndStep(j) ==
  /\ status[j] = "RUNNING" /\ Kept
  /\ token' = [token EXCEPT ![j] = 0]
  /\ waits' \in {waits, [waits EXCEPT ![j] = @ + 1]}
  /\ \/ \E st \in Over : /\ status' = [status EXCEPT ![j] = st]
                         /\ \E who \in {holder[j], Expiry} : Recorded(j, st, who)
     \/ /\ status' = [status EXCEPT ![j] = "WAITING_RESOURCE"]
        /\ waits'[j] < MaxWaits
        /\ UNCHANGED <<thread, told, by>>
  /\ UNCHANGED <<ids, holder>>

\* Worker w takes job j, and the only job that may be running is given up, if not j.
TakeStep(w, j) ==
  /\ status[j] \in Active
  /\ \E gone \in SUBSET (Running \ {j}) :
       /\ Running \subseteq gone \cup {j}
       /\ Take(w, j, gone)
       /\ \/ gone = {} /\ UNCHANGED <<thread, told, by>>
          \/ \E i \in Running : gone = {i} /\ Recorded(i, "FAILED", Expiry)
  /\ UNCHANGED <<ids, waits>>

\* Rows are inserted for SKUs that have none active: for a SKU, a batch or a thread.
InsertStep(next, b, t) ==
  /\ InsertedAfter(next)
  /\ \A j \in DOMAIN next : next[j] \in Sku /\ ~IsActive(next[j])
  /\ Insert(next, b, t)
  /\ \/ b = Nobody /\ t = 0 /\ UNCHANGED told
     \/ /\ b = Nobody /\ t \in Job /\ note[t].made
        /\ \A j \in DOMAIN next : next[j] = sku[t]
        /\ note' = [note EXCEPT ![t].history = @ \cup {<<j, "QUEUED">> : j \in DOMAIN next},
                                ![t].closed = "nobody"]
        /\ UNCHANGED batch
     \/ /\ b \in Batch /\ t = 0 /\ batch[b].state = "none"
        /\ UNCHANGED note
        /\ \E n \in Nat : batch' = [batch EXCEPT ![b] =
             [state |-> IF DOMAIN next = {} THEN "finished" ELSE "open",
              skipped |-> n, succeeded |-> 0, failed |-> 0]]

(* Writing the fields of the memory of a worker. *)
LEMMA MemFields ==
  /\ Idle \in Memories /\ Idle.at = "idle"
  /\ Down \in Memories /\ Down.at = "down"
  /\ \A j \in Job : \A t \in Token :
       LET m == [Down EXCEPT !.at = "invoke", !.job = j, !.token = t] IN
         m \in Memories /\ m.at = "invoke" /\ m.job = j /\ m.token = t
BY DEF Idle, Down, Memories, Places, Answer

(* One worker goes on, with the same job, or without one. *)
LEMMA KeptFacts ==
  ASSUME TypeOK, NEW w \in Worker,
         NEW m \in Memories, mem' = [mem EXCEPT ![w] = m],
         \/ m.at \in {"idle", "stopped", "down"}
         \/ Working(w) /\ m.job = mem[w].job /\ m.token = mem[w].token
  PROVE  Kept
BY DEF Kept, TypeOK, Working

(* The changes of its memory by which a worker takes no new job. *)
LEMMA MemKept ==
  ASSUME TypeOK, NEW w \in Worker,
         \/ Done(w) \/ mem' = [mem EXCEPT ![w] = Down] \/ Goto(w, "stopped")
         \/ Working(w) /\ (ToFail(w) \/ \E a \in Answer : ToReport(w, a))
         \/ Working(w) /\ mem' = [mem EXCEPT ![w].lost = TRUE]
         \/ UNCHANGED mem
  PROVE  Kept
<1>1. mem \in [Worker -> Memories] /\ mem[w] \in Memories
  BY DEF TypeOK
<1>2. CASE UNCHANGED mem
  BY <1>1, <1>2 DEF Kept, Working
<1>3. CASE Done(w)
  BY <1>3, MemFields, KeptFacts DEF Done
<1>4. CASE mem' = [mem EXCEPT ![w] = Down]
  BY <1>4, MemFields, KeptFacts
<1>5. CASE Goto(w, "stopped")
  <2> DEFINE m == [mem[w] EXCEPT !.at = "stopped"]
  <2>1. m \in Memories /\ m.at = "stopped"
    BY <1>1 DEF Places, Memories
  <2>2. mem' = [mem EXCEPT ![w] = m]
    BY <1>5 DEF Goto
  <2> HIDE DEF m
  <2> QED
    BY <2>1, <2>2, KeptFacts
<1>6. ASSUME Working(w), NEW p \in Places, NEW a \in Answer, mem' = [mem EXCEPT ![w].at = p, ![w].answer = a]
      PROVE  Kept
  <2> DEFINE m == [mem[w] EXCEPT !.at = p, !.answer = a]
  <2>1. m \in Memories /\ m.job = mem[w].job /\ m.token = mem[w].token
    BY <1>1 DEF Memories
  <2>2. mem' = [mem EXCEPT ![w] = m]
    BY <1>1, <1>6
  <2> HIDE DEF m
  <2> QED
    BY <1>6, <2>1, <2>2, KeptFacts
<1>7. CASE Working(w) /\ mem' = [mem EXCEPT ![w].lost = TRUE]
  <2> DEFINE m == [mem[w] EXCEPT !.lost = TRUE]
  <2>1. m \in Memories /\ m.job = mem[w].job /\ m.token = mem[w].token
    BY <1>1 DEF Memories
  <2>2. mem' = [mem EXCEPT ![w] = m]
    BY <1>1, <1>7
  <2> HIDE DEF m
  <2> QED
    BY <1>7, <2>1, <2>2, KeptFacts
<1>8. CASE Working(w) /\ ToFail(w)
  BY <1>6, <1>8 DEF ToFail, Places, Answer
<1>9. CASE Working(w) /\ \E a \in Answer : ToReport(w, a)
  BY <1>6, <1>9 DEF ToReport, Places
<1> QED
  BY <1>2, <1>3, <1>4, <1>5, <1>7, <1>8, <1>9

(* A step that writes no row is quiet. *)
LEMMA QuietFacts == UNCHANGED <<rows, told>> /\ Kept => QuietStep
BY DEF QuietStep, rows, lease, told, times

(* A worker that writes an outcome holds the job; where it goes then is not said here. *)
LEMMA Finishing ==
  ASSUME Inv, NEW w \in Worker, Working(w), Kept,
         \/ \E outcome \in Over : Finish(w, outcome)
         \/ Defer(w)
  PROVE  QuietStep \/ \E j \in Job : EndStep(j)
<1> DEFINE j == mem[w].job
<1>1. CASE ~Holds(w)
  BY <1>1, QuietFacts DEF Finish, Defer
<1>2. CASE Holds(w)
  <2>1. j \in Job /\ holder[j] = w /\ status[j] = "RUNNING"
    BY <1>2 DEF Inv, HeldInv, Holds
  <2>2. CASE \E outcome \in Over : Finish(w, outcome)
    BY <1>2, <2>1, <2>2 DEF Finish, EndStep
  <2>3. CASE Defer(w)
    <3>1. waits' = [waits EXCEPT ![j] = @ + 1] /\ token' = [token EXCEPT ![j] = 0] /\ UNCHANGED <<ids, holder>>
      BY <1>2, <2>3 DEF Defer
    <3>2. CASE Exhausted(j)
      <4>1. status' = [status EXCEPT ![j] = "FAILED"] /\ Recorded(j, "FAILED", w)
        BY <1>2, <2>3, <3>2 DEF Defer
      <4> QED
        BY <2>1, <3>1, <4>1 DEF EndStep, Over
    <3>3. CASE ~Exhausted(j)
      <4>1. status' = [status EXCEPT ![j] = "WAITING_RESOURCE"] /\ UNCHANGED <<thread, told, by>>
        BY <1>2, <2>3, <3>3 DEF Defer
      <4>2. waits'[j] < MaxWaits
        <5>1. waits \in [Job -> 0 .. MaxWaits] /\ MaxWaits \in Nat
          BY DownloadAssumption DEF Inv, TypeOK
        <5> QED
          BY <2>1, <3>1, <3>3, <5>1 DEF Exhausted
      <4> QED
        BY <2>1, <3>1, <4>1, <4>2 DEF EndStep
    <3> QED
      BY <3>2, <3>3
  <2> QED
    BY <2>2, <2>3
<1> QED
  BY <1>1, <1>2

(* A worker that reports, or says that it could not, ends its job or is too late. *)
LEMMA Reporting ==
  ASSUME Inv, NEW w \in Worker, Report(w) \/ Fail(w)
  PROVE  QuietStep \/ \E j \in Job : EndStep(j)
<1>1. Working(w)
  BY DEF Report, Fail, Working
<1>2. Kept
  BY <1>1, MemKept DEF Report, Fail, Inv
<1>3. CASE UNCHANGED <<rows, told>>
  BY <1>2, <1>3, QuietFacts
<1>4. CASE Defer(w) \/ Finish(w, "SUCCEEDED") \/ Finish(w, "FAILED")
  BY <1>1, <1>2, <1>4, Finishing DEF Over
<1> QED
  BY <1>3, <1>4 DEF Report, Fail

(* The steps by which a job is claimed, or given up. *)
LEMMA Taking ==
  ASSUME Inv, NEW w \in Worker, Recover(w) \/ Claim(w) \/ GiveUp(w)
  PROVE  (\E j \in Job : EndStep(j)) \/ \E v \in Worker, j \in Job : TakeStep(v, j)
<1>1. \A i, j \in Running : i = j
  BY DEF Inv, TypeOK, Running
<1>2. CASE Recover(w)
  <2>1. PICK j \in Lapsed : Take(w, j, {}) /\ UNCHANGED <<ids, thread, times, by, told>>
    BY <1>2 DEF Recover
  <2>2. j \in Job /\ status[j] \in Active /\ Running \subseteq {} \cup {j}
    BY <1>1 DEF Lapsed, Running, Active
  <2> QED
    BY <2>1, <2>2 DEF TakeStep, times
<1>3. CASE Claim(w)
  <2>1. PICK j \in Ready : Take(w, j, {}) /\ UNCHANGED <<ids, thread, times, by, told>>
    BY <1>3 DEF Claim
  <2>2. j \in Job /\ status[j] \in Active /\ Running \subseteq {} \cup {j}
    BY <1>3 DEF Claim, Ready, Active
  <2> QED
    BY <2>1, <2>2 DEF TakeStep, times
<1>4. CASE GiveUp(w)
  <2>1. PICK j \in Lapsed :
           /\ IF Ready = {}
              THEN /\ status' = [status EXCEPT ![j] = "FAILED"]
                   /\ token' = [token EXCEPT ![j] = 0] /\ left' = [left EXCEPT ![j] = 0]
                   /\ UNCHANGED <<holder, mem, faults>>
              ELSE \E i \in Ready : Take(w, i, {j})
           /\ Recorded(j, "FAILED", Expiry)
    BY <1>4 DEF GiveUp
  <2>2. j \in Running /\ j \in Job /\ status[j] = "RUNNING" /\ Running \subseteq {j}
    BY <1>1 DEF Lapsed, Running
  <2>3. UNCHANGED <<ids, waits>>
    BY <1>4 DEF GiveUp, times
  <2>4. CASE Ready = {}
    <3>1. Kept
      BY <2>1, <2>4, MemKept DEF Inv
    <3> QED
      BY <2>1, <2>2, <2>3, <2>4, <3>1 DEF EndStep, Over
  <2>5. CASE Ready # {}
    <3>1. PICK i \in Ready : Take(w, i, {j})
      BY <2>1, <2>5
    <3>2. i \in Job /\ status[i] \in Active /\ i # j
      BY <2>2 DEF Ready, Active
    <3>3. {j} \in SUBSET (Running \ {i})
      BY <2>2, <3>2
    <3> QED
      BY <2>1, <2>2, <2>3, <3>1, <3>2, <3>3 DEF TakeStep
  <2> QED
    BY <2>4, <2>5
<1> QED
  BY <1>2, <1>3, <1>4

(* The steps by which rows are inserted. *)
LEMMA Queueing ==
  ASSUME Inv, \/ \E s \in Sku : Enqueue(s)
              \/ \E b \in Batch : EnqueueBatch(b)
              \/ \E t \in Job : RetryFrom(t)
  PROVE  \E next, b, t : InsertStep(next, b, t)
<1>1. ASSUME NEW s, Free # {} PROVE IsFiniteSet({s}) /\ Cardinality({s}) <= Cardinality(Free)
  <2>1. Free \in SUBSET Job
    BY DEF Free
  <2>2. Cardinality(Free) \in Nat /\ Cardinality(Free) # 0 /\ Cardinality({s}) = 1 /\ IsFiniteSet({s})
    BY <1>1, <2>1, RowsFinite, FS_EmptySet, FS_Singleton
  <2> QED
    BY <2>2
<1>2. ASSUME NEW s \in Sku, Enqueue(s) PROVE \E next, b, t : InsertStep(next, b, t)
  <2>1. PICK next \in Rows({s}) : Insert(next, Nobody, 0)
    BY <1>2 DEF Enqueue
  <2>2. InsertedAfter(next) /\ \A j \in DOMAIN next : next[j] \in {s}
    BY <1>1, <1>2, InsertFacts DEF Enqueue, Inv
  <2>3. InsertStep(next, Nobody, 0)
    BY <1>2, <2>1, <2>2 DEF Enqueue, InsertStep
  <2> QED
    BY <2>3
<1>3. ASSUME NEW t \in Job, RetryFrom(t) PROVE \E next, b, u : InsertStep(next, b, u)
  <2>1. PICK next \in Rows({sku[t]}) :
           /\ Insert(next, Nobody, t)
           /\ note' = [note EXCEPT ![t].history = @ \cup {<<j, "QUEUED">> : j \in DOMAIN next},
                                   ![t].closed = "nobody"]
    BY <1>3 DEF RetryFrom
  <2>2. InsertedAfter(next) /\ \A j \in DOMAIN next : next[j] \in {sku[t]}
    BY <1>1, <1>3, InsertFacts DEF RetryFrom, Inv
  <2>3. sku[t] \in Sku
    BY <1>3 DEF RetryFrom, Inv, RowsInv, ToldInv
  <2>4. InsertStep(next, Nobody, t)
    BY <1>3, <2>1, <2>2, <2>3 DEF RetryFrom, InsertStep
  <2> QED
    BY <2>4
<1>4. ASSUME NEW b \in Batch, EnqueueBatch(b) PROVE \E next, c, t : InsertStep(next, c, t)
  <2> DEFINE queued == {s \in SkusOf[b] : ~IsActive(s)}
             skipped == Cardinality(SkusOf[b] \ queued)
  <2>1. PICK next \in Rows(queued) : Insert(next, b, 0)
    BY <1>4 DEF EnqueueBatch
  <2>2. SkusOf[b] \in SUBSET Sku /\ IsFiniteSet(Sku)
    BY DownloadAssumption
  <2>3. queued \in SUBSET Sku /\ SkusOf[b] \ queued \in SUBSET Sku
    BY <2>2
  <2>4. IsFiniteSet(queued) /\ skipped \in Nat
    <3> HIDE DEF queued
    <3> QED
      BY <2>2, <2>3, FS_Subset, FS_CardinalityType
  <2>5. Cardinality(queued) <= Cardinality(Free)
    BY <1>4 DEF EnqueueBatch
  <2>6. /\ InsertedAfter(next) /\ \A j \in DOMAIN next : next[j] \in queued
        /\ \A s \in queued : \E j \in DOMAIN next : next[j] = s
    <3> HIDE DEF queued
    <3> QED
      BY <2>1, <2>4, <2>5, InsertFacts DEF Inv
  <2>7. (queued = {}) = (DOMAIN next = {})
    <3> HIDE DEF queued
    <3> QED
      BY <2>6
  <2>8. /\ batch[b].state = "none" /\ UNCHANGED note
        /\ batch' = [batch EXCEPT ![b] = [state |-> IF queued = {} THEN "finished" ELSE "open",
                                          skipped |-> skipped, succeeded |-> 0, failed |-> 0]]
    BY <1>4 DEF EnqueueBatch
  <2>9. \A j \in DOMAIN next : next[j] \in Sku /\ ~IsActive(next[j])
    BY <2>3, <2>6
  <2> HIDE DEF queued, skipped
  <2>10. InsertStep(next, b, 0)
    BY <2>1, <2>4, <2>6, <2>7, <2>8, <2>9 DEF InsertStep
  <2> QED
    BY <2>10
<1> QED
  BY <1>2, <1>3, <1>4

(* Every step is of one of the four kinds. *)
LEMMA StepKinds ==
  Inv /\ [Next]_vars => \/ QuietStep
                        \/ \E j \in Job : EndStep(j)
                        \/ \E w \in Worker, j \in Job : TakeStep(w, j)
                        \/ \E next, b, t : InsertStep(next, b, t)
<1> SUFFICES ASSUME Inv, [Next]_vars
             PROVE  \/ QuietStep
                    \/ \E j \in Job : EndStep(j)
                    \/ \E w \in Worker, j \in Job : TakeStep(w, j)
                    \/ \E next, b, t : InsertStep(next, b, t)
  OBVIOUS
<1>1. ASSUME NEW w \in Worker, UNCHANGED <<rows, told>>,
             \/ Answered(w) \/ Unanswered(w) \/ Stop(w) \/ Start(w) \/ Crash(w) \/ Restart(w)
      PROVE  QuietStep
  <2>1. CASE Answered(w)
    BY <2>1, <1>1, MemKept, QuietFacts DEF Answered, Working, Inv
  <2>2. CASE Unanswered(w)
    <3>1. Working(w) /\ (Done(w) \/ ToFail(w) \/ ToReport(w, "failure"))
      BY <2>2 DEF Unanswered, Working
    <3>2. Kept
      BY <3>1, MemKept DEF Inv, Answer
    <3> QED
      BY <3>2, <1>1, QuietFacts
  <2>3. CASE Stop(w) \/ Start(w) \/ Crash(w) \/ Restart(w)
    BY <2>3, <1>1, MemKept, QuietFacts DEF Stop, Start, Crash, Restart, Inv
  <2> QED
    BY <1>1, <2>1, <2>2, <2>3
<1>2. ASSUME NEW w \in Worker, Renew(w) PROVE QuietStep
  <2>1. Kept
    BY <1>2, MemKept DEF Renew, Inv
  <2> QED
    BY <1>2, <2>1 DEF Renew, QuietStep, told, times
<1>3. CASE Tick
  <2>1. UNCHANGED mem
    BY <1>3 DEF Tick
  <2>2. Kept
    BY <2>1 DEF Inv, TypeOK, Kept, Working
  <2> QED
    BY <1>3, <2>2 DEF Tick, QuietStep, told
<1>4. ASSUME NEW t \in Job, Resolve(t) PROVE QuietStep
  <2>1. UNCHANGED mem /\ UNCHANGED <<rows, batch>>
    BY <1>4 DEF Resolve
  <2>2. Kept
    BY <2>1 DEF Inv, TypeOK, Kept, Working
  <2>3. note[t].made /\ \E c \in {"user", "nobody"} : note' = [note EXCEPT ![t].closed = c]
    BY <1>4 DEF Resolve
  <2> QED
    BY <2>1, <2>2, <2>3 DEF QuietStep, rows, lease, times
<1>5. CASE UNCHANGED vars
  <2>1. UNCHANGED <<rows, told, mem>>
    BY <1>5 DEF vars
  <2>2. Kept
    BY <2>1 DEF Inv, TypeOK, Kept, Working
  <2> QED
    BY <2>1, <2>2, QuietFacts
<1>6. ASSUME NEW w \in Worker, Answered(w) \/ Unanswered(w) \/ Stop(w) \/ Start(w) \/ Crash(w) \/ Restart(w)
      PROVE  QuietStep
  BY <1>1, <1>6 DEF Answered, Unanswered, Stop, Start, Crash, Restart
<1> QED
  BY <1>2, <1>3, <1>4, <1>5, <1>6, Taking, Reporting, Queueing DEF Next, Request, Work, Invoke

---------------------------------------------------------------------------
(* What the kinds of steps do to rows, leases and what is told. *)

\* The variables whose types say something to the other invariants.
MainTypes ==
  /\ status \in [Job -> Statuses]
  /\ sku \in [Job -> Sku \cup {Nobody}] /\ inBatch \in [Job -> Batch \cup {Nobody}]
  /\ thread \in [Job -> Job \cup {0}] /\ token \in [Job -> Token \cup {0}]
  /\ waits \in [Job -> 0 .. MaxWaits]
  /\ note \in [Job -> Notes] /\ batch \in [Batch -> Batches] /\ mem \in [Worker -> Memories]
  /\ holder \in [Job -> Worker \cup {Nobody}] /\ by \in [Job -> Worker \cup {Nobody, Expiry}]

Exclusive ==
  /\ \A i, j \in Job : status[i] = "RUNNING" /\ status[j] = "RUNNING" => i = j
  /\ \A i, j \in Job : {status[i], status[j]} \subseteq Active /\ sku[i] = sku[j] => i = j
  /\ \A j \in Job : (status[j] = "RUNNING") = (token[j] # 0)

\* No row is inserted, none that is over changes.
Onward ==
  /\ status' \in [Job -> Statuses] /\ UNCHANGED ids
  /\ \A j \in Job : \/ status'[j] = status[j]
                    \/ status[j] \in Active /\ status'[j] \in Active
                    \/ status[j] = "RUNNING" /\ status'[j] \in Over

BatchOK(b) ==
  batch[b].state # "none" =>
    /\ (batch[b].state = "finished") = (\A j \in Job : inBatch[j] = b => status[j] \notin Active)
    /\ batch[b].state = "finished" =>
         /\ batch[b].succeeded = Cardinality({j \in Job : inBatch[j] = b /\ status[j] = "SUCCEEDED"})
         /\ batch[b].failed = Cardinality({j \in Job : inBatch[j] = b /\ status[j] = "FAILED"})

(* A batch is told of rightly, said without sets but for the numbers. *)
LEMMA BatchForm == BatchToldRight <=> \A b \in Batch : BatchOK(b)
<1>1. ASSUME NEW b \in Batch
      PROVE  /\ ({j \in Job : inBatch[j] = b /\ status[j] \in Active} = {})
                  <=> \A j \in Job : inBatch[j] = b => status[j] \notin Active
             /\ {j \in Job : inBatch[j] = b /\ status[j] \in {"SUCCEEDED"}}
                  = {j \in Job : inBatch[j] = b /\ status[j] = "SUCCEEDED"}
             /\ {j \in Job : inBatch[j] = b /\ status[j] \in {"FAILED"}}
                  = {j \in Job : inBatch[j] = b /\ status[j] = "FAILED"}
  OBVIOUS
<1> QED
  BY <1>1 DEF BatchToldRight, BatchOK

(* The same of the next state. *)
LEMMA BatchesTold == (\A b \in Batch : BatchOK(b)') => BatchToldRight'
<1>1. (\A b \in Batch : BatchOK(b))' => BatchToldRight'
  BY BatchForm, PTL
<1> QED
  BY <1>1

(* The parts of the type that the proofs use. *)
LEMMA MainFacts == TypeOK => MainTypes /\ Exclusive
BY DEF TypeOK, MainTypes, Exclusive

(* Rows keep their order and their SKUs when jobs go on. *)
LEMMA OnwardRows ==
  ASSUME Inv, Onward, waits' \in [Job -> 0 .. MaxWaits],
         \A j \in Job : status'[j] \notin Over => waits'[j] < MaxWaits
  PROVE  /\ Used' = Used /\ RowsInv'
         /\ \A i, j \in Job : {status'[i], status'[j]} \subseteq Active /\ sku'[i] = sku'[j] => i = j
<1>1. \A j \in Job : (status'[j] # "NONE") <=> (status[j] # "NONE")
  BY DEF Onward, Active, Over
<1>2. Used' = Used
  BY <1>1 DEF Used
<1>3. \A j \in Job : /\ status[j] \in Over => status'[j] \in Over
                     /\ status'[j] \in Active => status[j] \in Active
  BY DEF Onward, Active, Over
<1>4. UNCHANGED sku
  BY DEF Onward, ids
<1>5. Used \subseteq Job
  BY DEF Used
<1>6. \A i, j \in Job : {status[i], status[j]} \subseteq Active /\ sku[i] = sku[j] => i = j
  BY DEF Inv, TypeOK
<1> QED
  BY <1>2, <1>3, <1>4, <1>5, <1>6 DEF Inv, RowsInv

(* The batches of which no row changes between active, succeeded and failed. *)
LEMMA BatchKept ==
  ASSUME NEW b \in Batch, BatchOK(b), batch'[b] = batch[b],
         \A j \in Job : /\ (inBatch'[j] = b /\ status'[j] \in Active) <=> (inBatch[j] = b /\ status[j] \in Active)
                        /\ (inBatch'[j] = b /\ status'[j] = "SUCCEEDED") <=> (inBatch[j] = b /\ status[j] = "SUCCEEDED")
                        /\ (inBatch'[j] = b /\ status'[j] = "FAILED") <=> (inBatch[j] = b /\ status[j] = "FAILED")
  PROVE  BatchOK(b)'
<1>1. /\ {j \in Job : inBatch'[j] = b /\ status'[j] = "SUCCEEDED"} = {j \in Job : inBatch[j] = b /\ status[j] = "SUCCEEDED"}
      /\ {j \in Job : inBatch'[j] = b /\ status'[j] = "FAILED"} = {j \in Job : inBatch[j] = b /\ status[j] = "FAILED"}
      /\ (\A j \in Job : inBatch'[j] = b => status'[j] \notin Active) <=> (\A j \in Job : inBatch[j] = b => status[j] \notin Active)
  OBVIOUS
<1> QED
  BY <1>1 DEF BatchOK

(* While no job ends, nothing is to be told; a thread may be closed or opened by a user. *)
LEMMA ToldKept ==
  ASSUME Inv, Onward, UNCHANGED <<thread, batch>>, note' \in [Job -> Notes],
         \A j \in Job : status'[j] \in Over => status'[j] = status[j],
         \A t \in Job : /\ note'[t].made = note[t].made /\ note'[t].history = note[t].history
                        /\ note'[t].closed = "retry" => note[t].closed = "retry"
  PROVE  ToldInv'
<1>1. \A j \in Job : /\ (status'[j] # "NONE") <=> (status[j] # "NONE")
                     /\ (status'[j] \in Active) <=> (status[j] \in Active)
                     /\ (status'[j] = "SUCCEEDED") <=> (status[j] = "SUCCEEDED")
                     /\ (status'[j] = "FAILED") <=> (status[j] = "FAILED")
  BY DEF Onward, Active, Over
<1>2. Used' = Used
  BY <1>1 DEF Used
<1>3. UNCHANGED <<sku, inBatch>>
  BY DEF Onward, ids
<1>4. FailuresAreTold'
  <2>1. thread \in [Job -> Job \cup {0}] /\ FailuresAreTold
    BY DEF Inv, TypeOK, ToldInv, OutcomesTold
  <2> QED
    BY <1>1, <2>1 DEF FailuresAreTold
<1>5. BatchToldRight'
  <2>1. \A b \in Batch : BatchOK(b)
    BY BatchForm DEF Inv, ToldInv, OutcomesTold
  <2>2. \A b \in Batch : BatchOK(b)'
    BY <1>1, <1>3, <2>1, BatchKept
  <2> QED
    BY <2>2, BatchesTold
<1> QED
  BY <1>2, <1>3, <1>4, <1>5 DEF Inv, ToldInv, OutcomesTold

(* Writing the fields of a notification. *)
LEMMA NoteFields ==
  ASSUME NEW n \in Notes
  PROVE  /\ \A c \in Closers : /\ [n EXCEPT !.closed = c] \in Notes
                               /\ [n EXCEPT !.closed = c].made = n.made
                               /\ [n EXCEPT !.closed = c].history = n.history
                               /\ [n EXCEPT !.closed = c].closed = c
         /\ \A h \in SUBSET (Job \X {"QUEUED", "SUCCEEDED", "FAILED"}) : \A c \in Closers :
              LET k == [n EXCEPT !.history = n.history \cup h, !.closed = c] IN
                /\ k \in Notes /\ k.made = n.made
                /\ k.history = n.history \cup h /\ k.closed = c
BY DEF Notes

(* A quiet step disturbs nothing. *)
LEMMA QuietKept ==
  ASSUME Inv, QuietStep
  PROVE  MainTypes' /\ Exclusive' /\ RowsInv' /\ HeldInv' /\ ToldInv'
<1>0. UNCHANGED <<status, sku, inBatch, ids, thread, token, waits, holder, by, batch>>
  BY DEF QuietStep, ids
<1>1. Onward
  BY <1>0 DEF Onward, Inv, TypeOK
<1>2. /\ note' \in [Job -> Notes]
      /\ \A t \in Job : /\ note'[t].made = note[t].made /\ note'[t].history = note[t].history
                        /\ note'[t].closed = "retry" => note[t].closed = "retry"
  <2>1. note \in [Job -> Notes]
    BY DEF Inv, TypeOK
  <2>2. CASE UNCHANGED note
    BY <2>1, <2>2
  <2>3. ASSUME NEW t \in Job, NEW c \in {"user", "nobody"}, note' = [note EXCEPT ![t].closed = c]
        PROVE  <1>2
    <3> DEFINE n == [note[t] EXCEPT !.closed = c]
    <3>1. n \in Notes /\ n.made = note[t].made /\ n.history = note[t].history /\ n.closed = c
      BY <2>1 DEF Notes, Closers
    <3>2. note' = [note EXCEPT ![t] = n]
      BY <2>3
    <3> HIDE DEF n
    <3> QED
      BY <2>1, <3>1, <3>2
  <2> QED
    BY <2>2, <2>3 DEF QuietStep
<1>3. ToldInv'
  BY <1>0, <1>1, <1>2, ToldKept
<1>4. RowsInv'
  BY <1>0, <1>1, OnwardRows DEF Inv, RowsInv, TypeOK
<1>5. Exclusive'
  BY <1>0, MainFacts DEF Inv, Exclusive
<1>6. MainTypes'
  BY <1>0, <1>2, MainFacts DEF Inv, MainTypes, QuietStep, Kept
<1>7. HeldInv'
  <2>1. ResultFromHolder'
    BY <1>0 DEF Inv, HeldInv, ResultFromHolder
  <2>2. \A w \in Worker : Working(w)' => mem'[w].job \in Job
    BY DEF QuietStep, Kept, Inv, HeldInv
  <2>3. \A w \in Worker : Holds(w)' => Holds(w) /\ mem'[w].job = mem[w].job
    BY <1>0 DEF QuietStep, Kept, Holds
  <2> QED
    BY <1>0, <2>1, <2>2, <2>3 DEF Inv, HeldInv
<1> QED
  BY <1>3, <1>4, <1>5, <1>6, <1>7

(* A job ends: its row changes and it is told of. *)
Ends(j, outcome, who) ==
  /\ status[j] = "RUNNING" /\ status'[j] = outcome
  /\ outcome \in Over /\ who \in Worker \cup {Nobody, Expiry}
  /\ \A i \in Job \ {j} : \/ status'[i] = status[i]
                          \/ status[i] \in Active /\ status'[i] \in Active
  /\ Onward /\ Recorded(j, outcome, who)

(* The thread of a job that runs is of its SKU. *)
LEMMA ThreadFacts ==
  ASSUME Inv, NEW j \in Job, status[j] = "RUNNING"
  PROVE  /\ j \in Used /\ Thread(j) \in Used /\ sku[Thread(j)] = sku[j]
         /\ Thread(j) \in Job /\ Thread(j) # 0
         /\ thread[j] # 0 => thread[j] = Thread(j)
<1>1. j \in Used /\ 0 \notin Job
  BY DEF Used, Job
<1> QED
  BY <1>1 DEF Thread, Inv, ToldInv, Used

(* What is told of a failure. *)
LEMMA FailureTold ==
  ASSUME Inv, NEW j \in Job, NEW who, Ends(j, "FAILED", who)
  PROVE  /\ note' \in [Job -> Notes] /\ thread' \in [Job -> Job \cup {0}]
         /\ \A i \in Used : thread'[i] # 0 => thread'[i] \in Used /\ sku[thread'[i]] = sku[i]
         /\ \A t \in Job : note'[t].made => t \in Used
         /\ FailuresAreTold'
<1> DEFINE t == Thread(j)
           h == note[t].history \cup {<<j, "FAILED">>}
           n == [made |-> TRUE, history |-> h, closed |-> "nobody"]
<1>1. t \in Used /\ t \in Job /\ t # 0 /\ sku[t] = sku[j] /\ status[j] = "RUNNING"
  BY ThreadFacts DEF Ends
<1>2. note' = [note EXCEPT ![t] = n] /\ thread' = [thread EXCEPT ![j] = t]
  BY DEF Ends, Recorded, TellFailure
<1>3. note \in [Job -> Notes] /\ thread \in [Job -> Job \cup {0}]
  BY DEF Inv, TypeOK
<1>4. n \in Notes /\ n.made /\ n.history = h /\ n.closed = "nobody"
  BY <1>1, <1>3 DEF Notes, Closers
<1>5. <<j, "FAILED">> \in h /\ note[t].history \subseteq h
  OBVIOUS
<1> HIDE DEF t, h, n
<1>6. note' \in [Job -> Notes] /\ thread' \in [Job -> Job \cup {0}]
  BY <1>1, <1>2, <1>3, <1>4
<1>7. \A i \in Used : thread'[i] # 0 => thread'[i] \in Used /\ sku[thread'[i]] = sku[i]
  BY <1>1, <1>2, <1>3 DEF Inv, ToldInv, Used
<1>8. \A u \in Job : note'[u].made => u \in Used
  BY <1>1, <1>2, <1>3 DEF Inv, ToldInv
<1>9. FailuresAreTold'
  <2>1. SUFFICES ASSUME NEW k \in Job, status'[k] = "FAILED"
                 PROVE  /\ thread'[k] # 0
                        /\ <<k, "FAILED">> \in note'[thread'[k]].history
                        /\ \/ note'[thread'[k]].closed # "retry"
                           \/ \E i \in Job : i > k /\ thread'[i] = thread'[k] /\ status'[i] = "SUCCEEDED"
    BY DEF FailuresAreTold
  <2>2. CASE k = j
    BY <1>1, <1>2, <1>3, <1>4, <1>5, <2>2
  <2>3. CASE k # j
    <3>1. status[k] = "FAILED" /\ thread'[k] = thread[k]
      BY <1>2, <1>3, <2>1, <2>3 DEF Ends, Active
    <3>2. /\ thread[k] # 0 /\ <<k, "FAILED">> \in note[thread[k]].history /\ thread[k] \in Job
          /\ \/ note[thread[k]].closed # "retry"
             \/ \E i \in Job : i > k /\ thread[i] = thread[k] /\ status[i] = "SUCCEEDED"
      BY <1>3, <3>1 DEF Inv, ToldInv, OutcomesTold, FailuresAreTold
    <3>3. CASE thread[k] = t
      BY <1>1, <1>2, <1>3, <1>4, <1>5, <3>1, <3>2, <3>3
    <3>4. CASE thread[k] # t
      <4>1. note'[thread[k]] = note[thread[k]]
        BY <1>2, <1>3, <3>2, <3>4
      <4>2. \A i \in Job : status[i] = "SUCCEEDED" => status'[i] = "SUCCEEDED" /\ thread'[i] = thread[i]
        BY <1>1, <1>2, <1>3 DEF Ends, Active
      <4> QED
        BY <3>1, <3>2, <4>1, <4>2
    <3> QED
      BY <3>3, <3>4
  <2> QED
    BY <2>2, <2>3
<1> QED
  BY <1>6, <1>7, <1>8, <1>9

(* What is told of a success: the failures of its thread came before it. *)
LEMMA SuccessTold ==
  ASSUME Inv, NEW j \in Job, NEW who, Ends(j, "SUCCEEDED", who)
  PROVE  /\ note' \in [Job -> Notes] /\ thread' \in [Job -> Job \cup {0}]
         /\ \A i \in Used : thread'[i] # 0 => thread'[i] \in Used /\ sku[thread'[i]] = sku[i]
         /\ \A t \in Job : note'[t].made => t \in Used
         /\ FailuresAreTold'
<1> DEFINE t == thread[j]
           n == [note[t] EXCEPT !.history = @ \cup {<<j, "SUCCEEDED">>}, !.closed = "retry"]
<1>1. UNCHANGED thread /\ note' = IF t = 0 THEN note ELSE [note EXCEPT ![t] = n]
  <2>1. TellSuccess(j)
    BY DEF Ends, Recorded
  <2>2. note \in [Job -> Notes] /\ (t # 0 => t \in Job)
    BY DEF Inv, TypeOK
  <2> QED
    BY <2>1, <2>2 DEF TellSuccess
<1>2. note \in [Job -> Notes] /\ thread \in [Job -> Job \cup {0}]
  BY DEF Inv, TypeOK
<1>3. t # 0 => t \in Job /\ n \in Notes /\ n.made = note[t].made /\ note[t].history \subseteq n.history
  <2>1. SUFFICES ASSUME t # 0
                 PROVE  t \in Job /\ n \in Notes /\ n.made = note[t].made /\ note[t].history \subseteq n.history
    OBVIOUS
  <2>2. t \in Job /\ note[t] \in Notes
    BY <1>2, <2>1
  <2> DEFINE p == note[t]
             h == p.history \cup {<<j, "SUCCEEDED">>}
  <2>3. h \in SUBSET (Job \X {"QUEUED", "SUCCEEDED", "FAILED"}) /\ p.history \subseteq h
    BY <2>2 DEF Notes
  <2>4. n = [p EXCEPT !.history = h, !.closed = "retry"]
    OBVIOUS
  <2> HIDE DEF h, n
  <2>5. n \in Notes /\ n.made = p.made /\ n.history = h
    BY <2>2, <2>3, <2>4 DEF Notes, Closers
  <2> QED
    BY <2>2, <2>3, <2>5
<1> HIDE DEF n
<1>4. note' \in [Job -> Notes] /\ thread' \in [Job -> Job \cup {0}]
  BY <1>1, <1>2, <1>3
<1>5. \A i \in Used : thread'[i] # 0 => thread'[i] \in Used /\ sku[thread'[i]] = sku[i]
  BY <1>1 DEF Inv, ToldInv
<1>6. \A u \in Job : /\ note'[u].made = note[u].made /\ note[u].history \subseteq note'[u].history
                     /\ u # t => note'[u] = note[u]
  BY <1>1, <1>2, <1>3
<1>7. \A u \in Job : note'[u].made => u \in Used
  BY <1>6 DEF Inv, ToldInv
<1>8. FailuresAreTold'
  <2>1. SUFFICES ASSUME NEW k \in Job, status'[k] = "FAILED"
                 PROVE  /\ thread[k] # 0
                        /\ <<k, "FAILED">> \in note'[thread[k]].history
                        /\ \/ note'[thread[k]].closed # "retry"
                           \/ \E i \in Job : i > k /\ thread[i] = thread[k] /\ status'[i] = "SUCCEEDED"
    BY <1>1 DEF FailuresAreTold
  <2>2. status[k] = "FAILED" /\ k # j /\ status[j] = "RUNNING" /\ status'[j] = "SUCCEEDED"
    BY <2>1 DEF Ends, Active
  <2>3. /\ thread[k] # 0 /\ <<k, "FAILED">> \in note[thread[k]].history /\ thread[k] \in Job
        /\ \/ note[thread[k]].closed # "retry"
           \/ \E i \in Job : i > k /\ thread[i] = thread[k] /\ status[i] = "SUCCEEDED"
    BY <1>2, <2>2 DEF Inv, ToldInv, OutcomesTold, FailuresAreTold
  <2>4. <<k, "FAILED">> \in note'[thread[k]].history
    BY <1>6, <2>3
  <2>5. CASE thread[k] = t
    <3>1. k \in Used /\ j \in Used
      BY <2>2 DEF Used
    <3>2. sku[k] = sku[j]
      BY <2>3, <2>5, <3>1 DEF Inv, ToldInv
    <3>3. ~(j < k)
      BY <2>2, <3>1, <3>2 DEF Inv, RowsInv, Over
    <3>4. j > k
      BY <2>2, <3>3 DEF Job
    <3> QED
      BY <2>2, <2>3, <2>4, <2>5, <3>4
  <2>6. CASE thread[k] # t
    <3>1. note'[thread[k]] = note[thread[k]]
      BY <1>6, <2>3, <2>6
    <3>2. \A i \in Job : status[i] = "SUCCEEDED" => status'[i] = "SUCCEEDED"
      BY <2>2 DEF Ends, Active
    <3> QED
      BY <2>3, <2>4, <3>1, <3>2
  <2> QED
    BY <2>5, <2>6
<1> QED
  BY <1>4, <1>5, <1>7, <1>8

(* What is told of a batch when a job of it ends. *)
LEMMA BatchTold ==
  ASSUME Inv, NEW j \in Job, NEW outcome, NEW who, Ends(j, outcome, who)
  PROVE  /\ batch' \in [Batch -> Batches]
         /\ \A b \in Batch : batch[b].state # "none" => batch'[b].state # "none"
         /\ BatchToldRight'
<1>0. PICK c : c = inBatch[j]
  OBVIOUS
<1> DEFINE succeeded == {i \in Job : inBatch[i] = c /\ status'[i] = "SUCCEEDED"}
           failed == {i \in Job : inBatch[i] = c /\ status'[i] = "FAILED"}
           open == \E i \in Job : inBatch[i] = c /\ status'[i] \in Active
           e == [batch[c] EXCEPT !.state = "finished", !.succeeded = Cardinality(succeeded),
                                 !.failed = Cardinality(failed)]
<1>1. batch \in [Batch -> Batches] /\ c \in Batch \cup {Nobody} /\ Nobody \notin Batch
  BY <1>0, DownloadAssumption DEF Inv, TypeOK
<1>2. batch' = IF c = Nobody \/ batch[c].state = "finished" \/ open THEN batch ELSE [batch EXCEPT ![c] = e]
  <2>1. batch' = Finalized(j)
    BY DEF Ends, Recorded
  <2>2. open <=> \E st \in Active : {i \in Job : inBatch[i] = c /\ status'[i] = st} # {}
    OBVIOUS
  <2> QED
    BY <1>0, <1>1, <2>1, <2>2 DEF Finalized
<1>3. Cardinality(succeeded) \in Nat /\ Cardinality(failed) \in Nat
  <2>1. succeeded \in SUBSET Job /\ failed \in SUBSET Job
    OBVIOUS
  <2> QED
    BY <2>1, RowsFinite
<1>4. UNCHANGED inBatch /\ status[j] = "RUNNING" /\ status'[j] \in Over /\ j \in Used
  BY DEF Ends, Onward, ids, Used
<1>5. c # Nobody => /\ c \in Batch /\ batch[c] \in Batches /\ batch[c].state = "open" /\ BatchOK(c)
  <2>1. ASSUME c # Nobody
        PROVE  c \in Batch /\ batch[c] \in Batches /\ batch[c].state # "none" /\ BatchOK(c)
    BY <1>0, <1>1, <1>4, <2>1, BatchForm DEF Inv, ToldInv, OutcomesTold
  <2>2. ASSUME c # Nobody PROVE batch[c].state # "finished"
    BY <1>0, <1>4, <2>1, <2>2 DEF BatchOK, Active
  <2> QED
    BY <2>1, <2>2 DEF Batches
<1>6. c # Nobody => /\ e \in Batches /\ e.state = "finished"
                    /\ e.succeeded = Cardinality(succeeded) /\ e.failed = Cardinality(failed)
  BY <1>3, <1>5 DEF Batches
<1>7. ASSUME NEW b \in Batch, b # c PROVE BatchOK(b)' /\ batch'[b] = batch[b]
  <2>1. batch'[b] = batch[b]
    BY <1>1, <1>2, <1>7
  <2>2. \A i \in Job : inBatch[i] = b => /\ (status'[i] \in Active) <=> (status[i] \in Active)
                                         /\ (status'[i] = "SUCCEEDED") <=> (status[i] = "SUCCEEDED")
                                         /\ (status'[i] = "FAILED") <=> (status[i] = "FAILED")
    <3>1. \A i \in Job : inBatch[i] = b => i # j
      BY <1>0, <1>7
    <3> QED
      BY <3>1 DEF Ends, Active
  <2>3. BatchOK(b)
    BY BatchForm DEF Inv, ToldInv, OutcomesTold
  <2> QED
    BY <1>4, <2>1, <2>2, <2>3, BatchKept
<1>8. ASSUME c # Nobody PROVE BatchOK(c)' /\ batch'[c].state # "none"
  <2> HIDE DEF e, succeeded, failed
  <2>1. CASE open
    <3>1. batch'[c].state = "open"
      BY <1>1, <1>2, <1>5, <1>8, <2>1
    <3> QED
      BY <1>4, <2>1, <3>1 DEF BatchOK
  <2>2. CASE ~open
    <3>1. batch'[c] = e
      BY <1>1, <1>2, <1>5, <1>8, <2>2
    <3>2. \A i \in Job : inBatch'[i] = c => status'[i] \notin Active
      BY <1>4, <2>2
    <3>3. /\ {i \in Job : inBatch'[i] = c /\ status'[i] = "SUCCEEDED"} = succeeded
          /\ {i \in Job : inBatch'[i] = c /\ status'[i] = "FAILED"} = failed
      BY <1>4 DEF succeeded, failed
    <3> QED
      BY <1>6, <1>8, <3>1, <3>2, <3>3 DEF BatchOK
  <2> QED
    BY <2>1, <2>2
<1>9. batch' \in [Batch -> Batches]
  <2> HIDE DEF e
  <2> QED
    BY <1>1, <1>2, <1>5, <1>6
<1>10. \A b \in Batch : BatchOK(b)' /\ (batch[b].state # "none" => batch'[b].state # "none")
  BY <1>1, <1>7, <1>8
<1> QED
  BY <1>9, <1>10, BatchesTold

(* A job ends, and its thread and its batch say so. *)
LEMMA EndsTold ==
  ASSUME Inv, NEW j \in Job, NEW outcome, NEW who, Ends(j, outcome, who), Used' = Used
  PROVE  /\ ToldInv' /\ note' \in [Job -> Notes] /\ thread' \in [Job -> Job \cup {0}]
         /\ batch' \in [Batch -> Batches]
         /\ by' \in [Job -> Worker \cup {Nobody, Expiry}]
         /\ by' = [by EXCEPT ![j] = who]
<1>1. UNCHANGED <<sku, inBatch>> /\ outcome \in {"SUCCEEDED", "FAILED"}
  BY DEF Ends, Onward, ids, Over
<1>2. /\ note' \in [Job -> Notes] /\ thread' \in [Job -> Job \cup {0}]
      /\ \A i \in Used : thread'[i] # 0 => thread'[i] \in Used /\ sku[thread'[i]] = sku[i]
      /\ \A t \in Job : note'[t].made => t \in Used
      /\ FailuresAreTold'
  <2>1. CASE outcome = "SUCCEEDED"
    BY <2>1, SuccessTold
  <2>2. CASE outcome = "FAILED"
    BY <2>2, FailureTold
  <2> QED
    BY <1>1, <2>1, <2>2
<1>3. /\ batch' \in [Batch -> Batches] /\ BatchToldRight'
      /\ \A b \in Batch : batch[b].state # "none" => batch'[b].state # "none"
  BY BatchTold
<1>4. \A i \in Used : inBatch[i] # Nobody => inBatch[i] \in Batch /\ batch[inBatch[i]].state # "none"
  BY DEF Inv, TypeOK, ToldInv, Used
<1>5. by' = [by EXCEPT ![j] = who] /\ who \in Worker \cup {Nobody, Expiry}
  BY DEF Ends, Recorded
<1>6. by' \in [Job -> Worker \cup {Nobody, Expiry}]
  BY <1>5 DEF Inv, TypeOK
<1> QED
  BY <1>1, <1>2, <1>3, <1>4, <1>5, <1>6 DEF ToldInv, OutcomesTold

(* Nothing is disturbed when a job ends, or waits for the browser. *)
LEMMA EndKept ==
  ASSUME Inv, NEW j \in Job, EndStep(j)
  PROVE  MainTypes' /\ Exclusive' /\ RowsInv' /\ HeldInv' /\ ToldInv'
<1>1. /\ status[j] = "RUNNING" /\ Kept /\ UNCHANGED <<ids, sku, inBatch, holder>>
      /\ token' = [token EXCEPT ![j] = 0]
      /\ waits' \in {waits, [waits EXCEPT ![j] = @ + 1]}
  BY DEF EndStep, ids
<1>2. PICK st \in Over \cup {"WAITING_RESOURCE"} : status' = [status EXCEPT ![j] = st]
  BY DEF EndStep
<1>3. /\ status' \in [Job -> Statuses] /\ status'[j] = st
      /\ \A i \in Job \ {j} : status'[i] = status[i]
  <2>1. status \in [Job -> Statuses] /\ st \in Statuses
    BY DEF Inv, TypeOK, Statuses, Active
  <2> QED
    BY <1>2, <2>1
<1>4. Onward
  BY <1>1, <1>2, <1>3 DEF Onward, Active
<1>5. waits' \in [Job -> 0 .. MaxWaits] /\ \A i \in Job : status'[i] \notin Over => waits'[i] < MaxWaits
  <2>1. waits \in [Job -> 0 .. MaxWaits] /\ \A i \in Job : status[i] \notin Over => waits[i] < MaxWaits
    BY DEF Inv, TypeOK, RowsInv
  <2>2. waits[j] < MaxWaits /\ MaxWaits \in Nat
    BY <1>1, <2>1, DownloadAssumption DEF Over
  <2>3. waits' \in [Job -> 0 .. MaxWaits] /\ \A i \in Job \ {j} : waits'[i] = waits[i]
    BY <1>1, <2>1, <2>2
  <2>4. status'[j] \notin Over => waits'[j] < MaxWaits
    <3>1. CASE \E s \in Over : status' = [status EXCEPT ![j] = s]
      BY <1>3, <3>1 DEF Inv, TypeOK
    <3> QED
      BY <3>1 DEF EndStep
  <2> QED
    BY <1>3, <2>1, <2>3, <2>4
<1>6. /\ Used' = Used /\ RowsInv'
      /\ \A i, k \in Job : {status'[i], status'[k]} \subseteq Active /\ sku'[i] = sku'[k] => i = k
  BY <1>4, <1>5, OnwardRows
<1>7. Exclusive'
  <2>1. st # "RUNNING"
    BY <1>2 DEF Over
  <2> QED
    BY <1>1, <1>3, <1>6, <2>1, MainFacts DEF Inv, Exclusive, MainTypes
<1>8. \A w \in Worker : Holds(w)' => Holds(w) /\ mem'[w].job = mem[w].job
  <2>1. \A w \in Worker : Working(w)' => Working(w) /\ mem[w].job \in Job /\ mem'[w].job = mem[w].job /\ mem'[w].token = mem[w].token
    BY <1>1 DEF Kept, Inv, HeldInv
  <2>2. st # "RUNNING"
    BY <1>2 DEF Over
  <2>3. token \in [Job -> Token \cup {0}]
    BY DEF Inv, TypeOK
  <2> QED
    BY <1>1, <1>3, <2>1, <2>2, <2>3 DEF Holds
<1>9. \A w \in Worker : Working(w)' => mem'[w].job \in Job
  BY <1>1 DEF Kept, Inv, HeldInv
<1>10. /\ ToldInv' /\ note' \in [Job -> Notes] /\ thread' \in [Job -> Job \cup {0}]
       /\ batch' \in [Batch -> Batches] /\ by' \in [Job -> Worker \cup {Nobody, Expiry}]
       /\ ResultFromHolder'
  <2>0. holder \in [Job -> Worker \cup {Nobody}] /\ by \in [Job -> Worker \cup {Nobody, Expiry}]
    BY DEF Inv, TypeOK
  <2>1. CASE \E s \in Over : /\ status' = [status EXCEPT ![j] = s]
                             /\ \E who \in {holder[j], Expiry} : Recorded(j, s, who)
    <3>1. PICK s \in Over, who \in {holder[j], Expiry} :
             status' = [status EXCEPT ![j] = s] /\ Recorded(j, s, who)
      BY <2>1
    <3>2. status'[j] = s
      BY <3>1 DEF Inv, TypeOK
    <3>3. Ends(j, s, who)
      BY <1>1, <1>3, <1>4, <2>0, <3>1, <3>2 DEF Ends
    <3>4. /\ ToldInv' /\ note' \in [Job -> Notes] /\ thread' \in [Job -> Job \cup {0}]
          /\ batch' \in [Batch -> Batches] /\ by' \in [Job -> Worker \cup {Nobody, Expiry}]
          /\ by' = [by EXCEPT ![j] = who]
      BY <1>6, <3>3, EndsTold
    <3>5. ResultFromHolder'
      BY <1>1, <1>3, <2>0, <3>1, <3>4 DEF ResultFromHolder, Inv, HeldInv
    <3> QED
      BY <3>4, <3>5
  <2>2. CASE status' = [status EXCEPT ![j] = "WAITING_RESOURCE"] /\ UNCHANGED <<thread, told, by>>
    <3>1. UNCHANGED <<note, batch, thread, by>>
      BY <2>2 DEF told
    <3>2. status'[j] = "WAITING_RESOURCE"
      BY <2>2 DEF Inv, TypeOK
    <3>3. \A i \in Job : status'[i] \in Over => status'[i] = status[i]
      BY <1>3, <3>2 DEF Over
    <3>4. note' \in [Job -> Notes] /\ thread' \in [Job -> Job \cup {0}] /\ batch' \in [Batch -> Batches]
      BY <3>1 DEF Inv, TypeOK
    <3>5. ToldInv'
      BY <1>4, <3>1, <3>3, <3>4, ToldKept
    <3>6. ResultFromHolder'
      BY <1>1, <3>1, <3>3 DEF Inv, HeldInv, ResultFromHolder
    <3> QED
      BY <2>0, <3>1, <3>4, <3>5, <3>6
  <2> QED
    BY <2>1, <2>2 DEF EndStep
<1>11. HeldInv'
  BY <1>1, <1>8, <1>9, <1>10 DEF Inv, HeldInv
<1>12. MainTypes'
  <2>1. token' \in [Job -> Token \cup {0}]
    BY <1>1 DEF Inv, TypeOK
  <2> QED
    BY <1>1, <1>3, <1>5, <1>10, <2>1, MainFacts DEF Inv, MainTypes, Kept
<1> QED
  BY <1>6, <1>7, <1>10, <1>11, <1>12

(* Nor when a worker takes a job and another one is given up: the token is new. *)
LEMMA TakeKept ==
  ASSUME Inv, NEW w \in Worker, NEW j \in Job, TakeStep(w, j)
  PROVE  MainTypes' /\ Exclusive' /\ RowsInv' /\ HeldInv' /\ ToldInv'
<1>1. PICK gone \in SUBSET (Running \ {j}) :
         /\ Running \subseteq gone \cup {j}
         /\ Take(w, j, gone)
         /\ \/ gone = {} /\ UNCHANGED <<thread, told, by>>
            \/ \E i \in Running : gone = {i} /\ Recorded(i, "FAILED", Expiry)
  BY DEF TakeStep
<1>2. status[j] \in Active /\ UNCHANGED <<ids, sku, inBatch, waits>>
  BY DEF TakeStep, ids
<1>3. /\ status \in [Job -> Statuses] /\ token \in [Job -> Token \cup {0}]
      /\ holder \in [Job -> Worker \cup {Nobody}] /\ mem \in [Worker -> Memories]
      /\ FreshToken \in Token /\ FreshToken # 0
      /\ \A v \in Worker : mem[v].token # FreshToken
  BY FreshFacts DEF Inv, TypeOK, Token
<1>4. /\ status' = [i \in Job |-> IF i = j THEN "RUNNING" ELSE IF i \in gone THEN "FAILED" ELSE status[i]]
      /\ token' = [i \in Job |-> IF i = j THEN FreshToken ELSE IF i \in gone THEN 0 ELSE token[i]]
      /\ holder' = [holder EXCEPT ![j] = w]
  BY <1>1 DEF Take
<1>5. /\ status' \in [Job -> Statuses] /\ token' \in [Job -> Token \cup {0}]
      /\ holder' \in [Job -> Worker \cup {Nobody}]
  BY <1>3, <1>4 DEF Statuses, Active, Over
<1>6. /\ status'[j] = "RUNNING" /\ token'[j] = FreshToken
      /\ \A i \in gone : /\ i \in Job /\ i # j /\ status[i] = "RUNNING"
                         /\ status'[i] = "FAILED" /\ token'[i] = 0
      /\ \A i \in Job : i # j /\ i \notin gone => /\ status'[i] = status[i] /\ token'[i] = token[i]
                                                  /\ status[i] # "RUNNING"
  BY <1>1, <1>4 DEF Running
<1>7. Onward
  BY <1>2, <1>5, <1>6 DEF Onward, Active, Over
<1>8. /\ Used' = Used /\ RowsInv'
      /\ \A i, k \in Job : {status'[i], status'[k]} \subseteq Active /\ sku'[i] = sku'[k] => i = k
  <2>1. \A i \in Job : status'[i] \notin Over => waits'[i] < MaxWaits
    <3>1. \A i \in Job : status'[i] \notin Over => status[i] \notin Over
      BY <1>2, <1>6 DEF Over, Active
    <3> QED
      BY <1>2, <3>1 DEF Inv, RowsInv
  <2>2. waits' \in [Job -> 0 .. MaxWaits]
    BY <1>2 DEF Inv, TypeOK
  <2> QED
    BY <1>7, <2>1, <2>2, OnwardRows
<1>9. Exclusive'
  <2>1. \A i \in Job : (status'[i] = "RUNNING") <=> i = j
    BY <1>6
  <2>2. \A i \in Job : (status'[i] = "RUNNING") = (token'[i] # 0)
    BY <1>3, <1>6 DEF Inv, TypeOK
  <2> QED
    BY <1>8, <2>1, <2>2 DEF Exclusive
<1>10. /\ mem' \in [Worker -> Memories]
       /\ \A v \in Worker : \/ mem'[v] = mem[v]
                            \/ v = w /\ mem'[v].job = j
  <2> DEFINE m == [Down EXCEPT !.at = "invoke", !.job = j, !.token = FreshToken]
  <2>1. m \in Memories /\ m.job = j
    BY <1>3 DEF Down, Memories, Places, Answer
  <2>2. mem' = [mem EXCEPT ![w] = m] \/ mem' = mem
    BY <1>1 DEF Take
  <2> HIDE DEF m
  <2> QED
    BY <1>3, <2>1, <2>2
<1>11. \A v \in Worker : Working(v)' => mem'[v].job \in Job
  BY <1>10 DEF Inv, HeldInv, Working
<1>12. ASSUME NEW v \in Worker, Holds(v)' PROVE holder'[mem'[v].job] = v
  <2>1. mem'[v].job \in Job /\ status'[mem'[v].job] = "RUNNING" /\ token'[mem'[v].job] = mem'[v].token
    BY <1>11, <1>12 DEF Holds
  <2>2. mem'[v].job = j
    BY <1>6, <2>1
  <2>3. CASE v = w
    BY <1>3, <1>4, <2>2, <2>3
  <2>4. CASE v # w
    BY <1>3, <1>6, <1>10, <2>1, <2>2, <2>4
  <2> QED
    BY <2>3, <2>4
<1>13. /\ ToldInv' /\ note' \in [Job -> Notes] /\ thread' \in [Job -> Job \cup {0}]
       /\ batch' \in [Batch -> Batches] /\ by' \in [Job -> Worker \cup {Nobody, Expiry}]
       /\ ResultFromHolder'
  <2>1. \A i \in Job : i # j => holder'[i] = holder[i]
    BY <1>3, <1>4
  <2>2. CASE gone = {} /\ UNCHANGED <<thread, told, by>>
    <3>1. UNCHANGED <<note, batch, thread, by>>
      BY <2>2 DEF told
    <3>2. \A i \in Job : status'[i] \in Over => status'[i] = status[i] /\ i # j
      BY <1>6, <2>2 DEF Over
    <3>3. /\ note' \in [Job -> Notes] /\ thread' \in [Job -> Job \cup {0}]
          /\ batch' \in [Batch -> Batches] /\ by' \in [Job -> Worker \cup {Nobody, Expiry}]
      BY <3>1 DEF Inv, TypeOK
    <3>4. ToldInv'
      BY <1>7, <3>1, <3>2, <3>3, ToldKept
    <3>5. ResultFromHolder'
      BY <2>1, <3>1, <3>2 DEF Inv, HeldInv, ResultFromHolder
    <3> QED
      BY <3>3, <3>4, <3>5
  <2>3. ASSUME NEW i \in Running, gone = {i}, Recorded(i, "FAILED", Expiry)
        PROVE  <1>13
    <3>1. i \in Job /\ i # j /\ status[i] = "RUNNING" /\ status'[i] = "FAILED"
      BY <1>6, <2>3
    <3>2. Ends(i, "FAILED", Expiry)
      BY <1>2, <1>6, <1>7, <2>3, <3>1 DEF Ends, Over, Active
    <3>3. /\ ToldInv' /\ note' \in [Job -> Notes] /\ thread' \in [Job -> Job \cup {0}]
          /\ batch' \in [Batch -> Batches] /\ by' \in [Job -> Worker \cup {Nobody, Expiry}]
          /\ by' = [by EXCEPT ![i] = Expiry]
      BY <1>8, <3>1, <3>2, EndsTold
    <3>4. ResultFromHolder'
      <4>1. SUFFICES ASSUME NEW k \in Job, status'[k] \in Over PROVE by'[k] \in {holder'[k], Expiry}
        BY DEF ResultFromHolder
      <4>2. by \in [Job -> Worker \cup {Nobody, Expiry}]
        BY DEF Inv, TypeOK
      <4>3. CASE k = i
        BY <3>3, <4>2, <4>3
      <4>4. CASE k # i
        <5>1. k # j /\ status'[k] = status[k]
          BY <1>6, <2>3, <4>1, <4>4 DEF Over
        <5>2. by'[k] = by[k] /\ holder'[k] = holder[k]
          BY <2>1, <3>3, <4>2, <4>4, <5>1
        <5> QED
          BY <4>1, <5>1, <5>2 DEF Inv, HeldInv, ResultFromHolder
      <4> QED
        BY <4>3, <4>4
    <3> QED
      BY <3>3, <3>4
  <2> QED
    BY <1>1, <2>2, <2>3
<1>14. HeldInv'
  BY <1>11, <1>12, <1>13 DEF HeldInv
<1>15. MainTypes'
  <2>1. UNCHANGED <<sku, inBatch, waits>>
    BY <1>2
  <2> QED
    BY <1>5, <1>10, <1>13, <2>1, MainFacts DEF Inv, MainTypes
<1> QED
  BY <1>8, <1>9, <1>13, <1>14, <1>15

(* Inserted rows are new to every thread and every batch. *)
LEMMA InsertKept ==
  ASSUME Inv, NEW next, NEW b, NEW t, InsertStep(next, b, t)
  PROVE  MainTypes' /\ Exclusive' /\ RowsInv' /\ HeldInv' /\ ToldInv'
<1> DEFINE D == DOMAIN next
<1>1. /\ D \subseteq Free /\ \A i, j \in D : next[i] = next[j] => i = j
      /\ \A i \in Used : \A j \in D : i < j
      /\ Used \cup D = 1 .. Cardinality(Used \cup D)
      /\ \A j \in D : next[j] \in Sku /\ ~IsActive(next[j])
  BY DEF InsertStep, InsertedAfter
<1>2. /\ status' = [j \in Job |-> IF j \in D THEN "QUEUED" ELSE status[j]]
      /\ sku' = [j \in Job |-> IF j \in D THEN next[j] ELSE sku[j]]
      /\ inBatch' = [j \in Job |-> IF j \in D THEN b ELSE inBatch[j]]
      /\ thread' = [j \in Job |-> IF j \in D THEN t ELSE thread[j]]
      /\ UNCHANGED <<token, waits, holder, by, mem>>
  BY DEF InsertStep, Insert, lease, times
<1>3. \A j \in D : j \in Job /\ j \notin Used /\ status[j] = "NONE"
  BY <1>1 DEF Free, Used
<1>4. b \in Batch \cup {Nobody} /\ t \in Job \cup {0}
  BY DEF InsertStep
<1> HIDE DEF D
<1>5. /\ \A j \in D : status'[j] = "QUEUED" /\ sku'[j] = next[j] /\ inBatch'[j] = b /\ thread'[j] = t
      /\ \A j \in Job \ D : /\ status'[j] = status[j] /\ sku'[j] = sku[j]
                            /\ inBatch'[j] = inBatch[j] /\ thread'[j] = thread[j]
  BY <1>2, <1>3
<1>6. Used' = Used \cup D
  BY <1>3, <1>5 DEF Used
<1>7. \A i \in Used : i \in Job /\ i \notin D /\ status'[i] = status[i] /\ sku'[i] = sku[i]
  BY <1>3, <1>5 DEF Used
<1>8. \A i \in Used, j \in D : sku[i] = next[j] => status[i] \notin Active
  BY <1>1 DEF IsActive
<1>9. /\ status' \in [Job -> Statuses] /\ sku' \in [Job -> Sku \cup {Nobody}]
      /\ inBatch' \in [Job -> Batch \cup {Nobody}] /\ thread' \in [Job -> Job \cup {0}]
  <2>1. \A j \in D : next[j] \in Sku
    BY <1>1
  <2> QED
    BY <1>2, <1>4, <2>1 DEF Inv, TypeOK, Statuses, Active
<1>10. RowsInv'
  <2>1. Used' = 1 .. Cardinality(Used')
    BY <1>1, <1>6 DEF D
  <2>2. \A j \in Used' : sku'[j] \in Sku
    BY <1>1, <1>5, <1>6, <1>7 DEF Inv, RowsInv, D
  <2>3. ASSUME NEW i \in Used', NEW j \in Used', i < j, sku'[i] = sku'[j] PROVE status'[i] \in Over
    <3>1. CASE i \in Used /\ j \in Used
      BY <1>7, <2>3, <3>1 DEF Inv, RowsInv
    <3>2. CASE i \in Used /\ j \in D
      <4>1. status[i] \notin Active /\ status[i] # "NONE" /\ status[i] \in Statuses
        BY <1>5, <1>7, <1>8, <2>3, <3>2 DEF Used, Inv, TypeOK
      <4> QED
        BY <1>7, <3>2, <4>1 DEF Statuses
    <3>3. CASE i \in D /\ j \in Used
      <4>1. j < i /\ i \in Nat /\ j \in Nat
        BY <1>1, <1>3, <1>7, <3>3 DEF Job, D
      <4> QED
        BY <2>3, <4>1
    <3>4. CASE i \in D /\ j \in D
      <4>1. i = j /\ i \in Nat
        BY <1>1, <1>3, <1>5, <2>3, <3>4 DEF D, Job
      <4> QED
        BY <2>3, <4>1
    <3> QED
      BY <1>6, <3>1, <3>2, <3>3, <3>4
  <2>4. \A j \in Job : status'[j] \notin Over => waits'[j] < MaxWaits
    <3>1. \A j \in Job : status'[j] \notin Over => status[j] \notin Over
      BY <1>3, <1>5 DEF Over
    <3> QED
      BY <1>2, <3>1 DEF Inv, RowsInv
  <2> QED
    BY <2>1, <2>2, <2>3, <2>4 DEF RowsInv
<1>11. Exclusive'
  <2>1. \A i \in Job : (status'[i] = "RUNNING") <=> (status[i] = "RUNNING")
    BY <1>3, <1>5
  <2>2. ASSUME NEW i \in Job, NEW j \in Job, status'[i] \in Active, status'[j] \in Active, sku'[i] = sku'[j]
        PROVE  i = j
    <3>1. i \in Used' /\ j \in Used'
      BY <2>2 DEF Used, Active
    <3>2. ~(i < j) /\ ~(j < i)
      BY <1>10, <2>2, <3>1 DEF RowsInv, Active, Over
    <3> QED
      BY <3>2 DEF Job
  <2>3. /\ \A i, j \in Job : status[i] = "RUNNING" /\ status[j] = "RUNNING" => i = j
        /\ \A j \in Job : (status[j] = "RUNNING") = (token[j] # 0)
    BY DEF Inv, TypeOK
  <2> QED
    BY <1>2, <2>1, <2>2, <2>3 DEF Exclusive
<1>12. HeldInv'
  <2>1. \A w \in Worker : (Working(w)' <=> Working(w)) /\ (Working(w) => mem[w].job \in Job)
    BY <1>2 DEF Working, Inv, HeldInv
  <2>2. \A w \in Worker : Holds(w)' => Holds(w)
    BY <1>2, <1>3, <1>5, <2>1 DEF Holds
  <2>3. ResultFromHolder'
    BY <1>2, <1>5 DEF ResultFromHolder, Inv, HeldInv, Over
  <2> QED
    BY <1>2, <2>1, <2>2, <2>3 DEF Inv, HeldInv
<1>13. /\ \A i \in Used : thread'[i] = thread[i] /\ inBatch'[i] = inBatch[i]
       /\ \A i \in Job : /\ (status'[i] = "SUCCEEDED") <=> (status[i] = "SUCCEEDED")
                         /\ (status'[i] = "FAILED") <=> (status[i] = "FAILED")
                         /\ i \notin D => /\ status'[i] = status[i]
                                          /\ inBatch'[i] = inBatch[i] /\ thread'[i] = thread[i]
  BY <1>3, <1>5, <1>7
<1>14. /\ note \in [Job -> Notes] /\ thread \in [Job -> Job \cup {0}] /\ batch \in [Batch -> Batches]
       /\ inBatch \in [Job -> Batch \cup {Nobody}] /\ 0 \notin Job /\ Nobody \notin Batch
  BY DownloadAssumption DEF Inv, TypeOK, Job
<1>15. /\ note' \in [Job -> Notes]
       /\ t # 0 => t \in Used /\ \A j \in D : next[j] = sku[t]
       /\ \A u \in Job : /\ note'[u].made = note[u].made /\ note[u].history \subseteq note'[u].history
                         /\ note'[u].closed = "retry" => note[u].closed = "retry"
  <2>1. CASE t = 0
    <3>1. note' = note
      BY <1>14, <2>1 DEF InsertStep, told
    <3> QED
      BY <1>14, <2>1, <3>1
  <2>2. CASE t # 0
    <3> DEFINE p == note[t]
               h == p.history \cup {<<j, "QUEUED">> : j \in DOMAIN next}
               n == [p EXCEPT !.history = h, !.closed = "nobody"]
    <3>1. t \in Job /\ p.made /\ note' = [note EXCEPT ![t] = n] /\ \A j \in DOMAIN next : next[j] = sku[t]
      BY <1>14, <2>2 DEF InsertStep
    <3>2. p \in Notes
      BY <1>14, <3>1
    <3>3. h \in SUBSET (Job \X {"QUEUED", "SUCCEEDED", "FAILED"}) /\ p.history \subseteq h
      BY <1>3, <3>2 DEF D, Notes
    <3> HIDE DEF h
    <3>4. n \in Notes /\ n.made = p.made /\ n.history = h /\ n.closed = "nobody"
      BY <3>2, <3>3 DEF Notes, Closers
    <3> HIDE DEF n
    <3>5. t \in Used
      BY <3>1 DEF Inv, ToldInv
    <3> QED
      BY <1>14, <3>1, <3>3, <3>4, <3>5 DEF D
  <2> QED
    BY <2>1, <2>2
<1>16. FailuresAreTold'
  <2>1. SUFFICES ASSUME NEW k \in Job, status'[k] = "FAILED"
                 PROVE  /\ thread'[k] # 0
                        /\ <<k, "FAILED">> \in note'[thread'[k]].history
                        /\ \/ note'[thread'[k]].closed # "retry"
                           \/ \E i \in Job : i > k /\ thread'[i] = thread'[k] /\ status'[i] = "SUCCEEDED"
    BY DEF FailuresAreTold
  <2>2. status[k] = "FAILED" /\ thread'[k] = thread[k]
    BY <1>5, <1>13, <2>1
  <2>3. /\ thread[k] # 0 /\ <<k, "FAILED">> \in note[thread[k]].history /\ thread[k] \in Job
        /\ \/ note[thread[k]].closed # "retry"
           \/ \E i \in Job : i > k /\ thread[i] = thread[k] /\ status[i] = "SUCCEEDED"
    BY <1>14, <2>2 DEF Inv, ToldInv, OutcomesTold, FailuresAreTold
  <2>4. \A i \in Job : status[i] = "SUCCEEDED" => status'[i] = "SUCCEEDED" /\ thread'[i] = thread[i]
    BY <1>5, <1>13
  <2> QED
    BY <1>15, <2>2, <2>3, <2>4
<1>17. \A i \in Used' : thread'[i] # 0 => thread'[i] \in Used' /\ sku'[thread'[i]] = sku'[i]
  <2>1. ASSUME NEW i \in Used, thread'[i] # 0 PROVE thread'[i] \in Used' /\ sku'[thread'[i]] = sku'[i]
    BY <1>6, <1>7, <1>13, <2>1 DEF Inv, ToldInv
  <2>2. ASSUME NEW i \in D, thread'[i] # 0 PROVE thread'[i] \in Used' /\ sku'[thread'[i]] = sku'[i]
    BY <1>5, <1>6, <1>7, <1>15, <2>2
  <2> QED
    BY <1>6, <2>1, <2>2
<1>18. \A u \in Job : note'[u].made => u \in Used'
  BY <1>6, <1>15 DEF Inv, ToldInv
<1>19. /\ batch' \in [Batch -> Batches] /\ BatchToldRight'
       /\ \A i \in Used' : inBatch'[i] # Nobody => batch'[inBatch'[i]].state # "none"
  <2>1. ASSUME NEW c \in Batch, c # b, batch'[c] = batch[c] PROVE BatchOK(c)'
    <3>1. BatchOK(c)
      BY BatchForm DEF Inv, ToldInv, OutcomesTold
    <3>2. \A j \in Job : /\ (inBatch'[j] = c /\ status'[j] \in Active) <=> (inBatch[j] = c /\ status[j] \in Active)
                         /\ (inBatch'[j] = c /\ status'[j] = "SUCCEEDED") <=> (inBatch[j] = c /\ status[j] = "SUCCEEDED")
                         /\ (inBatch'[j] = c /\ status'[j] = "FAILED") <=> (inBatch[j] = c /\ status[j] = "FAILED")
      BY <1>3, <1>5, <1>13, <2>1 DEF Active
    <3> QED
      BY <2>1, <3>1, <3>2, BatchKept
  <2>2. \A i \in Used : inBatch[i] # Nobody => inBatch[i] \in Batch /\ batch[inBatch[i]].state # "none"
    BY <1>14 DEF Inv, ToldInv, Used
  <2>3. CASE b = Nobody
    <3>1. batch' = batch
      BY <1>14, <2>3 DEF InsertStep, told
    <3>2. \A c \in Batch : BatchOK(c)'
      BY <1>14, <2>1, <2>3, <3>1
    <3> QED
      BY <1>5, <1>6, <1>13, <1>14, <2>2, <2>3, <3>1, <3>2, BatchesTold
  <2>4. CASE b # Nobody
    <3>1. PICK n \in Nat : batch' = [batch EXCEPT ![b] =
             [state |-> IF DOMAIN next = {} THEN "finished" ELSE "open",
              skipped |-> n, succeeded |-> 0, failed |-> 0]]
      BY <2>4 DEF InsertStep
    <3>2. b \in Batch /\ batch[b].state = "none"
      BY <2>4 DEF InsertStep
    <3> DEFINE e == [state |-> IF D = {} THEN "finished" ELSE "open",
                     skipped |-> n, succeeded |-> 0, failed |-> 0]
    <3>3. /\ e \in Batches /\ e.state # "none" /\ (e.state = "finished") = (D = {})
          /\ e.succeeded = 0 /\ e.failed = 0
      BY DEF Batches
    <3>4. batch' = [batch EXCEPT ![b] = e]
      BY <3>1 DEF D
    <3> HIDE DEF e
    <3>5. batch' \in [Batch -> Batches] /\ batch'[b] = e /\ \A c \in Batch \ {b} : batch'[c] = batch[c]
      BY <1>14, <3>2, <3>3, <3>4
    <3>6. \A i \in Job \ D : inBatch'[i] = b => status'[i] = "NONE"
      BY <1>13, <2>2, <2>4, <3>2 DEF Used
    <3>7. BatchOK(b)'
      <4>1. {i \in Job : inBatch'[i] = b /\ status'[i] = "SUCCEEDED"} = {}
        BY <1>5, <3>6
      <4>2. {i \in Job : inBatch'[i] = b /\ status'[i] = "FAILED"} = {}
        BY <1>5, <3>6
      <4>3. (D = {}) <=> \A i \in Job : inBatch'[i] = b => status'[i] \notin Active
        BY <1>3, <1>5, <3>6 DEF Active
      <4> QED
        BY <3>3, <3>5, <4>1, <4>2, <4>3, FS_EmptySet DEF BatchOK
    <3>8. \A c \in Batch : BatchOK(c)'
      BY <2>1, <3>5, <3>7
    <3>9. \A i \in Used' : inBatch'[i] # Nobody => batch'[inBatch'[i]].state # "none"
      BY <1>5, <1>6, <1>13, <2>2, <3>2, <3>3, <3>5
    <3> QED
      BY <3>5, <3>8, <3>9, BatchesTold
  <2> QED
    BY <2>3, <2>4
<1>20. ToldInv'
  BY <1>16, <1>17, <1>18, <1>19 DEF ToldInv, OutcomesTold
<1>21. MainTypes'
  <2>1. UNCHANGED <<token, waits, holder, by, mem>>
    BY <1>2
  <2> QED
    BY <1>9, <1>15, <1>19, <2>1, MainFacts DEF Inv, MainTypes
<1> QED
  BY <1>10, <1>11, <1>12, <1>20, <1>21

---------------------------------------------------------------------------
(* The times, that no step lets leave their bounds, and the theorems. *)

Clocks ==
  /\ left \in [Job -> 0 .. Lease] /\ age \in [Job -> 0 .. Deadline]
  /\ waited \in [Job -> 0 .. Budget] /\ due \in [Job -> 0 .. MaxDelay]
  /\ faults \in 0 .. MaxFaults

(* The type of the state, in its three parts. *)
LEMMA TypeForm == TypeOK <=> MainTypes /\ Exclusive /\ Clocks
BY DEF TypeOK, MainTypes, Exclusive, Clocks

(* No step lets a time leave its bounds. *)
LEMMA ClockStep == TypeOK /\ [Next]_vars => Clocks'
<1> SUFFICES ASSUME TypeOK, [Next]_vars PROVE Clocks'
  OBVIOUS
<1>0. /\ {Lease, Deadline, Budget, MaxDelay, MaxFaults} \subseteq Nat
      /\ left \in [Job -> 0 .. Lease] /\ age \in [Job -> 0 .. Deadline]
      /\ waited \in [Job -> 0 .. Budget] /\ due \in [Job -> 0 .. MaxDelay]
      /\ faults \in 0 .. MaxFaults
  BY DownloadAssumption DEF TypeOK
<1>1. Faulty \/ UNCHANGED faults => faults' \in 0 .. MaxFaults
  BY <1>0 DEF Faulty
<1>2. CASE Tick
  <2>1. \A n, cap \in Nat : n <= cap => Less(n) \in 0 .. cap /\ Capped(n, cap) \in 0 .. cap
    BY DEF Less, Capped
  <2>2. /\ left' = [j \in Job |-> Less(left[j])] /\ due' = [j \in Job |-> Less(due[j])]
        /\ age' = [j \in Job |-> IF j \in Started THEN Capped(age[j], Deadline) ELSE age[j]]
        /\ waited' = [j \in Job |-> IF j \in Started /\ waits[j] > 0 THEN Capped(waited[j], Budget) ELSE waited[j]]
        /\ (Faulty \/ UNCHANGED faults)
    BY <1>2 DEF Tick
  <2>3. left' \in [Job -> 0 .. Lease] /\ due' \in [Job -> 0 .. MaxDelay]
    BY SMTT(30), <1>0, <2>1, <2>2
  <2>4. age' \in [Job -> 0 .. Deadline]
    BY <1>0, <2>1, <2>2
  <2>5. waited' \in [Job -> 0 .. Budget]
    BY <1>0, <2>1, <2>2
  <2> QED
    BY <1>1, <2>2, <2>3, <2>4, <2>5 DEF Clocks
<1>3. ASSUME UNCHANGED <<age, waited, due>>, Faulty \/ UNCHANGED faults,
             \/ UNCHANGED left
             \/ \E j \in Job : left' = [left EXCEPT ![j] = 0] \/ left' = [left EXCEPT ![j] = Lease]
             \/ \E j, gone : left' = [i \in Job |-> IF i = j THEN Lease ELSE IF i \in gone THEN 0 ELSE left[i]]
      PROVE  Clocks'
  <2>1. left' \in [Job -> 0 .. Lease]
    BY <1>0, <1>3
  <2> QED
    BY <1>0, <1>1, <1>3, <2>1 DEF Clocks
<1>4. ASSUME NEW w \in Worker, Recover(w) \/ Claim(w) \/ GiveUp(w) PROVE Clocks'
  <2>1. UNCHANGED <<age, waited, due>>
    BY <1>4 DEF Recover, Claim, GiveUp, times
  <2>2. ASSUME NEW j, NEW gone, Take(w, j, gone) PROVE Clocks'
    BY <1>3, <2>1, <2>2 DEF Take, Acknowledged, DbFails
  <2>3. CASE GiveUp(w)
    <3>1. PICK j \in Lapsed :
             IF Ready = {}
             THEN left' = [left EXCEPT ![j] = 0] /\ UNCHANGED faults
             ELSE \E i \in Ready : Take(w, i, {j})
      BY <2>3 DEF GiveUp
    <3>2. j \in Job
      BY DEF Lapsed, Running
    <3> QED
      BY <1>3, <2>1, <2>2, <3>1, <3>2
  <2> QED
    BY <1>4, <2>2, <2>3 DEF Recover, Claim
<1>5. ASSUME UNCHANGED <<left, age, waited, due>>, Faulty \/ UNCHANGED faults PROVE Clocks'
  BY <1>3, <1>5
<1>6. ASSUME NEW w \in Worker, Report(w) \/ Fail(w) PROVE Clocks'
  <2>1. Faulty \/ UNCHANGED faults
    BY <1>6 DEF Report, Fail, Acknowledged, DbFails
  <2>2. CASE UNCHANGED <<rows, told>>
    BY <1>5, <2>1, <2>2 DEF rows, lease, times
  <2>3. CASE ~ UNCHANGED <<rows, told>>
    <3> DEFINE j == mem[w].job
    <3>1. (\E outcome : Finish(w, outcome)) \/ Defer(w)
      BY <1>6, <2>3 DEF Report, Fail
    <3>2. UNCHANGED <<age, waited>> /\ left' = [left EXCEPT ![j] = 0]
      BY <2>3, <3>1 DEF Finish, Defer
    <3>3. left' \in [Job -> 0 .. Lease]
      <4>1. 0 \in 0 .. Lease
        BY <1>0
      <4> HIDE DEF j
      <4> QED
        BY <1>0, <3>2, <4>1
    <3>4. UNCHANGED due \/ \E d \in 0 .. MaxDelay : due' = [due EXCEPT ![j] = d]
      <4>1. 0 \in 0 .. MaxDelay
        BY <1>0
      <4> QED
        BY <2>3, <3>1, <4>1 DEF Finish, Defer
    <3>5. due' \in [Job -> 0 .. MaxDelay]
      BY <1>0, <3>4
    <3> QED
      BY <1>0, <1>1, <2>1, <3>2, <3>3, <3>5 DEF Clocks
  <2> QED
    BY <2>2, <2>3
<1>7. ASSUME NEW w \in Worker, Renew(w) PROVE Clocks'
  <2>1. UNCHANGED <<age, waited, due, faults>>
    BY <1>7 DEF Renew, times
  <2>2. left' = [left EXCEPT ![mem[w].job] = Lease] \/ UNCHANGED left
    BY <1>7 DEF Renew
  <2>3. left' \in [Job -> 0 .. Lease]
    BY <1>0, <2>2
  <2> QED
    BY <1>0, <2>1, <2>3 DEF Clocks
<1>8. ASSUME NEW w \in Worker, Invoke(w) \/ Stop(w) \/ Start(w) \/ Crash(w) \/ Restart(w) PROVE Clocks'
  <2>1. UNCHANGED <<left, age, waited, due>>
    BY <1>8 DEF Invoke, Answered, Unanswered, Stop, Start, Crash, Restart, rows, lease, times
  <2>2. Faulty \/ UNCHANGED faults
    BY <1>8 DEF Invoke, Answered, Unanswered, Stop, Start, Crash, Restart, DbFails
  <2> QED
    BY <1>5, <2>1, <2>2
<1>9. CASE Request
  <2>1. UNCHANGED <<left, age, waited, due, faults>>
    BY <1>9 DEF Request, Enqueue, EnqueueBatch, RetryFrom, Resolve, Insert, rows, lease, times
  <2> QED
    BY <1>5, <2>1
<1>10. CASE UNCHANGED vars
  BY <1>5, <1>10 DEF vars, rows, lease, times
<1> QED
  BY <1>2, <1>4, <1>6, <1>7, <1>8, <1>9, <1>10 DEF Next, Work

(* The database and the workers start well. *)
LEMMA InitInv == Init => Inv
<1> SUFFICES ASSUME Init PROVE Inv
  OBVIOUS
<1>1. TypeOK
  <2>1. Idle \in Memories /\ NoNote \in Notes /\ NoBatch \in Batches
    BY MemFields DEF NoNote, Notes, Closers, NoBatch, Batches
  <2>2. {Lease, Deadline, MaxWaits, Budget, MaxDelay, MaxFaults} \subseteq Nat
    BY DownloadAssumption
  <2> QED
    BY <2>1, <2>2 DEF Init, TypeOK, Statuses, Active
<1>2. Used = {}
  BY DEF Init, Used
<1>3. RowsInv
  <2>1. Cardinality(Used) = 0 /\ 1 .. 0 = {}
    BY <1>2, FS_EmptySet
  <2>2. \A j \in Job : waits[j] < MaxWaits
    BY DownloadAssumption DEF Init
  <2> QED
    BY <1>2, <2>1, <2>2 DEF RowsInv
<1>4. HeldInv
  BY MemFields DEF Init, HeldInv, Holds, Working, ResultFromHolder, Over
<1>5. ToldInv
  <2>1. FailuresAreTold
    BY DEF Init, FailuresAreTold
  <2>2. BatchToldRight
    BY DEF Init, BatchToldRight, NoBatch
  <2> QED
    BY <1>2, <2>1, <2>2 DEF Init, ToldInv, OutcomesTold, NoNote
<1> QED
  BY <1>1, <1>3, <1>4, <1>5 DEF Inv

(* Every step keeps the invariant. *)
LEMMA NextInv == Inv /\ [Next]_vars => Inv'
<1> SUFFICES ASSUME Inv, [Next]_vars PROVE Inv'
  OBVIOUS
<1>1. MainTypes' /\ Exclusive' /\ RowsInv' /\ HeldInv' /\ ToldInv'
  BY StepKinds, QuietKept, EndKept, TakeKept, InsertKept
<1>2. Clocks'
  BY ClockStep DEF Inv
<1>3. TypeOK' <=> MainTypes' /\ Exclusive' /\ Clocks'
  BY TypeForm, PTL
<1> QED
  BY <1>1, <1>2, <1>3 DEF Inv

(* So it always holds. *)
LEMMA Invariance == Spec => []Inv
BY InitInv, NextInv, PTL DEF Spec

(* The rows, the memories of the workers and the times are always of their *)
(* types; one job runs at a time, a SKU has one job that is not over, and  *)
(* a row holds a token exactly while it runs.                              *)
THEOREM TypeCorrect == Spec => []TypeOK
BY Invariance, PTL DEF Inv

(* Whoever crashes, stalls or answers late, an outcome is recorded by the  *)
(* worker that claimed the job last, or by the expiry of its lease.        *)
THEOREM OutcomesComeFromHolders == Spec => []ResultFromHolder
BY Invariance, PTL DEF Inv, HeldInv

(* Every failure is in a thread that is open, or closed for a reason, and  *)
(* every batch is reported when its last job is over, with the right       *)
(* numbers, in whatever order jobs end, are retried and are given up.      *)
THEOREM EveryOutcomeIsTold == Spec => []OutcomesTold
BY Invariance, PTL DEF Inv, ToldInv

=============================================================================
