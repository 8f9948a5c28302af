------------------------ MODULE CardCreation_proofs ------------------------
(***************************************************************************)
(* Proofs about the writing of one card, for any executions and faults and *)
(* any finite set of retries.                                              *)
(***************************************************************************)
EXTENDS CardCreation, FiniteSetTheorems, WellFoundedInduction, TLAPS

States == Live \union Stopped \union {"SUCCEEDED"}
Recs == [active : BOOLEAN, old : BOOLEAN, proof : BOOLEAN, rounds : 0 .. 2, firm : 0 .. 2]
Manuals == [of : Retries \union {None}, attempt : 0 .. MaxAttempt, ok : BOOLEAN]
Records == Elsewhere .. MaxAttempt
Jobs == [state : States, resume : Live \union {""}, lease : Execs \union {None},
         attempt : 0 .. MaxAttempt, guard : BOOLEAN, replay : BOOLEAN, late : BOOLEAN,
         rec : Recs, manual : Manuals, failed : Records, last : Records, expired : BOOLEAN]
Answers == Closed \union {"expired", "forbidden"}
Sights == {"active", "none", "rejected", "down", "denied"}
Runs == [pc : {"idle", "read", "send", "wait", "reply"}, current : BOOLEAN,
         stage : {"", "errors", "check", "list"}, saw : {""} \union Answers \union Sights,
         attempt : 0 .. MaxAttempt]
LedgerRows == [res : Closed \union {"none", "open", "dead"}, old : BOOLEAN]
Fates == {"none", "pending", "created", "rejected", "lost", "double"}
RetryRows == [st : {"none", "CHECKING", "RUNNING", "SUCCEEDED", "FAILED", "BLOCKED"},
              attempt : 0 .. MaxAttempt, consumed : BOOLEAN, ref : Records, age : 0 .. 2]
Checks == [of : Retries \union {None}, current : BOOLEAN, plan : ReadOnly .. MaxAttempt]

Types ==
  /\ job \in Jobs /\ execs \in [Execs -> Runs] /\ ledger \in [Attempts -> LedgerRows]
  /\ wb \in [Attempts -> Fates] /\ retries \in [Retries -> RetryRows] /\ check \in Checks

\* A row says in which state its task waits, and a run that has a fresh copy of
\* it holds the lease and found the task in a live state.
JobShape ==
  /\ job.state = "RETRY_WAIT" <=> job.resume # ""
  /\ job.expired => job.state = "FAILED"
RunShape ==
  \A e \in Execs :
    /\ execs[e].pc \in {"send", "wait", "reply"} => execs[e].attempt \in Attempts
    /\ execs[e].current =>
         /\ job.lease \in {e, None}
         /\ job.state \in Live /\ At # "CARD_CREATE_READY"

\* One retry is being worked on, and a plan or a grant is never older than the
\* attempt the row is at.
RetryShape ==
  /\ \A r, q \in Retries : retries[r].st \in Active /\ retries[q].st \in Active => r = q
  /\ \A r \in Retries : retries[r].st \in {"none", "CHECKING"} => ~retries[r].consumed
CheckShape ==
  /\ check.of # None => retries[check.of].st = "CHECKING"
  /\ check.current =>
       /\ check.of # None
       /\ job.state \in Stopped
       /\ check.plan > 0 => check.plan \in {job.attempt, job.attempt + 1}
GrantShape ==
  job.manual.ok =>
    /\ job.manual.of # None /\ job.manual.attempt > 0
    /\ job.attempt <= job.manual.attempt
    /\ job.attempt = job.manual.attempt \/ job.state \in {"CARD_CREATE_READY", "FAILED"}

\* Only a retry's grant goes past attempt 2, and it goes one further.
Consumed == {r \in Retries : retries[r].consumed}
Spent == Cardinality(Consumed)
Bounded ==
  /\ \A a \in Attempts : ledger[a].res # "none" => a <= 2 + Spent
  /\ check.plan <= 3 + Spent
  /\ job.manual.ok =>
       /\ job.manual.attempt <= 3 + Spent
       /\ retries[job.manual.of].consumed => job.manual.attempt <= 2 + Spent

\* What the ledger says of the attempts.
LedgerInv ==
  /\ \A a \in Attempts :
       /\ wb[a] # "none" => ledger[a].res \in {"accepted", "unknown", "dead"}
       /\ wb[a] # "double"
       /\ ledger[a].res # "none" => a <= job.attempt
       /\ ledger[a].old => ledger[a].res = "unknown" /\ wb[a] # "pending"
  /\ AttemptsInOrder

\* Two firm rounds of proof mean that attempt 1 did not become a card.
Proven(rec) ==
  /\ rec.firm <= rec.rounds
  /\ rec.firm > 0 => ledger[1].old
  /\ rec.firm > 0 /\ rec.proof => wb[1] # "created"
  /\ rec.firm > 1 => wb[1] # "created"
SawNothing(x) ==
  x.current /\ x.pc = "read" /\ x.stage = "check" /\ x.saw \notin {"active", "down", "denied"}
ProofInv ==
  /\ Proven(job.rec)
  /\ \A e \in Execs : SawNothing(execs[e]) /\ job.rec.firm > 0 => wb[1] # "created"

IInv ==
  /\ Types /\ JobShape /\ RunShape /\ RetryShape /\ CheckShape /\ GrantShape
  /\ Bounded /\ LedgerInv /\ ProofInv

---------------------------------------------------------------------------
(* Constants and finite sets. *)

(* Bounds that grow. *)
LEMMA Grows ==
  \A a, m, n \in Nat :
    m <= n => /\ a <= 2 + m => a <= 2 + n
              /\ a <= 3 + m => a <= 3 + n
              /\ a <= 2 + n => a <= 3 + n
OBVIOUS

(* The bounds the constants have. *)
LEMMA Constants ==
  /\ MaxAttempt \in Nat /\ MaxAttempt >= 2 /\ Cardinality(Retries) \in Nat
  /\ 1 \in Attempts /\ 2 \in Attempts
  /\ Attempts \subseteq 0 .. MaxAttempt /\ Attempts \subseteq Records
  /\ Untold \in Records /\ Elsewhere \in Records
  /\ None \notin Execs /\ None \notin Retries
<1>1. Cardinality(Retries) \in Nat
  BY CardAssumption, FS_CardinalityType
<1> QED
  BY <1>1, CardAssumption DEF Attempts, Records, Untold, Elsewhere

(* The retries that used their grants can be counted. *)
LEMMA SpentIsNat ==
  /\ Spent \in Nat /\ Spent <= Cardinality(Retries)
  /\ \A r \in Retries : ~retries[r].consumed => Spent + 1 <= Cardinality(Retries)
<1>1. Consumed \subseteq Retries /\ IsFiniteSet(Retries)
  BY CardAssumption DEF Consumed
<1>2. IsFiniteSet(Consumed) /\ Spent \in Nat /\ Spent <= Cardinality(Retries)
  BY <1>1, FS_Subset, FS_CardinalityType DEF Spent
<1>3. ASSUME NEW r \in Retries, ~retries[r].consumed
      PROVE  Spent + 1 <= Cardinality(Retries)
  <2>1. r \notin Consumed
    BY <1>3 DEF Consumed
  <2>2. /\ IsFiniteSet(Consumed \union {r})
        /\ Cardinality(Consumed \union {r}) = Cardinality(Consumed) + 1
    BY <1>2, <2>1, FS_AddElement
  <2>3. Consumed \union {r} \subseteq Retries
    BY <1>1
  <2>4. Cardinality(Consumed \union {r}) <= Cardinality(Retries)
    BY <1>1, <2>3, FS_Subset
  <2> QED
    BY <2>2, <2>4 DEF Spent
<1> QED
  BY <1>2, <1>3

(* A grant that is used counts. *)
LEMMA SpentGrows ==
  ASSUME NEW r \in Retries, retries' = [retries EXCEPT ![r].consumed = TRUE],
         retries \in [Retries -> RetryRows]
  PROVE  /\ Spent' \in Nat /\ Spent <= Spent'
         /\ ~retries[r].consumed => Spent' = Spent + 1
<1>1. Consumed' = Consumed \union {r}
  BY DEF Consumed, RetryRows
<1>2. IsFiniteSet(Consumed)
  BY CardAssumption, FS_Subset DEF Consumed
<1>3. CASE r \in Consumed
  <2>1. Consumed' = Consumed /\ retries[r].consumed
    BY <1>1, <1>3 DEF Consumed
  <2> QED
    BY <2>1, SpentIsNat DEF Spent
<1>4. CASE r \notin Consumed
  <2>1. Cardinality(Consumed \union {r}) = Cardinality(Consumed) + 1
    BY <1>2, <1>4, FS_AddElement
  <2> QED
    BY <1>1, <2>1, SpentIsNat DEF Spent
<1> QED
  BY <1>3, <1>4

(* The same grants are used before and after. *)
LEMMA SpentStays ==
  ASSUME \A r \in Retries : retries'[r].consumed = retries[r].consumed
  PROVE  Spent' = Spent /\ Consumed' = Consumed
BY DEF Spent, Consumed

(* A set of attempts has a highest one. *)
LEMMA MaxOf ==
  ASSUME NEW m \in Nat, NEW S \in SUBSET (1 .. m), S # {}
  PROVE  \E a \in S : \A b \in S : b <= a
<1> DEFINE T == {n \in Nat : m - n \in S}
<1>1. T \subseteq Nat
  OBVIOUS
<1>2. T # {}
  <2>1. PICK a \in S : TRUE
    OBVIOUS
  <2>2. m - a \in Nat /\ m - (m - a) = a
    OBVIOUS
  <2> QED
    BY <2>1, <2>2
<1>3. PICK n \in T : \A k \in T : ~(<<k, n>> \in OpToRel(<, Nat))
  BY <1>1, <1>2, NatLessThanWellFounded, WFMin
<1>4. \A k \in T : ~(k < n)
  BY <1>3, <1>1 DEF OpToRel
<1>5. ASSUME NEW b \in S PROVE b <= m - n
  <2>1. m - b \in Nat /\ m - (m - b) = b
    OBVIOUS
  <2>2. ~(m - b < n)
    BY <1>4, <2>1
  <2> QED
    BY <2>1, <2>2
<1> QED
  BY <1>3, <1>5

(* The highest row is a row, and the last. *)
LEMMA HighestRow ==
  ASSUME Rows # {}
  PROVE  Highest \in Rows /\ \A b \in Rows : b <= Highest
<1>1. Rows \in SUBSET (1 .. MaxAttempt) /\ MaxAttempt \in Nat
  BY Constants DEF Rows, Attempts
<1>2. \E a \in Rows : \A b \in Rows : b <= a
  BY <1>1, MaxOf
<1> QED
  BY <1>2 DEF Highest

---------------------------------------------------------------------------
(* Writing the row of the job. *)

\* What every conclusion of a run leaves of the row.
Follows(j, k) ==
  /\ k \in Jobs
  /\ k.lease = j.lease /\ k.attempt = j.attempt
  /\ k.manual.of = j.manual.of /\ k.manual.attempt = j.manual.attempt
  /\ k.manual.ok => j.manual.ok
  /\ k.state = "RETRY_WAIT" <=> k.resume # ""
  /\ k.expired => k.state = "FAILED"

(* A row that goes to a state or is put off. *)
LEMMA GotoFacts ==
  ASSUME NEW j \in Jobs, NEW s \in States \ {"RETRY_WAIT"}
  PROVE  Follows(j, Goto(j, s)) /\ Goto(j, s).rec = j.rec /\ Goto(j, s).state = s
BY DEF Goto, Follows, Jobs, Live

LEMMA LaterFacts ==
  ASSUME NEW j \in Jobs, NEW s \in Live
  PROVE  Follows(j, Later(j, s)) /\ Later(j, s).rec = j.rec /\ Later(j, s).state = "RETRY_WAIT"
BY ZenonT(60) DEF Later, Follows, Jobs, Live, States

LEMMA FailingFacts ==
  ASSUME NEW j \in Jobs, NEW a \in Records
  PROVE  /\ Follows(j, Failing(j, a)) /\ Failing(j, a).rec = j.rec
         /\ Failing(j, a).state = "FAILED"
<1> DEFINE k == Goto(j, "FAILED")
           l == [k EXCEPT !.failed = a]
           m == [l.manual EXCEPT !.ok = FALSE]
<1>1. Follows(j, k) /\ k.rec = j.rec /\ k.state = "FAILED"
  BY GotoFacts DEF States, Stopped
<1>2. /\ l \in Jobs /\ l.manual = k.manual /\ l.rec = k.rec /\ l.state = k.state /\ l.lease = k.lease
      /\ l.attempt = k.attempt /\ l.resume = k.resume /\ l.expired = k.expired
  <2> HIDE DEF k
  <2> QED BY <1>1 DEF Follows, Jobs
<1>3. m \in Manuals /\ m.of = l.manual.of /\ m.attempt = l.manual.attempt /\ ~m.ok
  <2> HIDE DEF l
  <2>1. l.manual \in Manuals
    BY <1>2 DEF Jobs
  <2> QED BY <2>1 DEF Manuals
<1>4. Failing(j, a) = [l EXCEPT !.manual = m]
  BY DEF Failing
<1> HIDE DEF k, l, m
<1> DEFINE n == [l EXCEPT !.manual = m]
<1>5. /\ n \in Jobs /\ n.manual = m /\ n.rec = l.rec /\ n.state = l.state /\ n.lease = l.lease
      /\ n.attempt = l.attempt /\ n.resume = l.resume /\ n.expired = l.expired
  BY <1>2, <1>3 DEF Jobs
<1> HIDE DEF n
<1>6. /\ n.state = "FAILED" /\ n.rec = j.rec /\ n.lease = j.lease /\ n.attempt = j.attempt
      /\ n.manual.of = j.manual.of /\ n.manual.attempt = j.manual.attempt /\ ~n.manual.ok
  BY <1>1, <1>2, <1>3, <1>5 DEF Follows
<1>7. n.resume = ""
  BY <1>1, <1>2, <1>5 DEF Follows
<1>8. Failing(j, a) = n
  BY <1>4 DEF n
<1> QED
  BY <1>5, <1>6, <1>7, <1>8 DEF Follows

(* Writing one field of a row that follows another. *)
LEMMA FieldFacts ==
  ASSUME NEW j, NEW k, Follows(j, k)
  PROVE  /\ \A r \in Recs : /\ Follows(j, [k EXCEPT !.rec = r]) /\ [k EXCEPT !.rec = r].rec = r
                            /\ [k EXCEPT !.rec = r].state = k.state
         /\ \A b \in BOOLEAN :
              /\ Follows(j, [k EXCEPT !.guard = b]) /\ [k EXCEPT !.guard = b].rec = k.rec
              /\ Follows(j, [k EXCEPT !.replay = b]) /\ [k EXCEPT !.replay = b].rec = k.rec
              /\ [k EXCEPT !.replay = b].state = k.state
         /\ \A a \in Records :
              /\ Follows(j, [k EXCEPT !.last = a]) /\ [k EXCEPT !.last = a].rec = k.rec
              /\ [k EXCEPT !.last = a].state = k.state
BY ZenonT(60) DEF Follows, Jobs

LEMMA RecFields ==
  ASSUME NEW r \in Recs
  PROVE  /\ \A b \in BOOLEAN :
              /\ [r EXCEPT !.active = b] \in Recs /\ [r EXCEPT !.active = b].proof = r.proof
              /\ [r EXCEPT !.active = b].rounds = r.rounds /\ [r EXCEPT !.active = b].firm = r.firm
              /\ [r EXCEPT !.proof = b] \in Recs /\ [r EXCEPT !.proof = b].proof = b
              /\ [r EXCEPT !.proof = b].rounds = r.rounds /\ [r EXCEPT !.proof = b].firm = r.firm
              /\ [r EXCEPT !.old = b] \in Recs /\ [r EXCEPT !.old = b].proof = r.proof
              /\ [r EXCEPT !.old = b].rounds = r.rounds /\ [r EXCEPT !.old = b].firm = r.firm
         /\ \A n \in 0 .. 2 :
              /\ [r EXCEPT !.rounds = n] \in Recs /\ [r EXCEPT !.rounds = n].proof = r.proof
              /\ [r EXCEPT !.rounds = n].rounds = n /\ [r EXCEPT !.rounds = n].firm = r.firm
              /\ [r EXCEPT !.firm = n] \in Recs /\ [r EXCEPT !.firm = n].proof = r.proof
              /\ [r EXCEPT !.firm = n].rounds = r.rounds /\ [r EXCEPT !.firm = n].firm = n
BY DEF Recs

(* Later edits of a row follow what the first one followed. *)
LEMMA FollowsOn ==
  ASSUME NEW j, NEW k, NEW l, Follows(k, l), k.lease = j.lease, k.attempt = j.attempt,
         k.manual = j.manual
  PROVE  Follows(j, l)
BY DEF Follows

(* A round of proof counts firmly only on an old row. *)
LEMMA RoundFacts ==
  ASSUME NEW j \in Jobs, Proven(j.rec), j.rec.proof, j.rec.rounds \in {0, 1}
  PROVE  /\ Follows(j, Round(j)) /\ Proven(Round(j).rec) /\ Round(j).state = "CARD_SUBMITTING"
<1> DEFINE G == Goto(j, "CARD_SUBMITTING")
           a == [G.rec EXCEPT !.proof = FALSE]
           Ga == [G EXCEPT !.rec = a]
           b == [Ga.rec EXCEPT !.rounds = Ga.rec.rounds + 1]
           Gb == [Ga EXCEPT !.rec = b]
           c == [Gb.rec EXCEPT !.firm = IF ledger[1].old THEN Gb.rec.firm + 1 ELSE Gb.rec.firm]
           Gc == [Gb EXCEPT !.rec = c]
<1>0. j.rec \in Recs /\ j.rec.firm \in 0 .. 2 /\ j.rec.rounds \in 0 .. 2
  BY DEF Jobs, Recs
<1>1. Follows(j, G) /\ G.rec = j.rec /\ G.state = "CARD_SUBMITTING"
  BY GotoFacts DEF States, Live
<1> HIDE DEF G
<1>2. a \in Recs /\ ~a.proof /\ a.rounds = j.rec.rounds /\ a.firm = j.rec.firm
  <2>1. G.rec \in Recs
    BY <1>0, <1>1
  <2> QED
    BY <1>1, <2>1 DEF Recs
<1> HIDE DEF a
<1>3. Follows(j, Ga) /\ Ga.rec = a /\ Ga.state = G.state
  BY <1>1, <1>2, FieldFacts
<1> HIDE DEF Ga
<1>4. b \in Recs /\ ~b.proof /\ b.rounds = j.rec.rounds + 1 /\ b.firm = j.rec.firm
  <2>1. Ga.rec \in Recs /\ Ga.rec.rounds + 1 \in 0 .. 2
    BY <1>2, <1>3
  <2>2. /\ b \in Recs /\ b.proof = Ga.rec.proof /\ b.rounds = Ga.rec.rounds + 1
        /\ b.firm = Ga.rec.firm
    BY <2>1 DEF Recs
  <2> QED
    BY <1>2, <1>3, <2>2
<1> HIDE DEF b
<1>5. Follows(j, Gb) /\ Gb.rec = b /\ Gb.state = G.state
  BY <1>3, <1>4, FieldFacts
<1> HIDE DEF Gb
<1>6. /\ c \in Recs /\ ~c.proof /\ c.rounds = j.rec.rounds + 1
      /\ c.firm = IF ledger[1].old THEN j.rec.firm + 1 ELSE j.rec.firm
  <2> DEFINE n == IF ledger[1].old THEN Gb.rec.firm + 1 ELSE Gb.rec.firm
  <2>1. Gb.rec \in Recs /\ n \in 0 .. 2
    BY <1>0, <1>4, <1>5 DEF Proven
  <2>2. n = IF ledger[1].old THEN j.rec.firm + 1 ELSE j.rec.firm
    BY <1>4, <1>5
  <2> HIDE DEF n
  <2>3. /\ c \in Recs /\ c.proof = Gb.rec.proof /\ c.rounds = Gb.rec.rounds /\ c.firm = n
    <3>1. c = [Gb.rec EXCEPT !.firm = n]
      BY DEF n, c
    <3> HIDE DEF c
    <3> QED
      BY <2>1, <3>1 DEF Recs
  <2> QED
    BY <1>4, <1>5, <2>2, <2>3
<1> HIDE DEF c
<1>7. Follows(j, Gc) /\ Gc.rec = c /\ Gc.state = G.state
  BY <1>5, <1>6, FieldFacts
<1>8. Round(j) = Gc
  BY DEF Round, Gc, Gb, Ga, G, a, b, c
<1> HIDE DEF Gc
<1>9. Proven(c)
  BY <1>0, <1>6 DEF Proven
<1> QED
  BY <1>1, <1>7, <1>8, <1>9

(* The proof rounds. *)
LEMMA AfterProofFacts ==
  ASSUME NEW j \in Jobs, Proven(j.rec), j.rec.proof
  PROVE  Follows(j, AfterProof(j)) /\ Proven(AfterProof(j).rec)
<1> DEFINE r == [j.rec EXCEPT !.proof = FALSE]
           k == [j EXCEPT !.rec = r]
<1>0. j.rec \in Recs /\ j.rec.rounds \in 0 .. 2
  BY DEF Jobs, Recs
<1>1. r \in Recs /\ ~r.proof /\ r.rounds = j.rec.rounds /\ r.firm = j.rec.firm
  BY <1>0, RecFields
<1>2. Proven(r)
  <2> HIDE DEF r
  <2> QED BY <1>1 DEF Proven
<1>3. /\ k \in Jobs /\ k.rec = r /\ k.lease = j.lease /\ k.attempt = j.attempt
      /\ k.manual = j.manual
  <2> HIDE DEF r
  <2> QED BY <1>1 DEF Jobs
<1>4. \A s \in States \ {"RETRY_WAIT"} : Follows(j, Goto(k, s)) /\ Proven(Goto(k, s).rec)
  <2> HIDE DEF k
  <2> QED BY <1>2, <1>3, GotoFacts, FollowsOn
<1>5. {"NEEDS_ATTENTION", "CARD_SUBMITTING"} \subseteq States \ {"RETRY_WAIT"}
  BY DEF States, Live, Stopped
<1>6. /\ Follows(j, Goto(k, "NEEDS_ATTENTION")) /\ Proven(Goto(k, "NEEDS_ATTENTION").rec)
      /\ Follows(j, Goto(k, "CARD_SUBMITTING")) /\ Proven(Goto(k, "CARD_SUBMITTING").rec)
  BY <1>4, <1>5
<1>7. ASSUME j.rec.rounds \in {0, 1}
      PROVE  /\ Follows(j, Round(j)) /\ Proven(Round(j).rec)
             /\ Follows(j, [Round(j) EXCEPT !.state = "CARD_CREATE_READY"])
             /\ [Round(j) EXCEPT !.state = "CARD_CREATE_READY"].rec = Round(j).rec
  <2>1. /\ Follows(j, Round(j)) /\ Proven(Round(j).rec) /\ Round(j).state = "CARD_SUBMITTING"
    BY <1>7, RoundFacts
  <2>2. /\ Follows(j, [Round(j) EXCEPT !.state = "CARD_CREATE_READY"])
        /\ [Round(j) EXCEPT !.state = "CARD_CREATE_READY"].rec = Round(j).rec
    BY <2>1 DEF Follows, Jobs, States, Live
  <2> QED
    BY <2>1, <2>2
<1>8. AfterProof(j) =
        IF j.attempt >= 2
        THEN Goto(k, IF j.late THEN "NEEDS_ATTENTION" ELSE "CARD_SUBMITTING")
        ELSE IF ~j.rec.old THEN Goto(k, "CARD_SUBMITTING")
        ELSE IF j.rec.rounds = 0 THEN Round(j)
        ELSE IF j.rec.rounds = 1 THEN [Round(j) EXCEPT !.state = "CARD_CREATE_READY"]
        ELSE Goto(k, "NEEDS_ATTENTION")
  BY DEF AfterProof
<1> HIDE DEF k
<1>9. CASE j.attempt >= 2
  BY <1>6, <1>8, <1>9
<1>10. CASE ~(j.attempt >= 2) /\ ~j.rec.old
  BY <1>6, <1>8, <1>10
<1>11. CASE ~(j.attempt >= 2) /\ j.rec.old /\ j.rec.rounds = 0
  BY <1>7, <1>8, <1>11
<1>12. CASE ~(j.attempt >= 2) /\ j.rec.old /\ j.rec.rounds = 1
  BY <1>7, <1>8, <1>12
<1>13. CASE ~(j.attempt >= 2) /\ j.rec.old /\ j.rec.rounds = 2
  BY <1>6, <1>8, <1>13
<1> QED
  BY <1>0, <1>9, <1>10, <1>11, <1>12, <1>13

(* What is saved after a write. *)
LEMMA AfterWriteFacts ==
  ASSUME NEW j \in Jobs, Proven(j.rec), NEW a \in Attempts, NEW saw
  PROVE  Follows(j, AfterWrite(j, a, saw)) /\ Proven(AfterWrite(j, a, saw).rec)
<1> DEFINE i == [j EXCEPT !.last = a]
           k == [i EXCEPT !.replay = FALSE]
<1>0. a \in Records /\ j.rec \in Recs
  BY Constants DEF Jobs
<1>1. /\ i \in Jobs /\ i.rec = j.rec /\ i.lease = j.lease /\ i.attempt = j.attempt
      /\ i.manual = j.manual
  BY <1>0 DEF Jobs
<1>2. /\ k \in Jobs /\ k.rec = j.rec /\ k.lease = j.lease /\ k.attempt = j.attempt
      /\ k.manual = j.manual
  <2> HIDE DEF i
  <2> QED BY <1>1 DEF Jobs
<1>3. {"CARD_SUBMITTING", "CARD_CREATE_READY"} \subseteq Live /\ "CARD_WAITING" \in States \ {"RETRY_WAIT"}
  BY DEF Live, States
<1>4. AfterWrite(j, a, saw) =
        IF saw = "accepted" THEN Goto(j, "CARD_WAITING")
        ELSE IF saw = "unknown" THEN [Later(k, "CARD_SUBMITTING") EXCEPT !.rec.active = TRUE]
        ELSE IF saw = "notsent" THEN [Later(k, "CARD_CREATE_READY") EXCEPT !.replay = TRUE]
        ELSE IF saw = "throttled" THEN Later(k, "CARD_SUBMITTING")
        ELSE [Failing(i, a) EXCEPT !.expired = (saw = "expired")]
  BY DEF AfterWrite
<1> HIDE DEF i, k
<1>5. /\ Follows(j, Later(k, "CARD_SUBMITTING")) /\ Later(k, "CARD_SUBMITTING").rec = j.rec
      /\ Follows(j, Later(k, "CARD_CREATE_READY")) /\ Later(k, "CARD_CREATE_READY").rec = j.rec
  BY <1>2, <1>3, LaterFacts, FollowsOn
<1>6. CASE saw = "accepted"
  BY <1>3, <1>4, <1>6, GotoFacts
<1>7. CASE saw = "unknown"
  <2> DEFINE L == Later(k, "CARD_SUBMITTING")
             r == [L.rec EXCEPT !.active = TRUE]
  <2>1. Follows(j, L) /\ L.rec = j.rec
    BY <1>5
  <2>2. AfterWrite(j, a, saw) = [L EXCEPT !.rec = r]
    BY <1>4, <1>7
  <2> HIDE DEF L
  <2>3. r \in Recs /\ r.proof = j.rec.proof /\ r.rounds = j.rec.rounds /\ r.firm = j.rec.firm
    BY <1>0, <2>1 DEF Recs
  <2> HIDE DEF r
  <2>4. Follows(j, [L EXCEPT !.rec = r]) /\ [L EXCEPT !.rec = r].rec = r
    BY <2>1, <2>3, FieldFacts
  <2> QED
    BY <2>2, <2>3, <2>4 DEF Proven
<1>8. CASE saw = "notsent"
  <2> DEFINE L == Later(k, "CARD_CREATE_READY")
  <2> HIDE DEF L
  <2>1. Follows(j, L) /\ L.rec = j.rec
    BY <1>5 DEF L
  <2>2. Follows(j, [L EXCEPT !.replay = TRUE]) /\ [L EXCEPT !.replay = TRUE].rec = L.rec
    BY <2>1, FieldFacts
  <2>3. AfterWrite(j, a, saw) = [L EXCEPT !.replay = TRUE]
    BY <1>4, <1>8 DEF L
  <2> QED
    BY <2>1, <2>2, <2>3
<1>9. CASE saw = "throttled"
  BY <1>4, <1>5, <1>9
<1>10. CASE saw \notin {"accepted", "unknown", "notsent", "throttled"}
  <2> DEFINE F == Failing(i, a)
             b == (saw = "expired")
  <2>1. Follows(i, F) /\ F.rec = i.rec /\ F.state = "FAILED"
    BY <1>0, <1>1, FailingFacts
  <2>2. AfterWrite(j, a, saw) = [F EXCEPT !.expired = b]
    BY <1>4, <1>10
  <2>3. b \in BOOLEAN
    OBVIOUS
  <2> HIDE DEF F, b
  <2>4. Follows(i, [F EXCEPT !.expired = b]) /\ [F EXCEPT !.expired = b].rec = F.rec
    BY <2>1, <2>3 DEF Follows, Jobs
  <2>5. Follows(j, [F EXCEPT !.expired = b])
    BY <1>1, <2>4, FollowsOn
  <2> QED
    BY <1>1, <2>1, <2>2, <2>4, <2>5
<1> QED
  BY <1>6, <1>7, <1>8, <1>9, <1>10

(* What is saved after a read. *)
LEMMA AfterCheckFacts ==
  ASSUME NEW j \in Jobs, Proven(j.rec), NEW saw,
         saw # "active" /\ j.rec.firm > 0 => wb[1] # "created"
  PROVE  Follows(j, AfterCheck(j, saw)) /\ Proven(AfterCheck(j, saw).rec)
<1>0. j.rec \in Recs
  BY DEF Jobs
<1>1. {"CARD_WAITING", "CARD_ERROR_RECONCILING", "BLOCKED_EXISTING_CARD", "CARD_CREATE_READY"}
        \subseteq States \ {"RETRY_WAIT"}
  BY DEF Live, Stopped, States
<1>2. \A s \in {"CARD_WAITING", "CARD_ERROR_RECONCILING", "BLOCKED_EXISTING_CARD", "CARD_CREATE_READY"} :
        Follows(j, Goto(j, s)) /\ Goto(j, s).rec = j.rec
  BY <1>1, GotoFacts
<1>3. CASE j.rec.active /\ saw = "active"
  <2> DEFINE G == Goto(j, "CARD_WAITING")
             r == [G.rec EXCEPT !.active = FALSE]
  <2>1. Follows(j, G) /\ G.rec = j.rec
    BY <1>2
  <2>2. AfterCheck(j, saw) = [G EXCEPT !.rec = r]
    BY <1>3 DEF AfterCheck
  <2> HIDE DEF G
  <2>3. r \in Recs /\ r.proof = j.rec.proof /\ r.rounds = j.rec.rounds /\ r.firm = j.rec.firm
    BY <1>0, <2>1 DEF Recs
  <2> HIDE DEF r
  <2>4. Follows(j, [G EXCEPT !.rec = r]) /\ [G EXCEPT !.rec = r].rec = r
    BY <2>1, <2>3, FieldFacts
  <2> QED
    BY <2>2, <2>3, <2>4 DEF Proven
<1>4. CASE j.rec.active /\ saw # "active"
  <2> DEFINE G == Goto(j, "CARD_ERROR_RECONCILING")
             r == [G.rec EXCEPT !.proof = TRUE]
  <2>1. Follows(j, G) /\ G.rec = j.rec
    BY <1>2
  <2>2. AfterCheck(j, saw) = [G EXCEPT !.rec = r]
    BY <1>4 DEF AfterCheck
  <2> HIDE DEF G
  <2>3. r \in Recs /\ r.proof /\ r.rounds = j.rec.rounds /\ r.firm = j.rec.firm
    BY <1>0, <2>1 DEF Recs
  <2> HIDE DEF r
  <2>4. Follows(j, [G EXCEPT !.rec = r]) /\ [G EXCEPT !.rec = r].rec = r
    BY <2>1, <2>3, FieldFacts
  <2>5. Proven(r)
    BY <1>4, <2>3 DEF Proven
  <2> QED
    BY <2>2, <2>4, <2>5
<1>5. CASE ~j.rec.active /\ saw = "active"
  BY <1>2, <1>5 DEF AfterCheck
<1>6. CASE ~j.rec.active /\ saw # "active"
  <2> DEFINE G == Goto(j, "CARD_CREATE_READY")
  <2>1. Follows(j, G) /\ G.rec = j.rec
    BY <1>2
  <2>2. AfterCheck(j, saw) = [G EXCEPT !.guard = TRUE]
    BY <1>6 DEF AfterCheck
  <2> HIDE DEF G
  <2>3. Follows(j, [G EXCEPT !.guard = TRUE]) /\ [G EXCEPT !.guard = TRUE].rec = G.rec
    BY <2>1, FieldFacts
  <2> QED
    BY <2>1, <2>2, <2>3
<1> QED
  BY <1>3, <1>4, <1>5, <1>6

LEMMA AfterErrorsFacts ==
  ASSUME NEW j \in Jobs, Proven(j.rec), NEW saw
  PROVE  Follows(j, AfterErrors(j, saw)) /\ Proven(AfterErrors(j, saw).rec)
<1>1. {"CARD_WAITING", "CARD_SUBMITTING", "NEEDS_ATTENTION"} \subseteq States \ {"RETRY_WAIT"}
  BY DEF Live, Stopped, States
<1>2. \A s \in {"CARD_WAITING", "CARD_SUBMITTING", "NEEDS_ATTENTION"} :
        Follows(j, Goto(j, s)) /\ Goto(j, s).rec = j.rec
  BY <1>1, GotoFacts
<1>3. Follows(j, Failing(j, Elsewhere)) /\ Failing(j, Elsewhere).rec = j.rec
  BY Constants, FailingFacts
<1>4. CASE saw = "rejected"
  BY <1>3, <1>4 DEF AfterErrors
<1>5. CASE saw # "rejected" /\ j.rec.active /\ j.rec.proof
  BY <1>5, AfterProofFacts DEF AfterErrors
<1>6. CASE saw # "rejected" /\ j.rec.active /\ ~j.rec.proof
  BY <1>2, <1>6 DEF AfterErrors
<1>7. CASE saw # "rejected" /\ ~j.rec.active
  BY <1>2, <1>7 DEF AfterErrors
<1> QED
  BY <1>4, <1>5, <1>6, <1>7

(* Whatever a run saves leaves the attempt and the grant as they were, and *)
(* counts a proof only if it is one.                                       *)
LEMMA AfterFacts ==
  ASSUME IInv, NEW e \in Execs, execs[e].pc \in {"read", "reply"}, execs[e].current
  PROVE  Follows(job, After(job, execs[e])) /\ Proven(After(job, execs[e]).rec)
<1> DEFINE x == execs[e]
<1>0. /\ job \in Jobs /\ x \in Runs /\ Proven(job.rec) /\ x.pc \in {"read", "reply"} /\ x.current
      /\ job.state \in Live /\ At # "CARD_CREATE_READY"
      /\ x.pc = "reply" => x.attempt \in Attempts
      /\ SawNothing(x) /\ job.rec.firm > 0 => wb[1] # "created"
  BY DEF IInv, Types, RunShape, ProofInv
<1>1. At \in Live
  <2>1. job.resume \in Live \union {""} /\ (job.state = "RETRY_WAIT" <=> job.resume # "")
    BY <1>0 DEF IInv, JobShape, Jobs
  <2> QED
    BY <1>0, <2>1 DEF At
<1> HIDE DEF x
<1>2. CASE x.pc = "reply"
  BY <1>0, <1>2, AfterWriteFacts DEF After, x
<1>3. CASE x.pc = "read" /\ x.saw = "down"
  <2> DEFINE L == Later(job, At)
             M == [L EXCEPT !.replay = FALSE]
  <2>1. Follows(job, L) /\ L.rec = job.rec
    BY <1>0, <1>1, LaterFacts
  <2>2. After(job, x) = [M EXCEPT !.last = Elsewhere]
    BY <1>3 DEF After
  <2> HIDE DEF L
  <2>3. Follows(job, M) /\ M.rec = L.rec
    BY <2>1, FieldFacts
  <2> HIDE DEF M
  <2>4. Follows(job, [M EXCEPT !.last = Elsewhere]) /\ [M EXCEPT !.last = Elsewhere].rec = M.rec
    BY <2>3, Constants, FieldFacts
  <2> QED
    BY <1>0, <2>1, <2>2, <2>3, <2>4 DEF x
<1>4. CASE x.pc = "read" /\ x.saw = "denied"
  <2> DEFINE G == Goto(job, "BLOCKED_AUTH")
  <2>1. Follows(job, G) /\ G.rec = job.rec
    BY <1>0, GotoFacts DEF States, Stopped
  <2>2. After(job, x) = [G EXCEPT !.last = Elsewhere]
    BY <1>4 DEF After
  <2> HIDE DEF G
  <2>3. Follows(job, [G EXCEPT !.last = Elsewhere]) /\ [G EXCEPT !.last = Elsewhere].rec = G.rec
    BY <2>1, Constants, FieldFacts
  <2> QED
    BY <1>0, <2>1, <2>2, <2>3 DEF x
<1>5. CASE x.pc = "read" /\ x.saw \notin {"down", "denied"} /\ x.stage = "check"
  <2>1. x.saw # "active" /\ job.rec.firm > 0 => wb[1] # "created"
    BY <1>0, <1>5 DEF SawNothing
  <2> QED
    BY <1>0, <1>5, <2>1, AfterCheckFacts DEF After, x
<1>6. CASE x.pc = "read" /\ x.saw \notin {"down", "denied"} /\ x.stage = "errors"
  BY <1>0, <1>6, AfterErrorsFacts DEF After, x
<1>7. CASE x.pc = "read" /\ x.saw \notin {"down", "denied"} /\ x.stage \notin {"check", "errors"}
  <2>1. After(job, x) = AfterList(job, x.saw)
    BY <1>7 DEF After
  <2>2. \A s \in {"SUCCEEDED", "CARD_ERROR_RECONCILING"} :
          Follows(job, Goto(job, s)) /\ Goto(job, s).rec = job.rec
    BY <1>0, GotoFacts DEF States, Live
  <2> QED
    BY <1>0, <2>1, <2>2 DEF AfterList, x
<1> QED
  BY <1>0, <1>2, <1>3, <1>4, <1>5, <1>6, <1>7

---------------------------------------------------------------------------
(* What the steps keep. *)

(* The fields of a row that are numbers. *)
LEMMA JobFields ==
  /\ \A k \in Jobs : /\ k.attempt \in Nat /\ k.manual \in Manuals /\ k.manual.attempt \in Nat
                     /\ k.manual.attempt \in 0 .. MaxAttempt
                     /\ k.manual.of \in Retries \union {None}
                     /\ k.rec \in Recs
  /\ Attempts \subseteq Nat
<1>1. MaxAttempt \in Nat
  BY Constants
<1>2. \A m \in Manuals : /\ m.attempt \in Nat /\ m.attempt \in 0 .. MaxAttempt
                         /\ m.of \in Retries \union {None}
  BY <1>1 DEF Manuals
<1>3. \A k \in Jobs : k.attempt \in Nat /\ k.manual \in Manuals /\ k.rec \in Recs
  <2>1. 0 .. MaxAttempt \subseteq Nat
    BY <1>1
  <2>2. \A k \in Jobs : k.attempt \in 0 .. MaxAttempt /\ k.manual \in Manuals /\ k.rec \in Recs
    BY DEF Jobs
  <2> QED
    BY <2>1, <2>2
<1> QED
  BY <1>1, <1>2, <1>3 DEF Attempts

(* A run that does nothing. *)
LEMMA IdleFacts ==
  Idle \in Runs /\ Idle.pc = "idle" /\ ~Idle.current /\ Idle.attempt = 0
BY Constants DEF Idle, Runs

(* Copies that are out of date. *)
LEMMA OutdatedFacts ==
  ASSUME Types
  PROVE  /\ Outdated \in [Execs -> Runs] /\ Overtaken \in Checks
         /\ \A e \in Execs : /\ ~Outdated[e].current
                             /\ Outdated[e].pc = execs[e].pc
                             /\ Outdated[e].attempt = execs[e].attempt
         /\ ~Overtaken.current /\ Overtaken.of = check.of /\ Overtaken.plan = check.plan
<1>1. \A e \in Execs : execs[e] \in Runs
  BY DEF Types
<1>2. \A x \in Runs : /\ [x EXCEPT !.current = FALSE] \in Runs
                      /\ ~[x EXCEPT !.current = FALSE].current
                      /\ [x EXCEPT !.current = FALSE].pc = x.pc
                      /\ [x EXCEPT !.current = FALSE].attempt = x.attempt
  BY DEF Runs
<1>3. /\ Overtaken \in Checks /\ ~Overtaken.current /\ Overtaken.of = check.of
      /\ Overtaken.plan = check.plan
  BY DEF Overtaken, Checks, Types
<1>4. Outdated = [e \in Execs |-> [execs[e] EXCEPT !.current = FALSE]]
  BY DEF Outdated
<1> QED
  BY <1>1, <1>2, <1>3, <1>4

\* A row may be written so: the attempt does not go back, a grant is kept or
\* dropped, and a proof is one.
Writes(k) ==
  /\ k \in Jobs
  /\ k.state = "RETRY_WAIT" <=> k.resume # ""
  /\ k.expired => k.state = "FAILED"
  /\ job.attempt <= k.attempt
  /\ k.manual.ok =>
       /\ job.manual.ok /\ k.manual.of = job.manual.of /\ k.manual.attempt = job.manual.attempt
       /\ k.attempt <= k.manual.attempt
       /\ k.attempt = k.manual.attempt \/ k.state \in {"CARD_CREATE_READY", "FAILED"}
  /\ Proven(k.rec)

\* A run leaves the grant as it was, or drops it.
GrantKept ==
  job'.manual.ok =>
    job.manual.ok /\ job'.manual.of = job.manual.of /\ job'.manual.attempt = job.manual.attempt

(* A run writes the row. *)
LEMMA RowWritten ==
  ASSUME IInv, Writes(job'), NEW e \in Execs, NEW x \in Runs,
         execs' = Outdated \/ execs' = [Outdated EXCEPT ![e] = x],
         x.pc \in {"send", "wait", "reply"} => x.attempt \in Attempts,
         x.current => job'.lease = e /\ job'.state \in Live /\ At' # "CARD_CREATE_READY",
         SawNothing(x) /\ job'.rec.firm > 0 => wb[1] # "created",
         check' = Overtaken, UNCHANGED <<ledger, wb, retries>>
  PROVE  IInv' /\ GrantKept
<1>1. Types'
  BY OutdatedFacts DEF IInv, Types, Writes
<1>2. JobShape'
  BY DEF JobShape, Writes
<1>3. \A d \in Execs : execs'[d] = Outdated[d] \/ (d = e /\ execs'[d] = x)
  BY OutdatedFacts DEF IInv
<1>4. RunShape'
  BY <1>3, OutdatedFacts DEF IInv, RunShape
<1>5. RetryShape' /\ Spent' = Spent
  BY SpentStays DEF IInv, RetryShape
<1>6. CheckShape'
  BY OutdatedFacts DEF IInv, CheckShape
<1>7. GrantShape'
  BY DEF IInv, GrantShape, Writes
<1>8. Bounded'
  BY <1>5, OutdatedFacts DEF IInv, Bounded, Writes
<1>9. LedgerInv'
  <2>1. \A a \in Attempts : ledger'[a].res # "none" => a <= job'.attempt
    <3>1. job.attempt \in Nat /\ job'.attempt \in Nat /\ job.attempt <= job'.attempt
      BY JobFields DEF IInv, Types, Writes
    <3>2. \A a \in Attempts : a \in Nat /\ (ledger[a].res # "none" => a <= job.attempt)
      BY JobFields DEF IInv, LedgerInv
    <3> QED
      BY <3>1, <3>2
  <2> QED
    BY <2>1 DEF IInv, LedgerInv, AttemptsInOrder
<1>10. ProofInv'
  <2>1. Proven(job.rec)'
    BY DEF Proven, Writes
  <2>2. \A d \in Execs : SawNothing(execs'[d]) => d = e /\ execs'[d] = x
    BY <1>3, OutdatedFacts DEF IInv, SawNothing
  <2> QED
    BY <2>1, <2>2 DEF ProofInv, SawNothing
<1> QED
  BY <1>1, <1>2, <1>4, <1>5, <1>6, <1>7, <1>8, <1>9, <1>10 DEF IInv, Writes, GrantKept

(* What a run concludes may be written. *)
LEMMA FollowedWrites ==
  ASSUME IInv, NEW k, Follows(job, k), Proven(k.rec), job.state \in Live, At # "CARD_CREATE_READY"
  PROVE  Writes([k EXCEPT !.lease = None]) /\ [k EXCEPT !.lease = None].lease = None
<1> DEFINE l == [k EXCEPT !.lease = None]
<1>1. /\ l \in Jobs /\ l.lease = None /\ l.state = k.state /\ l.resume = k.resume
      /\ l.attempt = k.attempt /\ l.manual = k.manual /\ l.rec = k.rec /\ l.expired = k.expired
  BY DEF Follows, Jobs
<1> HIDE DEF l
<1>2. job.state \notin {"CARD_CREATE_READY", "FAILED"}
  BY DEF At, Live
<1>3. job.manual.ok => job.attempt = job.manual.attempt
  BY <1>2 DEF IInv, GrantShape
<1>4. job.attempt \in Nat /\ job.manual.attempt \in Nat
  BY JobFields DEF IInv, Types
<1>5. /\ l.attempt = job.attempt
      /\ l.manual.of = job.manual.of /\ l.manual.attempt = job.manual.attempt
      /\ l.manual.ok => job.manual.ok
      /\ l.state = "RETRY_WAIT" <=> l.resume # ""
      /\ l.expired => l.state = "FAILED"
  BY <1>1 DEF Follows
<1>6. job.attempt <= l.attempt /\ (l.manual.ok => l.attempt <= l.manual.attempt)
  <2>1. job.attempt <= job.attempt
    BY <1>4
  <2>2. l.manual.ok => job.attempt <= job.manual.attempt
    BY <1>3, <1>5, <2>1
  <2> QED
    BY <1>5, <2>1, <2>2
<1>7. Proven(l.rec)
  BY <1>1
<1>8. Writes(l)
  BY <1>1, <1>3, <1>5, <1>6, <1>7 DEF Writes
<1> QED
  BY <1>1, <1>8 DEF l

(* Runs move on while the row stays. *)
LEMMA RunsMoved ==
  ASSUME IInv, execs' \in [Execs -> Runs], UNCHANGED job,
         \A d \in Execs :
           /\ execs'[d].pc \in {"send", "wait", "reply"} => execs'[d].attempt \in Attempts
           /\ execs'[d].current => execs[d].current
           /\ execs'[d].pc = "read" => execs'[d] = execs[d]
  PROVE  RunShape' /\ JobShape' /\ \A d \in Execs : SawNothing(execs'[d]) => SawNothing(execs[d])
<1>1. At' = At
  BY DEF At
<1>2. RunShape'
  BY <1>1 DEF IInv, RunShape
<1>3. JobShape'
  BY DEF IInv, JobShape
<1>4. \A d \in Execs : SawNothing(execs'[d]) => SawNothing(execs[d])
  BY DEF SawNothing
<1> QED
  BY <1>2, <1>3, <1>4

(* Only runs move. *)
LEMMA OnlyRuns ==
  ASSUME IInv, execs' \in [Execs -> Runs], UNCHANGED <<job, ledger, wb, retries, check>>,
         \A d \in Execs :
           /\ execs'[d].pc \in {"send", "wait", "reply"} => execs'[d].attempt \in Attempts
           /\ execs'[d].current => execs[d].current
           /\ execs'[d].pc = "read" => execs'[d] = execs[d]
  PROVE  IInv'
<1>1. RunShape' /\ JobShape' /\ \A d \in Execs : SawNothing(execs'[d]) => SawNothing(execs[d])
  BY RunsMoved
<1>2. Types'
  BY DEF IInv, Types
<1>3. RetryShape' /\ CheckShape' /\ GrantShape'
  BY DEF IInv, RetryShape, CheckShape, GrantShape
<1>4. Bounded'
  BY SpentStays DEF IInv, Bounded
<1>5. LedgerInv'
  BY DEF IInv, LedgerInv, AttemptsInOrder
<1>6. ProofInv'
  BY <1>1 DEF IInv, ProofInv, Proven, SawNothing
<1> QED
  BY <1>1, <1>2, <1>3, <1>4, <1>5, <1>6 DEF IInv

---------------------------------------------------------------------------
(* The steps of the runs. *)

LEMMA ReadingKeeps ==
  ASSUME IInv, NEW e \in Execs, Reading(e)
  PROVE  IInv' /\ GrantKept
<1>1. PICK saw \in {View(Stage), "down", "denied"} : Read(e, saw)
  BY DEF Reading
<1> DEFINE x == [Idle EXCEPT !.pc = "read", !.current = TRUE, !.stage = Stage, !.saw = saw]
<1>2. View(Stage) \in Sights /\ saw \in Sights
  BY <1>1 DEF View, Sights
<1>3. Stage \in {"errors", "check", "list"}
  BY DEF Stage
<1>4. /\ x \in Runs /\ x.pc = "read" /\ x.current /\ x.stage = Stage /\ x.saw = saw
  BY <1>2, <1>3, IdleFacts DEF Runs
<1>5. /\ job' = [job EXCEPT !.lease = e] /\ execs' = [Outdated EXCEPT ![e] = x]
      /\ check' = Overtaken /\ UNCHANGED <<ledger, wb, retries>>
      /\ job.state \in Live /\ At # "CARD_CREATE_READY"
  BY <1>1 DEF Read, Claimable
<1> HIDE DEF x
<1>6. /\ job' \in Jobs /\ job'.lease = e /\ job'.state = job.state /\ job'.resume = job.resume
      /\ job'.attempt = job.attempt /\ job'.manual = job.manual /\ job'.rec = job.rec
      /\ job'.expired = job.expired
  BY <1>5 DEF IInv, Types, Jobs
<1>7. At' = At
  BY <1>6 DEF At
<1>8. Writes(job')
  <2>1. job.attempt \in Nat /\ job.manual.attempt \in Nat
    BY JobFields DEF IInv, Types
  <2>2. /\ job.state = "RETRY_WAIT" <=> job.resume # ""
        /\ job.expired => job.state = "FAILED"
        /\ job.manual.ok => /\ job.attempt <= job.manual.attempt
                            /\ \/ job.attempt = job.manual.attempt
                               \/ job.state \in {"CARD_CREATE_READY", "FAILED"}
        /\ Proven(job.rec)
    BY DEF IInv, JobShape, GrantShape, ProofInv
  <2>3. job.attempt <= job.attempt
    BY <2>1
  <2> HIDE DEF x
  <2> QED
    BY <1>6, <2>2, <2>3 DEF Writes
<1>9. SawNothing(x) => wb[1] # "created"
  <2>1. SUFFICES ASSUME x.stage = "check", saw \notin {"active", "down", "denied"}
                 PROVE  wb[1] # "created"
    BY <1>4 DEF SawNothing
  <2>2. saw = View("check") /\ ~Found
    BY <1>1, <1>4, <2>1 DEF View
  <2> QED
    BY <2>2, Constants DEF Found
<1> QED
  BY <1>4, <1>5, <1>6, <1>7, <1>8, <1>9, RowWritten

LEMMA PersistKeeps ==
  ASSUME IInv, NEW e \in Execs, Persist(e)
  PROVE  IInv' /\ GrantKept
<1>0. Idle \in Runs /\ Idle.pc = "idle" /\ ~Idle.current
  BY IdleFacts
<1>1. CASE execs[e].current
  <2>1. /\ job' = [After(job, execs[e]) EXCEPT !.lease = None]
        /\ execs' = [Outdated EXCEPT ![e] = Idle] /\ check' = Overtaken
        /\ UNCHANGED <<ledger, wb, retries>> /\ execs[e].pc \in {"read", "reply"}
    BY <1>1 DEF Persist
  <2>2. Follows(job, After(job, execs[e])) /\ Proven(After(job, execs[e]).rec)
    BY <1>1, <2>1, AfterFacts
  <2>3. Writes(job')
    BY <1>1, <2>1, <2>2, FollowedWrites DEF IInv, RunShape
  <2>4. ~SawNothing(Idle)
    BY <1>0 DEF SawNothing
  <2> QED
    BY <1>0, <2>1, <2>3, <2>4, RowWritten
<1>2. CASE ~execs[e].current
  <2>1. execs' = [execs EXCEPT ![e] = Idle] /\ UNCHANGED <<job, check, ledger, wb, retries>>
    BY <1>2 DEF Persist
  <2>2. execs' \in [Execs -> Runs] /\ \A d \in Execs : execs'[d] \in {execs[d], Idle}
    BY <1>0, <2>1 DEF IInv, Types
  <2>3. \A d \in Execs :
          /\ execs'[d].pc \in {"send", "wait", "reply"} => execs'[d].attempt \in Attempts
          /\ execs'[d].current => execs[d].current
          /\ execs'[d].pc = "read" => execs'[d] = execs[d]
    BY <1>0, <2>2 DEF IInv, RunShape
  <2> QED
    BY <2>1, <2>2, <2>3, OnlyRuns DEF GrantKept
<1> QED
  BY <1>1, <1>2

(* The next attempt is this one or a later one. *)
LEMMA NextFacts ==
  ASSUME IInv
  PROVE  /\ NextAttempt \in Attempts /\ job.attempt <= NextAttempt
         /\ job.manual.ok => NextAttempt = job.manual.attempt
<1>1. /\ job.attempt \in Nat /\ job.manual.attempt \in Nat
      /\ job.attempt \in 0 .. MaxAttempt /\ job.manual.attempt \in 0 .. MaxAttempt
  BY JobFields DEF IInv, Types, Jobs
<1>2. CASE job.manual.ok
  <2>1. NextAttempt = job.manual.attempt /\ job.attempt <= job.manual.attempt /\ job.manual.attempt > 0
    BY <1>2 DEF IInv, GrantShape, NextAttempt
  <2> QED
    BY <1>1, <2>1 DEF Attempts
<1>3. CASE ~job.manual.ok /\ Resending
  <2>1. NextAttempt = 2 /\ job.attempt = 1
    BY <1>3 DEF NextAttempt, Resending
  <2> QED
    BY <1>3, <2>1, Constants
<1>4. CASE ~job.manual.ok /\ ~Resending /\ job.attempt = 0
  <2>1. NextAttempt = 1
    BY <1>4 DEF NextAttempt
  <2> QED
    BY <1>4, <2>1, Constants
<1>5. CASE ~job.manual.ok /\ ~Resending /\ job.attempt # 0
  <2>1. NextAttempt = job.attempt
    BY <1>5 DEF NextAttempt
  <2> QED
    BY <1>1, <1>5, <2>1 DEF Attempts
<1> QED
  BY <1>2, <1>3, <1>4, <1>5

LEMMA ReadyKeeps ==
  ASSUME IInv, NEW e \in Execs, Ready(e)
  PROVE  IInv' /\ GrantKept
<1>1. /\ job \in Jobs /\ job.lease = None /\ Proven(job.rec)
      /\ job.attempt \in Nat /\ job.manual.attempt \in Nat
      /\ check' = Overtaken /\ UNCHANGED <<ledger, wb, retries>>
  BY JobFields DEF IInv, Types, ProofInv, Ready, Claimable
<1>2. {"CARD_CREATE_GUARD", "NEEDS_ATTENTION", "CARD_SUBMITTING"} \subseteq States \ {"RETRY_WAIT"}
  BY DEF States, Live, Stopped
<1>3. ASSUME NEW s \in {"CARD_CREATE_GUARD", "NEEDS_ATTENTION", "CARD_SUBMITTING"},
             job' = Goto(job, s), execs' = Outdated, ~job.manual.ok
      PROVE  IInv' /\ GrantKept
  <2>1. Follows(job, job') /\ job'.rec = job.rec
    BY <1>1, <1>2, <1>3, GotoFacts
  <2>2. job'.attempt = job.attempt /\ job.attempt <= job'.attempt
    <3>1. job.attempt <= job.attempt
      BY <1>1
    <3>2. job'.attempt = job.attempt
      BY <2>1 DEF Follows
    <3> QED
      BY <3>1, <3>2
  <2>3. Writes(job')
    BY <1>1, <1>3, <2>1, <2>2 DEF Follows, Writes
  <2>4. ~SawNothing(Idle)
    BY IdleFacts DEF SawNothing
  <2> QED
    BY <1>1, <1>3, <2>3, <2>4, IdleFacts, RowWritten
<1>4. CASE Unguarded /\ job' = Goto(job, "CARD_CREATE_GUARD") /\ execs' = Outdated
  BY <1>3, <1>4 DEF Unguarded
<1>5. CASE Exceeding /\ job' = Goto(job, "NEEDS_ATTENTION") /\ execs' = Outdated
  BY <1>3, <1>5 DEF Exceeding
<1>6. CASE Repeating /\ job' = Goto(job, "CARD_SUBMITTING") /\ execs' = Outdated
  BY <1>3, <1>6 DEF Repeating
<1> DEFINE g == Goto(job, "CARD_SUBMITTING")
           h == [g EXCEPT !.attempt = NextAttempt]
           k == [h EXCEPT !.lease = e]
           x == [Idle EXCEPT !.pc = "send", !.current = TRUE, !.attempt = NextAttempt]
<1>7. CASE job' = k /\ execs' = [Outdated EXCEPT ![e] = x]
  <2>1. Follows(job, g) /\ g.rec = job.rec /\ g.state = "CARD_SUBMITTING"
    BY <1>1, <1>2, GotoFacts
  <2> HIDE DEF g
  <2>2. NextAttempt \in Attempts /\ NextAttempt \in 0 .. MaxAttempt
    BY NextFacts, Constants
  <2>3. /\ h \in Jobs /\ h.attempt = NextAttempt /\ h.rec = job.rec /\ h.state = "CARD_SUBMITTING"
        /\ h.resume = g.resume /\ h.expired = g.expired /\ h.manual = g.manual
    BY <2>1, <2>2 DEF Follows, Jobs
  <2> HIDE DEF h
  <2>4. /\ k \in Jobs /\ k.attempt = NextAttempt /\ k.rec = job.rec /\ k.state = "CARD_SUBMITTING"
        /\ k.resume = g.resume /\ k.expired = g.expired /\ k.manual = g.manual /\ k.lease = e
    BY <2>3 DEF Jobs
  <2> HIDE DEF k
  <2>5. x \in Runs /\ x.pc = "send" /\ x.current /\ x.attempt = NextAttempt
    BY <2>2, IdleFacts DEF Runs
  <2> HIDE DEF x
  <2>6. /\ k.manual.of = job.manual.of /\ k.manual.attempt = job.manual.attempt
        /\ k.manual.ok => job.manual.ok
        /\ k.state = "RETRY_WAIT" <=> k.resume # "" 
        /\ k.expired => k.state = "FAILED"
    BY <2>1, <2>4 DEF Follows
  <2>7. job.manual.ok => k.attempt = job.manual.attempt /\ k.attempt <= job.manual.attempt
    BY <1>1, <2>4, NextFacts
  <2>8. job.attempt <= k.attempt
    BY <2>4, NextFacts
  <2>9. Writes(k)
    BY <1>1, <2>4, <2>6, <2>7, <2>8 DEF Writes
  <2>10. At' = "CARD_SUBMITTING" /\ "CARD_SUBMITTING" \in Live
    BY <1>7, <2>4 DEF At, Live
  <2>11. ~SawNothing(x)
    BY <2>5 DEF SawNothing
  <2> QED
    BY <1>1, <1>7, <2>2, <2>4, <2>5, <2>9, <2>10, <2>11, RowWritten
<1> QED
  BY <1>4, <1>5, <1>6, <1>7 DEF Ready, Goto

LEMMA HangUpKeeps ==
  ASSUME IInv, NEW e \in Execs, HangUp(e)
  PROVE  IInv'
<1> DEFINE x == [[execs[e] EXCEPT !.pc = "reply"] EXCEPT !.saw = "unknown"]
<1>1. /\ execs[e] \in Runs /\ execs[e].pc = "wait"
      /\ execs' = [execs EXCEPT ![e] = x] /\ UNCHANGED <<job, ledger, wb, retries, check>>
  BY DEF IInv, Types, HangUp
<1>2. x \in Runs /\ x.pc = "reply" /\ x.attempt = execs[e].attempt /\ x.current = execs[e].current
  BY <1>1 DEF Runs, Answers, Closed
<1> HIDE DEF x
<1>3. execs' \in [Execs -> Runs] /\ \A d \in Execs : execs'[d] = IF d = e THEN x ELSE execs[d]
  BY <1>1, <1>2 DEF IInv, Types
<1>4. \A d \in Execs :
        /\ execs'[d].pc \in {"send", "wait", "reply"} => execs'[d].attempt \in Attempts
        /\ execs'[d].current => execs[d].current
        /\ execs'[d].pc = "read" => execs'[d] = execs[d]
  BY <1>1, <1>2, <1>3 DEF IInv, RunShape
<1> QED
  BY <1>1, <1>3, <1>4, OnlyRuns

LEMMA DieKeeps ==
  ASSUME IInv, NEW e \in Execs, Die(e)
  PROVE  IInv'
<1>1. execs' = [execs EXCEPT ![e] = Idle] /\ UNCHANGED <<job, ledger, wb, retries, check>>
  BY DEF Die
<1>2. execs' \in [Execs -> Runs] /\ \A d \in Execs : execs'[d] \in {execs[d], Idle}
  BY <1>1, IdleFacts DEF IInv, Types
<1>3. \A d \in Execs :
        /\ execs'[d].pc \in {"send", "wait", "reply"} => execs'[d].attempt \in Attempts
        /\ execs'[d].current => execs[d].current
        /\ execs'[d].pc = "read" => execs'[d] = execs[d]
  BY <1>2, IdleFacts DEF IInv, RunShape
<1> QED
  BY <1>1, <1>2, <1>3, OnlyRuns

---------------------------------------------------------------------------
(* The steps of the gateway. *)

\* A grant is used by the write it allows.
Uses(a) ==
  retries' = IF Manual(a) THEN [retries EXCEPT ![job.manual.of].consumed = TRUE] ELSE retries

(* What the use of a grant does to the retries. *)
LEMMA UsesFacts ==
  ASSUME IInv, NEW a \in Attempts, Uses(a), Authorized(a)
  PROVE  /\ retries' \in [Retries -> RetryRows]
         /\ \A r \in Retries :
              /\ retries'[r].st = retries[r].st /\ retries'[r].attempt = retries[r].attempt
              /\ retries'[r].ref = retries[r].ref
              /\ retries[r].consumed => retries'[r].consumed
              /\ retries'[r].consumed =>
                   \/ retries[r].consumed
                   \/ Manual(a) /\ r = job.manual.of /\ retries[r].st = "RUNNING"
              /\ Manual(a) /\ r = job.manual.of => retries'[r].consumed
         /\ Spent \in Nat /\ Spent' \in Nat /\ Spent <= Spent' /\ a <= 2 + Spent'
<1>0. /\ retries \in [Retries -> RetryRows] /\ job.manual.of \in Retries \union {None}
      /\ a \in Nat /\ job.manual.attempt \in Nat
  BY JobFields DEF IInv, Types
<1>1. CASE ~Manual(a)
  <2>1. retries' = retries /\ a <= 2
    BY <1>0, <1>1 DEF Uses, Authorized, AutomaticGrant
  <2>2. Spent' = Spent /\ Spent \in Nat
    BY <2>1, SpentStays, SpentIsNat
  <2>3. a <= 2 + Spent' /\ Spent <= Spent'
    BY <1>0, <2>1, <2>2
  <2> QED
    BY <1>0, <1>1, <2>1, <2>2, <2>3
<1>2. CASE Manual(a)
  <2> DEFINE r == job.manual.of
  <2>1. /\ job.manual.ok /\ job.manual.attempt = a /\ r \in Retries
        /\ retries[r].st = "RUNNING"
        /\ retries' = [retries EXCEPT ![r] = [retries[r] EXCEPT !.consumed = TRUE]]
        /\ retries' = [retries EXCEPT ![r].consumed = TRUE]
    BY <1>0, <1>2 DEF Manual, Uses, Authorized, ManualGrant, Grant, IInv, GrantShape
  <2> HIDE DEF r
  <2> DEFINE x == [retries[r] EXCEPT !.consumed = TRUE]
  <2>2. /\ x \in RetryRows /\ x.consumed /\ x.st = retries[r].st /\ x.attempt = retries[r].attempt
        /\ x.ref = retries[r].ref
    BY <1>0, <2>1 DEF RetryRows
  <2> HIDE DEF x
  <2>3. /\ retries' \in [Retries -> RetryRows]
        /\ \A q \in Retries : retries'[q] = IF q = r THEN x ELSE retries[q]
    BY <1>0, <2>1, <2>2 DEF x
  <2>4. /\ Spent' \in Nat /\ Spent <= Spent' /\ Spent \in Nat
        /\ ~retries[r].consumed => Spent' = Spent + 1
    BY <1>0, <2>1, SpentGrows, SpentIsNat
  <2>5. a <= 3 + Spent /\ (retries[r].consumed => a <= 2 + Spent)
    BY <2>1 DEF IInv, Bounded, r
  <2>6. a <= 2 + Spent'
    <3>1. CASE retries[r].consumed
      <4>1. a <= 2 + Spent
        BY <2>5, <3>1
      <4> QED
        BY <1>0, <2>4, <4>1, Grows
    <3>2. CASE ~retries[r].consumed
      <4>1. Spent' = Spent + 1 /\ a <= 3 + Spent
        BY <2>4, <2>5, <3>2
      <4> QED
        BY <1>0, <2>4, <4>1
    <3> QED
      BY <3>1, <3>2
  <2> QED
    BY <1>2, <2>1, <2>2, <2>3, <2>4, <2>6 DEF r
<1> QED
  BY <1>1, <1>2

(* An authorised attempt follows attempts that are all closed. *)
LEMMA AuthorizedFollows ==
  ASSUME IInv, NEW a \in Attempts, Authorized(a)
  PROVE  /\ job.attempt = a /\ job.state = "CARD_SUBMITTING"
         /\ \A b \in Attempts : /\ b < a => ledger[b].res \in Closed
                                /\ ledger[b].res # "none" => b <= a
<1>1. /\ job.attempt = a /\ job.state = "CARD_SUBMITTING"
      /\ \A b \in Attempts : ledger[b].res # "none" => b <= a
  BY DEF Authorized, IInv, LedgerInv
<1>2. a \in 1 .. MaxAttempt /\ MaxAttempt \in Nat
  BY Constants DEF Attempts
<1>3. ASSUME NEW b \in Attempts, b < a PROVE ledger[b].res \in Closed
  <2>0. b \in 1 .. MaxAttempt
    BY DEF Attempts
  <2>1. CASE Manual(a)
    <3>1. a > 1 /\ ledger[a - 1].res \in Closed
      BY <2>1 DEF Authorized, ManualGrant
    <3>2. a - 1 \in Attempts /\ (b = a - 1 \/ b < a - 1)
      BY <1>2, <1>3, <2>0, <3>1 DEF Attempts
    <3>3. ledger[a - 1].res # "none"
      BY <3>1 DEF Closed
    <3> QED
      BY <3>1, <3>2, <3>3 DEF IInv, LedgerInv, AttemptsInOrder
  <2>2. CASE ~Manual(a)
    <3>1. a = 2 /\ b = 1 /\ ledger[1].res = "unknown"
      BY <1>2, <1>3, <2>0, <2>2 DEF Authorized, AutomaticGrant
    <3> QED
      BY <3>1 DEF Closed
  <2> QED
    BY <2>1, <2>2
<1> QED
  BY <1>1, <1>3

(* The ledger row of an attempt is written before its request leaves. *)
LEMMA BeginKeeps ==
  ASSUME IInv, NEW e \in Execs, Begin(e)
  PROVE  IInv'
<1> DEFINE a == execs[e].attempt
<1>1. execs[e] \in Runs /\ execs[e].pc = "send" /\ a \in Attempts /\ UNCHANGED <<job, wb, check>>
  BY DEF IInv, Types, Begin, RunShape
<1>2. \A answer \in Answers : 
        LET x == [[execs[e] EXCEPT !.pc = "reply"] EXCEPT !.saw = answer]
        IN  x \in Runs /\ x.pc = "reply" /\ x.attempt = a /\ x.current = execs[e].current
  BY <1>1 DEF Runs
<1>3. ASSUME NEW x \in Runs, x.pc \in {"reply", "wait"}, x.attempt = a, x.current = execs[e].current,
             execs' = [execs EXCEPT ![e] = x]
      PROVE  /\ execs' \in [Execs -> Runs]
             /\ \A d \in Execs :
                  /\ execs'[d].pc \in {"send", "wait", "reply"} => execs'[d].attempt \in Attempts
                  /\ execs'[d].current => execs[d].current
                  /\ execs'[d].pc = "read" => execs'[d] = execs[d]
  <2>1. execs' \in [Execs -> Runs] /\ \A d \in Execs : execs'[d] = IF d = e THEN x ELSE execs[d]
    BY <1>3 DEF IInv, Types
  <2> QED
    BY <1>1, <1>3, <2>1 DEF IInv, RunShape
<1>4. ASSUME NEW answer \in Answers, UNCHANGED <<ledger, retries>>,
             execs' = [execs EXCEPT ![e] = [[execs[e] EXCEPT !.pc = "reply"] EXCEPT !.saw = answer]]
      PROVE  IInv'
  <2> DEFINE x == [[execs[e] EXCEPT !.pc = "reply"] EXCEPT !.saw = answer]
  <2>1. x \in Runs /\ x.pc = "reply" /\ x.attempt = a /\ x.current = execs[e].current
    BY <1>2
  <2>2. execs' = [execs EXCEPT ![e] = x]
    BY <1>4
  <2> HIDE DEF x, a
  <2> QED
    BY <1>1, <1>3, <1>4, <2>1, <2>2, OnlyRuns
<1>5. CASE Known(a) /\ execs' = [execs EXCEPT ![e].pc = "reply", ![e].saw = FromLedger(a)]
           /\ UNCHANGED <<ledger, retries>>
  <2>1. FromLedger(a) \in Answers
    BY DEF FromLedger, Answers, Closed
  <2> QED
    BY <1>4, <1>5, <2>1
<1>6. CASE /\ execs' = [execs EXCEPT ![e].pc = "reply",
                                     ![e].saw = IF ProofExpired(a) THEN "expired" ELSE "forbidden"]
           /\ UNCHANGED <<ledger, retries>>
  <2>1. (IF ProofExpired(a) THEN "expired" ELSE "forbidden") \in Answers
    BY DEF Answers
  <2> QED
    BY <1>4, <1>6, <2>1
<1>7. CASE /\ ~Known(a) /\ Authorized(a) /\ execs' = [execs EXCEPT ![e].pc = "wait"]
           /\ ledger' = [ledger EXCEPT ![a] = [res |-> "open", old |-> FALSE]]
           /\ Uses(a)
  <2> DEFINE x == [execs[e] EXCEPT !.pc = "wait"]
             row == [res |-> "open", old |-> FALSE]
  <2>1. x \in Runs /\ x.pc = "wait" /\ x.attempt = a /\ x.current = execs[e].current
    BY <1>1 DEF Runs
  <2>2. execs' = [execs EXCEPT ![e] = x]
    BY <1>7
  <2> HIDE DEF x, a
  <2>3. /\ execs' \in [Execs -> Runs] /\ RunShape' /\ JobShape'
        /\ \A d \in Execs : SawNothing(execs'[d]) => SawNothing(execs[d])
    BY <1>1, <1>3, <2>1, <2>2, RunsMoved
  <2>4. /\ job.attempt = a /\ job.state = "CARD_SUBMITTING"
        /\ \A b \in Attempts : /\ b < a => ledger[b].res \in Closed
                               /\ ledger[b].res # "none" => b <= a
    BY <1>1, <1>7, AuthorizedFollows
  <2>5. /\ row \in LedgerRows /\ row.res = "open" /\ ~row.old
    BY DEF LedgerRows
  <2>6. /\ ledger' \in [Attempts -> LedgerRows]
        /\ \A b \in Attempts : ledger'[b] = IF b = a THEN row ELSE ledger[b]
    BY <1>1, <1>7, <2>5 DEF IInv, Types
  <2> HIDE DEF row
  <2>7. ledger[a].res \in {"none", "notsent"} /\ wb[a] = "none" /\ ~ledger[a].old
    BY <1>1, <1>7 DEF Known, IInv, LedgerInv
  <2>8. Types'
    BY <1>1, <1>7, <2>3, <2>6, UsesFacts DEF IInv, Types
  <2>9. RetryShape'
    BY <1>1, <1>7, UsesFacts DEF IInv, RetryShape
  <2>10. CheckShape'
    BY <1>1, <1>7, UsesFacts DEF IInv, CheckShape, Types, Checks
  <2>11. GrantShape'
    BY <1>1 DEF IInv, GrantShape
  <2>12. Bounded'
    <3>1. /\ Spent \in Nat /\ Spent' \in Nat /\ Spent <= Spent' /\ a <= 2 + Spent'
      BY <1>1, <1>7, UsesFacts
    <3>2. \A b \in Attempts : ledger'[b].res # "none" => b <= 2 + Spent'
      <4> SUFFICES ASSUME NEW b \in Attempts, ledger'[b].res # "none" PROVE b <= 2 + Spent'
        OBVIOUS
      <4>1. CASE b = a
        BY <3>1, <4>1
      <4>2. CASE b # a
        <5>1. b <= 2 + Spent /\ b \in Nat
          BY <2>6, <4>2, JobFields DEF IInv, Bounded
        <5> QED
          BY <3>1, <5>1, Grows
      <4> QED
        BY <4>1, <4>2
    <3>3. check'.plan <= 3 + Spent'
      BY <1>1, <3>1 DEF IInv, Bounded, Types, Checks, ReadOnly
    <3>4. job'.manual.ok =>
            /\ job'.manual.attempt <= 3 + Spent'
            /\ retries'[job'.manual.of].consumed => job'.manual.attempt <= 2 + Spent'
      <4>1. SUFFICES ASSUME job.manual.ok
                     PROVE  /\ job.manual.attempt <= 3 + Spent'
                            /\ retries'[job.manual.of].consumed => job.manual.attempt <= 2 + Spent'
        BY <1>1
      <4>2. job.manual.attempt = a
        BY <2>4, <4>1 DEF IInv, GrantShape
      <4>3. a \in Nat /\ a <= 3 + Spent'
        BY <1>1, <3>1, JobFields, Grows
      <4> QED
        BY <3>1, <4>2, <4>3
    <3> QED
      BY <3>2, <3>3, <3>4 DEF Bounded
  <2>13. LedgerInv'
    <3>1. \A b \in Attempts :
            /\ wb[b] # "none" => ledger'[b].res \in {"accepted", "unknown", "dead"}
            /\ wb[b] # "double"
            /\ ledger'[b].res # "none" => b <= job.attempt
            /\ ledger'[b].old => ledger'[b].res = "unknown" /\ wb[b] # "pending"
      BY <1>1, <2>4, <2>5, <2>6, <2>7, JobFields DEF IInv, LedgerInv
    <3>2. \A b, c \in Attempts : ledger'[c].res # "none" /\ b < c => ledger'[b].res \in Closed
      <4> SUFFICES ASSUME NEW b \in Attempts, NEW c \in Attempts, ledger'[c].res # "none", b < c
                   PROVE  ledger'[b].res \in Closed
        OBVIOUS
      <4>1. a \in Nat /\ b \in Nat /\ c \in Nat /\ c <= a
        BY <1>1, <2>4, <2>6, JobFields
      <4>2. b < a /\ b # a
        BY <4>1
      <4> QED
        BY <2>4, <2>6, <4>2
    <3> QED
      BY <1>1, <3>1, <3>2 DEF LedgerInv, AttemptsInOrder
  <2>14. ProofInv'
    <3>1. ledger[1].old => ledger'[1].old
      BY <2>6, <2>7, Constants
    <3> QED
      BY <1>1, <2>3, <3>1 DEF IInv, ProofInv, Proven, SawNothing
  <2> QED
    BY <2>3, <2>8, <2>9, <2>10, <2>11, <2>12, <2>13, <2>14 DEF IInv
<1> QED
  BY <1>5, <1>6, <1>7 DEF Begin, Uses

\* Open rows may be settled, and what they sent is at the marketplace.
RowsSettle ==
  /\ ledger' \in [Attempts -> LedgerRows] /\ wb' \in [Attempts -> Fates]
  /\ \A a \in Attempts :
       \/ ledger'[a] = ledger[a] /\ wb'[a] = wb[a]
       \/ /\ ledger[a].res = "open" /\ wb[a] = "none" /\ ~ledger'[a].old
          /\ ledger'[a].res \in Closed \union {"dead"}
          /\ wb'[a] = "none" \/ (wb'[a] = "pending" /\ ledger'[a].res \in {"accepted", "unknown", "dead"})

(* Rows are settled while the row of the job stays. *)
LEMMA SettledKeeps ==
  ASSUME IInv, RowsSettle, execs' \in [Execs -> Runs], UNCHANGED <<job, retries>>,
         check' \in {check, NoCheck},
         \A d \in Execs :
           /\ execs'[d].pc \in {"send", "wait", "reply"} => execs'[d].attempt \in Attempts
           /\ execs'[d].current => execs[d].current
           /\ execs'[d].pc = "read" => execs'[d] = execs[d]
  PROVE  IInv'
<1>1. RunShape' /\ JobShape' /\ \A d \in Execs : SawNothing(execs'[d]) => SawNothing(execs[d])
  BY RunsMoved
<1>2. NoCheck \in Checks /\ NoCheck.of = None /\ ~NoCheck.current /\ NoCheck.plan = 0
  BY Constants DEF NoCheck, Checks, Refuse, ReadOnly
<1>3. Types'
  BY <1>2 DEF IInv, Types, RowsSettle
<1>4. RetryShape' /\ GrantShape'
  BY DEF IInv, RetryShape, GrantShape
<1>5. CheckShape'
  <2>1. CASE check' = check
    BY <2>1 DEF IInv, CheckShape
  <2>2. CASE check' = NoCheck
    BY <1>2, <2>2 DEF CheckShape
  <2> QED
    BY <2>1, <2>2
<1>6. \A a \in Attempts : ledger'[a].res # "none" => ledger[a].res # "none"
  BY DEF RowsSettle
<1>7. Bounded'
  <2>1. Spent' = Spent /\ Spent \in Nat
    BY SpentStays, SpentIsNat
  <2>2. check'.plan <= 3 + Spent
    <3>1. 0 <= 3 + Spent
      BY <2>1
    <3> QED
      BY <1>2, <3>1 DEF IInv, Bounded
  <2> QED
    BY <1>6, <2>1, <2>2 DEF IInv, Bounded
<1>8. LedgerInv'
  <2>1. \A a \in Attempts :
          /\ wb'[a] # "none" => ledger'[a].res \in {"accepted", "unknown", "dead"}
          /\ wb'[a] # "double"
          /\ ledger'[a].res # "none" => a <= job'.attempt
          /\ ledger'[a].old => ledger'[a].res = "unknown" /\ wb'[a] # "pending"
    BY <1>6 DEF IInv, LedgerInv, RowsSettle
  <2>2. \A a, b \in Attempts : ledger'[b].res # "none" /\ a < b => ledger'[a].res \in Closed
    <3> SUFFICES ASSUME NEW a \in Attempts, NEW b \in Attempts, ledger'[b].res # "none", a < b
                 PROVE  ledger'[a].res \in Closed
      OBVIOUS
    <3>1. ledger[a].res \in Closed
      BY <1>6 DEF IInv, LedgerInv, AttemptsInOrder
    <3>2. ledger[a].res # "open"
      BY <3>1 DEF Closed
    <3> QED
      BY <3>1, <3>2 DEF RowsSettle
  <2> QED
    BY <2>1, <2>2 DEF LedgerInv, AttemptsInOrder
<1>9. ProofInv'
  <2>1. /\ ledger[1].old => ledger'[1].old
        /\ wb'[1] = "created" => wb[1] = "created"
    BY Constants DEF IInv, LedgerInv, RowsSettle
  <2> QED
    BY <1>1, <2>1 DEF IInv, ProofInv, Proven, SawNothing
<1> QED
  BY <1>1, <1>3, <1>4, <1>5, <1>7, <1>8, <1>9 DEF IInv

(* A request that is sent is under way, for the first time. *)
LEMMA DeliveredFacts ==
  ASSUME IInv, NEW a \in Attempts, ledger[a].res = "open"
  PROVE  /\ wb[a] = "none" /\ ~ledger[a].old
         /\ Delivered(a) \in [Attempts -> Fates]
         /\ \A b \in Attempts : Delivered(a)[b] = IF b = a THEN "pending" ELSE wb[b]
<1>1. wb[a] = "none" /\ ~ledger[a].old /\ wb \in [Attempts -> Fates] /\ "pending" \in Fates
  BY DEF IInv, Types, LedgerInv, Fates
<1> QED
  BY <1>1 DEF Delivered

(* Runs that wait are answered. *)
LEMMA AnsweredFacts ==
  ASSUME IInv, NEW answer \in Answers, NEW S \in SUBSET Execs,
         \A d \in S : execs[d].pc = "wait",
         execs' = [d \in Execs |-> IF d \in S THEN [execs[d] EXCEPT !.pc = "reply", !.saw = answer]
                                   ELSE execs[d]]
  PROVE  /\ execs' \in [Execs -> Runs]
         /\ \A d \in Execs :
              /\ execs'[d].pc \in {"send", "wait", "reply"} => execs'[d].attempt \in Attempts
              /\ execs'[d].current => execs[d].current
              /\ execs'[d].pc = "read" => execs'[d] = execs[d]
<1> DEFINE x(d) == [execs[d] EXCEPT !.pc = "reply", !.saw = answer]
<1>1. \A d \in Execs : /\ execs[d] \in Runs
                       /\ execs[d].pc = "wait" => execs[d].attempt \in Attempts
                       /\ execs[d].pc \in {"send", "wait", "reply"} => execs[d].attempt \in Attempts
  BY DEF IInv, Types, RunShape
<1>2. \A d \in Execs : /\ x(d) \in Runs /\ x(d).pc = "reply" /\ x(d).attempt = execs[d].attempt
                       /\ x(d).current = execs[d].current
  BY <1>1 DEF Runs
<1>3. execs' = [d \in Execs |-> IF d \in S THEN x(d) ELSE execs[d]]
  OBVIOUS
<1> HIDE DEF x
<1> QED
  BY ZenonT(60), <1>1, <1>2, <1>3

LEMMA CompleteSettles ==
  ASSUME IInv, NEW a \in Attempts, NEW res \in Outcomes, Complete(a, res)
  PROVE  RowsSettle
<1>1. /\ ledger[a].res = "open" /\ ledger[a] \in LedgerRows
      /\ ledger' = [ledger EXCEPT ![a] = [ledger[a] EXCEPT !.res = res]]
      /\ wb' = wb \/ (wb' = Delivered(a) /\ res \in {"accepted", "unknown"})
  BY DEF IInv, Types, Complete
<1> DEFINE row == [ledger[a] EXCEPT !.res = res]
<1>2. /\ res \in Closed /\ row \in LedgerRows /\ row.res = res /\ row.old = ledger[a].old
  BY <1>1 DEF LedgerRows, Outcomes, Closed
<1>3. ledger' = [ledger EXCEPT ![a] = row]
  BY <1>1
<1> HIDE DEF row
<1>4. /\ wb[a] = "none" /\ ~ledger[a].old /\ wb' \in [Attempts -> Fates]
      /\ \A b \in Attempts : \/ wb'[b] = wb[b]
                             \/ b = a /\ wb'[b] = "pending" /\ res \in {"accepted", "unknown"}
  BY <1>1, DeliveredFacts DEF IInv, Types
<1>5. /\ ledger' \in [Attempts -> LedgerRows]
      /\ \A b \in Attempts : ledger'[b] = IF b = a THEN row ELSE ledger[b]
  BY <1>2, <1>3 DEF IInv, Types
<1> QED
  BY <1>1, <1>2, <1>4, <1>5 DEF RowsSettle

LEMMA CompleteKeeps ==
  ASSUME IInv, NEW a \in Attempts, NEW res \in Outcomes, Complete(a, res)
  PROVE  IInv'
<1>1. RowsSettle /\ UNCHANGED <<job, retries, check>> /\ res \in Answers
  BY CompleteSettles DEF Complete, Outcomes, Answers, Closed
<1>2. /\ Waiting(a) \in SUBSET Execs /\ \A d \in Waiting(a) : execs[d].pc = "wait"
      /\ execs' = [d \in Execs |-> IF d \in Waiting(a) THEN [execs[d] EXCEPT !.pc = "reply", !.saw = res]
                                   ELSE execs[d]]
  BY DEF Waiting, Complete, Reply
<1>3. /\ execs' \in [Execs -> Runs]
      /\ \A d \in Execs :
           /\ execs'[d].pc \in {"send", "wait", "reply"} => execs'[d].attempt \in Attempts
           /\ execs'[d].current => execs[d].current
           /\ execs'[d].pc = "read" => execs'[d] = execs[d]
  BY <1>1, <1>2, AnsweredFacts
<1> QED
  BY <1>1, <1>3, SettledKeeps

LEMMA CrashSettles ==
  ASSUME IInv, Crash
  PROVE  RowsSettle
<1> DEFINE open == {a \in Attempts : ledger[a].res = "open"}
           row(a) == [ledger[a] EXCEPT !.res = "dead"]
<1>1. /\ ledger' = [a \in Attempts |-> IF a \in open THEN row(a) ELSE ledger[a]]
      /\ wb' = wb \/ \E a \in open : wb' = Delivered(a)
  BY DEF Crash
<1>2. \A a \in Attempts : /\ ledger[a] \in LedgerRows /\ row(a) \in LedgerRows
                          /\ row(a).res = "dead" /\ row(a).old = ledger[a].old
  BY DEF IInv, Types, LedgerRows
<1> HIDE DEF row
<1>3. /\ ledger' \in [Attempts -> LedgerRows]
      /\ \A a \in Attempts : /\ a \in open => ledger'[a] = row(a)
                             /\ a \notin open => ledger'[a] = ledger[a]
  BY <1>1, <1>2
<1>4. \A a \in open : /\ a \in Attempts /\ ledger[a].res = "open"
                      /\ wb[a] = "none" /\ ~ledger[a].old
  BY DeliveredFacts
<1>5. /\ wb' \in [Attempts -> Fates]
      /\ \A b \in Attempts : wb'[b] = wb[b] \/ (b \in open /\ wb'[b] = "pending")
  <2>1. CASE wb' = wb
    BY <2>1 DEF IInv, Types
  <2>2. ASSUME NEW a \in open, wb' = Delivered(a)
        PROVE  /\ wb' \in [Attempts -> Fates]
               /\ \A b \in Attempts : wb'[b] = wb[b] \/ (b \in open /\ wb'[b] = "pending")
    <3>1. a \in Attempts /\ ledger[a].res = "open"
      BY <1>4
    <3> HIDE DEF open
    <3> QED
      BY <2>2, <3>1, DeliveredFacts
  <2> QED
    BY <1>1, <2>1, <2>2
<1> HIDE DEF open
<1>6. ASSUME NEW a \in Attempts
      PROVE  \/ ledger'[a] = ledger[a] /\ wb'[a] = wb[a]
             \/ /\ ledger[a].res = "open" /\ wb[a] = "none" /\ ~ledger'[a].old
                /\ ledger'[a].res \in Closed \union {"dead"}
                /\ \/ wb'[a] = "none"
                   \/ wb'[a] = "pending" /\ ledger'[a].res \in {"accepted", "unknown", "dead"}
  <2>1. CASE a \in open
    BY <1>2, <1>3, <1>4, <1>5, <2>1
  <2>2. CASE a \notin open
    BY <1>3, <1>5, <2>2
  <2> QED
    BY <2>1, <2>2
<1> QED
  BY <1>3, <1>5, <1>6 DEF RowsSettle

LEMMA CrashKeeps ==
  ASSUME IInv, Crash
  PROVE  IInv'
<1> DEFINE S == {d \in Execs : execs[d].pc = "wait"}
<1>1. RowsSettle /\ UNCHANGED <<job, retries>> /\ check' = NoCheck
  BY CrashSettles DEF Crash
<1>2. /\ S \in SUBSET Execs /\ \A d \in S : execs[d].pc = "wait"
      /\ execs' = [d \in Execs |-> IF d \in S THEN [execs[d] EXCEPT !.pc = "reply", !.saw = "unknown"]
                                   ELSE execs[d]]
  BY DEF Crash
<1>3. "unknown" \in Answers
  BY SMTT(30) DEF Answers, Closed
<1> HIDE DEF S
<1>4. /\ execs' \in [Execs -> Runs]
      /\ \A d \in Execs :
           /\ execs'[d].pc \in {"send", "wait", "reply"} => execs'[d].attempt \in Attempts
           /\ execs'[d].current => execs[d].current
           /\ execs'[d].pc = "read" => execs'[d] = execs[d]
  BY <1>2, <1>3, AnsweredFacts
<1> QED
  BY <1>1, <1>4, SettledKeeps

---------------------------------------------------------------------------
(* The steps of time and of the marketplace. *)

\* What is under way is decided, and unknown answers grow old.
RowsAge ==
  /\ ledger' \in [Attempts -> LedgerRows] /\ wb' \in [Attempts -> Fates]
  /\ \A a \in Attempts :
       /\ ledger'[a].res = ledger[a].res /\ (ledger[a].old => ledger'[a].old)
       /\ ledger'[a].old => ledger'[a].res = "unknown" /\ wb'[a] # "pending"
       /\ wb'[a] = wb[a] \/ (wb[a] = "pending" /\ wb'[a] \in {"created", "rejected", "lost"})
  /\ UNCHANGED <<job, execs, retries, check>>

LEMMA ResolveAges ==
  ASSUME IInv, NEW a \in Attempts, Resolve(a)
  PROVE  RowsAge
<1>1. PICK fate \in {"created", "rejected", "lost"} : wb' = [wb EXCEPT ![a] = fate]
  BY DEF Resolve
<1>2. wb[a] = "pending" /\ UNCHANGED <<job, execs, ledger, retries, check>>
  BY DEF Resolve
<1>3. fate \in Fates /\ fate # "pending"
  BY DEF Fates
<1>4. wb' \in [Attempts -> Fates] /\ \A b \in Attempts : wb'[b] = IF b = a THEN fate ELSE wb[b]
  BY <1>1, <1>3 DEF IInv, Types
<1> QED
  BY <1>2, <1>3, <1>4 DEF RowsAge, IInv, Types, LedgerInv

LEMMA RowOldAges ==
  ASSUME IInv, NEW a \in Attempts, RowOld(a)
  PROVE  RowsAge
<1> DEFINE row == [ledger[a] EXCEPT !.old = TRUE]
<1>1. /\ ledger[a].res = "unknown" /\ wb[a] # "pending" /\ ledger' = [ledger EXCEPT ![a] = row]
      /\ UNCHANGED <<job, execs, wb, retries, check>> /\ ledger[a] \in LedgerRows
  BY DEF IInv, Types, RowOld
<1>2. row \in LedgerRows /\ row.res = ledger[a].res /\ row.old
  BY <1>1 DEF LedgerRows
<1> HIDE DEF row
<1>3. /\ ledger' \in [Attempts -> LedgerRows]
      /\ \A b \in Attempts : ledger'[b] = IF b = a THEN row ELSE ledger[b]
  BY <1>1, <1>2 DEF IInv, Types
<1> QED
  BY <1>1, <1>2, <1>3 DEF RowsAge, IInv, Types, LedgerInv

LEMMA AgeKeeps ==
  ASSUME IInv, RowsAge
  PROVE  IInv'
<1>0. UNCHANGED <<job, execs, retries, check>>
  BY DEF RowsAge
<1>1. Types'
  BY DEF IInv, Types, RowsAge
<1>2. JobShape' /\ RetryShape' /\ CheckShape' /\ GrantShape'
  BY <1>0 DEF IInv, JobShape, RetryShape, CheckShape, GrantShape
<1>3. RunShape'
  BY <1>0 DEF IInv, RunShape, At
<1>4. Bounded'
  <2>1. Spent' = Spent
    BY <1>0, SpentStays
  <2> QED
    BY <1>0, <2>1 DEF IInv, Bounded, RowsAge
<1>5. LedgerInv'
  <2>1. \A a \in Attempts :
          /\ wb'[a] # "none" => ledger'[a].res \in {"accepted", "unknown", "dead"}
          /\ wb'[a] # "double"
          /\ ledger'[a].res # "none" => a <= job'.attempt
          /\ ledger'[a].old => ledger'[a].res = "unknown" /\ wb'[a] # "pending"
    BY <1>0 DEF IInv, LedgerInv, RowsAge
  <2> QED
    BY <2>1 DEF IInv, LedgerInv, AttemptsInOrder, RowsAge
<1>6. ProofInv'
  <2>1. /\ ledger[1].old => ledger'[1].old /\ wb[1] # "pending"
        /\ wb'[1] = "created" => wb[1] \in {"created", "pending"}
    BY Constants DEF IInv, LedgerInv, RowsAge
  <2>2. job.rec.firm > 1 => job.rec.firm > 0
    <3>1. job.rec.firm \in 0 .. 2
      BY JobFields DEF IInv, Types, Recs
    <3> QED
      BY <3>1
  <2> QED
    BY <1>0, <2>1, <2>2 DEF IInv, ProofInv, Proven, SawNothing
<1> QED
  BY <1>1, <1>2, <1>3, <1>4, <1>5, <1>6 DEF IInv

\* A mark is set in the row, or its lease lapses.
RowMarked ==
  /\ job' \in Jobs
  /\ job'.state = job.state /\ job'.resume = job.resume /\ job'.expired = job.expired
  /\ job'.attempt = job.attempt /\ job'.manual = job.manual
  /\ job'.failed = job.failed /\ job'.last = job.last
  /\ job'.lease \in {job.lease, None}
  /\ job'.rec.firm = job.rec.firm /\ job'.rec.rounds = job.rec.rounds /\ job'.rec.proof = job.rec.proof
  /\ UNCHANGED <<execs, ledger, wb, retries, check>>

LEMMA MarkedKeeps ==
  ASSUME IInv, RowMarked
  PROVE  IInv'
<1>0. UNCHANGED <<execs, ledger, wb, retries, check>>
  BY DEF RowMarked
<1>1. Types' /\ JobShape' /\ RetryShape' /\ CheckShape' /\ GrantShape'
  BY DEF IInv, Types, JobShape, RetryShape, CheckShape, GrantShape, RowMarked
<1>2. RunShape'
  <2>1. At' = At
    BY DEF At, RowMarked
  <2> QED
    BY <2>1 DEF IInv, RunShape, RowMarked
<1>3. Bounded'
  <2>1. Spent' = Spent
    BY <1>0, SpentStays
  <2> QED
    BY <2>1 DEF IInv, Bounded, RowMarked
<1>4. LedgerInv'
  BY DEF IInv, LedgerInv, AttemptsInOrder, RowMarked
<1>5. ProofInv'
  BY DEF IInv, ProofInv, Proven, SawNothing, RowMarked
<1> QED
  BY <1>1, <1>2, <1>3, <1>4, <1>5 DEF IInv

LEMMA TimeMarks ==
  ASSUME IInv, Lapse \/ RecOld \/ Day \/ GuardExpires
  PROVE  RowMarked
<1>0. job \in Jobs /\ job.rec \in Recs
  BY JobFields DEF IInv, Types
<1>1. CASE Lapse
  BY <1>0, <1>1 DEF Lapse, RowMarked, Jobs
<1>2. CASE RecOld
  <2> DEFINE r == [job.rec EXCEPT !.old = TRUE]
  <2>1. job' = [job EXCEPT !.rec = r] /\ UNCHANGED <<execs, ledger, wb, retries, check>>
    BY <1>2 DEF RecOld
  <2>2. r \in Recs /\ r.proof = job.rec.proof /\ r.rounds = job.rec.rounds /\ r.firm = job.rec.firm
    BY <1>0 DEF Recs
  <2> HIDE DEF r
  <2> QED
    BY <1>0, <2>1, <2>2 DEF RowMarked, Jobs
<1>3. CASE Day
  BY <1>0, <1>3 DEF Day, RowMarked, Jobs
<1>4. CASE GuardExpires
  BY <1>0, <1>4 DEF GuardExpires, RowMarked, Jobs
<1> QED
  BY <1>1, <1>2, <1>3, <1>4

---------------------------------------------------------------------------
(* The steps of the operator and of the retry worker. *)

(* A retry moves, with the row or without it. *)
LEMMA RetryMoved ==
  ASSUME IInv, NEW r \in Retries, NEW x \in RetryRows, retries' = [retries EXCEPT ![r] = x],
         x.consumed = retries[r].consumed, x.st \in {"none", "CHECKING"} => ~x.consumed,
         x.st \in Active => \A q \in Retries : q # r => retries[q].st \notin Active,
         UNCHANGED <<ledger, wb>>,
         job' \in Jobs, job'.attempt = job.attempt, job'.rec = job.rec,
         check' \in Checks, check'.plan <= 3 + Spent, execs' \in [Execs -> Runs],
         \A d \in Execs : SawNothing(execs'[d]) => SawNothing(execs[d]),
         JobShape', RunShape', CheckShape', GrantShape',
         job'.manual.ok =>
           /\ job'.manual.attempt <= 3 + Spent
           /\ retries[job'.manual.of].consumed => job'.manual.attempt <= 2 + Spent
  PROVE  IInv'
<1>1. /\ retries' \in [Retries -> RetryRows]
      /\ \A q \in Retries : retries'[q] = IF q = r THEN x ELSE retries[q]
  BY DEF IInv, Types
<1>2. Types'
  BY <1>1 DEF IInv, Types
<1>3. RetryShape'
  BY <1>1 DEF IInv, RetryShape
<1>4. \A q \in Retries : retries'[q].consumed = retries[q].consumed
  BY <1>1
<1>5. Bounded'
  <2>1. Spent' = Spent
    BY <1>4, SpentStays
  <2>2. job'.manual.ok => job'.manual.of \in Retries
    BY JobFields DEF GrantShape
  <2> QED
    BY <1>4, <2>1, <2>2 DEF IInv, Bounded
<1>6. LedgerInv'
  BY DEF IInv, LedgerInv, AttemptsInOrder
<1>7. ProofInv'
  BY DEF IInv, ProofInv, Proven, SawNothing
<1> QED
  BY <1>2, <1>3, <1>5, <1>6, <1>7 DEF IInv

(* A retry moves and the row stays. *)
LEMMA OnlyRetry ==
  ASSUME IInv, NEW r \in Retries, NEW x \in RetryRows, retries' = [retries EXCEPT ![r] = x],
         x.consumed = retries[r].consumed, x.st \in {"none", "CHECKING"} => ~x.consumed,
         x.st \in Active => \A q \in Retries : q # r => retries[q].st \notin Active,
         UNCHANGED <<job, execs, ledger, wb>>,
         check' = NoCheck \/ (check' = check /\ (check.of = r => x.st = "CHECKING"))
  PROVE  IInv'
<1>1. NoCheck \in Checks /\ NoCheck.of = None /\ ~NoCheck.current /\ NoCheck.plan = 0
  BY Constants DEF NoCheck, Checks, Refuse, ReadOnly
<1>2. \A q \in Retries : retries'[q] = IF q = r THEN x ELSE retries[q]
  BY DEF IInv, Types
<1>3. check' \in Checks /\ CheckShape' /\ check'.plan <= 3 + Spent
  <2>1. CASE check' = NoCheck
    <3>1. 0 <= 3 + Spent
      BY SpentIsNat
    <3> QED
      BY <1>1, <2>1, <3>1 DEF CheckShape
  <2>2. CASE check' = check /\ (check.of = r => x.st = "CHECKING")
    <3>1. check.of # None => check.of \in Retries
      BY DEF IInv, Types, Checks
    <3> QED
      BY <1>2, <2>2, <3>1 DEF IInv, Types, CheckShape, Bounded
  <2> QED
    BY <2>1, <2>2
<1>4. JobShape' /\ GrantShape' /\ RunShape'
  BY DEF IInv, JobShape, GrantShape, RunShape, At
<1>5. job'.manual.ok =>
        /\ job'.manual.attempt <= 3 + Spent
        /\ retries[job'.manual.of].consumed => job'.manual.attempt <= 2 + Spent
  BY DEF IInv, Bounded
<1>6. \A d \in Execs : SawNothing(execs'[d]) => SawNothing(execs[d])
  OBVIOUS
<1>7. job' \in Jobs /\ execs' \in [Execs -> Runs]
  BY DEF IInv, Types
<1> QED
  BY <1>3, <1>4, <1>5, <1>6, <1>7, RetryMoved

(* Only the inspection moves. *)
LEMMA OnlyCheck ==
  ASSUME IInv, UNCHANGED <<job, execs, ledger, wb, retries>>,
         check' \in Checks, check'.plan <= 3 + Spent, CheckShape'
  PROVE  IInv'
<1>1. Types' /\ JobShape' /\ RetryShape' /\ GrantShape'
  BY DEF IInv, Types, JobShape, RetryShape, GrantShape
<1>2. RunShape'
  BY DEF IInv, RunShape, At
<1>3. Bounded'
  <2>1. Spent' = Spent
    BY SpentStays
  <2> QED
    BY <2>1 DEF IInv, Bounded
<1>4. LedgerInv' /\ ProofInv'
  BY DEF IInv, LedgerInv, AttemptsInOrder, ProofInv, Proven, SawNothing
<1> QED
  BY <1>1, <1>2, <1>3, <1>4 DEF IInv

LEMMA NoCheckFacts ==
  /\ NoCheck \in Checks /\ NoCheck.of = None /\ ~NoCheck.current /\ NoCheck.plan = 0
  /\ NoCheck.plan <= 3 + Spent
<1>1. NoCheck \in Checks /\ NoCheck.of = None /\ ~NoCheck.current /\ NoCheck.plan = 0
  BY Constants DEF NoCheck, Checks, Refuse, ReadOnly
<1>2. 0 <= 3 + Spent
  BY SpentIsNat
<1> QED
  BY <1>1, <1>2

(* Writing the status of a retry. *)
LEMMA RetryFields ==
  ASSUME NEW x \in RetryRows,
         NEW s \in {"none", "CHECKING", "RUNNING", "SUCCEEDED", "FAILED", "BLOCKED"}
  PROVE  /\ [x EXCEPT !.st = s] \in RetryRows /\ [x EXCEPT !.st = s].st = s
         /\ [x EXCEPT !.st = s].consumed = x.consumed /\ [x EXCEPT !.st = s].attempt = x.attempt
BY DEF RetryRows

LEMMA AskKeeps ==
  ASSUME IInv, NEW r \in Retries, Ask(r)
  PROVE  IInv'
<1> DEFINE x == [retries[r] EXCEPT !.st = "CHECKING"]
<1>1. /\ retries[r] \in RetryRows /\ retries[r].st = "none" /\ ~retries[r].consumed
      /\ \A q \in Retries : retries[q].st \notin Active
      /\ retries' = [retries EXCEPT ![r] = x] /\ UNCHANGED <<job, execs, ledger, wb, check>>
  BY DEF IInv, Types, RetryShape, Ask
<1>2. x \in RetryRows /\ x.st = "CHECKING" /\ x.consumed = retries[r].consumed
  BY <1>1, RetryFields
<1> HIDE DEF x
<1> QED
  BY <1>1, <1>2, OnlyRetry

LEMMA AgeProofKeeps ==
  ASSUME IInv, NEW r \in Retries, AgeProof(r)
  PROVE  IInv'
<1> DEFINE x == [retries[r] EXCEPT !.age = retries[r].age + 1]
<1>1. /\ retries[r] \in RetryRows /\ retries[r].st = "RUNNING" /\ retries[r].age < 2
      /\ retries' = [retries EXCEPT ![r] = x] /\ UNCHANGED <<job, execs, ledger, wb, check>>
      /\ \A q \in Retries : q # r => retries[q].st \notin Active
      /\ check.of # r
  <2>1. retries[r].st \in Active
    BY DEF AgeProof, Active
  <2>2. check.of = r => r # None
    BY Constants
  <2> QED
    BY <2>1, <2>2 DEF IInv, Types, RetryShape, CheckShape, AgeProof
<1>2. x \in RetryRows /\ x.st = "RUNNING" /\ x.consumed = retries[r].consumed
  <2>1. retries[r].age + 1 \in 0 .. 2
    BY <1>1 DEF RetryRows
  <2> QED
    BY <1>1, <2>1 DEF RetryRows
<1> HIDE DEF x
<1> QED
  BY <1>1, <1>2, OnlyRetry

(* A grant is planned for the attempt after the last one in the ledger. *)
LEMMA PlanFacts ==
  ASSUME IInv, NEW r \in Retries, ~retries[r].consumed
  PROVE  /\ Plan(r) \in ReadOnly .. MaxAttempt /\ Plan(r) <= 3 + Spent
         /\ Plan(r) > 0 =>
              /\ Plan(r) \in {job.attempt, job.attempt + 1}
              /\ Highest \in Rows /\ (\A b \in Rows : b <= Highest) /\ Plan(r) = Highest + 1
              /\ FailedAt \in Rows
              /\ ledger[FailedAt].res \notin {"accepted", "open", "dead", "unknown"}
<1> DEFINE unused == IF retries[r].consumed THEN 0 ELSE retries[r].attempt
<1>0. /\ Spent \in Nat /\ MaxAttempt \in Nat /\ Spent + 1 <= Cardinality(Retries)
      /\ Cardinality(Retries) \in Nat /\ MaxAttempt >= 2 + Cardinality(Retries)
  BY SpentIsNat, Constants, CardAssumption
<1>1. 3 + Spent <= MaxAttempt
  BY <1>0
<1>2. ASSUME Plan(r) \in {0, -1}
      PROVE  Plan(r) \in ReadOnly .. MaxAttempt /\ Plan(r) <= 3 + Spent /\ ~(Plan(r) > 0)
  BY <1>0, <1>2 DEF ReadOnly
<1>3. CASE FailedAt \notin Rows \/ ledger[FailedAt].res = "accepted"
  <2>1. Plan(r) = 0
    BY <1>3 DEF Plan, Refuse
  <2> QED
    BY <1>2, <2>1
<1>4. CASE /\ FailedAt \in Rows /\ ledger[FailedAt].res # "accepted"
           /\ ledger[FailedAt].res \in {"open", "dead", "unknown"}
  <2>1. Plan(r) = -1
    BY <1>4 DEF Plan, ReadOnly
  <2> QED
    BY <1>2, <2>1
<1>5. CASE FailedAt \in Rows /\ ledger[FailedAt].res \notin {"accepted", "open", "dead", "unknown"}
  <2> DEFINE ok == Highest = job.attempt \/ (unused = Highest + 1 /\ job.attempt = unused)
  <2>1. Plan(r) = IF ok THEN Highest + 1 ELSE 0
    BY <1>5 DEF Plan, Refuse
  <2>2. Highest \in Rows /\ \A b \in Rows : b <= Highest
    BY <1>5, HighestRow
  <2>3. Highest \in Nat /\ Highest > 0 /\ Highest <= 2 + Spent
    BY <2>2, Constants DEF Rows, Attempts, IInv, Bounded
  <2>4. CASE ~ok
    BY <1>2, <2>1, <2>4
  <2>5. CASE ok
    <3>1. Plan(r) = Highest + 1 /\ Plan(r) \in {job.attempt, job.attempt + 1}
      <4> HIDE DEF unused
      <4> QED
        BY <2>1, <2>5
    <3>2. Plan(r) \in ReadOnly .. MaxAttempt /\ Plan(r) <= 3 + Spent
      BY <1>0, <1>1, <2>3, <3>1 DEF ReadOnly
    <3> QED
      BY <1>5, <2>2, <3>1, <3>2
  <2> QED
    BY <2>4, <2>5
<1> QED
  BY <1>3, <1>4, <1>5

LEMMA InspectKeeps ==
  ASSUME IInv, NEW r \in Retries, Inspect(r)
  PROVE  IInv'
<1>1. /\ check' = [of |-> r, current |-> TRUE, plan |-> Plan(r)]
      /\ retries[r].st = "CHECKING" /\ ~retries[r].consumed /\ job.state \in Stopped
      /\ UNCHANGED <<job, execs, ledger, wb, retries>>
  BY DEF IInv, RetryShape, Inspect
<1>2. /\ Plan(r) \in ReadOnly .. MaxAttempt /\ Plan(r) <= 3 + Spent
      /\ Plan(r) > 0 => Plan(r) \in {job.attempt, job.attempt + 1}
  BY <1>1, PlanFacts
<1>3. check' \in Checks /\ check'.of = r /\ check'.plan = Plan(r)
  BY <1>1, <1>2 DEF Checks
<1>4. CheckShape'
  BY <1>1, <1>2, <1>3, Constants DEF CheckShape
<1> QED
  BY <1>1, <1>2, <1>3, <1>4, OnlyCheck

\* The row is given back to the runs, and the retry runs.
Gives(r, stage, attempt) ==
  /\ job' = [job EXCEPT !.state = stage, !.resume = "", !.late = FALSE, !.expired = FALSE,
                        !.manual = [of |-> r, attempt |-> attempt, ok |-> attempt > 0]]
  /\ execs' = Outdated
  /\ retries' = [retries EXCEPT ![r].st = "RUNNING", ![r].attempt = attempt,
                                ![r].ref = FailedAt, ![r].age = 0]

LEMMA GivesKeeps ==
  ASSUME IInv, NEW r \in Retries, NEW stage \in {"MEDIA_RECONCILING", "CARD_SUBMITTING", "CARD_CREATE_READY"},
         NEW attempt \in 0 .. MaxAttempt, Gives(r, stage, attempt),
         attempt > 0 => /\ stage = "CARD_CREATE_READY" /\ attempt \in {job.attempt, job.attempt + 1}
                        /\ attempt <= 3 + Spent,
         retries[r].st = "CHECKING", check' = NoCheck, UNCHANGED <<ledger, wb>>
  PROVE  IInv'
<1>0. /\ job \in Jobs /\ job.attempt \in Nat /\ retries[r] \in RetryRows /\ ~retries[r].consumed
      /\ MaxAttempt \in Nat
  BY JobFields, Constants DEF IInv, Types, RetryShape
<1> DEFINE m == [of |-> r, attempt |-> attempt, ok |-> attempt > 0]
           j1 == [job EXCEPT !.state = stage]
           j2 == [j1 EXCEPT !.resume = ""]
           j3 == [j2 EXCEPT !.late = FALSE]
           j4 == [j3 EXCEPT !.expired = FALSE]
<1>1. m \in Manuals /\ m.of = r /\ m.attempt = attempt /\ (m.ok <=> attempt > 0)
  <2> DEFINE b == attempt > 0
  <2>1. b \in BOOLEAN
    BY <1>0
  <2>2. b <=> attempt > 0
    OBVIOUS
  <2>3. m = [of |-> r, attempt |-> attempt, ok |-> b]
    OBVIOUS
  <2> HIDE DEF b, m
  <2>4. m \in Manuals /\ m.of = r /\ m.attempt = attempt /\ m.ok = b
    BY <2>1, <2>3 DEF Manuals
  <2> QED
    BY <2>2, <2>4
<1>2. job' = [j4 EXCEPT !.manual = m]
  BY DEF Gives
<1>3. /\ j1 \in Jobs /\ j1.state = stage /\ j1.attempt = job.attempt /\ j1.rec = job.rec
  BY <1>0 DEF Jobs, States, Live
<1> HIDE DEF j1
<1>4. /\ j2 \in Jobs /\ j2.state = stage /\ j2.attempt = job.attempt /\ j2.rec = job.rec /\ j2.resume = ""
  BY <1>3 DEF Jobs
<1> HIDE DEF j2
<1>5. /\ j3 \in Jobs /\ j3.state = stage /\ j3.attempt = job.attempt /\ j3.rec = job.rec /\ j3.resume = ""
  BY <1>4 DEF Jobs
<1> HIDE DEF j3
<1>6. /\ j4 \in Jobs /\ j4.state = stage /\ j4.attempt = job.attempt /\ j4.rec = job.rec /\ j4.resume = ""
      /\ ~j4.expired
  BY <1>5 DEF Jobs
<1> HIDE DEF j4, m
<1>7. /\ job' \in Jobs /\ job'.state = stage /\ job'.attempt = job.attempt /\ job'.rec = job.rec
      /\ job'.resume = "" /\ ~job'.expired /\ job'.manual = m
  BY <1>1, <1>2, <1>6 DEF Jobs
<1> DEFINE x1 == [retries[r] EXCEPT !.st = "RUNNING"]
           x2 == [x1 EXCEPT !.attempt = attempt]
           x3 == [x2 EXCEPT !.ref = FailedAt]
           x == [x3 EXCEPT !.age = 0]
<1>8. retries' = [retries EXCEPT ![r] = x]
  BY DEF Gives
<1>9. FailedAt \in Records
  BY <1>0 DEF FailedAt, Jobs
<1>10. x1 \in RetryRows /\ x1.st = "RUNNING" /\ x1.consumed = retries[r].consumed
  BY <1>0, RetryFields
<1> HIDE DEF x1
<1>11. x2 \in RetryRows /\ x2.st = "RUNNING" /\ x2.consumed = retries[r].consumed
  BY <1>10 DEF RetryRows
<1> HIDE DEF x2
<1>12. x3 \in RetryRows /\ x3.st = "RUNNING" /\ x3.consumed = retries[r].consumed
  BY <1>9, <1>11 DEF RetryRows
<1> HIDE DEF x3
<1>13. x \in RetryRows /\ x.st = "RUNNING" /\ x.consumed = retries[r].consumed
  BY <1>12 DEF RetryRows
<1> HIDE DEF x
<1>14. \A q \in Retries : q # r => retries[q].st \notin Active
  BY DEF IInv, RetryShape, Active
<1>15. JobShape'
  BY <1>7 DEF JobShape
<1>16. RunShape' /\ execs' \in [Execs -> Runs] /\ \A d \in Execs : ~SawNothing(execs'[d])
  BY OutdatedFacts DEF IInv, RunShape, SawNothing, Gives
<1>17. CheckShape' /\ check' \in Checks /\ check'.plan <= 3 + Spent
  BY NoCheckFacts DEF CheckShape
<1>18. GrantShape'
  <2>1. SUFFICES ASSUME job'.manual.ok
                 PROVE  /\ r # None /\ attempt > 0 /\ job.attempt <= attempt
                        /\ stage = "CARD_CREATE_READY"
    BY <1>1, <1>7 DEF GrantShape
  <2>2. attempt > 0
    BY <1>1, <1>7, <2>1
  <2>3. job.attempt <= attempt
    BY <1>0, <2>2
  <2> QED
    BY <2>2, <2>3, Constants
<1>19. job'.manual.ok =>
         /\ job'.manual.attempt <= 3 + Spent
         /\ retries[job'.manual.of].consumed => job'.manual.attempt <= 2 + Spent
  BY <1>0, <1>1, <1>7
<1> QED
  BY <1>7, <1>8, <1>13, <1>14, <1>15, <1>16, <1>17, <1>18, <1>19, <1>0, RetryMoved DEF Active

\* What the worker decides: nothing, an end of the retry, or that it runs on.
Ends(r) ==
  /\ UNCHANGED <<job, execs>>
  /\ \E s \in {"SUCCEEDED", "FAILED", "BLOCKED"} : retries' = [retries EXCEPT ![r].st = s]
Grants(r) ==
  /\ check.current /\ job.lease = None
  /\ \/ Gives(r, "MEDIA_RECONCILING", 0)
     \/ Gives(r, "CARD_SUBMITTING", 0)
     \/ check.plan > 0 /\ ~Found /\ Gives(r, "CARD_CREATE_READY", check.plan)

LEMMA DecideCases ==
  ASSUME NEW r \in Retries, Decide(r)
  PROVE  /\ check.of = r /\ check' = NoCheck /\ UNCHANGED <<ledger, wb>>
         /\ UNCHANGED <<job, execs, retries>> \/ Ends(r) \/ Grants(r)
<1>1. check.of = r /\ check' = NoCheck /\ UNCHANGED <<ledger, wb>>
  BY DEF Decide
<1>2. Settle(r, "BLOCKED") => Ends(r)
  BY DEF Settle, Ends
<1>3. ASSUME NEW stage, NEW attempt, Resume(r, stage, attempt)
      PROVE  \/ UNCHANGED <<job, execs, retries>>
             \/ check.current /\ job.lease = None /\ Gives(r, stage, attempt)
  BY <1>3 DEF Resume, Defer, Gives
<1>4. CASE Defer
  BY <1>1, <1>4 DEF Defer
<1>5. CASE Settle(r, "BLOCKED")
  BY <1>1, <1>2, <1>5
<1>6. CASE Resume(r, "MEDIA_RECONCILING", 0)
  BY <1>1, <1>3, <1>6 DEF Grants
<1>7. CASE Resume(r, "CARD_SUBMITTING", 0)
  BY <1>1, <1>3, <1>7 DEF Grants
<1>8. CASE check.plan > 0 /\ ~Found /\ Resume(r, "CARD_CREATE_READY", check.plan)
  BY <1>1, <1>3, <1>8 DEF Grants
<1> QED
  BY <1>4, <1>5, <1>6, <1>7, <1>8 DEF Decide

LEMMA EndsKeeps ==
  ASSUME IInv, NEW r \in Retries, Ends(r), UNCHANGED <<ledger, wb>>,
         check' = NoCheck \/ (check' = check /\ check.of # r)
  PROVE  IInv'
<1>1. PICK s \in {"SUCCEEDED", "FAILED", "BLOCKED"} : retries' = [retries EXCEPT ![r].st = s]
  BY DEF Ends
<1> DEFINE x == [retries[r] EXCEPT !.st = s]
<1>2. retries' = [retries EXCEPT ![r] = x]
  BY <1>1
<1>3. x \in RetryRows /\ x.st = s /\ x.consumed = retries[r].consumed
  <2>1. retries[r] \in RetryRows
    BY DEF IInv, Types
  <2> QED
    BY <2>1 DEF RetryRows
<1> HIDE DEF x
<1> QED
  BY <1>1, <1>2, <1>3, OnlyRetry DEF Ends, Active

LEMMA DecideKeeps ==
  ASSUME IInv, NEW r \in Retries, Decide(r)
  PROVE  IInv'
<1>1. /\ check.of = r /\ check' = NoCheck /\ UNCHANGED <<ledger, wb>>
      /\ UNCHANGED <<job, execs, retries>> \/ Ends(r) \/ Grants(r)
  BY DecideCases
<1>2. retries[r].st = "CHECKING"
  BY <1>1, Constants DEF IInv, CheckShape
<1>3. CASE UNCHANGED <<job, execs, retries>>
  BY <1>1, <1>3, NoCheckFacts, OnlyCheck DEF CheckShape
<1>4. CASE Ends(r)
  BY <1>1, <1>4, EndsKeeps
<1>5. CASE Grants(r)
  <2>1. 0 \in 0 .. MaxAttempt /\ ~(0 > 0)
    BY Constants
  <2>2. CASE Gives(r, "MEDIA_RECONCILING", 0)
    BY <1>1, <1>2, <2>1, <2>2, GivesKeeps
  <2>3. CASE Gives(r, "CARD_SUBMITTING", 0)
    BY <1>1, <1>2, <2>1, <2>3, GivesKeeps
  <2>4. CASE check.plan > 0 /\ Gives(r, "CARD_CREATE_READY", check.plan)
    <3>1. check.plan \in 0 .. MaxAttempt
      BY <2>4, Constants DEF IInv, Types, Checks, ReadOnly
    <3>2. check.plan \in {job.attempt, job.attempt + 1} /\ check.plan <= 3 + Spent
      BY <1>5, <2>4 DEF Grants, IInv, CheckShape, Bounded
    <3> QED
      BY <1>1, <1>2, <2>4, <3>1, <3>2, GivesKeeps
  <2> QED
    BY <1>5, <2>2, <2>3, <2>4 DEF Grants
<1> QED
  BY <1>1, <1>3, <1>4, <1>5

(* An unused grant is taken back. *)
LEMMA RefreshKeeps ==
  ASSUME IInv, NEW r \in Retries, retries[r].st = "RUNNING", Refreshing(r), RefreshUnconsumed(r),
         check' = IF check.of = r THEN NoCheck ELSE check, UNCHANGED <<ledger, wb>>
  PROVE  IInv'
<1>0. job \in Jobs /\ retries[r] \in RetryRows
  BY DEF IInv, Types
<1> DEFINE x == [retries[r] EXCEPT !.st = "CHECKING"]
           j == [job EXCEPT !.state = "FAILED"]
<1>1. x \in RetryRows /\ x.st = "CHECKING" /\ x.consumed = retries[r].consumed /\ ~x.consumed
  BY <1>0, RetryFields DEF Refreshing
<1>2. retries' = [retries EXCEPT ![r] = x] /\ execs' = Outdated
  BY DEF RefreshUnconsumed
<1>3. /\ j \in Jobs /\ j.state = "FAILED" /\ j.attempt = job.attempt /\ j.rec = job.rec
      /\ j.manual = job.manual /\ j.resume = job.resume /\ j.expired = job.expired
  BY <1>0 DEF Jobs, States, Stopped
<1> HIDE DEF j, x
<1>4. retries[r].ref \in Records
  BY <1>0 DEF RetryRows
<1>5. job' = [j EXCEPT !.failed = retries[r].ref]
  BY DEF RefreshUnconsumed, j
<1>6. /\ job' \in Jobs /\ job'.state = "FAILED" /\ job'.attempt = job.attempt /\ job'.rec = job.rec
      /\ job'.manual = job.manual /\ job'.resume = job.resume /\ job'.expired = job.expired
  BY <1>3, <1>4, <1>5 DEF Jobs
<1>7. JobShape'
  <2>1. job.state # "RETRY_WAIT"
    BY DEF Refreshing, IInv, JobShape
  <2> QED
    BY <1>6, <2>1 DEF IInv, JobShape
<1>8. RunShape' /\ execs' \in [Execs -> Runs] /\ \A d \in Execs : ~SawNothing(execs'[d])
  BY <1>2, OutdatedFacts DEF IInv, RunShape, SawNothing
<1>9. \A q \in Retries : q # r => retries[q].st \notin Active
  BY DEF IInv, RetryShape, Active
<1>10. check.of # r
  BY Constants DEF IInv, CheckShape
<1>11. CheckShape' /\ check' \in Checks /\ check'.plan <= 3 + Spent
  <2>1. check' = check /\ check \in Checks /\ check.plan <= 3 + Spent
    BY <1>10 DEF IInv, Types, Bounded
  <2>2. \A q \in Retries : q # r => retries'[q] = retries[q]
    BY <1>2 DEF IInv, Types
  <2>3. check.of # None => check.of \in Retries
    BY <2>1 DEF Checks
  <2> QED
    BY <1>6, <1>10, <2>1, <2>2, <2>3 DEF IInv, CheckShape, Stopped
<1>12. GrantShape'
  BY <1>6 DEF IInv, GrantShape
<1>13. job'.manual.ok =>
         /\ job'.manual.attempt <= 3 + Spent
         /\ retries[job'.manual.of].consumed => job'.manual.attempt <= 2 + Spent
  BY <1>6 DEF IInv, Bounded
<1> QED
  BY <1>1, <1>2, <1>6, <1>7, <1>8, <1>9, <1>11, <1>12, <1>13, RetryMoved

LEMMA WatchKeeps ==
  ASSUME IInv, NEW r \in Retries, Watch(r)
  PROVE  IInv'
<1>1. check' = (IF check.of = r THEN NoCheck ELSE check) /\ UNCHANGED <<ledger, wb>>
  BY DEF Watch
<1>2. CASE retries[r].st = "RUNNING" /\ Refreshing(r) /\ RefreshUnconsumed(r)
  BY <1>1, <1>2, RefreshKeeps
<1>3. CASE Ends(r)
  BY <1>1, <1>3, EndsKeeps
<1>4. ASSUME NEW s \in {"SUCCEEDED", "FAILED", "BLOCKED"}, Settle(r, s) PROVE Ends(r)
  BY <1>4 DEF Settle, Ends
<1> QED
  BY <1>2, <1>3, <1>4 DEF Watch

---------------------------------------------------------------------------
(* The invariant. *)

LEMMA InitHolds == Init => IInv
<1> SUFFICES ASSUME Init PROVE IInv
  OBVIOUS
<1> DEFINE rec0 == [active |-> FALSE, old |-> FALSE, proof |-> FALSE, rounds |-> 0, firm |-> 0]
           manual0 == [of |-> None, attempt |-> 0, ok |-> FALSE]
           row0 == [res |-> "none", old |-> FALSE]
           retry0 == [st |-> "none", attempt |-> 0, consumed |-> FALSE, ref |-> Untold, age |-> 0]
<1>0. 0 \in 0 .. MaxAttempt /\ 0 \in Records /\ Untold = 0 /\ 0 \in 0 .. 2
  BY Constants DEF Untold
<1>1. rec0 \in Recs /\ rec0.firm = 0 /\ rec0.rounds = 0
  BY DEF Recs
<1>2. manual0 \in Manuals /\ ~manual0.ok
  BY <1>0 DEF Manuals
<1>3. /\ job.rec = rec0 /\ job.manual = manual0
      /\ job.state = "CARD_CREATE_GUARD" /\ job.resume = "" /\ job.attempt = 0 /\ ~job.expired
  BY DEF Init
<1>4. job \in Jobs
  <2> HIDE DEF rec0, manual0
  <2>1. job = [state |-> "CARD_CREATE_GUARD", resume |-> "", lease |-> None,
               attempt |-> 0, guard |-> FALSE, replay |-> FALSE, late |-> FALSE,
               rec |-> rec0, manual |-> manual0, failed |-> 0, last |-> 0, expired |-> FALSE]
    BY <1>0 DEF Init, rec0, manual0
  <2> QED
    BY <1>0, <1>1, <1>2, <2>1 DEF Jobs, States, Live
<1>5. /\ row0 \in LedgerRows /\ row0.res = "none" /\ ~row0.old
      /\ ledger \in [Attempts -> LedgerRows] /\ \A a \in Attempts : ledger[a] = row0
  BY DEF Init, LedgerRows
<1>6. wb \in [Attempts -> Fates] /\ \A a \in Attempts : wb[a] = "none"
  BY DEF Init, Fates
<1>7. retry0 \in RetryRows /\ retry0.st = "none" /\ ~retry0.consumed
  BY <1>0 DEF RetryRows
<1>8. retries \in [Retries -> RetryRows] /\ \A r \in Retries : retries[r] = retry0
  <2> HIDE DEF retry0
  <2>1. retries = [r \in Retries |-> retry0]
    BY DEF Init, retry0
  <2> QED
    BY <1>7, <2>1
<1> HIDE DEF rec0, manual0, row0, retry0
<1>9. execs \in [Execs -> Runs] /\ \A e \in Execs : execs[e] = Idle
  BY IdleFacts DEF Init
<1>10. check = NoCheck
  BY DEF Init
<1>11. Types
  BY <1>4, <1>5, <1>6, <1>8, <1>9, <1>10, NoCheckFacts DEF Types
<1>12. JobShape /\ RunShape /\ GrantShape
  BY <1>2, <1>3, <1>9, IdleFacts DEF JobShape, RunShape, GrantShape
<1>13. RetryShape /\ CheckShape
  BY <1>7, <1>8, <1>10, NoCheckFacts DEF RetryShape, CheckShape, Active
<1>14. Bounded
  BY <1>2, <1>3, <1>5, <1>10, NoCheckFacts DEF Bounded
<1>15. LedgerInv
  BY <1>5, <1>6 DEF LedgerInv, AttemptsInOrder
<1>16. ProofInv
  <2>1. ~SawNothing(Idle)
    BY IdleFacts DEF SawNothing
  <2>2. job.rec.firm = 0 /\ job.rec.rounds = 0
    BY <1>1, <1>3
  <2> QED
    BY <1>9, <2>1, <2>2 DEF ProofInv, Proven
<1> QED
  BY <1>11, <1>12, <1>13, <1>14, <1>15, <1>16 DEF IInv

(* A step that changes nothing. *)
LEMMA StutterKeeps ==
  ASSUME IInv, UNCHANGED vars
  PROVE  IInv'
<1>1. UNCHANGED <<job, execs, ledger, wb, retries, check>>
  BY DEF vars
<1>2. CheckShape' /\ check' \in Checks /\ check'.plan <= 3 + Spent
  BY <1>1 DEF IInv, Types, CheckShape, Bounded
<1> QED
  BY <1>1, <1>2, OnlyCheck

LEMMA NextKeeps ==
  ASSUME IInv, [Next]_vars
  PROVE  IInv'
<1>1. ASSUME NEW e \in Execs,
             Reading(e) \/ Ready(e) \/ Begin(e) \/ HangUp(e) \/ Persist(e) \/ Die(e)
      PROVE  IInv'
  BY <1>1, ReadingKeeps, ReadyKeeps, BeginKeeps, HangUpKeeps, PersistKeeps, DieKeeps
<1>2. ASSUME NEW a \in Attempts, Gateway(a) \/ Resolve(a) \/ RowOld(a)
      PROVE  IInv'
  BY <1>2, CompleteKeeps, ResolveAges, RowOldAges, AgeKeeps DEF Gateway
<1>3. ASSUME NEW r \in Retries, Ask(r) \/ Worker(r) \/ AgeProof(r)
      PROVE  IInv'
  BY <1>3, AskKeeps, InspectKeeps, DecideKeeps, WatchKeeps, AgeProofKeeps DEF Worker
<1>4. CASE Lapse \/ RecOld \/ Day \/ GuardExpires
  BY <1>4, TimeMarks, MarkedKeeps
<1>5. CASE Crash
  BY <1>5, CrashKeeps
<1>6. CASE UNCHANGED vars
  BY <1>6, StutterKeeps
<1> QED
  BY <1>1, <1>2, <1>3, <1>4, <1>5, <1>6 DEF Next

(* The invariant implies the type invariant. *)
LEMMA Typed == IInv => TypeOK
<1> SUFFICES ASSUME IInv PROVE TypeOK
  OBVIOUS
<1>1. /\ job.state \in States /\ job.lease \in Execs \union {None}
      /\ job.attempt \in 0 .. MaxAttempt /\ job.rec \in Recs
  BY DEF IInv, Types, Jobs
<1>2. (job.state = "RETRY_WAIT") = (job.resume # "")
  <2>1. job.state = "RETRY_WAIT" <=> job.resume # ""
    BY DEF IInv, JobShape
  <2> DEFINE p == job.state = "RETRY_WAIT"
             q == job.resume # ""
  <2>2. p \in BOOLEAN /\ q \in BOOLEAN /\ (p <=> q)
    BY <2>1
  <2> QED
    BY <2>1, ZenonT(30)
<1>3. job.rec.rounds \in 0 .. 2 /\ job.rec.firm \in 0 .. job.rec.rounds
  <2>1. job.rec.rounds \in 0 .. 2 /\ job.rec.firm \in 0 .. 2 /\ job.rec.firm <= job.rec.rounds
    BY <1>1 DEF Recs, IInv, ProofInv, Proven
  <2> QED
    BY <2>1
<1>4. \A e \in Execs : execs[e].current => job.lease \in {e, None}
  BY DEF IInv, RunShape
<1>5. \A a \in Attempts : /\ ledger[a].res \in Closed \union {"none", "open", "dead"}
                          /\ wb[a] \in {"none", "pending", "created", "rejected", "lost", "double"}
  BY DEF IInv, Types, LedgerRows, Fates
<1>6. \A r \in Retries : retries[r].attempt \in 0 .. MaxAttempt /\ retries[r].age \in 0 .. 2
  BY DEF IInv, Types, RetryRows
<1> QED
  BY <1>1, <1>2, <1>3, <1>4, <1>5, <1>6 DEF TypeOK, States

(* The rows keep their types, a fresh copy of a row is held under its lease, *)
(* and no attempt, plan or grant goes past the room the ledger has.          *)
THEOREM TypeCorrect == Spec => []TypeOK
<1>1. Init => IInv
  BY InitHolds
<1>2. IInv /\ [Next]_vars => IInv'
  BY NextKeeps
<1> QED
  BY <1>1, <1>2, Typed, PTL DEF Spec

---------------------------------------------------------------------------
(* Which attempts can become cards. *)

\* The marketplace did not take the request, so that a retry may make another.
Turned(a) == ledger[a].res \in {"refused", "throttled", "notsent"}
Quiet(a) == ledger[a].res \in Closed /\ wb[a] \notin {"pending", "created"}
GrantedFor(f) == \E q \in Retries : retries[q].consumed /\ retries[q].ref = f

\* Attempt n of retry r is for the failure at f: attempts before n will not
\* become cards, unless the failure has been used by another retry.
Earned(f, n, r) ==
  /\ f \in Attempts /\ f < n /\ Turned(f)
  /\ \/ \A a \in Attempts : a < n => Quiet(a)
     \/ \E q \in Retries \ {r} : retries[q].consumed /\ retries[q].ref = f

Passed ==
  \A a, b \in Attempts : a < b /\ ledger[b].res # "none" =>
    Quiet(a) /\ (Turned(a) => GrantedFor(a))
Planned ==
  \A f, n, r : check.current /\ check.plan > 0 /\ f = FailedAt /\ n = check.plan /\ r = check.of =>
    Earned(f, n, r)
Granted ==
  \A f, n, r : job.manual.ok /\ r = job.manual.of /\ n = job.manual.attempt /\ f = retries[r].ref =>
    Earned(f, n, r) /\ (retries[r].consumed => ledger[n].res # "none")

CardInv == GrantedTwice \/ (Passed /\ Planned /\ Granted)

\* The grants that are used, and the failures they are for.
UsesStand ==
  \A q \in Retries : retries[q].consumed => retries'[q].consumed /\ retries'[q].ref = retries[q].ref
UsesStay ==
  \A q \in Retries : retries'[q].consumed = retries[q].consumed /\ retries'[q].ref = retries[q].ref

(* What was granted twice stays so. *)
LEMMA TwiceStays ==
  ASSUME GrantedTwice, UsesStand
  PROVE  GrantedTwice'
<1>1. PICK r \in Retries, q \in Retries :
        r # q /\ retries[r].consumed /\ retries[q].consumed /\ retries[r].ref = retries[q].ref
  BY DEF GrantedTwice
<1> QED
  BY <1>1 DEF UsesStand, GrantedTwice

(* Nothing is written and no grant is made. *)
LEMMA CardStays ==
  ASSUME IInv, CardInv, UNCHANGED <<ledger, wb>>, UsesStay, GrantKept,
         check'.current => check' = check /\ FailedAt' = FailedAt
  PROVE  CardInv'
<1>1. UsesStand
  BY DEF UsesStay, UsesStand
<1>2. CASE GrantedTwice
  BY <1>1, <1>2, TwiceStays DEF CardInv
<1>3. CASE Passed /\ Planned /\ Granted
  <2>1. ASSUME NEW f, NEW n, NEW r, Earned(f, n, r) PROVE Earned(f, n, r)'
    BY <1>1, <2>1 DEF Earned, Turned, Quiet, UsesStand
  <2>2. Passed'
    BY <1>1, <1>3 DEF Passed, Turned, Quiet, GrantedFor, UsesStand
  <2>3. Planned'
    <3> SUFFICES ASSUME NEW f, NEW n, NEW r, check'.current, check'.plan > 0,
                        f = FailedAt', n = check'.plan, r = check'.of
                 PROVE  Earned(f, n, r)'
      BY DEF Planned
    <3>1. Earned(f, n, r)
      BY <1>3 DEF Planned
    <3> QED
      BY <2>1, <3>1
  <2>4. Granted'
    <3> SUFFICES ASSUME NEW f, NEW n, NEW r, job'.manual.ok,
                        r = job'.manual.of, n = job'.manual.attempt, f = retries'[r].ref
                 PROVE  Earned(f, n, r)' /\ (retries'[r].consumed => ledger'[n].res # "none")
      BY DEF Granted
    <3>1. job.manual.ok /\ r = job.manual.of /\ n = job.manual.attempt /\ r \in Retries
      BY JobFields DEF GrantKept, IInv, GrantShape, Types
    <3>2. f = retries[r].ref /\ (retries'[r].consumed => retries[r].consumed)
      BY <3>1 DEF UsesStay
    <3>3. Earned(f, n, r) /\ (retries[r].consumed => ledger[n].res # "none")
      BY <1>3, <3>1, <3>2 DEF Granted
    <3> QED
      BY <2>1, <3>2, <3>3
  <2> QED
    BY <2>2, <2>3, <2>4 DEF CardInv
<1> QED
  BY <1>2, <1>3 DEF CardInv

\* Rows that are closed stay as they are, and none is added.
RowsStand ==
  \A a \in Attempts : /\ ledger'[a].res # "none" <=> ledger[a].res # "none"
                      /\ ledger[a].res \in Closed => ledger'[a].res = ledger[a].res
                      /\ Quiet(a) => wb'[a] \notin {"pending", "created"}

(* Rows are settled, time goes by. *)
LEMMA CardStands ==
  ASSUME IInv, CardInv, RowsStand, UNCHANGED <<job, retries>>, check' \in {check, NoCheck}
  PROVE  CardInv'
<1>1. UsesStand
  BY DEF UsesStand
<1>2. CASE GrantedTwice
  BY <1>1, <1>2, TwiceStays DEF CardInv
<1>3. CASE Passed /\ Planned /\ Granted
  <2>1. \A a \in Attempts : (Quiet(a) => Quiet(a)') /\ (Turned(a) => Turned(a)')
    BY DEF RowsStand, Quiet, Turned, Closed
  <2>2. \A a \in Attempts : Quiet(a) /\ Turned(a)' => Turned(a)
    BY DEF RowsStand, Quiet, Turned
  <2>3. Passed'
    <3> SUFFICES ASSUME NEW a \in Attempts, NEW b \in Attempts, a < b, ledger'[b].res # "none"
                 PROVE  Quiet(a)' /\ (Turned(a)' => GrantedFor(a)')
      BY DEF Passed, Quiet, Turned, GrantedFor
    <3>1. Quiet(a) /\ (Turned(a) => GrantedFor(a))
      BY <1>3 DEF RowsStand, Passed
    <3>2. GrantedFor(a) => GrantedFor(a)'
      BY DEF GrantedFor
    <3> QED
      BY <2>1, <2>2, <3>1, <3>2
  <2>4. ASSUME NEW f, NEW n, NEW r, Earned(f, n, r) PROVE Earned(f, n, r)'
    <3>1. \A a \in Attempts : a < n /\ Quiet(a) => Quiet(a)'
      BY <2>1
    <3>2. f \in Attempts /\ f < n /\ Turned(f)'
      BY <2>1, <2>4 DEF Earned
    <3> QED
      BY <2>4, <3>1, <3>2 DEF Earned
  <2>5. Planned'
    <3> SUFFICES ASSUME NEW f, NEW n, NEW r, check'.current, check'.plan > 0,
                        f = FailedAt', n = check'.plan, r = check'.of
                 PROVE  Earned(f, n, r)'
      BY DEF Planned
    <3>1. check' = check /\ FailedAt' = FailedAt
      BY NoCheckFacts DEF FailedAt
    <3>2. Earned(f, n, r)
      BY <1>3, <3>1 DEF Planned
    <3> QED
      BY <2>4, <3>2
  <2>6. Granted'
    <3> SUFFICES ASSUME NEW f, NEW n, NEW r, job.manual.ok,
                        r = job.manual.of, n = job.manual.attempt, f = retries[r].ref
                 PROVE  Earned(f, n, r)' /\ (retries[r].consumed => ledger'[n].res # "none")
      BY DEF Granted
    <3>1. n \in Attempts
      BY JobFields DEF IInv, GrantShape, Types, Attempts
    <3>2. Earned(f, n, r) /\ (retries[r].consumed => ledger'[n].res # "none")
      BY <1>3, <3>1 DEF Granted, RowsStand
    <3> QED
      BY <2>4, <3>2
  <2> QED
    BY <2>3, <2>5, <2>6 DEF CardInv
<1> QED
  BY <1>2, <1>3 DEF CardInv

LEMMA SettledStand == ASSUME IInv, RowsSettle PROVE RowsStand
BY DEF RowsSettle, RowsStand, Quiet, Closed

LEMMA AgedStand == ASSUME IInv, RowsAge PROVE RowsStand
BY DEF RowsAge, RowsStand, Quiet

(* The write of an attempt begins. *)
LEMMA CardBegins ==
  ASSUME IInv, CardInv, NEW e \in Execs, Begin(e)
  PROVE  CardInv'
<1> DEFINE a == execs[e].attempt
<1>1. a \in Attempts /\ UNCHANGED <<job, wb, check>> /\ FailedAt' = FailedAt
  BY DEF IInv, RunShape, Begin, FailedAt
<1>2. CASE UNCHANGED <<ledger, retries>>
  BY <1>1, <1>2, CardStays DEF UsesStay, GrantKept
<1>3. CASE /\ ~Known(a) /\ Authorized(a)
           /\ ledger' = [ledger EXCEPT ![a] = [res |-> "open", old |-> FALSE]]
           /\ Uses(a)
  <2> DEFINE row == [res |-> "open", old |-> FALSE]
  <2>1. ledger' = [ledger EXCEPT ![a] = row] /\ row.res = "open"
    BY <1>3
  <2> HIDE DEF a, row
  <2>2. \A b \in Attempts : ledger'[b] = IF b = a THEN row ELSE ledger[b]
    BY <1>1, <2>1 DEF IInv, Types
  <2>3. /\ job.attempt = a /\ job.state = "CARD_SUBMITTING"
        /\ \A b \in Attempts : /\ b < a => ledger[b].res \in Closed
                               /\ ledger[b].res # "none" => b <= a
    BY <1>1, <1>3, AuthorizedFollows
  <2>4. UsesStand
    BY <1>1, <1>3, UsesFacts DEF UsesStand
  <2>5. CASE GrantedTwice
    BY <2>4, <2>5, TwiceStays DEF CardInv
  <2>6. CASE Passed /\ Planned /\ Granted /\ ~GrantedTwice'
    <3>1. ASSUME NEW b \in Attempts, b < a
          PROVE  Quiet(b) /\ (Turned(b) => GrantedFor(b)')
      <4>0. a \in Nat /\ b \in Nat /\ b # a /\ ledger[b].res # "none"
        BY <1>1, <2>3, <3>1, JobFields DEF Closed
      <4>1. GrantedFor(b) => GrantedFor(b)'
        BY <2>4 DEF GrantedFor, UsesStand
      <4>2. CASE ledger[a].res # "none"
        BY <1>1, <2>6, <3>1, <4>1, <4>2 DEF Passed
      <4>3. CASE Manual(a) /\ ledger[a].res = "none"
        <5> DEFINE r == job.manual.of
                   f == retries[r].ref
        <5>0. r \in Retries /\ job.manual.ok /\ job.manual.attempt = a
          BY <4>3, JobFields DEF Manual, IInv, Types, GrantShape
        <5>1. Earned(f, a, r) /\ ~retries[r].consumed
          BY <2>6, <4>3, <5>0 DEF Granted
        <5>2. retries'[r].consumed /\ retries'[r].ref = f
          BY <1>1, <1>3, <4>3, <5>0, UsesFacts
        <5> HIDE DEF r, f
        <5>3. ASSUME NEW q \in Retries, retries[q].consumed, retries[q].ref = f PROVE FALSE
          <6>1. retries'[q].consumed /\ retries'[q].ref = f /\ q # r
            BY <2>4, <5>1, <5>3 DEF UsesStand
          <6> QED
            BY <2>6, <5>0, <5>2, <6>1 DEF GrantedTwice
        <5>4. f \in Attempts /\ f < a /\ Turned(f) /\ Quiet(b)
          BY <3>1, <5>1, <5>3 DEF Earned
        <5>5. ledger[f].res # "none"
          BY <5>4 DEF Turned
        <5>6. CASE b = f
          BY <5>0, <5>2, <5>4, <5>6 DEF GrantedFor
        <5>7. CASE b < f
          BY <2>6, <4>1, <5>4, <5>5, <5>7 DEF Passed
        <5>8. CASE f < b
          BY <2>6, <4>0, <5>3, <5>4, <5>8 DEF Passed, GrantedFor
        <5> QED
          BY <4>0, <5>4, <5>6, <5>7, <5>8, JobFields
      <4>4. CASE ~Manual(a)
        <5>1. /\ a = 1 \/ (a = 2 /\ ledger[1].res = "unknown" /\ ledger[1].old /\ job.rec.firm = 2)
          BY <1>3, <4>4 DEF Authorized, AutomaticGrant
        <5>2. b = 1 /\ ledger[1].res = "unknown" /\ ledger[1].old /\ job.rec.firm = 2
          BY <3>1, <4>0, <5>1, Constants DEF Attempts
        <5>3. wb[1] # "created" /\ wb[1] # "pending"
          BY <5>2, Constants DEF IInv, ProofInv, Proven, LedgerInv
        <5> QED
          BY <5>2, <5>3 DEF Quiet, Turned, Closed
      <4> QED
        BY <4>2, <4>3, <4>4
    <3>2. Passed'
      <4> SUFFICES ASSUME NEW b \in Attempts, NEW c \in Attempts, b < c, ledger'[c].res # "none"
                   PROVE  Quiet(b)' /\ (Turned(b)' => GrantedFor(b)')
        BY DEF Passed, Quiet, Turned, GrantedFor
      <4>1. c <= a /\ b < a
        <5>1. c <= a
          <6>1. CASE c = a
            BY <6>1, JobFields
          <6>2. CASE c # a
            BY <2>2, <2>3, <6>2
          <6> QED
            BY <6>1, <6>2
        <5> QED
          BY <1>1, <5>1, JobFields
      <4>2. ledger'[b] = ledger[b] /\ wb'[b] = wb[b]
        BY <1>1, <2>2, <4>1, JobFields
      <4> QED
        BY <3>1, <4>1, <4>2 DEF Quiet, Turned
    <3>3. Planned'
      <4>1. ~check'.current
        BY <1>1, <2>3 DEF IInv, CheckShape, Stopped
      <4> QED
        BY <4>1 DEF Planned
    <3>4. Granted'
      <4> SUFFICES ASSUME NEW f, NEW n, NEW r, job.manual.ok,
                          r = job.manual.of, n = job.manual.attempt, f = retries'[r].ref
                   PROVE  Earned(f, n, r)' /\ (retries'[r].consumed => ledger'[n].res # "none")
        BY <1>1 DEF Granted
      <4>1. n = a /\ r \in Retries
        BY <2>3, JobFields DEF IInv, Types, GrantShape
      <4>2. f = retries[r].ref
        BY <1>1, <1>3, <4>1, UsesFacts
      <4>3. Earned(f, a, r)
        BY <2>6, <4>1, <4>2 DEF Granted
      <4>4. ledger'[n].res # "none"
        BY <1>1, <2>1, <2>2, <4>1
      <4>5. f \in Attempts /\ f < a /\ Turned(f)
        BY <4>3 DEF Earned
      <4>6. f # a
        BY <1>1, <4>5, JobFields
      <4>7. Turned(f)'
        BY <2>2, <4>5, <4>6 DEF Turned
      <4>8. \A b \in Attempts : b < a => Quiet(b)'
        <5> SUFFICES ASSUME NEW b \in Attempts, b < a PROVE Quiet(b)'
          OBVIOUS
        <5>1. b # a
          BY <1>1, JobFields
        <5> QED
          BY <1>1, <2>2, <3>1, <5>1 DEF Quiet
      <4> QED
        BY <4>1, <4>4, <4>5, <4>7, <4>8 DEF Earned
    <3> QED
      BY <3>2, <3>3, <3>4 DEF CardInv
  <2> QED
    BY <2>5, <2>6 DEF CardInv
<1> QED
  BY <1>2, <1>3 DEF Begin, Uses

(* An attempt is planned. *)
LEMMA CardInspects ==
  ASSUME IInv, CardInv, NEW r \in Retries, Inspect(r)
  PROVE  CardInv'
<1>1. /\ check' = [of |-> r, current |-> TRUE, plan |-> Plan(r)]
      /\ retries[r].st = "CHECKING" /\ ~retries[r].consumed
      /\ UNCHANGED <<job, ledger, wb, retries>>
  BY DEF IInv, RetryShape, Inspect
<1>2. CASE GrantedTwice
  BY <1>1, <1>2, TwiceStays DEF UsesStand, CardInv
<1>3. CASE Passed /\ Planned /\ Granted
  <2>1. Passed'
    BY <1>1, <1>3 DEF Passed, Quiet, Turned, GrantedFor
  <2>2. Granted'
    <3> SUFFICES ASSUME NEW f, NEW n, NEW q, job.manual.ok,
                        q = job.manual.of, n = job.manual.attempt, f = retries[q].ref
                 PROVE  Earned(f, n, q)' /\ (retries[q].consumed => ledger[n].res # "none")
      BY <1>1 DEF Granted
    <3>1. Earned(f, n, q) /\ (retries[q].consumed => ledger[n].res # "none")
      BY <1>3 DEF Granted
    <3> QED
      BY <1>1, <3>1 DEF Earned, Quiet, Turned
  <2>3. Planned'
    <3> SUFFICES ASSUME NEW f, NEW n, Plan(r) > 0, f = FailedAt, n = Plan(r)
                 PROVE  Earned(f, n, r)'
      BY <1>1 DEF Planned, FailedAt
    <3>1. /\ Highest \in Rows /\ n = Highest + 1
          /\ f \in Rows /\ f <= Highest
          /\ ledger[f].res \notin {"accepted", "open", "dead", "unknown"}
      BY <1>1, PlanFacts
    <3> DEFINE h == Highest
    <3> HIDE DEF h
    <3>2. /\ h \in Attempts /\ ledger[h].res # "none" /\ f \in Attempts /\ ledger[f].res # "none"
          /\ h \in Nat /\ f \in Nat /\ n = h + 1 /\ f <= h
      BY <3>1, JobFields DEF Rows, h
    <3>3. Turned(f)
      <4>1. ledger[f] \in LedgerRows
        BY <3>2 DEF IInv, Types
      <4> QED
        BY <3>1, <3>2, <4>1 DEF Turned, LedgerRows, Closed
    <3>4. CASE f = h
      <4>1. ASSUME NEW b \in Attempts, b < n PROVE Quiet(b)
        <5>1. b \in Nat /\ (b = h \/ b < h)
          BY <3>2, <4>1, JobFields
        <5>2. CASE b < h
          BY <1>3, <3>2, <5>2 DEF Passed
        <5>3. CASE b = h
          <6>1. wb[b] = "none"
            BY <3>3, <3>4, <5>3 DEF Turned, IInv, LedgerInv
          <6> QED
            BY <3>3, <3>4, <5>3, <6>1 DEF Turned, Quiet, Closed
        <5> QED
          BY <5>1, <5>2, <5>3
      <4>2. \A b \in Attempts : b < n => Quiet(b)'
        BY <1>1, <4>1 DEF Quiet
      <4>3. f \in Attempts /\ f < n /\ Turned(f)'
        BY <1>1, <3>2, <3>3 DEF Turned
      <4> QED
        BY <4>2, <4>3 DEF Earned
    <3>5. CASE f # h
      <4>1. f < h
        BY <3>2, <3>5
      <4>2. GrantedFor(f)
        BY <1>3, <3>2, <3>3, <4>1 DEF Passed
      <4>3. \E q \in Retries \ {r} : retries'[q].consumed /\ retries'[q].ref = f
        BY <1>1, <4>2 DEF GrantedFor
      <4>4. f \in Attempts /\ f < n /\ Turned(f)'
        BY <1>1, <3>2, <3>3 DEF Turned
      <4> QED
        BY <4>3, <4>4 DEF Earned
    <3> QED
      BY <3>4, <3>5
  <2> QED
    BY <2>1, <2>2, <2>3 DEF CardInv
<1> QED
  BY <1>2, <1>3 DEF CardInv

(* A retry moves, its grant and the failure it is for stay. *)
LEMMA UsesMoved ==
  ASSUME IInv, NEW r \in Retries, NEW x, retries' = [retries EXCEPT ![r] = x],
         x.consumed = retries[r].consumed, x.ref = retries[r].ref
  PROVE  UsesStay
<1>1. \A q \in Retries : retries'[q] = IF q = r THEN x ELSE retries[q]
  BY DEF IInv, Types
<1> QED
  BY <1>1 DEF UsesStay

LEMMA StatusMoved ==
  ASSUME IInv, NEW r \in Retries, NEW s, retries' = [retries EXCEPT ![r].st = s]
  PROVE  UsesStay
<1> DEFINE x == [retries[r] EXCEPT !.st = s]
<1>1. x.consumed = retries[r].consumed /\ x.ref = retries[r].ref /\ retries' = [retries EXCEPT ![r] = x]
  BY DEF IInv, Types, RetryRows
<1> HIDE DEF x
<1> QED
  BY <1>1, UsesMoved

(* An attempt is granted. *)
LEMMA CardGrants ==
  ASSUME IInv, CardInv, NEW r \in Retries, Grants(r), check.of = r,
         check' = NoCheck, UNCHANGED <<ledger, wb>>
  PROVE  CardInv'
<1>0. PICK stage \in {"MEDIA_RECONCILING", "CARD_SUBMITTING", "CARD_CREATE_READY"},
           attempt \in 0 .. MaxAttempt :
        /\ Gives(r, stage, attempt)
        /\ attempt > 0 => check.current /\ check.plan > 0 /\ attempt = check.plan
  <2>1. 0 \in 0 .. MaxAttempt /\ ~(0 > 0)
    BY Constants
  <2>2. check.plan > 0 => check.plan \in 0 .. MaxAttempt
    BY Constants DEF IInv, Types, Checks, ReadOnly
  <2> QED
    BY <2>1, <2>2 DEF Grants
<1>1. retries[r].st = "CHECKING" /\ ~retries[r].consumed /\ retries[r] \in RetryRows
  <2>1. retries[r].st = "CHECKING"
    BY Constants DEF IInv, CheckShape
  <2>2. ~retries[r].consumed /\ retries[r] \in RetryRows
    BY <2>1 DEF IInv, Types, RetryShape
  <2> QED
    BY <2>1, <2>2
<1> DEFINE x1 == [retries[r] EXCEPT !.st = "RUNNING"]
           x2 == [x1 EXCEPT !.attempt = attempt]
           x3 == [x2 EXCEPT !.ref = FailedAt]
           x == [x3 EXCEPT !.age = 0]
<1>2. retries' = [retries EXCEPT ![r] = x]
  BY <1>0 DEF Gives
<1>3. FailedAt \in Records
  BY DEF FailedAt, IInv, Types, Jobs
<1>4. x1 \in RetryRows /\ ~x1.consumed
  BY <1>1, RetryFields
<1> HIDE DEF x1
<1>5. x2 \in RetryRows /\ ~x2.consumed
  BY <1>4 DEF RetryRows
<1> HIDE DEF x2
<1>6. x3 \in RetryRows /\ ~x3.consumed /\ x3.ref = FailedAt
  BY <1>3, <1>5 DEF RetryRows
<1> HIDE DEF x3
<1>7. ~x.consumed /\ x.ref = FailedAt
  BY <1>6 DEF RetryRows
<1> HIDE DEF x
<1>8. \A q \in Retries : retries'[q] = IF q = r THEN x ELSE retries[q]
  BY <1>2 DEF IInv, Types
<1>9. UsesStand
  BY <1>1, <1>8 DEF UsesStand
<1>10. job'.manual.of = r /\ job'.manual.attempt = attempt /\ (job'.manual.ok => attempt > 0)
  <2> DEFINE b == attempt > 0
             m == [of |-> r, attempt |-> attempt, ok |-> b]
  <2>1. b => attempt > 0
    OBVIOUS
  <2>2. job'.manual = m
    BY <1>0 DEF Gives, IInv, Types, Jobs
  <2> HIDE DEF b
  <2> QED
    BY <2>1, <2>2
<1>11. CASE GrantedTwice
  BY <1>9, <1>11, TwiceStays DEF CardInv
<1>12. CASE Passed /\ Planned /\ Granted
  <2>1. Passed'
    <3>1. \A b \in Attempts : GrantedFor(b) => GrantedFor(b)'
      BY <1>9 DEF GrantedFor, UsesStand
    <3> QED
      BY <1>12, <3>1 DEF Passed, Quiet, Turned
  <2>2. Planned'
    BY NoCheckFacts DEF Planned
  <2>3. Granted'
    <3> SUFFICES ASSUME NEW f, NEW n, NEW q, attempt > 0, q = r, n = attempt, f = FailedAt
                 PROVE  Earned(f, n, q)' /\ ~retries'[q].consumed
      BY <1>7, <1>8, <1>10 DEF Granted
    <3>1. Earned(f, n, r)
      BY <1>0, <1>12 DEF Planned
    <3>2. f \in Attempts /\ f < n /\ Turned(f)'
      BY <3>1 DEF Earned, Turned
    <3>3. CASE \A a \in Attempts : a < n => Quiet(a)
      <4>1. \A a \in Attempts : a < n => Quiet(a)'
        BY <3>3 DEF Quiet
      <4> QED
        BY <1>7, <1>8, <3>2, <4>1 DEF Earned
    <3>4. CASE \E p \in Retries \ {r} : retries[p].consumed /\ retries[p].ref = f
      <4>1. \E p \in Retries \ {q} : retries'[p].consumed /\ retries'[p].ref = f
        BY <1>8, <3>4
      <4> QED
        BY <1>7, <1>8, <3>2, <4>1 DEF Earned
    <3> QED
      BY <3>1, <3>3, <3>4 DEF Earned
  <2> QED
    BY <2>1, <2>2, <2>3 DEF CardInv
<1> QED
  BY <1>11, <1>12 DEF CardInv

(* The steps of the runs but the beginning of a write. *)
LEMMA CardRuns ==
  ASSUME IInv, CardInv, NEW e \in Execs, Reading(e) \/ Ready(e) \/ HangUp(e) \/ Persist(e) \/ Die(e)
  PROVE  CardInv'
<1>1. UNCHANGED <<ledger, wb, retries>> /\ GrantKept
  <2>1. CASE Reading(e)
    BY <2>1, ReadingKeeps DEF Reading, Read
  <2>2. CASE Ready(e)
    BY <2>2, ReadyKeeps DEF Ready
  <2>3. CASE HangUp(e) \/ Die(e)
    BY <2>3 DEF HangUp, Die, GrantKept
  <2>4. CASE Persist(e)
    BY <2>4, PersistKeeps DEF Persist
  <2> QED
    BY <2>1, <2>2, <2>3, <2>4
<1>2. check'.current => check' = check /\ FailedAt' = FailedAt
  <2>1. ~Overtaken.current
    BY OutdatedFacts DEF IInv
  <2>2. check' = Overtaken \/ UNCHANGED <<job, check>>
    BY DEF Reading, Read, Ready, HangUp, Die, Persist
  <2> QED
    BY <2>1, <2>2 DEF FailedAt
<1> QED
  BY <1>1, <1>2, CardStays DEF UsesStay

(* The steps of the operator and of the retry worker. *)
LEMMA CardRetries ==
  ASSUME IInv, CardInv, NEW r \in Retries, Ask(r) \/ Worker(r) \/ AgeProof(r)
  PROVE  CardInv'
<1>1. ASSUME UsesStay, UNCHANGED <<job, ledger, wb>>, check' \in {check, NoCheck}
      PROVE  CardInv'
  <2>1. check'.current => check' = check /\ FailedAt' = FailedAt
    BY <1>1, NoCheckFacts DEF FailedAt
  <2> QED
    BY <1>1, <2>1, CardStays DEF GrantKept
<1>2. CASE Ask(r)
  BY <1>1, <1>2, StatusMoved DEF Ask
<1>3. CASE AgeProof(r)
  <2> DEFINE x == [retries[r] EXCEPT !.age = retries[r].age + 1]
  <2>1. x.consumed = retries[r].consumed /\ x.ref = retries[r].ref /\ retries' = [retries EXCEPT ![r] = x]
    BY <1>3 DEF AgeProof, IInv, Types, RetryRows
  <2> HIDE DEF x
  <2>2. UsesStay
    BY <2>1, UsesMoved
  <2> QED
    BY <1>1, <1>3, <2>2 DEF AgeProof
<1>4. CASE Inspect(r)
  BY <1>4, CardInspects
<1>5. ASSUME Ends(r), UNCHANGED <<ledger, wb>>, check' \in {check, NoCheck}
      PROVE  CardInv'
  BY <1>1, <1>5, StatusMoved DEF Ends
<1>6. CASE Decide(r)
  <2>1. /\ check.of = r /\ check' = NoCheck /\ UNCHANGED <<ledger, wb>>
        /\ UNCHANGED <<job, execs, retries>> \/ Ends(r) \/ Grants(r)
    BY <1>6, DecideCases
  <2>2. CASE UNCHANGED <<job, execs, retries>>
    BY <1>1, <2>1, <2>2 DEF UsesStay
  <2> QED
    BY <1>5, <2>1, <2>2, CardGrants
<1>7. CASE Watch(r)
  <2>1. check' \in {check, NoCheck} /\ UNCHANGED <<ledger, wb>>
    BY <1>7 DEF Watch
  <2>2. CASE retries[r].st = "RUNNING" /\ RefreshUnconsumed(r)
    <3>1. UsesStay
      BY <2>2, StatusMoved DEF RefreshUnconsumed
    <3>2. GrantKept
      BY <2>2 DEF RefreshUnconsumed, GrantKept, IInv, Types, Jobs
    <3>3. ~check'.current
      <4>1. check.of # None => check.of \in Retries
        BY DEF IInv, Types, Checks
      <4>2. check.of \in {None, r}
        BY <2>2, <4>1 DEF IInv, CheckShape, RetryShape, Active
      <4>3. check.of # r
        BY <2>2, Constants DEF IInv, CheckShape
      <4> QED
        BY <2>1, <4>2, <4>3, NoCheckFacts DEF IInv, CheckShape
    <3> QED
      BY <2>1, <3>1, <3>2, <3>3, CardStays
  <2>3. CASE \E s \in {"SUCCEEDED", "FAILED", "BLOCKED"} : Settle(r, s)
    <3>1. Ends(r)
      BY <2>3 DEF Settle, Ends
    <3> QED
      BY <1>5, <2>1, <3>1
  <2> QED
    BY <1>7, <2>2, <2>3 DEF Watch
<1> QED
  BY <1>2, <1>3, <1>4, <1>6, <1>7 DEF Worker

LEMMA CardNext ==
  ASSUME IInv, CardInv, [Next]_vars
  PROVE  CardInv'
<1>1. ASSUME NEW e \in Execs,
             Reading(e) \/ Ready(e) \/ Begin(e) \/ HangUp(e) \/ Persist(e) \/ Die(e)
      PROVE  CardInv'
  BY <1>1, CardRuns, CardBegins
<1>2. ASSUME NEW a \in Attempts, NEW res \in Outcomes, Complete(a, res)
      PROVE  CardInv'
  BY <1>2, CompleteSettles, SettledStand, CardStands DEF Complete
<1>3. ASSUME NEW a \in Attempts, Resolve(a) \/ RowOld(a)
      PROVE  CardInv'
  BY <1>3, ResolveAges, RowOldAges, AgedStand, CardStands DEF RowsAge
<1>4. ASSUME NEW r \in Retries, Ask(r) \/ Worker(r) \/ AgeProof(r)
      PROVE  CardInv'
  BY <1>4, CardRetries
<1>5. CASE Lapse \/ RecOld \/ Day \/ GuardExpires
  <2>1. RowMarked
    BY <1>5, TimeMarks
  <2> QED
    BY <2>1, CardStays DEF RowMarked, UsesStay, GrantKept, FailedAt
<1>6. CASE Crash
  BY <1>6, CrashSettles, SettledStand, CardStands DEF Crash
<1>7. CASE UNCHANGED vars
  BY <1>7, CardStays DEF vars, UsesStay, GrantKept, FailedAt
<1> QED
  BY <1>1, <1>2, <1>3, <1>4, <1>5, <1>6, <1>7 DEF Next, Gateway

LEMMA CardInit == Init => CardInv
<1> SUFFICES ASSUME Init PROVE CardInv
  OBVIOUS
<1>1. \A a \in Attempts : ledger[a].res = "none"
  BY DEF Init
<1>2. ~check.current /\ ~job.manual.ok
  BY NoCheckFacts DEF Init
<1> QED
  BY <1>1, <1>2 DEF CardInv, Passed, Planned, Granted

(* Whatever runs, crashes, lost answers and retries do, and however many     *)
(* retries there are, attempts follow one another, none reaches Wildberries  *)
(* twice, and two of them become cards only where one failure was granted to *)
(* two retries.                                                              *)
THEOREM CardsFollowGrants == Spec => []SecondCardNeedsTwoGrants
<1>1. Init => IInv /\ CardInv
  BY InitHolds, CardInit
<1>2. IInv /\ CardInv /\ [Next]_vars => IInv' /\ CardInv'
  BY NextKeeps, CardNext
<1>3. IInv /\ CardInv => SecondCardNeedsTwoGrants
  <2> SUFFICES ASSUME IInv, CardInv PROVE SecondCardNeedsTwoGrants
    OBVIOUS
  <2>1. AttemptsInOrder /\ \A a \in Attempts : wb[a] # "double"
    BY DEF IInv, LedgerInv
  <2>2. ASSUME NEW a \in Attempts, NEW b \in Attempts, a < b,
               {wb[a], wb[b]} \subseteq {"pending", "created"}, ~GrantedTwice
        PROVE  FALSE
    <3>1. wb[a] \in {"pending", "created"} /\ wb[b] \in {"pending", "created"}
      BY <2>2
    <3>2. ledger[b].res # "none"
      BY <3>1 DEF IInv, LedgerInv
    <3> QED
      BY <2>2, <3>1, <3>2 DEF CardInv, Passed, Quiet
  <2>3. \A a, b \in Attempts :
          {wb[a], wb[b]} \subseteq {"pending", "created"} /\ a # b => GrantedTwice
    <3> SUFFICES ASSUME NEW a \in Attempts, NEW b \in Attempts, a # b,
                        {wb[a], wb[b]} \subseteq {"pending", "created"}, ~GrantedTwice
                 PROVE  FALSE
      OBVIOUS
    <3>1. a < b \/ b < a
      BY JobFields
    <3> QED
      BY <2>2, <3>1
  <2> QED
    BY <2>1, <2>3 DEF SecondCardNeedsTwoGrants
<1> QED
  BY <1>1, <1>2, <1>3, PTL DEF Spec
=============================================================================
