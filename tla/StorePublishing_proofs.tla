---------------------- MODULE StorePublishing_proofs ----------------------
(***************************************************************************)
(* Proofs about the stores that publish from one shared draft, for every   *)
(* finite set of stores, any number of workers and of upsets.              *)
(***************************************************************************)
EXTENDS StorePublishing, FiniteSetTheorems, TLAPS

\* A draft says truly that its version is whole: only a worker whose copy is
\* fresh reserves one, and then the media are assigned.
DraftInv ==
  /\ draft.st = "GENERATED" => draft.gen.whole
  /\ \A w \in Worker :
       /\ At(w, "generate") => work[w].src.whole
       /\ At(w, "reserve") /\ work[w].fresh => draft.media = "assigned"
       /\ work[w].pc \in {"rebuild", "look", "scan", "assign", "reserve"} => draft.st # "none"
  /\ FrozenForItsStore

Past == {"link", "dispatch"}
Sending == {"dispatch", "found", "doubt", "package", "send", "sent"}
Told == {"QUEUED", "SUCCEEDED", "FAILED"}

\* What the rows and the workers know of a publication and its task.
TaskInv ==
  /\ \A s \in Store :
       /\ Frozen(s) => pub[s].st # "none"
       /\ net[s].req => job[s].linked
       /\ pub[s].st \in Told => net[s].task # "none"
       /\ pub[s].st = "SUCCEEDED" => net[s].task = "SUCCEEDED"
       /\ job[s].known => net[s].task # "none"
  /\ \A w \in Worker : Of(w) # None =>
       /\ work[w].pc \in Sending => job[Of(w)].linked
       /\ work[w].pc \in Past /\ work[w].st \in Told => net[Of(w)].task # "none"
       /\ At(w, "found") => net[Of(w)].task # "none"
  /\ OneTaskPerRun

---------------------------------------------------------------------------
(* What a step may do to the rows of the jobs. *)

JobMoves ==
  /\ job' \in [Store -> Jobs]
  /\ \A r \in Store :
       /\ job'[r].preset = job[r].preset
       /\ job[r].linked => job'[r].linked
       /\ job'[r].known => job[r].known \/ net[r].task # "none"
       /\ job'[r].st = "SUCCEEDED" => job[r].st = "SUCCEEDED" \/ net[r].task = "SUCCEEDED"
       /\ job'[r].st = "QUEUED" => job[r].st = "QUEUED" \/ net[r].task # "none"

(* Writing the fields of a job. *)
LEMMA JobFields ==
  ASSUME NEW j \in Jobs
  PROVE  /\ j.st \in States
         /\ \A st \in States : /\ [j EXCEPT !.st = st] \in Jobs
                               /\ [j EXCEPT !.st = st].st = st
                               /\ [j EXCEPT !.st = st].preset = j.preset
                               /\ [j EXCEPT !.st = st].linked = j.linked
                               /\ [j EXCEPT !.st = st].known = j.known
         /\ /\ [j EXCEPT !.linked = TRUE] \in Jobs
            /\ [j EXCEPT !.linked = TRUE].linked
            /\ [j EXCEPT !.linked = TRUE].st = j.st
            /\ [j EXCEPT !.linked = TRUE].preset = j.preset
            /\ [j EXCEPT !.linked = TRUE].known = j.known
         /\ /\ [j EXCEPT !.known = TRUE] \in Jobs
            /\ [j EXCEPT !.known = TRUE].known
            /\ [j EXCEPT !.known = TRUE].st = j.st
            /\ [j EXCEPT !.known = TRUE].preset = j.preset
            /\ [j EXCEPT !.known = TRUE].linked = j.linked
BY DEF Jobs

(* One job is written. *)
LEMMA JobWritten ==
  ASSUME TypeOK, NEW s \in Store, NEW j \in Jobs, job' = [job EXCEPT ![s] = j],
         j.preset = job[s].preset, job[s].linked => j.linked,
         j.known => job[s].known \/ net[s].task # "none",
         j.st = "SUCCEEDED" => job[s].st = "SUCCEEDED" \/ net[s].task = "SUCCEEDED",
         j.st = "QUEUED" => job[s].st = "QUEUED" \/ net[s].task # "none"
  PROVE  JobMoves
BY DEF TypeOK, JobMoves

(* An error moves a job without saying that it is submitted. *)
LEMMA JobMoved ==
  ASSUME TypeOK, NEW s \in Store, NEW st \in States \ {"SUCCEEDED", "QUEUED"},
         job' \in {job, Moved(s, st), [job EXCEPT ![s].st = st]}
  PROVE  JobMoves
<1>1. job[s] \in Jobs /\ job \in [Store -> Jobs]
  BY DEF TypeOK
<1>2. CASE job' = job
  BY <1>1, <1>2 DEF JobMoves
<1>3. CASE job' = [job EXCEPT ![s].st = st]
  <2> DEFINE j == [job[s] EXCEPT !.st = st]
  <2>1. job' = [job EXCEPT ![s] = j]
    BY <1>3
  <2>2. j \in Jobs /\ j.st = st /\ j.preset = job[s].preset /\ j.linked = job[s].linked /\ j.known = job[s].known
    BY ZenonT(60), <1>1, JobFields
  <2> HIDE DEF j
  <2> QED
    BY <2>1, <2>2, JobWritten
<1> QED
  BY <1>2, <1>3 DEF Moved

(* A worker at work has a job. *)
LEMMA AtWork ==
  ASSUME TypeOK, NEW w \in Worker, work[w].pc # "idle"
  PROVE  Of(w) \in Store /\ work[w] \in Progress
BY DEF TypeOK, Progress, Of

(* Only a worker that is somewhere takes a step. *)
LEMMA Busy ==
  ASSUME NEW w \in Worker, Step(w) \/ FailGeneration(w)
  PROVE  work[w].pc # "idle"
BY DEF Step, FailGeneration, At, Begin, Turn, Fence, Fenced, Create, Rebuild, Look, Scan, Assign,
   Reserve, Complete, Vouch, Freeze, Link, Dispatch, Found, Doubt, Package, Send, Answer, Ready

(* The statuses that rows and tasks have. *)
LEMMA StatusFacts ==
  /\ \A s \in Store : TypeOK => /\ net[s].task \in {"none", "QUEUED", "SUCCEEDED", "FAILED", "BLOCKED"}
                               /\ pub[s].st \in Statuses /\ pub[s].n \in Nat
  /\ \A task \in {"QUEUED", "SUCCEEDED", "FAILED", "BLOCKED"} :
       Mapped(task) \in Told \union {"NEEDS_ATTENTION"}
BY DEF TypeOK, Requests, Publications, Mapped, Told

(* The status a synchronisation writes says what the task says. *)
LEMMA SyncedFacts ==
  ASSUME TypeOK, TaskInv, NEW s \in Store
  PROVE  /\ Synced(s) \in Statuses
         /\ Frozen(s) \/ net[s].task # "none" => Synced(s) # "none"
         /\ Synced(s) \in Told => net[s].task # "none"
         /\ Synced(s) = "SUCCEEDED" => net[s].task = "SUCCEEDED"
         /\ Synced(s) \in {"PLANNED", "DISPATCHING"} => net[s].task = "none"
<1>1. Told \union {"NEEDS_ATTENTION"} \subseteq Statuses
  BY DEF Told, Statuses, Unsent
<1>2. CASE net[s].task = "none"
  BY <1>1, <1>2, StatusFacts DEF Synced, TaskInv
<1>3. CASE net[s].task # "none"
  <2>1. Synced(s) = Mapped(net[s].task)
    BY <1>3 DEF Synced
  <2>2. Synced(s) \in Told \union {"NEEDS_ATTENTION"}
    BY <1>3, <2>1, StatusFacts
  <2>3. Synced(s) = "SUCCEEDED" => net[s].task = "SUCCEEDED"
    BY <2>1 DEF Mapped
  <2> QED
    BY <1>1, <1>3, <2>2, <2>3 DEF Told
<1> QED
  BY <1>2, <1>3

(* Every step moves the jobs so. *)
LEMMA JobStep == TypeOK /\ TaskInv /\ [Next]_vars => JobMoves
<1> SUFFICES ASSUME TypeOK, TaskInv, [Next]_vars PROVE JobMoves
  OBVIOUS
<1>0. job \in [Store -> Jobs]
  BY DEF TypeOK
<1>1. CASE UNCHANGED job
  BY <1>0, <1>1 DEF JobMoves
<1>2. ASSUME NEW s \in Store, NEW st \in {"WAITING_GENERATION_TURN", "CANCELLED", "NEEDS_ATTENTION",
                                          "WAITING_NETWORK", "CHECKING", "SUBMITTING"},
             job' \in {job, Moved(s, st), [job EXCEPT ![s].st = st]}
      PROVE  JobMoves
  <2>1. st \in States \ {"SUCCEEDED", "QUEUED"}
    BY DEF States, Claimable, Cancellable, Terminal
  <2> QED
    BY <1>2, <2>1, JobMoved
<1>3. ASSUME NEW w \in Worker, Begin(w) PROVE JobMoves
  <2> DEFINE s == Of(w)
             l == [job[s] EXCEPT !.linked = TRUE]
  <2>1. s \in Store /\ job[s] \in Jobs
    BY <1>0, <1>3, AtWork DEF Begin, At
  <2>2. l \in Jobs /\ l.linked /\ l.preset = job[s].preset /\ l.known = job[s].known /\ l.st = job[s].st
    BY <2>1, JobFields
  <2>3. CASE job' = [job EXCEPT ![s].linked = TRUE]
    <3>1. job' = [job EXCEPT ![s] = l]
      BY <2>3
    <3> QED
      BY <2>1, <2>2, <3>1, JobWritten
  <2>4. CASE job' = [[job EXCEPT ![s].linked = TRUE] EXCEPT ![s].st = "SUBMITTING"]
    <3>1. job' = [job EXCEPT ![s] = [l EXCEPT !.st = "SUBMITTING"]]
      BY <1>0, <2>1, <2>4
    <3>2. "SUBMITTING" \in States
      BY DEF States, Claimable
    <3> QED
      BY <2>1, <2>2, <3>1, <3>2, JobFields, JobWritten
  <2>5. CASE /\ Frozen(s) /\ Synced(s) \notin Unsent
             /\ job' = [[job EXCEPT ![s].linked = TRUE] EXCEPT ![s].st = Synced(s), ![s].known = TRUE]
    <3> DEFINE m == [l EXCEPT !.st = Synced(s)]
               k == [m EXCEPT !.known = TRUE]
    <3>1. job' = [job EXCEPT ![s] = k]
      BY <1>0, <2>1, <2>5
    <3>2. Synced(s) \in Told
      BY <2>1, <2>5, SyncedFacts DEF Statuses, Told
    <3>3. Synced(s) \in States
      BY <3>2 DEF Told, States, Cancellable, Terminal
    <3>4. net[s].task # "none" /\ (Synced(s) = "SUCCEEDED" => net[s].task = "SUCCEEDED")
      BY <2>1, <3>2, SyncedFacts
    <3>5. m \in Jobs /\ m.st = Synced(s) /\ m.preset = job[s].preset /\ m.linked
      BY <2>2, <3>3, JobFields
    <3>6. k \in Jobs /\ k.st = Synced(s) /\ k.preset = job[s].preset /\ k.linked
      BY <3>5, JobFields
    <3> HIDE DEF k
    <3> QED
      BY <2>1, <3>1, <3>4, <3>6, JobWritten
  <2> QED
    BY <1>1, <1>3, <2>3, <2>4, <2>5 DEF Begin
<1>4. ASSUME NEW w \in Worker, Of(w) \in Store, NEW st \in {"WAITING_GENERATION_TURN", "CANCELLED",
                                          "NEEDS_ATTENTION", "WAITING_NETWORK"}, Exit(w, st)
      PROVE  JobMoves
  BY <1>2, <1>4 DEF Exit
<1>5. ASSUME NEW w \in Worker, work[w].pc # "idle",
             Turn(w) \/ Fence(w) \/ Rebuild(w) \/ Look(w) \/ Assign(w) \/ Reserve(w) \/ FailGeneration(w)
               \/ Vouch(w) \/ Freeze(w)
      PROVE  JobMoves
  <2>1. Of(w) \in Store
    BY <1>5, AtWork
  <2>2. CASE Turn(w)
    BY <1>1, <1>2, <1>4, <2>1, <2>2 DEF Turn
  <2>3. CASE Fence(w)
    BY <1>1, <1>2, <1>4, <2>1, <2>3 DEF Fence
  <2>4. CASE Rebuild(w)
    BY <1>1, <1>4, <2>1, <2>4 DEF Rebuild
  <2>5. CASE Look(w)
    BY <1>1, <1>4, <2>1, <2>5 DEF Look
  <2>6. CASE Assign(w)
    BY <1>1, <1>4, <2>1, <2>6 DEF Assign
  <2>7. CASE Reserve(w)
    BY <1>1, <1>4, <2>1, <2>7 DEF Reserve
  <2>8. CASE FailGeneration(w)
    BY <1>1, <1>4, <2>1, <2>8 DEF FailGeneration
  <2>9. CASE Vouch(w)
    BY <1>1, <1>2, <1>4, <2>1, <2>9 DEF Vouch
  <2>10. CASE Freeze(w)
    BY <1>1, <1>4, <2>1, <2>10 DEF Freeze
  <2> QED
    BY <1>5, <2>2, <2>3, <2>4, <2>5, <2>6, <2>7, <2>8, <2>9, <2>10
<1>6. ASSUME NEW w \in Worker, Link(w) PROVE JobMoves
  <2>1. Of(w) \in Store /\ job[Of(w)] \in Jobs
    BY <1>0, <1>6, AtWork DEF Link, At
  <2>2. job' = [job EXCEPT ![Of(w)] = [job[Of(w)] EXCEPT !.linked = TRUE]]
    BY <1>6 DEF Link
  <2> QED
    BY <2>1, <2>2, JobFields, JobWritten
<1>7. ASSUME NEW w \in Worker, Of(w) \in Store, net[Of(w)].task # "none", ExitKnown(w, "QUEUED")
      PROVE  JobMoves
  <2> DEFINE m == [job[Of(w)] EXCEPT !.st = "QUEUED"]
             k == [m EXCEPT !.known = TRUE]
  <2>1. job[Of(w)] \in Jobs /\ "QUEUED" \in States
    BY <1>0, <1>7 DEF States
  <2>2. CASE job' = [job EXCEPT ![Of(w)].st = "QUEUED", ![Of(w)].known = TRUE]
    <3>1. job' = [job EXCEPT ![Of(w)] = k]
      BY <1>0, <1>7, <2>2
    <3>2. m \in Jobs /\ m.st = "QUEUED" /\ m.preset = job[Of(w)].preset /\ m.linked = job[Of(w)].linked
      BY <2>1, JobFields
    <3>3. k \in Jobs /\ k.st = "QUEUED" /\ k.preset = job[Of(w)].preset /\ k.linked = job[Of(w)].linked
      BY <3>2, JobFields
    <3> HIDE DEF k
    <3> QED
      BY <1>7, <3>1, <3>3, JobWritten
  <2> QED
    BY <1>1, <1>7, <2>2 DEF ExitKnown
<1>8. ASSUME NEW w \in Worker, Of(w) \in Store,
             (Queued(w) /\ net[Of(w)].task # "none") \/ Unknown(w) \/ Refused(w)
      PROVE  JobMoves
  <2>1. CASE Queued(w)
    BY <1>4, <1>7, <1>8, <2>1 DEF Queued, Unknown, Refused
  <2>2. CASE Unknown(w)
    BY <1>4, <1>8, <2>2 DEF Unknown
  <2>3. CASE Refused(w)
    BY <1>4, <1>8, <2>3 DEF Refused
  <2> QED
    BY <1>8, <2>1, <2>2, <2>3
<1>9. ASSUME NEW w \in Worker, work[w].pc # "idle",
             Dispatch(w) \/ Found(w) \/ Doubt(w) \/ Package(w) \/ Answer(w)
      PROVE  JobMoves
  <2>1. Of(w) \in Store /\ Of(w) # None
    BY <1>9, AtWork, StoreAssumption
  <2>2. CASE Dispatch(w)
    <3>1. work[w].st \in {"QUEUED", "SUCCEEDED"} => net[Of(w)].task # "none"
      BY <2>1, <2>2 DEF Dispatch, At, TaskInv, Past, Told
    <3> QED
      BY <1>1, <1>4, <1>7, <2>1, <2>2, <3>1 DEF Dispatch
  <2>3. CASE Found(w)
    <3>1. net[Of(w)].task # "none"
      BY <2>1, <2>3 DEF Found, TaskInv
    <3> QED
      BY <1>1, <1>4, <1>8, <2>1, <2>3, <3>1 DEF Found
  <2>4. CASE Doubt(w)
    BY <1>4, <1>8, <2>1, <2>4 DEF Doubt
  <2>5. CASE Package(w)
    BY <1>1, <1>4, <1>8, <2>1, <2>5 DEF Package
  <2>6. CASE Answer(w)
    BY <1>8, <2>1, <2>6 DEF Answer
  <2> QED
    BY <1>9, <2>2, <2>3, <2>4, <2>5, <2>6
<1>10. ASSUME NEW s \in Store, Sync(s) PROVE JobMoves
  <2> DEFINE target == IF Synced(s) \in {"PLANNED", "DISPATCHING"} THEN "QUEUED" ELSE Synced(s)
             j == [job[s] EXCEPT !.st = target]
  <2>1. job[s] \in Jobs /\ job' = [job EXCEPT ![s] = j]
    BY <1>0, <1>10 DEF Sync
  <2>2. net[s].task # "none"
    BY <1>10 DEF Sync, TaskInv
  <2>3. target = Synced(s) /\ target \in Told \union {"NEEDS_ATTENTION"}
    BY <2>2, SyncedFacts DEF Statuses, Unsent, Told
  <2>4. target = "SUCCEEDED" => net[s].task = "SUCCEEDED"
    BY <2>3, SyncedFacts
  <2>5. target \in States
    BY <2>3 DEF Told, States, Cancellable, Terminal
  <2> HIDE DEF target
  <2>6. j \in Jobs /\ j.st = target /\ j.preset = job[s].preset /\ j.linked = job[s].linked /\ j.known = job[s].known
    BY <2>1, <2>5, JobFields
  <2> HIDE DEF j
  <2> QED
    BY <2>1, <2>2, <2>4, <2>6, JobWritten
<1>11. ASSUME NEW s \in Store, Recheck(s) \/ Cancel(s) PROVE JobMoves
  BY <1>2, <1>11 DEF Recheck, Cancel
<1>12. ASSUME NEW w \in Worker, \/ Create(w) \/ Scan(w) \/ Complete(w) \/ Send(w) \/ Crash(w)
                                \/ \E s \in Store : Claim(w, s)
       PROVE  UNCHANGED job
  BY <1>12 DEF Create, Scan, Complete, Send, Crash, Claim
<1>13. ASSUME NEW s \in Store, Arrive(s) \/ Lose(s) \/ Run(s) PROVE UNCHANGED job
  BY <1>13 DEF Arrive, Lose, Run
<1>14. ASSUME Stall \/ Lapse \/ UNCHANGED vars PROVE UNCHANGED job
  BY <1>14 DEF Stall, Lapse, vars
<1> QED
  BY <1>1, <1>3, <1>5, <1>6, <1>9, <1>10, <1>11, <1>12, <1>13, <1>14, Busy DEF Next, Step

---------------------------------------------------------------------------
(* What a step may do to the requests and to the publications. *)

NetMoves ==
  /\ net' \in [Store -> Requests]
  /\ \A r \in Store :
       /\ net'[r].req => net[r].req \/ job[r].linked
       /\ net[r].task # "none" => net'[r].task # "none"
       /\ net'[r].task # "none" => net[r].task # "none" \/ net[r].req
       /\ net[r].task = "SUCCEEDED" => net'[r].task = "SUCCEEDED"

(* Every step moves the requests and the tasks so. *)
LEMMA NetStep == TypeOK /\ TaskInv /\ [Next]_vars => NetMoves
<1> SUFFICES ASSUME TypeOK, TaskInv, [Next]_vars PROVE NetMoves
  OBVIOUS
<1>0. net \in [Store -> Requests]
  BY DEF TypeOK
<1>1. CASE UNCHANGED net
  BY <1>0, <1>1 DEF NetMoves
<1>2. ASSUME NEW s \in Store, NEW r \in Requests, net' = [net EXCEPT ![s] = r],
             r.req => net[s].req \/ job[s].linked,
             net[s].task # "none" => r.task # "none",
             r.task # "none" => net[s].task # "none" \/ net[s].req,
             net[s].task = "SUCCEEDED" => r.task = "SUCCEEDED"
      PROVE  NetMoves
  BY <1>0, <1>2 DEF NetMoves
<1>3. ASSUME NEW s \in Store
      PROVE  /\ [net[s] EXCEPT !.req = TRUE] \in Requests
             /\ [net[s] EXCEPT !.req = TRUE].task = net[s].task
             /\ [net[s] EXCEPT !.req = FALSE] \in Requests
             /\ [net[s] EXCEPT !.req = FALSE].task = net[s].task
             /\ ~[net[s] EXCEPT !.req = FALSE].req
  BY <1>0, <1>3 DEF Requests
<1>4. ASSUME NEW w \in Worker, Send(w) PROVE NetMoves
  <2>1. Of(w) \in Store /\ job[Of(w)].linked
    BY <1>4, AtWork, StoreAssumption DEF Send, At, TaskInv, Sending
  <2>2. net' = [net EXCEPT ![Of(w)] = [net[Of(w)] EXCEPT !.req = TRUE]]
    BY <1>4 DEF Send
  <2> QED
    BY <1>2, <1>3, <2>1, <2>2
<1>5. ASSUME NEW s \in Store, net' = [net EXCEPT ![s].req = FALSE] PROVE NetMoves
  <2>1. net' = [net EXCEPT ![s] = [net[s] EXCEPT !.req = FALSE]]
    BY <1>5
  <2> QED
    BY <1>2, <1>3, <2>1
<1>6. ASSUME NEW w \in Worker, Answer(w) PROVE NetMoves
  BY <1>1, <1>5, <1>6, AtWork DEF Answer, At
<1>7. ASSUME NEW s \in Store, Arrive(s) PROVE NetMoves
  <2>1. PICK r \in Requests : /\ net' = [net EXCEPT ![s] = r]
                              /\ ~r.req
                              /\ r.task = IF net[s].task = "none" THEN "QUEUED" ELSE net[s].task
    <3>1. [req |-> FALSE, task |-> IF net[s].task = "none" THEN "QUEUED" ELSE net[s].task] \in Requests
      BY <1>0 DEF Requests
    <3> QED
      BY <1>0, <1>7, <3>1 DEF Arrive
  <2> QED
    BY <1>2, <1>7, <2>1 DEF Arrive
<1>8. ASSUME NEW s \in Store, Run(s) PROVE NetMoves
  <2>1. PICK task \in {"SUCCEEDED", "FAILED", "BLOCKED"} : net' = [net EXCEPT ![s].task = task]
    BY <1>8 DEF Run
  <2>2. /\ net' = [net EXCEPT ![s] = [net[s] EXCEPT !.task = task]]
        /\ [net[s] EXCEPT !.task = task] \in Requests
        /\ [net[s] EXCEPT !.task = task].req = net[s].req
        /\ [net[s] EXCEPT !.task = task].task = task
    BY <1>0, <2>1 DEF Requests
  <2> QED
    BY <1>2, <1>8, <2>2 DEF Run
<1>9. ASSUME NEW s \in Store, Lose(s) PROVE NetMoves
  BY <1>5, <1>9 DEF Lose
<1>10. ASSUME NEW w \in Worker,
              \/ Begin(w) \/ Turn(w) \/ Fence(w) \/ Create(w) \/ Rebuild(w)
              \/ Look(w) \/ Scan(w) \/ Assign(w) \/ Reserve(w) \/ Complete(w) \/ Vouch(w) \/ Freeze(w)
       PROVE  UNCHANGED net
  BY <1>10 DEF Begin, Turn, Fence, Create, Rebuild, Look, Scan, Assign, Reserve, Complete, Vouch, Freeze
<1>11. ASSUME NEW w \in Worker,
              \/ Link(w) \/ Dispatch(w) \/ Found(w) \/ Doubt(w) \/ Package(w)
              \/ FailGeneration(w) \/ Crash(w) \/ \E s \in Store : Claim(w, s)
       PROVE  UNCHANGED net
  BY <1>11 DEF Link, Dispatch, Found, Doubt, Package, FailGeneration, Crash, Claim
<1>12. ASSUME NEW s \in Store, Sync(s) \/ Recheck(s) \/ Cancel(s) PROVE UNCHANGED net
  BY <1>12 DEF Sync, Recheck, Cancel
<1>13. ASSUME Stall \/ Lapse \/ UNCHANGED vars PROVE UNCHANGED net
  BY <1>13 DEF Stall, Lapse, vars
<1> QED
  BY <1>1, <1>4, <1>6, <1>7, <1>8, <1>9, <1>10, <1>11, <1>12, <1>13 DEF Next, Step

PubMoves ==
  /\ pub' \in [Store -> Publications]
  /\ \A r \in Store :
       /\ \/ pub'[r].n = pub[r].n /\ pub'[r].src = pub[r].src
          \/ /\ ~Frozen(r) /\ pub'[r].n = 1 /\ pub'[r].st # "none"
             /\ pub'[r].src.preset = job[r].preset /\ pub'[r].src.whole
       /\ pub'[r].st = pub[r].st \/ pub'[r].st # "none"
       /\ pub'[r].st \in Told => pub[r].st \in Told \/ net'[r].task # "none"
       /\ pub'[r].st = "SUCCEEDED" => pub[r].st = "SUCCEEDED" \/ net'[r].task = "SUCCEEDED"

(* The status of one publication is written. *)
LEMMA PubWritten ==
  ASSUME TypeOK, NEW s \in Store, NEW st \in Statuses \ {"none"}, PubAt(s, st),
         st \in Told => net'[s].task # "none", st = "SUCCEEDED" => net'[s].task = "SUCCEEDED"
  PROVE  PubMoves
<1>1. pub \in [Store -> Publications] /\ pub[s] \in Publications
  BY DEF TypeOK
<1> DEFINE p == [pub[s] EXCEPT !.st = st]
<1>2. p \in Publications /\ p.n = pub[s].n /\ p.src = pub[s].src /\ p.st = st
  BY <1>1 DEF Publications
<1>3. pub' = [pub EXCEPT ![s] = p]
  BY DEF PubAt
<1> HIDE DEF p
<1> QED
  BY <1>1, <1>2, <1>3 DEF PubMoves

(* Every step moves the publications so. *)
LEMMA PubStep == TypeOK /\ DraftInv /\ TaskInv /\ [Next]_vars => PubMoves
<1> SUFFICES ASSUME TypeOK, DraftInv, TaskInv, [Next]_vars PROVE PubMoves
  OBVIOUS
<1>0. pub \in [Store -> Publications] /\ net \in [Store -> Requests]
  BY DEF TypeOK
<1>1. CASE UNCHANGED pub
  BY <1>0, <1>1 DEF PubMoves
<1>2. "DISPATCHING" \in Statuses \ {"none"} /\ "NEEDS_ATTENTION" \in Statuses \ {"none"}
      /\ {"DISPATCHING", "NEEDS_ATTENTION"} \intersect Told = {} /\ Told \subseteq Statuses \ {"none"}
  BY DEF Statuses, Unsent, Told
<1>3. ASSUME NEW s \in Store, PubAt(s, Synced(s)), Frozen(s) \/ net[s].task # "none", UNCHANGED net
      PROVE  PubMoves
  BY <1>3, SyncedFacts, PubWritten
<1>4. ASSUME NEW s \in Store, PubAt(s, "DISPATCHING") \/ PubAt(s, "NEEDS_ATTENTION")
      PROVE  PubMoves
  BY <1>2, <1>4, PubWritten
<1>5. ASSUME NEW w \in Worker, Begin(w) PROVE PubMoves
  <2>1. Of(w) \in Store
    BY <1>5, AtWork DEF Begin, At
  <2> QED
    BY <1>1, <1>3, <1>5, <2>1 DEF Begin, PubAt
<1>6. ASSUME NEW w \in Worker, Freeze(w) PROVE PubMoves
  <2> DEFINE s == Of(w)
  <2>1. s \in Store /\ work[w] \in Progress
    BY <1>6, AtWork DEF Freeze, At
  <2>2. CASE ~Frozen(s) /\ Current(s, work[w].src) /\ pub' = Planned(w)
    <3> DEFINE p == [n |-> pub[s].n + 1, st |-> "PLANNED", src |-> work[w].src]
    <3>1. pub' = [pub EXCEPT ![s] = p]
      BY <2>2 DEF Planned
    <3>2. pub[s].n = 0 /\ work[w].src \in Versions
      BY <2>1, <2>2, StatusFacts DEF Frozen, Progress
    <3>3. p \in Publications /\ p.n = 1 /\ p.st = "PLANNED" /\ p.src = work[w].src
      BY <3>2 DEF Publications, Statuses, Unsent
    <3>4. work[w].src.preset = job[s].preset /\ work[w].src.whole
      BY <2>2 DEF Current, Vouched, DraftInv
    <3> HIDE DEF p
    <3> QED
      BY <1>0, <2>1, <2>2, <3>1, <3>3, <3>4 DEF PubMoves, Told
  <2> QED
    BY <1>1, <1>6, <2>2 DEF Freeze
<1>7. ASSUME NEW w \in Worker, Of(w) \in Store, UNCHANGED net, Queued(w), net[Of(w)].task # "none" PROVE PubMoves
  <2>1. CASE PubAt(Of(w), "QUEUED")
    <3>1. "QUEUED" \in Statuses \ {"none"}
      BY DEF Statuses
    <3> QED
      BY <1>7, <2>1, <3>1, PubWritten
  <2> QED
    BY <1>1, <1>7, <2>1 DEF Queued
<1>8. ASSUME NEW w \in Worker, work[w].pc # "idle", Found(w) \/ Doubt(w) \/ Package(w) \/ Answer(w)
      PROVE  PubMoves
  <2>1. Of(w) \in Store /\ Of(w) # None
    BY <1>8, AtWork, StoreAssumption
  <2>2. CASE Found(w)
    <3>1. net[Of(w)].task # "none"
      BY <2>1, <2>2 DEF Found, TaskInv
    <3> QED
      BY <1>1, <1>4, <1>7, <2>1, <2>2, <3>1 DEF Found
  <2>3. CASE Doubt(w)
    BY <1>1, <2>3 DEF Doubt, Unknown
  <2>4. CASE Package(w)
    BY <1>1, <1>4, <2>1, <2>4 DEF Package, Refused
  <2>5. CASE Answer(w)
    BY <1>1, <1>4, <1>7, <2>1, <2>5 DEF Answer, Unknown, Refused
  <2> QED
    BY <1>8, <2>2, <2>3, <2>4, <2>5
<1>9. ASSUME NEW s \in Store, Run(s) PROVE PubMoves
  <2>1. PICK task \in {"SUCCEEDED", "FAILED", "BLOCKED"} :
               net' = [net EXCEPT ![s].task = task] /\ PubAt(s, Mapped(task))
    BY <1>9 DEF Run
  <2>2. net'[s].task = task
    BY <1>0, <2>1 DEF Requests
  <2>3. /\ Mapped(task) \in Statuses \ {"none"}
        /\ Mapped(task) = "SUCCEEDED" => task = "SUCCEEDED"
    BY <1>2, StatusFacts DEF Mapped, Told
  <2> QED
    BY <2>1, <2>2, <2>3, PubWritten
<1>10. ASSUME NEW s \in Store, Sync(s) PROVE PubMoves
  BY <1>3, <1>10 DEF Sync, TaskInv
<1>11. ASSUME NEW w \in Worker,
              \/ Turn(w) \/ Fence(w) \/ Create(w) \/ Rebuild(w)
              \/ Look(w) \/ Scan(w) \/ Assign(w) \/ Reserve(w) \/ Complete(w) \/ Vouch(w)
       PROVE  UNCHANGED pub
  BY <1>11 DEF Turn, Fence, Create, Rebuild, Look, Scan, Assign, Reserve, Complete, Vouch
<1>12. ASSUME NEW w \in Worker,
              \/ Link(w) \/ Dispatch(w) \/ Send(w)
              \/ FailGeneration(w) \/ Crash(w) \/ \E s \in Store : Claim(w, s)
       PROVE  UNCHANGED pub
  BY <1>12 DEF Link, Dispatch, Send, FailGeneration, Crash, Claim
<1>13. ASSUME NEW s \in Store, Arrive(s) \/ Lose(s) \/ Recheck(s) \/ Cancel(s) PROVE UNCHANGED pub
  BY <1>13 DEF Arrive, Lose, Recheck, Cancel
<1>14. ASSUME Stall \/ Lapse \/ UNCHANGED vars PROVE UNCHANGED pub
  BY <1>14 DEF Stall, Lapse, vars
<1> QED
  BY <1>1, <1>5, <1>6, <1>8, <1>9, <1>10, <1>11, <1>12, <1>13, <1>14, Busy DEF Next, Step

---------------------------------------------------------------------------
(* What a step may do to the draft. *)

DraftMoves ==
  /\ draft' \in Drafts
  /\ draft.st # "none" => draft'.st # "none"
  /\ draft'.st = "GENERATED" => draft'.gen.whole

(* Nothing is no version, and a draft that is outdated was not generated. *)
LEMMA DraftValues ==
  /\ Nothing \in Versions
  /\ Outdated \in {"DRAFT", "STALE"}
BY DEF Nothing, Versions, Outdated

(* Every step moves the draft so. *)
LEMMA DraftStep == TypeOK /\ DraftInv /\ [Next]_vars => DraftMoves
<1> SUFFICES ASSUME TypeOK, DraftInv, [Next]_vars PROVE DraftMoves
  OBVIOUS
<1>0. draft \in Drafts /\ draft.st \in {"none", "DRAFT", "STALE", "GENERATING", "GENERATED"}
  BY DEF TypeOK, Drafts
<1>1. CASE UNCHANGED draft
  BY <1>0, <1>1 DEF DraftMoves, DraftInv
<1>2. ASSUME NEW w \in Worker, Create(w) PROVE DraftMoves
  <2>1. CASE draft.st = "none"
    <3>1. Of(w) \in Store /\ job[Of(w)] \in Jobs
      BY <1>2, AtWork DEF Create, Ready, At, TypeOK
    <3>2. draft' = [st |-> "DRAFT", owner |-> Of(w), preset |-> job[Of(w)].preset,
                    media |-> "none", gen |-> Nothing]
      BY <1>2, <2>1 DEF Create
    <3> QED
      BY <3>1, <3>2, DraftValues DEF DraftMoves, Drafts, Jobs
  <2> QED
    BY <1>1, <1>2, <2>1 DEF Create
<1>3. ASSUME NEW w \in Worker, Rebuild(w) PROVE DraftMoves
  <2>1. Of(w) \in Store /\ job[Of(w)] \in Jobs
    BY <1>3, AtWork DEF Rebuild, Ready, At, TypeOK
  <2>2. CASE draft' = [draft EXCEPT !.st = "STALE", !.owner = Of(w), !.media = "none",
                                    !.preset = job[Of(w)].preset]
    <3>1. draft' \in Drafts /\ draft'.st = "STALE"
      BY <1>0, <2>1, <2>2 DEF Drafts, Jobs
    <3> QED
      BY <3>1 DEF DraftMoves
  <2> QED
    BY <1>1, <1>3, <2>2 DEF Rebuild
<1>4. ASSUME NEW w \in Worker, Scan(w) PROVE DraftMoves
  <2>1. CASE draft' = [draft EXCEPT !.media = "scanned", !.st = IF draft.gen = Nothing THEN @ ELSE "STALE"]
    <3>1. /\ draft' \in Drafts /\ draft'.gen = draft.gen
          /\ draft'.st \in {draft.st, "STALE"}
      BY <1>0, <2>1 DEF Drafts
    <3> QED
      BY <3>1 DEF DraftMoves, DraftInv
  <2> QED
    BY <1>1, <1>4, <2>1 DEF Scan
<1>5. ASSUME NEW w \in Worker, Assign(w) PROVE DraftMoves
  <2>1. CASE draft' = [draft EXCEPT !.st = Outdated, !.owner = Of(w), !.media = "assigned"]
    <3>1. Of(w) \in Store
      BY <1>5, AtWork DEF Assign, Ready, At
    <3>2. draft' \in Drafts /\ draft'.st \in {"DRAFT", "STALE"}
      BY <1>0, <2>1, <3>1, DraftValues DEF Drafts
    <3> QED
      BY <3>2 DEF DraftMoves
  <2> QED
    BY <1>1, <1>5, <2>1 DEF Assign
<1>6. ASSUME NEW w \in Worker, Reserve(w) PROVE DraftMoves
  <2>1. CASE draft' = [draft EXCEPT !.st = "GENERATING", !.owner = Of(w)]
    <3>1. Of(w) \in Store
      BY <1>6, AtWork DEF Reserve, Ready, At
    <3>2. draft' \in Drafts /\ draft'.st = "GENERATING"
      BY <1>0, <2>1, <3>1 DEF Drafts
    <3> QED
      BY <3>2 DEF DraftMoves
  <2> QED
    BY <1>1, <1>6, <2>1 DEF Reserve
<1>7. ASSUME NEW w \in Worker, Complete(w) PROVE DraftMoves
  <2>1. work[w].src \in Versions /\ work[w].src.whole
    BY <1>7, AtWork DEF Complete, At, Progress, DraftInv
  <2>2. draft' = [draft EXCEPT !.st = "GENERATED", !.gen = work[w].src]
    BY <1>7 DEF Complete
  <2>3. draft' \in Drafts /\ draft'.st = "GENERATED" /\ draft'.gen = work[w].src
    BY <1>0, <2>1, <2>2 DEF Drafts
  <2> QED
    BY <2>1, <2>3 DEF DraftMoves
<1>8. ASSUME NEW w \in Worker, FailGeneration(w) PROVE DraftMoves
  <2>1. draft' = [draft EXCEPT !.st = Outdated]
    BY <1>8 DEF FailGeneration
  <2>2. draft' \in Drafts /\ draft'.st \in {"DRAFT", "STALE"}
    BY <1>0, <2>1, DraftValues DEF Drafts
  <2> QED
    BY <2>2 DEF DraftMoves
<1>9. ASSUME NEW s \in Store, Recheck(s) PROVE DraftMoves
  <2>1. CASE draft' = [draft EXCEPT !.owner = s]
    <3>1. draft' \in Drafts /\ draft'.st = draft.st /\ draft'.gen = draft.gen
      BY SMTT(30), <1>0, <2>1 DEF Drafts
    <3> QED
      BY <3>1 DEF DraftMoves, DraftInv
  <2> QED
    BY <1>1, <1>9, <2>1 DEF Recheck
<1>10. ASSUME NEW w \in Worker,
              \/ Begin(w) \/ Turn(w) \/ Fence(w) \/ Look(w) \/ Vouch(w) \/ Freeze(w)
              \/ Link(w) \/ Dispatch(w) \/ Found(w) \/ Doubt(w) \/ Package(w) \/ Send(w) \/ Answer(w)
       PROVE  UNCHANGED draft
  BY <1>10 DEF Begin, Turn, Fence, Look, Vouch, Freeze, Link, Dispatch, Found, Doubt, Package, Send, Answer
<1>11. ASSUME NEW w \in Worker, Crash(w) \/ \E s \in Store : Claim(w, s) PROVE UNCHANGED draft
  BY <1>11 DEF Crash, Claim
<1>12. ASSUME NEW s \in Store, Arrive(s) \/ Lose(s) \/ Run(s) \/ Sync(s) \/ Cancel(s) PROVE UNCHANGED draft
  BY <1>12 DEF Arrive, Lose, Run, Sync, Cancel
<1>13. ASSUME Stall \/ Lapse \/ UNCHANGED vars PROVE UNCHANGED draft
  BY <1>13 DEF Stall, Lapse, vars
<1> QED
  BY <1>1, <1>2, <1>3, <1>4, <1>5, <1>6, <1>7, <1>8, <1>9, <1>10, <1>11, <1>12, <1>13 DEF Next, Step

---------------------------------------------------------------------------
(* What a step may do to the locks and to the lease. *)

LockMoves ==
  /\ skuLock' \in Worker \union {None} /\ root' \in Worker \union {None}
  /\ lease' \in Leases /\ (lease'.owner = None) = (lease'.tok = 0)
  /\ upsets' \in 0 .. MaxUpsets

(* What the lease may become. *)
LEMMA LeaseValues ==
  ASSUME TypeOK
  PROVE  /\ NoLease \in Leases /\ NoLease.owner = None /\ NoLease.tok = 0
         /\ [lease EXCEPT !.live = FALSE] \in Leases
         /\ [lease EXCEPT !.live = FALSE].owner = lease.owner
         /\ [lease EXCEPT !.live = FALSE].tok = lease.tok
         /\ lease.tok \in Nat
         /\ \A s \in Store, n \in Nat : [owner |-> s, tok |-> n, live |-> TRUE] \in Leases
BY DEF TypeOK, NoLease, Leases

(* Every step moves the locks and the lease so. *)
LEMMA LockStep == TypeOK /\ [Next]_vars => LockMoves
<1> SUFFICES ASSUME TypeOK, [Next]_vars PROVE LockMoves
  OBVIOUS
<1>0. /\ skuLock \in Worker \union {None} /\ root \in Worker \union {None}
      /\ lease \in Leases /\ (lease.owner = None) = (lease.tok = 0)
      /\ upsets \in 0 .. MaxUpsets
  BY DEF TypeOK
<1>1. ASSUME NEW n \in {1, 2}, Upset(n) PROVE upsets' \in 0 .. MaxUpsets
  <2>1. MaxUpsets \in Nat
    BY StoreAssumption
  <2> QED
    BY <1>0, <1>1, <2>1 DEF Upset
<1>2. ASSUME NEW w \in Worker, Leave(w) PROVE skuLock' \in Worker \union {None} /\ lease' \in Leases
                                                /\ (lease'.owner = None) = (lease'.tok = 0)
  BY <1>0, <1>2, LeaseValues DEF Leave, Released
<1>3. ASSUME NEW w \in Worker, NEW st, Exit(w, st) \/ ExitKnown(w, st)
      PROVE  skuLock' \in Worker \union {None} /\ lease' \in Leases /\ (lease'.owner = None) = (lease'.tok = 0)
  BY <1>2, <1>3 DEF Exit, ExitKnown
<1>4. ASSUME NEW w \in Worker, Begin(w) \/ Fence(w) \/ Look(w) \/ Vouch(w) \/ Freeze(w) \/ Rebuild(w)
      PROVE  LockMoves
  <2>1. CASE Begin(w)
    BY <1>0, <1>2, <2>1 DEF Begin, LockMoves
  <2>2. CASE Fence(w)
    BY <1>0, <1>3, <2>2 DEF Fence, LockMoves
  <2>3. CASE Look(w)
    BY <1>0, <1>3, <2>3 DEF Look, LockMoves
  <2>4. CASE Vouch(w)
    BY <1>0, <1>3, <2>4 DEF Vouch, LockMoves
  <2>5. CASE Freeze(w)
    BY <1>0, <1>3, <2>5 DEF Freeze, LockMoves
  <2>6. CASE Rebuild(w)
    BY <1>0, <1>3, <2>6 DEF Rebuild, LockMoves
  <2> QED
    BY <1>4, <2>1, <2>2, <2>3, <2>4, <2>5, <2>6
<1>5. ASSUME NEW w \in Worker, Turn(w) PROVE LockMoves
  <2>1. Of(w) \in Store /\ Of(w) # None
    BY <1>5, AtWork, StoreAssumption DEF Turn, At
  <2>2. CASE \E n \in Nat \ {0} : lease' = [owner |-> Of(w), tok |-> n, live |-> TRUE] /\ UNCHANGED skuLock
    <3>1. PICK n \in Nat \ {0} : lease' = [owner |-> Of(w), tok |-> n, live |-> TRUE]
      BY <2>2
    <3>2. lease' \in Leases /\ lease'.owner # None /\ lease'.tok # 0
      BY <2>1, <3>1, LeaseValues
    <3> QED
      BY <1>0, <1>5, <2>2, <3>2 DEF Turn, LockMoves
  <2>3. CASE Leave(w) \/ Exit(w, "WAITING_GENERATION_TURN")
    BY <1>0, <1>2, <1>3, <1>5, <2>3 DEF Turn, LockMoves
  <2>4. 1 \in Nat \ {0} /\ lease.tok + 1 \in Nat \ {0}
    BY LeaseValues
  <2> QED
    BY <1>5, <2>2, <2>3, <2>4 DEF Turn
<1>6. ASSUME NEW w \in Worker, Create(w) \/ Scan(w) \/ Assign(w) \/ Reserve(w) \/ Complete(w) \/ FailGeneration(w)
      PROVE  LockMoves
  <2>1. CASE Create(w) \/ Scan(w)
    BY <1>0, <2>1 DEF Create, Scan, LockMoves
  <2>2. CASE Assign(w)
    BY <1>0, <1>3, <2>2 DEF Assign, LockMoves
  <2>3. CASE Reserve(w)
    BY <1>0, <1>3, <2>3 DEF Reserve, LockMoves
  <2>4. CASE Complete(w)
    BY <1>0, <2>4 DEF Complete, LockMoves
  <2>5. CASE FailGeneration(w)
    BY <1>0, <1>1, <1>3, <2>5 DEF FailGeneration, LockMoves
  <2> QED
    BY <1>6, <2>1, <2>2, <2>3, <2>4, <2>5
<1>7. ASSUME NEW w \in Worker, Link(w) PROVE LockMoves
  BY <1>0, <1>7, LeaseValues DEF Link, LockMoves, Released
<1>8. ASSUME NEW w \in Worker, Queued(w) \/ Unknown(w) \/ Refused(w)
      PROVE  skuLock' \in Worker \union {None} /\ lease' \in Leases /\ (lease'.owner = None) = (lease'.tok = 0)
  BY <1>3, <1>8 DEF Queued, Unknown, Refused
<1>9. ASSUME NEW w \in Worker, Dispatch(w) \/ Found(w) \/ Doubt(w) \/ Package(w) \/ Send(w) \/ Answer(w)
      PROVE  LockMoves
  <2>1. CASE Dispatch(w)
    BY <1>0, <1>1, <1>3, <2>1 DEF Dispatch, LockMoves
  <2>2. CASE Found(w)
    BY <1>0, <1>3, <1>8, <2>2 DEF Found, LockMoves
  <2>3. CASE Doubt(w)
    BY <1>0, <1>3, <1>8, <2>3 DEF Doubt, LockMoves
  <2>4. CASE Package(w)
    BY <1>0, <1>1, <1>3, <1>8, <2>4 DEF Package, LockMoves
  <2>5. CASE Send(w)
    BY <1>0, <2>5 DEF Send, LockMoves
  <2>6. CASE Answer(w)
    BY <1>0, <1>1, <1>8, <2>6 DEF Answer, LockMoves
  <2> QED
    BY <1>9, <2>1, <2>2, <2>3, <2>4, <2>5, <2>6
<1>10. ASSUME NEW w \in Worker, Crash(w) \/ \E s \in Store : Claim(w, s) PROVE LockMoves
  BY <1>0, <1>1, <1>10 DEF Crash, Claim, LockMoves
<1>11. ASSUME NEW s \in Store, Arrive(s) \/ Lose(s) \/ Run(s) \/ Sync(s) PROVE LockMoves
  BY <1>0, <1>1, <1>11 DEF Arrive, Lose, Run, Sync, LockMoves
<1>12. ASSUME NEW s \in Store, Recheck(s) \/ Cancel(s) PROVE LockMoves
  BY <1>0, <1>1, <1>12 DEF Recheck, Cancel, Act, LockMoves
<1>13. ASSUME Stall \/ Lapse \/ UNCHANGED vars PROVE LockMoves
  BY <1>0, <1>1, <1>13, LeaseValues DEF Stall, Lapse, vars, LockMoves
<1> QED
  BY <1>4, <1>5, <1>6, <1>7, <1>9, <1>10, <1>11, <1>12, <1>13 DEF Next, Step

---------------------------------------------------------------------------
(* What a step may do to the workers. *)

\* What holds of each worker.
Sound(v) ==
  /\ (work[v].pc = "idle") = (Of(v) = None)
  /\ root = v => work[v].pc = "generate"
  /\ Of(v) # None =>
       /\ work[v].pc \in Sending => job[Of(v)].linked
       /\ work[v].pc \in Past /\ work[v].st \in Told => net[Of(v)].task # "none"
       /\ work[v].pc = "found" => net[Of(v)].task # "none"
  /\ work[v].pc = "generate" => work[v].src.whole
  /\ work[v].pc = "reserve" /\ work[v].fresh => draft.media = "assigned"
  /\ work[v].pc \in {"rebuild", "look", "scan", "assign", "reserve"} => draft.st # "none"

WorkMoves == work' \in [Worker -> Progress] /\ \A v \in Worker : Sound(v)'

\* A worker stays where it is.
Same(v) ==
  /\ work'[v].pc = work[v].pc /\ work'[v].of = work[v].of
  /\ work'[v].st = work[v].st /\ work'[v].src = work[v].src
  /\ work'[v].fresh => work[v].fresh

(* Writing the fields of a worker's progress. *)
LEMMA ProgressFields ==
  ASSUME NEW e \in Progress
  PROVE  /\ \A pc \in Places : LET d == [e EXCEPT !.pc = pc]
                               IN  d \in Progress /\ d.pc = pc /\ d.of = e.of /\ d.st = e.st
                                   /\ d.src = e.src /\ d.fresh = e.fresh
         /\ \A b \in BOOLEAN : LET d == [e EXCEPT !.ok = b]
                               IN  d \in Progress /\ d.pc = e.pc /\ d.of = e.of /\ d.st = e.st
                                   /\ d.src = e.src /\ d.fresh = e.fresh
         /\ \A b \in BOOLEAN : LET d == [e EXCEPT !.saw = b]
                               IN  d \in Progress /\ d.pc = e.pc /\ d.of = e.of /\ d.st = e.st
                                   /\ d.src = e.src /\ d.fresh = e.fresh
         /\ \A b \in BOOLEAN : LET d == [e EXCEPT !.fresh = b]
                               IN  d \in Progress /\ d.pc = e.pc /\ d.of = e.of /\ d.st = e.st
                                   /\ d.src = e.src /\ d.fresh = b
         /\ \A n \in Nat : LET d == [e EXCEPT !.tok = n]
                           IN  d \in Progress /\ d.pc = e.pc /\ d.of = e.of /\ d.st = e.st
                               /\ d.src = e.src /\ d.fresh = e.fresh
         /\ \A st \in Statuses : LET d == [e EXCEPT !.st = st]
                                 IN  d \in Progress /\ d.pc = e.pc /\ d.of = e.of /\ d.st = st
                                     /\ d.src = e.src /\ d.fresh = e.fresh
         /\ \A src \in Versions : LET d == [e EXCEPT !.src = src]
                                  IN  d \in Progress /\ d.pc = e.pc /\ d.of = e.of /\ d.st = e.st
                                      /\ d.src = src /\ d.fresh = e.fresh
BY DEF Progress

(* A worker that is done holds nothing. *)
LEMMA IdleFacts == Idle \in Progress /\ Idle.pc = "idle" /\ Idle.of = None
BY DraftValues DEF Idle, Progress, Places, Statuses

(* Going on to another place keeps the rest. *)
LEMMA ThenFacts ==
  ASSUME TypeOK, NEW w \in Worker, NEW pc \in Places
  PROVE  /\ Then(w, pc) \in Progress /\ Then(w, pc).pc = pc /\ Then(w, pc).of = Of(w)
         /\ Then(w, pc).st = work[w].st /\ Then(w, pc).src = work[w].src
         /\ Then(w, pc).fresh = work[w].fresh
<1> DEFINE d == [work[w] EXCEPT !.pc = pc]
<1>1. work[w] \in Progress
  BY DEF TypeOK
<1>2. d \in Progress /\ d.pc = pc /\ d.of = Of(w) /\ d.st = work[w].st
      /\ d.src = work[w].src /\ d.fresh = work[w].fresh
  BY <1>1, ProgressFields DEF Of
<1>3. Then(w, pc) = [d EXCEPT !.ok = FALSE]
  BY DEF Then
<1> HIDE DEF d
<1> QED
  BY <1>2, <1>3 DEF Progress

(* The workers beside the one that moves, and what they are told. *)
LEMMA Bystander ==
  ASSUME TypeOK, DraftInv, TaskInv, JobMoves, NetMoves, DraftMoves, NEW v \in Worker, Same(v),
         root' = v => root = v,
         work'[v].fresh => draft'.media = draft.media \/ draft.st = "none"
  PROVE  Sound(v)'
<1>1. Of(v) # None => Of(v) \in Store
  BY DEF TypeOK, Progress, Of
<1>2. Of(v)' = Of(v)
  BY DEF Same, Of
<1>3. /\ (work'[v].pc = "idle") = (Of(v) = None)
      /\ root' = v => work'[v].pc = "generate"
  BY DEF TypeOK, Same, At
<1>4. Of(v) # None =>
       /\ work'[v].pc \in Sending => job'[Of(v)].linked
       /\ work'[v].pc \in Past /\ work'[v].st \in Told => net'[Of(v)].task # "none"
       /\ work'[v].pc = "found" => net'[Of(v)].task # "none"
  BY <1>1 DEF TaskInv, Same, JobMoves, NetMoves, At
<1>5. /\ work'[v].pc = "generate" => work'[v].src.whole
      /\ work'[v].pc = "reserve" /\ work'[v].fresh => draft'.media = "assigned"
      /\ work'[v].pc \in {"rebuild", "look", "scan", "assign", "reserve"} => draft'.st # "none"
  BY DEF DraftInv, DraftMoves, Same, At
<1> QED
  BY <1>2, <1>3, <1>4, <1>5 DEF Sound

\* A worker may go on so with its job.
Well(w, e) ==
  /\ e \in Progress /\ e.of = Of(w) /\ e.pc # "idle"
  /\ e.pc \in Sending => work[w].pc \in Sending \/ job'[Of(w)].linked
  /\ e.pc \in Past /\ e.st \in Told => net[Of(w)].task # "none"
  /\ e.pc = "found" => net[Of(w)].task # "none"
  /\ e.pc = "generate" => e.src.whole
  /\ e.pc = "reserve" /\ e.fresh => draft'.media = "assigned"
  /\ e.pc \in {"rebuild", "look", "scan", "assign", "reserve"} => draft'.st # "none"

(* A worker goes on with its job, the others stay. *)
LEMMA Goes ==
  ASSUME TypeOK, DraftInv, TaskInv, JobMoves, NetMoves, DraftMoves,
         NEW w \in Worker, work[w].pc # "idle", NEW e, Well(w, e),
         \/ work' = [work EXCEPT ![w] = e] /\ (draft'.media = draft.media \/ draft.st = "none")
         \/ work' = Bumped(w, e),
         root' \in {root, None, w}, root' = w => e.pc = "generate"
  PROVE  WorkMoves
<1>0. Of(w) \in Store /\ Of(w) # None /\ work \in [Worker -> Progress] /\ None \notin Worker
  BY AtWork, StoreAssumption DEF TypeOK, Worker
<1>1. ASSUME NEW v \in Worker
      PROVE  /\ [work[v] EXCEPT !.fresh = FALSE] \in Progress
             /\ LET d == [work[v] EXCEPT !.fresh = FALSE]
                IN  d.pc = work[v].pc /\ d.of = work[v].of /\ d.st = work[v].st
                    /\ d.src = work[v].src /\ ~d.fresh
  BY ZenonT(60), <1>0, ProgressFields
<1>2. work' \in [Worker -> Progress] /\ work'[w] = e
  BY <1>0, <1>1 DEF Bumped, Well
<1>3. ASSUME NEW v \in Worker, v # w
      PROVE  Same(v) /\ (work'[v].fresh => draft'.media = draft.media \/ draft.st = "none")
  BY <1>0, <1>1, <1>3 DEF Bumped, Same
<1>4. ASSUME NEW v \in Worker, v # w PROVE Sound(v)'
  BY <1>0, <1>3, <1>4, Bystander
<1>5. work'[w].of = Of(w) /\ Of(w)' = Of(w)
  BY <1>2 DEF Of, Well
<1>6. job[Of(w)].linked => job'[Of(w)].linked
  BY <1>0 DEF JobMoves
<1>7. net[Of(w)].task # "none" => net'[Of(w)].task # "none"
  BY <1>0 DEF NetMoves
<1>8. work[w].pc \in Sending => job[Of(w)].linked
  BY <1>0 DEF TaskInv
<1>9. Sound(w)'
  BY <1>0, <1>2, <1>5, <1>6, <1>7, <1>8 DEF Sound, Well
<1> QED
  BY <1>2, <1>4, <1>9 DEF WorkMoves

(* The same, when the root lock does not change hands. *)
LEMMA GoesOn ==
  ASSUME TypeOK, DraftInv, TaskInv, JobMoves, NetMoves, DraftMoves,
         NEW w \in Worker, work[w].pc \notin {"idle", "generate"}, NEW e, Well(w, e),
         work' = [work EXCEPT ![w] = e], draft'.media = draft.media \/ draft.st = "none",
         UNCHANGED root
  PROVE  WorkMoves
<1>1. root # w
  BY DEF TypeOK, At
<1> QED
  BY <1>1, Goes

(* The same, when the draft's version moves on. *)
LEMMA GoesAhead ==
  ASSUME TypeOK, DraftInv, TaskInv, JobMoves, NetMoves, DraftMoves,
         NEW w \in Worker, work[w].pc \notin {"idle", "generate"}, NEW e, Well(w, e),
         work' = Bumped(w, e), UNCHANGED root
  PROVE  WorkMoves
<1>1. root # w
  BY DEF TypeOK, At
<1> QED
  BY <1>1, Goes

(* A worker is done, the others stay. *)
LEMMA Ends ==
  ASSUME TypeOK, DraftInv, TaskInv, JobMoves, NetMoves, DraftMoves,
         NEW w \in Worker, work' = [work EXCEPT ![w] = Idle], draft'.media = draft.media,
         root' \in {root, None}, root' # w
  PROVE  WorkMoves
<1>0. work \in [Worker -> Progress] /\ None \notin Worker
  BY StoreAssumption DEF TypeOK, Worker
<1>1. work' \in [Worker -> Progress] /\ work'[w] = Idle
  BY <1>0, IdleFacts
<1>2. ASSUME NEW v \in Worker, v # w PROVE Sound(v)'
  <2>1. Same(v)
    BY <1>0, <1>2 DEF Same
  <2> QED
    BY <1>0, <2>1, Bystander
<1>3. Sound(w)'
  BY <1>1, IdleFacts DEF Sound, Of
<1> QED
  BY <1>1, <1>2, <1>3 DEF WorkMoves

(* No worker moves. *)
LEMMA Stays ==
  ASSUME TypeOK, DraftInv, TaskInv, JobMoves, NetMoves, DraftMoves,
         UNCHANGED work, draft'.media = draft.media, UNCHANGED root
  PROVE  WorkMoves
<1>1. \A v \in Worker : Same(v)
  BY DEF Same
<1> QED
  BY <1>1, Bystander DEF TypeOK, WorkMoves

(* What a function takes on a finite set is finite. *)
LEMMA FiniteImage ==
  ASSUME NEW S, IsFiniteSet(S), NEW f
  PROVE  IsFiniteSet({f[x] : x \in S})
<1> DEFINE T == {f[x] : x \in S}
           g == [x \in S |-> f[x]]
<1>1. g \in Surjection(S, T)
  BY DEF Surjection
<1> HIDE DEF g
<1> QED
  BY <1>1, FS_Surjection

(* There always is an id that no row uses. *)
LEMMA FreshFacts ==
  ASSUME TypeOK
  PROVE  Fresh \in Nat /\ Fresh \notin InUse
<1>1. IsFiniteSet(Worker) /\ IsFiniteSet(Store)
  BY StoreAssumption, FS_Interval DEF Worker
<1> DEFINE f == [w \in Worker |-> work[w].src.id]
           g == [s \in Store |-> pub[s].src.id]
           A == {work[w].src.id : w \in Worker}
           B == {pub[s].src.id : s \in Store}
<1>2. IsFiniteSet(A)
  <2>1. A = {f[w] : w \in Worker}
    OBVIOUS
  <2> HIDE DEF f, A
  <2> QED
    BY <1>1, <2>1, FiniteImage
<1>3. IsFiniteSet(B)
  <2>1. B = {g[s] : s \in Store}
    OBVIOUS
  <2> HIDE DEF g, B
  <2> QED
    BY <1>1, <2>1, FiniteImage
<1>4. IsFiniteSet(InUse)
  <2>1. InUse = ({draft.gen.id} \union A) \union B
    BY DEF InUse
  <2>2. IsFiniteSet({draft.gen.id})
    BY FS_Singleton
  <2> HIDE DEF A, B
  <2>3. IsFiniteSet({draft.gen.id} \union A)
    BY <1>2, <2>2, FS_Union
  <2> QED
    BY <1>3, <2>1, <2>3, FS_Union
<1> DEFINE n == Cardinality(InUse)
<1>5. n \in Nat
  BY <1>4, FS_CardinalityType
<1>6. \E i \in 1 .. n + 1 : i \notin InUse
  <2> SUFFICES ASSUME 1 .. n + 1 \subseteq InUse PROVE FALSE
    OBVIOUS
  <2>1. Cardinality(1 .. n + 1) <= n
    BY <1>4, FS_Subset
  <2>2. Cardinality(1 .. n + 1) = n + 1
    <3> HIDE DEF n
    <3>1. 1 \in Int /\ n + 1 \in Int /\ ~(1 > n + 1) /\ (n + 1) - 1 + 1 = n + 1
      BY <1>5
    <3> QED
      BY <3>1, FS_Interval
  <2> QED
    BY <1>5, <2>1, <2>2
<1> QED
  BY <1>5, <1>6 DEF Fresh

(* Where a worker goes with the draft as it is: to vouch for it or to scan. *)
LEMMA OnwardFacts ==
  ASSUME TypeOK, NEW w \in Worker
  PROVE  /\ Onward(w) \in Progress /\ Onward(w).of = Of(w)
         /\ Onward(w).pc \in {"vouch", "scan"}
<1>1. "vouch" \in Places /\ "scan" \in Places
  BY DEF Places, Fenced
<1>2. draft.gen \in Versions
  BY DEF TypeOK, Drafts
<1> DEFINE d == Then(w, "vouch")
<1>3. d \in Progress /\ d.pc = "vouch" /\ d.of = Of(w)
  BY <1>1, ThenFacts
<1> HIDE DEF d
<1> DEFINE e == [d EXCEPT !.src = draft.gen]
<1>4. e \in Progress /\ e.pc = "vouch" /\ e.of = Of(w)
  BY <1>2, <1>3, ProgressFields
<1>5. Onward(w) \in {e, Then(w, "scan")}
  BY DEF Onward, d
<1> HIDE DEF e
<1> QED
  BY <1>1, <1>4, <1>5, ThenFacts

(* Every step moves the workers so. *)
LEMMA WorkStep ==
  TypeOK /\ DraftInv /\ TaskInv /\ JobMoves /\ NetMoves /\ DraftMoves /\ [Next]_vars => WorkMoves
<1> SUFFICES ASSUME TypeOK, DraftInv, TaskInv, JobMoves, NetMoves, DraftMoves, [Next]_vars
             PROVE  WorkMoves
  OBVIOUS
<1>0. work \in [Worker -> Progress] /\ root \in Worker \union {None} /\ None \notin Worker
  BY StoreAssumption DEF TypeOK, Worker
<1>1. CASE UNCHANGED work /\ draft'.media = draft.media /\ UNCHANGED root
  BY <1>1, Stays
<1>2. Places = {"idle", "begin", "turn", "look", "generate", "vouch", "freeze", "link", "dispatch",
                "found", "doubt", "package", "send", "sent", "create", "rebuild", "scan", "assign", "reserve"}
  BY DEF Places, Fenced
<1>3. ASSUME NEW w \in Worker, root = w PROVE work[w].pc = "generate"
  BY <1>3 DEF TypeOK, At
<1>4. ASSUME NEW w \in Worker, work[w].pc # "idle"
      PROVE  Of(w) \in Store /\ Of(w) # None /\ work[w] \in Progress /\ work[w].of = Of(w)
             /\ work[w].st \in Statuses
  BY <1>4, AtWork, StoreAssumption DEF Of, Progress
<1>5. ASSUME NEW w \in Worker, NEW s \in Store, Claim(w, s) PROVE WorkMoves
  <2>1. PICK saw \in BOOLEAN : work' = [work EXCEPT ![w] = [Idle EXCEPT !.pc = "begin", !.of = s, !.saw = saw]]
    BY <1>5 DEF Claim
  <2> DEFINE e == [Idle EXCEPT !.pc = "begin", !.of = s, !.saw = saw]
  <2>2. e \in Progress /\ e.pc = "begin" /\ e.of = s
    BY <1>2, IdleFacts DEF Progress
  <2>3. work' = [work EXCEPT ![w] = e]
    BY <2>1
  <2> HIDE DEF e
  <2>4. work' \in [Worker -> Progress] /\ work'[w] = e
    BY <1>0, <2>2, <2>3
  <2>5. UNCHANGED <<draft, root>> /\ work[w].pc = "idle" /\ s # None
    BY <1>5, StoreAssumption DEF Claim, At
  <2>6. Sound(w)'
    BY <1>0, <1>3, <2>2, <2>4, <2>5 DEF Sound, Sending, Past, Of
  <2>7. ASSUME NEW v \in Worker, v # w PROVE Sound(v)'
    <3>1. Same(v)
      BY <1>0, <2>3, <2>7 DEF Same
    <3> QED
      BY <2>5, <3>1, Bystander
  <2> QED
    BY <2>4, <2>6, <2>7 DEF WorkMoves
<1>6. ASSUME NEW w \in Worker, work' = [work EXCEPT ![w] = Idle], draft'.media = draft.media,
             UNCHANGED root, work[w].pc # "generate"
      PROVE  WorkMoves
  BY <1>0, <1>3, <1>6, Ends
<1>7. ASSUME NEW w \in Worker, NEW st, Leave(w) \/ Exit(w, st) \/ ExitKnown(w, st),
             draft'.media = draft.media, UNCHANGED root, work[w].pc # "generate"
      PROVE  WorkMoves
  BY <1>6, <1>7 DEF Leave, Exit, ExitKnown
\* Going on to a place nothing is known of.
<1>8. ASSUME NEW w \in Worker, work[w].pc \notin {"idle", "generate"}, NEW e \in Progress,
             work' = [work EXCEPT ![w] = e], UNCHANGED <<root, draft>>, e.of = Of(w),
             e.pc \in {"begin", "turn", "vouch", "freeze", "create"}
      PROVE  WorkMoves
  <2>1. Well(w, e)
    BY <1>3, <1>8 DEF Well, Sending, Past
  <2> QED
    BY <1>3, <1>8, <2>1, GoesOn
<1>9. ASSUME NEW w \in Worker, Begin(w) PROVE WorkMoves
  <2>1. work[w].pc = "begin" /\ UNCHANGED <<root, draft, net>>
    BY <1>9 DEF Begin, At
  <2>2. CASE work' = [work EXCEPT ![w].pc = "turn", ![w].saw = FALSE]
    <3> DEFINE e == [work[w] EXCEPT !.pc = "turn", !.saw = FALSE]
    <3>1. work' = [work EXCEPT ![w] = e]
      BY <2>2
    <3>2. e \in Progress /\ e.pc = "turn" /\ e.of = Of(w)
      BY <1>2, <1>4, <2>1 DEF Progress
    <3> HIDE DEF e
    <3> QED
      BY <1>8, <2>1, <3>1, <3>2
  <2>3. CASE /\ Frozen(Of(w)) /\ Synced(Of(w)) \in Unsent
             /\ work' = [work EXCEPT ![w].pc = "dispatch", ![w].st = Synced(Of(w)), ![w].saw = FALSE]
             /\ job' \in {[job EXCEPT ![Of(w)].linked = TRUE],
                          [[job EXCEPT ![Of(w)].linked = TRUE] EXCEPT ![Of(w)].st = "SUBMITTING"]}
    <3> DEFINE e == [work[w] EXCEPT !.pc = "dispatch", !.st = Synced(Of(w)), !.saw = FALSE]
    <3>1. work' = [work EXCEPT ![w] = e]
      BY <2>3
    <3>2. Synced(Of(w)) \in Statuses /\ Synced(Of(w)) \notin Told
      BY <2>3 DEF Statuses, Unsent, Told
    <3>3. e \in Progress /\ e.pc = "dispatch" /\ e.of = Of(w) /\ e.st = Synced(Of(w))
      BY ZenonT(60), <1>2, <1>4, <2>1, <3>2 DEF Progress
    <3>4. job'[Of(w)].linked
      BY <1>4, <2>1, <2>3 DEF TypeOK, Jobs
    <3> HIDE DEF e
    <3>5. Well(w, e)
      BY <1>3, <2>1, <3>1, <3>2, <3>3, <3>4 DEF Well
    <3> QED
      BY <1>3, <2>1, <3>1, <3>2, <3>3, <3>4, <3>5, GoesOn
  <2> QED
    BY <1>7, <1>9, <2>1, <2>2, <2>3 DEF Begin
<1>10. ASSUME NEW w \in Worker, Fence(w) PROVE WorkMoves
  <2>1. work[w].pc \in Fenced /\ UNCHANGED <<root, draft, net>>
    BY <1>10 DEF Fence
  <2>2. work[w].pc \in {"create", "rebuild", "scan", "assign", "reserve"}
    BY <2>1 DEF Fenced
  <2>3. CASE work' = [work EXCEPT ![w].ok = TRUE]
    <3> DEFINE e == [work[w] EXCEPT !.ok = TRUE]
    <3>1. work' = [work EXCEPT ![w] = e]
      BY <2>3
    <3>2. e \in Progress /\ e.pc = work[w].pc /\ e.of = Of(w) /\ e.fresh = work[w].fresh
      BY <1>4, <2>2 DEF Progress
    <3> HIDE DEF e
    <3>3. /\ e.pc = "reserve" /\ e.fresh => draft'.media = "assigned"
          /\ e.pc \in {"rebuild", "look", "scan", "assign", "reserve"} => draft'.st # "none"
      BY <2>1, <3>2 DEF DraftInv, At
    <3>4. Well(w, e)
      BY <1>3, <2>1, <2>2, <3>1, <3>2, <3>3 DEF Well, Sending, Past
    <3> QED
      BY <1>3, <2>1, <2>2, <3>1, <3>2, <3>3, <3>4, GoesOn
  <2> QED
    BY <1>7, <1>10, <2>1, <2>2, <2>3 DEF Fence
<1>11. ASSUME NEW w \in Worker, Turn(w) PROVE WorkMoves
  <2>1. work[w].pc = "turn" /\ UNCHANGED <<root, draft, net>>
    BY <1>11 DEF Turn, At
  <2> DEFINE next == IF draft.st = "none" THEN Then(w, "create")
                     ELSE IF Rebuilding(Of(w)) THEN Then(w, "rebuild") ELSE Onward(w)
  <2>2. /\ next \in Progress /\ next.of = Of(w)
        /\ next.pc \in {"create", "rebuild", "vouch", "scan"}
        /\ next.pc # "create" => draft.st # "none"
    BY <1>2, ThenFacts, OnwardFacts
  <2> HIDE DEF next
  <2>3. ASSUME NEW n \in Nat, work' = [work EXCEPT ![w] = [next EXCEPT !.tok = n]] PROVE WorkMoves
    <3> DEFINE e == [next EXCEPT !.tok = n]
    <3>1. e \in Progress /\ e.of = Of(w) /\ e.pc = next.pc
      BY <2>2, ProgressFields
    <3>2. work' = [work EXCEPT ![w] = e]
      BY <2>3
    <3> HIDE DEF e
    <3>3. Well(w, e)
      BY <1>3, <2>1, <2>2, <3>1, <3>2 DEF Well, Sending, Past
    <3> QED
      BY <1>3, <2>1, <2>2, <3>1, <3>2, <3>3, GoesOn
  <2>4. 1 \in Nat /\ lease.tok + 1 \in Nat
    BY LeaseValues
  <2> QED
    BY <1>7, <1>11, <2>1, <2>3, <2>4 DEF Turn, next
<1>12. ASSUME NEW w \in Worker, Create(w) PROVE WorkMoves
  <2>1. work[w].pc = "create" /\ UNCHANGED root /\ work' = [work EXCEPT ![w] = Then(w, "look")]
    BY <1>12 DEF Create, Ready, At
  <2>2. draft'.st # "none" /\ (draft'.media = draft.media \/ draft.st = "none")
    BY <1>12 DEF Create
  <2>3. Then(w, "look") \in Progress /\ Then(w, "look").pc = "look" /\ Then(w, "look").of = Of(w)
    BY <1>2, ThenFacts
  <2>4. Well(w, Then(w, "look"))
    BY <1>3, <2>1, <2>2, <2>3 DEF Well, Sending, Past
  <2> QED
    BY <1>3, <2>1, <2>2, <2>3, <2>4, GoesOn
<1>13. ASSUME NEW w \in Worker, Rebuild(w) PROVE WorkMoves
  <2>1. work[w].pc = "rebuild" /\ UNCHANGED root
    BY <1>13 DEF Rebuild, Ready, At
  <2>2. CASE work' = Bumped(w, Then(w, "look"))
    <3>1. Then(w, "look") \in Progress /\ Then(w, "look").pc = "look" /\ Then(w, "look").of = Of(w)
      BY <1>2, ThenFacts
    <3>2. draft'.st # "none"
      BY <2>1 DEF DraftMoves, DraftInv
    <3>3. Well(w, Then(w, "look"))
      BY <1>3, <2>1, <2>2, <3>1, <3>2 DEF Well, Sending, Past
    <3> QED
      BY <1>3, <2>1, <2>2, <3>1, <3>2, <3>3, GoesAhead
  <2> QED
    BY <1>7, <1>13, <2>1, <2>2 DEF Rebuild
<1>14. ASSUME NEW w \in Worker, Look(w) PROVE WorkMoves
  <2>1. work[w].pc = "look" /\ UNCHANGED <<root, draft>> /\ draft.st # "none"
    BY <1>14 DEF Look, At, DraftInv
  <2>2. CASE work' = [work EXCEPT ![w] = Onward(w)]
    <3>1. Well(w, Onward(w))
      BY <2>1, OnwardFacts DEF Well, Sending, Past
    <3> QED
      BY <2>1, <2>2, <3>1, GoesOn
  <2> QED
    BY <1>7, <1>14, <2>1, <2>2 DEF Look
<1>15. ASSUME NEW w \in Worker, Scan(w) PROVE WorkMoves
  <2>1. work[w].pc = "scan" /\ UNCHANGED root /\ draft'.st # "none"
    BY <1>15 DEF Scan, Ready, At, DraftInv, DraftMoves
  <2> DEFINE e == [Then(w, "assign") EXCEPT !.fresh = TRUE]
  <2>2. e \in Progress /\ e.pc = "assign" /\ e.of = Of(w)
    <3>1. Then(w, "assign") \in Progress /\ Then(w, "assign").pc = "assign" /\ Then(w, "assign").of = Of(w)
      BY <1>2, ThenFacts
    <3> QED
      BY <3>1 DEF Progress
  <2>3. draft.media = "none" => work' = Bumped(w, e)
    BY <1>15 DEF Scan
  <2>4. draft.media # "none" => work' = [work EXCEPT ![w] = e] /\ UNCHANGED draft
    BY <1>15 DEF Scan
  <2> HIDE DEF e
  <2>5. Well(w, e)
    BY <1>3, <2>1, <2>2 DEF Well, Sending, Past
  <2>6. CASE draft.media = "none"
    BY <2>1, <2>3, <2>5, <2>6, GoesAhead
  <2>7. CASE draft.media # "none"
    BY <2>1, <2>4, <2>5, <2>7, GoesOn
  <2> QED
    BY <2>6, <2>7
<1>16. ASSUME NEW w \in Worker, Assign(w) PROVE WorkMoves
  <2>1. work[w].pc = "assign" /\ UNCHANGED root /\ draft'.st # "none"
    BY <1>16 DEF Assign, Ready, At, DraftInv, DraftMoves
  <2>2. CASE draft' = [draft EXCEPT !.st = Outdated, !.owner = Of(w), !.media = "assigned"]
             /\ work' = Bumped(w, Then(w, "reserve"))
    <3>1. draft'.media = "assigned"
      BY <2>2 DEF TypeOK, Drafts
    <3>2. Then(w, "reserve") \in Progress /\ Then(w, "reserve").pc = "reserve" /\ Then(w, "reserve").of = Of(w)
      BY <1>2, ThenFacts
    <3>3. Well(w, Then(w, "reserve"))
      BY <1>3, <2>1, <2>2, <3>1, <3>2 DEF Well, Sending, Past
    <3> QED
      BY <1>3, <2>1, <2>2, <3>1, <3>2, <3>3, GoesAhead
  <2> QED
    BY <1>7, <1>16, <2>1, <2>2 DEF Assign
<1>17. ASSUME NEW w \in Worker, Reserve(w) PROVE WorkMoves
  <2>1. work[w].pc = "reserve"
    BY <1>17 DEF Reserve, Ready, At
  <2> DEFINE src == [id |-> Fresh, preset |-> draft.preset, whole |-> draft.media = "assigned"]
             d == Then(w, "generate")
             e == [d EXCEPT !.fresh = FALSE, !.src = src]
  <2>2. CASE /\ work[w].fresh /\ root' = w
             /\ draft' = [draft EXCEPT !.st = "GENERATING", !.owner = Of(w)]
             /\ work' = [work EXCEPT ![w] = e]
    <3>1. src \in Versions /\ src.whole
      <4>1. draft.media = "assigned" /\ draft.preset \in Store \union {None}
        BY <2>1, <2>2 DEF DraftInv, At, TypeOK, Drafts
      <4> QED
        BY <4>1, FreshFacts DEF Versions
    <3>2. draft'.media = draft.media
      BY <2>2 DEF TypeOK, Drafts
    <3>3. d \in Progress /\ d.pc = "generate" /\ d.of = Of(w)
      BY <1>2, ThenFacts
    <3> HIDE DEF d, src
    <3>4. e \in Progress /\ e.pc = "generate" /\ e.of = Of(w) /\ e.src = src
      BY <3>1, <3>3 DEF Progress
    <3> HIDE DEF e
    <3>5. Well(w, e)
      BY <2>1, <2>2, <3>1, <3>2, <3>4 DEF Well, Sending, Past
    <3> QED
      BY <2>1, <2>2, <3>1, <3>2, <3>4, <3>5, Goes
  <2> QED
    BY <1>7, <1>17, <2>1, <2>2 DEF Reserve
<1>18. ASSUME NEW w \in Worker, NEW pc \in Places, Goto(w, pc)
       PROVE  work' = [work EXCEPT ![w] = Then(w, pc)]
  BY <1>18 DEF Goto, Then
<1>19. ASSUME NEW w \in Worker, Complete(w) PROVE WorkMoves
  <2>1. work[w].pc = "generate" /\ root' = None /\ work' = [work EXCEPT ![w] = Then(w, "vouch")]
    BY <1>2, <1>18, <1>19 DEF Complete, At
  <2>2. draft'.media = draft.media
    BY <1>19 DEF Complete, TypeOK, Drafts
  <2>3. Then(w, "vouch") \in Progress /\ Then(w, "vouch").pc = "vouch" /\ Then(w, "vouch").of = Of(w)
    BY <1>2, ThenFacts
  <2>4. Well(w, Then(w, "vouch"))
    BY <1>0, <2>1, <2>2, <2>3 DEF Well, Sending, Past
  <2> QED
    BY <1>0, <2>1, <2>2, <2>3, <2>4, Goes
<1>20. ASSUME NEW w \in Worker, FailGeneration(w) PROVE WorkMoves
  <2>1. root' = None /\ work' = [work EXCEPT ![w] = Idle]
    BY <1>20 DEF FailGeneration, Exit, Leave
  <2>2. draft'.media = draft.media
    BY <1>20 DEF FailGeneration, TypeOK, Drafts
  <2> QED
    BY <1>0, <2>1, <2>2, Ends
<1>21. ASSUME NEW w \in Worker, Vouch(w) PROVE WorkMoves
  <2>1. work[w].pc = "vouch" /\ UNCHANGED <<root, draft>>
    BY <1>21 DEF Vouch, At
  <2>2. CASE Goto(w, "freeze")
    BY <1>2, <1>8, <1>18, <2>1, <2>2, ThenFacts
  <2> QED
    BY <1>7, <1>21, <2>1, <2>2 DEF Vouch
<1>22. ASSUME NEW w \in Worker, Freeze(w) PROVE WorkMoves
  <2>1. work[w].pc = "freeze" /\ UNCHANGED <<root, draft, net>>
    BY <1>22 DEF Freeze, At
  <2>2. ASSUME NEW st \in Statuses, st \in Told => net[Of(w)].task # "none",
               work' = [work EXCEPT ![w].pc = "link", ![w].st = st]
        PROVE  WorkMoves
    <3> DEFINE e == [work[w] EXCEPT !.pc = "link", !.st = st]
    <3>1. work' = [work EXCEPT ![w] = e]
      BY <2>2
    <3>2. e \in Progress /\ e.pc = "link" /\ e.of = Of(w) /\ e.st = st
      BY <1>2, <1>4, <2>1 DEF Progress
    <3> HIDE DEF e
    <3>3. Well(w, e)
      BY <1>3, <2>1, <2>2, <3>1, <3>2 DEF Well, Sending
    <3> QED
      BY <1>3, <2>1, <2>2, <3>1, <3>2, <3>3, GoesOn
  <2>3. "PLANNED" \in Statuses \ Told
    BY DEF Statuses, Unsent, Told
  <2>4. pub[Of(w)].st \in Statuses /\ (pub[Of(w)].st \in Told => net[Of(w)].task # "none")
    BY <1>4, <2>1, StatusFacts DEF TaskInv
  <2> QED
    BY <1>7, <1>22, <2>1, <2>2, <2>3, <2>4 DEF Freeze
<1>23. ASSUME NEW w \in Worker, Link(w) PROVE WorkMoves
  <2>1. work[w].pc = "link" /\ UNCHANGED <<root, draft, net>>
    BY <1>23 DEF Link, At
  <2> DEFINE e == [work[w] EXCEPT !.pc = "dispatch", !.tok = 0, !.src = Nothing]
  <2>2. work' = [work EXCEPT ![w] = e]
    BY <1>23 DEF Link
  <2>3. e \in Progress /\ e.pc = "dispatch" /\ e.of = Of(w) /\ e.st = work[w].st
    BY ZenonT(60), <1>2, <1>4, <2>1, DraftValues DEF Progress
  <2> HIDE DEF e
  <2>4. job'[Of(w)].linked
    BY <1>4, <1>23, <2>1 DEF Link, TypeOK, Jobs
  <2>5. work[w].st \in Told => net[Of(w)].task # "none"
    BY <1>4, <2>1 DEF TaskInv, Past
  <2>6. Well(w, e)
    BY <1>3, <2>1, <2>2, <2>3, <2>4, <2>5 DEF Well
  <2> QED
    BY <1>3, <2>1, <2>2, <2>3, <2>4, <2>5, <2>6, GoesOn
\* Going on to another place of the dispatch.
<1>24. ASSUME NEW w \in Worker, work[w].pc \in Sending, NEW e \in Progress,
              work' = [work EXCEPT ![w] = e], UNCHANGED <<root, draft>>, e.of = Of(w),
              e.pc \in Sending \ Past, e.pc = "found" => net[Of(w)].task # "none"
       PROVE  WorkMoves
  <2>1. work[w].pc # "idle" /\ work[w].pc # "generate" /\ e.pc \notin {"idle", "generate", "rebuild", "look", "scan", "assign", "reserve"}
    BY <1>24 DEF Sending
  <2>2. Well(w, e)
    BY <1>3, <1>24, <2>1 DEF Well
  <2> QED
    BY <1>3, <1>24, <2>1, <2>2, GoesOn
<1>25. ASSUME NEW w \in Worker, work[w].pc \in Sending, UNCHANGED <<root, draft>>,
              NEW pc \in {"found", "doubt", "package", "send"}, Goto(w, pc),
              pc = "found" => net[Of(w)].task # "none"
       PROVE  WorkMoves
  <2>1. pc \in Places /\ pc \in Sending \ Past
    BY <1>2, <1>25 DEF Sending, Past
  <2> QED
    BY <1>18, <1>24, <1>25, <2>1, ThenFacts
<1>26. ASSUME NEW w \in Worker, Queued(w) \/ Unknown(w) \/ Refused(w), UNCHANGED <<root, draft>>,
              work[w].pc \in Sending
       PROVE  WorkMoves
  <2>1. work[w].pc # "generate"
    BY <1>26 DEF Sending
  <2> QED
    BY <1>7, <1>26, <2>1 DEF Queued, Unknown, Refused
<1>27. ASSUME NEW w \in Worker, Dispatch(w) PROVE WorkMoves
  <2>1. work[w].pc = "dispatch" /\ UNCHANGED <<root, draft, net>> /\ work[w].pc \in Sending
    BY <1>27 DEF Dispatch, At, Sending
  <2> QED
    BY <1>7, <1>25, <1>27, <2>1 DEF Dispatch
<1>28. ASSUME NEW w \in Worker, Found(w) PROVE WorkMoves
  <2>1. work[w].pc = "found" /\ UNCHANGED <<root, draft, net>> /\ work[w].pc \in Sending
    BY <1>28 DEF Found, At, Sending
  <2>2. CASE work' = [work EXCEPT ![w].st = "DISPATCHING"]
    <3> DEFINE e == [work[w] EXCEPT !.st = "DISPATCHING"]
    <3>1. "DISPATCHING" \in Statuses
      BY DEF Statuses, Unsent
    <3>2. work' = [work EXCEPT ![w] = e]
      BY <2>2
    <3>3. e \in Progress /\ e.pc = "found" /\ e.of = Of(w)
      BY <1>4, <2>1, <3>1 DEF Progress
    <3> HIDE DEF e
    <3>4. net[Of(w)].task # "none"
      BY <1>4, <2>1 DEF TaskInv, At
    <3> QED
      BY <1>24, <2>1, <3>2, <3>3, <3>4 DEF Sending, Past
  <2> QED
    BY <1>7, <1>26, <1>28, <2>1, <2>2 DEF Found
<1>29. ASSUME NEW w \in Worker, Doubt(w) PROVE WorkMoves
  <2>1. work[w].pc = "doubt" /\ UNCHANGED <<root, draft, net>> /\ work[w].pc \in Sending
    BY <1>29 DEF Doubt, At, Sending
  <2> QED
    BY <1>7, <1>26, <1>29, <2>1 DEF Doubt
<1>30. ASSUME NEW w \in Worker, Package(w) PROVE WorkMoves
  <2>1. work[w].pc = "package" /\ UNCHANGED <<root, draft, net>> /\ work[w].pc \in Sending
    BY <1>30 DEF Package, At, Sending
  <2> QED
    BY <1>7, <1>25, <1>26, <1>30, <2>1 DEF Package
<1>31. ASSUME NEW w \in Worker, Send(w) PROVE WorkMoves
  <2>1. work[w].pc = "send" /\ UNCHANGED <<root, draft>> /\ work[w].pc \in Sending
    BY <1>31 DEF Send, At, Sending
  <2> DEFINE e == [work[w] EXCEPT !.pc = "sent", !.st = "none"]
  <2>2. "none" \in Statuses
    BY DEF Statuses
  <2>3. work' = [work EXCEPT ![w] = e]
    BY <1>31 DEF Send
  <2>4. e \in Progress /\ e.pc = "sent" /\ e.of = Of(w)
    BY <1>2, <1>4, <2>1, <2>2 DEF Progress
  <2> HIDE DEF e
  <2> QED
    BY <1>24, <2>1, <2>3, <2>4 DEF Sending, Past
<1>32. ASSUME NEW w \in Worker, Answer(w) PROVE WorkMoves
  <2>1. work[w].pc \in Sending /\ UNCHANGED <<root, draft>>
    BY <1>32 DEF Answer, At, Sending
  <2> QED
    BY <1>26, <1>32, <2>1 DEF Answer
<1>33. ASSUME NEW w \in Worker, Crash(w) PROVE WorkMoves
  <2>1. root' \in {root, None} /\ root' # w
    BY <1>0, <1>33 DEF Crash
  <2> QED
    BY <1>33, <2>1, Ends DEF Crash
<1>34. ASSUME NEW s \in Store, Arrive(s) \/ Lose(s) \/ Run(s) \/ Sync(s) \/ Cancel(s) \/ Recheck(s)
       PROVE  WorkMoves
  <2>1. UNCHANGED <<work, root>>
    BY <1>34 DEF Arrive, Lose, Run, Sync, Cancel, Recheck
  <2>2. draft'.media = draft.media
    BY <1>34 DEF Arrive, Lose, Run, Sync, Cancel, Recheck, TypeOK, Drafts
  <2> QED
    BY <1>1, <2>1, <2>2
<1>35. ASSUME Stall \/ Lapse \/ UNCHANGED vars PROVE WorkMoves
  BY <1>1, <1>35 DEF Stall, Lapse, vars
<1> QED
  BY <1>5, <1>9, <1>10, <1>11, <1>12, <1>13, <1>14, <1>15, <1>16, <1>17, <1>19, <1>20, <1>21, <1>22, <1>23,
     <1>27, <1>28, <1>29, <1>30, <1>31, <1>32, <1>33, <1>34, <1>35 DEF Next, Step

---------------------------------------------------------------------------
(* The theorems. *)

(* Types, the draft and the tasks are kept together: that a job is moved to a  *)
(* status of the store's is known only from what its publication says.         *)
LEMMA AllKept == TypeOK /\ DraftInv /\ TaskInv /\ [Next]_vars => TypeOK' /\ DraftInv' /\ TaskInv'
<1> SUFFICES ASSUME TypeOK, DraftInv, TaskInv, [Next]_vars PROVE TypeOK' /\ DraftInv' /\ TaskInv'
  OBVIOUS
<1>1. JobMoves /\ NetMoves /\ PubMoves /\ DraftMoves /\ LockMoves /\ WorkMoves
  BY JobStep, NetStep, PubStep, DraftStep, LockStep, WorkStep
<1>2. TypeOK'
  BY <1>1 DEF TypeOK, JobMoves, NetMoves, PubMoves, DraftMoves, LockMoves, WorkMoves, Sound, At, Of
<1>3. FrozenForItsStore'
  BY <1>1 DEF DraftInv, FrozenForItsStore, JobMoves, PubMoves, Frozen
<1>4. DraftInv'
  BY <1>1, <1>3 DEF DraftInv, DraftMoves, WorkMoves, Sound, At
<1>5. OneTaskPerRun'
  <2> SUFFICES ASSUME NEW s \in Store
               PROVE  /\ pub'[s].n <= 1
                      /\ net'[s].task # "none" => job'[s].linked
                      /\ job'[s].st = "SUCCEEDED" => net'[s].task = "SUCCEEDED"
                      /\ job'[s].st = "QUEUED" => net'[s].task # "none"
    BY DEF OneTaskPerRun
  <2>1. pub'[s].n <= 1
    BY <1>1 DEF PubMoves, TaskInv, OneTaskPerRun
  <2> QED
    BY <1>1, <2>1 DEF JobMoves, NetMoves, TaskInv, OneTaskPerRun
<1>6. ASSUME NEW s \in Store
      PROVE  /\ Frozen(s)' => pub'[s].st # "none"
             /\ net'[s].req => job'[s].linked
             /\ pub'[s].st \in Told => net'[s].task # "none"
             /\ pub'[s].st = "SUCCEEDED" => net'[s].task = "SUCCEEDED"
             /\ job'[s].known => net'[s].task # "none"
  BY <1>1 DEF JobMoves, NetMoves, PubMoves, TaskInv, Frozen
<1>7. TaskInv'
  BY <1>1, <1>5, <1>6 DEF TaskInv, WorkMoves, Sound, At
<1> QED
  BY <1>2, <1>4, <1>7

(* Every run starts well. *)
LEMMA AllStart == Init => TypeOK /\ DraftInv /\ TaskInv
<1> SUFFICES ASSUME Init PROVE TypeOK /\ DraftInv /\ TaskInv
  OBVIOUS
<1>1. PICK preset \in [Store -> Store] :
        job = [s \in Store |-> [st |-> "WAITING_STABLE", preset |-> preset[s],
                                linked |-> FALSE, known |-> FALSE]]
  BY DEF Init
<1>2. /\ job \in [Store -> Jobs]
      /\ \A s \in Store : ~job[s].known /\ job[s].st = "WAITING_STABLE"
  <2>1. "WAITING_STABLE" \in States
    BY DEF States, Claimable
  <2> QED
    BY <1>1, <2>1 DEF Jobs
<1>3. pub \in [Store -> Publications] /\ \A s \in Store : pub[s].n = 0 /\ pub[s].st = "none"
  BY DraftValues DEF Init, Publications, Statuses
<1>4. net \in [Store -> Requests] /\ \A s \in Store : net[s].task = "none" /\ ~net[s].req
  BY DEF Init, Requests
<1>5. work \in [Worker -> Progress] /\ \A w \in Worker : work[w].pc = "idle" /\ Of(w) = None
  BY IdleFacts DEF Init, Of
<1>6. draft \in Drafts /\ draft.st = "none"
  BY DraftValues DEF Init, Drafts
<1>7. lease \in Leases /\ lease.owner = None /\ lease.tok = 0
  BY DEF Init, NoLease, Leases
<1>8. root = None /\ skuLock = None /\ None \notin Worker /\ upsets \in 0 .. MaxUpsets
  BY StoreAssumption DEF Init, Worker
<1>9. TypeOK
  BY <1>2, <1>3, <1>4, <1>5, <1>6, <1>7, <1>8 DEF TypeOK
<1>10. DraftInv
  BY <1>3, <1>5, <1>6 DEF DraftInv, FrozenForItsStore, Frozen, At
<1>11. TaskInv
  BY <1>2, <1>3, <1>4, <1>5 DEF TaskInv, OneTaskPerRun, Frozen, Told
<1> QED
  BY <1>9, <1>10, <1>11

(* Every variable always holds values the code can store in it. *)
THEOREM TypeCorrect == Spec => []TypeOK
BY AllStart, AllKept, PTL DEF Spec

(* A store publishes a version made for its own preset, and never one without *)
(* media, whatever leases lapse and workers overlap on the one shared draft.  *)
THEOREM VersionsFitTheirStore == Spec => []FrozenForItsStore
<1>1. DraftInv => FrozenForItsStore
  BY DEF DraftInv
<1> QED
  BY <1>1, AllStart, AllKept, PTL DEF Spec

(* A run freezes one publication, a task belongs to a publication its job knows  *)
(* of, and a job said to be submitted or done has its task, and has it done.     *)
THEOREM RunsHaveOneTask == Spec => []OneTaskPerRun
<1>1. TaskInv => OneTaskPerRun
  BY DEF TaskInv
<1> QED
  BY <1>1, AllStart, AllKept, PTL DEF Spec
===========================================================================
