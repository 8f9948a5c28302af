---------------------- MODULE ReviewOperations_proofs ----------------------
(***************************************************************************)
(* Proofs about the operation queue, for every set of tasks, keys and      *)
(* requests and every value of the bounds: type correctness and mutual     *)
(* exclusion; what follows from their inductive invariant - keys name one  *)
(* operation, a success is final, the queue implements the task locks of   *)
(* module TaskLocks; and what first runs is what was accepted.             *)
(***************************************************************************)
EXTENDS ReviewOperations, SequenceTheorems, TLAPS

USE DEF Op, NoOp

(* A transaction of a kind has the fields of that kind. *)
LEMMA TxnFields ==
  ASSUME NEW t \in Txn
  PROVE  /\ t.kind = "accept" => t \in AcceptTxn
         /\ t.kind = "edit" => t \in EditTxn
         /\ t.kind = "approve" => t \in ApproveTxn
         /\ t.kind \in {"retry", "begin"} => t \in OpTxn
         /\ t.kind = "finish" => t \in FinishTxn
         /\ t.kind \in {"recover", "event"} => t \in PlainTxn
BY DEF Txn, AcceptTxn, EditTxn, ApproveTxn, OpTxn, FinishTxn, PlainTxn

(* The runs that wait for a transaction are operations. *)
LEMMA RunsAreOps == ASSUME NEW t \in Txn PROVE RunsOf(t) \subseteq Op
BY TxnFields DEF RunsOf, ApproveTxn, OpTxn, FinishTxn, EditTxn, Txn

(* Queueing a transaction and taking the head of the chain keep it a *)
(* sequence of transactions.                                          *)
LEMMA ChainAppend ==
  ASSUME chain \in Seq(Txn), NEW t \in Txn, Enqueue(t)
  PROVE  /\ chain' \in Seq(Txn)
         /\ Len(chain') = Len(chain) + 1
         /\ \A i \in DOMAIN chain' :
              chain'[i] = IF i \in DOMAIN chain THEN chain[i] ELSE t
         /\ \A i \in DOMAIN chain : i \in DOMAIN chain' /\ i < Len(chain')
         /\ chain'[Len(chain')] = t
BY AppendProperties, LenProperties DEF Enqueue

(* Taking the head off saveChain leaves a sequence of transactions. *)
LEMMA ChainTail ==
  ASSUME chain \in Seq(Txn), chain # <<>>, chain' = Tail(chain)
  PROVE  /\ chain' \in Seq(Txn)
         /\ Len(chain') = Len(chain) - 1
         /\ \A i \in DOMAIN chain' : i + 1 \in DOMAIN chain /\ chain'[i] = chain[i + 1]
         /\ \A i \in DOMAIN chain : i # 1 => i - 1 \in DOMAIN chain' /\ chain'[i - 1] = chain[i]
         /\ Head(chain) \in Txn
         /\ 1 \in DOMAIN chain
         /\ Head(chain) = chain[1]
BY HeadTailProperties, LenProperties

-----------------------------------------------------------------------------
(* Type correctness.                                                       *)

(* Changing rows keeps the table of rows well formed. *)
LEMMA ChangedType ==
  ASSUME doc \in [Doc -> DocState], NEW saved \in SUBSET Doc, NEW dropped \in SUBSET Doc
  PROVE  Changed(saved, dropped) \in [Doc -> DocState]
<1>1. ASSUME NEW d \in Doc PROVE Saved(d) \in DocState
  <2>1. doc[d] \in [live : BOOLEAN, gen : Nat, version : Nat]
    BY DEF DocState
  <2>2. [doc[d] EXCEPT !.version = @ + 1] \in DocState
    BY <2>1 DEF DocState
  <2>3. [live |-> TRUE, gen |-> doc[d].gen + 1, version |-> 0] \in DocState
    BY <2>1 DEF DocState
  <2> QED
    BY <2>2, <2>3 DEF Saved
<1>2. ASSUME NEW d \in Doc PROVE [doc[d] EXCEPT !.live = FALSE] \in DocState
  BY DEF DocState
<1> QED
  BY <1>1, <1>2 DEF Changed

(* What a user asks to change are rows. *)
LEMMA EditsType ==
  ASSUME NEW t \in Task, NEW e \in Edits(t)
  PROVE  e[1] \in SUBSET Doc /\ e[2] \in SUBSET Doc
BY DEF Edits, SaveDraft, ChangePending, ReopenOrDelete, Reviews, LivePending, Doc

(* The store starts well formed. *)
LEMMA InitType == Init => TypeOK
<1> SUFFICES ASSUME Init PROVE TypeOK
  OBVIOUS
<1>1. PICK live \in SUBSET Doc : doc = [d \in Doc |-> Row(d \in live)]
  BY DEF Init
<1>2. \A d \in Doc : Row(d \in live) \in DocState /\ NoRow \in DocState
  BY DEF Row, NoRow, DocState
<1>3. doc \in [Doc -> DocState]
  BY <1>1, <1>2
<1>4. request \in [Op -> Request]
  BY ConstantsAssumption DEF Init
<1>5. chain \in Seq(Txn)
  BY EmptySeq DEF Init
<1>6. input \in [Op -> [Doc -> DocState]]
  BY <1>2 DEF Init
<1>7. attempt \in [Op -> 0..(RetryLimit + 1)]
  BY ConstantsAssumption DEF Init
<1>8. edits \in 0..MaxEdits /\ crashes \in 0..MaxCrash /\ writeFails \in 0..MaxWriteFail
  BY ConstantsAssumption DEF Init
<1> QED
  BY <1>3, <1>4, <1>5, <1>6, <1>7, <1>8 DEF Init, TypeOK, Status, ActiveStatus, Terminal, Place

(* A request of a client keeps the type. *)
LEMMA ClientType ==
  ASSUME TypeOK, Client PROVE TypeOK'
<1> USE DEF TypeOK, Client, ClientTurn, rowVars, budget
<1>1. ASSUME NEW k \in Key, NEW r \in Request, RequestOperation(k, r) PROVE TypeOK'
  <2> DEFINE t == [kind |-> "accept", key |-> k, request |-> r, seen |-> Seen(r)]
  <2>1. Seen(r) \in [Doc -> DocState]
    BY DEF Seen, NoRow, Row, DocState
  <2>2. t \in Txn /\ Enqueue(t)
    BY <1>1, <2>1 DEF Txn, AcceptTxn, RequestOperation
  <2> QED
    BY <1>1, <2>2, ChainAppend DEF RequestOperation
<1>2. ASSUME NEW o \in Op, RequestRetry(o) PROVE TypeOK'
  <2> DEFINE t == [kind |-> "retry", op |-> o]
  <2>1. t \in Txn /\ Enqueue(t)
    BY <1>2 DEF Txn, OpTxn, RequestRetry
  <2> QED
    BY <1>2, <2>1, ChainAppend DEF RequestRetry
<1>3. ASSUME NEW task \in Task, RequestEdit(task) PROVE TypeOK'
  <2>1. PICK e \in Edits(task) :
          Enqueue([kind |-> "edit", saved |-> e[1], dropped |-> e[2], owner |-> NoOp])
    BY <1>3 DEF RequestEdit
  <2> DEFINE t == [kind |-> "edit", saved |-> e[1], dropped |-> e[2], owner |-> NoOp]
  <2>2. t \in Txn /\ Enqueue(t)
    BY <2>1, EditsType DEF Txn, EditTxn
  <2>3. edits' \in 0..MaxEdits
    BY <1>3, ConstantsAssumption DEF RequestEdit
  <2> QED
    BY <1>3, <2>2, <2>3, ChainAppend DEF RequestEdit
<1>4. ASSUME RequestEvent PROVE TypeOK'
  <2> DEFINE t == [kind |-> "event"]
  <2>1. t \in Txn /\ Enqueue(t)
    BY <1>4 DEF Txn, PlainTxn, RequestEvent
  <2> QED
    BY <1>4, <2>1, ChainAppend DEF RequestEvent
<1> QED
  BY <1>1, <1>2, <1>3, <1>4 DEF Client

(* A step of kick or of an executor keeps the type. *)
LEMMA SchedulerType ==
  ASSUME TypeOK, NEW o \in Op, Kick(o) \/ Run(o) PROVE TypeOK'
<1> USE DEF TypeOK, rowVars, budget
<1>1. CASE Kick(o)
  <2> DEFINE t == [kind |-> "begin", op |-> o]
  <2>1. t \in Txn /\ Enqueue(t)
    BY <1>1 DEF Txn, OpTxn, Kick
  <2> QED
    BY <1>1, <2>1, ChainAppend DEF Kick, Place
<1>2. CASE Work(o)
  <2>1. PICK saved \in SUBSET Doc, dropped \in SUBSET Doc :
          Enqueue([kind |-> "edit", saved |-> saved, dropped |-> dropped, owner |-> o])
    BY <1>2 DEF Work, DocsIn
  <2> DEFINE t == [kind |-> "edit", saved |-> saved, dropped |-> dropped, owner |-> o]
  <2>2. t \in Txn /\ Enqueue(t)
    BY <2>1 DEF Txn, EditTxn
  <2>3. edits' \in 0..MaxEdits
    BY <1>2, ConstantsAssumption DEF Work
  <2> QED
    BY <1>2, <2>2, <2>3, ChainAppend DEF Work, Place
<1>3. CASE Approve(o)
  <2>0. PICK saved \in SUBSET Doc :
          Enqueue([kind |-> "approve", op |-> o, saved |-> saved])
    <3>1. DocsIn(Subjects(o)) \in SUBSET Doc
      BY DEF DocsIn
    <3> QED
      BY <1>3, <3>1 DEF Approve
  <2> DEFINE t == [kind |-> "approve", op |-> o, saved |-> saved]
  <2>1. t \in Txn /\ Enqueue(t)
    BY <1>3, <2>0 DEF Txn, ApproveTxn
  <2>2. edits' \in 0..MaxEdits
    BY <1>3, ConstantsAssumption DEF Approve
  <2> QED
    BY <1>3, <2>1, <2>2, ChainAppend DEF Approve, Place
<1>4. CASE Finish(o)
  <2>1. PICK outcomes \in {ResultOutcomes, ErrorOutcomes(o)}, place \in Place :
          FinishWith(o, outcomes, place)
    BY <1>4 DEF Finish, Place
  <2>2. PICK s \in outcomes : Enqueue([kind |-> "finish", op |-> o, status |-> s])
    BY <2>1 DEF FinishWith
  <2> DEFINE t == [kind |-> "finish", op |-> o, status |-> s]
  <2>3. s \in Outcome
    BY <2>1, <2>2 DEF ResultOutcomes, ErrorOutcomes, Outcome, Terminal
  <2>4. t \in Txn /\ Enqueue(t)
    BY <2>2, <2>3 DEF Txn, FinishTxn
  <2> QED
    BY <2>1, <2>4, ChainAppend DEF FinishWith
<1> QED
  BY <1>1, <1>2, <1>3, <1>4 DEF Run

(* A committed transaction keeps the type, whichever it is. *)
LEMMA CommitType ==
  ASSUME TypeOK, NEW t \in {chain[i] : i \in DOMAIN chain},
         \/ CommitReplay(t) \/ CommitAlias(t) \/ (\E o \in Op : CommitAccept(t, o))
         \/ CommitRetry(t) \/ CommitBegin(t) \/ CommitEdit(t) \/ CommitApprove(t)
         \/ CommitFinish(t) \/ CommitEvent(t) \/ CommitRecover(t)
  PROVE  TypeOK'
<1> USE DEF TypeOK, rowVars, budget, Written, Next1
<1>0. /\ chain # <<>> /\ t = Head(chain) /\ chain' = Tail(chain)
  BY DEF CommitReplay, CommitAlias, CommitAccept, CommitRetry, CommitBegin, CommitEdit,
         CommitApprove, CommitFinish, CommitEvent, CommitRecover
<1>1. chain' \in Seq(Txn) /\ t \in Txn
  BY <1>0, ChainTail
<1>2. CASE CommitReplay(t)
  BY <1>1, <1>2 DEF CommitReplay
<1>3. CASE CommitAlias(t)
  <2>1. t.key \in Key
    BY <1>1, <1>3, TxnFields DEF CommitAlias, AcceptTxn
  <2>2. PICK o \in Op : keys' = [keys EXCEPT ![o] = @ \cup {t.key}]
    BY <1>3 DEF CommitAlias, Twins, Lockers
  <2>3. keys' \in [Op -> SUBSET Key]
    BY <2>1, <2>2
  <2> QED
    BY <1>1, <1>3, <2>3 DEF CommitAlias
<1>4. ASSUME NEW o \in Op, CommitAccept(t, o) PROVE TypeOK'
  <2>1. t.key \in Key /\ t.request \in Request /\ t.seen \in [Doc -> DocState]
    BY <1>1, <1>4, TxnFields DEF CommitAccept, AcceptTxn
  <2>2. status' \in [Op -> Status] /\ request' \in [Op -> Request] /\ keys' \in [Op -> SUBSET Key]
    BY <1>4, <2>1 DEF CommitAccept, Status, ActiveStatus
  <2>3. input' \in [Op -> [Doc -> DocState]]
    BY <1>4, <2>1 DEF CommitAccept
  <2>4. attempt' \in [Op -> 0..(RetryLimit + 1)]
    BY SMTT(30), <1>4, ConstantsAssumption DEF CommitAccept
  <2> QED
    BY <1>1, <1>4, <2>2, <2>3, <2>4 DEF CommitAccept
<1>5. CASE CommitRetry(t)
  <2>1. t.op \in Op
    BY <1>1, <1>5, TxnFields DEF CommitRetry, OpTxn
  <2> QED
    BY <1>1, <1>5, <2>1 DEF CommitRetry, Status, ActiveStatus
<1>6. CASE CommitBegin(t)
  <2>1. t.op \in Op
    BY <1>1, <1>6, TxnFields DEF CommitBegin, OpTxn
  <2>2. attempt' \in [Op -> 0..(RetryLimit + 1)]
    <3> DEFINE next == IF attempt[t.op] > RetryLimit THEN attempt[t.op] ELSE attempt[t.op] + 1
    <3>1. RetryLimit \in Nat /\ attempt[t.op] \in 0..(RetryLimit + 1)
      BY <2>1, ConstantsAssumption
    <3>2. next \in 0..(RetryLimit + 1)
      BY SMTT(30), <3>1
    <3>3. attempt' = [attempt EXCEPT ![t.op] = next]
      BY <1>6 DEF CommitBegin
    <3> HIDE DEF next
    <3> QED
      BY <3>2, <3>3
  <2> QED
    BY <1>1, <1>6, <2>1, <2>2 DEF CommitBegin, Status, ActiveStatus, Place
<1>7. CASE CommitEdit(t)
  <2>1. t.saved \in SUBSET Doc /\ t.dropped \in SUBSET Doc /\ t.owner \in Op \cup {0}
    BY <1>1, <1>7, TxnFields DEF CommitEdit, EditTxn
  <2>2. doc' \in [Doc -> DocState]
    BY <1>7, <2>1, ChangedType DEF CommitEdit
  <2> QED
    BY <1>1, <1>7, <2>1, <2>2 DEF CommitEdit, Place
<1>8. CASE CommitApprove(t)
  <2>1. t.saved \in SUBSET Doc /\ t.op \in Op
    BY <1>1, <1>8, TxnFields DEF CommitApprove, ApproveTxn
  <2>2. doc' \in [Doc -> DocState]
    <3>1. (DocsIn(Subjects(t.op)) \ t.saved) \in SUBSET Doc
      BY DEF DocsIn
    <3> QED
      BY <1>8, <2>1, <3>1, ChangedType DEF CommitApprove
  <2> QED
    BY <1>1, <1>8, <2>1, <2>2 DEF CommitApprove, Place, Status, Terminal
<1>9. CASE CommitFinish(t)
  <2>1. t.op \in Op /\ t.status \in Status
    BY <1>1, <1>9, TxnFields DEF CommitFinish, FinishTxn, Outcome, Status, ActiveStatus
  <2> QED
    BY <1>1, <1>9, <2>1 DEF CommitFinish, Place
<1>10. CASE CommitEvent(t)
  BY <1>1, <1>10 DEF CommitEvent
<1>11. CASE CommitRecover(t)
  BY <1>1, <1>11 DEF CommitRecover, Recovered, Status, ActiveStatus
<1> QED
  BY <1>2, <1>3, <1>4, <1>5, <1>6, <1>7, <1>8, <1>9, <1>10, <1>11

(* A rejected or an unwritten transaction keeps the type. *)
LEMMA LossType ==
  ASSUME TypeOK, Reject \/ WriteFails PROVE TypeOK'
<1> USE DEF TypeOK, rowVars, budget
<1>1. chain # <<>> /\ chain' = Tail(chain)
  BY DEF Reject, WriteFails
<1>2. chain' \in Seq(Txn)
  BY <1>1, ChainTail
<1>3. CASE Reject
  BY <1>2, <1>3 DEF Reject, Place
<1>4. CASE WriteFails
  <2>1. writeFails' \in 0..MaxWriteFail
    BY <1>4, ConstantsAssumption DEF WriteFails
  <2>2. running' \in [Op -> Place]
    BY <1>4 DEF WriteFails, AfterLoss, Place
  <2>3. service' \in {"down", "starting", "up", "stopping"}
    BY <1>4 DEF WriteFails
  <2> QED
    BY <1>2, <1>4, <2>1, <2>2, <2>3 DEF WriteFails
<1> QED
  BY <1>3, <1>4

(* Start, crash and stop keep the type. *)
LEMMA ProcessType ==
  ASSUME TypeOK, Process PROVE TypeOK'
<1> USE DEF TypeOK, rowVars, budget
<1>1. CASE Start
  <2> DEFINE t == [kind |-> "recover"]
  <2>1. t \in Txn /\ Enqueue(t)
    BY <1>1 DEF Txn, PlainTxn, Start
  <2> QED
    BY <1>1, <2>1, ChainAppend DEF Start
<1>2. CASE Crash
  <2>1. crashes' \in 0..MaxCrash
    BY <1>2, ConstantsAssumption DEF Crash
  <2> QED
    BY <1>2, <2>1, EmptySeq DEF Crash, Place
<1>3. CASE Stop
  BY <1>3 DEF Stop
<1>4. CASE Stopped
  BY <1>4 DEF Stopped
<1> QED
  BY <1>1, <1>2, <1>3, <1>4 DEF Process

(* Every step keeps the type. *)
LEMMA NextType == TypeOK /\ [Next]_vars => TypeOK'
<1> SUFFICES ASSUME TypeOK, [Next]_vars PROVE TypeOK'
  OBVIOUS
<1>1. CASE UNCHANGED vars
  BY <1>1 DEF TypeOK, vars, rowVars, budget
<1>2. CASE Commit
  BY <1>2, CommitType DEF Commit
<1> QED
  BY <1>1, <1>2, ClientType, SchedulerType, LossType, ProcessType DEF Next

(* The state of the queue keeps its type. *)
THEOREM TypeCorrect == Spec => []TypeOK
  BY InitType, NextType, PTL DEF Spec

-----------------------------------------------------------------------------
(* Mutual exclusion of operations on a task.  That two active operations   *)
(* never share a task is not inductive: a run sets the status of its row   *)
(* without looking at other rows, so its row must have been active all the *)
(* while (RunOwnsItsRow), which in turn needs that no retry or recovery    *)
(* slips in between the transactions of a run (ChainDiscipline).           *)

IndInv == TypeOK /\ OneOperationPerTask /\ RunOwnsItsRow /\ ChainDiscipline

(* The inductive invariant holds when the process is first started. *)
LEMMA InitInd == Init => IndInv
<1> SUFFICES ASSUME Init PROVE IndInv
  OBVIOUS
<1>1. TypeOK
  BY InitType
<1>2. chain = <<>> /\ Len(chain) = 0 /\ DOMAIN chain = {}
  BY EmptySeq, LenProperties, <1>1 DEF Init, TypeOK
<1> QED
  BY <1>1, <1>2 DEF Init, IndInv, OneOperationPerTask, Active, ActiveStatus, RunOwnsItsRow,
     ChainDiscipline, RunsAwaitTheirTxn, RetriesPrecedeRuns, RecoveryAlone

(* A client's call leaves the rows and the running map alone and appends a *)
(* transaction that no run waits for.                                      *)
ClientTxn(t) ==
  /\ RunsOf(t) = {} /\ t.kind # "recover"
  /\ t.kind = "retry" => t.op \in Op /\ Present(t.op) /\ running[t.op] = "idle"

(* A client only appends a transaction that no run waits for. *)
LEMMA ClientAppends ==
  ASSUME TypeOK, Client
  PROVE  /\ UNCHANGED <<status, request, running, service>> /\ service = "up"
         /\ \E t \in Txn : Enqueue(t) /\ ClientTxn(t)
<1> DEFINE Goal == /\ UNCHANGED <<status, request, running, service>> /\ service = "up"
                   /\ \E t \in Txn : Enqueue(t) /\ ClientTxn(t)
<1> USE DEF ClientTurn, rowVars
<1>1. ASSUME NEW k \in Key, NEW r \in Request, RequestOperation(k, r) PROVE Goal
  <2> DEFINE t == [kind |-> "accept", key |-> k, request |-> r, seen |-> Seen(r)]
  <2>1. Seen(r) \in [Doc -> DocState]
    BY DEF Seen, NoRow, Row, DocState, TypeOK
  <2>2. t \in Txn /\ ClientTxn(t)
    BY <2>1 DEF Txn, AcceptTxn, RunsOf, ClientTxn
  <2> QED
    BY <1>1, <2>2 DEF RequestOperation
<1>2. ASSUME NEW o \in Op, RequestRetry(o) PROVE Goal
  <2> DEFINE t == [kind |-> "retry", op |-> o]
  <2>1. t \in Txn /\ ClientTxn(t)
    BY <1>2 DEF Txn, OpTxn, RunsOf, ClientTxn, RequestRetry, AtRest
  <2> QED
    BY <1>2, <2>1 DEF RequestRetry, AtRest
<1>3. ASSUME NEW task \in Task, RequestEdit(task) PROVE Goal
  <2>1. PICK e \in Edits(task) :
          Enqueue([kind |-> "edit", saved |-> e[1], dropped |-> e[2], owner |-> NoOp])
    BY <1>3 DEF RequestEdit
  <2> DEFINE t == [kind |-> "edit", saved |-> e[1], dropped |-> e[2], owner |-> NoOp]
  <2>2. t \in Txn /\ ClientTxn(t)
    BY EditsType DEF Txn, EditTxn, RunsOf, ClientTxn
  <2> QED
    BY <1>3, <2>1, <2>2 DEF RequestEdit
<1>4. ASSUME RequestEvent PROVE Goal
  <2> DEFINE t == [kind |-> "event"]
  <2>1. t \in Txn /\ ClientTxn(t)
    BY DEF Txn, PlainTxn, RunsOf, ClientTxn
  <2> QED
    BY <1>4, <2>1 DEF RequestEvent
<1> QED
  BY <1>1, <1>2, <1>3, <1>4 DEF Client

(* A request of a client keeps the inductive invariant. *)
LEMMA ClientInd ==
  ASSUME IndInv, Client PROVE IndInv'
<1> USE DEF IndInv
<1>1. /\ UNCHANGED <<status, request, running, service>> /\ service = "up"
      /\ \E t \in Txn : Enqueue(t) /\ ClientTxn(t)
  BY ClientAppends
<1>2. PICK t \in Txn : Enqueue(t) /\ ClientTxn(t)
  BY <1>1
<1>3. chain \in Seq(Txn) /\ DOMAIN chain = 1..Len(chain) /\ Len(chain) \in Nat
  BY LenProperties DEF TypeOK
<1>4. /\ DOMAIN chain' = 1..(Len(chain) + 1)
      /\ \A i \in DOMAIN chain' : chain'[i] = IF i \in DOMAIN chain THEN chain[i] ELSE t
  BY <1>2, <1>3, ChainAppend, LenProperties
<1>5. RunsAwaitTheirTxn'
  BY <1>1, <1>2, <1>3, <1>4 DEF ChainDiscipline, RunsAwaitTheirTxn, ClientTxn, RunsOf, AwaitedAt
<1>6. RetriesPrecedeRuns'
  BY <1>1, <1>2, <1>3, <1>4 DEF ChainDiscipline, RetriesPrecedeRuns, ClientTxn, Present
<1>7. RecoveryAlone'
  BY <1>1, <1>2, <1>3, <1>4 DEF ChainDiscipline, RecoveryAlone, ClientTxn
<1>8. OneOperationPerTask' /\ RunOwnsItsRow'
  BY <1>1 DEF OneOperationPerTask, RunOwnsItsRow, Active, Subjects
<1> QED
  BY <1>5, <1>6, <1>7, <1>8, ClientType DEF ChainDiscipline

(* The scheduler and the executors append one transaction of a run that has *)
(* none in flight and let the run wait for it.                              *)
RunTxn(t, o, place) ==
  /\ RunsOf(t) = {o} /\ t.kind \notin {"retry", "recover"} /\ AwaitedAt(t, place)
  /\ running' = [running EXCEPT ![o] = place]
  /\ \/ /\ running[o] = "idle" /\ t.kind = "begin" /\ t.op = o /\ service = "up"
        /\ status[o] \in {"QUEUED", "RETRY_WAIT"}
     \/ running[o] \in {"exec", "failed"} /\ t.kind # "begin"

(* A run that moves appends just the transaction it then waits for. *)
LEMMA RunAppends ==
  ASSUME TypeOK, NEW o \in Op, Kick(o) \/ Run(o)
  PROVE  /\ UNCHANGED <<status, request, service>>
         /\ \E t \in Txn, place \in Place : Enqueue(t) /\ RunTxn(t, o, place)
<1> DEFINE Goal == /\ UNCHANGED <<status, request, service>>
                   /\ \E t \in Txn, place \in Place : Enqueue(t) /\ RunTxn(t, o, place)
<1> USE DEF rowVars, AwaitedAt
<1>0. o # NoOp
  OBVIOUS
<1>1. CASE Kick(o)
  <2> DEFINE t == [kind |-> "begin", op |-> o]
  <2>1. t \in Txn /\ RunsOf(t) = {o} /\ "begin" \in Place
    BY DEF Txn, OpTxn, RunsOf, Place
  <2>2. RunTxn(t, o, "begin")
    BY <1>1, <2>1 DEF Kick, Startable, RunTxn
  <2> QED
    BY <1>1, <2>1, <2>2 DEF Kick
<1>2. CASE Work(o)
  <2>1. PICK saved \in SUBSET Doc, dropped \in SUBSET Doc :
          Enqueue([kind |-> "edit", saved |-> saved, dropped |-> dropped, owner |-> o])
    BY <1>2 DEF Work, DocsIn
  <2> DEFINE t == [kind |-> "edit", saved |-> saved, dropped |-> dropped, owner |-> o]
  <2>2. t \in Txn /\ RunsOf(t) = {o} /\ "save" \in Place
    BY <1>0 DEF Txn, EditTxn, RunsOf, Place
  <2>3. RunTxn(t, o, "save")
    BY <1>2, <2>2 DEF Work, RunTxn
  <2> QED
    BY <1>2, <2>1, <2>2, <2>3 DEF Work
<1>3. CASE Approve(o)
  <2>0. PICK saved \in SUBSET Doc :
          Enqueue([kind |-> "approve", op |-> o, saved |-> saved])
    <3>1. DocsIn(Subjects(o)) \in SUBSET Doc
      BY DEF DocsIn
    <3> QED
      BY <1>3, <3>1 DEF Approve
  <2> DEFINE t == [kind |-> "approve", op |-> o, saved |-> saved]
  <2>1. t \in Txn /\ RunsOf(t) = {o} /\ "approve" \in Place
    BY DEF Txn, ApproveTxn, RunsOf, Place
  <2>2. RunTxn(t, o, "approve")
    BY <1>3, <2>0, <2>1 DEF Approve, RunTxn
  <2> QED
    BY <1>3, <2>0, <2>1, <2>2 DEF Approve
<1>4. CASE Finish(o)
  <2>1. PICK outcomes \in {ResultOutcomes, ErrorOutcomes(o)}, place \in {"result", "error"} :
          FinishWith(o, outcomes, place) /\ running[o] \in {"exec", "failed"}
    BY <1>4 DEF Finish
  <2>2. PICK s \in outcomes : Enqueue([kind |-> "finish", op |-> o, status |-> s])
    BY <2>1 DEF FinishWith
  <2> DEFINE t == [kind |-> "finish", op |-> o, status |-> s]
  <2>3. s \in Outcome
    BY <2>1, <2>2 DEF ResultOutcomes, ErrorOutcomes, Outcome, Terminal
  <2>4. t \in Txn /\ RunsOf(t) = {o} /\ place \in Place
    BY <2>1, <2>3 DEF Txn, FinishTxn, RunsOf, Place
  <2>5. RunTxn(t, o, place)
    BY <2>1, <2>4 DEF FinishWith, RunTxn
  <2> QED
    BY <2>1, <2>2, <2>4, <2>5 DEF FinishWith
<1> QED
  BY <1>1, <1>2, <1>3, <1>4 DEF Run

(* A step of kick or of an executor keeps the inductive invariant. *)
LEMMA SchedulerInd ==
  ASSUME IndInv, NEW o \in Op, Kick(o) \/ Run(o) PROVE IndInv'
<1> USE DEF IndInv
<1>1. UNCHANGED <<status, request, service>>
  BY RunAppends
<1>2. PICK t \in Txn, place \in Place : Enqueue(t) /\ RunTxn(t, o, place)
  BY RunAppends
<1>3. chain \in Seq(Txn) /\ DOMAIN chain = 1..Len(chain) /\ Len(chain) \in Nat
  BY LenProperties DEF TypeOK
<1>4. /\ DOMAIN chain' = 1..(Len(chain) + 1) /\ Len(chain') = Len(chain) + 1
      /\ \A i \in DOMAIN chain' : chain'[i] = IF i \in DOMAIN chain THEN chain[i] ELSE t
  BY <1>2, <1>3, ChainAppend, LenProperties
<1>5. /\ running \in [Op -> Place] /\ running'[o] = place
      /\ \A p \in Op : p # o => running'[p] = running[p]
  BY <1>2 DEF TypeOK, RunTxn
<1>6. \A i \in DOMAIN chain : o \notin RunsOf(chain[i])
  BY <1>2 DEF RunTxn, ChainDiscipline, RunsAwaitTheirTxn, AwaitedAt
<1>7. RunsAwaitTheirTxn'
  <2>1. RunsOf(t) = {o} /\ AwaitedAt(t, place)
    BY <1>2 DEF RunTxn
  <2>2. ASSUME NEW i \in DOMAIN chain', NEW p \in RunsOf(chain'[i])
        PROVE  AwaitedAt(chain'[i], running'[p])
    <3>1. CASE i \in DOMAIN chain
      <4>1. p \in Op /\ p # o /\ AwaitedAt(chain[i], running[p])
        BY <1>4, <1>6, <2>2, <3>1 DEF ChainDiscipline, RunsAwaitTheirTxn, RunsOf
      <4> QED
        BY <1>4, <1>5, <3>1, <4>1
    <3>2. CASE i \notin DOMAIN chain
      BY <1>4, <1>5, <2>1, <2>2, <3>2
    <3> QED
      BY <3>1, <3>2
  <2>3. ASSUME NEW i \in DOMAIN chain', NEW p \in RunsOf(chain'[i]),
               NEW j \in DOMAIN chain', p \in RunsOf(chain'[j])
        PROVE  i = j
    <3>1. CASE i \in DOMAIN chain /\ j \in DOMAIN chain
      BY <1>4, <2>3, <3>1 DEF ChainDiscipline, RunsAwaitTheirTxn
    <3>2. CASE i \in DOMAIN chain /\ j \notin DOMAIN chain
      BY <1>4, <1>6, <2>1, <2>3, <3>2
    <3>3. CASE i \notin DOMAIN chain /\ j \in DOMAIN chain
      BY <1>4, <1>6, <2>1, <2>3, <3>3
    <3>4. CASE i \notin DOMAIN chain /\ j \notin DOMAIN chain
      BY <1>3, <1>4, <3>4
    <3> QED
      BY <3>1, <3>2, <3>3, <3>4
  <2> QED
    BY <2>2, <2>3 DEF RunsAwaitTheirTxn
<1>8. RetriesPrecedeRuns'
  <2> SUFFICES ASSUME NEW i \in DOMAIN chain', chain'[i].kind = "retry"
               PROVE  /\ status'[chain'[i].op] # "ABSENT"
                      /\ \/ running'[chain'[i].op] = "idle"
                         \/ /\ running'[chain'[i].op] = "begin"
                            /\ \E j \in DOMAIN chain' :
                                 j > i /\ chain'[j].kind = "begin" /\ chain'[j].op = chain'[i].op
    BY DEF RetriesPrecedeRuns, Present
  <2>1. i \in DOMAIN chain /\ chain'[i] = chain[i] /\ chain[i].op \in Op
    <3>1. i \in DOMAIN chain /\ chain'[i] = chain[i]
      BY <1>2, <1>4 DEF RunTxn
    <3> QED
      BY <1>3, <3>1, ElementOfSeq, TxnFields DEF OpTxn
  <2>2. /\ Present(chain[i].op)
        /\ \/ running[chain[i].op] = "idle"
           \/ /\ running[chain[i].op] = "begin"
              /\ \E j \in DOMAIN chain :
                   j > i /\ chain[j].kind = "begin" /\ chain[j].op = chain[i].op
    BY <2>1 DEF ChainDiscipline, RetriesPrecedeRuns
  <2>3. CASE chain[i].op # o
    <3>1. running'[chain[i].op] = running[chain[i].op] /\ status' = status
      BY <1>1, <1>5, <2>1, <2>3
    <3>2. \A j \in DOMAIN chain : j \in DOMAIN chain' /\ chain'[j] = chain[j]
      BY <1>3, <1>4
    <3> QED
      BY <2>1, <2>2, <3>1, <3>2 DEF Present
  <2>4. CASE chain[i].op = o
    <3>1. t.kind = "begin" /\ t.op = o /\ place = "begin"
      BY <1>2, <2>2, <2>4 DEF RunTxn, AwaitedAt
    <3>2. Len(chain') \in DOMAIN chain' /\ Len(chain') > i /\ chain'[Len(chain')] = t
      BY <1>3, <1>4, <2>1
    <3> QED
      BY <1>1, <1>5, <2>1, <2>2, <2>4, <3>1, <3>2 DEF Present
  <2> QED
    BY <2>3, <2>4
<1>9. RecoveryAlone'
  <2>1. service \notin {"down", "starting"}
    BY <1>2 DEF RunTxn, ChainDiscipline, RecoveryAlone
  <2>2. \A i \in DOMAIN chain' : chain'[i].kind # "recover"
    BY <1>2, <1>4, <2>1 DEF RunTxn, ChainDiscipline, RecoveryAlone
  <2> QED
    BY <1>1, <2>1, <2>2 DEF RecoveryAlone
<1>10. OneOperationPerTask'
  BY <1>1 DEF OneOperationPerTask, Active, Subjects
<1>11. RunOwnsItsRow'
  BY <1>1, <1>2, <1>5 DEF RunOwnsItsRow, RunTxn, AwaitedAt
<1> QED
  BY <1>7, <1>8, <1>9, <1>10, <1>11, SchedulerType DEF ChainDiscipline

(* Whatever becomes of the head of the chain - written, rejected or lost -   *)
(* the rest stays in step with the running map: only the run that waited for *)
(* the head moves, and nothing else in the chain concerns that run.          *)
LEMMA TailDiscipline ==
  ASSUME TypeOK, ChainDiscipline, chain # <<>>, chain' = Tail(chain),
         running' \in [Op -> Place], status' \in [Op -> Status],
         \A o \in Op : Present(o) => status'[o] # "ABSENT",
         \A o \in Op \ RunsOf(Head(chain)) : running'[o] = running[o],
         \/ Head(chain).kind # "recover" /\ service' = service
         \/ Head(chain).kind = "recover" /\ service' \in {"up", "down"}
  PROVE  ChainDiscipline'
<1> DEFINE t == Head(chain)
<1>1. /\ chain' \in Seq(Txn) /\ Len(chain') = Len(chain) - 1 /\ t \in Txn
      /\ 1 \in DOMAIN chain /\ t = chain[1]
      /\ \A i \in DOMAIN chain' : i + 1 \in DOMAIN chain /\ chain'[i] = chain[i + 1]
      /\ \A i \in DOMAIN chain : i # 1 => i - 1 \in DOMAIN chain' /\ chain'[i - 1] = chain[i]
  BY ChainTail DEF TypeOK
<1>2. /\ DOMAIN chain = 1..Len(chain) /\ Len(chain) \in Nat
      /\ DOMAIN chain' = 1..Len(chain') /\ Len(chain') \in Nat
  BY <1>1, LenProperties DEF TypeOK
<1>3. \A i \in DOMAIN chain' : \A o \in RunsOf(chain'[i]) : o \in Op \ RunsOf(t)
  BY <1>1, <1>2 DEF ChainDiscipline, RunsAwaitTheirTxn, RunsOf
<1>4. RunsAwaitTheirTxn'
  <2>1. ASSUME NEW i \in DOMAIN chain', NEW o \in RunsOf(chain'[i])
        PROVE  AwaitedAt(chain'[i], running'[o])
    BY <1>1, <1>3 DEF ChainDiscipline, RunsAwaitTheirTxn
  <2>2. ASSUME NEW i \in DOMAIN chain', NEW o \in RunsOf(chain'[i]),
               NEW j \in DOMAIN chain', o \in RunsOf(chain'[j])
        PROVE  i = j
    <3>1. i + 1 = j + 1
      BY <1>1, <2>2 DEF ChainDiscipline, RunsAwaitTheirTxn
    <3> QED
      BY <1>2, <3>1
  <2> QED
    BY <2>1, <2>2 DEF RunsAwaitTheirTxn
<1>5. RetriesPrecedeRuns'
  <2> SUFFICES ASSUME NEW i \in DOMAIN chain', chain'[i].kind = "retry"
               PROVE  /\ status'[chain'[i].op] # "ABSENT"
                      /\ \/ running'[chain'[i].op] = "idle"
                         \/ /\ running'[chain'[i].op] = "begin"
                            /\ \E j \in DOMAIN chain' :
                                 j > i /\ chain'[j].kind = "begin" /\ chain'[j].op = chain'[i].op
    BY DEF RetriesPrecedeRuns, Present
  <2> DEFINE o == chain'[i].op
  <2>1. i + 1 \in DOMAIN chain /\ chain'[i] = chain[i + 1] /\ o \in Op
    <3>1. chain'[i] \in Txn
      BY <1>1, <1>2, ElementOfSeq
    <3> QED
      BY <1>1, <3>1, TxnFields DEF OpTxn
  <2>2. /\ Present(o)
        /\ \/ running[o] = "idle"
           \/ /\ running[o] = "begin"
              /\ \E j \in DOMAIN chain : j > i + 1 /\ chain[j].kind = "begin" /\ chain[j].op = o
    BY <2>1 DEF ChainDiscipline, RetriesPrecedeRuns
  <2>3. o \notin RunsOf(t)
    <3>1. CASE running[o] = "idle"
      BY <1>1, <3>1 DEF ChainDiscipline, RunsAwaitTheirTxn, AwaitedAt
    <3>2. CASE running[o] # "idle"
      <4>1. PICK j \in DOMAIN chain : j > i + 1 /\ chain[j].kind = "begin" /\ chain[j].op = o
        BY <2>2, <3>2
      <4>2. o \in RunsOf(chain[j]) /\ j # 1
        BY <1>2, <2>1, <4>1 DEF RunsOf
      <4> QED
        BY <1>1, <4>2 DEF ChainDiscipline, RunsAwaitTheirTxn
    <3> QED
      BY <3>1, <3>2
  <2>4. status'[o] # "ABSENT" /\ running'[o] = running[o]
    BY <2>1, <2>2, <2>3
  <2>5. CASE running[o] = "idle"
    BY <2>4, <2>5
  <2>6. CASE running[o] # "idle"
    <3>1. PICK j \in DOMAIN chain : j > i + 1 /\ chain[j].kind = "begin" /\ chain[j].op = o
      BY <2>2, <2>6
    <3>2. j - 1 \in DOMAIN chain' /\ j - 1 > i /\ chain'[j - 1] = chain[j]
      BY <1>1, <1>2, <3>1
    <3> QED
      BY <2>2, <2>4, <2>6, <3>1, <3>2
  <2> QED
    BY <2>5, <2>6
<1>6. RecoveryAlone'
  <2>1. CASE t.kind = "recover"
    <3>1. service = "starting" /\ Len(chain) = 1
      BY <1>1, <2>1 DEF ChainDiscipline, RecoveryAlone
    <3>2. Len(chain') = 0 /\ DOMAIN chain' = {}
      BY <1>1, <1>2, <3>1
    <3>3. RunsOf(t) = {} /\ \A o \in Op : running[o] = "idle"
      BY <2>1, <3>1 DEF RunsOf, ChainDiscipline, RecoveryAlone
    <3> QED
      BY <2>1, <3>2, <3>3 DEF RecoveryAlone
  <2>2. CASE t.kind # "recover"
    <3>1. service \notin {"starting", "down"} /\ service' = service
      BY <1>1, <1>2, <2>2 DEF ChainDiscipline, RecoveryAlone
    <3>2. \A i \in DOMAIN chain' : chain'[i].kind # "recover"
      BY <1>1, <3>1 DEF ChainDiscipline, RecoveryAlone
    <3> QED
      BY <3>1, <3>2 DEF RecoveryAlone
  <2> QED
    BY <2>1, <2>2
<1> QED
  BY <1>4, <1>5, <1>6 DEF ChainDiscipline

(* Locks stay disjoint as long as nobody becomes active. *)
LEMMA NoNewLocks ==
  ASSUME OneOperationPerTask, request' = request,
         \A o \in Op : status'[o] \in ActiveStatus => status[o] \in ActiveStatus
  PROVE  OneOperationPerTask'
BY DEF OneOperationPerTask, Active, Subjects

(* A committed transaction keeps the inductive invariant. *)
LEMMA CommitInd ==
  ASSUME IndInv, Commit PROVE IndInv'
<1> USE DEF IndInv
<1>1. PICK t \in {chain[i] : i \in DOMAIN chain} :
        \/ CommitReplay(t) \/ CommitAlias(t) \/ (\E o \in Op : CommitAccept(t, o))
        \/ CommitRetry(t) \/ CommitBegin(t) \/ CommitEdit(t) \/ CommitApprove(t)
        \/ CommitFinish(t) \/ CommitEvent(t) \/ CommitRecover(t)
  BY DEF Commit
<1>2. TypeOK'
  BY <1>1, CommitType
<1>3. chain # <<>> /\ t = Head(chain) /\ chain' = Tail(chain)
  BY <1>1 DEF CommitReplay, CommitAlias, CommitAccept, CommitRetry, CommitBegin, CommitEdit,
     CommitApprove, CommitFinish, CommitEvent, CommitRecover, Written, Next1
<1>4. t \in Txn /\ 1 \in DOMAIN chain /\ t = chain[1]
  BY <1>3, ChainTail DEF TypeOK
<1>5. \A o \in RunsOf(t) : AwaitedAt(t, running[o])
  BY <1>4 DEF ChainDiscipline, RunsAwaitTheirTxn
<1>6. /\ status \in [Op -> Status] /\ status' \in [Op -> Status]
      /\ running \in [Op -> Place] /\ running' \in [Op -> Place]
  BY <1>2 DEF TypeOK
<1> DEFINE Rest == OneOperationPerTask' /\ RunOwnsItsRow' /\ ChainDiscipline'
<1> USE DEF Written, Next1, rowVars, budget
<1>7. ASSUME CommitReplay(t) \/ CommitAlias(t) \/ CommitEvent(t) PROVE Rest
  <2>1. UNCHANGED <<status, request, running, service>> /\ t.kind # "recover"
    BY <1>7 DEF CommitReplay, CommitAlias, CommitEvent
  <2>2. ChainDiscipline'
    BY <1>3, <1>6, <2>1, TailDiscipline DEF Present
  <2> QED
    BY <2>1, <2>2, NoNewLocks DEF RunOwnsItsRow
<1>8. ASSUME NEW o \in Op, CommitAccept(t, o) PROVE Rest
  <2>1. /\ status' = [status EXCEPT ![o] = "QUEUED"] /\ request' = [request EXCEPT ![o] = t.request]
        /\ running' = running /\ service' = service /\ t.kind = "accept" /\ ~Present(o)
    BY <1>8 DEF CommitAccept
  <2>2. running[o] = "idle"
    BY <2>1 DEF RunOwnsItsRow, Present
  <2>3. RunOwnsItsRow'
    BY <1>6, <2>1, <2>2 DEF RunOwnsItsRow
  <2>4. ChainDiscipline'
    BY <1>3, <1>6, <2>1, TailDiscipline DEF Present
  <2>5. \A p \in Op : Active(p) => Subjects(p) \cap SubjectsOf[t.request] = {}
    <3>1. Accepted(t)
      BY <1>8 DEF CommitAccept
    <3>2. Lockers(SubjectsOf[t.request], NoOp) = {}
      BY <3>1 DEF Accepted
    <3> QED
      BY <3>2 DEF Lockers
  <2>6. request \in [Op -> Request]
    BY DEF TypeOK
  <2>7. OneOperationPerTask'
    <3>1. \A p \in Op : p # o => status'[p] = status[p] /\ request'[p] = request[p]
      BY <1>6, <2>1, <2>6
    <3>2. request'[o] = t.request
      BY <2>1, <2>6
    <3> QED
      BY <2>5, <3>1, <3>2 DEF OneOperationPerTask, Active, Subjects
  <2> QED
    BY <2>3, <2>4, <2>7
<1>9. ASSUME CommitRetry(t) PROVE Rest
  <2>1. t.op \in Op /\ t.kind = "retry"
    BY <1>4, <1>9, TxnFields DEF CommitRetry, OpTxn
  <2>2. Present(t.op) /\ running[t.op] \in {"idle", "begin"}
    BY <1>4, <2>1 DEF ChainDiscipline, RetriesPrecedeRuns
  <2>3. /\ UNCHANGED <<request, running, service>>
        /\ \A p \in Op : p # t.op => status'[p] = status[p]
        /\ status'[t.op] \in {status[t.op], "QUEUED"}
    BY <1>6, <1>9 DEF CommitRetry
  <2>4. RunOwnsItsRow'
    BY <2>1, <2>2, <2>3 DEF RunOwnsItsRow
  <2>5. ChainDiscipline'
    BY <1>3, <1>6, <2>1, <2>3, TailDiscipline DEF Present
  <2>6. OneOperationPerTask'
    <3>1. CASE Requeued(t)
      <4>1. \A p \in Op : p # t.op /\ Active(p) => Subjects(p) \cap Subjects(t.op) = {}
        BY <1>9, <3>1 DEF CommitRetry, RetryConflict, Lockers
      <4> QED
        BY <2>1, <2>3, <4>1 DEF OneOperationPerTask, Active, Subjects
    <3>2. CASE ~Requeued(t)
      BY <1>9, <3>2, NoNewLocks DEF CommitRetry
    <3> QED
      BY <3>1, <3>2
  <2> QED
    BY <2>4, <2>5, <2>6
<1>10. ASSUME CommitBegin(t) PROVE Rest
  <2>1. t.op \in Op /\ t.kind = "begin" /\ RunsOf(t) = {t.op}
    BY <1>4, <1>10, TxnFields DEF CommitBegin, OpTxn, RunsOf
  <2>2. running[t.op] = "begin" /\ status[t.op] \in {"QUEUED", "RETRY_WAIT"}
    BY <1>5, <2>1 DEF AwaitedAt, RunOwnsItsRow
  <2>3. /\ UNCHANGED <<request, service>>
        /\ status' = [status EXCEPT ![t.op] = "RUNNING"]
        /\ running' = [running EXCEPT ![t.op] = "exec"]
    BY <1>10 DEF CommitBegin
  <2>4. ChainDiscipline'
    BY <1>3, <1>6, <2>1, <2>3, TailDiscipline DEF Present
  <2>5. OneOperationPerTask'
    BY <1>6, <2>2, <2>3, NoNewLocks DEF ActiveStatus
  <2>6. RunOwnsItsRow'
    BY <1>6, <2>1, <2>3 DEF RunOwnsItsRow
  <2> QED
    BY <2>4, <2>5, <2>6
<1>11. ASSUME CommitEdit(t) PROVE Rest
  <2>1. t.kind = "edit" /\ RunsOf(t) = {t.owner} \cap Op
    BY <1>11 DEF CommitEdit, RunsOf
  <2>2. /\ UNCHANGED <<status, request, service>>
        /\ running' = IF t.owner = NoOp THEN running ELSE [running EXCEPT ![t.owner] = "exec"]
    BY <1>11 DEF CommitEdit
  <2>3. \A o \in Op \ RunsOf(t) : running'[o] = running[o]
    BY <1>6, <2>1, <2>2
  <2>4. ChainDiscipline'
    BY <1>3, <1>6, <2>1, <2>2, <2>3, TailDiscipline DEF Present
  <2>5. OneOperationPerTask'
    BY <2>2, NoNewLocks
  <2>6. RunOwnsItsRow'
    <3>1. \A o \in RunsOf(t) : status[o] = "RUNNING" /\ running'[o] = "exec"
      BY <1>5, <1>6, <2>1, <2>2 DEF AwaitedAt, RunOwnsItsRow
    <3> QED
      BY <2>2, <2>3, <3>1 DEF RunOwnsItsRow
  <2> QED
    BY <2>4, <2>5, <2>6
<1>12. ASSUME CommitApprove(t) \/ CommitFinish(t) PROVE Rest
  <2>1. t.op \in Op /\ t.kind \in {"approve", "finish"} /\ RunsOf(t) = {t.op}
    BY <1>4, <1>12, TxnFields DEF CommitApprove, CommitFinish, ApproveTxn, FinishTxn, RunsOf
  <2>2. status[t.op] = "RUNNING"
    BY <1>5, <2>1 DEF AwaitedAt, RunOwnsItsRow
  <2>3. /\ UNCHANGED <<request, service>>
        /\ running' = [running EXCEPT ![t.op] = "idle"]
        /\ \A o \in Op : o # t.op => status'[o] = status[o]
        /\ status'[t.op] # "ABSENT"
    <3>1. CASE CommitApprove(t)
      BY <1>6, <2>1, <3>1 DEF CommitApprove
    <3>2. CASE CommitFinish(t)
      BY <1>4, <1>6, <2>1, <3>2, TxnFields DEF CommitFinish, FinishTxn, Outcome, Terminal
    <3> QED
      BY <1>12, <3>1, <3>2
  <2>4. ChainDiscipline'
    BY <1>3, <1>6, <2>1, <2>3, TailDiscipline DEF Present
  <2>5. OneOperationPerTask'
    BY <2>2, <2>3, NoNewLocks DEF ActiveStatus
  <2>6. RunOwnsItsRow'
    BY <1>6, <2>1, <2>3 DEF RunOwnsItsRow
  <2> QED
    BY <2>4, <2>5, <2>6
<1>13. ASSUME CommitRecover(t) PROVE Rest
  <2>1. /\ t.kind = "recover" /\ UNCHANGED <<request, running>> /\ service' = "up"
        /\ status' = [o \in Op |-> IF status[o] = "RUNNING" THEN "QUEUED" ELSE status[o]]
    BY <1>13 DEF CommitRecover, Recovered
  <2>2. \A o \in Op : running[o] = "idle"
    BY <1>4, <2>1 DEF ChainDiscipline, RecoveryAlone
  <2>3. ChainDiscipline'
    BY <1>3, <1>6, <2>1, TailDiscipline DEF Present
  <2>4. OneOperationPerTask'
    BY <2>1, NoNewLocks DEF ActiveStatus
  <2>5. RunOwnsItsRow'
    BY <2>1, <2>2 DEF RunOwnsItsRow
  <2> QED
    BY <2>3, <2>4, <2>5
<1> QED
  BY <1>1, <1>2, <1>7, <1>8, <1>9, <1>10, <1>11, <1>12, <1>13

(* A rejected or an unwritten transaction keeps the inductive invariant. *)
LEMMA LossInd ==
  ASSUME IndInv, Reject \/ WriteFails PROVE IndInv'
<1> USE DEF IndInv
<1> DEFINE t == Head(chain)
<1>1. TypeOK'
  BY LossType
<1>2. chain # <<>> /\ chain' = Tail(chain) /\ UNCHANGED <<status, request>>
  BY DEF Reject, WriteFails, rowVars
<1>3. t \in Txn /\ 1 \in DOMAIN chain /\ t = chain[1]
  BY <1>2, ChainTail DEF TypeOK
<1>4. \A o \in RunsOf(t) : AwaitedAt(t, running[o])
  BY <1>3 DEF ChainDiscipline, RunsAwaitTheirTxn
<1>5. /\ running \in [Op -> Place] /\ running' \in [Op -> Place] /\ status' \in [Op -> Status]
  BY <1>1 DEF TypeOK
<1>6. OneOperationPerTask'
  BY <1>2, NoNewLocks
<1>7. CASE Reject
  <2>1. /\ t.kind # "recover" /\ service' = service
        /\ running' = IF t.kind = "edit" /\ t.owner # NoOp
                      THEN [running EXCEPT ![t.owner] = "exec"] ELSE running
    BY <1>7 DEF Reject, Rejected
  <2>2. \A o \in Op \ RunsOf(t) : running'[o] = running[o]
    BY <1>5, <2>1 DEF RunsOf
  <2>3. ChainDiscipline'
    BY <1>2, <1>5, <2>1, <2>2, TailDiscipline DEF Present
  <2>4. \A o \in RunsOf(t) : running'[o] = running[o] \/ (status[o] = "RUNNING" /\ running'[o] = "exec")
    BY <1>4, <1>5, <2>1 DEF AwaitedAt, RunOwnsItsRow, RunsOf
  <2>5. RunOwnsItsRow'
    BY <1>2, <2>2, <2>4 DEF RunOwnsItsRow
  <2> QED
    BY <1>1, <1>6, <2>3, <2>5
<1>8. CASE WriteFails
  <2>1. /\ service' = IF t.kind = "recover" THEN "down" ELSE service
        /\ running' = [o \in Op |-> IF o \in RunsOf(t) THEN AfterLoss(running[o]) ELSE running[o]]
    BY <1>8 DEF WriteFails
  <2>2. ChainDiscipline'
    BY <1>2, <1>5, <2>1, TailDiscipline DEF Present
  <2>3. \A o \in Op : running'[o] \in {running[o], "idle"} \/ (status[o] = "RUNNING" /\ running'[o] # "begin")
    BY <1>4, <1>5, <2>1 DEF AwaitedAt, RunOwnsItsRow, RunsOf, AfterLoss
  <2>4. RunOwnsItsRow'
    BY <1>2, <2>3 DEF RunOwnsItsRow
  <2> QED
    BY <1>1, <1>6, <2>2, <2>4
<1> QED
  BY <1>7, <1>8

(* Start, crash and stop keep the inductive invariant. *)
LEMMA ProcessInd ==
  ASSUME IndInv, Process PROVE IndInv'
<1> USE DEF IndInv
<1>1. TypeOK'
  BY ProcessType
<1>2. chain \in Seq(Txn) /\ UNCHANGED <<status, request>>
  BY DEF TypeOK, Process, Start, Crash, Stop, Stopped, rowVars
<1>3. OneOperationPerTask'
  BY <1>2, NoNewLocks
<1>4. RunOwnsItsRow'
  BY <1>2 DEF RunOwnsItsRow, Process, Start, Crash, Stop, Stopped
<1>5. CASE Start
  <2> DEFINE t == [kind |-> "recover"]
  <2>1. t \in Txn /\ Enqueue(t) /\ service = "down" /\ service' = "starting" /\ running' = running
    BY <1>5 DEF Txn, PlainTxn, Start
  <2>2. Len(chain) = 0 /\ \A o \in Op : running[o] = "idle"
    BY <2>1 DEF ChainDiscipline, RecoveryAlone
  <2>3. Len(chain') = 1 /\ DOMAIN chain' = {1} /\ chain'[1] = t
    BY <1>2, <2>1, <2>2, ChainAppend, LenProperties
  <2>4. RunsOf(t) = {} /\ t.kind = "recover"
    BY DEF RunsOf
  <2>5. ChainDiscipline'
    BY <2>1, <2>2, <2>3, <2>4
       DEF ChainDiscipline, RunsAwaitTheirTxn, RetriesPrecedeRuns, RecoveryAlone
  <2> QED
    BY <1>1, <1>3, <1>4, <2>5
<1>6. CASE Crash \/ Stopped
  <2>1. /\ chain' = <<>> /\ service' = "down"
        /\ \A o \in Op : running'[o] = "idle"
    BY <1>6 DEF Crash, Stopped
  <2>2. Len(chain') = 0 /\ DOMAIN chain' = {}
    BY <2>1
  <2>3. ChainDiscipline'
    BY <2>1, <2>2 DEF ChainDiscipline, RunsAwaitTheirTxn, RetriesPrecedeRuns, RecoveryAlone
  <2> QED
    BY <1>1, <1>3, <1>4, <2>3
<1>7. CASE Stop
  <2>1. UNCHANGED <<chain, running, status>> /\ service = "up" /\ service' = "stopping"
    BY <1>7 DEF Stop, rowVars
  <2>2. ChainDiscipline'
    BY <2>1 DEF ChainDiscipline, RunsAwaitTheirTxn, RetriesPrecedeRuns, RecoveryAlone, Present
  <2> QED
    BY <1>1, <1>3, <1>4, <2>2
<1> QED
  BY <1>5, <1>6, <1>7 DEF Process

(* Every step keeps the inductive invariant. *)
LEMMA NextInd == IndInv /\ [Next]_vars => IndInv'
<1> SUFFICES ASSUME IndInv, [Next]_vars PROVE IndInv'
  OBVIOUS
<1>1. CASE UNCHANGED vars
  BY <1>1 DEF IndInv, vars, rowVars, budget, TypeOK, OneOperationPerTask, Active, Subjects,
     RunOwnsItsRow, ChainDiscipline, RunsAwaitTheirTxn, RetriesPrecedeRuns, RecoveryAlone, Present
<1>2. CASE Next
  BY <1>2, ClientInd, SchedulerInd, CommitInd, LossInd, ProcessInd DEF Next
<1> QED
  BY <1>1, <1>2

(* A task is never locked by two operations at once, however many tasks,   *)
(* clients, retries, crashes and failed writes there are.                  *)
THEOREM MutualExclusion == Spec => []OneOperationPerTask
<1>1. IndInv => OneOperationPerTask
  BY DEF IndInv
<1> QED
  BY <1>1, InitInd, NextInd, PTL DEF Spec

(* The row of a live run stays as the run left it.                         *)
THEOREM RunsOwnTheirRows == Spec => [](RunOwnsItsRow /\ ChainDiscipline)
<1>1. IndInv => RunOwnsItsRow /\ ChainDiscipline
  BY DEF IndInv
<1> QED
  BY <1>1, InitInd, NextInd, PTL DEF Spec

-----------------------------------------------------------------------------
(* How a step changes the rows: not at all, by accepting an operation, by   *)
(* an alias, or by giving a row that is there another status.  A row whose  *)
(* run has not ended is touched by that run alone.                          *)
Accepting(o) ==
  \E t \in AcceptTxn :
    /\ KeyOwners(t.key) = {} /\ Lockers(SubjectsOf[t.request], NoOp) = {}
    /\ ~Present(o)
    /\ status' = [status EXCEPT ![o] = "QUEUED"]
    /\ request' = [request EXCEPT ![o] = t.request]
    /\ keys' = [keys EXCEPT ![o] = {t.key}]
Aliasing(o) ==
  /\ UNCHANGED <<status, request>> /\ Present(o)
  /\ \E k \in Key : KeyOwners(k) = {} /\ keys' = [keys EXCEPT ![o] = @ \cup {k}]
Requeueing(o) ==
  /\ UNCHANGED <<request, keys>>
  /\ status[o] \in Retriable /\ Lockers(Subjects(o), o) = {}
  /\ status' = [status EXCEPT ![o] = "QUEUED"]
Progressing(o, s) ==
  /\ UNCHANGED <<request, keys>>
  /\ status[o] \in ActiveStatus \ {"NEEDS_ATTENTION"}
  /\ status' = [status EXCEPT ![o] = s]
Recovering == UNCHANGED <<request, keys>> /\ status' = Recovered
RowStep ==
  \/ UNCHANGED <<status, request, keys>>
  \/ Recovering
  \/ \E o \in Op :
       \/ Accepting(o) \/ Aliasing(o) \/ Requeueing(o)
       \/ \E s \in {"RUNNING"} \cup Outcome : Progressing(o, s)

(* Every step changes the rows in one of these ways. *)
LEMMA NextRowStep == ASSUME IndInv, [Next]_vars PROVE RowStep
<1> USE DEF IndInv, rowVars, budget
<1>1. CASE UNCHANGED vars \/ Client \/ (\E o \in Op : Kick(o) \/ Run(o)) \/ Reject \/ WriteFails \/ Process
  <2>1. UNCHANGED <<status, request, keys>>
    BY <1>1 DEF vars, Client, RequestOperation, RequestRetry, RequestEdit, RequestEvent, Kick, Run,
       Work, Approve, Finish, FinishWith, Reject, WriteFails, Process, Start, Crash, Stop, Stopped
  <2> QED
    BY <2>1 DEF RowStep
<1>2. CASE Commit
  <2>1. PICK t \in {chain[i] : i \in DOMAIN chain} :
          \/ CommitReplay(t) \/ CommitAlias(t) \/ (\E o \in Op : CommitAccept(t, o))
          \/ CommitRetry(t) \/ CommitBegin(t) \/ CommitEdit(t) \/ CommitApprove(t)
          \/ CommitFinish(t) \/ CommitEvent(t) \/ CommitRecover(t)
    BY <1>2 DEF Commit
  <2>2. chain # <<>> /\ t = Head(chain) /\ chain' = Tail(chain)
    BY <2>1 DEF CommitReplay, CommitAlias, CommitAccept, CommitRetry, CommitBegin, CommitEdit,
       CommitApprove, CommitFinish, CommitEvent, CommitRecover, Written, Next1
  <2>3. t \in Txn /\ 1 \in DOMAIN chain /\ t = chain[1]
    BY <2>2, ChainTail DEF TypeOK
  <2>4. \A o \in RunsOf(t) : AwaitedAt(t, running[o])
    BY <2>3 DEF ChainDiscipline, RunsAwaitTheirTxn
  <2> USE DEF Next1
  <2>5. CASE CommitReplay(t) \/ CommitEdit(t) \/ CommitEvent(t)
    BY <2>5 DEF CommitReplay, CommitEdit, CommitEvent, RowStep
  <2>6. CASE CommitAlias(t)
    <3>1. t.key \in Key
      BY <2>3, <2>6, TxnFields DEF CommitAlias, AcceptTxn
    <3>2. PICK o \in Op : Present(o) /\ keys' = [keys EXCEPT ![o] = @ \cup {t.key}]
      BY <2>6 DEF CommitAlias, Twins, Lockers, Active, ActiveStatus, Present
    <3>3. Aliasing(o)
      BY <2>6, <3>1, <3>2 DEF CommitAlias, Aliased, Aliasing
    <3> QED
      BY <3>3 DEF RowStep
  <2>7. ASSUME NEW o \in Op, CommitAccept(t, o) PROVE RowStep
    <3>1. t \in AcceptTxn
      BY <2>3, <2>7, TxnFields DEF CommitAccept
    <3>2. Accepting(o)
      BY <2>7, <3>1 DEF CommitAccept, Accepted, Accepting
    <3> QED
      BY <3>2 DEF RowStep
  <2>8. CASE CommitRetry(t)
    <3>1. t.op \in Op
      BY <2>3, <2>8, TxnFields DEF CommitRetry, OpTxn
    <3>2. CASE Requeued(t)
      <4>1. Requeueing(t.op)
        BY <2>8, <3>2 DEF CommitRetry, RetryConflict, Requeued, Requeueing
      <4> QED
        BY <3>1, <4>1 DEF RowStep
    <3>3. CASE ~Requeued(t)
      BY <2>8, <3>3 DEF CommitRetry, RowStep
    <3> QED
      BY <3>2, <3>3
  <2>9. CASE CommitBegin(t)
    <3>1. t.op \in Op /\ t.op \in RunsOf(t)
      BY <2>3, <2>9, TxnFields DEF CommitBegin, OpTxn, RunsOf
    <3>2. status[t.op] \in {"QUEUED", "RETRY_WAIT"}
      BY <2>4, <2>9, <3>1 DEF CommitBegin, AwaitedAt, RunOwnsItsRow
    <3>3. Progressing(t.op, "RUNNING")
      BY <2>9, <3>2 DEF CommitBegin, Progressing, ActiveStatus
    <3> QED
      BY <3>1, <3>3 DEF RowStep
  <2>10. CASE CommitApprove(t) \/ CommitFinish(t)
    <3>1. t.op \in Op /\ t.op \in RunsOf(t)
      BY <2>3, <2>10, TxnFields DEF CommitApprove, CommitFinish, ApproveTxn, FinishTxn, RunsOf
    <3>2. status[t.op] = "RUNNING"
      BY <2>4, <2>10, <3>1 DEF CommitApprove, CommitFinish, AwaitedAt, RunOwnsItsRow
    <3>3. CASE CommitApprove(t)
      <4>1. Progressing(t.op, "SUCCEEDED")
        BY <3>2, <3>3 DEF CommitApprove, Progressing, ActiveStatus
      <4> QED
        BY <3>1, <4>1 DEF RowStep, Outcome, Terminal
    <3>4. CASE CommitFinish(t)
      <4>1. t.status \in Outcome
        BY <2>3, <3>4, TxnFields DEF CommitFinish, FinishTxn
      <4>2. Progressing(t.op, t.status)
        BY <3>2, <3>4 DEF CommitFinish, Progressing, ActiveStatus
      <4> QED
        BY <3>1, <4>1, <4>2 DEF RowStep
    <3> QED
      BY <2>10, <3>3, <3>4
  <2>11. CASE CommitRecover(t)
    BY <2>11 DEF CommitRecover, Recovering, RowStep
  <2> QED
    BY <2>1, <2>5, <2>6, <2>7, <2>8, <2>9, <2>10, <2>11
<1> QED
  BY <1>1, <1>2 DEF Next

-----------------------------------------------------------------------------
(* Keys.  Rows that are not there have none, which lookup relies upon when   *)
(* it searches the rows for a key.                                           *)

AbsentHaveNoKeys == \A o \in Op : ~Present(o) => keys[o] = {}
KeyInv == KeyNamesOneOperation /\ AbsentHaveNoKeys

(* A step keeps the keys of different operations apart. *)
LEMMA KeyStep == ASSUME IndInv, KeyInv, RowStep PROVE KeyInv'
<1> USE DEF KeyInv
<1>1. status \in [Op -> Status] /\ keys \in [Op -> SUBSET Key]
  BY DEF IndInv, TypeOK
<1>2. ASSUME NEW k, KeyOwners(k) = {} PROVE \A o \in Op : k \notin keys[o]
  BY <1>2 DEF KeyOwners, AbsentHaveNoKeys
<1>3. CASE UNCHANGED keys /\ \A o \in Op : status'[o] = "ABSENT" => status[o] = "ABSENT"
  BY <1>3 DEF KeyNamesOneOperation, AbsentHaveNoKeys, Present
<1>4. ASSUME NEW o \in Op, Accepting(o) PROVE KeyInv'
  <2>1. PICK t \in AcceptTxn :
          KeyOwners(t.key) = {} /\ keys' = [keys EXCEPT ![o] = {t.key}]
    BY <1>4 DEF Accepting
  <2>2. status' = [status EXCEPT ![o] = "QUEUED"]
    BY <1>4 DEF Accepting
  <2>3. \A p \in Op : t.key \notin keys[p]
    BY <1>2, <2>1
  <2>4. /\ \A p \in Op : p # o => keys'[p] = keys[p] /\ status'[p] = status[p]
        /\ keys'[o] = {t.key} /\ status'[o] = "QUEUED"
    BY <1>1, <2>1, <2>2
  <2>5. KeyNamesOneOperation'
    BY <2>3, <2>4 DEF KeyNamesOneOperation
  <2>6. AbsentHaveNoKeys'
    BY <2>4 DEF AbsentHaveNoKeys, Present
  <2> QED
    BY <2>5, <2>6
<1>5. ASSUME NEW o \in Op, Aliasing(o) PROVE KeyInv'
  <2>1. PICK k \in Key : KeyOwners(k) = {} /\ keys' = [keys EXCEPT ![o] = @ \cup {k}]
    BY <1>5 DEF Aliasing
  <2>2. \A p \in Op : k \notin keys[p]
    BY <1>2, <2>1
  <2>3. /\ \A p \in Op : p # o => keys'[p] = keys[p]
        /\ keys'[o] = keys[o] \cup {k} /\ status' = status
    BY <1>1, <1>5, <2>1 DEF Aliasing
  <2>4. KeyNamesOneOperation'
    BY <2>2, <2>3 DEF KeyNamesOneOperation
  <2>5. AbsentHaveNoKeys'
    BY <1>5, <2>3 DEF Aliasing, AbsentHaveNoKeys, Present
  <2> QED
    BY <2>4, <2>5
<1>6. CASE Recovering
  BY <1>1, <1>3, <1>6 DEF Recovering, Recovered
<1>7. ASSUME NEW o \in Op, Requeueing(o) PROVE KeyInv'
  BY <1>1, <1>3, <1>7 DEF Requeueing
<1>8. ASSUME NEW o \in Op, NEW s \in {"RUNNING"} \cup Outcome, Progressing(o, s) PROVE KeyInv'
  BY <1>1, <1>3, <1>8 DEF Progressing, Outcome, Terminal
<1> QED
  BY <1>3, <1>4, <1>5, <1>6, <1>7, <1>8 DEF RowStep

(* An idempotency key, whether it came with the first request or with a      *)
(* duplicate of it, never belongs to two operations (accept, lookup).        *)
THEOREM KeysAreUnique == Spec => []KeyNamesOneOperation
<1>1. Init => KeyInv
  BY DEF Init, KeyInv, KeyNamesOneOperation, AbsentHaveNoKeys
<1>2. IndInv /\ KeyInv /\ [Next]_vars => KeyInv'
  BY NextRowStep, KeyStep
<1>3. KeyInv => KeyNamesOneOperation
  BY DEF KeyInv
<1> QED
  BY <1>1, <1>2, <1>3, InitInd, NextInd, PTL DEF Spec

-----------------------------------------------------------------------------
(* A success is final.                                                       *)

(* No step takes the success of an operation back or starts it again. *)
LEMMA SuccessStep ==
  ASSUME IndInv, RowStep, IndInv', NEW o \in Op, status[o] = "SUCCEEDED"
  PROVE  status'[o] = "SUCCEEDED" /\ running'[o] = "idle"
<1>1. status \in [Op -> Status]
  BY DEF IndInv, TypeOK
<1>2. status'[o] = "SUCCEEDED"
  <2>1. \A p \in Op : Accepting(p) => p # o /\ status' = [status EXCEPT ![p] = "QUEUED"]
    BY DEF Accepting, Present
  <2>2. \A p \in Op : Requeueing(p) => p # o /\ status' = [status EXCEPT ![p] = "QUEUED"]
    BY DEF Requeueing, Retriable
  <2>3. \A p \in Op : \A s : Progressing(p, s) => p # o /\ status' = [status EXCEPT ![p] = s]
    BY DEF Progressing, ActiveStatus
  <2>4. \A p \in Op : Aliasing(p) => status' = status
    BY DEF Aliasing
  <2>5. Recovering => status'[o] = "SUCCEEDED"
    BY DEF Recovering, Recovered
  <2> QED
    BY <1>1, <2>1, <2>2, <2>3, <2>4, <2>5 DEF RowStep
<1>3. running'[o] = "idle"
  BY <1>2 DEF IndInv, RunOwnsItsRow
<1> QED
  BY <1>2, <1>3

(* A succeeded operation is never queued or run again, whatever retries were *)
(* asked for before it succeeded (retry, kick).                              *)
THEOREM SuccessIsFinal == Spec => SucceededIsFinal
<1>1. IndInv /\ IndInv' /\ [Next]_vars =>
        [\A o \in Op : status[o] = "SUCCEEDED" => status'[o] = "SUCCEEDED" /\ running'[o] = "idle"]_vars
  BY NextRowStep, SuccessStep
<1> QED
  BY <1>1, InitInd, NextInd, PTL DEF Spec, SucceededIsFinal

-----------------------------------------------------------------------------
(* The queue implements the task locks.                                      *)

Held == [o \in Op |-> IF Active(o) THEN Subjects(o) ELSE {}]

(* A step locks the tasks of one operation, unlocks them, or neither. *)
LEMMA LockStep ==
  ASSUME IndInv, RowStep
  PROVE  \/ Held' = Held
         \/ \E o \in Op :
              \/ Held[o] # {} /\ Held' = [Held EXCEPT ![o] = {}]
              \/ \E tasks \in SUBSET Task :
                   /\ Held[o] = {} /\ tasks # {}
                   /\ \A p \in Op : Held[p] \cap tasks = {}
                   /\ Held' = [Held EXCEPT ![o] = tasks]
<1>1. status \in [Op -> Status] /\ request \in [Op -> Request]
  BY DEF IndInv, TypeOK
<1>2. \A r \in Request : SubjectsOf[r] \in SUBSET Task /\ SubjectsOf[r] # {}
  BY ConstantsAssumption
<1> DEFINE Goal ==
  \/ Held' = Held
  \/ \E o \in Op :
       \/ Held[o] # {} /\ Held' = [Held EXCEPT ![o] = {}]
       \/ \E tasks \in SUBSET Task :
            /\ Held[o] = {} /\ tasks # {}
            /\ \A p \in Op : Held[p] \cap tasks = {}
            /\ Held' = [Held EXCEPT ![o] = tasks]
<1>3. ASSUME request' = request, \A p \in Op : status'[p] \in ActiveStatus <=> status[p] \in ActiveStatus
      PROVE  Held' = Held
  BY <1>3 DEF Held, Active, Subjects
<1>4. ASSUME NEW o \in Op, Accepting(o) PROVE Goal
  <2>1. PICK t \in AcceptTxn :
          /\ Lockers(SubjectsOf[t.request], NoOp) = {} /\ ~Present(o)
          /\ status' = [status EXCEPT ![o] = "QUEUED"]
          /\ request' = [request EXCEPT ![o] = t.request]
    BY <1>4 DEF Accepting
  <2> DEFINE tasks == SubjectsOf[t.request]
  <2>2. t.request \in Request
    BY DEF AcceptTxn
  <2>3. tasks \in SUBSET Task /\ tasks # {}
    BY <1>2, <2>2
  <2>4. \A p \in Op : Held[p] \cap tasks = {}
    BY <2>1, ConstantsAssumption DEF Held, Lockers, Op, NoOp
  <2>5. Held[o] = {}
    BY <2>1 DEF Held, Active, ActiveStatus, Present
  <2>6. /\ \A p \in Op : p # o => status'[p] = status[p] /\ request'[p] = request[p]
        /\ status'[o] = "QUEUED" /\ request'[o] = t.request
    BY <1>1, <2>1
  <2>7. Held' = [Held EXCEPT ![o] = tasks]
    BY <2>6 DEF Held, Active, Subjects, ActiveStatus
  <2> HIDE DEF tasks
  <2> QED
    BY <2>3, <2>4, <2>5, <2>7
<1>5. ASSUME NEW o \in Op, Requeueing(o) PROVE Goal
  <2>1. request' = request /\ status' = [status EXCEPT ![o] = "QUEUED"] /\ Lockers(Subjects(o), o) = {}
    BY <1>5 DEF Requeueing
  <2>2. \A p \in Op : p # o => status'[p] = status[p]
    BY <1>1, <2>1
  <2>3. CASE Active(o)
    BY <1>1, <1>3, <2>1, <2>3 DEF Active, ActiveStatus
  <2>4. CASE ~Active(o)
    <3> DEFINE tasks == Subjects(o)
    <3>1. tasks \in SUBSET Task /\ tasks # {}
      BY <1>1, <1>2 DEF Subjects
    <3>2. Held[o] = {} /\ \A p \in Op : Held[p] \cap tasks = {}
      BY <2>1, <2>4 DEF Held, Lockers
    <3>3. Held' = [Held EXCEPT ![o] = tasks]
      BY <1>1, <2>1, <2>2 DEF Held, Active, Subjects, ActiveStatus
    <3> HIDE DEF tasks
    <3> QED
      BY <3>1, <3>2, <3>3
  <2> QED
    BY <2>3, <2>4
<1>6. ASSUME NEW o \in Op, NEW s \in {"RUNNING"} \cup Outcome, Progressing(o, s) PROVE Goal
  <2>1. request' = request /\ status' = [status EXCEPT ![o] = s] /\ Active(o)
    BY <1>6 DEF Progressing, Active
  <2>2. \A p \in Op : p # o => status'[p] = status[p]
    BY <1>1, <2>1
  <2>3. CASE s \in ActiveStatus
    BY <1>1, <1>3, <2>1, <2>3 DEF Active
  <2>4. CASE s \notin ActiveStatus
    <3>1. Held[o] # {}
      BY <1>1, <1>2, <2>1 DEF Held, Subjects
    <3>2. Held' = [Held EXCEPT ![o] = {}]
      BY <1>1, <2>1, <2>2, <2>4 DEF Held, Active, Subjects
    <3> QED
      BY <3>1, <3>2
  <2> QED
    BY <2>3, <2>4
<1>7. CASE Recovering
  BY <1>3, <1>7 DEF Recovering, Recovered, ActiveStatus
<1>8. CASE UNCHANGED <<status, request>>
  BY <1>3, <1>8
<1> QED
  BY <1>4, <1>5, <1>6, <1>7, <1>8 DEF RowStep, Aliasing

(* The tasks of active operations are locked as module TaskLocks promises:   *)
(* all of an operation at once and only if all are free (accept, retry, run).*)
THEOREM QueueImplementsTaskLocks == Spec => ImplementsTaskLocks
<1>1. Init => Locks!Init
  BY DEF Init, Locks!Init, Active, ActiveStatus
<1>2. IndInv /\ [Next]_vars => [Locks!Next]_Held
  BY NextRowStep, LockStep DEF Locks!Next, Locks!Acquire, Locks!Release, Held
<1> QED
  BY <1>1, <1>2, InitInd, NextInd, PTL DEF Spec, ImplementsTaskLocks, Locks!Spec, Held

-----------------------------------------------------------------------------
(* First runs come in the order of acceptance.  The rows alone do not show   *)
(* why: the order is decided when kick queues the first transaction of a     *)
(* run, so the argument is about the runs that have begun and wait.          *)

HIDE DEF Op, NoOp

BeginsAt(i, o) == chain[i].kind = "begin" /\ chain[i].op = o

(* Rows are taken one after the other, and a row that never ran is queued. *)
UntriedRows ==
  /\ \A o \in Op : ~Present(o) => attempt[o] = 0
  /\ \A o \in Op : Present(o) => \A p \in 1..(o - 1) : Present(p)
  /\ \A o \in Op : Present(o) /\ attempt[o] = 0 => status[o] = "QUEUED"
  /\ \A o \in Op : running[o] \notin {"idle", "begin"} => attempt[o] > 0

(* A run that begins has its first transaction in the chain, behind those of *)
(* all older operations that have not run yet.                               *)
BeginsAreQueued ==
  \A o \in Op : running[o] = "begin" => \E i \in DOMAIN chain : BeginsAt(i, o)

BeginsInOrder ==
  \A i \in DOMAIN chain : \A o \in Op : BeginsAt(i, o) =>
    \A p \in 1..(o - 1) : attempt[p] > 0 \/ \E j \in 1..(i - 1) : BeginsAt(j, p)

StartInv ==
  /\ UntriedRows /\ BeginsAreQueued
  /\ writeFails = 0 => BeginsInOrder /\ StartsInOrder

(* Operations are numbered from 1 on. *)
LEMMA OlderOps ==
  /\ \A o \in Op : o \in Nat /\ \A p \in 1..(o - 1) : p \in Op /\ p < o
  /\ \A o, p \in Op : p < o => p \in 1..(o - 1)
<1>1. MaxOps \in Nat
  BY ConstantsAssumption
<1>2. ASSUME NEW o \in 1..MaxOps
      PROVE  o \in Nat /\ \A p \in 1..(o - 1) : p \in 1..MaxOps /\ p < o
  <2>1. o \in Nat
    BY <1>1
  <2>2. ASSUME NEW p \in 1..(o - 1) PROVE p \in 1..MaxOps /\ p < o
    BY <1>1, <2>1
  <2> QED
    BY <2>1, <2>2
<1>3. ASSUME NEW o \in 1..MaxOps, NEW p \in 1..MaxOps, p < o PROVE p \in 1..(o - 1)
  BY <1>1, <1>3
<1> QED
  BY <1>2, <1>3 DEF Op

(* A transaction that is queued keeps the runs in order: if it begins one,   *)
(* all older operations have run or begin before it.                         *)
LEMMA AppendOrder ==
  ASSUME TypeOK, BeginsAreQueued, writeFails = 0 => BeginsInOrder /\ StartsInOrder,
         NEW t \in Txn, Enqueue(t), attempt' = attempt, writeFails' = writeFails,
         \A o \in Op : running'[o] = "begin" =>
           running[o] = "begin" \/ (t.kind = "begin" /\ t.op = o),
         t.kind = "begin" => \A p \in 1..(t.op - 1) : attempt[p] > 0 \/ running[p] = "begin"
  PROVE  BeginsAreQueued' /\ (writeFails' = 0 => BeginsInOrder' /\ StartsInOrder')
<1>1. chain \in Seq(Txn) /\ DOMAIN chain = 1..Len(chain) /\ Len(chain) \in Nat
  BY LenProperties DEF TypeOK
<1>2. /\ DOMAIN chain' = 1..(Len(chain) + 1)
      /\ \A i \in DOMAIN chain : chain'[i] = chain[i]
      /\ chain'[Len(chain) + 1] = t
  BY <1>1, ChainAppend, LenProperties
<1>3. BeginsAreQueued'
  <2> SUFFICES ASSUME NEW o \in Op, running'[o] = "begin"
               PROVE  \E i \in DOMAIN chain' : chain'[i].kind = "begin" /\ chain'[i].op = o
    BY DEF BeginsAreQueued, BeginsAt
  <2>1. CASE running[o] = "begin"
    <3>1. PICK i \in DOMAIN chain : BeginsAt(i, o)
      BY <2>1 DEF BeginsAreQueued
    <3> QED
      BY <1>1, <1>2, <3>1 DEF BeginsAt
  <2>2. CASE t.kind = "begin" /\ t.op = o
    BY <1>1, <1>2, <2>2
  <2> QED
    BY <2>1, <2>2
<1>4. ASSUME writeFails' = 0 PROVE BeginsInOrder' /\ StartsInOrder'
  <2>0. BeginsInOrder /\ StartsInOrder
    BY <1>4
  <2>1. StartsInOrder'
    BY <2>0 DEF StartsInOrder
  <2>2. BeginsInOrder'
    <3> SUFFICES ASSUME NEW i \in DOMAIN chain', NEW o \in Op,
                        chain'[i].kind = "begin", chain'[i].op = o,
                        NEW p \in 1..(o - 1), ~(attempt'[p] > 0)
                 PROVE  \E j \in 1..(i - 1) : chain'[j].kind = "begin" /\ chain'[j].op = p
      BY DEF BeginsInOrder, BeginsAt
    <3>1. CASE i \in DOMAIN chain
      <4>1. PICK j \in 1..(i - 1) : BeginsAt(j, p)
        BY <1>2, <2>0, <3>1 DEF BeginsInOrder, BeginsAt
      <4>2. j \in DOMAIN chain
        BY <1>1, <3>1
      <4> QED
        BY <1>2, <4>1, <4>2 DEF BeginsAt
    <3>2. CASE i \notin DOMAIN chain
      <4>1. i = Len(chain) + 1
        BY <1>1, <1>2, <3>2
      <4>2. running[p] = "begin" /\ p \in Op
        BY <1>2, <4>1, OlderOps
      <4>3. PICK j \in DOMAIN chain : BeginsAt(j, p)
        BY <4>2 DEF BeginsAreQueued
      <4>4. j \in 1..(i - 1) /\ chain'[j] = chain[j]
        BY <1>1, <1>2, <4>1
      <4> QED
        BY <4>3, <4>4 DEF BeginsAt
    <3> QED
      BY <3>1, <3>2
  <2> QED
    BY <2>1, <2>2
<1> QED
  BY <1>3, <1>4

(* Whatever becomes of the head of the chain, the runs stay in order: if it  *)
(* begins a run, all older operations have run.                              *)
LEMMA TailOrder ==
  ASSUME TypeOK, BeginsAreQueued, writeFails = 0 => BeginsInOrder /\ StartsInOrder,
         chain # <<>>, chain' = Tail(chain),
         \A o \in Op : running'[o] = "begin" => running[o] = "begin" /\ ~BeginsAt(1, o),
         writeFails' = 0 => writeFails = 0,
         writeFails' = 0 =>
           \/ attempt' = attempt /\ chain[1].kind # "begin"
           \/ /\ chain[1].kind = "begin"
              /\ \E n \in Nat \ {0} : attempt' = [attempt EXCEPT ![chain[1].op] = n]
  PROVE  BeginsAreQueued' /\ (writeFails' = 0 => BeginsInOrder' /\ StartsInOrder')
<1>1. /\ chain' \in Seq(Txn) /\ Len(chain') = Len(chain) - 1
      /\ \A i \in DOMAIN chain' : i + 1 \in DOMAIN chain /\ chain'[i] = chain[i + 1]
      /\ \A i \in DOMAIN chain : i # 1 => i - 1 \in DOMAIN chain' /\ chain'[i - 1] = chain[i]
      /\ chain[1] \in Txn /\ 1 \in DOMAIN chain
  BY ChainTail DEF TypeOK
<1>2. /\ DOMAIN chain = 1..Len(chain) /\ Len(chain) \in Nat
      /\ DOMAIN chain' = 1..Len(chain') /\ Len(chain') \in Nat
  BY <1>1, LenProperties DEF TypeOK
<1>3. BeginsAreQueued'
  <2> SUFFICES ASSUME NEW o \in Op, running'[o] = "begin"
               PROVE  \E i \in DOMAIN chain' : chain'[i].kind = "begin" /\ chain'[i].op = o
    BY DEF BeginsAreQueued, BeginsAt
  <2>1. PICK i \in DOMAIN chain : BeginsAt(i, o) /\ i # 1
    BY DEF BeginsAreQueued
  <2> QED
    BY ZenonT(60), <1>1, <2>1 DEF BeginsAt
<1>4. ASSUME writeFails' = 0 PROVE BeginsInOrder' /\ StartsInOrder'
  <2>0. BeginsInOrder /\ StartsInOrder /\ attempt \in [Op -> 0..(RetryLimit + 1)] /\ RetryLimit \in Nat
    BY <1>4, ConstantsAssumption DEF TypeOK
  <2>1. chain[1].kind = "begin" => chain[1].op \in Op
    BY <1>1, TxnFields DEF OpTxn
  <2>2. /\ \A p \in Op : attempt[p] > 0 => attempt'[p] > 0
        /\ chain[1].kind = "begin" => attempt'[chain[1].op] > 0
        /\ \A p \in Op : ~BeginsAt(1, p) => attempt'[p] = attempt[p]
    BY SMTT(30), <1>4, <2>0, <2>1 DEF BeginsAt
  <2>3. BeginsInOrder'
    <3> SUFFICES ASSUME NEW i \in DOMAIN chain', NEW o \in Op,
                        chain'[i].kind = "begin", chain'[i].op = o,
                        NEW p \in 1..(o - 1), ~(attempt'[p] > 0)
                 PROVE  \E j \in 1..(i - 1) : chain'[j].kind = "begin" /\ chain'[j].op = p
      BY DEF BeginsInOrder, BeginsAt
    <3>1. p \in Op /\ ~(attempt[p] > 0) /\ ~BeginsAt(1, p)
      BY <2>2, OlderOps DEF BeginsAt
    <3>2. BeginsAt(i + 1, o) /\ i + 1 \in DOMAIN chain
      BY <1>1 DEF BeginsAt
    <3>3. PICK j \in 1..i : BeginsAt(j, p)
      BY <1>2, <2>0, <3>1, <3>2 DEF BeginsInOrder
    <3>4. j # 1 /\ j \in DOMAIN chain
      BY <1>2, <3>1, <3>2, <3>3
    <3>5. j - 1 \in 1..(i - 1) /\ chain'[j - 1] = chain[j]
      BY <1>1, <1>2, <3>4
    <3> QED
      BY <3>3, <3>5 DEF BeginsAt
  <2>4. StartsInOrder'
    <3> SUFFICES ASSUME NEW o \in Op, NEW p \in Op, p < o, attempt'[o] > 0
                 PROVE  attempt'[p] > 0
      BY DEF StartsInOrder
    <3>1. CASE BeginsAt(1, o)
      <4>1. p \in 1..(o - 1)
        BY OlderOps
      <4>2. attempt[p] > 0 \/ \E j \in 1..(1 - 1) : BeginsAt(j, p)
        BY <1>1, <2>0, <3>1, <4>1 DEF BeginsInOrder
      <4> QED
        BY <2>2, <4>2
    <3>2. CASE ~BeginsAt(1, o)
      BY <2>0, <2>2, <3>2 DEF StartsInOrder
    <3> QED
      BY <3>1, <3>2
  <2> QED
    BY <2>3, <2>4
<1> QED
  BY <1>3, <1>4

(* A step that counts no attempt and takes no row keeps the rows that never  *)
(* ran queued.                                                               *)
LEMMA RowsUntried ==
  ASSUME UntriedRows, attempt' = attempt,
         \A o \in Op : status'[o] = "ABSENT" <=> status[o] = "ABSENT",
         \A o \in Op : status'[o] \in {status[o], "QUEUED"} \/ attempt[o] > 0,
         \A o \in Op : running'[o] \in {running[o], "idle", "begin"} \/ attempt[o] > 0
  PROVE  UntriedRows'
<1>1. \A o \in Op : ~(attempt[o] = 0 /\ attempt[o] > 0)
  OBVIOUS
<1>2. \A o \in Op : Present(o)' <=> Present(o)
  BY DEF Present
<1>3. \A o \in Op : Present(o)' /\ attempt'[o] = 0 => status'[o] = "QUEUED"
  BY <1>1, <1>2 DEF UntriedRows
<1>4. \A o \in Op : running'[o] \notin {"idle", "begin"} => attempt'[o] > 0
  BY DEF UntriedRows
<1>5. \A o \in Op : Present(o)' => \A p \in 1..(o - 1) : Present(p)'
  BY <1>2, OlderOps DEF UntriedRows
<1> QED
  BY <1>2, <1>3, <1>4, <1>5 DEF UntriedRows

(* A request of a client keeps the runs in order. *)
LEMMA ClientOrder == ASSUME IndInv, StartInv, Client PROVE StartInv'
<1> USE DEF StartInv
<1>1. /\ UNCHANGED <<status, request, running, service>>
      /\ \E t \in Txn : Enqueue(t) /\ ClientTxn(t)
  BY ClientAppends DEF IndInv
<1>2. PICK t \in Txn : Enqueue(t) /\ ClientTxn(t)
  BY <1>1
<1>3. UNCHANGED <<attempt, writeFails>>
  BY DEF Client, RequestOperation, RequestRetry, RequestEdit, RequestEvent, rowVars, budget
<1>4. t.kind # "begin"
  BY <1>2, TxnFields DEF ClientTxn, RunsOf, OpTxn
<1>5. BeginsAreQueued' /\ (writeFails' = 0 => BeginsInOrder' /\ StartsInOrder')
  BY <1>1, <1>2, <1>3, <1>4, AppendOrder DEF IndInv
<1> QED
  BY <1>1, <1>3, <1>5, RowsUntried DEF IndInv

(* kick only begins the oldest operation that waits: those before it have    *)
(* run or begin already.  A run that is past its beginning was counted.      *)
LEMMA SchedulerOrder ==
  ASSUME IndInv, StartInv, NEW o \in Op, Kick(o) \/ Run(o) PROVE StartInv'
<1> USE DEF StartInv
<1>1. UNCHANGED <<status, request, service>>
  BY RunAppends DEF IndInv
<1>2. PICK t \in Txn, place \in Place : Enqueue(t) /\ RunTxn(t, o, place)
  BY RunAppends DEF IndInv
<1>3. UNCHANGED <<attempt, writeFails>>
  BY DEF Kick, Run, Work, Approve, Finish, FinishWith, rowVars, budget
<1>4. running \in [Op -> Place] /\ attempt \in [Op -> 0..(RetryLimit + 1)]
  BY DEF IndInv, TypeOK
<1>5. /\ running'[o] = place /\ \A p \in Op : p # o => running'[p] = running[p]
      /\ AwaitedAt(t, place)
      /\ \/ running[o] = "idle" /\ t.kind = "begin" /\ t.op = o
         \/ running[o] \in {"exec", "failed"} /\ t.kind # "begin"
  BY <1>2, <1>4 DEF RunTxn
<1>6. CASE t.kind = "begin"
  <2>1. Kick(o)
    BY <1>5, <1>6 DEF Run, Work, Approve, Finish
  <2>2. ASSUME NEW p \in 1..(o - 1) PROVE attempt[p] > 0 \/ running[p] = "begin"
    <3>1. p \in Op /\ Present(o)
      BY <2>1, OlderOps DEF Kick, Startable, Present
    <3>2. Present(p) /\ ~Waiting(p)
      BY <2>1, <3>1 DEF UntriedRows, Kick, OldestWaiting
    <3>3. attempt[p] = 0 \/ attempt[p] > 0
      BY <1>4, <3>1, ConstantsAssumption
    <3> QED
      BY <3>1, <3>2, <3>3 DEF UntriedRows, Waiting
  <2>3. BeginsAreQueued' /\ (writeFails' = 0 => BeginsInOrder' /\ StartsInOrder')
    BY <1>2, <1>3, <1>5, <1>6, <2>2, AppendOrder DEF IndInv, AwaitedAt
  <2>4. UntriedRows'
    BY <1>1, <1>3, <1>5, <1>6, RowsUntried DEF IndInv, AwaitedAt
  <2> QED
    BY <2>3, <2>4
<1>7. CASE t.kind # "begin"
  <2>1. attempt[o] > 0 /\ place # "begin"
    BY <1>5, <1>7 DEF UntriedRows, AwaitedAt
  <2>2. BeginsAreQueued' /\ (writeFails' = 0 => BeginsInOrder' /\ StartsInOrder')
    BY <1>2, <1>3, <1>5, <1>7, <2>1, AppendOrder DEF IndInv
  <2>3. UntriedRows'
    BY <1>1, <1>3, <1>5, <2>1, RowsUntried DEF IndInv
  <2> QED
    BY <2>2, <2>3
<1> QED
  BY <1>6, <1>7

(* A committed transaction keeps the runs in order: the one that counts the  *)
(* first attempt is the one that begins the run.                             *)
LEMMA CommitOrder == ASSUME IndInv, StartInv, Commit PROVE StartInv'
<1> USE DEF StartInv
<1>1. PICK t \in {chain[i] : i \in DOMAIN chain} :
        \/ CommitReplay(t) \/ CommitAlias(t) \/ (\E o \in Op : CommitAccept(t, o))
        \/ CommitRetry(t) \/ CommitBegin(t) \/ CommitEdit(t) \/ CommitApprove(t)
        \/ CommitFinish(t) \/ CommitEvent(t) \/ CommitRecover(t)
  BY DEF Commit
<1>2. chain # <<>> /\ t = Head(chain) /\ chain' = Tail(chain) /\ writeFails' = writeFails
  BY <1>1 DEF CommitReplay, CommitAlias, CommitAccept, CommitRetry, CommitBegin, CommitEdit,
     CommitApprove, CommitFinish, CommitEvent, CommitRecover, Written, Next1, budget
<1>3. t \in Txn /\ 1 \in DOMAIN chain /\ t = chain[1]
  BY <1>2, ChainTail DEF IndInv, TypeOK
<1>4. \A o \in RunsOf(t) : AwaitedAt(t, running[o])
  BY <1>3 DEF IndInv, ChainDiscipline, RunsAwaitTheirTxn
<1>5. /\ status \in [Op -> Status] /\ running \in [Op -> Place]
      /\ attempt \in [Op -> 0..(RetryLimit + 1)] /\ RetryLimit \in Nat
  BY ConstantsAssumption DEF IndInv, TypeOK
<1> DEFINE Ordered == BeginsAreQueued' /\ (writeFails' = 0 => BeginsInOrder' /\ StartsInOrder')
<1> USE DEF Next1, rowVars, Written
<1>6. ASSUME attempt' = attempt, t.kind # "begin",
             \A o \in Op : running'[o] = "begin" => running[o] = "begin"
      PROVE  Ordered
  BY <1>2, <1>3, <1>6, TailOrder DEF IndInv, BeginsAt
<1>7. CASE CommitReplay(t) \/ CommitAlias(t) \/ CommitEvent(t)
  <2>1. UNCHANGED <<status, attempt, running>> /\ t.kind # "begin"
    BY <1>7 DEF CommitReplay, CommitAlias, CommitEvent
  <2> QED
    BY <1>6, <2>1, RowsUntried
<1>8. ASSUME NEW o \in Op, CommitAccept(t, o) PROVE StartInv'
  <2>1. /\ ~Present(o) /\ (\A p \in 1..(o - 1) : Present(p)) /\ running' = running
        /\ status' = [status EXCEPT ![o] = "QUEUED"] /\ attempt' = [attempt EXCEPT ![o] = 0]
        /\ t.kind = "accept"
    BY <1>8 DEF CommitAccept
  <2>2. attempt' = attempt
    BY <1>5, <2>1 DEF UntriedRows
  <2>3. /\ \A p \in Op : Present(p)' <=> Present(p) \/ p = o
        /\ \A p \in Op : status'[p] \in {status[p], "QUEUED"}
        /\ status'[o] = "QUEUED"
    BY <1>5, <2>1 DEF Present
  <2>4. \A p \in Op : Present(p)' => \A q \in 1..(p - 1) : Present(q)'
    BY <2>1, <2>3, OlderOps DEF UntriedRows
  <2>5. UntriedRows'
    BY <2>1, <2>2, <2>3, <2>4 DEF UntriedRows
  <2> QED
    BY <1>6, <2>1, <2>2, <2>5
<1>9. CASE CommitRetry(t) \/ CommitRecover(t)
  <2>1. UNCHANGED <<attempt, running>> /\ t.kind # "begin"
    BY <1>9 DEF CommitRetry, CommitRecover
  <2>2. \A o \in Op : status'[o] = status[o] \/ (Present(o) /\ status'[o] = "QUEUED")
    <3>1. CASE CommitRetry(t)
      BY <1>5, <3>1 DEF CommitRetry, Requeued, Retriable, Present
    <3>2. CASE CommitRecover(t)
      BY <1>5, <3>2 DEF CommitRecover, Recovered, Present
    <3> QED
      BY <1>9, <3>1, <3>2
  <2> QED
    BY <1>6, <2>1, <2>2, RowsUntried DEF Present
<1>10. CASE CommitBegin(t)
  <2>1. t.op \in Op /\ t.kind = "begin" /\ t.op \in RunsOf(t)
    BY <1>3, <1>10, TxnFields DEF CommitBegin, OpTxn, RunsOf
  <2>2. status[t.op] # "ABSENT"
    BY <1>4, <2>1 DEF AwaitedAt, IndInv, RunOwnsItsRow
  <2>3. /\ status' = [status EXCEPT ![t.op] = "RUNNING"]
        /\ running' = [running EXCEPT ![t.op] = "exec"]
        /\ \E n \in Nat \ {0} : attempt' = [attempt EXCEPT ![t.op] = n]
    <3> DEFINE n == IF attempt[t.op] > RetryLimit THEN attempt[t.op] ELSE attempt[t.op] + 1
    <3>1. n \in Nat \ {0}
      BY <1>5, <2>1
    <3>2. attempt' = [attempt EXCEPT ![t.op] = n]
      BY <1>10 DEF CommitBegin
    <3> HIDE DEF n
    <3> QED
      BY <1>10, <3>1, <3>2 DEF CommitBegin
  <2>4. Ordered
    BY <1>2, <1>3, <1>5, <2>1, <2>3, TailOrder DEF IndInv, BeginsAt
  <2>5. UntriedRows'
    <3>1. \A o \in Op : o # t.op => status'[o] = status[o] /\ attempt'[o] = attempt[o]
                                     /\ running'[o] = running[o]
      BY <1>5, <2>3
    <3>2. status'[t.op] = "RUNNING" /\ attempt'[t.op] > 0 /\ ~(attempt'[t.op] = 0)
      BY <1>5, <2>1, <2>3
    <3>3. \A o \in Op : Present(o)' <=> Present(o)
      BY <2>1, <2>2, <3>1, <3>2 DEF Present
    <3>4. \A o \in Op : Present(o)' => \A p \in 1..(o - 1) : Present(p)'
      BY <3>3, OlderOps DEF UntriedRows
    <3> QED
      BY <2>1, <2>2, <3>1, <3>2, <3>3, <3>4 DEF UntriedRows, Present
  <2> QED
    BY <2>4, <2>5
<1>11. CASE CommitEdit(t)
  <2>1. /\ UNCHANGED <<status, attempt>> /\ t.kind = "edit"
        /\ running' = IF t.owner = NoOp THEN running ELSE [running EXCEPT ![t.owner] = "exec"]
    BY <1>11 DEF CommitEdit
  <2>2. \A o \in Op : running'[o] = running[o] \/ (running'[o] = "exec" /\ attempt[o] > 0)
    BY <1>4, <1>5, <2>1 DEF RunsOf, AwaitedAt, UntriedRows
  <2> QED
    BY <1>6, <2>1, <2>2, RowsUntried
<1>12. CASE CommitApprove(t) \/ CommitFinish(t)
  <2>1. t.op \in Op /\ t.kind \in {"approve", "finish"} /\ t.op \in RunsOf(t)
    BY <1>3, <1>12, TxnFields DEF CommitApprove, CommitFinish, ApproveTxn, FinishTxn, RunsOf
  <2>2. attempt[t.op] > 0 /\ status[t.op] # "ABSENT"
    BY <1>4, <2>1 DEF AwaitedAt, UntriedRows, IndInv, RunOwnsItsRow
  <2>3. /\ attempt' = attempt /\ running' = [running EXCEPT ![t.op] = "idle"]
        /\ \A o \in Op : o # t.op => status'[o] = status[o]
        /\ status'[t.op] # "ABSENT"
    <3>1. CASE CommitApprove(t)
      BY <1>5, <2>1, <3>1 DEF CommitApprove
    <3>2. CASE CommitFinish(t)
      BY <1>3, <1>5, <2>1, <3>2, TxnFields DEF CommitFinish, FinishTxn, Outcome, Terminal
    <3> QED
      BY <1>12, <3>1, <3>2
  <2>4. Ordered
    BY <1>5, <1>6, <2>1, <2>3
  <2>5. UntriedRows'
    BY <1>5, <2>1, <2>2, <2>3, RowsUntried
  <2> QED
    BY <2>4, <2>5
<1> QED
  BY <1>1, <1>7, <1>8, <1>9, <1>10, <1>11, <1>12

(* A rejected transaction begins no run, and one that could not be written *)
(* ends what was known of the order of the runs.                           *)
LEMMA LossOrder == ASSUME IndInv, StartInv, Reject \/ WriteFails PROVE StartInv'
<1> USE DEF StartInv
<1>1. /\ chain # <<>> /\ chain' = Tail(chain) /\ UNCHANGED <<status, attempt>>
      /\ chain \in Seq(Txn) /\ running \in [Op -> Place] /\ writeFails \in Nat
  <2>1. chain # <<>> /\ chain' = Tail(chain) /\ UNCHANGED <<status, attempt>>
    BY DEF Reject, WriteFails, rowVars
  <2>2. MaxWriteFail \in Nat
    BY ConstantsAssumption
  <2>3. chain \in Seq(Txn) /\ running \in [Op -> Place] /\ writeFails \in Nat
    BY <2>2 DEF IndInv, TypeOK
  <2> QED
    BY <2>1, <2>3
<1>2. Head(chain) \in Txn /\ 1 \in DOMAIN chain /\ Head(chain) = chain[1]
  BY <1>1, ChainTail
<1>3. \A o \in RunsOf(Head(chain)) : AwaitedAt(Head(chain), running[o])
  BY <1>2 DEF IndInv, ChainDiscipline, RunsAwaitTheirTxn
<1>4. /\ \A o \in Op : running'[o] \in {running[o], "idle"} \/
                        (attempt[o] > 0 /\ running'[o] # "begin")
      /\ \A o \in Op : running'[o] = "begin" => ~BeginsAt(1, o)
      /\ writeFails' = 0 => writeFails = 0 /\ chain[1].kind # "begin"
  <2>1. CASE Reject
    <3>1. /\ Head(chain).kind # "begin" /\ UNCHANGED writeFails
          /\ running' = IF Head(chain).kind = "edit" /\ Head(chain).owner # NoOp
                        THEN [running EXCEPT ![Head(chain).owner] = "exec"] ELSE running
      BY <2>1 DEF Reject, Rejected, budget
    <3>2. \A o \in Op : running'[o] = running[o] \/ (attempt[o] > 0 /\ running'[o] # "begin")
      BY <1>1, <1>3, <3>1 DEF RunsOf, AwaitedAt, UntriedRows
    <3> QED
      BY <1>2, <3>1, <3>2 DEF BeginsAt
  <2>2. CASE WriteFails
    <3>1. /\ running' = [o \in Op |-> IF o \in RunsOf(Head(chain)) THEN AfterLoss(running[o])
                                     ELSE running[o]]
          /\ ~(writeFails' = 0)
      BY <1>1, <2>2 DEF WriteFails
    <3>2. \A o \in RunsOf(Head(chain)) :
            running'[o] # "begin" /\ (running'[o] = "idle" \/ attempt[o] > 0)
      BY <1>3, <3>1 DEF RunsOf, AfterLoss, AwaitedAt, UntriedRows
    <3>3. \A o \in Op : BeginsAt(1, o) => o \in RunsOf(Head(chain))
      BY <1>2 DEF RunsOf, BeginsAt
    <3> QED
      BY <3>1, <3>2, <3>3
  <2> QED
    BY <2>1, <2>2
<1>5. BeginsAreQueued' /\ (writeFails' = 0 => BeginsInOrder' /\ StartsInOrder')
  BY <1>1, <1>4, TailOrder DEF IndInv
<1>6. UntriedRows'
  BY <1>1, <1>4, RowsUntried
<1> QED
  BY <1>5, <1>6

(* A crash, a start and a stop keep what is known of the order of the runs. *)
LEMMA ProcessOrder == ASSUME IndInv, StartInv, Process PROVE StartInv'
<1> USE DEF StartInv
<1>1. UNCHANGED <<status, attempt, writeFails>>
  BY DEF Process, Start, Crash, Stop, Stopped, rowVars, budget
<1>2. \A o \in Op : running'[o] \in {running[o], "idle"}
  BY DEF Process, Start, Crash, Stop, Stopped
<1>3. UntriedRows'
  BY <1>1, <1>2, RowsUntried
<1>4. CASE Start
  <2>1. [kind |-> "recover"] \in Txn
    BY DEF Txn, PlainTxn
  <2>2. BeginsAreQueued' /\ (writeFails' = 0 => BeginsInOrder' /\ StartsInOrder')
    BY <1>1, <1>4, <2>1, AppendOrder DEF IndInv, Start
  <2> QED
    BY <1>3, <2>2
<1>5. CASE Crash \/ Stopped
  <2>1. DOMAIN chain' = {} /\ \A o \in Op : running'[o] = "idle"
    BY <1>5 DEF Crash, Stopped
  <2> QED
    BY <1>1, <1>3, <2>1 DEF BeginsAreQueued, BeginsInOrder, StartsInOrder
<1>6. CASE Stop
  <2>1. UNCHANGED <<chain, running>>
    BY <1>6 DEF Stop
  <2> QED
    BY <1>1, <1>3, <2>1 DEF BeginsAreQueued, BeginsInOrder, StartsInOrder, BeginsAt
<1> QED
  BY <1>4, <1>5, <1>6 DEF Process

(* Every step keeps the runs in order. *)
LEMMA NextOrder == ASSUME IndInv, StartInv, [Next]_vars PROVE StartInv'
<1>1. CASE UNCHANGED vars
  BY <1>1 DEF StartInv, vars, rowVars, budget, UntriedRows, Present, BeginsAreQueued,
     BeginsInOrder, StartsInOrder, BeginsAt
<1>2. CASE Next
  BY <1>2, ClientOrder, SchedulerOrder, CommitOrder, LossOrder, ProcessOrder DEF Next
<1> QED
  BY <1>1, <1>2

-----------------------------------------------------------------------------
(* Batches first run on the rows that were seen.  The rows of a batch that   *)
(* has not run yet are locked by it from the moment they are compared; what  *)
(* is written without looking at the locks stays within the writer's tasks.  *)

SeenRowsAlive ==
  \A i \in DOMAIN chain :
    chain[i].kind = "accept" /\ KindOf[chain[i].request] = "BATCH"
      => \A d \in DocsOf[chain[i].request] : chain[i].seen[d].live

ApprovalsSaveOwnRows ==
  \A i \in DOMAIN chain :
    chain[i].kind = "approve" => chain[i].saved \subseteq DocsIn(Subjects(chain[i].op))

BatchInv == SeenRowsAlive /\ ApprovalsSaveOwnRows /\ BatchRunsOnSeenRows

(* A batch locks the tasks of its rows: rows that are changed under no lock  *)
(* of others are not among them.                                             *)
LEMMA LockedRowsStay ==
  ASSUME TypeOK, NEW saved \in SUBSET Doc, NEW dropped \in SUBSET Doc, NEW owner \in Op \cup {NoOp},
         Lockers(TasksOf(saved, dropped), owner) = {},
         NEW o \in Op, o # owner, Active(o), KindOf[request[o]] = "BATCH",
         NEW d \in DocsOf[request[o]]
  PROVE  Changed(saved, dropped)[d] = doc[d]
<1>1. d \in Doc /\ DocTask[d] \in Subjects(o)
  BY ConstantsAssumption DEF TypeOK, Subjects
<1>2. DocTask[d] \notin TasksOf(saved, dropped)
  BY <1>1 DEF Lockers
<1>3. d \notin saved /\ (d \in dropped => ~doc[d].live)
  BY <1>2 DEF TasksOf
<1>4. doc[d] \in [live : BOOLEAN, gen : Nat, version : Nat]
  BY <1>1 DEF TypeOK, DocState
<1>5. ~doc[d].live => [doc[d] EXCEPT !.live = FALSE] = doc[d]
  BY <1>4
<1> QED
  BY <1>1, <1>3, <1>5 DEF Changed

(* The seen rows stay, as long as no operation is accepted and the rows of   *)
(* the batches that never ran are left alone.                                *)
LEMMA BatchRowsStay ==
  ASSUME UntriedRows, BatchRunsOnSeenRows, UNCHANGED <<request, input>>,
         \A o \in Op : Active(o)' => Present(o),
         \A o \in Op : attempt'[o] = 0 => attempt[o] = 0,
         \A o \in Op : Active(o) /\ attempt[o] = 0 /\ KindOf[request[o]] = "BATCH"
           => \A d \in DocsOf[request[o]] : doc'[d] = doc[d]
  PROVE  BatchRunsOnSeenRows'
<1>1. ASSUME NEW o \in Op, Active(o)', attempt'[o] = 0 PROVE Active(o) /\ attempt[o] = 0
  BY <1>1 DEF UntriedRows, Active, ActiveStatus
<1> QED
  BY <1>1 DEF BatchRunsOnSeenRows

(* What is queued keeps the transactions of the chain as they should be. *)
LEMMA AppendBatch ==
  ASSUME TypeOK, SeenRowsAlive, ApprovalsSaveOwnRows, NEW t \in Txn, Enqueue(t), request' = request,
         t.kind = "accept" /\ KindOf[t.request] = "BATCH"
           => \A d \in DocsOf[t.request] : t.seen[d].live,
         t.kind = "approve" => t.saved \subseteq DocsIn(Subjects(t.op))
  PROVE  SeenRowsAlive' /\ ApprovalsSaveOwnRows'
<1>1. \A i \in DOMAIN chain' : chain'[i] = t \/ (i \in DOMAIN chain /\ chain'[i] = chain[i])
  BY ChainAppend DEF TypeOK
<1> QED
  BY <1>1 DEF SeenRowsAlive, ApprovalsSaveOwnRows, Subjects, DocsIn

(* The rest of the chain stays as it was when the head is taken off. *)
LEMMA TailBatch ==
  ASSUME IndInv, SeenRowsAlive, ApprovalsSaveOwnRows, chain # <<>>, chain' = Tail(chain),
         \A o \in Op : Present(o) => request'[o] = request[o]
  PROVE  SeenRowsAlive' /\ ApprovalsSaveOwnRows'
<1>1. \A i \in DOMAIN chain' : i + 1 \in DOMAIN chain /\ chain'[i] = chain[i + 1]
  BY ChainTail DEF IndInv, TypeOK
<1>2. ASSUME NEW i \in DOMAIN chain, chain[i].kind = "approve" PROVE Present(chain[i].op) /\ chain[i].op \in Op
  <2>1. chain[i] \in Txn
    BY ElementOfSeq, LenProperties DEF IndInv, TypeOK
  <2>2. chain[i].op \in Op /\ chain[i].op \in RunsOf(chain[i])
    BY <1>2, <2>1, TxnFields DEF ApproveTxn, RunsOf
  <2>3. running[chain[i].op] = "approve"
    BY <1>2, <2>2 DEF IndInv, ChainDiscipline, RunsAwaitTheirTxn, AwaitedAt
  <2> QED
    BY <2>2, <2>3 DEF IndInv, RunOwnsItsRow, Present
<1>3. SeenRowsAlive'
  BY <1>1 DEF SeenRowsAlive
<1>4. ApprovalsSaveOwnRows'
  BY <1>1, <1>2 DEF ApprovalsSaveOwnRows, Subjects, DocsIn
<1> QED
  BY <1>3, <1>4

(* A request of a client is about rows that are there, and changes none. *)
LEMMA ClientBatch == ASSUME IndInv, StartInv, BatchInv, Client PROVE BatchInv'
<1> USE DEF BatchInv, StartInv, IndInv
<1>1. UNCHANGED <<status, request, input, attempt, doc>>
  BY DEF Client, RequestOperation, RequestRetry, RequestEdit, RequestEvent, rowVars
<1>2. BatchRunsOnSeenRows'
  BY <1>1 DEF BatchRunsOnSeenRows, Active
<1>3. ASSUME NEW k \in Key, NEW r \in Request, RequestOperation(k, r)
      PROVE  SeenRowsAlive' /\ ApprovalsSaveOwnRows'
  <2> DEFINE t == [kind |-> "accept", key |-> k, request |-> r, seen |-> Seen(r)]
  <2>1. Seen(r) \in [Doc -> DocState]
    BY DEF Seen, NoRow, Row, DocState, TypeOK
  <2>2. t \in Txn /\ Enqueue(t) /\ t.kind = "accept" /\ t.request = r /\ t.seen = Seen(r)
    BY <1>3, <2>1 DEF Txn, AcceptTxn, RequestOperation
  <2>3. KindOf[r] = "BATCH" => \A d \in DocsOf[r] : Seen(r)[d].live
    BY <1>3, ConstantsAssumption DEF RequestOperation, Seen
  <2> HIDE DEF t
  <2> QED
    BY <1>1, <2>2, <2>3, AppendBatch
<1>4. CASE (\E o \in Op : RequestRetry(o)) \/ (\E u \in Task : RequestEdit(u)) \/ RequestEvent
  <2>1. PICK t \in Txn : Enqueue(t) /\ t.kind \notin {"accept", "approve"}
    <3>1. ASSUME NEW o \in Op PROVE [kind |-> "retry", op |-> o] \in Txn
      BY DEF Txn, OpTxn
    <3>2. ASSUME NEW u \in Task, NEW e \in Edits(u)
          PROVE  [kind |-> "edit", saved |-> e[1], dropped |-> e[2], owner |-> NoOp] \in Txn
      BY EditsType DEF Txn, EditTxn
    <3>3. [kind |-> "event"] \in Txn
      BY DEF Txn, PlainTxn
    <3>4. ASSUME NEW o \in Op, RequestRetry(o) PROVE Enqueue([kind |-> "retry", op |-> o])
      BY <3>4 DEF RequestRetry
    <3>5. ASSUME NEW u \in Task, RequestEdit(u)
          PROVE  \E e \in Edits(u) :
                   Enqueue([kind |-> "edit", saved |-> e[1], dropped |-> e[2], owner |-> NoOp])
      BY <3>5 DEF RequestEdit
    <3>6. RequestEvent => Enqueue([kind |-> "event"])
      BY DEF RequestEvent
    <3> QED
      BY <1>4, <3>1, <3>2, <3>3, <3>4, <3>5, <3>6
  <2> QED
    BY <1>1, <1>2, <2>1, AppendBatch
<1> QED
  BY <1>2, <1>3, <1>4 DEF Client

(* An executor's approval saves rows of its own tasks. *)
LEMMA SchedulerBatch ==
  ASSUME IndInv, StartInv, BatchInv, NEW o \in Op, Kick(o) \/ Run(o) PROVE BatchInv'
<1> USE DEF BatchInv, StartInv, IndInv
<1>1. UNCHANGED <<status, request, input, attempt, doc>>
  BY DEF Kick, Run, Work, Approve, Finish, FinishWith, rowVars
<1>2. BatchRunsOnSeenRows'
  BY <1>1 DEF BatchRunsOnSeenRows, Active
<1>3. CASE Approve(o)
  <2>1. PICK saved \in SUBSET DocsIn(Subjects(o)) :
          Enqueue([kind |-> "approve", op |-> o, saved |-> saved])
    BY <1>3 DEF Approve
  <2> DEFINE t == [kind |-> "approve", op |-> o, saved |-> saved]
  <2>2. t \in Txn /\ Enqueue(t) /\ t.kind = "approve" /\ t.op = o /\ t.saved = saved
    BY <2>1 DEF Txn, ApproveTxn, DocsIn
  <2> HIDE DEF t
  <2> QED
    BY <1>1, <1>2, <2>2, AppendBatch
<1>4. CASE Kick(o) \/ Work(o) \/ Finish(o)
  <2>1. PICK t \in Txn, place \in Place : Enqueue(t) /\ RunTxn(t, o, place)
    BY RunAppends
  <2>2. place # "approve"
    BY <1>4, <2>1 DEF RunTxn, Kick, Work, Finish, FinishWith, TypeOK
  <2>3. t.kind \notin {"accept", "approve"}
    BY <2>1, <2>2 DEF RunTxn, AwaitedAt
  <2> QED
    BY <1>1, <1>2, <2>1, <2>3, AppendBatch
<1> QED
  BY <1>3, <1>4 DEF Run

(* A committed transaction keeps the rows of batches that have not run. *)
LEMMA CommitBatch == ASSUME IndInv, StartInv, BatchInv, Commit PROVE BatchInv'
<1> USE DEF BatchInv, StartInv, IndInv
<1>1. PICK t \in {chain[i] : i \in DOMAIN chain} :
        \/ CommitReplay(t) \/ CommitAlias(t) \/ (\E o \in Op : CommitAccept(t, o))
        \/ CommitRetry(t) \/ CommitBegin(t) \/ CommitEdit(t) \/ CommitApprove(t)
        \/ CommitFinish(t) \/ CommitEvent(t) \/ CommitRecover(t)
  BY DEF Commit
<1>2. chain # <<>> /\ t = Head(chain) /\ chain' = Tail(chain)
  BY <1>1 DEF CommitReplay, CommitAlias, CommitAccept, CommitRetry, CommitBegin, CommitEdit,
     CommitApprove, CommitFinish, CommitEvent, CommitRecover, Written, Next1
<1>3. t \in Txn /\ 1 \in DOMAIN chain /\ t = chain[1]
  BY <1>2, ChainTail DEF TypeOK
<1>4. \A o \in RunsOf(t) : AwaitedAt(t, running[o])
  BY <1>3 DEF ChainDiscipline, RunsAwaitTheirTxn
<1>5. /\ status \in [Op -> Status] /\ request \in [Op -> Request]
      /\ attempt \in [Op -> 0..(RetryLimit + 1)] /\ RetryLimit \in Nat
      /\ input \in [Op -> [Doc -> DocState]] /\ doc \in [Doc -> DocState]
  BY ConstantsAssumption DEF TypeOK
<1> USE DEF Next1, rowVars, Written
<1>6. ASSUME request' = request PROVE SeenRowsAlive' /\ ApprovalsSaveOwnRows'
  BY <1>2, <1>6, TailBatch
<1>7. CASE CommitReplay(t) \/ CommitAlias(t) \/ CommitEvent(t)
  <2>1. UNCHANGED <<status, request, input, attempt, doc>>
    BY <1>7 DEF CommitReplay, CommitAlias, CommitEvent
  <2>2. BatchRunsOnSeenRows'
    BY <2>1 DEF BatchRunsOnSeenRows, Active
  <2> QED
    BY <1>6, <2>1, <2>2
<1>8. ASSUME NEW o \in Op, CommitAccept(t, o) PROVE BatchInv'
  <2>1. /\ ~Present(o) /\ doc' = doc /\ t.kind = "accept" /\ FreshRows(t)
        /\ status' = [status EXCEPT ![o] = "QUEUED"] /\ request' = [request EXCEPT ![o] = t.request]
        /\ input' = [input EXCEPT ![o] = t.seen] /\ attempt' = [attempt EXCEPT ![o] = 0]
    BY <1>8 DEF CommitAccept, Accepted
  <2>2. /\ \A p \in Op : p # o => /\ status'[p] = status[p] /\ request'[p] = request[p]
                                  /\ input'[p] = input[p] /\ attempt'[p] = attempt[p]
        /\ request'[o] = t.request /\ input'[o] = t.seen
    BY <1>5, <2>1
  <2>3. SeenRowsAlive' /\ ApprovalsSaveOwnRows'
    BY <1>2, <2>1, <2>2, TailBatch
  <2>4. t.request \in Request /\ t.seen \in [Doc -> DocState]
    BY <1>3, <2>1, TxnFields DEF AcceptTxn
  <2>5. ASSUME KindOf[t.request] = "BATCH", NEW d \in DocsOf[t.request] PROVE doc[d] = t.seen[d]
    <3>1. d \in Doc
      BY <2>4, ConstantsAssumption
    <3>2. doc[d].live /\ doc[d].gen = t.seen[d].gen /\ doc[d].version = t.seen[d].version
      BY <2>1, <2>5 DEF FreshRows
    <3>3. t.seen[d].live
      BY <1>3, <2>1, <2>5 DEF SeenRowsAlive
    <3>4. /\ doc[d] \in [live : BOOLEAN, gen : Nat, version : Nat]
          /\ t.seen[d] \in [live : BOOLEAN, gen : Nat, version : Nat]
      BY <1>5, <2>4, <3>1 DEF DocState
    <3>5. doc[d].live = TRUE /\ t.seen[d].live = TRUE
      BY <3>2, <3>3, <3>4
    <3> QED
      BY <3>2, <3>4, <3>5
  <2>6. BatchRunsOnSeenRows'
    BY <2>1, <2>2, <2>5 DEF BatchRunsOnSeenRows, Active
  <2> QED
    BY <2>3, <2>6
<1>9. CASE CommitRetry(t) \/ CommitRecover(t)
  <2>1. UNCHANGED <<request, input, attempt, doc>>
    BY <1>9 DEF CommitRetry, CommitRecover
  <2>2. \A o \in Op : status'[o] = status[o] \/ Present(o)
    <3>1. CASE CommitRetry(t)
      BY <1>5, <3>1 DEF CommitRetry, Requeued, Retriable, Present
    <3>2. CASE CommitRecover(t)
      BY <1>5, <3>2 DEF CommitRecover, Recovered, Present
    <3> QED
      BY <1>9, <3>1, <3>2
  <2>3. BatchRunsOnSeenRows'
    BY <2>1, <2>2, BatchRowsStay DEF Active, ActiveStatus, Present
  <2> QED
    BY <1>6, <2>1, <2>3
<1>10. CASE CommitBegin(t)
  <2>1. t.op \in Op /\ t.op \in RunsOf(t)
    BY <1>3, <1>10, TxnFields DEF CommitBegin, OpTxn, RunsOf
  <2>2. Present(t.op)
    BY <1>4, <1>10, <2>1 DEF CommitBegin, AwaitedAt, RunOwnsItsRow, Present
  <2>3. UNCHANGED <<request, input, doc>> /\ status' = [status EXCEPT ![t.op] = "RUNNING"]
    BY <1>10 DEF CommitBegin
  <2>4. \A o \in Op : attempt'[o] = 0 => attempt[o] = 0
    BY <1>5, <1>10, <2>1 DEF CommitBegin
  <2>5. BatchRunsOnSeenRows'
    BY <1>5, <2>1, <2>2, <2>3, <2>4, BatchRowsStay DEF Active, ActiveStatus, Present
  <2> QED
    BY <1>6, <2>3, <2>5
<1>11. CASE CommitEdit(t)
  <2>1. /\ UNCHANGED <<status, request, input, attempt>> /\ t.kind = "edit" /\ ~Locked(t)
        /\ doc' = Changed(t.saved, t.dropped)
    BY <1>11 DEF CommitEdit
  <2>2. t.saved \in SUBSET Doc /\ t.dropped \in SUBSET Doc /\ t.owner \in Op \cup {NoOp}
    BY <1>3, <2>1, TxnFields DEF EditTxn
  <2>3. \A o \in Op : o = t.owner => attempt[o] > 0
    BY <1>4, <2>1 DEF RunsOf, AwaitedAt, UntriedRows
  <2>4. \A o \in Op : Active(o) /\ attempt[o] = 0 /\ KindOf[request[o]] = "BATCH"
           => \A d \in DocsOf[request[o]] : doc'[d] = doc[d]
    <3> SUFFICES ASSUME NEW o \in Op, Active(o), attempt[o] = 0, KindOf[request[o]] = "BATCH",
                        NEW d \in DocsOf[request[o]]
                 PROVE  doc'[d] = doc[d]
      OBVIOUS
    <3>1. o # t.owner
      BY <2>3
    <3>2. Lockers(TasksOf(t.saved, t.dropped), t.owner) = {}
      BY <2>1 DEF Locked
    <3> QED
      BY <2>1, <2>2, <3>1, <3>2, LockedRowsStay
  <2>5. BatchRunsOnSeenRows'
    BY <2>1, <2>4, BatchRowsStay DEF Active, ActiveStatus, Present
  <2> QED
    BY <1>6, <2>1, <2>5
<1>12. CASE CommitApprove(t)
  <2> DEFINE removed == DocsIn(Subjects(t.op)) \ t.saved
  <2>1. /\ UNCHANGED <<request, input, attempt>> /\ t.kind = "approve"
        /\ Lockers(Subjects(t.op), t.op) = {}
        /\ doc' = Changed(t.saved, removed)
        /\ status' = [status EXCEPT ![t.op] = "SUCCEEDED"]
    BY <1>12 DEF CommitApprove
  <2>2. t.saved \in SUBSET Doc /\ t.op \in Op /\ t.op \in RunsOf(t)
    BY <1>3, <2>1, TxnFields DEF ApproveTxn, RunsOf
  <2>3. t.saved \subseteq DocsIn(Subjects(t.op)) /\ removed \in SUBSET Doc
    BY <1>3, <2>1 DEF ApprovalsSaveOwnRows, DocsIn
  <2>4. Lockers(TasksOf(t.saved, removed), t.op) = {}
    <3>1. TasksOf(t.saved, removed) \subseteq Subjects(t.op)
      BY <2>3 DEF TasksOf, DocsIn
    <3> QED
      BY <2>1, <3>1 DEF Lockers
  <2>5. attempt[t.op] > 0
    BY <1>4, <2>1, <2>2 DEF AwaitedAt, UntriedRows
  <2> HIDE DEF removed
  <2>6. \A o \in Op : Active(o) /\ attempt[o] = 0 /\ KindOf[request[o]] = "BATCH"
           => \A d \in DocsOf[request[o]] : doc'[d] = doc[d]
    <3> SUFFICES ASSUME NEW o \in Op, Active(o), attempt[o] = 0, KindOf[request[o]] = "BATCH",
                        NEW d \in DocsOf[request[o]]
                 PROVE  doc'[d] = doc[d]
      OBVIOUS
    <3>1. o # t.op
      BY <2>5
    <3>2. t.saved \in SUBSET Doc /\ removed \in SUBSET Doc /\ t.op \in Op \cup {NoOp}
      BY <2>2, <2>3
    <3>3. Changed(t.saved, removed)[d] = doc[d]
      BY <2>4, <3>1, <3>2, LockedRowsStay
    <3> QED
      BY <2>1, <3>3
  <2>7. BatchRunsOnSeenRows'
    BY <1>5, <2>1, <2>2, <2>6, BatchRowsStay DEF Active, ActiveStatus, Present
  <2> QED
    BY <1>6, <2>1, <2>7
<1>13. CASE CommitFinish(t)
  <2>1. t.op \in Op /\ t.op \in RunsOf(t)
    BY <1>3, <1>13, TxnFields DEF CommitFinish, FinishTxn, RunsOf
  <2>2. Present(t.op)
    BY <1>4, <1>13, <2>1 DEF CommitFinish, AwaitedAt, RunOwnsItsRow, Present
  <2>3. UNCHANGED <<request, input, attempt, doc>> /\ status' = [status EXCEPT ![t.op] = t.status]
    BY <1>13 DEF CommitFinish
  <2>4. BatchRunsOnSeenRows'
    BY <1>5, <2>1, <2>2, <2>3, BatchRowsStay DEF Active, ActiveStatus, Present
  <2> QED
    BY <1>6, <2>3, <2>4
<1> QED
  BY <1>1, <1>7, <1>8, <1>9, <1>10, <1>11, <1>12, <1>13

(* Every step keeps the rows of batches that have not run. *)
LEMMA NextBatch == ASSUME IndInv, StartInv, BatchInv, [Next]_vars PROVE BatchInv'
<1>1. CASE UNCHANGED vars
  BY <1>1 DEF BatchInv, vars, rowVars, budget, SeenRowsAlive, ApprovalsSaveOwnRows,
     BatchRunsOnSeenRows, Active, Subjects, DocsIn
<1>2. CASE Reject \/ WriteFails
  <2>1. chain # <<>> /\ chain' = Tail(chain) /\ UNCHANGED <<status, request, input, attempt, doc>>
    BY <1>2 DEF Reject, WriteFails, rowVars
  <2> QED
    BY <2>1, TailBatch DEF BatchInv, BatchRunsOnSeenRows, Active
<1>3. CASE Process
  <2>1. UNCHANGED <<status, request, input, attempt, doc>>
    BY <1>3 DEF Process, Start, Crash, Stop, Stopped, rowVars
  <2>2. BatchRunsOnSeenRows'
    BY <2>1 DEF BatchInv, BatchRunsOnSeenRows, Active
  <2>3. CASE Start
    <3>1. [kind |-> "recover"] \in Txn
      BY DEF Txn, PlainTxn
    <3> QED
      BY <2>1, <2>2, <2>3, <3>1, AppendBatch DEF Start, BatchInv, IndInv
  <2>4. CASE Crash \/ Stop \/ Stopped
    <3>1. chain' = chain \/ DOMAIN chain' = {}
      BY <2>4 DEF Crash, Stop, Stopped
    <3> QED
      BY <2>1, <2>2, <3>1 DEF BatchInv, SeenRowsAlive, ApprovalsSaveOwnRows, Subjects, DocsIn
  <2> QED
    BY <1>3, <2>3, <2>4 DEF Process
<1> QED
  BY <1>1, <1>2, <1>3, ClientBatch, SchedulerBatch, CommitBatch DEF Next

(* The rows are in order before anything was accepted. *)
LEMMA InitFirstRuns == Init => StartInv /\ BatchInv
<1> SUFFICES ASSUME Init PROVE StartInv /\ BatchInv
  OBVIOUS
<1>1. DOMAIN chain = {}
  BY EmptySeq, LenProperties DEF Init
<1>2. StartInv
  BY <1>1 DEF Init, StartInv, UntriedRows, Present, BeginsAreQueued, BeginsInOrder, StartsInOrder
<1>3. BatchInv
  BY <1>1 DEF Init, BatchInv, SeenRowsAlive, ApprovalsSaveOwnRows, BatchRunsOnSeenRows, Active,
     ActiveStatus
<1> QED
  BY <1>2, <1>3

(* What first runs is what was accepted, for any requests, edits, crashes and *)
(* failed writes: a batch on the rows its client saw and, until a write of    *)
(* the state file fails, operations in the order of acceptance (accept, kick, *)
(* run).                                                                      *)
THEOREM FirstRunsAreAccepted == Spec => []FirstRunsAsAccepted
<1>1. IndInv /\ StartInv /\ BatchInv => FirstRunsAsAccepted
  BY DEF StartInv, BatchInv, FirstRunsAsAccepted
<1>2. IndInv /\ StartInv /\ [Next]_vars => StartInv'
  BY NextOrder
<1>3. IndInv /\ StartInv /\ BatchInv /\ [Next]_vars => BatchInv'
  BY NextBatch
<1> QED
  BY <1>1, <1>2, <1>3, InitFirstRuns, InitInd, NextInd, PTL DEF Spec
=============================================================================
