--------------------------- MODULE ApprovalsProofs ---------------------------
(***************************************************************************)
(* Proofs about module Approvals, for any members, flows of any length, any *)
(* number of requests in flight and of approval requests.                   *)
(*                                                                          *)
(* None of the invariants is inductive alone: what a handler read earlier   *)
(* has to say something about the state in which it is used.  IInv adds     *)
(* that, and that an approval is committed by at most one session.          *)
(***************************************************************************)
EXTENDS Approvals, TLAPS

(* The steps an amount does not need are the last ones.                     *)
SkippedTail ==
    \A r \in RequestId, i, j \in Step :
        i < j /\ step[r][i].status = "SKIPPED" => step[r][j].status = "SKIPPED"

(* What a read approval says: the request exists, somebody else asked for   *)
(* it, the step has had its turn, and the next one is needed, or none is.   *)
ReadToApprove(x) ==
    LET r == x.request  k == x.step  next == x.next
    IN  /\ request[r].status # "NONE"
        /\ x.user # request[r].createdBy
        /\ step[r][k].status \notin {"WAITING", "SKIPPED"}
        /\ next \in {0, k + 1}
        /\ next = 0 => \A j \in Step : j > k => step[r][j].status # "WAITING"
        /\ next # 0 => step[r][next].status # "SKIPPED"

ApproveReads == \A s \in Session : req[s].op = "approve" => ReadToApprove(req[s])

ReadToReject(x) ==
    /\ request[x.request].status # "NONE"
    /\ x.user # request[x.request].createdBy

RejectReads == \A s \in Session : req[s].op = "reject" => ReadToReject(req[s])

(* Who runs an award for an approval holds a request whose every needed step*)
(* is approved, up to the one that was decided last, and nobody else does.  *)
Running(x) == x.op \in {"run", "undo"} /\ x.request # Direct

ApprovedUpTo(r, k) ==
    /\ k \in Step
    /\ request[r].status = "APPROVED"
    /\ ~request[r].ordered
    /\ \A j \in Step : j <= k => step[r][j].status = "APPROVED"
    /\ \A j \in Step : j > k => step[r][j].status = "SKIPPED"

RunsApproved ==
    \A s \in Session : Running(req[s]) => ApprovedUpTo(req[s].request, req[s].step)

RunOnce ==
    \A s, t \in Session :
        Running(req[s]) /\ Running(req[t]) /\ req[s].request = req[t].request => s = t

(* The cron closes the steps of a request it has rejected.                  *)
ClosesRejected == cron.op = "close" => request[cron.request].status = "REJECTED"

Chain == ChainAlive /\ SkippedTail /\ SeparationOfDuties /\ OrderedWhenApproved
Reads == ApproveReads /\ RejectReads /\ RunsApproved /\ RunOnce /\ ClosesRejected
IInv  == TypeOK /\ Chain /\ Reads

----------------------------------------------------------------------------
(* What the type invariant says of a request in flight.                     *)

LEMMA StepFacts ==
    /\ Step \subseteq Nat /\ 1 \in Step /\ 0 \notin Step
    /\ \A k \in Step : k \in 0..MaxStep
    /\ \A k \in 0..MaxStep : k = 0 \/ k \in Step
    /\ RequestId \subseteq Nat /\ Direct \notin RequestId
BY ChainAssumption DEF Step, RequestId, Direct

LEMMA ReadTypes ==
    ASSUME TypeOK, NEW s \in Session
    PROVE  /\ req[s].op = "ask" => req[s].user \in Buyer
           /\ req[s].op \in {"approve", "reject"} =>
                 req[s].request \in RequestId /\ req[s].step \in Step /\ req[s].user \in User
           /\ req[s].op = "approve" => req[s].next \in 0..MaxStep
           /\ Running(req[s]) => req[s].request \in RequestId /\ req[s].step \in 0..MaxStep
           /\ req[s].op = "undo" => Running(req[s]) /\ req[s].step \in Step
<1>1. req[s] \in InFlight
    BY DEF TypeOK
<1>2. req[s].op = "ask" => req[s].user \in Buyer
    BY <1>1 DEF InFlight, Idle
<1>3. req[s].op = "approve" => /\ req[s].request \in RequestId /\ req[s].step \in Step
                               /\ req[s].user \in User /\ req[s].next \in 0..MaxStep
    BY <1>1 DEF InFlight, Idle
<1>4. req[s].op = "reject" => /\ req[s].request \in RequestId /\ req[s].step \in Step
                              /\ req[s].user \in User
    BY <1>1 DEF InFlight, Idle
<1>5. req[s].op = "run" => /\ req[s].request \in RequestId \cup {Direct}
                           /\ req[s].step \in 0..MaxStep
    BY <1>1 DEF InFlight, Idle
<1>6. req[s].op = "undo" => req[s].request \in RequestId /\ req[s].step \in Step
    BY <1>1 DEF InFlight, Idle
<1> QED BY <1>2, <1>3, <1>4, <1>5, <1>6, StepFacts DEF Running

LEMMA CronTypes ==
    ASSUME TypeOK
    PROVE  /\ cron.op = "replace" => cron.request \in RequestId /\ cron.step \in Step
           /\ cron.op = "close" => cron.request \in RequestId
BY DEF TypeOK, CronWork, Idle

LEMMA ApproversAreUsers == Approver \subseteq User /\ Buyer \subseteq User /\ Nobody \notin User
BY UserAssumption

LEMMA InitIInv == Init => IInv
<1> SUFFICES ASSUME Init PROVE IInv
    OBVIOUS
<1>1. TypeOK
    BY DEF Init, TypeOK, ListingStatus, RequestStatus, StepStatus, ApprovalRequest,
           ApprovalStep, InFlight, CronWork
<1>2. Chain
    BY DEF Init, Chain, ChainAlive, SkippedTail, SeparationOfDuties, OrderedWhenApproved, Pending
<1>3. Reads
    BY DEF Init, Reads, ApproveReads, RejectReads, RunsApproved, RunOnce, ClosesRejected,
           Running, Idle
<1> QED BY <1>1, <1>2, <1>3 DEF IInv
----------------------------------------------------------------------------
(* Types.                                                                   *)

LEMMA StartTypes ==
    ASSUME TypeOK, NEW s \in Session, NEW r \in InFlight, Start(s, r) \/ (r = Idle /\ Finish(s))
    PROVE  req' \in [Session -> InFlight]
BY DEF TypeOK, Start, Finish

LEMMA FinishTypes ==
    ASSUME TypeOK, NEW s \in Session, Finish(s)
    PROVE  req' \in [Session -> InFlight]
BY DEF TypeOK, Finish, InFlight

LEMMA SetRequestTypes ==
    ASSUME TypeOK, NEW r \in RequestId, NEW status \in RequestStatus, SetRequest(r, status)
    PROVE  request' \in [RequestId -> ApprovalRequest]
BY DEF TypeOK, SetRequest, ApprovalRequest

(* A decision touches one step of one request.                              *)
LEMMA DecidedTypes ==
    ASSUME TypeOK, NEW r \in RequestId, NEW k \in Step, NEW status \in StepStatus,
           NEW u \in User \cup {Nobody}
    PROVE  /\ Decided(r, k, status, u) \in [RequestId -> [Step -> ApprovalStep]]
           /\ \A q \in RequestId, j \in Step :
                 /\ q # r \/ j # k => Decided(r, k, status, u)[q][j] = step[q][j]
                 /\ q = r /\ j = k => /\ Decided(r, k, status, u)[q][j].status = status
                                      /\ Decided(r, k, status, u)[q][j].decidedBy = u
<1> DEFINE new == [status |-> status, approver |-> step[r][k].approver, decidedBy |-> u]
           row == [step[r] EXCEPT ![k] = new]
<1>1. step \in [RequestId -> [Step -> ApprovalStep]] /\ step[r] \in [Step -> ApprovalStep]
    BY DEF TypeOK
<1>2. step[r][k] \in ApprovalStep
    BY <1>1
<1>3. new \in ApprovalStep
    BY <1>2 DEF ApprovalStep
<1>4. new.status = status /\ new.decidedBy = u
    OBVIOUS
<1>5. Decided(r, k, status, u) = [step EXCEPT ![r] = row]
    BY <1>1 DEF Decided
<1> HIDE DEF new
<1>6. row \in [Step -> ApprovalStep] /\ row[k] = new /\ \A j \in Step : j # k => row[j] = step[r][j]
    BY <1>1, <1>3
<1> HIDE DEF row
<1> QED BY <1>1, <1>4, <1>5, <1>6

LEMMA OpenedTypes ==
    ASSUME NEW f \in [RequestId -> [Step -> ApprovalStep]], NEW r \in RequestId, NEW k \in Step
    PROVE  LET g == [f EXCEPT ![r][k].status = "PENDING"]
           IN  /\ g \in [RequestId -> [Step -> ApprovalStep]]
               /\ \A q \in RequestId, j \in Step :
                     /\ g[q][j].decidedBy = f[q][j].decidedBy
                     /\ g[q][j].status = IF q = r /\ j = k THEN "PENDING" ELSE f[q][j].status
<1> DEFINE new == [f[r][k] EXCEPT !.status = "PENDING"]
           row == [f[r] EXCEPT ![k] = new]
<1>1. f[r] \in [Step -> ApprovalStep] /\ f[r][k] \in ApprovalStep
    OBVIOUS
<1>2. new \in ApprovalStep /\ new.status = "PENDING" /\ new.decidedBy = f[r][k].decidedBy
    BY <1>1 DEF ApprovalStep, StepStatus
<1>3. [f EXCEPT ![r][k].status = "PENDING"] = [f EXCEPT ![r] = row]
    OBVIOUS
<1> HIDE DEF new
<1>4. row \in [Step -> ApprovalStep] /\ row[k] = new /\ \A j \in Step : j # k => row[j] = f[r][j]
    BY <1>1, <1>2
<1> HIDE DEF row
<1> QED BY <1>1, <1>2, <1>3, <1>4

LEMMA ReplacedTypes ==
    ASSUME NEW f \in [RequestId -> [Step -> ApprovalStep]], NEW r \in RequestId, NEW k \in Step,
           NEW u \in User
    PROVE  LET g == [f EXCEPT ![r][k].approver = u]
           IN  /\ g \in [RequestId -> [Step -> ApprovalStep]]
               /\ \A q \in RequestId, j \in Step :
                     g[q][j].decidedBy = f[q][j].decidedBy /\ g[q][j].status = f[q][j].status
<1> DEFINE new == [f[r][k] EXCEPT !.approver = u]
           row == [f[r] EXCEPT ![k] = new]
<1>1. f[r] \in [Step -> ApprovalStep] /\ f[r][k] \in ApprovalStep
    OBVIOUS
<1>2. new \in ApprovalStep /\ new.status = f[r][k].status /\ new.decidedBy = f[r][k].decidedBy
    BY <1>1 DEF ApprovalStep
<1>3. [f EXCEPT ![r][k].approver = u] = [f EXCEPT ![r] = row]
    OBVIOUS
<1> HIDE DEF new
<1>4. row \in [Step -> ApprovalStep] /\ row[k] = new /\ \A j \in Step : j # k => row[j] = f[r][j]
    BY <1>1, <1>2
<1> HIDE DEF row
<1> QED BY <1>1, <1>2, <1>3, <1>4

LEMMA NewStepsTypes ==
    ASSUME NEW n \in Step, NEW chain \in Flow, NEW first \in User
    PROVE  NewSteps(n, chain, first) \in [Step -> ApprovalStep]
BY UserAssumption DEF NewSteps, ApprovalStep, StepStatus

LEMMA FirstApproverTypes ==
    ASSUME TypeOK, NEW u \in Buyer, NEW chain \in Flow
    PROVE  FirstApprover(u, chain[1]) \subseteq User
<1>1. chain[1] \in User
    BY UserAssumption, StepFacts
<1> QED BY <1>1, UserAssumption DEF FirstApprover, Substitutes, TypeOK

(* Requests for an approval.                                                *)
LEMMA AskTypes ==
    ASSUME IInv, NEW s \in Session, AskStep(s)
    PROVE  TypeOK'
<1> USE DEF IInv
<1>1. ASSUME NEW u \in Buyer, AwardRead(s, u)
      PROVE  TypeOK'
    <2>1. [op |-> "ask", user |-> u] \in InFlight
        BY DEF InFlight
    <2> QED BY <1>1, <2>1, StartTypes DEF AwardRead, TypeOK
<1>2. CASE NoApprovalNeeded(s)
    <2>1. [op |-> "run", request |-> Direct, step |-> 0] \in InFlight
        BY ChainAssumption DEF InFlight
    <2> QED BY <1>2, <2>1, StartTypes DEF NoApprovalNeeded, TypeOK
<1>3. CASE TurnedAway(s)
    BY <1>3, FinishTypes DEF TurnedAway, TypeOK
<1>4. CASE SuspendListing(s)
    BY <1>4, FinishTypes DEF SuspendListing, TypeOK, ListingStatus
<1>5. ASSUME NEW n \in Step, NEW chain \in Flow, RequestApproval(s, n, chain)
      PROVE  TypeOK'
    <2>1. [op |-> "suspend"] \in InFlight
        BY DEF InFlight
    <2>2. req' \in [Session -> InFlight]
        BY <1>5, <2>1, StartTypes DEF RequestApproval
    <2>3. PICK r \in RequestId, first \in FirstApprover(req[s].user, chain[1]) :
             /\ request' = [request EXCEPT ![r] =
                   [status |-> "PENDING", createdBy |-> req[s].user, ordered |-> FALSE]]
             /\ step' = [step EXCEPT ![r] = NewSteps(n, chain, first)]
        BY <1>5 DEF RequestApproval
    <2>4. req[s].user \in Buyer /\ req[s].user \in User
        BY <1>5, ReadTypes, UserAssumption DEF RequestApproval, IsAt
    <2>5. NewSteps(n, chain, first) \in [Step -> ApprovalStep]
        BY <2>4, FirstApproverTypes, NewStepsTypes
    <2>6. request' \in [RequestId -> ApprovalRequest]
        BY <2>3, <2>4 DEF TypeOK, ApprovalRequest, RequestStatus
    <2>7. step' \in [RequestId -> [Step -> ApprovalStep]]
        BY <2>3, <2>5 DEF TypeOK
    <2> QED BY <1>5, <2>2, <2>6, <2>7 DEF RequestApproval, TypeOK
<1> QED BY <1>1, <1>2, <1>3, <1>4, <1>5 DEF AskStep

----------------------------------------------------------------------------
(* The chain of a request that waits for step k.                            *)

LEMMA CurrentChain ==
    ASSUME IInv, NEW r \in RequestId, NEW k \in Step, IsCurrent(r, k)
    PROVE  /\ \A j \in Step : j < k => step[r][j].status = "APPROVED"
           /\ \A j \in Step : j > k => step[r][j].status \in {"WAITING", "SKIPPED"}
<1>1. r \in Pending
    BY DEF IsCurrent, Pending
<1>2. PICK i \in Step : /\ step[r][i].status = "PENDING"
                        /\ \A j \in Step : j < i => step[r][j].status = "APPROVED"
                        /\ \A j \in Step : j > i => step[r][j].status \in {"WAITING", "SKIPPED"}
    BY <1>1 DEF IInv, Chain, ChainAlive
<1>3. i = k
    BY <1>2, StepFacts DEF IsCurrent
<1> QED BY <1>2, <1>3

(* The next step is the one after k, unless no step after k is needed.      *)
LEMMA NextStepIs ==
    ASSUME IInv, NEW r \in RequestId, NEW k \in Step, IsCurrent(r, k)
    PROVE  \/ /\ NextStep(r, k) = 0
              /\ \A j \in Step : j > k => step[r][j].status # "WAITING"
           \/ /\ NextStep(r, k) = k + 1 /\ k + 1 \in Step
              /\ step[r][k + 1].status = "WAITING"
<1> DEFINE waiting == {j \in Step : j > k /\ step[r][j].status = "WAITING"}
<1>1. CASE waiting = {}
    BY <1>1 DEF NextStep
<1>2. CASE waiting # {}
    <2>1. PICK j \in waiting : TRUE
        BY <1>2
    <2>2. j \in Step /\ j > k /\ step[r][j].status = "WAITING"
        BY <2>1
    <2>3. k + 1 \in Step
        BY <2>2, ChainAssumption DEF Step
    <2>4. step[r][k + 1].status # "SKIPPED"
        BY <2>2, <2>3, StepFacts DEF IInv, Chain, SkippedTail
    <2>5. step[r][k + 1].status = "WAITING"
        BY <2>3, <2>4, CurrentChain, StepFacts
    <2>6. k + 1 \in waiting /\ \A i \in waiting : k + 1 <= i
        BY <2>3, <2>5, StepFacts
    <2>7. \A m \in waiting : (\A i \in waiting : m <= i) => m = k + 1
        BY <2>6, StepFacts
    <2>8. (CHOOSE m \in waiting : \A i \in waiting : m <= i) = k + 1
        BY <2>6, <2>7
    <2>9. NextStep(r, k) = k + 1
        BY <1>2, <2>8 DEF NextStep
    <2> QED BY <2>3, <2>5, <2>9
<1> QED BY <1>1, <1>2

(* Decisions, and the award that follows the last of them.                  *)
LEMMA DecideTypes ==
    ASSUME IInv, NEW s \in Session, DecideStep(s)
    PROVE  TypeOK'
<1>0. TypeOK
    BY DEF IInv
<1>1. ASSUME NEW u \in User, NEW r \in RequestId, NEW k \in Step, DecideRead(s, u, r, k)
      PROVE  TypeOK'
    <2>1. IsCurrent(r, k)
        BY <1>1 DEF DecideRead, MayDecide
    <2>2. NextStep(r, k) \in 0..MaxStep
        BY <2>1, NextStepIs, StepFacts, ChainAssumption
    <2>3. /\ [op |-> "approve", request |-> r, step |-> k, user |-> u,
              next |-> NextStep(r, k)] \in InFlight
          /\ [op |-> "reject", request |-> r, step |-> k, user |-> u] \in InFlight
        BY <2>2 DEF InFlight
    <2>4. req' \in [Session -> InFlight]
        BY <1>0, <1>1, <2>3, StartTypes DEF DecideRead
    <2> QED BY <1>0, <1>1, <2>4 DEF DecideRead, TypeOK
<1>2. CASE ApproveCommit(s)
    <2> DEFINE r == req[s].request  k == req[s].step  next == req[s].next
               done == Decided(r, k, "APPROVED", req[s].user)
    <2>1. r \in RequestId /\ k \in Step /\ req[s].user \in User /\ next \in 0..MaxStep
        BY <1>0, <1>2, ReadTypes DEF ApproveCommit, IsAt
    <2>2. done \in [RequestId -> [Step -> ApprovalStep]]
        BY <1>0, <2>1, DecidedTypes DEF StepStatus
    <2>3. next # 0 => [done EXCEPT ![r][next].status = "PENDING"] \in [RequestId -> [Step -> ApprovalStep]]
        <3> HIDE DEF r, k, next, done
        <3> SUFFICES ASSUME next # 0 PROVE [done EXCEPT ![r][next].status = "PENDING"] \in [RequestId -> [Step -> ApprovalStep]]
            OBVIOUS
        <3>1. next \in Step
            BY <2>1, StepFacts
        <3> QED BY <2>1, <2>2, <3>1, OpenedTypes
    <2>4. [op |-> "run", request |-> r, step |-> k] \in InFlight
        BY <2>1, StepFacts DEF InFlight
    <2>5. "APPROVED" \in RequestStatus
        BY DEF RequestStatus
    <2>6. CASE ~IsCurrent(r, k)
        BY <1>0, <1>2, <2>6, FinishTypes DEF ApproveCommit, TypeOK
    <2>7. CASE IsCurrent(r, k) /\ next # 0
        BY <1>0, <1>2, <2>3, <2>7, FinishTypes DEF ApproveCommit, TypeOK
    <2>8. CASE IsCurrent(r, k) /\ next = 0
        <3>1. /\ step' = done /\ SetRequest(r, "APPROVED")
              /\ Start(s, [op |-> "run", request |-> r, step |-> k])
              /\ UNCHANGED <<listing, canAct, cron>>
            BY <1>2, <2>8 DEF ApproveCommit
        <3> QED BY <1>0, <2>1, <2>2, <2>4, <2>5, <3>1, StartTypes, SetRequestTypes DEF TypeOK
    <2> QED BY <2>6, <2>7, <2>8
<1>3. CASE RejectCommit(s)
    <2> DEFINE r == req[s].request  k == req[s].step
    <2>1. r \in RequestId /\ k \in Step /\ req[s].user \in User
        BY <1>0, <1>3, ReadTypes DEF RejectCommit, IsAt
    <2>2. Decided(r, k, "REJECTED", req[s].user) \in [RequestId -> [Step -> ApprovalStep]]
        BY <1>0, <2>1, DecidedTypes DEF StepStatus
    <2>3. [op |-> "rejected"] \in InFlight
        BY DEF InFlight
    <2>4. "REJECTED" \in RequestStatus
        BY DEF RequestStatus
    <2>5. CASE IsCurrent(r, k)
        BY <1>0, <1>3, <2>1, <2>2, <2>3, <2>4, <2>5, StartTypes, SetRequestTypes
        DEF RejectCommit, TypeOK
    <2>6. CASE ~IsCurrent(r, k)
        BY <1>0, <1>3, <2>6, FinishTypes DEF RejectCommit, TypeOK
    <2> QED BY <2>5, <2>6
<1>4. CASE OnAwardRejected(s)
    BY <1>0, <1>4, FinishTypes DEF OnAwardRejected, Release, TypeOK, ListingStatus
<1>5. CASE RunAward(s)
    <2>1. req[s].request \in RequestId \cup {Direct}
        BY <1>0, <1>5, ReadTypes DEF RunAward, IsAt, Running
    <2>2. request' \in [RequestId -> ApprovalRequest]
        BY <1>0, <1>5, <2>1 DEF RunAward, TypeOK, ApprovalRequest
    <2> QED BY <1>0, <1>5, <2>2, FinishTypes DEF RunAward, TypeOK, ListingStatus
<1>6. CASE AwardFails(s)
    <2>1. CASE req[s].request = Direct
        BY <1>0, <1>6, <2>1, FinishTypes DEF AwardFails, TypeOK
    <2>2. CASE req[s].request # Direct
        <3>1. Running(req[s])
            BY <1>6, <2>2 DEF AwardFails, IsAt, Running
        <3>2. req[s].request \in RequestId /\ req[s].step \in Step
            BY <1>0, <3>1, ReadTypes DEF IInv, Reads, RunsApproved, ApprovedUpTo
        <3>3. [op |-> "undo", request |-> req[s].request, step |-> req[s].step] \in InFlight
            BY <3>2 DEF InFlight
        <3> QED BY <1>0, <1>6, <2>2, <3>3, StartTypes DEF AwardFails, TypeOK
    <2> QED BY <2>1, <2>2
<1>7. CASE UndoApproval(s)
    <2> DEFINE r == req[s].request  k == req[s].step
    <2>1. r \in RequestId /\ k \in Step
        BY <1>0, <1>7, ReadTypes DEF UndoApproval, IsAt
    <2>2. Decided(r, k, "PENDING", Nobody) \in [RequestId -> [Step -> ApprovalStep]]
        BY <1>0, <2>1, DecidedTypes DEF StepStatus
    <2>3. "PENDING" \in RequestStatus
        BY DEF RequestStatus
    <2>4. CASE Pending = {}
        BY <1>0, <1>7, <2>1, <2>2, <2>3, <2>4, FinishTypes, SetRequestTypes
        DEF UndoApproval, TypeOK
    <2>5. CASE Pending # {}
        BY <1>0, <1>7, <2>5, FinishTypes DEF UndoApproval, TypeOK
    <2> QED BY <2>4, <2>5
<1>8. CASE Crash(s)
    BY <1>0, <1>8, FinishTypes DEF Crash, TypeOK
<1> QED BY <1>1, <1>2, <1>3, <1>4, <1>5, <1>6, <1>7, <1>8 DEF DecideStep

(* The cron.                                                                *)
LEMMA CronStepTypes ==
    ASSUME IInv, CronScan \/ CronStep \/ CronCrash
    PROVE  TypeOK'
<1>0. TypeOK
    BY DEF IInv
<1>1. CASE CronScan
    <2>1. PICK r \in RequestId, k \in Step :
             cron' = [op |-> "replace", request |-> r, step |-> k, approver |-> step[r][k].approver]
        BY <1>1 DEF CronScan
    <2>2. step[r][k].approver \in User \cup {Nobody}
        BY <1>0 DEF TypeOK, ApprovalStep
    <2>3. cron' \in CronWork
        BY <2>1, <2>2 DEF CronWork
    <2> QED BY <1>0, <1>1, <2>3 DEF CronScan, TypeOK
<1>2. CASE CronReplace
    <2>1. cron.request \in RequestId /\ cron.step \in Step
        BY <1>0, <1>2, CronTypes DEF CronReplace
    <2>2. PICK u \in CronPool : step' = [step EXCEPT ![cron.request][cron.step].approver = u]
        BY <1>2 DEF CronReplace
    <2>3. u \in User
        BY <1>0, UserAssumption DEF CronPool, Substitutes, TypeOK
    <2>4. step' \in [RequestId -> [Step -> ApprovalStep]]
        BY <1>0, <2>1, <2>2, <2>3, ReplacedTypes DEF TypeOK
    <2> QED BY <1>0, <1>2, <2>4 DEF CronReplace, TypeOK, CronWork
<1>3. CASE CronReject
    <2>1. cron.request \in RequestId
        BY <1>0, <1>3, CronTypes DEF CronReject
    <2>2. "REJECTED" \in RequestStatus /\ [op |-> "close", request |-> cron.request] \in CronWork
          /\ Idle \in CronWork
        BY <2>1 DEF RequestStatus, CronWork
    <2>3. request' \in [RequestId -> ApprovalRequest]
        BY <1>0, <1>3, <2>1, <2>2, SetRequestTypes DEF CronReject, TypeOK
    <2> QED BY <1>0, <1>3, <2>2, <2>3 DEF CronReject, TypeOK
<1>4. CASE CronCloseSteps
    <2>1. cron.request \in RequestId
        BY <1>0, <1>4, CronTypes DEF CronCloseSteps
    <2>2. ASSUME NEW k \in Step
          PROVE  [step[cron.request][k] EXCEPT !.status = "REJECTED"] \in ApprovalStep
        <3>1. step[cron.request][k] \in ApprovalStep
            BY <1>0, <2>1 DEF TypeOK
        <3> QED BY <3>1 DEF ApprovalStep, StepStatus
    <2>3. [op |-> "rejected"] \in CronWork
        BY DEF CronWork
    <2> QED BY <1>0, <1>4, <2>1, <2>2, <2>3 DEF CronCloseSteps, TypeOK
<1>5. CASE CronRejected
    BY <1>0, <1>5 DEF CronRejected, Release, TypeOK, ListingStatus, CronWork
<1>6. CASE CronCrash
    BY <1>0, <1>6 DEF CronCrash, TypeOK, CronWork
<1> QED BY <1>1, <1>2, <1>3, <1>4, <1>5, <1>6 DEF CronStep

LEMMA TypeStep == IInv /\ [Next]_vars => TypeOK'
<1> SUFFICES ASSUME IInv, [Next]_vars PROVE TypeOK'
    OBVIOUS
<1>0. TypeOK
    BY DEF IInv
<1>1. ASSUME NEW u \in Approver, LoseRight(u) \/ GainRight(u)
      PROVE  TypeOK'
    BY <1>0, <1>1 DEF LoseRight, GainRight, TypeOK
<1>2. ASSUME NEW s \in Session, AskStep(s) \/ DecideStep(s)
      PROVE  TypeOK'
    BY <1>2, AskTypes, DecideTypes
<1>3. ASSUME NEW r \in RequestId, CancelRequest(r)
      PROVE  TypeOK'
    <2>1. "CANCELLED" \in RequestStatus
        BY DEF RequestStatus
    <2> QED BY <1>0, <1>3, <2>1, SetRequestTypes DEF CancelRequest, Release, TypeOK, ListingStatus
<1>4. CASE AwardTakenBack
    BY <1>0, <1>4 DEF AwardTakenBack, TypeOK, ListingStatus
<1>5. CASE UNCHANGED vars
    BY <1>0, <1>5 DEF vars, TypeOK
<1> QED BY <1>1, <1>2, <1>3, <1>4, <1>5, CronStepTypes DEF Next

----------------------------------------------------------------------------
(* What a step does to the requests: nothing, or one of eight things to one *)
(* of them.                                                                 *)

Same(q) ==
    /\ request'[q] = request[q]
    /\ \A j \in Step : /\ step'[q][j].status = step[q][j].status
                       /\ step'[q][j].decidedBy = step[q][j].decidedBy

SameSteps(r) == \A j \in Step : /\ step'[r][j].status = step[r][j].status
                                /\ step'[r][j].decidedBy = step[r][j].decidedBy

(* The status of the request changes, nothing else about it.                *)
Becomes(r, status) ==
    /\ request'[r].status = status
    /\ request'[r].createdBy = request[r].createdBy
    /\ request'[r].ordered = request[r].ordered

(* Step k is decided, the others stay.                                      *)
DecidedAt(r, k, status, u) ==
    \A j \in Step :
        /\ step'[r][j].status = IF j = k THEN status ELSE step[r][j].status
        /\ step'[r][j].decidedBy = IF j = k THEN u ELSE step[r][j].decidedBy

Opened(r) ==
    /\ request[r].status = "NONE" /\ request'[r].status = "PENDING" /\ ~request'[r].ordered
    /\ \E n \in Step : \A j \in Step :
          /\ step'[r][j].status = IF j = 1 THEN "PENDING" ELSE IF j <= n THEN "WAITING" ELSE "SKIPPED"
          /\ step'[r][j].decidedBy = Nobody

Advanced(r) ==
    /\ request'[r] = request[r]
    /\ \E s \in Session, k \in Step, next \in Step :
          /\ req[s].op = "approve" /\ r = req[s].request /\ k = req[s].step /\ next = req[s].next
          /\ IsCurrent(r, k)
          /\ \A j \in Step :
                /\ step'[r][j].status = IF j = next THEN "PENDING" ELSE
                                        IF j = k THEN "APPROVED" ELSE step[r][j].status
                /\ step'[r][j].decidedBy = IF j = k THEN req[s].user ELSE step[r][j].decidedBy

Finalized(s, r, k) ==
    /\ req[s].op = "approve" /\ r = req[s].request /\ k = req[s].step /\ req[s].next = 0
    /\ IsCurrent(r, k)
    /\ Becomes(r, "APPROVED")
    /\ DecidedAt(r, k, "APPROVED", req[s].user)

Refused(r) ==
    \E s \in Session, k \in Step :
        /\ req[s].op = "reject" /\ r = req[s].request /\ k = req[s].step
        /\ IsCurrent(r, k)
        /\ Becomes(r, "REJECTED")
        /\ DecidedAt(r, k, "REJECTED", req[s].user)

Ended(r) ==
    /\ request[r].status = "PENDING"
    /\ Becomes(r, "REJECTED") \/ Becomes(r, "CANCELLED")
    /\ SameSteps(r)

Ran(s, r) ==
    /\ Running(req[s]) /\ r = req[s].request /\ ~Running(req'[s])
    /\ request'[r].ordered
    /\ request'[r].status = request[r].status /\ request'[r].createdBy = request[r].createdBy
    /\ SameSteps(r)

Undone(s, r) ==
    /\ Running(req[s]) /\ r = req[s].request /\ ~Running(req'[s])
    /\ Becomes(r, "PENDING")
    /\ DecidedAt(r, req[s].step, "PENDING", Nobody)

Swept(r) ==
    /\ request[r].status = "REJECTED" /\ request'[r] = request[r]
    /\ \A j \in Step :
          /\ step'[r][j].status = IF step[r][j].status \in {"PENDING", "WAITING"}
                                  THEN "REJECTED" ELSE step[r][j].status
          /\ step'[r][j].decidedBy = step[r][j].decidedBy

Changed(r) ==
    \/ Opened(r) \/ Advanced(r) \/ Refused(r) \/ Ended(r) \/ Swept(r)
    \/ \E s \in Session, k \in Step : Finalized(s, r, k)
    \/ \E s \in Session : Ran(s, r) \/ Undone(s, r)

OneChanged == \E r \in RequestId : Changed(r) /\ \A q \in RequestId : q # r => Same(q)

Effect == (\A q \in RequestId : Same(q)) \/ OneChanged

----------------------------------------------------------------------------
LEMMA KeepEffect == ASSUME UNCHANGED <<request, step>> PROVE Effect
BY DEF Effect, Same

(* A change of the request's record alone.                                  *)
LEMMA SetRequestEffect ==
    ASSUME TypeOK, NEW r \in RequestId, NEW status \in RequestStatus, SetRequest(r, status)
    PROVE  Becomes(r, status) /\ \A q \in RequestId : q # r => request'[q] = request[q]
BY DEF TypeOK, SetRequest, ApprovalRequest, Becomes

LEMMA OpenedEffect ==
    ASSUME IInv, NEW s \in Session, NEW n \in Step, NEW chain \in Flow, RequestApproval(s, n, chain)
    PROVE  Effect
<1>0. TypeOK
    BY DEF IInv
<1>1. PICK r \in RequestId, first \in FirstApprover(req[s].user, chain[1]) :
         /\ request[r].status = "NONE"
         /\ request' = [request EXCEPT ![r] =
               [status |-> "PENDING", createdBy |-> req[s].user, ordered |-> FALSE]]
         /\ step' = [step EXCEPT ![r] = NewSteps(n, chain, first)]
    BY DEF RequestApproval
<1>2. /\ request'[r].status = "PENDING" /\ ~request'[r].ordered
      /\ \A q \in RequestId : q # r => request'[q] = request[q]
    BY <1>0, <1>1 DEF TypeOK
<1>3. step'[r] = NewSteps(n, chain, first) /\ \A q \in RequestId : q # r => step'[q] = step[q]
    BY <1>0, <1>1 DEF TypeOK
<1>4. \A j \in Step :
         /\ step'[r][j].status = IF j = 1 THEN "PENDING" ELSE IF j <= n THEN "WAITING" ELSE "SKIPPED"
         /\ step'[r][j].decidedBy = Nobody
    BY <1>3 DEF NewSteps
<1>5. Opened(r)
    BY <1>1, <1>2, <1>4 DEF Opened
<1> QED BY <1>2, <1>3, <1>5 DEF Effect, OneChanged, Changed, Same

LEMMA ApproveEffect ==
    ASSUME IInv, NEW s \in Session, ApproveCommit(s)
    PROVE  Effect
<1> DEFINE r == req[s].request  k == req[s].step  next == req[s].next  u == req[s].user
           done == Decided(r, k, "APPROVED", u)
<1>0. TypeOK
    BY DEF IInv
<1>1. /\ r \in RequestId /\ k \in Step /\ u \in User /\ next \in 0..MaxStep
      /\ req[s].op = "approve"
    BY <1>0, ReadTypes DEF ApproveCommit, IsAt
<1>2. /\ done \in [RequestId -> [Step -> ApprovalStep]]
      /\ \A q \in RequestId, j \in Step :
            /\ q # r \/ j # k => done[q][j] = step[q][j]
            /\ q = r /\ j = k => done[q][j].status = "APPROVED" /\ done[q][j].decidedBy = u
    BY <1>0, <1>1, DecidedTypes DEF StepStatus
<1>3. CASE ~IsCurrent(r, k)
    BY <1>3, KeepEffect DEF ApproveCommit
<1>4. CASE IsCurrent(r, k) /\ next # 0
    <2>1. UNCHANGED request /\ step' = [done EXCEPT ![r][next].status = "PENDING"]
        BY <1>4 DEF ApproveCommit
    <2>2. next \in Step
        BY <1>1, <1>4, StepFacts
    <2> HIDE DEF done, r, k, next, u
    <2>3. \A q \in RequestId, j \in Step :
             /\ step'[q][j].decidedBy = done[q][j].decidedBy
             /\ step'[q][j].status = IF q = r /\ j = next THEN "PENDING" ELSE done[q][j].status
        BY <1>1, <1>2, <2>1, <2>2, OpenedTypes
    <2>4. \A q \in RequestId : q # r => Same(q)
        BY <1>1, <1>2, <2>1, <2>3 DEF Same
    <2>5. \A j \in Step :
             /\ step'[r][j].status = IF j = next THEN "PENDING" ELSE
                                     IF j = k THEN "APPROVED" ELSE step[r][j].status
             /\ step'[r][j].decidedBy = IF j = k THEN u ELSE step[r][j].decidedBy
        BY <1>1, <1>2, <2>3
    <2>6. Advanced(r)
        BY <1>1, <1>4, <2>1, <2>2, <2>5 DEF Advanced, r, k, next, u
    <2> QED BY <1>1, <2>4, <2>6 DEF Effect, OneChanged, Changed
<1>5. CASE IsCurrent(r, k) /\ next = 0
    <2>1. step' = done /\ SetRequest(r, "APPROVED")
        BY <1>5 DEF ApproveCommit
    <2> HIDE DEF done, r, k, next, u
    <2>2. Becomes(r, "APPROVED") /\ \A q \in RequestId : q # r => request'[q] = request[q]
        BY <1>0, <1>1, <2>1, SetRequestEffect DEF RequestStatus
    <2>3. DecidedAt(r, k, "APPROVED", u) /\ \A q \in RequestId : q # r => Same(q)
        BY <1>1, <1>2, <2>1, <2>2 DEF DecidedAt, Same
    <2>4. Finalized(s, r, k)
        BY <1>1, <1>5, <2>2, <2>3 DEF Finalized, r, k, next, u
    <2> QED BY <1>1, <2>3, <2>4 DEF Effect, OneChanged, Changed
<1> QED BY <1>3, <1>4, <1>5

LEMMA RejectEffect ==
    ASSUME IInv, NEW s \in Session, RejectCommit(s)
    PROVE  Effect
<1> DEFINE r == req[s].request  k == req[s].step  u == req[s].user
<1>0. TypeOK
    BY DEF IInv
<1>1. r \in RequestId /\ k \in Step /\ u \in User /\ req[s].op = "reject"
    BY <1>0, ReadTypes DEF RejectCommit, IsAt
<1>2. CASE ~IsCurrent(r, k)
    BY <1>2, KeepEffect DEF RejectCommit
<1>3. CASE IsCurrent(r, k)
    <2>1. step' = Decided(r, k, "REJECTED", u) /\ SetRequest(r, "REJECTED")
        BY <1>3 DEF RejectCommit
    <2> HIDE DEF r, k, u
    <2>2. Becomes(r, "REJECTED") /\ \A q \in RequestId : q # r => request'[q] = request[q]
        BY <1>0, <1>1, <2>1, SetRequestEffect DEF RequestStatus
    <2>3. DecidedAt(r, k, "REJECTED", u) /\ \A q \in RequestId : q # r => Same(q)
        BY <1>0, <1>1, <2>1, <2>2, DecidedTypes DEF DecidedAt, Same, StepStatus
    <2>4. Refused(r)
        BY <1>1, <1>3, <2>2, <2>3 DEF Refused, r, k, u
    <2> QED BY <1>1, <2>3, <2>4 DEF Effect, OneChanged, Changed
<1> QED BY <1>2, <1>3

LEMMA CancelEffect ==
    ASSUME IInv, NEW r \in RequestId, CancelRequest(r)
    PROVE  Effect
<1>0. TypeOK
    BY DEF IInv
<1>1. Becomes(r, "CANCELLED") /\ \A q \in RequestId : q # r => request'[q] = request[q]
    BY <1>0, SetRequestEffect DEF CancelRequest, RequestStatus
<1>2. Ended(r) /\ \A q \in RequestId : q # r => Same(q)
    BY <1>1 DEF CancelRequest, Ended, SameSteps, Same
<1> QED BY <1>2 DEF Effect, OneChanged, Changed

LEMMA RunEffect ==
    ASSUME IInv, NEW s \in Session, RunAward(s)
    PROVE  Effect
<1> DEFINE r == req[s].request
<1>0. TypeOK
    BY DEF IInv
<1>1. CASE r = Direct
    BY <1>1, KeepEffect DEF RunAward
<1>2. CASE r # Direct
    <2>1. Running(req[s])
        BY <1>2 DEF RunAward, IsAt, Running
    <2>2. r \in RequestId
        BY <1>0, <2>1, ReadTypes
    <2>3. request' = [request EXCEPT ![r].ordered = TRUE] /\ UNCHANGED step
        BY <1>2 DEF RunAward
    <2>4. ~Running(req'[s])
        BY <1>0 DEF RunAward, Finish, Running, Idle, TypeOK
    <2> HIDE DEF r
    <2>5. /\ request'[r].ordered
          /\ request'[r].status = request[r].status /\ request'[r].createdBy = request[r].createdBy
          /\ \A q \in RequestId : q # r => request'[q] = request[q]
        BY <1>0, <2>2, <2>3 DEF TypeOK, ApprovalRequest
    <2>6. Ran(s, r) /\ \A q \in RequestId : q # r => Same(q)
        BY <2>1, <2>3, <2>4, <2>5 DEF Ran, SameSteps, Same, r
    <2> QED BY <2>2, <2>6 DEF Effect, OneChanged, Changed
<1> QED BY <1>1, <1>2

LEMMA UndoEffect ==
    ASSUME IInv, NEW s \in Session, UndoApproval(s)
    PROVE  Effect
<1> DEFINE r == req[s].request  k == req[s].step
<1>0. TypeOK
    BY DEF IInv
<1>1. r \in RequestId /\ k \in Step /\ Running(req[s])
    BY <1>0, ReadTypes DEF UndoApproval, IsAt
<1>2. ~Running(req'[s])
    BY <1>0 DEF UndoApproval, Finish, Running, Idle, TypeOK
<1>3. CASE Pending # {}
    BY <1>3, KeepEffect DEF UndoApproval
<1>4. CASE Pending = {}
    <2>1. step' = Decided(r, k, "PENDING", Nobody) /\ SetRequest(r, "PENDING")
        BY <1>4 DEF UndoApproval
    <2> HIDE DEF r, k
    <2>2. Becomes(r, "PENDING") /\ \A q \in RequestId : q # r => request'[q] = request[q]
        BY <1>0, <1>1, <2>1, SetRequestEffect DEF RequestStatus
    <2>3. DecidedAt(r, k, "PENDING", Nobody) /\ \A q \in RequestId : q # r => Same(q)
        BY <1>0, <1>1, <2>1, <2>2, DecidedTypes DEF DecidedAt, Same, StepStatus
    <2>4. Undone(s, r)
        BY <1>1, <1>2, <2>2, <2>3 DEF Undone, r, k
    <2> QED BY <1>1, <2>3, <2>4 DEF Effect, OneChanged, Changed
<1> QED BY <1>3, <1>4

LEMMA CronEffect ==
    ASSUME IInv, CronStep
    PROVE  Effect
<1>0. TypeOK
    BY DEF IInv
<1>1. CASE CronReplace
    <2>1. cron.request \in RequestId /\ cron.step \in Step
        BY <1>0, <1>1, CronTypes DEF CronReplace
    <2>2. PICK u \in CronPool : step' = [step EXCEPT ![cron.request][cron.step].approver = u]
        BY <1>1 DEF CronReplace
    <2>3. u \in User
        BY <1>0, UserAssumption DEF CronPool, Substitutes, TypeOK
    <2>4. \A q \in RequestId, j \in Step :
             /\ step'[q][j].decidedBy = step[q][j].decidedBy
             /\ step'[q][j].status = step[q][j].status
        BY <1>0, <2>1, <2>2, <2>3, ReplacedTypes DEF TypeOK
    <2> QED BY <1>1, <2>4 DEF CronReplace, Effect, Same
<1>2. CASE CronReject
    <2>1. cron.request \in RequestId
        BY <1>0, <1>2, CronTypes DEF CronReject
    <2>2. CASE request[cron.request].status # "PENDING"
        BY <1>2, <2>2, KeepEffect DEF CronReject
    <2>3. CASE request[cron.request].status = "PENDING"
        <3>1. /\ Becomes(cron.request, "REJECTED")
              /\ \A q \in RequestId : q # cron.request => request'[q] = request[q]
            BY <1>0, <1>2, <2>1, <2>3, SetRequestEffect DEF CronReject, RequestStatus
        <3>2. /\ Ended(cron.request)
              /\ \A q \in RequestId : q # cron.request => Same(q)
            BY <1>2, <2>3, <3>1 DEF CronReject, Ended, SameSteps, Same
        <3> QED BY <2>1, <3>2 DEF Effect, OneChanged, Changed
    <2> QED BY <2>2, <2>3
<1>3. CASE CronCloseSteps
    <2>1. cron.request \in RequestId
        BY <1>0, <1>3, CronTypes DEF CronCloseSteps
    <2>2. request[cron.request].status = "REJECTED"
        BY <1>3 DEF CronCloseSteps, IInv, Reads, ClosesRejected
    <2>3. /\ step'[cron.request] = [k \in Step |->
                 IF step[cron.request][k].status \in {"PENDING", "WAITING"}
                 THEN [step[cron.request][k] EXCEPT !.status = "REJECTED"]
                 ELSE step[cron.request][k]]
          /\ \A q \in RequestId : q # cron.request => step'[q] = step[q]
        BY <1>0, <1>3, <2>1 DEF CronCloseSteps, TypeOK
    <2>4. \A j \in Step : step[cron.request][j] \in ApprovalStep
        BY <1>0, <2>1 DEF TypeOK
    <2>5. Swept(cron.request)
        BY <1>3, <2>2, <2>3, <2>4 DEF CronCloseSteps, Swept, ApprovalStep
    <2>6. \A q \in RequestId : q # cron.request => Same(q)
        BY <1>3, <2>3 DEF CronCloseSteps, Same
    <2> QED BY <2>1, <2>5, <2>6 DEF Effect, OneChanged, Changed
<1>4. CASE CronRejected
    BY <1>4, KeepEffect DEF CronRejected
<1> QED BY <1>1, <1>2, <1>3, <1>4 DEF CronStep

LEMMA EffectStep == IInv /\ [Next]_vars => Effect
<1> SUFFICES ASSUME IInv, [Next]_vars PROVE Effect
    OBVIOUS
<1>1. ASSUME NEW u \in Approver, LoseRight(u) \/ GainRight(u)
      PROVE  Effect
    BY <1>1, KeepEffect DEF LoseRight, GainRight
<1>2. ASSUME NEW s \in Session, AskStep(s)
      PROVE  Effect
    <2>1. \/ \E n \in Step, chain \in Flow : RequestApproval(s, n, chain)
          \/ UNCHANGED <<request, step>>
        BY <1>2 DEF AskStep, AwardRead, NoApprovalNeeded, TurnedAway, SuspendListing
    <2> QED BY <2>1, OpenedEffect, KeepEffect
<1>3. ASSUME NEW s \in Session, DecideStep(s)
      PROVE  Effect
    <2>1. \/ ApproveCommit(s) \/ RejectCommit(s) \/ RunAward(s) \/ UndoApproval(s)
          \/ UNCHANGED <<request, step>>
        BY <1>3 DEF DecideStep, DecideRead, OnAwardRejected, AwardFails, Crash
    <2> QED BY <2>1, ApproveEffect, RejectEffect, RunEffect, UndoEffect, KeepEffect
<1>4. ASSUME NEW r \in RequestId, CancelRequest(r)
      PROVE  Effect
    BY <1>4, CancelEffect
<1>5. CASE AwardTakenBack \/ CronScan \/ CronCrash \/ UNCHANGED vars
    BY <1>5, KeepEffect DEF AwardTakenBack, CronScan, CronCrash, vars
<1> QED BY <1>1, <1>2, <1>3, <1>4, <1>5, CronEffect DEF Next

----------------------------------------------------------------------------
(* The chain of one request.                                                *)

AliveAt(r, k) ==
    /\ step[r][k].status = "PENDING"
    /\ \A j \in Step : j < k => step[r][j].status = "APPROVED"
    /\ \A j \in Step : j > k => step[r][j].status \in {"WAITING", "SKIPPED"}

Alive(r)   == request[r].status = "PENDING" => \E k \in Step : AliveAt(r, k)
Tail(r)    == \A i, j \in Step : i < j /\ step[r][i].status = "SKIPPED" => step[r][j].status = "SKIPPED"
Duties(r)  == \A k \in Step : step[r][k].decidedBy # Nobody => step[r][k].decidedBy # request[r].createdBy
Carried(r) == request[r].ordered => /\ request[r].status = "APPROVED"
                                    /\ \A k \in Step : step[r][k].status \in {"APPROVED", "SKIPPED"}
ChainOf(r) == Alive(r) /\ Tail(r) /\ Duties(r) /\ Carried(r)

LEMMA ChainIs == /\ Chain <=> \A r \in RequestId : ChainOf(r)
                 /\ Chain' <=> \A r \in RequestId : ChainOf(r)'
<1>1. ChainAlive <=> \A r \in RequestId : Alive(r)
    BY DEF ChainAlive, Alive, AliveAt, Pending
<1>2. ChainAlive' <=> \A r \in RequestId : Alive(r)'
    BY DEF ChainAlive, Alive, AliveAt, Pending
<1>3. Chain <=> \A r \in RequestId : ChainOf(r)
    BY <1>1 DEF Chain, ChainOf, SkippedTail, Tail, SeparationOfDuties, Duties,
                OrderedWhenApproved, Carried
<1>4. Chain' <=> \A r \in RequestId : ChainOf(r)'
    BY <1>2 DEF Chain, ChainOf, SkippedTail, Tail, SeparationOfDuties, Duties,
                OrderedWhenApproved, Carried
<1> QED BY <1>3, <1>4

(* Only the statuses of the steps and who decided on them matter.           *)
LEMMA SameChain ==
    ASSUME NEW r \in RequestId, ChainOf(r), SameSteps(r), request'[r] = request[r]
    PROVE  ChainOf(r)'
<1>1. Alive(r)'
    BY DEF ChainOf, Alive, AliveAt, SameSteps
<1>2. Tail(r)' /\ Duties(r)' /\ Carried(r)'
    BY DEF ChainOf, Tail, Duties, Carried, SameSteps
<1> QED BY <1>1, <1>2 DEF ChainOf

LEMMA OpenedChain ==
    ASSUME NEW r \in RequestId, Opened(r)
    PROVE  ChainOf(r)'
<1>1. PICK n \in Step : \A j \in Step :
         /\ step'[r][j].status = IF j = 1 THEN "PENDING" ELSE IF j <= n THEN "WAITING" ELSE "SKIPPED"
         /\ step'[r][j].decidedBy = Nobody
    BY DEF Opened
<1>2. AliveAt(r, 1)'
    BY <1>1, StepFacts, ChainAssumption DEF AliveAt, Step
<1>3. Tail(r)'
    BY <1>1, ChainAssumption DEF Tail, Step
<1>4. Duties(r)' /\ Carried(r)'
    BY <1>1 DEF Opened, Duties, Carried
<1> QED BY <1>2, <1>3, <1>4, StepFacts DEF ChainOf, Alive

LEMMA AdvancedChain ==
    ASSUME IInv, NEW r \in RequestId, Advanced(r)
    PROVE  ChainOf(r)'
<1>1. PICK s \in Session, k \in Step, next \in Step :
         /\ req[s].op = "approve" /\ r = req[s].request /\ k = req[s].step /\ next = req[s].next
         /\ IsCurrent(r, k)
         /\ \A j \in Step :
               /\ step'[r][j].status = IF j = next THEN "PENDING" ELSE
                                       IF j = k THEN "APPROVED" ELSE step[r][j].status
               /\ step'[r][j].decidedBy = IF j = k THEN req[s].user ELSE step[r][j].decidedBy
    BY DEF Advanced
<1>2. ReadToApprove(req[s])
    BY <1>1 DEF IInv, Reads, ApproveReads
<1>3. next = k + 1 /\ step[r][next].status # "SKIPPED"
    BY <1>1, <1>2, StepFacts DEF ReadToApprove
<1>4. /\ \A j \in Step : j < k => step[r][j].status = "APPROVED"
      /\ \A j \in Step : j > k => step[r][j].status \in {"WAITING", "SKIPPED"}
    BY <1>1, CurrentChain
<1>5. ChainOf(r)
    BY ChainIs DEF IInv
<1>6. AliveAt(r, next)'
    BY <1>1, <1>3, <1>4, StepFacts DEF AliveAt
<1>7. Tail(r)'
    BY <1>1, <1>3, <1>5, StepFacts DEF Tail, ChainOf, IsCurrent
<1>8. Duties(r)'
    BY <1>1, <1>2, <1>5 DEF Duties, ChainOf, Advanced, ReadToApprove
<1>9. Carried(r)'
    BY <1>1, <1>5 DEF Carried, ChainOf, Advanced, IsCurrent
<1> QED BY <1>6, <1>7, <1>8, <1>9 DEF ChainOf, Alive

LEMMA FinalizedChain ==
    ASSUME IInv, NEW r \in RequestId, NEW s \in Session, NEW k \in Step, Finalized(s, r, k)
    PROVE  /\ ChainOf(r)'
           /\ ~request'[r].ordered
           /\ \A j \in Step : j <= k => step'[r][j].status = "APPROVED"
           /\ \A j \in Step : j > k => step'[r][j].status = "SKIPPED"
<1>1. ReadToApprove(req[s])
    BY DEF IInv, Reads, ApproveReads, Finalized
<1>2. /\ \A j \in Step : j < k => step[r][j].status = "APPROVED"
      /\ \A j \in Step : j > k => step[r][j].status \in {"WAITING", "SKIPPED"}
    BY CurrentChain DEF Finalized
<1>3. \A j \in Step : j > k => step[r][j].status = "SKIPPED"
    BY <1>1, <1>2 DEF Finalized, ReadToApprove
<1>4. ChainOf(r)
    BY ChainIs DEF IInv
<1>5. /\ \A j \in Step : j <= k => step'[r][j].status = "APPROVED"
      /\ \A j \in Step : j > k => step'[r][j].status = "SKIPPED"
    BY <1>2, <1>3, StepFacts DEF Finalized, DecidedAt
<1>6. ~request'[r].ordered
    BY <1>4 DEF Finalized, ChainOf, Carried, Becomes, IsCurrent
<1>7. Alive(r)' /\ Carried(r)'
    BY <1>6 DEF Alive, Carried, Finalized, Becomes
<1>8. Tail(r)'
    BY <1>5, StepFacts DEF Tail
<1>9. Duties(r)'
    BY <1>1, <1>4 DEF Duties, ChainOf, Finalized, Becomes, DecidedAt, ReadToApprove
<1> QED BY <1>5, <1>6, <1>7, <1>8, <1>9 DEF ChainOf

LEMMA EndedChain ==
    ASSUME IInv, NEW r \in RequestId, Refused(r) \/ Ended(r) \/ Swept(r)
    PROVE  ChainOf(r)'
<1>1. ChainOf(r)
    BY ChainIs DEF IInv
<1>2. CASE Refused(r)
    <2>1. PICK s \in Session, k \in Step :
             /\ req[s].op = "reject" /\ r = req[s].request /\ k = req[s].step
             /\ IsCurrent(r, k)
             /\ Becomes(r, "REJECTED")
             /\ DecidedAt(r, k, "REJECTED", req[s].user)
        BY <1>2 DEF Refused
    <2>2. ReadToReject(req[s])
        BY <2>1 DEF IInv, Reads, RejectReads
    <2>3. Alive(r)' /\ Carried(r)'
        BY <1>1, <2>1 DEF Alive, Carried, ChainOf, Becomes, IsCurrent
    <2>4. Tail(r)'
        BY <1>1, <2>1 DEF Tail, ChainOf, DecidedAt, IsCurrent
    <2>5. Duties(r)'
        BY <1>1, <2>1, <2>2 DEF Duties, ChainOf, DecidedAt, Becomes, ReadToReject
    <2> QED BY <2>3, <2>4, <2>5 DEF ChainOf
<1>3. CASE Ended(r)
    <2>1. Alive(r)' /\ Carried(r)'
        BY <1>1, <1>3 DEF Alive, Carried, ChainOf, Becomes, Ended
    <2>2. Tail(r)' /\ Duties(r)'
        BY <1>1, <1>3 DEF Tail, Duties, ChainOf, Becomes, Ended, SameSteps
    <2> QED BY <2>1, <2>2 DEF ChainOf
<1>4. CASE Swept(r)
    <2>1. Alive(r)' /\ Carried(r)'
        BY <1>1, <1>4 DEF Alive, Carried, ChainOf, Swept
    <2>2. Tail(r)' /\ Duties(r)'
        BY <1>1, <1>4 DEF Tail, Duties, ChainOf, Swept
    <2> QED BY <2>1, <2>2 DEF ChainOf
<1> QED BY <1>2, <1>3, <1>4

LEMMA RunChain ==
    ASSUME IInv, NEW r \in RequestId, NEW s \in Session, Ran(s, r) \/ Undone(s, r)
    PROVE  ChainOf(r)'
<1>1. ChainOf(r)
    BY ChainIs DEF IInv
<1>2. PICK k \in Step : k = req[s].step /\ ApprovedUpTo(r, k)
    BY DEF Ran, Undone, IInv, Reads, RunsApproved, ApprovedUpTo
<1>3. /\ \A j \in Step : j <= k => step[r][j].status = "APPROVED"
      /\ \A j \in Step : j > k => step[r][j].status = "SKIPPED"
      /\ request[r].status = "APPROVED" /\ ~request[r].ordered
    BY <1>2 DEF ApprovedUpTo
<1>4. CASE Ran(s, r)
    <2>1. \A j \in Step : j <= k \/ j > k
        BY StepFacts
    <2>2. \A j \in Step : step[r][j].status \in {"APPROVED", "SKIPPED"}
        BY <1>3, <2>1
    <2>3. /\ \A j \in Step : /\ step'[r][j].status = step[r][j].status
                             /\ step'[r][j].decidedBy = step[r][j].decidedBy
          /\ request'[r].status = "APPROVED" /\ request'[r].createdBy = request[r].createdBy
        BY <1>3, <1>4 DEF Ran, SameSteps
    <2>4. Alive(r)' /\ Carried(r)'
        BY <2>2, <2>3 DEF Alive, Carried
    <2>5. Tail(r)'
        BY <1>1, <2>3 DEF Tail, ChainOf
    <2>6. Duties(r)'
        BY <1>1, <2>3 DEF Duties, ChainOf
    <2> QED BY <2>4, <2>5, <2>6 DEF ChainOf
<1>5. CASE Undone(s, r)
    <2>1. Becomes(r, "PENDING") /\ DecidedAt(r, k, "PENDING", Nobody)
        BY <1>2, <1>5 DEF Undone
    <2>2. AliveAt(r, k)'
        BY <1>3, <2>1, StepFacts DEF AliveAt, DecidedAt
    <2>3. Tail(r)'
        BY <1>1, <1>3, <2>1, StepFacts DEF Tail, ChainOf, DecidedAt
    <2>4. Duties(r)'
        BY <1>1, <2>1 DEF Duties, ChainOf, DecidedAt, Becomes
    <2>5. Carried(r)'
        BY <1>3, <2>1 DEF Carried, Becomes
    <2> QED BY <2>2, <2>3, <2>4, <2>5 DEF ChainOf, Alive
<1> QED BY <1>4, <1>5

LEMMA ChainStep == IInv /\ [Next]_vars => Chain'
<1> SUFFICES ASSUME IInv, [Next]_vars PROVE Chain'
    OBVIOUS
<1>1. \A q \in RequestId : ChainOf(q)
    BY ChainIs DEF IInv
<1>2. \A q \in RequestId : Same(q) => ChainOf(q)'
    BY <1>1, SameChain DEF Same, SameSteps
<1>3. \A q \in RequestId : Changed(q) => ChainOf(q)'
    BY OpenedChain, AdvancedChain, FinalizedChain, EndedChain, RunChain DEF Changed
<1>4. Effect
    BY EffectStep
<1>5. \A q \in RequestId : ChainOf(q)'
    BY <1>2, <1>3, <1>4 DEF Effect, OneChanged
<1> QED BY <1>5, ChainIs

----------------------------------------------------------------------------
(* What a step leaves of a request.                                         *)

(* Statuses only one kind of change starts from.                            *)
LEMMA ChangedFrom ==
    ASSUME IInv, NEW r \in RequestId, Changed(r)
    PROVE  \/ Opened(r) /\ request[r].status = "NONE"
           \/ request[r].status = "PENDING" /\ ~request[r].ordered
           \/ request[r].status = "REJECTED" /\ request'[r] = request[r]
           \/ /\ request[r].status = "APPROVED" /\ ~request[r].ordered
              /\ \E s \in Session : Ran(s, r) \/ Undone(s, r)
<1>1. ChainOf(r)
    BY ChainIs DEF IInv
<1>2. request[r].status = "PENDING" => ~request[r].ordered
    BY <1>1 DEF ChainOf, Carried
<1>3. ASSUME NEW s \in Session, Ran(s, r) \/ Undone(s, r)
      PROVE  request[r].status = "APPROVED" /\ ~request[r].ordered
    BY <1>3 DEF Ran, Undone, IInv, Reads, RunsApproved, ApprovedUpTo
<1>4. CASE Advanced(r) \/ Refused(r) \/ Ended(r) \/ \E s \in Session, k \in Step : Finalized(s, r, k)
    BY <1>2, <1>4 DEF Advanced, Refused, Ended, Finalized, IsCurrent
<1> QED BY <1>3, <1>4 DEF Changed, Opened, Swept

(* Decisions are final, step by step.                                       *)
LEMMA FinalStep ==
    ASSUME IInv, [Next]_vars, NEW r \in RequestId,
           request[r].status \in {"REJECTED", "CANCELLED"} \/ request[r].ordered
    PROVE  request'[r] = request[r]
<1>1. Same(r) \/ Changed(r)
    BY EffectStep DEF Effect, OneChanged
<1>2. ChainOf(r)
    BY ChainIs DEF IInv
<1>3. request[r].ordered => request[r].status = "APPROVED"
    BY <1>2 DEF ChainOf, Carried
<1> QED BY <1>1, <1>3, ChangedFrom DEF Same

(* What a read decision relies on: a request keeps its author, the steps    *)
(* that are not needed, and no step waits again.                            *)
Stable(r) ==
    /\ request'[r].status # "NONE"
    /\ request'[r].createdBy = request[r].createdBy
    /\ \A j \in Step : /\ step'[r][j].status = "SKIPPED" <=> step[r][j].status = "SKIPPED"
                       /\ step'[r][j].status = "WAITING" => step[r][j].status = "WAITING"

LEMMA AdvancedStable ==
    ASSUME IInv, NEW r \in RequestId, Advanced(r)
    PROVE  Stable(r)
<1>1. PICK s \in Session, k \in Step, next \in Step :
         /\ req[s].op = "approve" /\ r = req[s].request /\ k = req[s].step /\ next = req[s].next
         /\ IsCurrent(r, k)
         /\ \A j \in Step : step'[r][j].status = IF j = next THEN "PENDING" ELSE
                                                 IF j = k THEN "APPROVED" ELSE step[r][j].status
    BY DEF Advanced
<1>2. step[r][next].status # "SKIPPED"
    BY <1>1, StepFacts DEF IInv, Reads, ApproveReads, ReadToApprove
<1> QED BY <1>1, <1>2 DEF Stable, Advanced, IsCurrent

LEMMA StableStep ==
    ASSUME IInv, [Next]_vars, NEW r \in RequestId, request[r].status # "NONE"
    PROVE  Stable(r)
<1>1. CASE Same(r)
    BY <1>1 DEF Same, Stable
<1>2. CASE Refused(r)
    BY <1>2 DEF Refused, Becomes, DecidedAt, Stable, IsCurrent
<1>3. CASE Ended(r) \/ Swept(r)
    BY <1>3 DEF Ended, Swept, Becomes, SameSteps, Stable
<1>4. ASSUME NEW s \in Session, NEW k \in Step, Finalized(s, r, k)
      PROVE  Stable(r)
    BY <1>4 DEF Finalized, Becomes, DecidedAt, Stable, IsCurrent
<1>5. ASSUME NEW s \in Session, Ran(s, r)
      PROVE  Stable(r)
    BY <1>5 DEF Ran, SameSteps, Stable
<1>6. ASSUME NEW s \in Session, Undone(s, r)
      PROVE  Stable(r)
    <2>1. PICK k \in Step : k = req[s].step /\ step[r][k].status = "APPROVED"
        BY <1>6, StepFacts DEF Undone, IInv, Reads, RunsApproved, ApprovedUpTo
    <2> QED BY <1>6, <2>1 DEF Undone, Becomes, DecidedAt, Stable
<1>7. Same(r) \/ Changed(r)
    BY EffectStep DEF Effect, OneChanged
<1> QED BY <1>1, <1>2, <1>3, <1>4, <1>5, <1>6, <1>7, AdvancedStable DEF Changed, Opened

(* A session reads to decide, or begins to run or to undo an award.         *)
LEMMA ReqStep ==
    ASSUME IInv, [Next]_vars, NEW t \in Session
    PROVE  \/ req'[t] = req[t]
           \/ req'[t].op \notin {"approve", "reject"} /\ ~Running(req'[t])
           \/ \E u \in User, r \in RequestId, k \in Step : DecideRead(t, u, r, k)
           \/ AwardFails(t) \/ ApproveCommit(t)
<1>0. req \in [Session -> InFlight]
    BY DEF IInv, TypeOK
<1>1. CASE req' = req
    BY <1>1
<1>2. ASSUME NEW s \in Session, AskStep(s) \/ DecideStep(s), s # t
      PROVE  req'[t] = req[t]
    <2>1. CASE AskStep(s)
        BY <1>0, <1>2, <2>1 DEF AskStep, AwardRead, NoApprovalNeeded, TurnedAway, SuspendListing,
                                RequestApproval, Start, Finish
    <2>2. CASE DecideStep(s)
        <3>1. \E x : req' = [req EXCEPT ![s] = x]
            BY <2>2 DEF DecideStep, DecideRead, ApproveCommit, RejectCommit, OnAwardRejected,
                        RunAward, AwardFails, UndoApproval, Crash, Start, Finish
        <3> QED BY <1>0, <1>2, <3>1
    <2> QED BY <1>2, <2>1, <2>2
<1>3. CASE AskStep(t)
    BY <1>0, <1>3 DEF AskStep, AwardRead, NoApprovalNeeded, TurnedAway, SuspendListing,
                      RequestApproval, Start, Finish, Running, Idle
<1>4. CASE RejectCommit(t) \/ OnAwardRejected(t) \/ RunAward(t) \/ UndoApproval(t) \/ Crash(t)
    BY <1>0, <1>4 DEF RejectCommit, OnAwardRejected, RunAward, UndoApproval, Crash,
                      Start, Finish, Running, Idle
<1>5. CASE DecideStep(t)
    BY <1>4, <1>5 DEF DecideStep
<1>6. req' = req \/ \E s \in Session : AskStep(s) \/ DecideStep(s)
    BY DEF Next, LoseRight, GainRight, CancelRequest, AwardTakenBack, CronScan, CronStep, CronCrash,
           CronReplace, CronReject, CronCloseSteps, CronRejected, vars
<1> QED BY <1>1, <1>2, <1>3, <1>5, <1>6

(* Only an approval of the last step begins to run an award.                *)
LEMMA ApproveRuns ==
    ASSUME IInv, NEW s \in Session, ApproveCommit(s), Running(req'[s])
    PROVE  /\ req'[s].request = req[s].request /\ req'[s].step = req[s].step
           /\ req[s].request \in RequestId /\ req[s].step \in Step
           /\ Finalized(s, req[s].request, req[s].step)
<1> DEFINE r == req[s].request  k == req[s].step  u == req[s].user
<1>0. TypeOK
    BY DEF IInv
<1>1. r \in RequestId /\ k \in Step /\ u \in User /\ req[s].op = "approve"
    BY <1>0, ReadTypes DEF ApproveCommit, IsAt
<1>2. /\ IsCurrent(r, k) /\ req[s].next = 0
      /\ step' = Decided(r, k, "APPROVED", u) /\ SetRequest(r, "APPROVED")
      /\ Start(s, [op |-> "run", request |-> r, step |-> k])
    <2>1. ~Finish(s)
        BY <1>0 DEF Finish, Running, Idle, TypeOK
    <2> QED BY <2>1 DEF ApproveCommit
<1>3. req'[s].request = r /\ req'[s].step = k
    BY <1>0, <1>2 DEF Start, TypeOK
<1> HIDE DEF r, k, u
<1>4. Becomes(r, "APPROVED")
    BY <1>0, <1>1, <1>2, SetRequestEffect DEF RequestStatus
<1>5. DecidedAt(r, k, "APPROVED", u)
    BY <1>0, <1>1, <1>2, DecidedTypes DEF DecidedAt, StepStatus
<1> QED BY <1>1, <1>2, <1>3, <1>4, <1>5 DEF Finalized, r, k, u

LEMMA RunningWas ==
    ASSUME IInv, [Next]_vars, NEW t \in Session, Running(req'[t])
    PROVE  \/ /\ Running(req[t]) /\ req'[t].request = req[t].request
              /\ req'[t].step = req[t].step
           \/ ApproveCommit(t)
<1>0. req \in [Session -> InFlight]
    BY DEF IInv, TypeOK
<1>1. ASSUME NEW u \in User, NEW r \in RequestId, NEW k \in Step, DecideRead(t, u, r, k)
      PROVE  FALSE
    BY <1>0, <1>1 DEF DecideRead, Start, Running
<1>2. CASE AwardFails(t)
    BY <1>0, <1>2 DEF AwardFails, Start, Finish, Running, IsAt, Idle
<1> QED BY <1>1, <1>2, ReqStep

LEMMA ApproveReadsStep == IInv /\ [Next]_vars => ApproveReads'
<1> SUFFICES ASSUME IInv, [Next]_vars, NEW t \in Session, req'[t].op = "approve"
             PROVE  ReadToApprove(req[t])'
    BY DEF ApproveReads
<1>0. TypeOK
    BY DEF IInv
<1>1. CASE req'[t] = req[t]
    <2>1. ReadToApprove(req[t]) /\ req[t].request \in RequestId /\ req[t].step \in Step
          /\ req[t].next \in 0..MaxStep
        BY <1>0, <1>1, ReadTypes DEF IInv, Reads, ApproveReads
    <2>2. Stable(req[t].request)
        BY <2>1, StableStep DEF ReadToApprove
    <2>3. req[t].next # 0 => req[t].next \in Step
        BY <2>1, StepFacts
    <2> QED BY <1>1, <2>1, <2>2, <2>3 DEF ReadToApprove, Stable
<1>2. ASSUME NEW u \in User, NEW r \in RequestId, NEW k \in Step, DecideRead(t, u, r, k)
      PROVE  ReadToApprove(req[t])'
    <2>1. req'[t] = [op |-> "approve", request |-> r, step |-> k, user |-> u,
                     next |-> NextStep(r, k)]
        BY <1>0, <1>2 DEF DecideRead, Start, TypeOK
    <2>2. IsCurrent(r, k) /\ request[r].createdBy # u
        BY <1>2 DEF DecideRead, MayDecide
    <2>3. UNCHANGED <<request, step>>
        BY <1>2 DEF DecideRead
    <2>4. /\ NextStep(r, k) \in {0, k + 1}
          /\ NextStep(r, k) = 0 => \A j \in Step : j > k => step[r][j].status # "WAITING"
          /\ NextStep(r, k) # 0 => step[r][NextStep(r, k)].status # "SKIPPED"
        BY <2>2, NextStepIs, StepFacts
    <2> QED BY <2>1, <2>2, <2>3, <2>4 DEF ReadToApprove, IsCurrent
<1>3. ~AwardFails(t) /\ ~ApproveCommit(t)
    BY <1>0 DEF AwardFails, ApproveCommit, Start, Finish, Idle, TypeOK
<1> QED BY <1>1, <1>2, <1>3, ReqStep

LEMMA RejectReadsStep == IInv /\ [Next]_vars => RejectReads'
<1> SUFFICES ASSUME IInv, [Next]_vars, NEW t \in Session, req'[t].op = "reject"
             PROVE  ReadToReject(req[t])'
    BY DEF RejectReads
<1>0. TypeOK
    BY DEF IInv
<1>1. CASE req'[t] = req[t]
    <2>1. ReadToReject(req[t]) /\ req[t].request \in RequestId
        BY <1>0, <1>1, ReadTypes DEF IInv, Reads, RejectReads
    <2> QED BY <1>1, <2>1, StableStep DEF ReadToReject, Stable
<1>2. ASSUME NEW u \in User, NEW r \in RequestId, NEW k \in Step, DecideRead(t, u, r, k)
      PROVE  ReadToReject(req[t])'
    <2>1. req'[t] = [op |-> "reject", request |-> r, step |-> k, user |-> u]
        BY <1>0, <1>2 DEF DecideRead, Start, TypeOK
    <2> QED BY <1>2, <2>1 DEF DecideRead, MayDecide, IsCurrent, ReadToReject
<1>3. ~AwardFails(t) /\ ~ApproveCommit(t)
    BY <1>0 DEF AwardFails, ApproveCommit, Start, Finish, Idle, TypeOK
<1> QED BY <1>1, <1>2, <1>3, ReqStep

LEMMA RunsApprovedStep == IInv /\ [Next]_vars => RunsApproved'
<1> SUFFICES ASSUME IInv, [Next]_vars, NEW t \in Session, Running(req'[t])
             PROVE  ApprovedUpTo(req[t].request, req[t].step)'
    BY DEF RunsApproved, Running
<1>0. TypeOK
    BY DEF IInv
<1>1. CASE ApproveCommit(t)
    <2>1. PICK r \in RequestId, k \in Step :
             Finalized(t, r, k) /\ req'[t].request = r /\ req'[t].step = k
        BY <1>1, ApproveRuns
    <2> QED BY <2>1, FinalizedChain DEF ApprovedUpTo, Finalized, Becomes
<1>2. CASE /\ Running(req[t]) /\ req'[t].request = req[t].request
           /\ req'[t].step = req[t].step
    <2>1. PICK r \in RequestId, k \in Step :
             r = req[t].request /\ k = req[t].step /\ ApprovedUpTo(r, k)
        BY <1>0, <1>2, ReadTypes DEF IInv, Reads, RunsApproved, ApprovedUpTo
    <2>2. ASSUME NEW s \in Session, Ran(s, r) \/ Undone(s, r)
          PROVE  FALSE
        BY <1>2, <2>1, <2>2 DEF Ran, Undone, IInv, Reads, RunOnce
    <2>3. Same(r) \/ Changed(r)
        BY EffectStep DEF Effect, OneChanged
    <2>4. Same(r)
        BY <2>1, <2>2, <2>3, ChangedFrom DEF ApprovedUpTo
    <2> QED BY <1>2, <2>1, <2>4 DEF ApprovedUpTo, Same
<1> QED BY <1>1, <1>2, RunningWas

LEMMA RunOnceStep == IInv /\ [Next]_vars => RunOnce'
<1> SUFFICES ASSUME IInv, [Next]_vars, NEW s \in Session, NEW t \in Session,
                    Running(req'[s]), Running(req'[t]), req'[s].request = req'[t].request
             PROVE  s = t
    BY DEF RunOnce, Running
<1>0. req \in [Session -> InFlight]
    BY DEF IInv, TypeOK
<1>1. ASSUME NEW i \in Session, NEW j \in Session, Running(req[i]), ApproveCommit(j), Running(req'[j]),
             req[i].request = req'[j].request
      PROVE  FALSE
    <2>1. request[req[i].request].status = "APPROVED"
        BY <1>1 DEF IInv, Reads, RunsApproved, ApprovedUpTo
    <2> QED BY <1>1, <2>1, ApproveRuns DEF Finalized, IsCurrent
<1>2. CASE ApproveCommit(s) /\ ApproveCommit(t)
    <2>1. \E x, y : req' = [req EXCEPT ![s] = x]
        BY <1>2 DEF ApproveCommit, Start, Finish
    <2>2. s # t => req'[t] = req[t]
        BY <1>0, <2>1
    <2> QED BY <1>2, <2>2 DEF ApproveCommit, IsAt, Running
<1>3. CASE ~ApproveCommit(s) /\ ~ApproveCommit(t)
    BY <1>3, RunningWas DEF IInv, Reads, RunOnce
<1> QED BY <1>1, <1>2, <1>3, RunningWas

LEMMA ClosesRejectedStep == IInv /\ [Next]_vars => ClosesRejected'
<1> SUFFICES ASSUME IInv, [Next]_vars, cron'.op = "close"
             PROVE  request'[cron'.request].status = "REJECTED"
    BY DEF ClosesRejected
<1>0. TypeOK
    BY DEF IInv
<1>1. CASE cron' = cron
    <2>1. cron.request \in RequestId /\ request[cron.request].status = "REJECTED"
        BY <1>0, <1>1, CronTypes DEF IInv, Reads, ClosesRejected
    <2> QED BY <1>1, <2>1, FinalStep
<1>2. CASE CronReject
    <2>1. SetRequest(cron.request, "REJECTED") /\ cron' = [op |-> "close", request |-> cron.request]
        BY <1>2 DEF CronReject, Idle
    <2>2. cron.request \in RequestId
        BY <1>0, <1>2, CronTypes DEF CronReject
    <2>3. Becomes(cron.request, "REJECTED")
        BY <1>0, <2>1, <2>2, SetRequestEffect DEF RequestStatus
    <2> QED BY <2>1, <2>3 DEF Becomes
<1>3. ~CronScan /\ ~CronReplace /\ ~CronCloseSteps /\ ~CronRejected /\ ~CronCrash
    BY DEF CronScan, CronReplace, CronCloseSteps, CronRejected, CronCrash, Idle
<1>4. cron' = cron \/ CronScan \/ CronStep \/ CronCrash
    BY DEF Next, LoseRight, GainRight, AskStep, DecideStep, AwardRead, NoApprovalNeeded, TurnedAway,
           SuspendListing, RequestApproval, DecideRead, ApproveCommit, RejectCommit, OnAwardRejected,
           RunAward, AwardFails, UndoApproval, Crash, CancelRequest, AwardTakenBack, vars
<1> QED BY <1>1, <1>2, <1>3, <1>4 DEF CronStep

LEMMA IInvStep == IInv /\ [Next]_vars => IInv'
BY TypeStep, ChainStep, ApproveReadsStep, RejectReadsStep, RunsApprovedStep, RunOnceStep,
   ClosesRejectedStep DEF IInv, Reads

----------------------------------------------------------------------------
LEMMA Invariant == Spec => []IInv
BY InitIInv, IInvStep, PTL DEF Spec

(* The variables keep their types (company-approvals.service.ts, decide and *)
(* its neighbours): every decision in flight names a request and a step.    *)
THEOREM TypeCorrect == Spec => []TypeOK
<1>1. IInv => TypeOK
    BY DEF IInv
<1> QED BY <1>1, Invariant, PTL

(* A chain that is open waits for exactly one step, however decisions, the  *)
(* undoing of a failed award and the cron interleave.                       *)
THEOREM ChainStaysAlive == Spec => []ChainAlive
<1>1. IInv => ChainAlive
    BY DEF IInv, Chain
<1> QED BY <1>1, Invariant, PTL

(* Nobody decides on an award that he or she asked for (INV-APPR-1).        *)
THEOREM DutiesStaySeparate == Spec => []SeparationOfDuties
<1>1. IInv => SeparationOfDuties
    BY DEF IInv, Chain
<1> QED BY <1>1, Invariant, PTL

(* No award is carried out for a request before all its steps are approved. *)
THEOREM OrdersWereApproved == Spec => []OrderedWhenApproved
<1>1. IInv => OrderedWhenApproved
    BY DEF IInv, Chain
<1> QED BY <1>1, Invariant, PTL

(* What was rejected, cancelled or ordered for is never opened again.       *)
THEOREM FinalDecisions == Spec => DecisionsAreFinal
<1>1. IInv /\ [Next]_vars =>
         [\A r \in RequestId :
             request[r].status \in {"REJECTED", "CANCELLED"} \/ request[r].ordered =>
                 request'[r] = request[r]]_vars
    BY FinalStep
<1> QED BY <1>1, Invariant, PTL DEF Spec, DecisionsAreFinal

=============================================================================
