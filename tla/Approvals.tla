------------------------------ MODULE Approvals ------------------------------
(***************************************************************************)
(* The approval of an award (company-approvals.service.ts): a request walks *)
(* a chain of steps, each with an approver; the last approval runs the      *)
(* award, a rejection lets the evaluation of the listing go on.  Members    *)
(* lose and regain the right to approve; a cron that runs every minute      *)
(* replaces approvers who cannot act.                                       *)
(*                                                                          *)
(* One listing is the whole state.  Of the listing only what approvals      *)
(* depend on is kept - its bids, orders and the other ends of an evaluation *)
(* are in module ListingAward -, and an award may fail for any reason.  As  *)
(* there, a handler that acts on what it read earlier is split in two.      *)
(* Amounts are left out: thresholds ascend along the chain, so an amount    *)
(* decides how many of the first steps are needed.                          *)
(***************************************************************************)
EXTENDS Integers, FiniteSets

CONSTANTS
    User,         \* the members of the company
    Buyer,        \* those of them who may award
    Approver,     \* those whose right to approve comes and goes
    Session,      \* places for requests that are in flight together
    MaxStep,      \* the length of the approval flows
    Flow,         \* the approvers of the company's flows, step by step
    MayCrash,     \* whether processes stop
    MaxRequest    \* bound on the approval requests for the listing

ASSUME ChainAssumption == MaxStep \in Nat \ {0} /\ MaxRequest \in Nat /\ MayCrash \in BOOLEAN

Step      == 1..MaxStep
RequestId == 1..MaxRequest
Nobody    == "nobody"
Direct    == 0                \* in place of a request: no approval was needed

ASSUME UserAssumption == /\ Nobody \notin User
                         /\ Buyer \subseteq User /\ Approver \subseteq User
                         /\ Flow \subseteq [Step -> User]

VARIABLES
    listing,      \* the state of the listing
    canAct,       \* the members who may act on approvals now
    request,      \* the approval requests
    step,         \* the steps of every request
    req,          \* what each session has read and not yet acted upon
    cron          \* the same for the cron

vars == <<listing, canAct, request, step, req, cron>>

----------------------------------------------------------------------------
(* IN_AWARD stands for OPEN too: award treats them alike.                   *)
ListingStatus == {"IN_AWARD", "IN_AWARD_APPROVAL", "AWARDED"}
RequestStatus == {"NONE", "PENDING", "APPROVED", "REJECTED", "CANCELLED"}
StepStatus    == {"WAITING", "PENDING", "APPROVED", "REJECTED", "SKIPPED"}

ApprovalRequest == [status : RequestStatus,
                    createdBy : User \cup {Nobody},
                    ordered : BOOLEAN]             \* its award was carried out

ApprovalStep == [status : StepStatus,
                 approver : User \cup {Nobody},
                 decidedBy : User \cup {Nobody}]   \* the actor in the audit log

Idle == [op |-> "idle"]

InFlight ==
    {Idle}
    \cup [op : {"ask"}, user : Buyer]
    \cup [op : {"suspend", "rejected"}]
    \cup [op : {"approve"}, request : RequestId, step : Step, user : User, next : 0..MaxStep]
    \cup [op : {"reject"}, request : RequestId, step : Step, user : User]
    \cup [op : {"run"}, request : RequestId \cup {Direct}, step : 0..MaxStep]
    \cup [op : {"undo"}, request : RequestId, step : Step]

CronWork ==
    {Idle}
    \cup [op : {"replace"}, request : RequestId, step : Step, approver : User \cup {Nobody}]
    \cup [op : {"close"}, request : RequestId]
    \cup [op : {"rejected"}]

TypeOK ==
    /\ listing \in ListingStatus
    /\ canAct \subseteq Approver
    /\ request \in [RequestId -> ApprovalRequest]
    /\ step \in [RequestId -> [Step -> ApprovalStep]]
    /\ req \in [Session -> InFlight]
    /\ cron \in CronWork

Init ==
    /\ listing = "IN_AWARD"
    /\ canAct = Approver
    /\ request = [r \in RequestId |->
                     [status |-> "NONE", createdBy |-> Nobody, ordered |-> FALSE]]
    /\ step = [r \in RequestId |-> [k \in Step |->
                  [status |-> "SKIPPED", approver |-> Nobody, decidedBy |-> Nobody]]]
    /\ req = [s \in Session |-> Idle]
    /\ cron = Idle

----------------------------------------------------------------------------
(* Helpers.                                                                 *)

IsIdle(s)   == req[s] = Idle
IsAt(s, op) == req[s].op = op
Start(s, r) == req' = [req EXCEPT ![s] = r]
Finish(s)   == req' = [req EXCEPT ![s] = Idle]

Pending  == {r \in RequestId : request[r].status = "PENDING"}
SetRequest(r, status) == request' = [request EXCEPT ![r].status = status]

(* The step of the chain whose turn it is.                                  *)
IsCurrent(r, k) == request[r].status = "PENDING" /\ step[r][k].status = "PENDING"

(* An evaluation that was suspended for an approval goes on.                *)
Release == listing' = IF listing = "IN_AWARD_APPROVAL" THEN "IN_AWARD" ELSE listing

(* Who may stand in for an approver: anyone who may act but those named.    *)
Substitutes(excluded) == canAct \ excluded

----------------------------------------------------------------------------
(* The right to approve comes and goes with roles, permissions and members. *)

LoseRight(u) ==
    /\ u \in canAct
    /\ canAct' = canAct \ {u}
    /\ UNCHANGED <<listing, request, step, req, cron>>

GainRight(u) ==
    /\ u \notin canAct
    /\ canAct' = canAct \cup {u}
    /\ UNCHANGED <<listing, request, step, req, cron>>

----------------------------------------------------------------------------
(* Asking for an approval.                                                  *)

(* award, awardByItem: what a member who wants to award reads.              *)
AwardRead(s, u) ==
    /\ IsIdle(s)
    /\ listing = "IN_AWARD"
    /\ Start(s, [op |-> "ask", user |-> u])
    /\ UNCHANGED <<listing, canAct, request, step, cron>>

(* No flow, or an amount below every threshold: the award goes straight on. *)
NoApprovalNeeded(s) ==
    /\ IsAt(s, "ask")
    /\ Start(s, [op |-> "run", request |-> Direct, step |-> 0])
    /\ UNCHANGED <<listing, canAct, request, step, cron>>

(* The first approver, when that is the initiator or cannot act, is         *)
(* replaced on the spot.                                                    *)
FirstApprover(u, approver) ==
    IF approver # u /\ approver \in canAct THEN {approver}
    ELSE Substitutes({u, approver})

(* The steps of a new request: the first n are needed, chain names their    *)
(* approvers, first the one of the first step.                              *)
NewSteps(n, chain, first) ==
    [k \in Step |-> [status   |-> IF k = 1 THEN "PENDING" ELSE IF k <= n THEN "WAITING" ELSE "SKIPPED",
                     approver |-> IF k = 1 THEN first ELSE chain[k],
                     decidedBy |-> Nobody]]

(* Nobody to approve, or another request open (a partial unique index): the *)
(* member is turned away.                                                   *)
TurnedAway(s) ==
    /\ IsAt(s, "ask")
    /\ Pending # {} \/ Substitutes({req[s].user}) = {}
    /\ Finish(s)
    /\ UNCHANGED <<listing, canAct, request, step, cron>>

RequestApproval(s, n, chain) ==
    /\ IsAt(s, "ask")
    /\ Pending = {}
    /\ \E r \in RequestId, first \in FirstApprover(req[s].user, chain[1]) :
          /\ request[r].status = "NONE"
          /\ \A q \in 1..(r - 1) : request[q].status # "NONE"
          /\ request' = [request EXCEPT ![r] =
                [status |-> "PENDING", createdBy |-> req[s].user, ordered |-> FALSE]]
          /\ step' = [step EXCEPT ![r] = NewSteps(n, chain, first)]
    /\ Start(s, [op |-> "suspend"])
    /\ UNCHANGED <<listing, canAct, cron>>

(* Only then is the listing suspended.                                      *)
SuspendListing(s) ==
    /\ IsAt(s, "suspend")
    /\ listing' = IF listing = "IN_AWARD" THEN "IN_AWARD_APPROVAL" ELSE listing
    /\ Finish(s)
    /\ UNCHANGED <<canAct, request, step, cron>>

----------------------------------------------------------------------------
(* Deciding.                                                                *)

(* The first step after k that waits, 0 if k is the last.                   *)
NextStep(r, k) ==
    LET waiting == {j \in Step : j > k /\ step[r][j].status = "WAITING"}
    IN  IF waiting = {} THEN 0 ELSE CHOOSE j \in waiting : \A i \in waiting : j <= i

(* Faulty variant: the initiator may decide as well.                        *)
MayDecideOwn(u, r, k) ==
    u \in canAct /\ IsCurrent(r, k) /\ step[r][k].approver = u

(* The approver of the step, with the right to approve, and never who       *)
(* asked for the award.                                                     *)
MayDecide(u, r, k) ==
    u \in canAct /\ IsCurrent(r, k) /\ step[r][k].approver = u /\ request[r].createdBy # u

DecideRead(s, u, r, k) ==
    /\ IsIdle(s)
    /\ MayDecide(u, r, k)
    /\ \/ Start(s, [op |-> "approve", request |-> r, step |-> k, user |-> u,
                    next |-> NextStep(r, k)])
       \/ Start(s, [op |-> "reject", request |-> r, step |-> k, user |-> u])
    /\ UNCHANGED <<listing, canAct, request, step, cron>>

Decided(r, k, status, u) ==
    [step EXCEPT ![r][k] = [status |-> status, approver |-> @.approver, decidedBy |-> u]]

(* Faulty variant: one approval is enough.                                  *)
ApproveOnce(s) ==
    /\ IsAt(s, "approve")
    /\ LET r == req[s].request  k == req[s].step
       IN  IF IsCurrent(r, k)
           THEN /\ step' = Decided(r, k, "APPROVED", req[s].user)
                /\ SetRequest(r, "APPROVED")
                /\ Start(s, [op |-> "run", request |-> r, step |-> k])
           ELSE Finish(s) /\ UNCHANGED <<request, step>>
    /\ UNCHANGED <<listing, canAct, cron>>

(* The step is taken if it is still pending - whoever its approver is by    *)
(* then -, and the chain moves on, or ends.                                 *)
ApproveCommit(s) ==
    /\ IsAt(s, "approve")
    /\ LET r == req[s].request  k == req[s].step  next == req[s].next
           done == Decided(r, k, "APPROVED", req[s].user)
       IN  IF ~IsCurrent(r, k)
           THEN Finish(s) /\ UNCHANGED <<request, step>>
           ELSE IF next # 0
           THEN /\ step' = [done EXCEPT ![r][next].status = "PENDING"]
                /\ Finish(s)
                /\ UNCHANGED request
           ELSE /\ step' = done
                /\ SetRequest(r, "APPROVED")
                /\ Start(s, [op |-> "run", request |-> r, step |-> k])
    /\ UNCHANGED <<listing, canAct, cron>>

RejectCommit(s) ==
    /\ IsAt(s, "reject")
    /\ LET r == req[s].request  k == req[s].step
       IN  IF IsCurrent(r, k)
           THEN /\ step' = Decided(r, k, "REJECTED", req[s].user)
                /\ SetRequest(r, "REJECTED")
                /\ Start(s, [op |-> "rejected"])
           ELSE Finish(s) /\ UNCHANGED <<request, step>>
    /\ UNCHANGED <<listing, canAct, cron>>

(* The listing hears of a rejection by an event nobody waits for.           *)
OnAwardRejected(s) ==
    /\ IsAt(s, "rejected")
    /\ Release
    /\ Finish(s)
    /\ UNCHANGED <<canAct, request, step, cron>>

(* Faulty variant: the listing goes back to where a publication starts.     *)
CancelToDraft(r) ==
    /\ request[r].status = "PENDING"
    /\ SetRequest(r, "CANCELLED")
    /\ listing' = IF listing = "IN_AWARD_APPROVAL" THEN "DRAFT" ELSE listing
    /\ UNCHANGED <<canAct, step, req, cron>>

CancelRequest(r) ==
    /\ request[r].status = "PENDING"
    /\ SetRequest(r, "CANCELLED")
    /\ Release
    /\ UNCHANGED <<canAct, step, req, cron>>

----------------------------------------------------------------------------
(* Running the award, after the approval has been committed.                *)

RunAward(s) ==
    /\ IsAt(s, "run")
    /\ listing # "AWARDED"
    /\ listing' = "AWARDED"
    /\ request' = IF req[s].request = Direct THEN request
                  ELSE [request EXCEPT ![req[s].request].ordered = TRUE]
    /\ Finish(s)
    /\ UNCHANGED <<canAct, step, cron>>

(* The listing is awarded already, a bid has gone, the company is no longer *)
(* verified...                                                              *)
AwardFails(s) ==
    /\ IsAt(s, "run")
    /\ IF req[s].request = Direct THEN Finish(s)
       ELSE Start(s, [op |-> "undo", request |-> req[s].request, step |-> req[s].step])
    /\ UNCHANGED <<listing, canAct, request, step, cron>>

(* Faulty variant: the step stays approved.                                 *)
UndoRequestOnly(s) ==
    /\ IsAt(s, "undo")
    /\ LET r == req[s].request
       IN  IF Pending = {} THEN SetRequest(r, "PENDING") ELSE UNCHANGED request
    /\ Finish(s)
    /\ UNCHANGED <<listing, canAct, step, cron>>

(* The approval is taken back - unless another request is open by now, which*)
(* the index refuses; then it stays approved, and nothing is ordered.       *)
UndoApproval(s) ==
    /\ IsAt(s, "undo")
    /\ LET r == req[s].request  k == req[s].step
       IN  IF Pending = {}
           THEN /\ SetRequest(r, "PENDING")
                /\ step' = Decided(r, k, "PENDING", Nobody)
           ELSE UNCHANGED <<request, step>>
    /\ Finish(s)
    /\ UNCHANGED <<listing, canAct, cron>>

(* The seller rejects the order and the award is taken back (ListingAward). *)
AwardTakenBack ==
    /\ listing = "AWARDED"
    /\ listing' = "IN_AWARD"
    /\ UNCHANGED <<canAct, request, step, req, cron>>

(* The process that serves the session stops.                               *)
Crash(s) ==
    /\ MayCrash
    /\ ~IsIdle(s)
    /\ Finish(s)
    /\ UNCHANGED <<listing, canAct, request, step, cron>>

----------------------------------------------------------------------------
(* The cron (fallbackInactiveApprovers).                                    *)

CannotDecide(r, k) ==
    step[r][k].approver \notin canAct \/ step[r][k].approver = request[r].createdBy

(* A request that waits for somebody who cannot decide.                     *)
Stuck(r) == \E k \in Step : IsCurrent(r, k) /\ CannotDecide(r, k)

(* Faulty variant: only approvers who lost the right are looked for.        *)
ScanInactive ==
    /\ cron = Idle
    /\ \E r \in RequestId, k \in Step :
          /\ IsCurrent(r, k) /\ step[r][k].approver \notin canAct
          /\ cron' = [op |-> "replace", request |-> r, step |-> k, approver |-> step[r][k].approver]
    /\ UNCHANGED <<listing, canAct, request, step, req>>

CronScan ==
    /\ cron = Idle
    /\ \E r \in RequestId, k \in Step :
          /\ IsCurrent(r, k) /\ CannotDecide(r, k)
          /\ cron' = [op |-> "replace", request |-> r, step |-> k, approver |-> step[r][k].approver]
    /\ UNCHANGED <<listing, canAct, request, step, req>>

CronPool == Substitutes({cron.approver, request[cron.request].createdBy})

(* Whatever the step has become by then, it gets its new approver.          *)
CronReplace ==
    /\ cron.op = "replace"
    /\ \E u \in CronPool : step' = [step EXCEPT ![cron.request][cron.step].approver = u]
    /\ cron' = Idle
    /\ UNCHANGED <<listing, canAct, request, req>>

(* Nobody can: the request is rejected, if it is still pending, then its    *)
(* open steps are, and then the listing is told.                            *)
CronReject ==
    /\ cron.op = "replace"
    /\ CronPool = {}
    /\ IF request[cron.request].status = "PENDING"
       THEN /\ SetRequest(cron.request, "REJECTED")
            /\ cron' = [op |-> "close", request |-> cron.request]
       ELSE cron' = Idle /\ UNCHANGED request
    /\ UNCHANGED <<listing, canAct, step, req>>

CronCloseSteps ==
    /\ cron.op = "close"
    /\ step' = [step EXCEPT ![cron.request] = [k \in Step |->
                  IF step[cron.request][k].status \in {"PENDING", "WAITING"}
                  THEN [step[cron.request][k] EXCEPT !.status = "REJECTED"]
                  ELSE step[cron.request][k]]]
    /\ cron' = [op |-> "rejected"]
    /\ UNCHANGED <<listing, canAct, request, req>>

CronRejected ==
    /\ cron.op = "rejected"
    /\ Release
    /\ cron' = Idle
    /\ UNCHANGED <<canAct, request, step, req>>

CronCrash ==
    /\ MayCrash
    /\ cron # Idle
    /\ cron' = Idle
    /\ UNCHANGED <<listing, canAct, request, step, req>>

CronStep == CronReplace \/ CronReject \/ CronCloseSteps \/ CronRejected

----------------------------------------------------------------------------
AskStep(s) ==
    \/ \E u \in Buyer : AwardRead(s, u)
    \/ NoApprovalNeeded(s) \/ TurnedAway(s) \/ SuspendListing(s)
    \/ \E n \in Step, chain \in Flow : RequestApproval(s, n, chain)

DecideStep(s) ==
    \/ \E u \in User, r \in RequestId, k \in Step : DecideRead(s, u, r, k)
    \/ ApproveCommit(s) \/ RejectCommit(s) \/ OnAwardRejected(s)
    \/ RunAward(s) \/ AwardFails(s) \/ UndoApproval(s) \/ Crash(s)

Next ==
    \/ \E u \in Approver : LoseRight(u) \/ GainRight(u)
    \/ \E s \in Session : AskStep(s) \/ DecideStep(s)
    \/ \E r \in RequestId : CancelRequest(r)
    \/ AwardTakenBack
    \/ CronScan \/ CronStep \/ CronCrash

(* The scheduler starts the cron every minute; a scan does not end in a     *)
(* crash every time.  Nothing is assumed of people, nor of the handlers.    *)
Fairness == WF_vars(CronScan) /\ SF_vars(CronStep)

Spec == Init /\ [][Next]_vars /\ Fairness

----------------------------------------------------------------------------
(* What must hold.                                                          *)

(* A request that is open waits for exactly one step, after all the steps   *)
(* before it were approved and before any step after it is decided: two     *)
(* approvals at once, an award that fails after the last of them and the    *)
(* cron neither skip a step nor leave the chain without one (decide).       *)
ChainAlive ==
    \A r \in Pending :
        \E k \in Step :
            /\ step[r][k].status = "PENDING"
            /\ \A j \in Step : j < k => step[r][j].status = "APPROVED"
            /\ \A j \in Step : j > k => step[r][j].status \in {"WAITING", "SKIPPED"}

(* An award is carried out for a request only when every step it needed has *)
(* been approved, and then the request stays APPROVED.                      *)
OrderedWhenApproved ==
    \A r \in RequestId :
        request[r].ordered => /\ request[r].status = "APPROVED"
                              /\ \A k \in Step : step[r][k].status \in {"APPROVED", "SKIPPED"}

(* INV-APPR-1: who asked for an award decides on none of its steps - though *)
(* the flow may name that member, and the cron moves approvers around.      *)
SeparationOfDuties ==
    \A r \in RequestId, k \in Step :
        step[r][k].decidedBy # Nobody => step[r][k].decidedBy # request[r].createdBy

(* A request that was rejected or cancelled stays so, whatever decision or  *)
(* replacement was under way; one that led to an order stays approved.      *)
DecisionsAreFinal ==
    [][\A r \in RequestId :
          request[r].status \in {"REJECTED", "CANCELLED"} \/ request[r].ordered =>
              request'[r] = request[r]]_vars

(* No request waits forever for somebody who cannot decide: the cron finds  *)
(* another approver or rejects it ("SESSIZ PENDING DEGIL", INV-APPR-1).     *)
NoSilentPending == \A r \in RequestId : []<>~Stuck(r)

(* decide: no approval without an order ("onay var ama siparis yok") - a    *)
(* request is APPROVED only while its award is being run, or taken back, or *)
(* has been carried out.                                                    *)
ApprovedHasOrder ==
    \A r \in RequestId :
        request[r].status = "APPROVED" =>
            \/ request[r].ordered
            \/ \E s \in Session : req[s].op \in {"run", "undo"} /\ req[s].request = r
=============================================================================
