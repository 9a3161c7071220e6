--------------------------- MODULE MembersProofs ---------------------------
(***************************************************************************)
(* Proofs about module Members, for any people, invitations, seat limits   *)
(* and operations and any number of requests in flight.                    *)
(*                                                                         *)
(* An operation writes under the lock of the company's row what it has     *)
(* decided before.  Sound then is what the request in flight carries from  *)
(* one to the other: whom it is about is, or was, a member.                *)
(***************************************************************************)
EXTENDS Members, FiniteSetTheorems, TLAPS

(* What a request about a member knows: its target has a row, and who is    *)
(* taken out keeps no label (setActive, remove).                            *)
TargetsJoined ==
    \A s \in Session : req[s].op \in MemberOperations =>
        /\ member[req[s].target].status # "none"
        /\ member[req[s].from].status # "none"
        /\ req[s].op \in {"deactivate", "remove"} => req[s].label = "-"

OwnerJoined == member[owner].status # "none"

IInv == TypeOK /\ TargetsJoined /\ OwnerJoined /\ ClosedIsEmpty /\ AcceptedHasAccount

----------------------------------------------------------------------------
(* What requests and permissions look like.                                 *)

LEMMA RequestTypes ==
    ASSUME TypeOK, NEW s \in Session
    PROVE  /\ req[s].op \in MemberOperations =>
                 /\ req[s] \in MemberRequest
                 /\ req[s].target \in User /\ req[s].from \in User
                 /\ req[s].label \in Labels /\ req[s].perms \subseteq Permissions
                 /\ req[s].held \subseteq Seats
                 /\ req[s].demoted.label \in Labels /\ req[s].demoted.seats \subseteq Seats
           /\ req[s].op \in {"accept", "resend"} => req[s].inv \in Invitation
<1>1. req[s] \in Request
    BY DEF TypeOK
<1>2. ASSUME req[s].op \in MemberOperations PROVE req[s] \in MemberRequest
    BY <1>1, <1>2 DEF Request, MemberOperations, Idle
<1>3. ASSUME req[s] \in MemberRequest
      PROVE  /\ req[s].target \in User /\ req[s].from \in User
             /\ req[s].label \in Labels /\ req[s].perms \subseteq Permissions
             /\ req[s].held \subseteq Seats
             /\ req[s].demoted.label \in Labels /\ req[s].demoted.seats \subseteq Seats
    BY <1>3 DEF MemberRequest, Demotion, Labels
<1>4. ASSUME req[s].op \in {"accept", "resend"} PROVE req[s].inv \in Invitation
    BY <1>1, <1>4 DEF Request, MemberRequest, MemberOperations, Idle
<1> QED BY <1>2, <1>3, <1>4

LEMMA PermissionTypes ==
    ASSUME NEW label \in Labels, NEW seats \in SUBSET Permissions, NEW isOwner \in BOOLEAN
    PROVE  /\ PermissionsFor(label, seats) \subseteq Permissions
           /\ LabelOf(seats, isOwner) \in Labels
BY DEF PermissionsFor, LabelOf, Permissions, Management, Labels

LEMMA RowTypes ==
    ASSUME TypeOK, NEW u \in User
    PROVE  /\ member[u] \in Row
           /\ Effective(member[u]) \subseteq Permissions
           /\ SeatsOf(member[u]) \subseteq Seats
<1>1. member[u] \in Row
    BY DEF TypeOK
<1>2. member[u].label \in Labels /\ member[u].perms \subseteq Permissions
    BY <1>1 DEF Row
<1> QED BY <1>1, <1>2, PermissionTypes DEF Effective, SeatsOf, PermissionsFor, Permissions, Management

LEMMA Choices ==
    /\ \A roles \in RoleSet : roles.label \in Labels /\ roles.seats \subseteq Seats
    /\ \A perms \in PermissionSet : perms \subseteq Permissions
    /\ Seats \subseteq Permissions
BY ChoiceAssumption DEF Permissions

LEMMA NoDemotionType == NoDemotion \in Demotion
BY DEF NoDemotion, Demotion, Seats

(* Every request a session starts is one of the requests.                   *)
LEMMA ChangeType ==
    ASSUME NEW op \in MemberOperations, NEW target \in User, NEW held \in SUBSET Seats,
           NEW label \in Labels, NEW perms \in SUBSET Permissions
    PROVE  Change(op, target, held, label, perms) \in MemberRequest
BY NoDemotionType DEF Change, MemberRequest

LEMMA StatusChangeType ==
    ASSUME NEW op \in MemberOperations, NEW target \in User, NEW held \in SUBSET Seats
    PROVE  StatusChange(op, target, held) \in MemberRequest
<1>1. "-" \in Labels /\ {} \in SUBSET Permissions
    BY DEF Labels
<1> QED BY <1>1, ChangeType DEF StatusChange

(* A request is begun: nothing but the session that takes it up changes.    *)
LEMMA BeginKeeps ==
    ASSUME IInv, NEW s \in Session, NEW r \in Request, Begin(s, r),
           r.op \in MemberOperations =>
               /\ member[r.target].status # "none" /\ member[r.from].status # "none"
               /\ r.op \in {"deactivate", "remove"} => r.label = "-"
    PROVE  IInv'
<1>1. TypeOK'
    BY DEF IInv, TypeOK, Begin
<1>2. TargetsJoined'
  <2> SUFFICES ASSUME NEW t \in Session, req'[t].op \in MemberOperations
               PROVE  /\ member[req'[t].target].status # "none"
                      /\ member[req'[t].from].status # "none"
                      /\ req'[t].op \in {"deactivate", "remove"} => req'[t].label = "-"
      BY DEF TargetsJoined, Begin
  <2>1. req'[t] = IF t = s THEN r ELSE req[t]
      BY DEF IInv, TypeOK, Begin
  <2> QED BY <2>1 DEF IInv, TargetsJoined
<1>3. OwnerJoined' /\ ClosedIsEmpty' /\ AcceptedHasAccount'
    BY DEF IInv, OwnerJoined, ClosedIsEmpty, AcceptedHasAccount, Live, Begin
<1> QED BY <1>1, <1>2, <1>3 DEF IInv

(* Every other step: nobody's account disappears, no request is begun.      *)
LEMMA StepKeeps ==
    ASSUME IInv, TypeOK',
           \A u \in User : member[u].status # "none" => member'[u].status # "none",
           \A s \in Session : req'[s] = req[s] \/ req'[s] = Idle,
           member'[owner'].status # "none",
           company' = "closed" => \A u \in User : member'[u].status \notin {"active", "passive"},
           \A i \in Invitation : invitation'[i].status = "ACCEPTED" =>
               \/ /\ invitation[i].status = "ACCEPTED"
                  /\ invitation'[i].person = invitation[i].person
               \/ member'[invitation'[i].person].status # "none"
    PROVE  IInv'
<1>1. TargetsJoined'
  <2> SUFFICES ASSUME NEW s \in Session, req'[s].op \in MemberOperations
               PROVE  /\ member'[req'[s].target].status # "none"
                      /\ member'[req'[s].from].status # "none"
                      /\ req'[s].op \in {"deactivate", "remove"} => req'[s].label = "-"
      BY DEF TargetsJoined
  <2>1. Idle.op \notin MemberOperations
      BY DEF Idle, MemberOperations
  <2>2. req'[s] = req[s]
      BY <2>1
  <2>3. req[s].target \in User /\ req[s].from \in User
      BY <2>2, RequestTypes DEF IInv
  <2> QED BY <2>2, <2>3 DEF IInv, TargetsJoined
<1>2. OwnerJoined' /\ ClosedIsEmpty'
    BY DEF OwnerJoined, ClosedIsEmpty, Live
<1>3. AcceptedHasAccount'
  <2> SUFFICES ASSUME NEW i \in Invitation, invitation'[i].status = "ACCEPTED"
               PROVE  member'[invitation'[i].person].status # "none"
      BY DEF AcceptedHasAccount
  <2>1. invitation[i].person \in User
      BY DEF IInv, TypeOK, InvitationRow
  <2> QED BY <2>1 DEF IInv, AcceptedHasAccount
<1> QED BY <1>1, <1>2, <1>3 DEF IInv

(* A row changes its label and its permissions, or its status.              *)
LEMMA FinishKeeps ==
    ASSUME TypeOK, NEW s \in Session, Finish(s)
    PROVE  /\ req' \in [Session -> Request]
           /\ \A t \in Session : req'[t] = req[t] \/ req'[t] = Idle
BY DEF TypeOK, Finish, Request

LEMMA SetStatusKeeps ==
    ASSUME TypeOK, NEW u \in User, NEW status \in {"active", "passive", "removed"},
           SetStatus(u, status)
    PROVE  /\ member' \in [User -> Row]
           /\ \A v \in User : member[v].status # "none" => member'[v].status # "none"
           /\ \A v \in User : member[v].status = "removed" => member'[v].status = "removed"
           /\ \A v \in User \ {u} : member'[v] = member[v]
           /\ member'[u].label = member[u].label /\ member'[u].perms = member[u].perms
<1>1. member[u] \in Row
    BY DEF TypeOK
<1>2. member'[u] = [member[u] EXCEPT !.status =
                       IF member[u].status = "removed" THEN "removed" ELSE status]
    BY <1>1 DEF SetStatus, TypeOK
<1>3. \A v \in User \ {u} : member'[v] = member[v]
    BY DEF SetStatus, TypeOK
<1>4. member'[u] \in Row
    BY <1>1, <1>2 DEF Row
<1>5. member' \in [User -> Row]
    BY <1>3, <1>4 DEF SetStatus, TypeOK
<1>6. /\ member'[u].status = IF member[u].status = "removed" THEN "removed" ELSE status
      /\ member'[u].label = member[u].label /\ member'[u].perms = member[u].perms
    BY <1>1, <1>2 DEF Row
<1> QED BY <1>3, <1>5, <1>6

(* Two rows, at most, get other labels and permissions.                     *)
LEMMA SetPermissionsKeeps ==
    ASSUME NEW rows \in [User -> Row], NEW u \in User, NEW label \in Labels,
           NEW perms \in SUBSET Permissions
    PROVE  /\ SetPermissions(rows, u, label, perms) \in [User -> Row]
           /\ \A v \in User : SetPermissions(rows, u, label, perms)[v].status = rows[v].status
           /\ \A v \in User \ {u} : SetPermissions(rows, u, label, perms)[v] = rows[v]
           /\ SetPermissions(rows, u, label, perms)[u].label = label
           /\ SetPermissions(rows, u, label, perms)[u].perms = perms
<1> DEFINE row == [rows[u] EXCEPT !.label = label, !.perms = perms]
<1>1. rows[u] \in Row
    OBVIOUS
<1>2. /\ row \in Row /\ row.status = rows[u].status
      /\ row.label = label /\ row.perms = perms
    BY <1>1 DEF Row
<1> HIDE DEF row
<1>3. [rows EXCEPT ![u] = row] \in [User -> Row]
    BY <1>2
<1>4. \A v \in User : [rows EXCEPT ![u] = row][v] = IF v = u THEN row ELSE rows[v]
    OBVIOUS
<1>5. SetPermissions(rows, u, label, perms) = [rows EXCEPT ![u] = row]
    BY DEF SetPermissions, row
<1> QED BY <1>2, <1>3, <1>4, <1>5

----------------------------------------------------------------------------
(* The requests a session takes up.                                         *)

LEMMA RolesBeginKeeps ==
    ASSUME IInv, NEW s \in Session, NEW actor \in User, NEW target \in User,
           NEW roles \in RoleSet, NEW demoted \in Demotion,
           BeginRoles(s, actor, target, roles, demoted)
    PROVE  IInv'
<1> DEFINE label == IF target = owner THEN "SAHIP" ELSE roles.label
           handOver == label = "SAHIP" /\ target # owner
           held == SeatsOf(member[target])
           perms == PermissionsFor(label, roles.seats) \cup (IF handOver THEN held ELSE {})
           from == IF handOver THEN owner ELSE target
           base == Change("roles", target, held, label, perms)
           r == [base EXCEPT !.from = from, !.demoted = demoted]
<1>1. label \in Labels /\ held \in SUBSET Seats /\ from \in User
    BY Choices, RowTypes DEF IInv, TypeOK, Labels
<1>2. perms \in SUBSET Permissions
    BY <1>1, Choices, PermissionTypes
<1>3. Begin(s, r) /\ Live(target)
    BY DEF BeginRoles
<1>4. member[target].status # "none" /\ member[from].status # "none"
    BY <1>3 DEF Live, IInv, OwnerJoined
<1> HIDE DEF label, handOver, held, perms, from
<1>5. base \in MemberRequest /\ base.target = target /\ base.op = "roles"
  <2>1. "roles" \in MemberOperations
      BY DEF MemberOperations
  <2> QED BY <2>1, <1>1, <1>2, ChangeType DEF Change
<1> HIDE DEF base
<1>6. r \in MemberRequest /\ r.target = target /\ r.from = from /\ r.op = "roles"
    BY <1>1, <1>5 DEF MemberRequest
<1> HIDE DEF r
<1>7. r \in Request
    BY <1>6 DEF Request
<1> QED BY <1>3, <1>4, <1>6, <1>7, BeginKeeps

(* A request without a hand-over, about a member.                           *)
LEMMA ChangeBeginKeeps ==
    ASSUME IInv, NEW s \in Session, NEW op \in MemberOperations, NEW target \in User,
           NEW held \in SUBSET Seats, NEW label \in Labels, NEW perms \in SUBSET Permissions,
           member[target].status # "none",
           op \in {"deactivate", "remove"} => label = "-",
           Begin(s, Change(op, target, held, label, perms))
    PROVE  IInv'
<1> DEFINE r == Change(op, target, held, label, perms)
<1>1. r.target = target /\ r.from = target /\ r.op = op /\ r.label = label
    BY DEF Change
<1>2. r \in Request
    BY ChangeType DEF Request
<1> HIDE DEF r
<1>3. Begin(s, r)
    BY DEF r
<1> QED BY <1>1, <1>2, <1>3, BeginKeeps

LEMMA StatusBeginKeeps ==
    ASSUME IInv, NEW s \in Session, NEW op \in MemberOperations, NEW target \in User,
           NEW held \in SUBSET Seats, member[target].status # "none",
           Begin(s, StatusChange(op, target, held))
    PROVE  IInv'
<1>1. "-" \in Labels /\ {} \in SUBSET Permissions
    BY DEF Labels
<1> QED BY <1>1, ChangeBeginKeeps DEF StatusChange

LEMMA MemberBeginKeeps ==
    ASSUME IInv, NEW s \in Session, BeginMemberRequest(s)
    PROVE  IInv'
<1>1. CASE \E actor, target \in User, roles \in RoleSet,
                to \in {r \in RoleSet : r.label # "SAHIP"} \cup {NoDemotion} :
             BeginRoles(s, actor, target, roles, to)
  <2>1. PICK actor \in User, target \in User, roles \in RoleSet,
             to \in {r \in RoleSet : r.label # "SAHIP"} \cup {NoDemotion} :
           BeginRoles(s, actor, target, roles, to)
      BY <1>1
  <2>2. to \in Demotion
      BY <2>1, NoDemotionType, ChoiceAssumption DEF Demotion, Labels
  <2> QED BY <2>1, <2>2, RolesBeginKeeps
<1>2. CASE \E actor, target \in User, perms \in PermissionSet :
             BeginPermissions(s, actor, target, perms)
  <2>1. PICK actor \in User, target \in User, perms \in PermissionSet :
           BeginPermissions(s, actor, target, perms)
      BY <1>2
  <2> DEFINE next == IF target = owner THEN perms \cap Seats ELSE perms
             isOwner == target = owner
  <2>2. Live(target) /\ Begin(s, Change("permissions", target, SeatsOf(member[target]),
                                      LabelOf(next, isOwner), next))
      BY <2>1 DEF BeginPermissions
  <2>3. next \in SUBSET Permissions /\ isOwner \in BOOLEAN
      BY Choices
  <2> HIDE DEF next, isOwner
  <2>4. LabelOf(next, isOwner) \in Labels /\ SeatsOf(member[target]) \in SUBSET Seats
      BY RowTypes DEF IInv, LabelOf, Labels
  <2>5. "permissions" \in MemberOperations \ {"deactivate", "remove"}
      BY DEF MemberOperations
  <2>6. member[target].status # "none"
      BY <2>2 DEF Live
  <2> QED BY <2>2, <2>3, <2>4, <2>5, <2>6, ChangeBeginKeeps
<1>3. CASE \E actor, target \in User, op \in MemberOperations :
             BeginTakeOut(s, actor, target, op)
  <2>1. PICK actor \in User, target \in User, op \in MemberOperations :
           BeginTakeOut(s, actor, target, op)
      BY <1>3
  <2>2. Begin(s, StatusChange(op, target, {})) /\ member[target].status # "none"
      BY <2>1 DEF BeginTakeOut, Live
  <2> QED BY <2>2, StatusBeginKeeps
<1>4. CASE \E actor, target \in User : BeginActivate(s, actor, target)
  <2>1. PICK actor \in User, target \in User : BeginActivate(s, actor, target)
      BY <1>4
  <2>2. /\ Begin(s, StatusChange("activate", target, SeatsOf(member[target])))
        /\ member[target].status # "none"
      BY <2>1 DEF BeginActivate, Live
  <2>3. "activate" \in MemberOperations /\ SeatsOf(member[target]) \in SUBSET Seats
      BY RowTypes DEF IInv, MemberOperations
  <2> QED BY <2>2, <2>3, StatusBeginKeeps
<1>5. CASE \E target \in User : BeginAdminSetActive(s, target)
  <2>1. PICK target \in User : BeginAdminSetActive(s, target)
      BY <1>5
  <2>2. PICK op \in {"adminDeactivate", "activate"}, held \in SUBSET Seats :
           Begin(s, StatusChange(op, target, held))
      BY <2>1, RowTypes DEF BeginAdminSetActive, IInv
  <2>3. op \in MemberOperations /\ member[target].status # "none"
      BY <2>1 DEF BeginAdminSetActive, Live, MemberOperations
  <2> QED BY <2>2, <2>3, StatusBeginKeeps
<1>6. CASE BeginOwnerBuySeat(s)
  <2> DEFINE perms == Effective(member[owner]) \cup {"buy"}
  <2>1. /\ member[owner].status # "none"
        /\ Begin(s, Change("ownerBuySeat", owner, {}, member[owner].label, perms))
      BY <1>6 DEF BeginOwnerBuySeat, IsActive
  <2>2. owner \in User /\ member[owner].label \in Labels
      BY DEF IInv, TypeOK, Row
  <2>3. perms \in SUBSET Permissions
      BY <2>2, RowTypes DEF IInv, Permissions, Seats
  <2>4. "ownerBuySeat" \in MemberOperations \ {"deactivate", "remove"}
      BY DEF MemberOperations
  <2> HIDE DEF perms
  <2> QED BY <2>1, <2>2, <2>3, <2>4, ChangeBeginKeeps
<1> QED BY <1>1, <1>2, <1>3, <1>4, <1>5, <1>6 DEF BeginMemberRequest

----------------------------------------------------------------------------
(* The requests that are carried out.                                       *)

LEMMA RolesCommitKeeps ==
    ASSUME IInv, NEW s \in Session, CommitRoles(s)
    PROVE  IInv' /\ \A u \in User : member'[u].status = member[u].status
<1> DEFINE r == req[s]
<1>1. /\ r.target \in User /\ r.from \in User /\ r.label \in Labels
      /\ r.perms \in SUBSET Permissions /\ DemotedPerms(r) \in SUBSET Permissions
      /\ r.demoted.label \in Labels
  <2>1. r.op \in MemberOperations
      BY DEF CommitRoles, MemberOperations
  <2>2. r.demoted.label \in Labels /\ r.demoted.seats \in SUBSET Permissions
      BY <2>1, RequestTypes, Choices DEF IInv
  <2> QED BY <2>1, <2>2, RequestTypes, PermissionTypes DEF IInv, DemotedPerms
<1>2. /\ AfterHandOver(r) \in [User -> Row]
      /\ \A u \in User : AfterHandOver(r)[u].status = member[u].status
  <2>1. member \in [User -> Row]
      BY DEF IInv, TypeOK
  <2> HIDE DEF r
  <2> QED BY <1>1, <2>1, SetPermissionsKeeps DEF AfterHandOver
<1>3. /\ member' = SetPermissions(AfterHandOver(r), r.target, r.label, r.perms)
      /\ owner' = (IF HandsOver(r) THEN r.target ELSE owner)
      /\ HandsOver(r) => IsActive(r.target)
      /\ Finish(s) /\ UNCHANGED <<company, tier, invitation, started>>
    BY DEF CommitRoles
<1> HIDE DEF r
<1>4. member' \in [User -> Row] /\ \A u \in User : member'[u].status = member[u].status
    BY <1>1, <1>2, <1>3, SetPermissionsKeeps
<1>5. owner' \in User /\ member'[owner'].status # "none"
    BY <1>1, <1>3, <1>4 DEF IsActive, IInv, TypeOK, OwnerJoined
<1>6. /\ req' \in [Session -> Request]
      /\ \A t \in Session : req'[t] = req[t] \/ req'[t] = Idle
    BY <1>3, FinishKeeps DEF IInv
<1>7. TypeOK'
    BY <1>3, <1>4, <1>5, <1>6 DEF IInv, TypeOK
<1>8. company' = "closed" => \A u \in User : member'[u].status \notin {"active", "passive"}
    BY <1>3, <1>4 DEF IInv, ClosedIsEmpty, Live
<1> QED BY <1>3, <1>4, <1>5, <1>6, <1>7, <1>8, StepKeeps

LEMMA PermissionsCommitKeeps ==
    ASSUME IInv, NEW s \in Session, CommitPermissions(s) \/ CommitOwnerBuySeat(s)
    PROVE  IInv' /\ \A u \in User : member'[u].status = member[u].status
<1> DEFINE r == req[s]
<1>1. /\ member' = SetPermissions(member, r.target, r.label, r.perms)
      /\ Finish(s) /\ UNCHANGED <<owner, company, tier, invitation, started>>
      /\ r.op \in MemberOperations
    BY DEF CommitPermissions, CommitOwnerBuySeat, MemberOperations
<1>2. r.target \in User /\ r.label \in Labels /\ r.perms \in SUBSET Permissions
    BY <1>1, RequestTypes DEF IInv
<1> HIDE DEF r
<1>3. member' \in [User -> Row] /\ \A u \in User : member'[u].status = member[u].status
  <2>1. member \in [User -> Row]
      BY DEF IInv, TypeOK
  <2> QED BY <1>1, <1>2, <2>1, SetPermissionsKeeps
<1>4. /\ req' \in [Session -> Request]
      /\ \A t \in Session : req'[t] = req[t] \/ req'[t] = Idle
    BY <1>1, FinishKeeps DEF IInv
<1>5. TypeOK' /\ member'[owner'].status # "none"
    BY <1>1, <1>3, <1>4 DEF IInv, TypeOK, OwnerJoined
<1>6. company' = "closed" => \A u \in User : member'[u].status \notin {"active", "passive"}
    BY <1>1, <1>3 DEF IInv, ClosedIsEmpty, Live
<1> QED BY <1>1, <1>3, <1>4, <1>5, <1>6, StepKeeps

(* Nobody in a closed company is active again: only those who left are in   *)
(* it, and nobody who left comes back.                                      *)
LEMMA StatusCommitKeeps ==
    ASSUME IInv, NEW s \in Session,
           CommitTakeOut(s) \/ CommitActivate(s) \/ CommitAdminDeactivate(s)
    PROVE  IInv'
<1>1. req[s].op \in MemberOperations
    BY DEF CommitTakeOut, CommitActivate, CommitAdminDeactivate, MemberOperations
<1>2. PICK status \in {"active", "passive", "removed"} : SetStatus(req[s].target, status)
    BY DEF CommitTakeOut, CommitActivate, CommitAdminDeactivate
<1>3. Finish(s) /\ UNCHANGED <<owner, company, tier, invitation, started>>
    BY DEF CommitTakeOut, CommitActivate, CommitAdminDeactivate
<1>4. req[s].target \in User /\ member[req[s].target].status # "none"
    BY <1>1, RequestTypes DEF IInv, TargetsJoined
<1>5. /\ member' \in [User -> Row]
      /\ \A v \in User : member[v].status # "none" => member'[v].status # "none"
      /\ \A v \in User : member[v].status = "removed" => member'[v].status = "removed"
      /\ \A v \in User \ {req[s].target} : member'[v] = member[v]
    BY <1>2, <1>4, SetStatusKeeps DEF IInv
<1>6. /\ req' \in [Session -> Request]
      /\ \A t \in Session : req'[t] = req[t] \/ req'[t] = Idle
    BY <1>3, FinishKeeps DEF IInv
<1>7. TypeOK' /\ member'[owner'].status # "none"
    BY <1>3, <1>5, <1>6 DEF IInv, TypeOK, OwnerJoined
<1>8. ASSUME company' = "closed", NEW u \in User
      PROVE  member'[u].status \notin {"active", "passive"}
  <2>1. member[u].status \in {"none", "removed"}
      BY <1>3, <1>8 DEF IInv, ClosedIsEmpty, Live, TypeOK, Row
  <2> QED BY <1>4, <1>5, <2>1
<1> QED BY <1>3, <1>5, <1>6, <1>7, <1>8, StepKeeps

LEMMA GiveUpKeeps ==
    ASSUME IInv, NEW s \in Session, GiveUp(s)
    PROVE  IInv'
<1>1. Finish(s) /\ UNCHANGED <<member, owner, company, tier, invitation, started>>
    BY DEF GiveUp
<1>2. /\ req' \in [Session -> Request]
      /\ \A t \in Session : req'[t] = req[t] \/ req'[t] = Idle
    BY <1>1, FinishKeeps DEF IInv
<1>3. TypeOK' /\ member'[owner'].status # "none"
    BY <1>1, <1>2 DEF IInv, TypeOK, OwnerJoined
<1>4. company' = "closed" => \A u \in User : member'[u].status \notin {"active", "passive"}
    BY <1>1 DEF IInv, ClosedIsEmpty, Live
<1> QED BY <1>1, <1>2, <1>3, <1>4, StepKeeps

----------------------------------------------------------------------------
(* Invitations, joining and leaving.                                        *)

LEMMA JoinsKeeps ==
    ASSUME IInv, NEW s \in Session, NEW i \in Invitation, Joins(s, i), company # "closed"
    PROVE  IInv'
<1> DEFINE inv == invitation[i]
           row == [status |-> "active", label |-> LabelOf(inv.perms, FALSE), perms |-> inv.perms]
<1>1. inv \in InvitationRow /\ inv.person \in User /\ inv.perms \in SUBSET Permissions
    BY DEF IInv, TypeOK, InvitationRow
<1>2. LabelOf(inv.perms, FALSE) \in Labels
    BY DEF LabelOf, Labels
<1>3. row \in Row
    BY <1>1, <1>2 DEF Row
<1>4. row.status = "active"
    OBVIOUS
<1>5. /\ invitation' = [invitation EXCEPT ![i].status = "ACCEPTED"]
      /\ member' = [member EXCEPT ![inv.person] = row]
      /\ Finish(s) /\ UNCHANGED <<owner, company, tier, started>>
    BY DEF Joins
<1> HIDE DEF inv, row
<1>6. /\ member' \in [User -> Row]
      /\ \A u \in User : member'[u] = IF u = inv.person THEN row ELSE member[u]
    BY <1>3, <1>5 DEF IInv, TypeOK
<1>7. /\ invitation' \in [Invitation -> InvitationRow]
      /\ \A j \in Invitation : j # i => invitation'[j] = invitation[j]
      /\ invitation'[i].person = inv.person
    BY <1>1, <1>5 DEF IInv, TypeOK, InvitationRow, inv
<1>8. /\ req' \in [Session -> Request]
      /\ \A t \in Session : req'[t] = req[t] \/ req'[t] = Idle
    BY <1>5, FinishKeeps DEF IInv
<1>9. TypeOK'
    BY <1>5, <1>6, <1>7, <1>8 DEF IInv, TypeOK
<1>10. \A u \in User : member[u].status # "none" => member'[u].status # "none"
    BY <1>4, <1>6
<1>11. member'[owner'].status # "none"
    BY <1>5, <1>10 DEF IInv, TypeOK, OwnerJoined
<1>12. company' # "closed"
    BY <1>5
<1>13. ASSUME NEW j \in Invitation, invitation'[j].status = "ACCEPTED"
       PROVE  \/ /\ invitation[j].status = "ACCEPTED"
                 /\ invitation'[j].person = invitation[j].person
              \/ member'[invitation'[j].person].status # "none"
    BY <1>1, <1>4, <1>6, <1>7, <1>13
<1> QED BY <1>8, <1>9, <1>10, <1>11, <1>12, <1>13, StepKeeps

(* What concerns an invitation and no member.                               *)
LEMMA InvitationWriteKeeps ==
    ASSUME IInv, NEW i \in Invitation, NEW row \in InvitationRow,
           row.status # "ACCEPTED",
           invitation' = [invitation EXCEPT ![i] = row],
           req' \in [Session -> Request],
           \A s \in Session : req'[s] = req[s] \/ req'[s] = Idle,
           UNCHANGED <<member, owner, company, tier, started>>
    PROVE  IInv'
<1>1. /\ invitation' \in [Invitation -> InvitationRow]
      /\ \A j \in Invitation : j # i => invitation'[j] = invitation[j]
      /\ invitation'[i] = row
    BY DEF IInv, TypeOK
<1>2. TypeOK' /\ member'[owner'].status # "none"
    BY <1>1 DEF IInv, TypeOK, OwnerJoined
<1>3. company' = "closed" => \A u \in User : member'[u].status \notin {"active", "passive"}
    BY DEF IInv, ClosedIsEmpty, Live
<1>4. ASSUME NEW j \in Invitation, invitation'[j].status = "ACCEPTED"
      PROVE  invitation[j].status = "ACCEPTED" /\ invitation'[j].person = invitation[j].person
    BY <1>1, <1>4
<1> QED BY <1>2, <1>3, <1>4, StepKeeps

LEMMA InvitationStepKeeps ==
    ASSUME IInv, InvitationStep
    PROVE  IInv'
<1>1. PICK i \in Invitation :
        \/ \E actor, person \in User, perms \in PermissionSet : Invite(actor, i, person, perms)
        \/ InvitationLapses(i)
        \/ MarkExpired(i)
        \/ \E actor \in User : CancelInvitation(actor, i)
        \/ \E s \in Session, actor \in User : BeginResend(s, actor, i)
        \/ \E s \in Session : BeginAccept(s, i)
    BY DEF InvitationStep
<1>2. invitation[i] \in InvitationRow /\ req \in [Session -> Request]
    BY DEF IInv, TypeOK
<1>3. CASE \E actor, person \in User, perms \in PermissionSet : Invite(actor, i, person, perms)
  <2>1. PICK person \in User, perms \in PermissionSet :
           /\ invitation' = [invitation EXCEPT ![i] =
                  [status |-> "PENDING", late |-> FALSE, person |-> person, perms |-> perms]]
           /\ UNCHANGED <<member, owner, company, tier, req, started>>
      BY <1>3 DEF Invite
  <2> DEFINE row == [status |-> "PENDING", late |-> FALSE, person |-> person, perms |-> perms]
  <2>2. row \in InvitationRow /\ row.status = "PENDING"
      BY Choices DEF InvitationRow
  <2> HIDE DEF row
  <2>3. invitation' = [invitation EXCEPT ![i] = row]
      BY <2>1 DEF row
  <2> QED BY <1>2, <2>1, <2>2, <2>3, InvitationWriteKeeps
<1>4. CASE InvitationLapses(i)
  <2> DEFINE row == [invitation[i] EXCEPT !.late = TRUE]
  <2>1. row \in InvitationRow /\ row.status = "PENDING"
      BY <1>2, <1>4 DEF InvitationRow, InvitationLapses, Usable
  <2>2. /\ invitation' = [invitation EXCEPT ![i] = row]
        /\ UNCHANGED <<member, owner, company, tier, req, started>>
      BY <1>4 DEF InvitationLapses
  <2> HIDE DEF row
  <2> QED BY <1>2, <2>1, <2>2, InvitationWriteKeeps
<1>5. CASE MarkExpired(i)
  <2> DEFINE row == [invitation[i] EXCEPT !.status = "EXPIRED"]
  <2>1. row \in InvitationRow /\ row.status = "EXPIRED"
      BY <1>2 DEF InvitationRow
  <2>2. /\ invitation' = [invitation EXCEPT ![i] = row]
        /\ UNCHANGED <<member, owner, company, tier, req, started>>
      BY <1>5 DEF MarkExpired
  <2> HIDE DEF row
  <2> QED BY <1>2, <2>1, <2>2, InvitationWriteKeeps
<1>6. CASE \E actor \in User : CancelInvitation(actor, i)
  <2> DEFINE row == [invitation[i] EXCEPT !.status = "CANCELLED"]
  <2>1. row \in InvitationRow /\ row.status = "CANCELLED"
      BY <1>2 DEF InvitationRow
  <2>2. /\ invitation' = [invitation EXCEPT ![i] = row]
        /\ UNCHANGED <<member, owner, company, tier, req, started>>
      BY <1>6 DEF CancelInvitation
  <2> HIDE DEF row
  <2> QED BY <1>2, <2>1, <2>2, InvitationWriteKeeps
<1>7. CASE (\E s \in Session, actor \in User : BeginResend(s, actor, i))
           \/ (\E s \in Session : BeginAccept(s, i))
  <2>1. PICK s \in Session, op \in {"accept", "resend"} : Begin(s, [op |-> op, inv |-> i])
      BY <1>7 DEF BeginResend, BeginAccept
  <2> DEFINE r == [op |-> op, inv |-> i]
  <2>2. r \in Request /\ r.op \notin MemberOperations
      BY DEF Request, MemberOperations
  <2> HIDE DEF r
  <2>3. Begin(s, r)
      BY <2>1 DEF r
  <2> QED BY <2>2, <2>3, BeginKeeps
<1> QED BY <1>1, <1>3, <1>4, <1>5, <1>6, <1>7

LEMMA ResendKeeps ==
    ASSUME IInv, NEW s \in Session, CommitResend(s)
    PROVE  IInv'
<1> DEFINE i == req[s].inv
           row == [invitation[i] EXCEPT !.status = "PENDING", !.late = FALSE]
<1>1. i \in Invitation
    BY RequestTypes DEF IInv, CommitResend
<1>2. row \in InvitationRow /\ row.status = "PENDING"
    BY <1>1 DEF IInv, TypeOK, InvitationRow
<1>3. /\ invitation' = [invitation EXCEPT ![i] = row]
      /\ Finish(s) /\ UNCHANGED <<member, owner, company, tier, started>>
    BY DEF CommitResend
<1> HIDE DEF i, row
<1>4. /\ req' \in [Session -> Request]
      /\ \A t \in Session : req'[t] = req[t] \/ req'[t] = Idle
    BY <1>3, FinishKeeps DEF IInv
<1> QED BY <1>1, <1>2, <1>3, <1>4, InvitationWriteKeeps

(* The last member closes the company: nobody else was left in it.          *)
LEMMA EraseKeeps ==
    ASSUME IInv, NEW u \in User, EraseAccount(u)
    PROVE  IInv'
<1>1. /\ Live(u) /\ UNCHANGED <<owner, tier, req, started>>
      /\ member' = [member EXCEPT ![u].status = "removed"]
      /\ company' = IF Others(u) = {} THEN "closed" ELSE company
    BY DEF EraseAccount
<1>2. /\ \A v \in User : v # u => member'[v] = member[v]
      /\ member' \in [User -> Row] /\ member'[u].status = "removed"
    BY <1>1 DEF IInv, TypeOK, Row
<1>3. /\ invitation' \in [Invitation -> InvitationRow]
      /\ \A i \in Invitation : invitation'[i].status = "ACCEPTED" =>
            invitation[i].status = "ACCEPTED" /\ invitation'[i].person = invitation[i].person
  <2> DEFINE after(i) == IF Others(u) = {} /\ invitation[i].status = "PENDING"
                         THEN [invitation[i] EXCEPT !.status = "CANCELLED"]
                         ELSE invitation[i]
  <2>1. invitation' = [i \in Invitation |-> after(i)]
      BY DEF EraseAccount
  <2>2. ASSUME NEW i \in Invitation
        PROVE  /\ after(i) \in InvitationRow /\ after(i).person = invitation[i].person
               /\ after(i).status = "ACCEPTED" => invitation[i].status = "ACCEPTED"
      BY DEF IInv, TypeOK, InvitationRow
  <2> HIDE DEF after
  <2> QED BY <2>1, <2>2
<1>4. TypeOK' /\ member'[owner'].status # "none"
    BY <1>1, <1>2, <1>3 DEF IInv, TypeOK, OwnerJoined
<1>5. \A v \in User : member[v].status # "none" => member'[v].status # "none"
    BY <1>2
<1>6. ASSUME company' = "closed", NEW v \in User
      PROVE  member'[v].status \notin {"active", "passive"}
  <2>1. company # "closed"
      BY <1>1 DEF IInv, ClosedIsEmpty
  <2>2. v # u => ~Live(v)
      BY <1>1, <1>6, <2>1 DEF Others
  <2> QED BY <1>2, <2>2 DEF Live
<1>7. \A s \in Session : req'[s] = req[s] \/ req'[s] = Idle
    BY <1>1
<1> QED BY <1>3, <1>4, <1>5, <1>6, <1>7, StepKeeps

(* A seat selection takes permissions, and nobody's row.                    *)
LEMMA SelectionKeeps ==
    ASSUME IInv, NEW keep \in SUBSET SeatsHeld(member), SelectSeats(keep)
    PROVE  IInv' /\ \A u \in User : member'[u].status = member[u].status
<1> DEFINE perms(u) == Effective(member[u]) \ {g \in Counting : <<u, g>> \notin keep}
           after(u) == [member[u] EXCEPT
                          !.perms = IF u = owner THEN perms(u) \cap Seats ELSE perms(u),
                          !.label = LabelOf(perms(u), u = owner)]
           loses(u) == \E g \in Counting : <<u, g>> \in SeatsHeld(member) \ keep
           row(u) == IF loses(u) THEN after(u) ELSE member[u]
<1>1. /\ member' = [u \in User |-> row(u)]
      /\ UNCHANGED <<owner, company, tier, invitation, req, started>>
    BY DEF SelectSeats
<1>2. ASSUME NEW u \in User PROVE row(u) \in Row /\ row(u).status = member[u].status
  <2>1. member[u] \in Row /\ perms(u) \in SUBSET Permissions
      BY RowTypes DEF IInv
  <2>2. LabelOf(perms(u), u = owner) \in Labels
      BY DEF LabelOf, Labels
  <2> HIDE DEF perms
  <2>3. after(u) \in Row /\ after(u).status = member[u].status
      BY <2>1, <2>2 DEF Row
  <2> QED BY <2>1, <2>3
<1> HIDE DEF row
<1>3. member' \in [User -> Row] /\ \A u \in User : member'[u].status = member[u].status
    BY <1>1, <1>2
<1>4. TypeOK' /\ member'[owner'].status # "none"
    BY <1>1, <1>3 DEF IInv, TypeOK, OwnerJoined
<1>5. company' = "closed" => \A u \in User : member'[u].status \notin {"active", "passive"}
    BY <1>1, <1>3 DEF IInv, ClosedIsEmpty, Live
<1> QED BY <1>1, <1>3, <1>4, <1>5, StepKeeps

LEMMA CompanyStepKeeps ==
    ASSUME IInv, CompanyStep
    PROVE  IInv'
<1>1. ASSUME NEW keep \in SUBSET SeatsHeld(member), SelectSeats(keep) PROVE IInv'
    BY <1>1, SelectionKeeps
<1>2. ASSUME NEW u \in User, DeleteOwnAccount(u) \/ EraseByAdmin(u) PROVE IInv'
    BY <1>2, EraseKeeps DEF DeleteOwnAccount, EraseByAdmin
<1>3. ASSUME NEW u \in User, NEW roles \in RoleSet, AddUser(u, roles) PROVE IInv'
  <2> DEFINE perms == PermissionsFor(roles.label, roles.seats)
             row == [status |-> "active", label |-> roles.label, perms |-> perms]
  <2>1. perms \in SUBSET Permissions /\ roles.label \in Labels
      BY Choices, PermissionTypes
  <2>2. /\ member' = [member EXCEPT ![u] = row] /\ company # "closed"
        /\ UNCHANGED <<owner, company, tier, invitation, req, started>>
      BY <1>3 DEF AddUser
  <2>3. row \in Row /\ row.status = "active"
      BY <2>1 DEF Row
  <2> HIDE DEF row
  <2>4. /\ member' \in [User -> Row]
        /\ \A v \in User : member[v].status # "none" => member'[v].status # "none"
      BY <2>2, <2>3 DEF IInv, TypeOK
  <2>5. TypeOK' /\ member'[owner'].status # "none"
      BY <2>2, <2>4 DEF IInv, TypeOK, OwnerJoined
  <2>6. company' # "closed"
      BY <2>2
  <2> QED BY <2>2, <2>4, <2>5, <2>6, StepKeeps
<1>4. ASSUME NEW s \in Session, NEW op \in Operations, BeginSuspension(s, op) PROVE IInv'
  <2>1. Begin(s, [op |-> op]) /\ op \in {"suspend", "unsuspend"}
      BY <1>4 DEF BeginSuspension
  <2> DEFINE r == [op |-> op]
  <2>2. r \in Request /\ r.op \notin MemberOperations
      BY <2>1 DEF Request, MemberOperations
  <2>3. Begin(s, r)
      BY <2>1
  <2> HIDE DEF r
  <2> QED BY <2>2, <2>3, BeginKeeps
<1>5. ASSUME ChangeTier PROVE IInv'
  <2>1. UNCHANGED <<member, owner, company, invitation, req, started>> /\ tier' \in Tiers
      BY <1>5 DEF ChangeTier
  <2>2. TypeOK' /\ member'[owner'].status # "none"
      BY <2>1 DEF IInv, TypeOK, OwnerJoined
  <2>3. company' = "closed" => \A u \in User : member'[u].status \notin {"active", "passive"}
      BY <2>1 DEF IInv, ClosedIsEmpty, Live
  <2> QED BY <2>1, <2>2, <2>3, StepKeeps
<1> QED BY <1>1, <1>2, <1>3, <1>4, <1>5 DEF CompanyStep

LEMMA SuspensionKeeps ==
    ASSUME IInv, NEW s \in Session, CommitSuspension(s)
    PROVE  IInv'
<1>1. /\ company' \in {"open", "suspended"}
      /\ Finish(s) /\ UNCHANGED <<member, owner, tier, invitation, started>>
    BY DEF CommitSuspension
<1>2. /\ req' \in [Session -> Request]
      /\ \A t \in Session : req'[t] = req[t] \/ req'[t] = Idle
    BY <1>1, FinishKeeps DEF IInv
<1>3. TypeOK' /\ member'[owner'].status # "none"
    BY <1>1, <1>2 DEF IInv, TypeOK, OwnerJoined
<1>4. company' # "closed"
    BY <1>1
<1> QED BY <1>1, <1>2, <1>3, <1>4, StepKeeps

LEMMA CommitKeeps ==
    ASSUME IInv, NEW s \in Session, CommitMemberRequest(s)
    PROVE  IInv'
BY RolesCommitKeeps, PermissionsCommitKeeps, StatusCommitKeeps DEF CommitMemberRequest

----------------------------------------------------------------------------
LEMMA InitEstablishes == Init => IInv
<1> SUFFICES ASSUME Init PROVE IInv
    OBVIOUS
<1> DEFINE row(u) == IF u = Founder THEN [status |-> "active", label |-> "SAHIP",
                                          perms |-> PermissionsFor("SAHIP", {"sell"})]
                     ELSE IF u \in DOMAIN Team
                     THEN [status |-> "active", label |-> LabelOf(Team[u], FALSE), perms |-> Team[u]]
                     ELSE Absent
<1>1. /\ member = [u \in User |-> row(u)]
      /\ owner = Founder /\ company = "open" /\ tier \in Tiers
      /\ req = [s \in Session |-> Idle] /\ started = 0
      /\ invitation = [i \in Invitation |->
                         [status |-> "NONE", late |-> FALSE, person |-> Founder, perms |-> {}]]
    BY DEF Init
<1>2. ASSUME NEW u \in User PROVE row(u) \in Row
  <2>1. PermissionsFor("SAHIP", {"sell"}) \in SUBSET Permissions
      BY DEF PermissionsFor, Permissions, Management, Seats
  <2>2. u \in DOMAIN Team => Team[u] \in SUBSET Permissions /\ LabelOf(Team[u], FALSE) \in Labels
      BY TeamAssumption DEF LabelOf, Labels
  <2>3. Absent \in Row
      BY DEF Absent, Row, Labels
  <2> HIDE DEF Absent
  <2> QED BY <2>1, <2>2, <2>3 DEF Row, Labels
<1>3. Founder \in User /\ row(Founder).status = "active"
    BY FounderAssumption
<1> HIDE DEF row
<1>4. member \in [User -> Row] /\ member[owner].status # "none"
    BY <1>1, <1>2, <1>3
<1>5. invitation \in [Invitation -> InvitationRow]
      /\ \A i \in Invitation : invitation[i].status = "NONE"
    BY <1>1, <1>3 DEF InvitationRow
<1>6. req \in [Session -> Request]
    BY <1>1 DEF Request
<1>7. TypeOK
    BY <1>1, <1>3, <1>4, <1>5, <1>6 DEF TypeOK
<1>8. TargetsJoined
    BY <1>1 DEF TargetsJoined, Idle, MemberOperations
<1>9. OwnerJoined /\ ClosedIsEmpty /\ AcceptedHasAccount
    BY <1>1, <1>4, <1>5 DEF OwnerJoined, ClosedIsEmpty, AcceptedHasAccount
<1> QED BY <1>7, <1>8, <1>9 DEF IInv

LEMMA StepPreserves == IInv /\ [Next]_vars => IInv'
<1> SUFFICES ASSUME IInv, [Next]_vars PROVE IInv'
    OBVIOUS
<1>1. CASE UNCHANGED vars
  <2>1. TypeOK' /\ member'[owner'].status # "none"
      BY <1>1 DEF vars, IInv, TypeOK, OwnerJoined
  <2>2. UNCHANGED <<member, company, invitation, req>>
      BY <1>1 DEF vars
  <2>3. company' = "closed" => \A u \in User : member'[u].status \notin {"active", "passive"}
      BY <2>2 DEF IInv, ClosedIsEmpty, Live
  <2> QED BY <2>1, <2>2, <2>3, StepKeeps
<1>2. CASE Next
  <2>1. ASSUME NEW s \in Session, CommitAccept(s) PROVE IInv'
    <3>1. req[s].inv \in Invitation
        BY <2>1, RequestTypes DEF IInv, CommitAccept
    <3>2. Joins(s, req[s].inv) /\ company # "closed"
        BY <2>1 DEF CommitAccept
    <3> QED BY <3>1, <3>2, JoinsKeeps
  <2> QED BY <1>2, <2>1, InvitationStepKeeps, CompanyStepKeeps, MemberBeginKeeps, CommitKeeps,
             ResendKeeps, SuspensionKeeps, GiveUpKeeps DEF Next
<1> QED BY <1>1, <1>2

THEOREM Inductive == Spec => []IInv
BY InitEstablishes, StepPreserves, PTL DEF Spec

(* Rows, requests and invitations have their types.                         *)
THEOREM TypeCorrect == Spec => []TypeOK
<1>1. IInv => TypeOK
    BY DEF IInv
<1> QED BY <1>1, Inductive, PTL

(* Nobody is, or gets, into a company its last member has closed: an        *)
(* invitation accepted, a member added or reactivated and a suspension      *)
(* decided before are all too late.                                         *)
THEOREM ClosedStaysEmpty == Spec => []ClosedIsEmpty
<1>1. IInv => ClosedIsEmpty
    BY DEF IInv
<1> QED BY <1>1, Inductive, PTL

(* An invitation that is claimed has opened the account it was sent for.    *)
THEOREM AcceptanceOpensAccount == Spec => []AcceptedHasAccount
<1>1. IInv => AcceptedHasAccount
    BY DEF IInv
<1> QED BY <1>1, Inductive, PTL

----------------------------------------------------------------------------
(* Who joins, and who leaves.                                               *)

(* The operations that move anybody's status.                               *)
LEMMA StatusMoves ==
    ASSUME IInv, Next
    PROVE  \/ \A u \in User : member'[u].status = member[u].status
           \/ \E s \in Session : CommitTakeOut(s) \/ CommitActivate(s) \/ CommitAdminDeactivate(s)
           \/ \E s \in Session : CommitAccept(s)
           \/ \E u \in User : EraseAccount(u)
           \/ \E u \in User, roles \in RoleSet : AddUser(u, roles)
<1>1. ASSUME InvitationStep PROVE UNCHANGED member
    BY <1>1 DEF InvitationStep, Invite, InvitationLapses, MarkExpired, CancelInvitation,
                BeginResend, BeginAccept, Begin
<1>2. ASSUME NEW s \in Session, BeginMemberRequest(s) PROVE UNCHANGED member
  <2>1. ASSUME NEW r, Begin(s, r) PROVE UNCHANGED member
      BY <2>1 DEF Begin
  <2>2. ASSUME NEW actor, NEW target, NEW roles, NEW to, BeginRoles(s, actor, target, roles, to)
        PROVE  UNCHANGED member
      BY <2>1, <2>2 DEF BeginRoles
  <2>3. ASSUME NEW actor, NEW target, NEW perms, BeginPermissions(s, actor, target, perms)
        PROVE  UNCHANGED member
      BY <2>1, <2>3 DEF BeginPermissions
  <2>4. ASSUME NEW actor, NEW target, NEW op, BeginTakeOut(s, actor, target, op)
        PROVE  UNCHANGED member
      BY <2>1, <2>4 DEF BeginTakeOut
  <2>5. ASSUME NEW actor, NEW target, BeginActivate(s, actor, target)
        PROVE  UNCHANGED member
      BY <2>1, <2>5 DEF BeginActivate
  <2>6. ASSUME NEW target, BeginAdminSetActive(s, target) PROVE UNCHANGED member
      BY <2>1, <2>6 DEF BeginAdminSetActive
  <2>7. ASSUME BeginOwnerBuySeat(s) PROVE UNCHANGED member
      BY <2>1, <2>7 DEF BeginOwnerBuySeat
  <2> QED BY <1>2, <2>2, <2>3, <2>4, <2>5, <2>6, <2>7 DEF BeginMemberRequest
<1>3. ASSUME NEW s \in Session, CommitResend(s) \/ CommitSuspension(s) \/ GiveUp(s)
      PROVE  UNCHANGED member
    BY <1>3 DEF CommitResend, CommitSuspension, GiveUp
<1>4. ASSUME CompanyStep
      PROVE  \/ \A u \in User : member'[u].status = member[u].status
             \/ \E u \in User : EraseAccount(u)
             \/ \E u \in User, roles \in RoleSet : AddUser(u, roles)
  <2>1. ASSUME NEW keep \in SUBSET SeatsHeld(member), SelectSeats(keep)
        PROVE  \A u \in User : member'[u].status = member[u].status
      BY <2>1, SelectionKeeps
  <2>2. ASSUME NEW s \in Session, NEW op \in Operations, BeginSuspension(s, op)
        PROVE  UNCHANGED member
      BY <2>2 DEF BeginSuspension, Begin
  <2>3. ASSUME ChangeTier PROVE UNCHANGED member
      BY <2>3 DEF ChangeTier
  <2> QED BY <1>4, <2>1, <2>2, <2>3 DEF CompanyStep, DeleteOwnAccount, EraseByAdmin
<1>5. ASSUME NEW s \in Session, CommitMemberRequest(s)
      PROVE  \/ \A u \in User : member'[u].status = member[u].status
             \/ CommitTakeOut(s) \/ CommitActivate(s) \/ CommitAdminDeactivate(s)
    BY <1>5, RolesCommitKeeps, PermissionsCommitKeeps DEF CommitMemberRequest
<1> QED BY <1>1, <1>2, <1>3, <1>4, <1>5 DEF Next

LEMMA StillManages ==
    ASSUME NEW v \in User, member'[v] = member[v], owner' = owner, v \in Managers
    PROVE  Managers' # {}
<1>1. v \in Managers'
    BY DEF Managers, IsActive, Effective
<1> QED BY <1>1

(* Whoever is removed leaves a manager: assertNotLastAdmin is asked in the  *)
(* transaction that removes, with what is then in the table.                *)
LEMMA LeavingStep ==
    ASSUME IInv, Next, NEW u \in User, Live(u), member'[u].status = "removed"
    PROVE  Managers' # {} \/ company' = "closed"
<1>1. member[u].status \in {"active", "passive"} /\ member \in [User -> Row]
    BY DEF Live, IInv, TypeOK
<1>2. ASSUME NEW s \in Session, CommitTakeOut(s) PROVE Managers' # {}
  <2>1. req[s].op \in MemberOperations /\ req[s].label = "-"
      BY <1>2 DEF CommitTakeOut, MemberOperations, IInv, TargetsJoined
  <2>2. PICK v \in Managers : v # req[s].target
      BY <1>2, <2>1 DEF CommitTakeOut, NotLastAdmin
  <2>3. v \in User /\ req[s].target \in User
      BY <2>1, <2>2, RequestTypes DEF Managers, IInv
  <2>4. member'[v] = member[v] /\ owner' = owner
      BY <1>2, <2>2, <2>3, SetStatusKeeps DEF CommitTakeOut, IInv
  <2> QED BY <2>2, <2>3, <2>4, StillManages
<1>3. ASSUME NEW s \in Session, CommitActivate(s) \/ CommitAdminDeactivate(s) PROVE FALSE
  <2>1. PICK status \in {"active", "passive"} : SetStatus(req[s].target, status)
      BY <1>3 DEF CommitActivate, CommitAdminDeactivate
  <2>2. member'[u].status = "removed" => member[u].status = "removed"
      BY <1>1, <2>1 DEF SetStatus, Row
  <2> QED BY <1>1, <2>2
<1>4. ASSUME NEW s \in Session, CommitAccept(s) PROVE FALSE
  <2>1. member'[u].status \in {member[u].status, "active"}
      BY <1>1, <1>4 DEF CommitAccept, Joins
  <2> QED BY <1>1, <2>1
<1>5. ASSUME NEW v \in User, EraseAccount(v) PROVE Managers' # {} \/ company' = "closed"
  <2>1. CASE Others(v) = {}
      BY <1>5, <2>1 DEF EraseAccount
  <2>2. CASE Others(v) # {}
    <3>1. PICK w \in Others(v) : IsActive(w) /\ (w = owner \/ "users" \in member[w].perms)
        BY <1>5, <2>2 DEF EraseAccount
    <3>2. w \in User /\ w # v
        BY <3>1 DEF Others
    <3>3. w \in Managers
        BY <3>1, <3>2 DEF Managers, Effective
    <3>4. member'[w] = member[w] /\ owner' = owner
        BY <1>1, <1>5, <3>2 DEF EraseAccount
    <3> QED BY <3>2, <3>3, <3>4, StillManages
  <2> QED BY <2>1, <2>2
<1>6. ASSUME NEW v \in User, NEW roles \in RoleSet, AddUser(v, roles) PROVE FALSE
  <2>1. member'[u].status \in {member[u].status, "active"}
      BY <1>1, <1>6 DEF AddUser
  <2> QED BY <1>1, <2>1
<1>7. ASSUME \A v \in User : member'[v].status = member[v].status PROVE FALSE
    BY <1>1, <1>7
<1> QED BY <1>2, <1>3, <1>4, <1>5, <1>6, <1>7, StatusMoves

(* Nobody who leaves for good leaves a team without a manager.              *)
THEOREM ManagerRemains == Spec => LeavingKeepsAManager
<1> DEFINE Step == \A u \in User :
                     Live(u) /\ member'[u].status = "removed" =>
                         Managers' # {} \/ company' = "closed"
<1>1. IInv /\ [Next]_vars => [Step]_vars
    BY LeavingStep
<1> QED BY <1>1, Inductive, PTL DEF Spec, LeavingKeepsAManager

----------------------------------------------------------------------------
(* Seats are counted in pairs of a member and a seat group.                 *)

LEMMA SeatsFinite ==
    /\ \A groups \in SUBSET Seats : IsFiniteSet(groups) /\ Cardinality(groups) \in Nat
    /\ \A rows : IsFiniteSet(SeatsHeld(rows)) /\ Cardinality(SeatsHeld(rows)) \in Nat
    /\ IsFiniteSet(SeatsPending({})) /\ Cardinality(SeatsPending({})) \in Nat
<1>1. IsFiniteSet(Seats)
  <2>1. IsFiniteSet({"buy"}) /\ IsFiniteSet({"sell"})
      BY FS_Singleton
  <2>2. Seats = {"buy"} \cup {"sell"}
      BY DEF Seats
  <2> QED BY <2>1, <2>2, FS_Union
<1>2. \A groups \in SUBSET Seats : IsFiniteSet(groups)
    BY <1>1, FS_Subset
<1>3. Counting \in SUBSET Seats
    BY DEF Counting, Seats
<1>4. IsFiniteSet(User \X Counting) /\ IsFiniteSet((Invitation \ {}) \X Counting)
  <2>1. IsFiniteSet(Invitation \ {})
      BY SeatAssumption, FS_Subset
  <2> QED BY <1>2, <1>3, <2>1, SeatAssumption, FS_Product
<1>5. ASSUME NEW rows PROVE IsFiniteSet(SeatsHeld(rows))
  <2>1. SeatsHeld(rows) \in SUBSET (User \X Counting)
      BY DEF SeatsHeld
  <2> QED BY <1>4, <2>1, FS_Subset
<1>6. IsFiniteSet(SeatsPending({}))
  <2>1. SeatsPending({}) \in SUBSET ((Invitation \ {}) \X Counting)
      BY DEF SeatsPending
  <2> QED BY <1>4, <2>1, FS_Subset
<1> QED BY <1>2, <1>5, <1>6, FS_CardinalityType

(* One row that changes takes no more seats than the groups it changes to.  *)
LEMMA SeatsAfterJoining ==
    ASSUME NEW rows, NEW after, NEW u \in User, NEW groups \in SUBSET Seats,
           \A v \in User \ {u} : after[v] = rows[v], SeatsOf(after[u]) \subseteq groups
    PROVE  Cardinality(SeatsHeld(after)) <= Cardinality(SeatsHeld(rows)) + Cardinality(groups)
<1> DEFINE more == {u} \X groups
           all == SeatsHeld(rows) \cup more
<1>1. SeatsHeld(after) \subseteq all
  <2> SUFFICES ASSUME NEW seat \in SeatsHeld(after), seat \notin SeatsHeld(rows) PROVE seat \in more
      OBVIOUS
  <2>1. /\ seat \in User \X Counting
        /\ after[seat[1]].status = "active" /\ seat[2] \in SeatsOf(after[seat[1]])
      BY DEF SeatsHeld
  <2>2. seat[1] = u
      BY <2>1 DEF SeatsHeld
  <2>3. seat[2] \in groups
      BY <2>1, <2>2
  <2>4. seat = <<seat[1], seat[2]>>
      BY <2>1
  <2> QED BY <2>2, <2>3, <2>4
<1>2. IsFiniteSet(groups) /\ IsFiniteSet(SeatsHeld(rows)) /\ IsFiniteSet({u})
    BY SeatsFinite, FS_Singleton
<1>3. IsFiniteSet(more) /\ Cardinality(more) = Cardinality(groups)
  <2>1. IsFiniteSet(more) /\ Cardinality(more) = Cardinality({u}) * Cardinality(groups)
      BY <1>2, FS_Product
  <2>2. Cardinality({u}) = 1 /\ Cardinality(groups) \in Nat
      BY SeatsFinite, FS_Singleton
  <2> HIDE DEF more
  <2> QED BY <2>1, <2>2
<1> HIDE DEF more
<1>4. /\ IsFiniteSet(all)
      /\ Cardinality(all) = Cardinality(SeatsHeld(rows)) + Cardinality(more)
                               - Cardinality(SeatsHeld(rows) \cap more)
    BY <1>2, <1>3, FS_Union
<1>5. Cardinality(SeatsHeld(rows) \cap more) \in Nat
  <2>1. IsFiniteSet(SeatsHeld(rows) \cap more)
      BY <1>2, FS_Subset
  <2> QED BY <2>1, FS_CardinalityType
<1>6. Cardinality(all) <= Cardinality(SeatsHeld(rows)) + Cardinality(groups)
    BY <1>3, <1>4, <1>5, SeatsFinite
<1> HIDE DEF all
<1>7. Cardinality(SeatsHeld(after)) <= Cardinality(all)
    BY <1>1, <1>4, FS_Subset
<1>8. Cardinality(all) \in Nat /\ Cardinality(groups) \in Nat
    BY <1>4, FS_CardinalityType, SeatsFinite
<1> QED BY <1>6, <1>7, <1>8, SeatsFinite

LEMMA RoomForGroups ==
    ASSUME TypeOK, NEW u \in User, NEW groups \in SUBSET Seats, groups # {},
           NEW pending, Cardinality(pending) \in Nat, SeatAvailable(member, groups, pending),
           \A v \in User \ {u} : member'[v] = member[v], SeatsOf(member'[u]) \subseteq groups
    PROVE  Cardinality(SeatsHeld(member')) <= SeatLimit[tier]
<1>1. Cardinality(SeatsHeld(member)) + Cardinality(pending) + Cardinality(groups)
          <= SeatLimit[tier]
    BY DEF SeatAvailable
<1>2. SeatLimit[tier] \in Nat
    BY SeatAssumption DEF TypeOK
<1>3. Cardinality(SeatsHeld(member')) <= Cardinality(SeatsHeld(member)) + Cardinality(groups)
    BY SeatsAfterJoining
<1> QED BY <1>1, <1>2, <1>3, SeatsFinite

LEMMA JoiningStep ==
    ASSUME IInv, Next, NEW u \in User,
           member[u].status = "none", member'[u].status = "active",
           SeatsOf(member'[u]) \cap Counting # {}
    PROVE  Cardinality(SeatsHeld(member')) <= SeatLimit[tier]
<1>1. member \in [User -> Row] /\ TypeOK
    BY DEF IInv, TypeOK
<1>2. ASSUME NEW s \in Session, CommitTakeOut(s) \/ CommitActivate(s) \/ CommitAdminDeactivate(s)
      PROVE  FALSE
  <2>1. PICK status \in {"active", "passive", "removed"} : SetStatus(req[s].target, status)
      BY <1>2 DEF CommitTakeOut, CommitActivate, CommitAdminDeactivate
  <2>2. req[s].op \in MemberOperations
      BY <1>2 DEF CommitTakeOut, CommitActivate, CommitAdminDeactivate, MemberOperations
  <2>3. req[s].target # u
      BY <2>2 DEF IInv, TargetsJoined
  <2>4. member'[u] = member[u]
      BY <1>1, <2>1, <2>3 DEF SetStatus
  <2> QED BY <2>4
<1>3. ASSUME NEW s \in Session, CommitAccept(s)
      PROVE  Cardinality(SeatsHeld(member')) <= SeatLimit[tier]
  <2> DEFINE inv == invitation[req[s].inv]
             groups == inv.perms \cap Seats
  <2>1. req[s].inv \in Invitation
      BY <1>3, RequestTypes DEF CommitAccept, IInv
  <2>2. inv.person \in User /\ inv.perms \in SUBSET Permissions
      BY <2>1 DEF IInv, TypeOK, InvitationRow
  <2>3. /\ member' = [member EXCEPT ![inv.person] =
               [status |-> "active", label |-> LabelOf(inv.perms, FALSE), perms |-> inv.perms]]
        /\ SeatAvailable(member, groups, {})
      BY <1>3 DEF CommitAccept, Joins
  <2> HIDE DEF inv
  <2> HIDE DEF groups
  <2>4. \A v \in User \ {inv.person} : member'[v] = member[v]
      BY <1>1, <2>2, <2>3
  <2>5. u = inv.person /\ \A v \in User \ {u} : member'[v] = member[v]
      BY <2>4
  <2>6. member'[u].perms = inv.perms /\ member'[u].label = LabelOf(inv.perms, FALSE)
      BY <1>1, <2>2, <2>3, <2>5
  <2>7. SeatsOf(member'[u]) = groups
      BY <2>6 DEF SeatsOf, Effective, PermissionsFor, LabelOf, groups
  <2>8. groups \in SUBSET Seats /\ groups # {}
      BY <2>7 DEF groups
  <2>9. Cardinality({}) \in Nat
      BY FS_EmptySet
  <2> QED BY <1>1, <2>3, <2>5, <2>7, <2>8, <2>9, RoomForGroups
<1>4. ASSUME NEW v \in User, EraseAccount(v) PROVE FALSE
    BY <1>1, <1>4 DEF EraseAccount, Row
<1>5. ASSUME NEW v \in User, NEW roles \in RoleSet, AddUser(v, roles)
      PROVE  Cardinality(SeatsHeld(member')) <= SeatLimit[tier]
  <2> DEFINE perms == PermissionsFor(roles.label, roles.seats)
  <2>1. /\ member' = [member EXCEPT ![v] = [status |-> "active", label |-> roles.label,
                                           perms |-> perms]]
        /\ roles.label = "-" \/ roles.seats = {}
        /\ SeatAvailable(member, roles.seats, SeatsPending({}))
      BY <1>5 DEF AddUser
  <2>2. roles.seats \in SUBSET Seats
      BY Choices
  <2> HIDE DEF perms
  <2>3. u = v /\ \A w \in User \ {u} : member'[w] = member[w]
      BY <1>1, <2>1
  <2>4. member'[u].perms = perms /\ member'[u].label = roles.label
      BY <1>1, <2>1, <2>3
  <2>5. SeatsOf(member'[u]) \subseteq roles.seats
      BY <2>1, <2>4 DEF SeatsOf, Effective, PermissionsFor, perms, Management, Seats
  <2>6. roles.seats # {}
      BY <2>5
  <2> QED BY <1>1, <2>1, <2>2, <2>3, <2>5, <2>6, SeatsFinite, RoomForGroups
<1>6. ASSUME \A v \in User : member'[v].status = member[v].status PROVE FALSE
    BY <1>6
<1> QED BY <1>2, <1>3, <1>4, <1>5, <1>6, StatusMoves

(* A seat is asked for under the lock, with the members that are then in    *)
(* the table: whoever joins finds room, however old the invitation.         *)
THEOREM SeatsAreEnough == Spec => JoinsFitTheSeats
<1> DEFINE Step == \A u \in User :
                     /\ member[u].status = "none" /\ member'[u].status = "active"
                     /\ SeatsOf(member'[u]) \cap Counting # {}
                     => Cardinality(SeatsHeld(member')) <= SeatLimit[tier]
<1>1. IInv /\ [Next]_vars => [Step]_vars
    BY JoiningStep
<1> QED BY <1>1, Inductive, PTL DEF Spec, JoinsFitTheSeats
=============================================================================
