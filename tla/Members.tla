------------------------------ MODULE Members ------------------------------
(***************************************************************************)
(* The team of one company: its members and founder, their permissions and *)
(* seats, team invitations, account deletion, and what an administrator of *)
(* the platform does to them (company-users.service.ts, seat-gate.ts,      *)
(* account-deletion.service.ts, admin-company-users.service.ts).           *)
(*                                                                          *)
(* Every operation that changes the team locks the company's row, but most *)
(* of them decide on what they read BEFORE the lock: who the founder is and *)
(* what the member's row says.  Such an operation is split: Begin... reads  *)
(* and puts a request in flight, Commit writes under the lock.  An          *)
(* operation that reads everything under the lock is one action.            *)
(*                                                                          *)
(* A permission list is a set of four kinds: "users" (users:manage),        *)
(* "company" (company:manage), and "buy" and "sell" for having at least one *)
(* permission of the seat group.  Of the role tags the model keeps the      *)
(* label; SATIN_ALMACI and SATISCI are the seats.  A User is a person with  *)
(* one address; one who left does not return under the same name.           *)
(***************************************************************************)
EXTENDS Integers, FiniteSets

CONSTANTS
    User,          \* the people who are, or may become, members
    Founder,       \* who signed the company up
    Team,          \* the permissions of those who have joined already
    Invitation,    \* the invitations that can be sent
    Session,       \* places for requests that are in flight together
    SeatLimit,     \* seats of each tier
    RoleSet,       \* the role sets requests ask for: labels with seats
    PermissionSet, \* the permission lists requests ask for
    Operation,     \* the operations that take part, within Operations
    MaxRequest     \* bound on the requests that ever start

Seats == {"buy", "sell"}
Management == {"users", "company"}
Permissions == Management \cup Seats
Labels == {"SAHIP", "YONETICI", "-"}
Tiers == {"STANDART", "GOLD"}

MemberOperations == {"roles", "permissions", "deactivate", "activate", "remove",
                     "adminDeactivate", "ownerBuySeat"}
Operations == MemberOperations \cup
    {"accept", "resend", "invite", "select", "delete", "suspend", "unsuspend", "add", "tier"}

ASSUME FounderAssumption == Founder \in User
ASSUME TeamAssumption ==
    DOMAIN Team \subseteq User /\ Team \in [DOMAIN Team -> SUBSET Permissions]
ASSUME SeatAssumption ==
    IsFiniteSet(User) /\ IsFiniteSet(Invitation) /\ SeatLimit \in [Tiers -> Nat]
ASSUME ChoiceAssumption ==
    /\ RoleSet \subseteq [label : Labels, seats : SUBSET Seats]
    /\ PermissionSet \subseteq SUBSET Permissions
    /\ Operation \subseteq Operations
ASSUME RequestAssumption == MaxRequest \in Nat

VARIABLES
    member,      \* the row of every person
    owner,       \* companies.ownerUserId
    company,     \* open, suspended, or closed by its last member
    tier,        \* the effective tier
    invitation,  \* the row of every invitation
    req,         \* what each session has read and not yet acted upon
    started      \* the requests started so far

vars == <<member, owner, company, tier, invitation, req, started>>

----------------------------------------------------------------------------
(* none: not a member yet; passive: isActive false; removed: deletedAt set. *)
Row == [status : {"none", "active", "passive", "removed"},
        label : Labels, perms : SUBSET Permissions]

Absent == [status |-> "none", label |-> "-", perms |-> {}]

InvitationRow == [status : {"NONE", "PENDING", "EXPIRED", "CANCELLED", "ACCEPTED"},
                  late : BOOLEAN,      \* expiresAt has passed
                  person : User, perms : SUBSET Permissions]

Demotion == [label : {"YONETICI", "-"}, seats : SUBSET Seats]

Idle == [op |-> "idle"]

(* A request about a member, with what it will write.  Of what it has read  *)
(* it keeps the seats the target held, and, when it hands the company over, *)
(* the founder to demote (otherwise from is the target).                    *)
MemberRequest == [op : MemberOperations, target : User, held : SUBSET Seats,
                  label : Labels, perms : SUBSET Permissions,
                  from : User, demoted : Demotion]
Request == {Idle} \cup MemberRequest
               \cup [op : {"accept", "resend"}, inv : Invitation]
               \cup [op : {"suspend", "unsuspend"}]

TypeOK ==
    /\ member \in [User -> Row]
    /\ owner \in User
    /\ company \in {"open", "suspended", "closed"}
    /\ tier \in Tiers
    /\ invitation \in [Invitation -> InvitationRow]
    /\ req \in [Session -> Request]
    /\ started \in Nat

----------------------------------------------------------------------------
(* Permissions, labels and seats.                                           *)

(* Both SAHIP and YONETICI preset the management permissions.               *)
PermissionsFor(label, seats) == (IF label = "-" THEN {} ELSE Management) \cup seats

LabelOf(perms, isOwner) ==
    IF isOwner THEN "SAHIP"
    ELSE IF perms \cap Management # {} THEN "YONETICI" ELSE "-"

(* An empty list falls back to the presets of the roles.                    *)
Effective(row) == IF row.perms = {} THEN PermissionsFor(row.label, {}) ELSE row.perms

SeatsOf(row) == Effective(row) \cap Seats

Live(u) == member[u].status \in {"active", "passive"}
IsActive(u) == member[u].status = "active"

(* Buying seats count, and can be given, in GOLD only.                      *)
Counting == IF tier = "GOLD" THEN Seats ELSE {"sell"}

SeatsHeld(rows) ==
    {seat \in User \X Counting :
        rows[seat[1]].status = "active" /\ seat[2] \in SeatsOf(rows[seat[1]])}

Usable(i) == invitation[i].status = "PENDING" /\ ~invitation[i].late

SeatsPending(except) ==
    {seat \in (Invitation \ except) \X Counting :
        Usable(seat[1]) /\ seat[2] \in invitation[seat[1]].perms}

SeatAvailable(rows, groups, pending) ==
    /\ "buy" \in groups => tier = "GOLD"
    /\ groups # {} =>
         Cardinality(SeatsHeld(rows)) + Cardinality(pending) + Cardinality(groups)
             <= SeatLimit[tier]

(* Who can manage the team: the founder, and whoever may manage users.      *)
Managers == {u \in User : IsActive(u) /\ (u = owner \/ "users" \in Effective(member[u]))}

(* assertNotLastAdmin, for a target that is going to carry newLabel.        *)
NotLastAdmin(target, newLabel) == newLabel # "-" \/ Managers \ {target} # {}

----------------------------------------------------------------------------
(* Who may start a request: an active member of an open company who may     *)
(* manage users (the guard reads this at the start of the request).         *)
Acts(actor) == company = "open" /\ actor \in Managers

IsAdmin(actor) == actor = owner \/ member[actor].label # "-"

(* assertCanModifyAdminTarget.                                              *)
MayModify(actor, target) ==
    (target = owner \/ member[target].label # "-") => IsAdmin(actor)

(* assertCanGrantRoles: only the founder gives a label that was not there.  *)
MayGrantLabel(actor, label, current) ==
    IsAdmin(actor) /\ (label \notin {"-", current} => actor = owner)

(* assertCanGrantPermissions: only the founder gives users:manage.          *)
MayGrant(actor, perms, current) ==
    "users" \in perms \ current => actor = owner

NoDemotion == [label |-> "YONETICI", seats |-> {}]

Change(op, target, held, label, perms) ==
    [op |-> op, target |-> target, held |-> held, label |-> label, perms |-> perms,
     from |-> target, demoted |-> NoDemotion]

StatusChange(op, target, held) == Change(op, target, held, "-", {})

(* A session takes up a request and has done its first reads.               *)
Begin(s, r) ==
    /\ r.op \in Operation
    /\ started < MaxRequest /\ req[s] = Idle
    /\ req' = [req EXCEPT ![s] = r]
    /\ started' = started + 1
    /\ UNCHANGED <<member, owner, company, tier, invitation>>

(* updateRoles and updateUser.  The founder keeps the SAHIP label whatever  *)
(* is sent; giving it to somebody else hands the company over, and the new  *)
(* founder keeps the seats held before.                                     *)
BeginRoles(s, actor, target, roles, demoted) ==
    LET label == IF target = owner THEN "SAHIP" ELSE roles.label
        handOver == label = "SAHIP" /\ target # owner
        held == SeatsOf(member[target])
        perms == PermissionsFor(label, roles.seats) \cup (IF handOver THEN held ELSE {})
    IN  /\ Acts(actor) /\ Live(target)
        /\ target = actor => actor = owner
        /\ roles.label # "-" \/ roles.seats # {}
        /\ target = owner => roles.label # "YONETICI"
        /\ MayModify(actor, target)
        /\ MayGrantLabel(actor, label, member[target].label)
        /\ handOver \/ demoted = NoDemotion
        /\ Begin(s, [Change("roles", target, held, label, perms) EXCEPT
                       !.from = IF handOver THEN owner ELSE target, !.demoted = demoted])

(* setPermissions and updatePermissions.  On the founder's own row only the *)
(* seats are written, the rest is implied.                                  *)
BeginPermissions(s, actor, target, perms) ==
    LET isOwner == target = owner
        next == IF isOwner THEN perms \cap Seats ELSE perms
    IN  /\ Acts(actor) /\ Live(target)
        /\ target = actor \/ isOwner => actor = owner
        /\ MayGrant(actor, next, Effective(member[target]))
        /\ MayModify(actor, target)
        /\ Begin(s, Change("permissions", target, SeatsOf(member[target]),
                           LabelOf(next, isOwner), next))

(* setActive and remove: nobody takes out the founder or himself.           *)
BeginTakeOut(s, actor, target, op) ==
    /\ Acts(actor) /\ Live(target) /\ target \notin {owner, actor}
    /\ MayModify(actor, target)
    /\ op \in {"deactivate", "remove"}
    /\ Begin(s, StatusChange(op, target, {}))

BeginActivate(s, actor, target) ==
    /\ Acts(actor) /\ Live(target) /\ target \notin {owner, actor}
    /\ Begin(s, StatusChange("activate", target, SeatsOf(member[target])))

(* The platform's setActive: the founder is not deactivated, and a member   *)
(* it has read as active passes no seat gate.                               *)
BeginAdminSetActive(s, target) ==
    /\ Live(target)
    /\ \/ target # owner /\ Begin(s, StatusChange("adminDeactivate", target, {}))
       \/ Begin(s, StatusChange("activate", target,
                               IF IsActive(target) THEN {} ELSE SeatsOf(member[target])))

(* ensureOwnerBuySeat, after a company has reached GOLD.                    *)
BeginOwnerBuySeat(s) ==
    /\ tier = "GOLD" /\ IsActive(owner) /\ "buy" \notin SeatsOf(member[owner])
    /\ Cardinality(SeatsHeld(member)) + 1 <= SeatLimit["GOLD"]
    /\ Begin(s, Change("ownerBuySeat", owner, {}, member[owner].label,
                       Effective(member[owner]) \cup {"buy"}))

----------------------------------------------------------------------------
Finish(s) == req' = [req EXCEPT ![s] = Idle]

SetPermissions(rows, u, label, perms) ==
    [rows EXCEPT ![u] = [@ EXCEPT !.label = label, !.perms = perms]]

(* The company as resolveOwnership leaves it.  A request that hands the     *)
(* company over demotes the founder it has READ.                            *)
HandsOver(r) == r.target # r.from

DemotedPerms(r) == PermissionsFor(r.demoted.label, r.demoted.seats)

AfterHandOver(r) ==
    IF HandsOver(r)
    THEN SetPermissions(member, r.from, r.demoted.label, DemotedPerms(r))
    ELSE member

CommitRoles(s) ==
    LET r == req[s] IN
    /\ r.op = "roles"
    /\ HandsOver(r) =>
         /\ IsActive(r.target)
         /\ SeatAvailable(member, r.demoted.seats \ SeatsOf(member[r.from]), {})
    /\ SeatAvailable(AfterHandOver(r), (r.perms \cap Seats) \ r.held, {})
    /\ NotLastAdmin(r.target, r.label)
    /\ member' = SetPermissions(AfterHandOver(r), r.target, r.label, r.perms)
    /\ owner' = IF HandsOver(r) THEN r.target ELSE owner
    /\ Finish(s)
    /\ UNCHANGED <<company, tier, invitation, started>>

CommitPermissions(s) ==
    LET r == req[s] IN
    /\ r.op = "permissions"
    /\ SeatAvailable(member, (r.perms \cap Seats) \ r.held, {})
    /\ NotLastAdmin(r.target, r.label)
    /\ member' = SetPermissions(member, r.target, r.label, r.perms)
    /\ Finish(s)
    /\ UNCHANGED <<owner, company, tier, invitation, started>>

SetStatus(u, status) ==
    member' = [member EXCEPT ![u].status = IF @ = "removed" THEN @ ELSE status]

CommitTakeOut(s) ==
    LET r == req[s] IN
    /\ r.op \in {"deactivate", "remove"}
    /\ NotLastAdmin(r.target, r.label)
    /\ SetStatus(r.target, IF r.op = "remove" THEN "removed" ELSE "passive")
    /\ Finish(s)
    /\ UNCHANGED <<owner, company, tier, invitation, started>>

(* Activation passes the seat gate for the seats it has READ.               *)
CommitActivate(s) ==
    LET r == req[s] IN
    /\ r.op = "activate"
    /\ SeatAvailable(member, r.held, {})
    /\ SetStatus(r.target, "active")
    /\ Finish(s)
    /\ UNCHANGED <<owner, company, tier, invitation, started>>

(* No lock, and no question whether anybody can still manage the team.      *)
CommitAdminDeactivate(s) ==
    /\ req[s].op = "adminDeactivate"
    /\ SetStatus(req[s].target, "passive")
    /\ Finish(s)
    /\ UNCHANGED <<owner, company, tier, invitation, started>>

CommitOwnerBuySeat(s) ==
    LET r == req[s] IN
    /\ r.op = "ownerBuySeat"
    /\ member' = SetPermissions(member, r.target, r.label, r.perms)
    /\ Finish(s)
    /\ UNCHANGED <<owner, company, tier, invitation, started>>

(* The request is refused, its transaction rolls back, or the process dies. *)
GiveUp(s) ==
    /\ req[s] # Idle
    /\ Finish(s)
    /\ UNCHANGED <<member, owner, company, tier, invitation, started>>

----------------------------------------------------------------------------
(* Invitations.                                                             *)

(* invite: everything it needs is read under the lock.                      *)
Invite(actor, i, person, perms) ==
    /\ "invite" \in Operation
    /\ Acts(actor)
    /\ MayGrant(actor, perms, {})
    /\ MayGrantLabel(actor, LabelOf(perms, FALSE), "-")
    /\ invitation[i].status = "NONE"
    /\ member[person].status = "none"
    /\ SeatAvailable(member, perms \cap Seats, SeatsPending({}))
    /\ \A j \in Invitation : invitation[j].person = person => ~Usable(j)
    /\ invitation' = [invitation EXCEPT ![i] =
           [status |-> "PENDING", late |-> FALSE, person |-> person, perms |-> perms]]
    /\ UNCHANGED <<member, owner, company, tier, req, started>>

(* expiresAt passes; whoever reads the row later marks it EXPIRED           *)
(* (listInvitations, requireUsableInvitation).                              *)
InvitationLapses(i) ==
    /\ Usable(i)
    /\ invitation' = [invitation EXCEPT ![i].late = TRUE]
    /\ UNCHANGED <<member, owner, company, tier, req, started>>

MarkExpired(i) ==
    /\ invitation[i].status = "PENDING" /\ invitation[i].late
    /\ invitation' = [invitation EXCEPT ![i].status = "EXPIRED"]
    /\ UNCHANGED <<member, owner, company, tier, req, started>>

CancelInvitation(actor, i) ==
    /\ Acts(actor) /\ invitation[i].status \in {"PENDING", "EXPIRED"}
    /\ invitation' = [invitation EXCEPT ![i].status = "CANCELLED"]
    /\ UNCHANGED <<member, owner, company, tier, req, started>>

(* resendInvitation: the gate is asked without the lock, and the write does *)
(* not ask whether the invitation is still open.                            *)
BeginResend(s, actor, i) ==
    /\ Acts(actor) /\ invitation[i].status \in {"PENDING", "EXPIRED"}
    /\ MayGrantLabel(actor, LabelOf(invitation[i].perms, FALSE), "-")
    /\ MayGrant(actor, invitation[i].perms, {})
    /\ SeatAvailable(member, invitation[i].perms \cap Seats, SeatsPending({i}))
    /\ Begin(s, [op |-> "resend", inv |-> i])

CommitResend(s) ==
    /\ req[s].op = "resend"
    /\ invitation' = [invitation EXCEPT ![req[s].inv] =
                        [@ EXCEPT !.status = "PENDING", !.late = FALSE]]
    /\ Finish(s)
    /\ UNCHANGED <<member, owner, company, tier, started>>

(* The invitation is claimed and its account opened.                        *)
Joins(s, i) ==
    LET inv == invitation[i] IN
    /\ invitation' = [invitation EXCEPT ![i].status = "ACCEPTED"]
    /\ member' = [member EXCEPT ![inv.person] =
           [status |-> "active", label |-> LabelOf(inv.perms, FALSE), perms |-> inv.perms]]
    /\ Finish(s)
    /\ UNCHANGED <<owner, company, tier, started>>

(* acceptInvitation up to the account at the identity provider, and the     *)
(* transaction that follows.                                                *)
BeginAccept(s, i) ==
    /\ Usable(i) /\ company = "open" /\ ~Live(invitation[i].person)
    /\ Begin(s, [op |-> "accept", inv |-> i])

(* Faulty variants: the company, or its seats, are not looked at again.     *)
AcceptIntoAnyCompany(s) ==
    LET i == req[s].inv IN
    /\ req[s].op = "accept"
    /\ SeatAvailable(member, invitation[i].perms \cap Seats, {})
    /\ invitation[i].status = "PENDING" /\ member[invitation[i].person].status = "none"
    /\ Joins(s, i)

AcceptWithoutSeat(s) ==
    LET i == req[s].inv IN
    /\ req[s].op = "accept" /\ company = "open"
    /\ invitation[i].status = "PENDING" /\ member[invitation[i].person].status = "none"
    /\ Joins(s, i)

CommitAccept(s) ==
    LET i == req[s].inv IN
    /\ req[s].op = "accept"
    /\ company = "open"
    /\ SeatAvailable(member, invitation[i].perms \cap Seats, {})
    /\ invitation[i].status = "PENDING"
    /\ member[invitation[i].person].status = "none"
    /\ Joins(s, i)

----------------------------------------------------------------------------
(* Operations that read everything under the lock.                          *)

(* applySeatSelection: the founder keeps the seats in keep; whoever loses a *)
(* seat loses the permissions of its group and nothing else.                *)
SelectSeats(keep) ==
    LET after(u) ==
            LET perms == Effective(member[u]) \ {g \in Counting : <<u, g>> \notin keep}
            IN  [member[u] EXCEPT
                   !.perms = IF u = owner THEN perms \cap Seats ELSE perms,
                   !.label = LabelOf(perms, u = owner)]
        loses(u) == \E g \in Counting : <<u, g>> \in SeatsHeld(member) \ keep
    IN  /\ "select" \in Operation
        /\ Acts(owner)
        /\ keep \subseteq SeatsHeld(member) /\ Cardinality(keep) <= SeatLimit[tier]
        /\ member' = [u \in User |-> IF loses(u) THEN after(u) ELSE member[u]]
        /\ UNCHANGED <<owner, company, tier, invitation, req, started>>

Others(u) == {v \in User \ {u} : Live(v)}

(* Faulty variant: a deactivated manager counts as one who is left behind.  *)
EraseCountingPassive(u) ==
    LET closes == Others(u) = {}
    IN  /\ Live(u)
        /\ closes => company # "suspended"
        /\ ~closes => /\ u # owner
                      /\ \E v \in Others(u) :
                            v = owner \/ "users" \in member[v].perms
        /\ member' = [member EXCEPT ![u].status = "removed"]
        /\ company' = IF closes THEN "closed" ELSE company
        /\ invitation' = [i \in Invitation |->
               IF closes /\ invitation[i].status = "PENDING"
               THEN [invitation[i] EXCEPT !.status = "CANCELLED"]
               ELSE invitation[i]]
        /\ UNCHANGED <<owner, tier, req, started>>

(* eraseLiveAccount: the last member closes the company, the founder has to *)
(* hand over first, anybody else has to leave a manager behind.  That no    *)
(* order is open and no listing live when the company closes is left out.   *)
EraseAccount(u) ==
    LET closes == Others(u) = {}
    IN  /\ Live(u)
        /\ closes => company # "suspended"
        /\ ~closes => /\ u # owner
                      /\ \E v \in Others(u) :
                            IsActive(v) /\ (v = owner \/ "users" \in member[v].perms)
        /\ member' = [member EXCEPT ![u].status = "removed"]
        /\ company' = IF closes THEN "closed" ELSE company
        /\ invitation' = [i \in Invitation |->
               IF closes /\ invitation[i].status = "PENDING"
               THEN [invitation[i] EXCEPT !.status = "CANCELLED"]
               ELSE invitation[i]]
        /\ UNCHANGED <<owner, tier, req, started>>

DeleteOwnAccount(u) ==
    /\ "delete" \in Operation
    /\ IsActive(u) /\ company = "open" /\ EraseAccount(u)

(* eraseByAdmin: only for somebody who cannot sign in.                      *)
EraseByAdmin(u) ==
    /\ "delete" \in Operation
    /\ ~IsActive(u) \/ company # "open"
    /\ EraseAccount(u)

(* addUser: its checks are repeated under the lock.                         *)
AddUser(u, roles) ==
    LET perms == PermissionsFor(roles.label, roles.seats) IN
    /\ "add" \in Operation
    /\ roles.label # "SAHIP" /\ (roles.label = "-" \/ roles.seats = {})
    /\ company # "closed" /\ member[u].status = "none"
    /\ SeatAvailable(member, roles.seats, SeatsPending({}))
    /\ member' = [member EXCEPT ![u] = [status |-> "active", label |-> roles.label,
                                        perms |-> perms]]
    /\ UNCHANGED <<owner, company, tier, invitation, req, started>>

(* suspend and unsuspend ask whether the company is closed, then write.     *)
BeginSuspension(s, op) ==
    /\ company # "closed" /\ op \in {"suspend", "unsuspend"}
    /\ Begin(s, [op |-> op])

(* Faulty variant: the name of the operation is written.                    *)
SuspensionByName(s) ==
    /\ req[s].op \in {"suspend", "unsuspend"}
    /\ company' = req[s].op
    /\ Finish(s)
    /\ UNCHANGED <<member, owner, tier, invitation, started>>

CommitSuspension(s) ==
    /\ req[s].op \in {"suspend", "unsuspend"}
    /\ company' = IF req[s].op = "suspend" THEN "suspended" ELSE "open"
    /\ Finish(s)
    /\ UNCHANGED <<member, owner, tier, invitation, started>>

(* Verification is gained or lost, or membership ends.                      *)
ChangeTier ==
    /\ "tier" \in Operation
    /\ tier' \in Tiers \ {tier}
    /\ UNCHANGED <<member, owner, company, invitation, req, started>>

----------------------------------------------------------------------------
Init ==
    /\ member = [u \in User |->
           IF u = Founder THEN [status |-> "active", label |-> "SAHIP",
                                perms |-> PermissionsFor("SAHIP", {"sell"})]
           ELSE IF u \in DOMAIN Team THEN [status |-> "active", label |-> LabelOf(Team[u], FALSE),
                                           perms |-> Team[u]]
           ELSE Absent]
    /\ owner = Founder
    /\ company = "open"
    /\ tier \in Tiers
    /\ Cardinality(SeatsHeld(member)) <= SeatLimit[tier]
    /\ invitation = [i \in Invitation |->
                       [status |-> "NONE", late |-> FALSE, person |-> Founder, perms |-> {}]]
    /\ req = [s \in Session |-> Idle]
    /\ started = 0

BeginMemberRequest(s) ==
    /\ req[s] = Idle /\ started < MaxRequest
    /\ \/ \E actor, target \in User :
            \/ /\ "roles" \in Operation
               /\ \E roles \in RoleSet, to \in {r \in RoleSet : r.label # "SAHIP"} \cup {NoDemotion} :
                     BeginRoles(s, actor, target, roles, to)
            \/ \E perms \in PermissionSet : BeginPermissions(s, actor, target, perms)
            \/ \E op \in MemberOperations : BeginTakeOut(s, actor, target, op)
            \/ BeginActivate(s, actor, target)
       \/ \E target \in User : BeginAdminSetActive(s, target)
       \/ BeginOwnerBuySeat(s)

CommitMemberRequest(s) ==
    \/ CommitRoles(s) \/ CommitPermissions(s) \/ CommitTakeOut(s) \/ CommitActivate(s)
    \/ CommitAdminDeactivate(s) \/ CommitOwnerBuySeat(s)

InvitationStep ==
    \E i \in Invitation :
      \/ \E actor, person \in User, perms \in PermissionSet : Invite(actor, i, person, perms)
      \/ InvitationLapses(i)
      \/ MarkExpired(i)
      \/ \E actor \in User : CancelInvitation(actor, i)
      \/ \E s \in Session, actor \in User : BeginResend(s, actor, i)
      \/ \E s \in Session : BeginAccept(s, i)

CompanyStep ==
    \/ \E keep \in SUBSET SeatsHeld(member) : SelectSeats(keep)
    \/ \E u \in User : DeleteOwnAccount(u) \/ EraseByAdmin(u)
    \/ \E u \in User, roles \in RoleSet : AddUser(u, roles)
    \/ \E s \in Session, op \in Operations : BeginSuspension(s, op)
    \/ ChangeTier

Next ==
    \/ InvitationStep
    \/ CompanyStep
    \/ \E s \in Session :
         \/ BeginMemberRequest(s) \/ CommitMemberRequest(s)
         \/ CommitResend(s) \/ CommitAccept(s) \/ CommitSuspension(s)
         \/ GiveUp(s)

Spec == Init /\ [][Next]_vars
----------------------------------------------------------------------------
(* A company that its last member has closed waits for the erasure of its   *)
(* data: nobody is, or gets, into it (acceptInvitation and addUser ask      *)
(* again under the lock).                                                   *)
ClosedIsEmpty == company = "closed" => \A u \in User : ~Live(u)

(* The claim of an invitation and the account it opens are one transaction: *)
(* an accepted invitation has opened an account.                            *)
AcceptedHasAccount ==
    \A i \in Invitation :
        invitation[i].status = "ACCEPTED" => member[invitation[i].person].status # "none"

(* Whoever leaves the team for good, removed by a colleague, at his own     *)
(* request or by the platform, leaves somebody who can manage it, whatever  *)
(* hand-overs and demotions were in flight - or the company is closed.      *)
LeavingKeepsAManager ==
    [][\A u \in User :
         Live(u) /\ member'[u].status = "removed" =>
             Managers' # {} \/ company' = "closed"]_vars

(* Nobody joins with a seat the tier has no room for, however many joined   *)
(* since the invitation was sent or opened.                                 *)
JoinsFitTheSeats ==
    [][\A u \in User :
         /\ member[u].status = "none" /\ member'[u].status = "active"
         /\ SeatsOf(member'[u]) \cap Counting # {}
         => Cardinality(SeatsHeld(member')) <= SeatLimit[tier]]_vars

(* "At least one active manager must remain in the company"                 *)
(* (assertNotLastAdmin).  The code does not keep it: see the README.        *)
SomeoneManages == (\E u \in User : Live(u)) => Managers # {}
=============================================================================
