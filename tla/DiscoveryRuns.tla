--------------------------- MODULE DiscoveryRuns ---------------------------
(****************************************************************************)
(* The automatic supplier search of one public request, and the            *)
(* announcement that waits for it: discovery-runs.service.ts together with  *)
(* holdForDiscovery, announceListingOpen and inviteDiscoveredMembers of     *)
(* company-listings.service.ts and the announcement cron of the listing     *)
(* scheduler.  A run searches, stores its candidates, invites them for the  *)
(* buyer and ends; the anonymous announcement to everybody in the category  *)
(* waits until it has, so that a supplier gets one letter about the request *)
(* and not two.  Members of the service are the candidates; an address      *)
(* found in the web takes the same path with a row of ExternalInvites in    *)
(* the place of the invitation.                                             *)
(****************************************************************************)
EXTENDS Naturals, FiniteSets

CONSTANTS
    Company,    \* suppliers the request matches
    Worker,     \* ticks of the minute job that may run together
    Caller,     \* executions of announceListingOpen that may run together
    Cron,       \* the one of the announcement cron, which makes them one by one
    MaxRun,     \* bound: runs of the request
    MaxCrash    \* bound: processes that stop

ASSUME DiscoveryAssumption ==
    /\ Cron \in Caller
    /\ MaxRun \in Nat \ {0}
    /\ MaxCrash \in Nat

VARIABLES
    listing,    \* the request: status, the box aiDiscovery, openNotifiedAt
    run,        \* runs in the order of their creation
    cand,       \* the candidates of each run
    invitation, \* listing_invitations: who invited, and how many runs there were
    notice,     \* the letter of an invitation, from its background task to its end
    letters,    \* letters the service sent a company of its own accord
    call,       \* executions of announceListingOpen
    work,       \* ticks of the minute job
    crashes,    \* processes that have stopped
    slip        \* what has cut the waiting short: the ten minutes, the buyer

vars == <<listing, run, cand, invitation, notice, letters, call, work, crashes, slip>>

Run == 1..MaxRun
Active == {"PENDING", "RUNNING"}

NoRun == [state |-> "NONE", trigger |-> "PUBLISH", off |-> FALSE,
          stale |-> FALSE, age |-> "new", told |-> FALSE]
Idle == [pc |-> "idle", run |-> 0, todo |-> {}]
NoCall == [pc |-> "idle", to |-> {}]

TypeOK ==
    /\ listing \in [status : {"DRAFT", "OPEN", "CLOSED"}, box : BOOLEAN, announced : BOOLEAN]
    /\ run \in [Run -> [state : {"NONE", "PENDING", "RUNNING", "DONE", "FAILED"},
                        trigger : {"PUBLISH", "SECOND_ROUND"}, off : BOOLEAN,
                        stale : BOOLEAN, age : {"new", "held", "old"}, told : BOOLEAN]]
    /\ cand \in [Run -> [Company -> {"-", "MEMBER", "INVITED", "ALREADY_INVITED", "NOT_ALLOWED"}]]
    /\ invitation \in [Company -> [by : {"-", "buyer", "run"}, after : 0..MaxRun]]
    /\ notice \in [Company -> {"-", "due", "sending", "done"}]
    /\ letters \in [Company -> Nat]
    /\ call \in [Caller -> [pc : {"idle", "hold", "wait", "claim", "targets",
                                  "after", "send", "edited"},
                            to : SUBSET Company]]
    /\ work \in [Worker -> [pc : {"idle", "search", "read", "refused", "invite", "mark",
                                  "finish", "closing", "PUBLISH", "SECOND_ROUND"},
                            run : 0..MaxRun, todo : SUBSET Company]]
    /\ crashes \in 0..MaxCrash
    /\ slip \subseteq {"hold", "switch"}

Init ==
    /\ listing \in [status : {"DRAFT"}, box : BOOLEAN, announced : {FALSE}]
    /\ run = [r \in Run |-> NoRun]
    /\ cand = [r \in Run |-> [c \in Company |-> "-"]]
    /\ invitation = [c \in Company |-> [by |-> "-", after |-> 0]]
    /\ notice = [c \in Company |-> "-"]
    /\ letters = [c \in Company |-> 0]
    /\ call = [k \in Caller |-> NoCall]
    /\ work = [i \in Worker |-> Idle]
    /\ crashes = 0
    /\ slip = {}

----------------------------------------------------------------------------
(* Reading the tables.                                                      *)

Existing == {r \in Run : run[r].state # "NONE"}
Counted  == {r \in Existing : ~run[r].off}           \* isCountedAutoRun
Running  == {r \in Existing : run[r].state \in Active}
Awaited == {r \in Counted : run[r].state \in Active /\ \A q \in Counted : q <= r}
Found(r) == {c \in Company : cand[r][c] # "-"}
Pending(r) == {c \in Company : cand[r][c] = "MEMBER"}
Invited == {c \in Company : invitation[c].by # "-"}

(* autoInvite: the invitation is of this run's making and no older than it. *)
Mine(r, c) == invitation[c].by = "run" /\ invitation[c].after >= r

(* A run is written as the next row; the model ends at MaxRun.              *)
Room == Cardinality(Existing) < MaxRun
Create(trigger) ==
    run' = [r \in Run |-> IF r = Cardinality(Existing) + 1
                           THEN [NoRun EXCEPT !.state = "PENDING", !.trigger = trigger]
                           ELSE run[r]]

(* enqueueDiscoveryRun, under the lock of the listing row.                  *)
EnqueueFirst ==
    IF listing.box /\ Counted = {} THEN Create("PUBLISH") ELSE UNCHANGED run

(* Starts announceListingOpen, which nobody awaits.                         *)
Announce(k) ==
    /\ call[k].pc = "idle"
    /\ call' = [call EXCEPT ![k].pc = "hold"]

(* notifyListingInvitees: a task for every invitation of a run whose letter *)
(* nobody has claimed yet.                                                  *)
NotifyInvitees ==
    notice' = [c \in Company |->
                 IF invitation[c].by = "run" /\ notice[c] = "-" THEN "due" ELSE notice[c]]

----------------------------------------------------------------------------
(* The buyer.                                                               *)

Publish(k) ==
    /\ k # Cron
    /\ listing.status = "DRAFT"
    /\ listing' = [listing EXCEPT !.status = "OPEN"]
    /\ Announce(k)
    /\ UNCHANGED <<run, cand, invitation, notice, letters, work, crashes, slip>>

(* updateListing switches the box; afterwards it announces, or, when it had *)
(* read that the request was announced, sees to the run itself.             *)
SwitchBox(k) ==
    /\ k # Cron
    /\ listing.status = "OPEN"
    /\ Room
    /\ listing' = [listing EXCEPT !.box = ~@]
    /\ call[k].pc = "idle"
    /\ \E announced \in {FALSE, listing.announced} :
          call' = [call EXCEPT ![k].pc = IF announced THEN "edited" ELSE "hold"]
    /\ slip' = slip \cup {"switch"}
    /\ UNCHANGED <<run, cand, invitation, notice, letters, work, crashes>>

(* addInvitations, with a letter of its own that the buyer caused.          *)
BuyerInvites(c) ==
    /\ listing.status = "OPEN"
    /\ c \notin Invited
    /\ invitation' = [invitation EXCEPT ![c] = [by |-> "buyer", after |-> Cardinality(Existing)]]
    /\ notice' = [notice EXCEPT ![c] = "done"]
    /\ UNCHANGED <<listing, run, cand, letters, call, work, crashes, slip>>

(* Closing time, cancellation or award.                                     *)
Close ==
    /\ listing.status = "OPEN"
    /\ listing' = [listing EXCEPT !.status = "CLOSED"]
    /\ UNCHANGED <<run, cand, invitation, notice, letters, call, work, crashes, slip>>

----------------------------------------------------------------------------
(* announceListingOpen.                                                     *)

At(k, pc) == call[k].pc = pc
GoOn(k, pc) == call' = [call EXCEPT ![k].pc = pc]
Return(k) == call' = [call EXCEPT ![k] = NoCall]

(* doAnnounceOpened: the cron looks every minute for requests that are held.*)
Held == listing.status = "OPEN" /\ ~listing.announced /\ Existing # {}
CronAnnounce ==
    /\ Held
    /\ Announce(Cron)
    /\ UNCHANGED <<listing, run, cand, invitation, notice, letters, work, crashes, slip>>

(* holdForDiscovery: nothing to wait for; a run is asked for, which is the  *)
(* first step of the announcement; or there is one already.                 *)
Hold(k) ==
    /\ At(k, "hold")
    /\ LET wanted == listing.status = "OPEN" /\ ~listing.announced /\ listing.box
       IN \/ ~wanted /\ GoOn(k, "claim") /\ UNCHANGED <<run, notice>>
          \/ wanted /\ Counted = {} /\ Create("PUBLISH") /\ Return(k) /\ NotifyInvitees
          \/ wanted /\ Counted # {} /\ GoOn(k, "wait") /\ UNCHANGED <<run, notice>>
    /\ UNCHANGED <<listing, cand, invitation, letters, work, crashes, slip>>

(* The latest run is waited for while it is active and younger than ten     *)
(* minutes.                                                                 *)
HoldWait(k) ==
    /\ At(k, "wait")
    /\ \/ /\ \E r \in Awaited : run[r].age = "new"
          /\ Return(k) /\ NotifyInvitees
          /\ UNCHANGED slip
       \/ /\ \A r \in Awaited : run[r].age # "new"
          /\ GoOn(k, "claim")
          /\ slip' = IF Awaited # {} THEN slip \cup {"hold"} ELSE slip
          /\ UNCHANGED notice
    /\ UNCHANGED <<listing, run, cand, invitation, letters, work, crashes>>

(* The stamp openNotifiedAt, conditional on its absence.                    *)
ClaimAnnouncement(k) ==
    /\ At(k, "claim")
    /\ IF listing.status = "OPEN" /\ ~listing.announced
       THEN listing' = [listing EXCEPT !.announced = TRUE] /\ GoOn(k, "targets")
       ELSE UNCHANGED listing /\ Return(k)
    /\ UNCHANGED <<run, cand, invitation, notice, letters, work, crashes, slip>>

(* Invited companies get their own notice, the others the announcement.     *)
ReadTargets(k) ==
    /\ At(k, "targets")
    /\ call' = [call EXCEPT ![k] = [pc |-> "after", to |-> Company \ Invited]]
    /\ NotifyInvitees
    /\ UNCHANGED <<listing, run, cand, invitation, letters, work, crashes, slip>>

EnqueueAfter(k) ==
    /\ At(k, "after")
    /\ EnqueueFirst
    /\ GoOn(k, "send")
    /\ UNCHANGED <<listing, cand, invitation, notice, letters, work, crashes, slip>>

(* notifyCategoryMatchedCompanies, after the translation has come.          *)
SendAnnouncement(k) ==
    /\ At(k, "send")
    /\ letters' = [c \in Company |-> IF c \in call[k].to THEN letters[c] + 1 ELSE letters[c]]
    /\ Return(k)
    /\ UNCHANGED <<listing, run, cand, invitation, notice, work, crashes, slip>>

EnqueueAfterEdit(k) ==
    /\ At(k, "edited")
    /\ IF listing.status = "OPEN" THEN EnqueueFirst ELSE UNCHANGED run
    /\ Return(k)
    /\ UNCHANGED <<listing, cand, invitation, notice, letters, work, crashes, slip>>

CallStep(k) ==
    \/ Hold(k) \/ HoldWait(k) \/ ClaimAnnouncement(k)
    \/ ReadTargets(k) \/ EnqueueAfter(k) \/ SendAnnouncement(k) \/ EnqueueAfterEdit(k)

----------------------------------------------------------------------------
(* notifyAiMemberInvites, a task in the background.                         *)

(* Faulty variant: nobody asks who has had a letter about this request.     *)
ClaimNoticeUnseen(c) ==
    /\ notice[c] = "due"
    /\ notice' = [notice EXCEPT ![c] = "sending"]
    /\ UNCHANGED <<listing, run, cand, invitation, letters, call, work, crashes, slip>>

(* The right to notify is claimed once per invitation; who has had a letter *)
(* about this request gets no second.                                       *)
ClaimNotice(c) ==
    /\ notice[c] = "due"
    /\ notice' = [notice EXCEPT ![c] = IF letters[c] > 0 THEN "done" ELSE "sending"]
    /\ UNCHANGED <<listing, run, cand, invitation, letters, call, work, crashes, slip>>

SendNotice(c) ==
    /\ notice[c] = "sending"
    /\ notice' = [notice EXCEPT ![c] = "done"]
    /\ letters' = [letters EXCEPT ![c] = @ + 1]
    /\ UNCHANGED <<listing, run, cand, invitation, call, work, crashes, slip>>

----------------------------------------------------------------------------
(* The minute job (tick), one step of which a worker takes at a time.       *)

Doing(i, pc) == work[i].pc = pc
Proceed(i, pc) == work' = [work EXCEPT ![i].pc = pc]
Rest(i) == work' = [work EXCEPT ![i] = Idle]

(* The end of a run, by whoever finds it RUNNING.                           *)
FailIfRunning(r, off) ==
    run' = [run EXCEPT ![r] = IF @.state = "RUNNING"
                              THEN [@ EXCEPT !.state = "FAILED", !.off = off] ELSE @]

(* runOnce: the run is claimed by its state.  A request that is not open,   *)
(* or not to be searched for any more, ends it; otherwise the search begins *)
(* and will find companies no other run has found.                          *)
ClaimRun(i, r) ==
    /\ Doing(i, "idle")
    /\ run[r].state = "PENDING"
    /\ \/ /\ listing.status # "OPEN"
          /\ run' = [run EXCEPT ![r].state = "FAILED"]
          /\ UNCHANGED work
       \/ /\ listing.status = "OPEN" /\ ~listing.box
          /\ run' = [run EXCEPT ![r].state = "FAILED", ![r].off = TRUE]
          /\ work' = [work EXCEPT ![i] = [pc |-> "closing", run |-> r, todo |-> {}]]
       \/ /\ listing.status = "OPEN" /\ listing.box
          /\ run' = [run EXCEPT ![r].state = "RUNNING"]
          /\ \E found \in SUBSET (Company \ UNION {Found(q) : q \in Run \ {r}}) :
                work' = [work EXCEPT ![i] = [pc |-> "search", run |-> r, todo |-> found]]
    /\ UNCHANGED <<listing, cand, invitation, notice, letters, call, crashes, slip>>

(* Nothing was found, or the search failed.                                 *)
SearchInVain(i) ==
    /\ Doing(i, "search")
    /\ LET r == work[i].run
       IN IF run[r].state = "RUNNING"
          THEN /\ \/ FailIfRunning(r, FALSE)
                  \/ work[i].todo = {} /\ run' = [run EXCEPT ![r].state = "DONE"]
               /\ work' = [work EXCEPT ![i].pc = "closing", ![i].todo = {}]
          ELSE UNCHANGED run /\ Rest(i)
    /\ UNCHANGED <<listing, cand, invitation, notice, letters, call, crashes, slip>>

(* The candidates are stored before anybody is invited; the search may have *)
(* looked at the invitations before the latest was made.                    *)
StoreCandidates(i) ==
    /\ Doing(i, "search")
    /\ work[i].todo # {}
    /\ \E known \in SUBSET (work[i].todo \cap Invited) :
          cand' = [cand EXCEPT ![work[i].run] =
                     [c \in Company |-> IF c \in known THEN "ALREADY_INVITED"
                                         ELSE IF c \in work[i].todo THEN "MEMBER" ELSE @[c]]]
    /\ work' = [work EXCEPT ![i].pc = "read", ![i].todo = {}]
    /\ UNCHANGED <<listing, run, invitation, notice, letters, call, crashes, slip>>

(* inviteAndFinish, autoInvite: the candidates nobody has dealt with, and   *)
(* whether the request still wants them invited.                            *)
ReadCandidates(i) ==
    /\ Doing(i, "read")
    /\ work' = [work EXCEPT
                  ![i].todo = Pending(work[i].run),
                  ![i].pc = IF Pending(work[i].run) = {} THEN "finish"
                            ELSE IF listing.status = "OPEN" /\ listing.box THEN "invite"
                            ELSE "refused"]
    /\ UNCHANGED <<listing, run, cand, invitation, notice, letters, call, crashes, slip>>

(* inviteDiscoveredMembers tests the request again, and starts the letters. *)
InviteMembers(i) ==
    /\ Doing(i, "invite")
    /\ IF listing.status = "OPEN"
       THEN LET new == work[i].todo \ Invited
            IN  /\ invitation' = [c \in Company |->
                       IF c \in new THEN [by |-> "run", after |-> Cardinality(Existing)]
                       ELSE invitation[c]]
                /\ notice' = [c \in Company |-> IF c \in new THEN "due" ELSE notice[c]]
                /\ Proceed(i, "mark")
       ELSE UNCHANGED <<invitation, notice>> /\ Proceed(i, "refused")
    /\ UNCHANGED <<listing, run, cand, letters, call, crashes, slip>>

(* mark, by the ids read before.                                            *)
Mark(i, result) ==
    /\ cand' = [cand EXCEPT ![work[i].run] =
                  [c \in Company |-> IF c \in work[i].todo THEN result[c] ELSE @[c]]]
    /\ work' = [work EXCEPT ![i].pc = "finish", ![i].todo = {}]
    /\ UNCHANGED <<listing, run, invitation, notice, letters, call, crashes, slip>>

(* An invitation that was there already is of this run's making when an     *)
(* earlier attempt was cut short.                                           *)
MarkInvited(i) ==
    /\ Doing(i, "mark")
    /\ Mark(i, [c \in Company |-> IF Mine(work[i].run, c) THEN "INVITED" ELSE "ALREADY_INVITED"])

MarkRefused(i) ==
    /\ Doing(i, "refused")
    /\ Mark(i, [c \in Company |-> "NOT_ALLOWED"])

(* Faulty variant: the name of the candidates' state for the run's.         *)
FinishAsInvited(i) ==
    /\ Doing(i, "finish")
    /\ run' = [run EXCEPT ![work[i].run].state = "INVITED"]
    /\ Proceed(i, "closing")
    /\ UNCHANGED <<listing, cand, invitation, notice, letters, call, crashes, slip>>

(* invitedCounts; then DONE and the stamp of the message in one statement:  *)
(* told is that stamp (notifiedAt).  The message itself follows the commit  *)
(* and is not sent again when the process stops before it.                  *)
FinishRun(i) ==
    /\ Doing(i, "finish")
    /\ LET r == work[i].run
       IN IF run[r].state = "RUNNING"
          THEN /\ run' = [run EXCEPT ![r].state = "DONE",
                              ![r].told = \E c \in Company : cand[r][c] = "INVITED"]
               /\ Proceed(i, "closing")
          ELSE UNCHANGED run /\ Rest(i)
    /\ UNCHANGED <<listing, cand, invitation, notice, letters, call, crashes, slip>>

(* closingNotices, releaseHeldAnnouncement.                                 *)
ClosingNotices(i, k) ==
    /\ Doing(i, "closing")
    /\ IF listing.status = "OPEN" /\ ~listing.announced THEN Announce(k) ELSE UNCHANGED call
    /\ Rest(i)
    /\ UNCHANGED <<listing, run, cand, invitation, notice, letters, crashes, slip>>

(* recoverStuckRuns: a run whose lease is over is resumed when it has       *)
(* candidates and is young enough, and else given up.                       *)
Stuck(r) == run[r].state = "RUNNING" /\ run[r].stale
Resumable(r) == run[r].age # "old" /\ Found(r) # {}

(* Faulty variant: only old runs are given up.                              *)
SweepOldRun(i, r) ==
    /\ Doing(i, "idle")
    /\ Stuck(r) /\ run[r].age = "old" /\ Found(r) # {}
    /\ FailIfRunning(r, FALSE)
    /\ work' = [work EXCEPT ![i] = [pc |-> "closing", run |-> r, todo |-> {}]]
    /\ UNCHANGED <<listing, cand, invitation, notice, letters, call, crashes, slip>>

SweepRun(i, r) ==
    /\ Doing(i, "idle")
    /\ Stuck(r) /\ ~Resumable(r)
    /\ FailIfRunning(r, FALSE)
    /\ work' = [work EXCEPT ![i] = [pc |-> "closing", run |-> r, todo |-> {}]]
    /\ UNCHANGED <<listing, cand, invitation, notice, letters, call, crashes, slip>>

(* Faulty variant: the rest of the candidates is forgotten.                 *)
ResumeAtTheEnd(i, r) ==
    /\ Doing(i, "idle")
    /\ Stuck(r) /\ Resumable(r)
    /\ run' = [run EXCEPT ![r].stale = FALSE]
    /\ work' = [work EXCEPT ![i] = [pc |-> "finish", run |-> r, todo |-> {}]]
    /\ UNCHANGED <<listing, cand, invitation, notice, letters, call, crashes, slip>>

ResumeRun(i, r) ==
    /\ Doing(i, "idle")
    /\ Stuck(r) /\ Resumable(r)
    /\ run' = [run EXCEPT ![r].stale = FALSE]
    /\ work' = [work EXCEPT ![i] = [pc |-> "read", run |-> r, todo |-> {}]]
    /\ UNCHANGED <<listing, cand, invitation, notice, letters, call, crashes, slip>>

(* catchUpPublishRuns and scheduleSecondRounds look for requests first and  *)
(* enqueue afterwards.  The one waits two minutes after the announcement,   *)
(* the other for half of the request's time: letters are out by then.       *)
Quiet ==
    /\ listing.announced
    /\ \A k \in Caller : At(k, "idle")
    /\ \A c \in Company : notice[c] \in {"-", "done"}

CatchUpRead(i) ==
    /\ Doing(i, "idle")
    /\ listing.status = "OPEN" /\ listing.box /\ Quiet
    /\ Counted = {}
    /\ Proceed(i, "PUBLISH")
    /\ UNCHANGED <<listing, run, cand, invitation, notice, letters, call, crashes, slip>>

SecondRoundRead(i) ==
    /\ Doing(i, "idle")
    /\ listing.status = "OPEN" /\ listing.box /\ Quiet
    /\ \E r \in Counted : run[r].trigger = "PUBLISH"
    /\ \A r \in Counted : run[r].trigger # "SECOND_ROUND"
    /\ Running = {}
    /\ \A r \in Existing : run[r].trigger = "PUBLISH" => Pending(r) = {}
    /\ Proceed(i, "SECOND_ROUND")
    /\ UNCHANGED <<listing, run, cand, invitation, notice, letters, call, crashes, slip>>

Enqueue(i) ==
    /\ work[i].pc \in {"PUBLISH", "SECOND_ROUND"}
    /\ IF Running = {} /\ Room THEN Create(work[i].pc) ELSE UNCHANGED run
    /\ Rest(i)
    /\ UNCHANGED <<listing, cand, invitation, notice, letters, call, crashes, slip>>

PickUp(i) == \E r \in Run : ClaimRun(i, r) \/ SweepRun(i, r) \/ ResumeRun(i, r)
WorkStep(i) ==
    \/ SearchInVain(i) \/ StoreCandidates(i) \/ ReadCandidates(i)
    \/ InviteMembers(i) \/ MarkInvited(i) \/ MarkRefused(i)
    \/ FinishRun(i) \/ Enqueue(i)
    \/ \E k \in Caller : ClosingNotices(i, k)

----------------------------------------------------------------------------
(* Time, and processes that stop.                                           *)

(* A quarter of an hour since the run was claimed or resumed.  A tick ends  *)
(* its searches in eight minutes, so nobody works on the run any more.      *)
LeaseExpires(r) ==
    /\ run[r].state = "RUNNING" /\ ~run[r].stale
    /\ \A i \in Worker : work[i].run # r
    /\ run' = [run EXCEPT ![r].stale = TRUE]
    /\ UNCHANGED <<listing, cand, invitation, notice, letters, call, work, crashes, slip>>

(* Ten minutes, and six hours, since it was asked for.                      *)
RunAges(r) ==
    /\ \/ /\ run[r].state \in Active /\ run[r].age = "new"
          /\ run' = [run EXCEPT ![r].age = "held"]
       \/ /\ run[r].state = "RUNNING" /\ run[r].age = "held"
          /\ run' = [run EXCEPT ![r].age = "old"]
    /\ UNCHANGED <<listing, cand, invitation, notice, letters, call, work, crashes, slip>>

Crash ==
    /\ crashes < MaxCrash
    /\ crashes' = crashes + 1
    /\ \/ \E i \in Worker : ~Doing(i, "idle") /\ Rest(i) /\ UNCHANGED <<call, notice>>
       \/ \E k \in Caller : ~At(k, "idle") /\ Return(k) /\ UNCHANGED <<work, notice>>
       \/ \E c \in Company :
             /\ notice[c] \in {"due", "sending"}
             /\ notice' = [notice EXCEPT ![c] = IF @ = "due" THEN "-" ELSE "done"]
             /\ UNCHANGED <<work, call>>
    /\ UNCHANGED <<listing, run, cand, invitation, letters, slip>>

----------------------------------------------------------------------------
Next ==
    \/ \E k \in Caller : Publish(k) \/ SwitchBox(k) \/ CallStep(k)
    \/ CronAnnounce
    \/ \E c \in Company : BuyerInvites(c) \/ ClaimNotice(c) \/ SendNotice(c)
    \/ Close
    \/ \E i \in Worker : PickUp(i) \/ CatchUpRead(i) \/ SecondRoundRead(i) \/ WorkStep(i)
    \/ \E r \in Run : LeaseExpires(r) \/ RunAges(r)
    \/ Crash

Spec == Init /\ [][Next]_vars

(* Both jobs run every minute, time passes, and a step that is begun goes   *)
(* on unless its process stops, which happens finitely often.  The cron's   *)
(* turn may be taken by another call again and again (strong fairness).     *)
Fairness ==
    /\ WF_vars(\E r \in Run : LeaseExpires(r) \/ RunAges(r))
    /\ WF_vars(\E i \in Worker : WorkStep(i) \/ PickUp(i))
    /\ WF_vars(\E k \in Caller : CallStep(k))
    /\ SF_vars(CronAnnounce)
FairSpec == Spec /\ Fairness

----------------------------------------------------------------------------
(* holdForDiscovery, claimInvitationNotices, notifyAiMemberInvites: a       *)
(* company gets one letter about a request, the invitation or the           *)
(* announcement - at most both, when the announcement could not wait for    *)
(* the run or the buyer switched the search on or off meanwhile.            *)
OneLetterEach ==
    \A c \in Company : letters[c] <= IF slip = {} THEN 1 ELSE 2

(* inviteAndFinish: when a run is done every candidate has its result; one  *)
(* the run has invited - in an attempt that was cut short too - is shown as *)
(* invited, and the run is stamped for a message to the buyer if and only   *)
(* if somebody was.                                                         *)
ResultsAreTrue ==
    \A r \in Run : run[r].state = "DONE" /\ "switch" \notin slip =>
        /\ Pending(r) = {}
        /\ listing.status = "OPEN" =>
              /\ \A c \in Found(r) : Mine(r, c) => cand[r][c] = "INVITED"
              /\ run[r].told <=> \E c \in Company : cand[r][c] = "INVITED"

(* recoverStuckRuns, doAnnounceOpened: a run comes to an end and a held     *)
(* announcement is made, or its request is not open any more, whatever      *)
(* process stops in between.                                                *)
Waiting == Held \/ Running # {}
NothingWaitsForever == Waiting ~> ~Waiting
=============================================================================
