--------------------------- MODULE ExternalInvites ---------------------------
(***************************************************************************)
(* Invitations by e-mail to an address without an account: one buyer, one  *)
(* address, one row for every request the address is invited to            *)
(* (external-invite-dispatcher.service.ts, company-connections.service.ts, *)
(* company-auth.service.ts).                                                *)
(*                                                                          *)
(* The buyer queues rows and withdraws the link that carries them; every   *)
(* minute a dispatcher claims the rows that are due and writes ONE letter   *)
(* for the address, outside any transaction: what it decided on may change  *)
(* before the letter leaves, and before the letter is recorded.  The cron   *)
(* lock keeps the instances apart, but it fails open.                       *)
(*                                                                          *)
(* Time is what it does to the rows: a row is due or not, and the last      *)
(* letter is fresh (two days), recent (a week), or neither.                 *)
(***************************************************************************)
EXTENDS Integers, FiniteSets

CONSTANTS
    Row,          \* the requests the address may be invited to, one row each
    Instance,     \* instances of the server
    Source,       \* who asks for a row, within Sources
    DigestMax,    \* rows of one letter (INVITE_DIGEST_MAX)
    MaxAttempts,  \* INVITE_MAX_ATTEMPTS
    PauseAfter,   \* INVITE_PAUSE_AFTER_SENDS
    Event,        \* what the buyer and the address do, within Events
    LockChoice,   \* whether the cron lock works
    MaxFault      \* bound on crashes, lost answers and overrun leases

Sources == {"MANUAL", "AI_FORM", "AI_AUTO"}
Events == {"withdraw", "downgrade", "switch", "close", "optOut", "click", "signUp", "verify"}

ASSUME RowAssumption == IsFiniteSet(Row) /\ IsFiniteSet(Instance)
ASSUME SourceAssumption == Source \subseteq Sources /\ Event \subseteq Events
ASSUME LimitAssumption ==
    /\ DigestMax \in Nat \ {0} /\ MaxAttempts \in Nat \ {0}
    /\ PauseAfter \in Nat \ {0} /\ MaxFault \in Nat
ASSUME LockAssumption == LockChoice \subseteq BOOLEAN

VARIABLES
    row,        \* external_listing_invites, by request
    link,       \* company_referral_invites: the link of buyer and address
    listing,    \* open, off (private, or its automatic search is off), closed
    address,    \* what is known of the address
    last,       \* 2: a letter within two days, 1: within a week, 0: neither
    sends,      \* letters of the last 90 days, counted up to PauseAfter
    running,    \* requests of the buyer and the address between two writes
    run,        \* what each instance's dispatcher has read and is doing
    lock,       \* the cron lock works; otherwise every instance runs
    letters,    \* letters that left for a row
    reminders,  \* reminders that left for a row
    late,       \* letters that left after the address opted out or registered
    faults      \* crashes, lost answers and overrun leases so far

buyerVars == <<link, listing>>
mailVars == <<last, sends, letters, reminders, late>>
vars == <<row, buyerVars, address, mailVars, running, run, lock, faults>>

----------------------------------------------------------------------------
(* cancelReason, as far as the rows' way back depends on it.                *)
Reasons == {"-", "AUTO_INVITE_OFF", "OTHER"}

InviteRow == [state : {"NONE", "QUEUED", "SENT", "CANCELLED", "FAILED"},
              reason : Reasons, source : Sources,
              due : BOOLEAN,       \* sendAfter has come
              attempts : Nat,
              sent : BOOLEAN,      \* sentAt is set
              reminded : BOOLEAN]  \* reminderSentAt is set

NoRow == [state |-> "NONE", reason |-> "-", source |-> "MANUAL", due |-> FALSE,
          attempts |-> 0, sent |-> FALSE, reminded |-> FALSE]

Outcomes == {"SENT", "FAILED", "SUPPRESSED"}

(* rows: the rows in hand; tries: their attempts as they were read.         *)
Idle == [pc |-> "idle", rows |-> {}, tries |-> [i \in Row |-> 0], outcome |-> "FAILED"]

Run == [pc : {"idle", "swept", "read", "claimed", "ready", "answered",
              "after", "reminding", "reminded"},
        rows : SUBSET Row, tries : [Row -> Nat], outcome : Outcomes]

TypeOK ==
    /\ row \in [Row -> InviteRow]
    /\ link \in {"NONE", "PENDING", "CANCELLED", "ACCEPTED"}
    /\ listing \in [Row -> {"open", "off", "closed"}]
    /\ address \in [optedOut : BOOLEAN, registered : BOOLEAN, engaged : BOOLEAN]
    /\ last \in 0..2 /\ sends \in 0..PauseAfter
    /\ running \subseteq {"cancel", "join", "accept"}
    /\ run \in [Instance -> Run]
    /\ lock \in BOOLEAN
    /\ letters \in [Row -> Nat] /\ reminders \in [Row -> Nat]
    /\ late \in Nat /\ faults \in Nat

----------------------------------------------------------------------------
(* AUTO_INVITE_OFF_WHERE: the automatic invitation is not wanted any more.  *)
AutoInviteOff(i) == row[i].source = "AI_AUTO" /\ listing[i] = "off"

(* readableQueueWhere.                                                      *)
Readable(i) ==
    /\ row[i].state = "QUEUED"
    /\ listing[i] # "closed" /\ ~AutoInviteOff(i)
    /\ link # "CANCELLED"

(* MANUAL invitations and addresses that opened a link know no limits.      *)
Cold(i) == row[i].source # "MANUAL" /\ ~address.engaged

(* The time of a cancelled row does not matter: it is planned again.        *)
Cancelled(r, reason) == [r EXCEPT !.state = "CANCELLED", !.reason = reason, !.due = FALSE]

(* Cancels those of rows that are still queued.                             *)
CancelQueued(rows, reason) ==
    [i \in Row |-> IF i \in rows /\ row[i].state = "QUEUED"
                   THEN Cancelled(row[i], reason) ELSE row[i]]

----------------------------------------------------------------------------
(* The buyer.                                                               *)

(* inviteExternalForListing: the link is written, or brought back, and the  *)
(* row is created - or brought back when only the dispatcher had dropped it *)
(* with the automatic search.  AI invitations wait for a window.            *)
Invite(i, source, due) ==
    /\ listing[i] # "closed"
    /\ ~address.optedOut /\ ~address.registered /\ link # "ACCEPTED"
    /\ \/ row[i].state = "NONE"
       \/ /\ source # "AI_AUTO"
          /\ row[i].state = "CANCELLED" /\ row[i].reason = "AUTO_INVITE_OFF"
    /\ source = "MANUAL" => due
    /\ row' = [row EXCEPT ![i] = [@ EXCEPT !.state = "QUEUED", !.reason = "-",
                                   !.source = source, !.due = due, !.attempts = 0]]
    /\ link' = "PENDING"
    /\ UNCHANGED <<listing, address, mailVars, running, run, lock, faults>>

(* cancelReferralInvite: the link, and in a second statement its queue.     *)
CancelLink ==
    /\ "withdraw" \in Event
    /\ link = "PENDING" /\ "cancel" \notin running
    /\ link' = "CANCELLED"
    /\ running' = running \cup {"cancel"}
    /\ UNCHANGED <<row, listing, address, mailVars, run, lock, faults>>

CancelQueue ==
    /\ "cancel" \in running
    /\ row' = CancelQueued(Row, "OTHER")
    /\ running' = running \ {"cancel"}
    /\ UNCHANGED <<link, listing, address, mailVars, run, lock, faults>>

(* The membership ends (both, in one transaction), or the buyer keeps a     *)
(* tier that may hold links but not invite to requests.                     *)
Downgrade(toStandard) ==
    /\ "downgrade" \in Event
    /\ link' = IF toStandard /\ link = "PENDING" THEN "CANCELLED" ELSE link
    /\ row' = CancelQueued(Row, "OTHER")
    /\ UNCHANGED <<listing, address, mailVars, running, run, lock, faults>>

(* The request is made private, or its automatic search switched off, and   *)
(* back; it is closed, cancelled or awarded.                                *)
SwitchListing(i) ==
    /\ "switch" \in Event
    /\ listing[i] # "closed"
    /\ listing' = [listing EXCEPT ![i] = IF @ = "open" THEN "off" ELSE "open"]
    /\ UNCHANGED <<row, link, address, mailVars, running, run, lock, faults>>

CloseListing(i) ==
    /\ "close" \in Event
    /\ listing[i] # "closed"
    /\ listing' = [listing EXCEPT ![i] = "closed"]
    /\ UNCHANGED <<row, link, address, mailVars, running, run, lock, faults>>

----------------------------------------------------------------------------
(* The address.                                                             *)

OptOut ==
    /\ "optOut" \in Event
    /\ link # "NONE" /\ ~address.optedOut
    /\ address' = [address EXCEPT !.optedOut = TRUE]
    /\ UNCHANGED <<row, buyerVars, mailVars, running, run, lock, faults>>

(* markReferralVisited.                                                     *)
Click ==
    /\ "click" \in Event
    /\ link = "PENDING" /\ ~address.engaged
    /\ address' = [address EXCEPT !.engaged = TRUE]
    /\ UNCHANGED <<row, buyerVars, mailVars, running, run, lock, faults>>

(* Sign-up with the link, under another address.  acceptReferralInvites     *)
(* reads the links that are PENDING ...                                     *)
SignUpWithLink ==
    /\ "signUp" \in Event
    /\ link = "PENDING"
    /\ running' = running \cup {"accept"}
    /\ UNCHANGED <<row, buyerVars, address, mailVars, run, lock, faults>>

(* Sign-up with this address: it is proven first, and then its invitations  *)
(* are looked for.                                                          *)
VerifyEmail ==
    /\ "verify" \in Event
    /\ ~address.registered
    /\ address' = [address EXCEPT !.registered = TRUE]
    /\ running' = running \cup {"join"}
    /\ UNCHANGED <<row, buyerVars, mailVars, run, lock, faults>>

ReadInvites ==
    /\ "join" \in running
    /\ running' = (running \ {"join"}) \cup (IF link = "PENDING" THEN {"accept"} ELSE {})
    /\ UNCHANGED <<row, buyerVars, address, mailVars, run, lock, faults>>

(* ... and accepts them one by one by their ids, whatever they have become: *)
(* also what the buyer has withdrawn meanwhile.  Which requests joining     *)
(* opens is left out.                                                       *)
AcceptLink ==
    /\ "accept" \in running
    /\ link' = "ACCEPTED"
    /\ running' = running \ {"accept"}
    /\ UNCHANGED <<row, listing, address, mailVars, run, lock, faults>>

----------------------------------------------------------------------------
(* Time.                                                                    *)

TimePasses ==
    /\ last > 0
    /\ last' = last - 1
    /\ UNCHANGED <<row, buyerVars, address, sends, letters, reminders, late, running,
                   run, lock, faults>>

InHand(d) == run[d].pc \in {"claimed", "ready", "answered"}

Fault == faults < MaxFault /\ faults' = faults + 1

(* sendAfter comes.  For a row in hand it is the end of the lease.          *)
TurnComes(i) ==
    /\ row[i].state = "QUEUED" /\ ~row[i].due
    /\ row' = [row EXCEPT ![i].due = TRUE]
    /\ IF \E d \in Instance : InHand(d) /\ i \in run[d].rows THEN Fault ELSE UNCHANGED faults
    /\ UNCHANGED <<buyerVars, address, mailVars, running, run, lock>>

----------------------------------------------------------------------------
(* The dispatcher.                                                          *)

Set(d, r) == run' = [run EXCEPT ![d] = r]
Go(d, pc) == Set(d, [Idle EXCEPT !.pc = pc])

(* Rows of closed requests and unwanted automatic rows are dropped; what    *)
(* was dropped for that reason alone and is wanted again comes back.        *)
Resumable(i) ==
    /\ row[i].state = "CANCELLED" /\ row[i].reason = "AUTO_INVITE_OFF"
    /\ row[i].source = "AI_AUTO" /\ ~row[i].sent
    /\ link # "CANCELLED" /\ listing[i] = "open"

Sweep(d) ==
    /\ run[d].pc = "idle"
    /\ lock => \A e \in Instance : run[e].pc = "idle"
    /\ row' = [i \in Row |->
                 IF row[i].state = "QUEUED" /\ listing[i] = "closed"
                 THEN Cancelled(row[i], "OTHER")
                 ELSE IF row[i].state = "QUEUED" /\ AutoInviteOff(i)
                 THEN Cancelled(row[i], "AUTO_INVITE_OFF")
                 ELSE IF Resumable(i)
                 THEN [row[i] EXCEPT !.state = "QUEUED", !.reason = "-"]
                 ELSE row[i]]
    /\ Go(d, "swept")
    /\ UNCHANGED <<buyerVars, address, mailVars, running, lock, faults>>

(* Faulty variant: a row that failed once is not read again.                *)
UntriedDueRows == {i \in Row : Readable(i) /\ row[i].due /\ row[i].attempts = 0}

DueRows == {i \in Row : Readable(i) /\ row[i].due}

ReadDue(d) ==
    /\ run[d].pc = "swept"
    /\ Set(d, [run[d] EXCEPT !.pc = "read", !.rows = DueRows,
                             !.tries = [i \in Row |-> IF i \in DueRows THEN row[i].attempts ELSE 0]])
    /\ UNCHANGED <<row, buyerVars, address, mailVars, running, lock, faults>>

(* The daily cap is used up: rows whose window has closed get a new time.   *)
CapReached(d) ==
    /\ run[d].pc = "swept"
    /\ \E moved \in SUBSET DueRows :
         row' = [i \in Row |-> IF i \in moved THEN [row[i] EXCEPT !.due = FALSE] ELSE row[i]]
    /\ Set(d, Idle)
    /\ UNCHANGED <<buyerVars, address, mailVars, running, lock, faults>>

(* Faulty variant: no lease is taken.                                       *)
ClaimWithoutLease(d) ==
    /\ run[d].pc = "read"
    /\ IF run[d].rows = {} THEN Go(d, "after")
       ELSE Set(d, [run[d] EXCEPT !.pc = "claimed"])
    /\ UNCHANGED <<row, buyerVars, address, mailVars, running, lock, faults>>

(* claim: one UPDATE that takes a lease on the rows still due.              *)
Claim(d) ==
    LET won == {i \in run[d].rows : row[i].state = "QUEUED" /\ row[i].due}
    IN  /\ run[d].pc = "read"
        /\ row' = [i \in Row |-> IF i \in won THEN [row[i] EXCEPT !.due = FALSE] ELSE row[i]]
        /\ IF won = {} THEN Go(d, "after")
           ELSE Set(d, [run[d] EXCEPT !.pc = "claimed", !.rows = won])
        /\ UNCHANGED <<buyerVars, address, mailVars, running, lock, faults>>

(* Faulty variant: the unsubscription list is not asked.                    *)
Registered == address.registered

(* processAddress up to the letter.  addressState: unsubscribed, or a user  *)
(* of the platform.                                                         *)
Gone == address.optedOut \/ address.registered

Paused(d) == {i \in run[d].rows : Cold(i) /\ sends = PauseAfter}

(* Faulty variant: a week's pause only between reminders.                   *)
NeverHeld(d) == {}

Held(d) == {i \in run[d].rows \ Paused(d) : Cold(i) /\ last > 0}

TurnedAway(d) ==
    /\ run[d].pc = "claimed" /\ Gone
    /\ row' = CancelQueued(run[d].rows, "OTHER")
    /\ Go(d, "after")
    /\ UNCHANGED <<buyerVars, address, mailVars, running, lock, faults>>

(* waiting: outside the recipient's hours or not translated yet; missed:    *)
(* held beyond the closing of the request.                                  *)
Decide(d, missed, waiting, batch) ==
    LET sendable == run[d].rows \ (Paused(d) \cup Held(d) \cup waiting)
    IN  /\ run[d].pc = "claimed" /\ ~Gone
        /\ missed \subseteq Held(d)
        /\ waiting \subseteq run[d].rows \ (Paused(d) \cup Held(d))
        /\ batch \subseteq sendable
        /\ IF Cardinality(sendable) <= DigestMax
           THEN batch = sendable ELSE Cardinality(batch) = DigestMax
        /\ row' = [i \in Row |->
                     IF row[i].state # "QUEUED" THEN row[i]
                     ELSE IF i \in Paused(d) THEN Cancelled(row[i], "OTHER")
                     ELSE IF i \in missed THEN Cancelled(row[i], "OTHER")
                     ELSE IF i \in sendable \ batch THEN [row[i] EXCEPT !.due = TRUE]
                     ELSE row[i]]
        /\ IF batch = {} THEN Go(d, "after")
           ELSE Set(d, [run[d] EXCEPT !.pc = "ready", !.rows = batch])
        /\ UNCHANGED <<buyerVars, address, mailVars, running, lock, faults>>

(* One letter for the batch.  left: it reaches the provider, although the   *)
(* answer may be lost.  What is logged as FAILED does not count as history. *)
LetterTo(rows) ==
    /\ letters' = [i \in Row |-> letters[i] + IF i \in rows THEN 1 ELSE 0]
    /\ late' = IF address.optedOut \/ address.registered THEN late + 1 ELSE late
    /\ UNCHANGED reminders

ReminderFor(rows) ==
    /\ reminders' = [i \in Row |-> reminders[i] + IF i \in rows THEN 1 ELSE 0]
    /\ late' = IF address.optedOut \/ address.registered THEN late + 1 ELSE late
    /\ UNCHANGED letters

Logged == /\ last' = 2
          /\ sends' = IF sends < PauseAfter THEN sends + 1 ELSE sends

(* The answers of the provider to a letter, or reminder, that Leaves.       *)
Answer(outcome, Leaves) ==
    \/ outcome = "SENT" /\ Logged /\ Leaves /\ UNCHANGED faults
    \/ outcome = "FAILED" /\ Leaves /\ Fault /\ UNCHANGED <<last, sends>>
    \/ outcome \in {"FAILED", "SUPPRESSED"} /\ UNCHANGED <<mailVars, faults>>

Send(d, outcome) ==
    /\ run[d].pc = "ready"
    /\ Answer(outcome, LetterTo(run[d].rows))
    /\ Set(d, [run[d] EXCEPT !.pc = "answered", !.outcome = outcome])
    /\ UNCHANGED <<row, buyerVars, address, running, lock>>

(* Faulty variants: the answer is the new state; a letter that was not      *)
(* written for good counts as sent; the answer is for queued rows only.     *)
AfterLetterAsAnswered(r, tries, outcome) == [r EXCEPT !.state = outcome, !.attempts = tries + 1]

AfterLetterIfQueued(r, tries, outcome) ==
    IF outcome = "SENT" /\ r.state = "QUEUED" THEN [r EXCEPT !.state = "SENT", !.sent = TRUE]
    ELSE IF outcome = "FAILED" /\ r.state = "QUEUED" THEN [r EXCEPT !.state = "FAILED"] ELSE r

(* The answer is written.  SENT and FAILED are written whatever the rows    *)
(* have become; only the cancellation asks whether they are still queued.   *)
AfterLetter(r, tries, outcome) ==
    IF outcome = "SENT" THEN [r EXCEPT !.state = "SENT", !.sent = TRUE]
    ELSE IF outcome = "SUPPRESSED"
    THEN IF r.state = "QUEUED" THEN Cancelled(r, "OTHER") ELSE r
    ELSE [r EXCEPT !.attempts = tries + 1,
                   !.state = IF tries + 1 >= MaxAttempts THEN "FAILED" ELSE @]

Record(d) ==
    /\ run[d].pc = "answered"
    /\ row' = [i \in Row |-> IF i \in run[d].rows
                            THEN AfterLetter(row[i], run[d].tries[i], run[d].outcome)
                            ELSE row[i]]
    /\ Go(d, "after")
    /\ UNCHANGED <<buyerVars, address, mailVars, running, lock, faults>>

(* sendReminders: one reminder per address and run, for a request that      *)
(* closes soon.                                                             *)
RemindPick(d, i) ==
    /\ run[d].pc = "after"
    /\ row[i].state = "SENT" /\ ~row[i].reminded
    /\ link = "PENDING" /\ listing[i] # "closed" /\ ~AutoInviteOff(i)
    /\ ~Gone
    /\ last < 2
    /\ Set(d, [Idle EXCEPT !.pc = "reminding", !.rows = {i}])
    /\ UNCHANGED <<row, buyerVars, address, mailVars, running, lock, faults>>

StillToRemind(d) == \A i \in run[d].rows : row[i].state = "SENT" /\ ~row[i].reminded

RemindSend(d, outcome) ==
    /\ run[d].pc = "reminding" /\ StillToRemind(d)
    /\ Answer(outcome, ReminderFor(run[d].rows))
    /\ Set(d, IF outcome = "FAILED" THEN Idle ELSE [run[d] EXCEPT !.pc = "reminded"])
    /\ UNCHANGED <<row, buyerVars, address, running, lock>>

(* Faulty variant: the reminder is not marked.                              *)
RemindWithoutMark(d) ==
    /\ run[d].pc = "reminded"
    /\ Set(d, Idle)
    /\ UNCHANGED <<row, buyerVars, address, mailVars, running, lock, faults>>

RemindRecord(d) ==
    /\ run[d].pc = "reminded"
    /\ row' = [i \in Row |-> IF i \in run[d].rows THEN [row[i] EXCEPT !.reminded = TRUE]
                            ELSE row[i]]
    /\ Set(d, Idle)
    /\ UNCHANGED <<buyerVars, address, mailVars, running, lock, faults>>

FinishRun(d) ==
    /\ run[d].pc = "after" \/ (run[d].pc = "reminding" /\ ~StillToRemind(d))
    /\ Set(d, Idle)
    /\ UNCHANGED <<row, buyerVars, address, mailVars, running, lock, faults>>

(* The process stops; while it sends, a log line stays that counts as a     *)
(* letter, whether or not the letter left.  A withdrawal loses its second   *)
(* half, joining its invitations.                                           *)
Crash(d) ==
    /\ run[d].pc # "idle" /\ Fault
    /\ Set(d, Idle)
    /\ UNCHANGED <<row, buyerVars, address, mailVars, running, lock>>

CrashWhileSending(d) ==
    /\ run[d].pc = "ready" /\ Fault
    /\ Logged
    /\ LetterTo(run[d].rows) \/ UNCHANGED <<letters, reminders, late>>
    /\ Set(d, Idle)
    /\ UNCHANGED <<row, buyerVars, address, running, lock>>

CrashOfRequest(r) ==
    /\ r \in running
    /\ running' = running \ {r}
    /\ UNCHANGED <<row, buyerVars, address, mailVars, run, lock, faults>>

----------------------------------------------------------------------------
Init ==
    /\ row = [i \in Row |-> NoRow]
    /\ link = "NONE"
    /\ listing = [i \in Row |-> "open"]
    /\ address = [optedOut |-> FALSE, registered |-> FALSE, engaged |-> FALSE]
    /\ last = 0 /\ sends = 0
    /\ running = {}
    /\ run = [d \in Instance |-> Idle]
    /\ lock \in LockChoice
    /\ letters = [i \in Row |-> 0] /\ reminders = [i \in Row |-> 0]
    /\ late = 0 /\ faults = 0

BuyerStep ==
    \/ \E i \in Row, source \in Source, due \in BOOLEAN : Invite(i, source, due)
    \/ CancelLink \/ CancelQueue
    \/ \E toStandard \in BOOLEAN : Downgrade(toStandard)
    \/ \E i \in Row : SwitchListing(i) \/ CloseListing(i)

AddressStep == OptOut \/ Click \/ SignUpWithLink \/ VerifyEmail \/ ReadInvites \/ AcceptLink

DecideStep(d) ==
    \E missed, waiting, batch \in SUBSET run[d].rows : Decide(d, missed, waiting, batch)

SendStep(d) == \E outcome \in Outcomes : Send(d, outcome) \/ RemindSend(d, outcome)

(* What the scheduler and the awaited calls carry on by themselves.         *)
DispatchStep(d) ==
    \/ Sweep(d) \/ ReadDue(d) \/ CapReached(d) \/ Claim(d) \/ TurnedAway(d)
    \/ DecideStep(d) \/ SendStep(d) \/ Record(d)
    \/ (\E i \in Row : RemindPick(d, i)) \/ RemindRecord(d) \/ FinishRun(d)

Next ==
    \/ BuyerStep \/ AddressStep
    \/ TimePasses
    \/ \E i \in Row : TurnComes(i)
    \/ \E d \in Instance : DispatchStep(d) \/ Crash(d) \/ CrashWhileSending(d)
    \/ \E r \in {"cancel", "join", "accept"} : CrashOfRequest(r)

Spec == Init /\ [][Next]_vars

(* The cron fires every minute and its calls return; windows, pauses and    *)
(* leases end.  The cap is a day's and translations arrive, so a row that   *)
(* is due again and again is not put off for ever.                          *)
FairSpec ==
    /\ Spec
    /\ WF_vars(TimePasses)
    /\ \A i \in Row : WF_vars(TurnComes(i))
    /\ \A d \in Instance :
         /\ WF_vars(DispatchStep(d))
         /\ SF_vars(DueRows # {} /\ ReadDue(d))
         /\ SF_vars(\E missed, batch \in SUBSET run[d].rows : Decide(d, missed, {}, batch))
----------------------------------------------------------------------------
(* A row's letter leaves once, however often its address is swept, held and *)
(* retried (claim), unless a crash, a lost answer or an overrun lease hides *)
(* that it has left.  Without the cron lock this takes a search that nobody *)
(* switches: a dropped row that comes back is due while an instance has it. *)
ClaimHolds == lock \/ "switch" \notin Event
OneLetterEach == ClaimHolds => \A i \in Row : letters[i] <= 1 + faults

(* And so does its one reminder (sendReminders).                            *)
OneReminderEach == lock => \A i \in Row : reminders[i] <= 1 + faults

(* What the buyer reads is what happened: SENT if and only if a letter left *)
(* for the row - whatever became of the row while the letter was written,   *)
(* and unless a fault hid the letter (processAddress).                      *)
SentHasLeft ==
    \A i \in Row :
        /\ row[i].state = "SENT" => letters[i] > 0
        /\ letters[i] > 0 /\ faults = 0 /\ ClaimHolds =>
             \/ row[i].state = "SENT"
             \/ \E d \in Instance : run[d].pc = "answered" /\ i \in run[d].rows

(* An address that opted out, or has an account, gets at most the letter    *)
(* that was being written.                                                  *)
QuietAfterwards == lock => late <= 1

(* A cold address gets no second invitation within a week (inviteHoldUntil) *)
(* although the hold is decided before the letter leaves.                   *)
WeekBetweenLetters ==
    [][lock /\ letters' # letters /\ last > 0 =>
         \A i \in Row : letters'[i] > letters[i] => ~Cold(i)]_vars

(* Nothing the buyer still wants sent stays in the queue: neither holds nor *)
(* waiting nor crashes leave a row that no run will read (claim, TurnComes). *)
NothingStuck == \A i \in Row : lock /\ Readable(i) ~> ~Readable(i)
=============================================================================
