------------------------ MODULE ExternalInvitesProofs ------------------------
(***************************************************************************)
(* Proofs about module ExternalInvites, for any rows, instances, limits    *)
(* and faults.                                                             *)
(*                                                                         *)
(* The claim is the only step of the dispatcher that asks for a row and    *)
(* takes it at once.  What it promises is a balance (OneEach): the letters *)
(* that left for a row, the instances that have it in hand and have not    *)
(* sent it, and the chance that it is claimed again are at most one        *)
(* together, and one more for every fault.                                 *)
(***************************************************************************)
EXTENDS ExternalInvites, FiniteSetTheorems, TLAPS

(* With the lock one instance runs at a time.                               *)
OneRuns == lock => \A d, e \in Instance : run[d].pc # "idle" /\ run[e].pc # "idle" => d = e

(* A row that may get a letter yet: not asked for, queued, or dropped for a *)
(* reason that may end.                                                     *)
Dropped(i) == row[i].state = "CANCELLED" /\ row[i].reason = "AUTO_INVITE_OFF"
Open(i) == row[i].state \in {"NONE", "QUEUED"} \/ Dropped(i)

(* Who has the row in hand, and who of them may still send it.              *)
Holds(r, i) == r.pc \in {"claimed", "ready", "answered"} /\ i \in r.rows
Owes(r, i) == Holds(r, i) /\ (r.pc = "answered" => r.outcome # "SENT")
Owing(i) == {d \in Instance : Owes(run[d], i)}
Claimable(i) == Open(i) /\ (row[i].due \/ \A d \in Instance : ~Holds(run[d], i))

One(b) == IF b THEN 1 ELSE 0

(* Rows in hand have been queued, and are not dropped meanwhile.            *)
InHandWasQueued ==
    \A d \in Instance, i \in Row : Holds(run[d], i) =>
        row[i].state # "NONE" /\ (ClaimHolds => ~Dropped(i))

NothingOff ==
    "switch" \notin Event =>
        \A i \in Row : listing[i] # "off" /\ row[i].reason # "AUTO_INVITE_OFF"

OneEach ==
    ClaimHolds =>
        \A i \in Row : letters[i] + Cardinality(Owing(i)) + One(Claimable(i)) <= 1 + faults

(* SENT is written for letters that left.                                   *)
AnswerLeft ==
    \A d \in Instance : run[d].pc = "answered" /\ run[d].outcome = "SENT" =>
        \A i \in run[d].rows : letters[i] > 0

(* Whether a reminder that left is, or will be, marked.                     *)
Marked(i) == row[i].reminded \/ \E d \in Instance : run[d].pc = "reminded" /\ i \in run[d].rows
Reminded == lock => \A i \in Row : reminders[i] <= faults + One(Marked(i))

(* Once a letter left late no other is being written.                       *)
Quiet == lock => /\ late <= 1
                 /\ late > 0 => Gone /\ \A d \in Instance : run[d].pc \notin {"ready", "reminding"}

(* What is being written was decided on a history that still holds.         *)
Rested ==
    lock => \A d \in Instance : run[d].pc = "ready" =>
                \A i \in run[d].rows : last = 0 \/ ~Cold(i)

IInv == /\ TypeOK /\ OneRuns /\ InHandWasQueued /\ NothingOff /\ OneEach
        /\ AnswerLeft /\ SentHasLeft /\ Reminded /\ Quiet /\ Rested

----------------------------------------------------------------------------
(* Rows and runs.                                                           *)

LEMMA CancelledType ==
    ASSUME NEW r \in InviteRow, NEW reason \in Reasons
    PROVE  /\ Cancelled(r, reason) \in InviteRow
           /\ Cancelled(r, reason).state = "CANCELLED" /\ Cancelled(r, reason).reason = reason
           /\ ~Cancelled(r, reason).due
           /\ Cancelled(r, reason).reminded = r.reminded
           /\ Cancelled(r, reason).source = r.source
BY DEF Cancelled, InviteRow

LEMMA IdleType == Idle \in Run /\ Idle.pc = "idle" /\ Idle.rows = {}
BY DEF Idle, Run, Outcomes

LEMMA GoType ==
    ASSUME NEW pc \in {"idle", "swept", "after"}
    PROVE  /\ [Idle EXCEPT !.pc = pc] \in Run /\ [Idle EXCEPT !.pc = pc].pc = pc
           /\ [Idle EXCEPT !.pc = pc].rows = {}
BY DEF Idle, Run, Outcomes

(* What becomes of a row when the provider has answered.                    *)
LEMMA AfterSent ==
    ASSUME NEW r \in InviteRow, NEW tries \in Nat
    PROVE  /\ AfterLetter(r, tries, "SENT") \in InviteRow
           /\ AfterLetter(r, tries, "SENT").state = "SENT"
           /\ AfterLetter(r, tries, "SENT").reason = r.reason
           /\ AfterLetter(r, tries, "SENT").reminded = r.reminded
           /\ AfterLetter(r, tries, "SENT").source = r.source
BY DEF AfterLetter, InviteRow

LEMMA AfterSuppressed ==
    ASSUME NEW r \in InviteRow, NEW tries \in Nat
    PROVE  AfterLetter(r, tries, "SUPPRESSED")
             = IF r.state = "QUEUED" THEN Cancelled(r, "OTHER") ELSE r
BY DEF AfterLetter

LEMMA AfterFailed ==
    ASSUME NEW r \in InviteRow, NEW tries \in Nat
    PROVE  /\ AfterLetter(r, tries, "FAILED") \in InviteRow
           /\ AfterLetter(r, tries, "FAILED").state \in {r.state, "FAILED"}
           /\ AfterLetter(r, tries, "FAILED").reason = r.reason
           /\ AfterLetter(r, tries, "FAILED").due = r.due
           /\ AfterLetter(r, tries, "FAILED").reminded = r.reminded
           /\ AfterLetter(r, tries, "FAILED").source = r.source
<1>1. tries + 1 \in Nat
    OBVIOUS
<1> QED BY <1>1 DEF AfterLetter, InviteRow

----------------------------------------------------------------------------
(* The balance of a row.                                                    *)

LEMMA OwingMoves ==
    ASSUME NEW d \in Instance, NEW r, NEW i \in Row,
           run \in [Instance -> Run], run' = [run EXCEPT ![d] = r]
    PROVE  /\ Cardinality(Owing(i)) \in Nat /\ Cardinality(Owing(i)') \in Nat
           /\ Cardinality(Owing(i)') + One(Owes(run[d], i)) = Cardinality(Owing(i)) + One(Owes(r, i))
<1> DEFINE others == Owing(i) \ {d}
<1>1. IsFiniteSet(others) /\ d \notin others /\ Cardinality(others) \in Nat
  <2>1. others \subseteq Instance
      BY DEF Owing
  <2>2. IsFiniteSet(others)
      BY <2>1, RowAssumption, FS_Subset
  <2> QED BY <2>2, FS_CardinalityType
<1>2. Owing(i) = IF Owes(run[d], i) THEN others \cup {d} ELSE others
    BY DEF Owing
<1>3. run'[d] = r /\ \A e \in Instance \ {d} : run'[e] = run[e]
    OBVIOUS
<1>4. Owing(i)' = {e \in Instance : Owes(run'[e], i)}
    BY DEF Owing, Owes, Holds
<1>5. Owing(i)' = IF Owes(r, i) THEN others \cup {d} ELSE others
    BY <1>3, <1>4 DEF Owing
<1>6. Cardinality(others \cup {d}) = Cardinality(others) + 1
    BY <1>1, FS_AddElement
<1> HIDE DEF others
<1>7. /\ Cardinality(Owing(i)) = Cardinality(others) + One(Owes(run[d], i))
      /\ Cardinality(Owing(i)') = Cardinality(others) + One(Owes(r, i))
    BY <1>1, <1>2, <1>5, <1>6 DEF One
<1>8. One(Owes(run[d], i)) \in Nat /\ One(Owes(r, i)) \in Nat
    BY DEF One
<1> QED BY <1>1, <1>7, <1>8

(* A step of one instance keeps the balance if it does so on its own part. *)
LEMMA BalanceMoves ==
    ASSUME NEW d \in Instance, NEW r, NEW i \in Row, TypeOK, TypeOK', OneEach, ClaimHolds,
           run' = [run EXCEPT ![d] = r],
           letters'[i] + One(Owes(r, i)) + One(Claimable(i)') + faults
             <= letters[i] + One(Owes(run[d], i)) + One(Claimable(i)) + faults'
    PROVE  letters'[i] + Cardinality(Owing(i)') + One(Claimable(i)') <= 1 + faults'
<1>1. letters[i] + Cardinality(Owing(i)) + One(Claimable(i)) <= 1 + faults
    BY DEF OneEach
<1>2. /\ letters[i] \in Nat /\ letters'[i] \in Nat /\ faults \in Nat /\ faults' \in Nat
    BY DEF TypeOK
<1>3. /\ One(Owes(run[d], i)) \in Nat /\ One(Owes(r, i)) \in Nat
      /\ One(Claimable(i)) \in Nat /\ One(Claimable(i)') \in Nat
    BY DEF One
<1>4. /\ Cardinality(Owing(i)) \in Nat /\ Cardinality(Owing(i)') \in Nat
      /\ Cardinality(Owing(i)') + One(Owes(run[d], i)) = Cardinality(Owing(i)) + One(Owes(r, i))
    BY OwingMoves DEF TypeOK
<1> QED BY <1>1, <1>2, <1>3, <1>4

(* No step makes a row claimable that neither opens it, nor lets it come    *)
(* due, nor lets go of it.                                                  *)
LEMMA ClaimableKept ==
    ASSUME NEW d \in Instance, NEW r, NEW i \in Row,
           run \in [Instance -> Run], run' = [run EXCEPT ![d] = r],
           Open(i)' => Open(i), row'[i].due => row[i].due,
           Holds(run[d], i) => Holds(r, i)
    PROVE  Claimable(i)' => Claimable(i)
<1>1. run'[d] = r /\ \A e \in Instance \ {d} : run'[e] = run[e]
    OBVIOUS
<1>2. Claimable(i)' <=> Open(i)' /\ (row'[i].due \/ \A e \in Instance : ~Holds(run'[e], i))
    BY DEF Claimable, Holds
<1>3. (\A e \in Instance : ~Holds(run'[e], i)) => \A e \in Instance : ~Holds(run[e], i)
    BY <1>1
<1> QED BY <1>2, <1>3 DEF Claimable

----------------------------------------------------------------------------
(* Types.                                                                   *)

LEMMA CancelQueuedType ==
    ASSUME TypeOK, NEW rows, NEW reason \in Reasons
    PROVE  CancelQueued(rows, reason) \in [Row -> InviteRow]
<1>1. \A i \in Row : row[i] \in InviteRow /\ Cancelled(row[i], reason) \in InviteRow
    BY CancelledType DEF TypeOK
<1> QED BY <1>1 DEF CancelQueued

LEMMA ReasonsOfDrops == {"OTHER", "AUTO_INVITE_OFF"} \subseteq Reasons
BY DEF Reasons

LEMMA TypeStepAside ==
    ASSUME TypeOK,
           BuyerStep \/ AddressStep \/ TimePasses \/ (\E i \in Row : TurnComes(i))
             \/ \E r \in {"cancel", "join", "accept"} : CrashOfRequest(r)
    PROVE  TypeOK'
<1>1. ASSUME NEW i \in Row, NEW source \in Source, NEW due \in BOOLEAN, Invite(i, source, due)
      PROVE  TypeOK'
  <2>1. source \in Sources
      BY SourceAssumption
  <2>2. [row[i] EXCEPT !.state = "QUEUED", !.reason = "-", !.source = source, !.due = due,
                       !.attempts = 0] \in InviteRow
    <3>1. row[i] \in InviteRow
        BY DEF TypeOK
    <3> QED BY <2>1, <3>1 DEF InviteRow, Reasons
  <2>3. row' \in [Row -> InviteRow]
      BY <1>1, <2>2 DEF Invite, TypeOK
  <2> QED BY <1>1, <2>3 DEF Invite, TypeOK, buyerVars, mailVars
<1>2. CASE CancelLink \/ CancelQueue
  <2>1. row' \in [Row -> InviteRow]
      BY <1>2, CancelQueuedType, ReasonsOfDrops DEF CancelLink, CancelQueue, TypeOK
  <2> QED BY <1>2, <2>1 DEF CancelLink, CancelQueue, TypeOK, mailVars
<1>3. ASSUME NEW toStandard \in BOOLEAN, Downgrade(toStandard)
      PROVE  TypeOK'
  <2>1. row' \in [Row -> InviteRow]
      BY <1>3, CancelQueuedType, ReasonsOfDrops DEF Downgrade
  <2> QED BY <1>3, <2>1 DEF Downgrade, TypeOK, mailVars
<1>4. ASSUME NEW i \in Row, SwitchListing(i) \/ CloseListing(i)
      PROVE  TypeOK'
    BY <1>4 DEF SwitchListing, CloseListing, TypeOK, mailVars
<1>5. CASE AddressStep
  <2>1. /\ row' = row /\ listing' = listing /\ lock' = lock /\ faults' = faults /\ run' = run
        /\ last' = last /\ sends' = sends /\ letters' = letters /\ reminders' = reminders
        /\ late' = late
      BY <1>5 DEF AddressStep, OptOut, Click, SignUpWithLink, VerifyEmail, ReadInvites,
                  AcceptLink, buyerVars, mailVars
  <2>2. /\ link' \in {link, "ACCEPTED"} /\ running' \subseteq running \cup {"join", "accept"}
      BY <1>5 DEF AddressStep, OptOut, Click, SignUpWithLink, VerifyEmail, ReadInvites,
                  AcceptLink, buyerVars
  <2>3. address' \in [optedOut : BOOLEAN, registered : BOOLEAN, engaged : BOOLEAN]
      BY <1>5 DEF AddressStep, OptOut, Click, SignUpWithLink, VerifyEmail, ReadInvites,
                  AcceptLink, TypeOK
  <2> QED BY <2>1, <2>2, <2>3 DEF TypeOK
<1>6. CASE TimePasses
    BY <1>6 DEF TimePasses, TypeOK, buyerVars
<1>7. ASSUME NEW i \in Row, TurnComes(i)
      PROVE  TypeOK'
  <2>1. [row[i] EXCEPT !.due = TRUE] \in InviteRow
    <3>1. row[i] \in InviteRow
        BY DEF TypeOK
    <3> QED BY <3>1 DEF InviteRow
  <2>2. row' \in [Row -> InviteRow]
      BY <1>7, <2>1 DEF TurnComes, TypeOK
  <2>3. faults' \in Nat
      BY <1>7 DEF TurnComes, Fault, TypeOK
  <2> QED BY <1>7, <2>2, <2>3 DEF TurnComes, TypeOK, buyerVars, mailVars
<1>8. ASSUME NEW r \in {"cancel", "join", "accept"}, CrashOfRequest(r)
      PROVE  TypeOK'
    BY <1>8 DEF CrashOfRequest, TypeOK, buyerVars, mailVars
<1> QED BY <1>1, <1>2, <1>3, <1>4, <1>5, <1>6, <1>7, <1>8 DEF BuyerStep

(* The letters, the history and the faults after an answer.                 *)
LEMMA AnswerType ==
    ASSUME TypeOK, NEW outcome \in Outcomes, NEW rows,
           Answer(outcome, LetterTo(rows)) \/ Answer(outcome, ReminderFor(rows))
    PROVE  /\ last' \in 0..2 /\ sends' \in 0..PauseAfter
           /\ letters' \in [Row -> Nat] /\ reminders' \in [Row -> Nat]
           /\ late' \in Nat /\ faults' \in Nat
<1>1. last' \in {last, 2} /\ sends' \in 0..PauseAfter
    BY LimitAssumption DEF Answer, Logged, TypeOK, mailVars
<1>2. (letters' = letters /\ reminders' = reminders /\ late' = late)
        \/ LetterTo(rows) \/ ReminderFor(rows)
    BY DEF Answer, mailVars
<1>3. letters' \in [Row -> Nat] /\ reminders' \in [Row -> Nat] /\ late' \in Nat
    BY <1>2 DEF LetterTo, ReminderFor, TypeOK
<1>4. faults' \in Nat
    BY DEF Answer, Fault, TypeOK
<1> QED BY <1>1, <1>3, <1>4 DEF TypeOK

(* The rows after a run's step.                                             *)
LEMMA SweptType ==
    ASSUME TypeOK, NEW d \in Instance, Sweep(d)
    PROVE  row' \in [Row -> InviteRow]
<1>1. ASSUME NEW i \in Row
      PROVE  /\ Cancelled(row[i], "OTHER") \in InviteRow
             /\ Cancelled(row[i], "AUTO_INVITE_OFF") \in InviteRow
             /\ [row[i] EXCEPT !.state = "QUEUED", !.reason = "-"] \in InviteRow
             /\ row[i] \in InviteRow
  <2>1. row[i] \in InviteRow
      BY DEF TypeOK
  <2>2. [row[i] EXCEPT !.state = "QUEUED", !.reason = "-"] \in InviteRow
      BY <2>1 DEF InviteRow, Reasons
  <2> QED BY <2>1, <2>2, CancelledType, ReasonsOfDrops
<1> QED BY <1>1 DEF Sweep

LEMMA DueType ==
    ASSUME NEW r \in InviteRow, NEW b \in BOOLEAN
    PROVE  [r EXCEPT !.due = b] \in InviteRow
BY DEF InviteRow

LEMMA RecordedType ==
    ASSUME NEW r \in InviteRow, NEW tries \in Nat, NEW outcome \in Outcomes
    PROVE  AfterLetter(r, tries, outcome) \in InviteRow
<1>1. Cancelled(r, "OTHER") \in InviteRow
    BY CancelledType, ReasonsOfDrops
<1> QED BY <1>1, AfterSent, AfterSuppressed, AfterFailed DEF Outcomes

LEMMA RowTypeInRun ==
    ASSUME TypeOK, NEW d \in Instance, DispatchStep(d) \/ Crash(d) \/ CrashWhileSending(d)
    PROVE  row' \in [Row -> InviteRow]
<1> row \in [Row -> InviteRow] /\ run[d] \in Run
    BY DEF TypeOK
<1>1. ASSUME Sweep(d)
      PROVE  row' \in [Row -> InviteRow]
    BY <1>1, SweptType
<1>2. ASSUME CapReached(d) \/ Claim(d)
      PROVE  row' \in [Row -> InviteRow]
    BY <1>2, DueType DEF CapReached, Claim
<1>3. ASSUME TurnedAway(d)
      PROVE  row' \in [Row -> InviteRow]
    BY <1>3, CancelQueuedType, ReasonsOfDrops DEF TurnedAway
<1>4. ASSUME NEW missed, NEW waiting, NEW batch, Decide(d, missed, waiting, batch)
      PROVE  row' \in [Row -> InviteRow]
  <2>1. \A i \in Row : Cancelled(row[i], "OTHER") \in InviteRow
                        /\ [row[i] EXCEPT !.due = TRUE] \in InviteRow
      BY CancelledType, ReasonsOfDrops, DueType
  <2> QED BY <1>4, <2>1 DEF Decide
<1>5. ASSUME Record(d)
      PROVE  row' \in [Row -> InviteRow]
  <2>1. \A i \in Row : AfterLetter(row[i], run[d].tries[i], run[d].outcome) \in InviteRow
      BY RecordedType DEF Run
  <2> QED BY <1>5, <2>1 DEF Record
<1>6. ASSUME RemindRecord(d)
      PROVE  row' \in [Row -> InviteRow]
  <2>1. \A i \in Row : [row[i] EXCEPT !.reminded = TRUE] \in InviteRow
      BY DEF InviteRow
  <2> QED BY <1>6, <2>1 DEF RemindRecord
<1>7. ASSUME ReadDue(d) \/ SendStep(d) \/ (\E i \in Row : RemindPick(d, i)) \/ FinishRun(d)
               \/ Crash(d) \/ CrashWhileSending(d)
      PROVE  row' = row
    BY <1>7 DEF ReadDue, SendStep, Send, RemindSend, RemindPick, FinishRun, Crash, CrashWhileSending
<1> QED BY <1>1, <1>2, <1>3, <1>4, <1>5, <1>6, <1>7 DEF DispatchStep, DecideStep

(* The run after its step.                                                  *)
LEMMA RunType ==
    ASSUME TypeOK, NEW d \in Instance, DispatchStep(d) \/ Crash(d) \/ CrashWhileSending(d)
    PROVE  run' \in [Instance -> Run]
<1> run \in [Instance -> Run] /\ run[d] \in Run /\ run[d].rows \in SUBSET Row
    BY DEF TypeOK, Run
<1>1. ASSUME NEW r \in Run, Set(d, r)
      PROVE  run' \in [Instance -> Run]
    BY <1>1 DEF Set
<1>2. ASSUME NEW pc \in {"idle", "swept", "after"}, Go(d, pc)
      PROVE  run' \in [Instance -> Run]
    BY <1>1, <1>2, GoType DEF Go
<1>3. CASE Sweep(d) \/ CapReached(d) \/ TurnedAway(d) \/ Record(d) \/ RemindRecord(d)
             \/ FinishRun(d) \/ Crash(d) \/ CrashWhileSending(d)
    BY <1>1, <1>2, <1>3, IdleType DEF Sweep, CapReached, TurnedAway, Record, RemindRecord,
       FinishRun, Crash, CrashWhileSending
<1>4. CASE ReadDue(d)
  <2> DEFINE tries == [i \in Row |-> IF i \in DueRows THEN row[i].attempts ELSE 0]
  <2>1. tries \in [Row -> Nat]
      BY DEF TypeOK, InviteRow
  <2>2. DueRows \in SUBSET Row
      BY DEF DueRows
  <2>3. Set(d, [run[d] EXCEPT !.pc = "read", !.rows = DueRows, !.tries = tries])
      BY <1>4 DEF ReadDue
  <2> HIDE DEF tries
  <2>4. [run[d] EXCEPT !.pc = "read", !.rows = DueRows, !.tries = tries] \in Run
      BY <2>1, <2>2 DEF Run
  <2> QED BY <1>1, <2>3, <2>4
<1>5. CASE Claim(d)
  <2> DEFINE won == {i \in run[d].rows : row[i].state = "QUEUED" /\ row[i].due}
  <2>1. Go(d, "after") \/ Set(d, [run[d] EXCEPT !.pc = "claimed", !.rows = won])
      BY <1>5 DEF Claim
  <2>2. won \in SUBSET Row
      OBVIOUS
  <2> HIDE DEF won
  <2>3. [run[d] EXCEPT !.pc = "claimed", !.rows = won] \in Run
      BY <2>2 DEF Run
  <2> QED BY <1>1, <1>2, <2>1, <2>3
<1>6. CASE DecideStep(d)
  <2> PICK missed \in SUBSET run[d].rows, waiting \in SUBSET run[d].rows,
           batch \in SUBSET run[d].rows : Decide(d, missed, waiting, batch)
      BY <1>6 DEF DecideStep
  <2>1. Go(d, "after") \/ Set(d, [run[d] EXCEPT !.pc = "ready", !.rows = batch])
      BY DEF Decide
  <2>2. [run[d] EXCEPT !.pc = "ready", !.rows = batch] \in Run
      BY DEF Run
  <2> QED BY <1>1, <1>2, <2>1, <2>2
<1>7. CASE SendStep(d)
  <2> PICK outcome \in Outcomes : Send(d, outcome) \/ RemindSend(d, outcome)
      BY <1>7 DEF SendStep
  <2>1. \/ Set(d, [run[d] EXCEPT !.pc = "answered", !.outcome = outcome])
        \/ Set(d, Idle) \/ Set(d, [run[d] EXCEPT !.pc = "reminded"])
      BY DEF Send, RemindSend
  <2>2. /\ [run[d] EXCEPT !.pc = "answered", !.outcome = outcome] \in Run
        /\ [run[d] EXCEPT !.pc = "reminded"] \in Run
      BY DEF Run
  <2> QED BY <1>1, <2>1, <2>2, IdleType
<1>8. ASSUME NEW i \in Row, RemindPick(d, i)
      PROVE  run' \in [Instance -> Run]
  <2>1. [Idle EXCEPT !.pc = "reminding", !.rows = {i}] \in Run
      BY DEF Idle, Run, Outcomes
  <2> QED BY <1>1, <1>8, <2>1 DEF RemindPick
<1> QED BY <1>3, <1>4, <1>5, <1>6, <1>7, <1>8 DEF DispatchStep

LEMMA TypeStepRun ==
    ASSUME TypeOK, NEW d \in Instance, DispatchStep(d) \/ Crash(d) \/ CrashWhileSending(d)
    PROVE  TypeOK'
<1>1. row' \in [Row -> InviteRow] /\ run' \in [Instance -> Run]
    BY RowTypeInRun, RunType
<1>2. /\ link' = link /\ listing' = listing /\ address' = address /\ running' = running
      /\ lock' = lock
    BY DEF DispatchStep, Sweep, ReadDue, CapReached, Claim, TurnedAway, DecideStep, Decide,
       SendStep, Send, RemindSend, Record, RemindPick, RemindRecord, FinishRun, Crash,
       CrashWhileSending, buyerVars
<1>3. /\ last' \in 0..2 /\ sends' \in 0..PauseAfter
      /\ letters' \in [Row -> Nat] /\ reminders' \in [Row -> Nat]
      /\ late' \in Nat /\ faults' \in Nat
  <2>1. CASE SendStep(d)
      BY <2>1, AnswerType DEF SendStep, Send, RemindSend
  <2>2. CASE CrashWhileSending(d)
      BY <2>2, LimitAssumption DEF CrashWhileSending, Logged, LetterTo, Fault, TypeOK
  <2>3. CASE Crash(d)
      BY <2>3 DEF Crash, Fault, mailVars, TypeOK
  <2>4. CASE DispatchStep(d) /\ ~SendStep(d)
    <3>1. UNCHANGED <<mailVars, faults>>
        BY <2>4 DEF DispatchStep, Sweep, ReadDue, CapReached, Claim, TurnedAway, DecideStep,
           Decide, Record, RemindPick, RemindRecord, FinishRun
    <3> QED BY <3>1 DEF mailVars, TypeOK
  <2> QED BY <2>1, <2>2, <2>3, <2>4
<1> QED BY <1>1, <1>2, <1>3 DEF TypeOK

LEMMA TypeStep == TypeOK /\ [Next]_vars => TypeOK'
<1> SUFFICES ASSUME TypeOK, [Next]_vars PROVE TypeOK'
    OBVIOUS
<1>1. CASE UNCHANGED vars
    BY <1>1 DEF vars, buyerVars, mailVars, TypeOK
<1>2. CASE Next
    BY <1>2, TypeStepAside, TypeStepRun DEF Next
<1> QED BY <1>1, <1>2

(* The type invariant.                                                      *)
THEOREM TypeCorrect == Spec => []TypeOK
<1>1. Init => TypeOK
  <2>1. NoRow \in InviteRow
      BY DEF NoRow, InviteRow, Reasons, Sources
  <2>2. ASSUME Init PROVE row \in [Row -> InviteRow] /\ run \in [Instance -> Run]
      BY <2>1, <2>2, IdleType DEF Init
  <2> QED BY <2>2, LimitAssumption, LockAssumption DEF Init, TypeOK
<1> QED BY <1>1, TypeStep, PTL DEF Spec

----------------------------------------------------------------------------
(* The buyer, the address and time.                                         *)

(* What they do to a row and to the runs.                                   *)
AsideRow(i) ==
    /\ row[i].state # "NONE" => row'[i].state # "NONE"
    /\ row'[i].reminded = row[i].reminded
    /\ row'[i].state = "SENT" <=> row[i].state = "SENT"
    /\ Dropped(i)' => Dropped(i)
    /\ row'[i].source = row[i].source \/ row[i].state = "NONE" \/ Dropped(i)
    /\ ClaimHolds /\ Claimable(i)' /\ ~Claimable(i) => faults' = faults + 1

Aside ==
    /\ run' = run /\ lock' = lock
    /\ letters' = letters /\ reminders' = reminders /\ late' = late
    /\ last' <= last
    /\ faults' \in {faults, faults + 1}
    /\ address.engaged => address'.engaged
    /\ Gone => Gone'

LEMMA SameRow ==
    ASSUME NEW i \in Row, run' = run, row'[i] = row[i]
    PROVE  AsideRow(i)
BY DEF AsideRow, Dropped, Claimable, Open, Holds

LEMMA InviteAside ==
    ASSUME TypeOK, InHandWasQueued,
           NEW j \in Row, NEW source \in Source, NEW due \in BOOLEAN, Invite(j, source, due)
    PROVE  Aside /\ \A i \in Row : AsideRow(i)
<1>1. Aside
    BY DEF Invite, Aside, mailVars, TypeOK, Gone
<1>2. ASSUME NEW i \in Row, i # j
      PROVE  AsideRow(i)
    BY <1>2, SameRow DEF Invite, TypeOK
<1>3. AsideRow(j)
  <2>1. row[j] \in InviteRow
      BY DEF TypeOK
  <2>2. /\ row'[j].state = "QUEUED" /\ row'[j].reason = "-"
        /\ row'[j].reminded = row[j].reminded
      BY <2>1 DEF Invite, TypeOK, InviteRow
  <2>3. row[j].state = "NONE" \/ Dropped(j)
      BY DEF Invite, Dropped
  <2>4. ClaimHolds => Claimable(j)
      BY <2>3 DEF InHandWasQueued, Claimable, Open, Dropped
  <2>5. row[j].state # "SENT"
      BY <2>3 DEF Dropped
  <2>6. ~Dropped(j)'
      BY <2>2 DEF Dropped
  <2> QED BY <2>2, <2>3, <2>4, <2>5, <2>6 DEF AsideRow
<1> QED BY <1>1, <1>2, <1>3

(* Rows that are queued no longer.                                          *)
LEMMA CancelQueuedAside ==
    ASSUME TypeOK, NEW rows, row' = CancelQueued(rows, "OTHER"), run' = run, NEW i \in Row
    PROVE  AsideRow(i)
<1>1. row[i] \in InviteRow
    BY DEF TypeOK
<1>2. row'[i] = row[i] \/ (row[i].state = "QUEUED" /\ row'[i] = Cancelled(row[i], "OTHER"))
    BY DEF CancelQueued
<1>3. CASE row'[i] = row[i]
    BY <1>3, SameRow
<1>4. CASE row[i].state = "QUEUED" /\ row'[i] = Cancelled(row[i], "OTHER")
  <2>1. /\ row'[i].state = "CANCELLED" /\ row'[i].reason = "OTHER"
        /\ row'[i].reminded = row[i].reminded /\ row'[i].source = row[i].source
      BY <1>1, <1>4, CancelledType, ReasonsOfDrops
  <2>2. ~Open(i)'
      BY <2>1 DEF Open, Dropped
  <2> QED BY <1>4, <2>1, <2>2 DEF AsideRow, Claimable, Dropped
<1> QED BY <1>2, <1>3, <1>4

LEMMA TurnComesAside ==
    ASSUME TypeOK, NEW j \in Row, TurnComes(j)
    PROVE  Aside /\ \A i \in Row : AsideRow(i)
<1>1. faults' \in {faults, faults + 1}
    BY DEF TurnComes, Fault
<1>2. Aside
    BY <1>1 DEF TurnComes, Aside, mailVars, TypeOK, Gone
<1>3. ASSUME NEW i \in Row, i # j
      PROVE  AsideRow(i)
    BY <1>3, SameRow DEF TurnComes, TypeOK
<1>4. AsideRow(j)
  <2>1. row[j] \in InviteRow
      BY DEF TypeOK
  <2>2. /\ row[j].state = "QUEUED" /\ row'[j].state = "QUEUED"
        /\ row'[j].reminded = row[j].reminded /\ row'[j].source = row[j].source
      BY <2>1 DEF TurnComes, TypeOK, InviteRow
  <2>3. faults' # faults + 1 => Claimable(j)
    <3>1. CASE \E d \in Instance : InHand(d) /\ j \in run[d].rows
        BY <3>1 DEF TurnComes, Fault
    <3>2. CASE ~\E d \in Instance : InHand(d) /\ j \in run[d].rows
        BY <2>2, <3>2 DEF InHand, Claimable, Open, Holds
    <3> QED BY <3>1, <3>2
  <2> QED BY <2>2, <2>3 DEF AsideRow, Dropped
<1> QED BY <1>2, <1>3, <1>4

LEMMA AsideStep ==
    ASSUME TypeOK, InHandWasQueued,
           BuyerStep \/ AddressStep \/ TimePasses \/ (\E i \in Row : TurnComes(i))
             \/ \E r \in {"cancel", "join", "accept"} : CrashOfRequest(r)
    PROVE  Aside /\ \A i \in Row : AsideRow(i)
<1>1. CASE \E i \in Row, source \in Source, due \in BOOLEAN : Invite(i, source, due)
    BY <1>1, InviteAside
<1>2. CASE CancelQueue \/ \E toStandard \in BOOLEAN : Downgrade(toStandard)
  <2>1. row' = CancelQueued(Row, "OTHER") /\ run' = run
      BY <1>2 DEF CancelQueue, Downgrade
  <2>2. Aside
      BY <1>2 DEF CancelQueue, Downgrade, Aside, mailVars, TypeOK, Gone
  <2> QED BY <2>1, <2>2, CancelQueuedAside
<1>3. CASE \/ CancelLink \/ (\E i \in Row : SwitchListing(i) \/ CloseListing(i))
           \/ TimePasses \/ \E r \in {"cancel", "join", "accept"} : CrashOfRequest(r)
  <2>1. /\ row' = row /\ run' = run /\ lock' = lock /\ address' = address /\ faults' = faults
        /\ letters' = letters /\ reminders' = reminders /\ late' = late
        /\ last' \in {last, last - 1}
      BY <1>3 DEF CancelLink, SwitchListing, CloseListing, TimePasses, CrashOfRequest,
                  mailVars, buyerVars
  <2>2. Aside
      BY <2>1 DEF Aside, TypeOK, Gone
  <2> QED BY <2>1, <2>2, SameRow
<1>4. CASE AddressStep
  <2>1. /\ row' = row /\ run' = run /\ lock' = lock /\ faults' = faults
        /\ letters' = letters /\ reminders' = reminders /\ late' = late /\ last' = last
      BY <1>4 DEF AddressStep, OptOut, Click, SignUpWithLink, VerifyEmail, ReadInvites,
                  AcceptLink, mailVars
  <2>2. (address.engaged => address'.engaged) /\ (Gone => Gone')
      BY <1>4 DEF AddressStep, OptOut, Click, SignUpWithLink, VerifyEmail, ReadInvites,
                  AcceptLink, Gone, TypeOK
  <2>3. Aside
      BY <2>1, <2>2 DEF Aside, TypeOK
  <2> QED BY <2>1, <2>3, SameRow
<1>5. CASE \E i \in Row : TurnComes(i)
    BY <1>5, TurnComesAside
<1> QED BY <1>1, <1>2, <1>3, <1>4, <1>5 DEF BuyerStep

LEMMA AsideKeeps ==
    ASSUME IInv, TypeOK', Aside, \A i \in Row : AsideRow(i)
    PROVE  /\ OneRuns' /\ InHandWasQueued' /\ OneEach' /\ AnswerLeft' /\ SentHasLeft'
           /\ Reminded' /\ Quiet' /\ Rested'
<1> USE DEF Aside
<1>1. OneRuns'
    BY DEF IInv, OneRuns
<1>2. InHandWasQueued'
  <2> SUFFICES ASSUME NEW d \in Instance, NEW i \in Row, Holds(run[d], i)
               PROVE  row'[i].state # "NONE" /\ (ClaimHolds => ~Dropped(i)')
      BY DEF InHandWasQueued, Holds, ClaimHolds
  <2>1. row[i].state # "NONE" /\ (ClaimHolds => ~Dropped(i))
      BY DEF IInv, InHandWasQueued
  <2> QED BY <2>1 DEF AsideRow
<1>3. OneEach'
  <2> SUFFICES ASSUME ClaimHolds, NEW i \in Row
               PROVE  letters'[i] + Cardinality(Owing(i)') + One(Claimable(i)') <= 1 + faults'
      BY DEF OneEach, ClaimHolds
  <2>1. letters[i] + Cardinality(Owing(i)) + One(Claimable(i)) <= 1 + faults
      BY DEF OneEach, IInv
  <2>2. Owing(i)' = Owing(i)
      BY DEF Owing, Owes, Holds
  <2>3. Claimable(i)' /\ ~Claimable(i) => faults' = faults + 1
      BY DEF AsideRow
  <2>4. Cardinality(Owing(i)) \in Nat
    <3>1. Owing(i) \subseteq Instance
        BY DEF Owing
    <3> QED BY <3>1, RowAssumption, FS_Subset, FS_CardinalityType
  <2>5. letters[i] \in Nat /\ faults \in Nat
      BY DEF IInv, TypeOK
  <2> QED BY <2>1, <2>2, <2>3, <2>4, <2>5 DEF One
<1>4. AnswerLeft'
    BY DEF IInv, AnswerLeft
<1>5. SentHasLeft'
  <2>1. faults' = 0 => faults = 0
      BY DEF IInv, TypeOK
  <2> QED BY <2>1 DEF IInv, SentHasLeft, AsideRow, ClaimHolds
<1>6. Reminded'
  <2> SUFFICES ASSUME lock, NEW i \in Row
               PROVE  reminders[i] <= faults' + One(Marked(i)')
      BY DEF Reminded
  <2>1. Marked(i)' = Marked(i)
      BY DEF Marked, AsideRow
  <2>2. reminders[i] <= faults + One(Marked(i))
      BY DEF IInv, Reminded
  <2>3. reminders[i] \in Nat /\ faults \in Nat
      BY DEF IInv, TypeOK
  <2> QED BY <2>1, <2>2, <2>3 DEF One
<1>7. Quiet'
    BY DEF IInv, Quiet
<1>8. Rested'
  <2> SUFFICES ASSUME lock, NEW d \in Instance, run[d].pc = "ready", NEW i \in run[d].rows
               PROVE  last' = 0 \/ ~Cold(i)'
      BY DEF Rested
  <2>1. i \in Row /\ Holds(run[d], i)
      BY DEF IInv, TypeOK, Run, Holds
  <2>2. row'[i].source = row[i].source
      BY <2>1 DEF IInv, InHandWasQueued, ClaimHolds, AsideRow
  <2>3. last = 0 \/ ~Cold(i)
      BY DEF IInv, Rested
  <2>4. last \in 0..2 /\ last' \in 0..2
      BY DEF IInv, TypeOK
  <2> QED BY <2>2, <2>3, <2>4 DEF Cold
<1> QED BY <1>1, <1>2, <1>3, <1>4, <1>5, <1>6, <1>7, <1>8

----------------------------------------------------------------------------
(* The dispatcher.                                                          *)

Steps(d, r) ==
    /\ r \in Run /\ run' = [run EXCEPT ![d] = r]
    /\ lock' = lock /\ address' = address
    /\ run[d].pc = "idle" => (lock => \A e \in Instance : run[e].pc = "idle")

(* The step's own part of the balance.                                      *)
Balanced(d, r, i) ==
    ClaimHolds =>
        letters'[i] + One(Owes(r, i)) + One(Claimable(i)') + faults
          <= letters[i] + One(Owes(run[d], i)) + One(Claimable(i)) + faults'

RunRow(i) ==
    /\ row[i].state # "NONE" => row'[i].state # "NONE"
    /\ row[i].reminded => row'[i].reminded
    /\ row'[i].source = row[i].source
    /\ ClaimHolds /\ Dropped(i)' => Dropped(i) \/ \A e \in Instance : run[e].pc = "idle"

(* A row is in hand since it was claimed.                                   *)
Takes(d, r, i) ==
    Holds(r, i) => run[d].pc # "idle" /\ (Holds(run[d], i) \/ row[i].state = "QUEUED")

LEMMA Stepped ==
    ASSUME TypeOK, NEW d \in Instance, NEW r, Steps(d, r)
    PROVE  run'[d] = r /\ \A e \in Instance \ {d} : run'[e] = run[e]
BY DEF Steps, TypeOK

LEMMA OneRunsStep ==
    ASSUME TypeOK, OneRuns, NEW d \in Instance, NEW r, Steps(d, r)
    PROVE  OneRuns' /\ (lock => \A e \in Instance \ {d} : run[e].pc = "idle" /\ run'[e].pc = "idle")
<1>1. run'[d] = r /\ \A e \in Instance \ {d} : run'[e] = run[e]
    BY Stepped
<1>2. lock => \A e \in Instance \ {d} : run[e].pc = "idle"
    BY DEF Steps, OneRuns
<1> QED BY <1>1, <1>2 DEF OneRuns, Steps

LEMMA InHandStep ==
    ASSUME TypeOK, InHandWasQueued, NEW d \in Instance, NEW r, Steps(d, r),
           \A i \in Row : RunRow(i),
           \A i \in Row : Takes(d, r, i)
    PROVE  InHandWasQueued'
<1> SUFFICES ASSUME NEW e \in Instance, NEW i \in Row, Holds(run'[e], i)
             PROVE  row'[i].state # "NONE" /\ (ClaimHolds => ~Dropped(i)')
    BY DEF InHandWasQueued, Holds, ClaimHolds, Steps
<1>1. run'[d] = r /\ \A f \in Instance \ {d} : run'[f] = run[f]
    BY Stepped
<1>2. run[e].pc # "idle" /\ (Holds(run[e], i) \/ row[i].state = "QUEUED")
    BY <1>1 DEF Takes, Holds
<1>3. row[i].state # "NONE" /\ (ClaimHolds => ~Dropped(i))
    BY <1>2 DEF InHandWasQueued, Dropped
<1> QED BY <1>2, <1>3 DEF RunRow

LEMMA OneEachStep ==
    ASSUME TypeOK, TypeOK', OneEach, NEW d \in Instance, NEW r, Steps(d, r),
           \A i \in Row : Balanced(d, r, i)
    PROVE  OneEach'
<1> SUFFICES ASSUME ClaimHolds, NEW i \in Row
             PROVE  letters'[i] + Cardinality(Owing(i)') + One(Claimable(i)') <= 1 + faults'
    BY DEF OneEach, ClaimHolds, Steps
<1> QED BY BalanceMoves DEF Balanced, Steps

(* A step of the run that sends and records nothing.                        *)
Silent(d, r) ==
    /\ letters' = letters /\ reminders' = reminders /\ late' = late /\ last' = last
    /\ faults' \in {faults, faults + 1}
    /\ r.pc # "answered" /\ r.pc # "reminded"
    /\ run[d].pc = "answered" => faults' = faults + 1
    /\ run[d].pc = "reminded" =>
         faults' = faults + 1 \/ \A i \in run[d].rows : row'[i].reminded
    /\ r.pc \in {"ready", "reminding"} => ~Gone
    /\ r.pc = "ready" => \A i \in r.rows : last = 0 \/ ~Cold(i)

LEMMA SilentStep ==
    ASSUME IInv, TypeOK', NEW d \in Instance, NEW r, Steps(d, r), Silent(d, r),
           \A i \in Row : RunRow(i) /\ Balanced(d, r, i),
           \A i \in Row : row'[i].state = "SENT" <=> row[i].state = "SENT",
           \A i \in Row : Takes(d, r, i)
    PROVE  /\ OneRuns' /\ InHandWasQueued' /\ OneEach' /\ AnswerLeft' /\ SentHasLeft'
           /\ Reminded' /\ Quiet' /\ Rested'
<1> TypeOK /\ faults \in Nat /\ faults' \in Nat
    BY DEF IInv, TypeOK
<1>1. run'[d] = r /\ \A e \in Instance \ {d} : run'[e] = run[e]
    BY Stepped
<1>2. OneRuns' /\ (lock => \A e \in Instance \ {d} : run'[e].pc = "idle")
    BY OneRunsStep DEF IInv
<1>3. InHandWasQueued'
    BY InHandStep DEF IInv
<1>4. OneEach'
    BY OneEachStep DEF IInv
<1>5. AnswerLeft'
    BY <1>1 DEF IInv, AnswerLeft, Silent
<1>6. SentHasLeft'
  <2> SUFFICES ASSUME NEW i \in Row
               PROVE  /\ row'[i].state = "SENT" => letters[i] > 0
                      /\ letters[i] > 0 /\ faults' = 0 /\ ClaimHolds =>
                           \/ row'[i].state = "SENT"
                           \/ \E e \in Instance : run'[e].pc = "answered" /\ i \in run'[e].rows
      BY DEF SentHasLeft, Silent, ClaimHolds, Steps
  <2>1. row[i].state = "SENT" => letters[i] > 0
      BY DEF IInv, SentHasLeft
  <2>2. ASSUME letters[i] > 0, faults' = 0, ClaimHolds, row[i].state # "SENT"
        PROVE  \E e \in Instance : run'[e].pc = "answered" /\ i \in run'[e].rows
    <3>1. faults = 0 /\ faults' # faults + 1
        BY <2>2 DEF Silent
    <3>2. PICK e \in Instance : run[e].pc = "answered" /\ i \in run[e].rows
        BY <2>2, <3>1 DEF IInv, SentHasLeft
    <3>3. e # d
        BY <3>1, <3>2 DEF Silent
    <3> QED BY <1>1, <3>2, <3>3
  <2> QED BY <2>1, <2>2
<1>7. Reminded'
  <2> SUFFICES ASSUME lock, NEW i \in Row
               PROVE  reminders[i] <= faults' + One(Marked(i)')
      BY DEF Reminded, Silent, Steps
  <2>1. Marked(i) => Marked(i)' \/ faults' = faults + 1
    <3>1. CASE row[i].reminded
        BY <3>1 DEF RunRow, Marked
    <3>2. ASSUME NEW e \in Instance, run[e].pc = "reminded", i \in run[e].rows
          PROVE  Marked(i)' \/ faults' = faults + 1
      <4>1. CASE e = d
          BY <3>2, <4>1 DEF Silent, Marked
      <4>2. CASE e # d
          BY <1>1, <3>2, <4>2 DEF Marked
      <4> QED BY <4>1, <4>2
    <3> QED BY <3>1, <3>2 DEF Marked
  <2>2. reminders[i] <= faults + One(Marked(i))
      BY DEF IInv, Reminded
  <2>3. reminders[i] \in Nat
      BY DEF TypeOK
  <2> QED BY <2>1, <2>2, <2>3 DEF One, Silent
<1>8. Quiet'
  <2>1. Gone' = Gone
      BY DEF Gone, Steps
  <2> QED BY <1>1, <2>1 DEF IInv, Quiet, Silent, Steps
<1>9. Rested'
  <2> SUFFICES ASSUME lock, NEW e \in Instance, run'[e].pc = "ready", NEW i \in run'[e].rows
               PROVE  last = 0 \/ ~Cold(i)'
      BY DEF Rested, Silent, Steps
  <2>1. e = d
      BY <1>2
  <2>2. i \in Row
      BY DEF TypeOK, Run
  <2> QED BY <1>1, <2>1, <2>2 DEF Silent, Cold, RunRow, Steps
<1> QED BY <1>2, <1>3, <1>4, <1>5, <1>6, <1>7, <1>8, <1>9

----------------------------------------------------------------------------
(* Steps that keep a row in hand or have nothing to do with it; that let go *)
(* of a row they owe an answer; that end the run by a fault.                *)

LEMMA KeepBalance ==
    ASSUME TypeOK, TypeOK', NEW d \in Instance, NEW r, NEW i \in Row, Steps(d, r),
           letters' = letters, faults' = faults,
           Open(i)' => Open(i), row'[i].due => row[i].due,
           Owes(r, i) <=> Owes(run[d], i), Holds(run[d], i) => Holds(r, i)
    PROVE  Balanced(d, r, i)
<1>1. Claimable(i)' => Claimable(i)
    BY ClaimableKept DEF TypeOK, Steps
<1>2. letters[i] \in Nat /\ faults \in Nat
    BY DEF TypeOK
<1> QED BY <1>1, <1>2 DEF Balanced, One

LEMMA ReleaseBalance ==
    ASSUME TypeOK, NEW d \in Instance, NEW r, NEW i \in Row,
           letters' = letters, faults' = faults, Owes(run[d], i), ~Owes(r, i)
    PROVE  Balanced(d, r, i)
<1>1. letters[i] \in Nat /\ faults \in Nat
    BY DEF TypeOK
<1> QED BY <1>1 DEF Balanced, One

LEMMA FaultBalance ==
    ASSUME TypeOK, NEW d \in Instance, NEW r, NEW i \in Row,
           letters' = letters, faults' = faults + 1, ~Owes(r, i)
    PROVE  Balanced(d, r, i)
<1>1. letters[i] \in Nat /\ faults \in Nat
    BY DEF TypeOK
<1> QED BY <1>1 DEF Balanced, One

LEMMA RowSame ==
    ASSUME NEW i \in Row, row'[i] = row[i]
    PROVE  RunRow(i) /\ (Open(i)' <=> Open(i)) /\ (row'[i].due => row[i].due)
BY DEF RunRow, Open, Dropped

(* A row that is queued no longer, and not for a reason that may end.       *)
LEMMA RowCancelled ==
    ASSUME TypeOK, NEW i \in Row, row[i].state = "QUEUED", row'[i] = Cancelled(row[i], "OTHER")
    PROVE  /\ RunRow(i) /\ ~Open(i)' /\ ~row'[i].due
           /\ row'[i].state = "SENT" <=> row[i].state = "SENT"
<1>1. row[i] \in InviteRow
    BY DEF TypeOK
<1>2. /\ row'[i].state = "CANCELLED" /\ row'[i].reason = "OTHER" /\ ~row'[i].due
      /\ row'[i].reminded = row[i].reminded /\ row'[i].source = row[i].source
    BY <1>1, CancelledType, ReasonsOfDrops
<1> QED BY <1>2 DEF RunRow, Open, Dropped

(* A row that changes its time.                                             *)
LEMMA RowMoved ==
    ASSUME TypeOK, NEW i \in Row, NEW b \in BOOLEAN, row'[i] = [row[i] EXCEPT !.due = b]
    PROVE  /\ RunRow(i) /\ (Open(i)' <=> Open(i)) /\ row'[i].due = b
           /\ row'[i].state = row[i].state
<1>1. row[i] \in InviteRow
    BY DEF TypeOK
<1>2. /\ row'[i].state = row[i].state /\ row'[i].reason = row[i].reason /\ row'[i].due = b
      /\ row'[i].reminded = row[i].reminded /\ row'[i].source = row[i].source
    BY <1>1 DEF InviteRow
<1> QED BY <1>2 DEF RunRow, Open, Dropped

Rest == /\ OneRuns' /\ InHandWasQueued' /\ OneEach' /\ AnswerLeft' /\ SentHasLeft'
        /\ Reminded' /\ Quiet' /\ Rested'

(* Steps that touch no row in hand.                                         *)
LEMMA FreeStep ==
    ASSUME IInv, TypeOK', NEW d \in Instance, NEW r, Steps(d, r), Silent(d, r), faults' = faults,
           \A i \in Row : ~Holds(r, i) /\ ~Holds(run[d], i),
           \A i \in Row : RunRow(i) /\ (Open(i)' => Open(i)) /\ (row'[i].due => row[i].due),
           \A i \in Row : row'[i].state = "SENT" <=> row[i].state = "SENT"
    PROVE  Rest
<1>1. TypeOK
    BY DEF IInv
<1>2. \A i \in Row : Balanced(d, r, i)
    BY <1>1, KeepBalance DEF Owes, Silent
<1>3. \A i \in Row : Takes(d, r, i)
    BY DEF Takes
<1> QED BY <1>2, <1>3, SilentStep DEF Rest

LEMMA SweepStep ==
    ASSUME IInv, TypeOK', NEW d \in Instance, Sweep(d)
    PROVE  Rest
<1> DEFINE r == [Idle EXCEPT !.pc = "swept"]
<1>1. r \in Run /\ r.pc = "swept"
    BY GoType
<1>2. Steps(d, r) /\ Silent(d, r) /\ faults' = faults
    BY <1>1 DEF Sweep, Go, Set, Steps, Silent, mailVars, IInv, TypeOK
<1>3. \A i \in Row : ~Holds(r, i) /\ ~Holds(run[d], i)
    BY <1>1 DEF Sweep, Holds
<1>4. ASSUME NEW i \in Row
      PROVE  /\ RunRow(i) /\ (Open(i)' => Open(i)) /\ (row'[i].due => row[i].due)
             /\ row'[i].state = "SENT" <=> row[i].state = "SENT"
  <2>1. row[i] \in InviteRow
      BY DEF IInv, TypeOK
  <2>2. \/ row'[i] = row[i]
        \/ row[i].state = "QUEUED" /\ row'[i] = Cancelled(row[i], "OTHER")
        \/ /\ row[i].state = "QUEUED" /\ AutoInviteOff(i)
           /\ row'[i] = Cancelled(row[i], "AUTO_INVITE_OFF")
        \/ Resumable(i) /\ row'[i] = [row[i] EXCEPT !.state = "QUEUED", !.reason = "-"]
      BY DEF Sweep
  <2>3. CASE row'[i] = row[i]
      BY <2>3, RowSame
  <2>4. CASE row[i].state = "QUEUED" /\ row'[i] = Cancelled(row[i], "OTHER")
      BY <2>4, RowCancelled DEF IInv
  <2>5. CASE /\ row[i].state = "QUEUED" /\ AutoInviteOff(i)
             /\ row'[i] = Cancelled(row[i], "AUTO_INVITE_OFF")
    <3>1. /\ row'[i].state = "CANCELLED" /\ ~row'[i].due
          /\ row'[i].reminded = row[i].reminded /\ row'[i].source = row[i].source
        BY <2>1, <2>5, CancelledType, ReasonsOfDrops
    <3>2. ClaimHolds => \A e \in Instance : run[e].pc = "idle"
        BY <2>5 DEF ClaimHolds, AutoInviteOff, IInv, NothingOff, Sweep
    <3> QED BY <2>5, <3>1, <3>2 DEF RunRow, Open
  <2>6. CASE Resumable(i) /\ row'[i] = [row[i] EXCEPT !.state = "QUEUED", !.reason = "-"]
    <3>1. /\ row'[i].state = "QUEUED" /\ row'[i].due = row[i].due
          /\ row'[i].reminded = row[i].reminded /\ row'[i].source = row[i].source
        BY <2>1, <2>6 DEF InviteRow
    <3>2. Dropped(i) /\ ~Dropped(i)' /\ row[i].state = "CANCELLED"
        BY <2>6, <3>1 DEF Resumable, Dropped
    <3> QED BY <3>1, <3>2 DEF RunRow, Open
  <2> QED BY <2>2, <2>3, <2>4, <2>5, <2>6
<1> HIDE DEF r
<1> QED BY <1>2, <1>3, <1>4, FreeStep

LEMMA ReadStep ==
    ASSUME IInv, TypeOK', NEW d \in Instance,
           ReadDue(d) \/ FinishRun(d) \/ \E j \in Row : RemindPick(d, j)
    PROVE  Rest
<1> DEFINE r == run'[d]
<1>1. run' = [run EXCEPT ![d] = r] /\ r \in Run
  <2>1. PICK s : Set(d, s)
      BY DEF ReadDue, FinishRun, RemindPick
  <2> QED BY <2>1 DEF Set, IInv, TypeOK
<1>2. run[d] \in Run
    BY DEF IInv, TypeOK
<1>3. /\ run[d].pc \in {"swept", "after", "reminding"}
      /\ r.pc \in {"read", "idle", "reminding"} /\ (r.pc = "reminding" => ~Gone)
  <2>1. CASE ReadDue(d)
      BY <1>2, <2>1 DEF ReadDue, Set, IInv, TypeOK, Run
  <2>2. CASE FinishRun(d)
      BY <1>2, <2>2, IdleType DEF FinishRun, Set, IInv, TypeOK
  <2>3. ASSUME NEW j \in Row, RemindPick(d, j)
        PROVE  run[d].pc = "after" /\ r.pc = "reminding" /\ ~Gone
    <3>1. r = [Idle EXCEPT !.pc = "reminding", !.rows = {j}]
        BY <2>3 DEF RemindPick, Set, IInv, TypeOK
    <3>2. r.pc = "reminding"
        BY <3>1 DEF Idle
    <3> QED BY <2>3, <3>2 DEF RemindPick
  <2> QED BY <2>1, <2>2, <2>3
<1>4. /\ row' = row /\ lock' = lock /\ address' = address /\ faults' = faults
      /\ letters' = letters /\ reminders' = reminders /\ late' = late /\ last' = last
    BY DEF ReadDue, FinishRun, RemindPick, mailVars
<1>5. Steps(d, r) /\ Silent(d, r)
    BY <1>1, <1>3, <1>4 DEF Steps, Silent, IInv, TypeOK
<1>6. \A i \in Row : ~Holds(r, i) /\ ~Holds(run[d], i)
    BY <1>3 DEF Holds
<1> QED BY <1>4, <1>5, <1>6, RowSame, FreeStep

LEMMA CapStep ==
    ASSUME IInv, TypeOK', NEW d \in Instance, CapReached(d)
    PROVE  Rest
<1>1. Steps(d, Idle) /\ Silent(d, Idle) /\ faults' = faults
    BY IdleType DEF CapReached, Set, Steps, Silent, mailVars, IInv, TypeOK
<1>2. \A i \in Row : ~Holds(Idle, i) /\ ~Holds(run[d], i)
    BY IdleType DEF CapReached, Holds
<1>3. ASSUME NEW i \in Row
      PROVE  /\ RunRow(i) /\ (Open(i)' => Open(i)) /\ (row'[i].due => row[i].due)
             /\ row'[i].state = "SENT" <=> row[i].state = "SENT"
  <2>1. row'[i] = row[i] \/ row'[i] = [row[i] EXCEPT !.due = FALSE]
      BY DEF CapReached
  <2> QED BY <2>1, RowSame, RowMoved DEF IInv
<1> QED BY <1>1, <1>2, <1>3, FreeStep

LEMMA RemindRecordStep ==
    ASSUME IInv, TypeOK', NEW d \in Instance, RemindRecord(d)
    PROVE  Rest
<1>1. ASSUME NEW i \in Row
      PROVE  /\ RunRow(i) /\ (Open(i)' => Open(i)) /\ (row'[i].due => row[i].due)
             /\ row'[i].state = "SENT" <=> row[i].state = "SENT"
             /\ i \in run[d].rows => row'[i].reminded
  <2>1. row[i] \in InviteRow
      BY DEF IInv, TypeOK
  <2>2. row'[i] = IF i \in run[d].rows THEN [row[i] EXCEPT !.reminded = TRUE] ELSE row[i]
      BY DEF RemindRecord
  <2>3. /\ row'[i].state = row[i].state /\ row'[i].reason = row[i].reason
        /\ row'[i].due = row[i].due /\ row'[i].source = row[i].source
        /\ row[i].reminded => row'[i].reminded
        /\ i \in run[d].rows => row'[i].reminded
      BY <2>1, <2>2 DEF InviteRow
  <2> QED BY <2>3 DEF RunRow, Open, Dropped
<1>2. \A i \in run[d].rows : row'[i].reminded
    BY <1>1 DEF IInv, TypeOK, Run
<1>3. Steps(d, Idle) /\ Silent(d, Idle) /\ faults' = faults
    BY <1>2, IdleType DEF RemindRecord, Set, Steps, Silent, mailVars, IInv, TypeOK
<1>4. \A i \in Row : ~Holds(Idle, i) /\ ~Holds(run[d], i)
    BY IdleType DEF RemindRecord, Holds
<1> QED BY <1>1, <1>3, <1>4, FreeStep

----------------------------------------------------------------------------
(* Claims, and rows let go of.                                              *)

LEMMA ClaimStep ==
    ASSUME IInv, TypeOK', NEW d \in Instance, Claim(d)
    PROVE  Rest
<1> DEFINE won == {i \in run[d].rows : row[i].state = "QUEUED" /\ row[i].due}
<1>1. /\ run[d].pc = "read" /\ lock' = lock /\ address' = address /\ faults' = faults
      /\ letters' = letters /\ reminders' = reminders /\ late' = late /\ last' = last
      /\ \A i \in Row : row'[i] = IF i \in won THEN [row[i] EXCEPT !.due = FALSE] ELSE row[i]
    BY DEF Claim, mailVars
<1>2. run[d] \in Run /\ won \subseteq Row
    BY DEF IInv, TypeOK, Run
<1>3. ASSUME NEW i \in Row
      PROVE  /\ RunRow(i) /\ (Open(i)' => Open(i)) /\ (row'[i].due => row[i].due)
             /\ row'[i].state = "SENT" <=> row[i].state = "SENT"
             /\ i \in won => ~row'[i].due
    BY <1>1, RowSame, RowMoved DEF IInv
<1>4. \A i \in Row : ~Holds(run[d], i)
    BY <1>1 DEF Holds
<1>5. ASSUME NEW r \in Run, Set(d, r), r.pc \in {"after", "claimed"}
      PROVE  Steps(d, r) /\ Silent(d, r)
    BY <1>1, <1>5 DEF Steps, Silent, Set, IInv, TypeOK
<1>6. CASE won = {}
  <2> DEFINE r == [Idle EXCEPT !.pc = "after"]
  <2>1. r \in Run /\ r.pc = "after" /\ Set(d, r)
      BY <1>6, GoType DEF Claim, Go
  <2> HIDE DEF r
  <2>2. \A i \in Row : ~Holds(r, i)
      BY <2>1 DEF Holds
  <2> QED BY <1>1, <1>3, <1>4, <1>5, <2>1, <2>2, FreeStep
<1>7. CASE won # {}
  <2> DEFINE r == [run[d] EXCEPT !.pc = "claimed", !.rows = won]
  <2>1. Set(d, r)
      BY <1>7 DEF Claim
  <2>2. r \in Run /\ r.pc = "claimed" /\ r.rows = won
      BY <1>2 DEF Run
  <2> HIDE DEF r
  <2>3. Steps(d, r) /\ Silent(d, r)
      BY <1>5, <2>1, <2>2
  <2>4. run'[d] = r
      BY <2>3, Stepped DEF IInv
  <2>5. ASSUME NEW i \in Row, i \in won
        PROVE  Balanced(d, r, i)
    <3>1. Claimable(i) /\ ~Claimable(i)' /\ ~Owes(run[d], i)
        BY <1>3, <1>4, <2>2, <2>4, <2>5 DEF Claimable, Open, Holds, Owes
    <3>2. letters[i] \in Nat /\ faults \in Nat
        BY DEF IInv, TypeOK
    <3> QED BY <1>1, <3>1, <3>2 DEF Balanced, One
  <2>6. ASSUME NEW i \in Row, i \notin won
        PROVE  Balanced(d, r, i)
    <3>1. ~Holds(r, i) /\ ~Holds(run[d], i)
        BY <1>4, <2>2, <2>6 DEF Holds
    <3> QED BY <1>1, <1>3, <2>3, <3>1, KeepBalance DEF Owes, IInv
  <2>7. \A i \in Row : Takes(d, r, i)
      BY <1>1, <2>2 DEF Takes, Holds
  <2> QED BY <1>3, <2>3, <2>5, <2>6, <2>7, SilentStep DEF Rest
<1> QED BY <1>6, <1>7

LEMMA TurnedAwayStep ==
    ASSUME IInv, TypeOK', NEW d \in Instance, TurnedAway(d)
    PROVE  Rest
<1> DEFINE r == [Idle EXCEPT !.pc = "after"]
<1>1. /\ run[d].pc = "claimed" /\ lock' = lock /\ address' = address /\ faults' = faults
      /\ letters' = letters /\ reminders' = reminders /\ late' = late /\ last' = last
      /\ row' = CancelQueued(run[d].rows, "OTHER") /\ Set(d, r)
    BY DEF TurnedAway, mailVars, Go
<1>2. r \in Run /\ r.pc = "after" /\ r.rows = {}
    BY GoType
<1> HIDE DEF r
<1>3. Steps(d, r) /\ Silent(d, r)
    BY <1>1, <1>2 DEF Steps, Silent, Set, IInv, TypeOK
<1>4. ASSUME NEW i \in Row
      PROVE  /\ RunRow(i) /\ (Open(i)' => Open(i)) /\ (row'[i].due => row[i].due)
             /\ row'[i].state = "SENT" <=> row[i].state = "SENT"
  <2>1. row'[i] = row[i] \/ (row[i].state = "QUEUED" /\ row'[i] = Cancelled(row[i], "OTHER"))
      BY <1>1 DEF CancelQueued
  <2> QED BY <2>1, RowSame, RowCancelled DEF IInv
<1>5. ASSUME NEW i \in Row
      PROVE  ~Holds(r, i) /\ Takes(d, r, i) /\ Balanced(d, r, i)
  <2>1. ~Holds(r, i) /\ Takes(d, r, i)
      BY <1>2 DEF Holds, Takes
  <2>2. CASE i \in run[d].rows
    <3>1. Owes(run[d], i)
        BY <1>1, <2>2 DEF Owes, Holds
    <3> QED BY <1>1, <2>1, <3>1, ReleaseBalance DEF Owes, IInv
  <2>3. CASE i \notin run[d].rows
    <3>1. ~Holds(run[d], i)
        BY <2>3 DEF Holds
    <3> QED BY <1>1, <1>3, <1>4, <2>1, <3>1, KeepBalance DEF Owes, IInv
  <2> QED BY <2>1, <2>2, <2>3
<1> QED BY <1>3, <1>4, <1>5, SilentStep DEF Rest

LEMMA DecideRows ==
    ASSUME IInv, NEW d \in Instance, NEW missed, NEW waiting, NEW batch,
           Decide(d, missed, waiting, batch), NEW i \in Row
    PROVE  /\ RunRow(i)
           /\ row'[i].state = "SENT" <=> row[i].state = "SENT"
           /\ i \notin run[d].rows \/ i \in batch => row'[i] = row[i]
<1>1. \/ row'[i] = row[i]
      \/ /\ row[i].state = "QUEUED" /\ i \in run[d].rows /\ i \notin batch
         /\ row'[i] = Cancelled(row[i], "OTHER") \/ row'[i] = [row[i] EXCEPT !.due = TRUE]
  <2>1. /\ batch \subseteq run[d].rows /\ batch \cap (Paused(d) \cup Held(d)) = {}
        /\ missed \subseteq Held(d)
      BY DEF Decide
  <2>2. Paused(d) \subseteq run[d].rows /\ Held(d) \subseteq run[d].rows
      BY DEF Paused, Held
  <2> QED BY <2>1, <2>2 DEF Decide
<1> QED BY <1>1, RowSame, RowCancelled, RowMoved DEF IInv

LEMMA DecideKeeps ==
    ASSUME IInv, TypeOK', NEW d \in Instance, DecideStep(d)
    PROVE  Rest
<1> PICK missed \in SUBSET run[d].rows, waiting \in SUBSET run[d].rows,
         batch \in SUBSET run[d].rows : Decide(d, missed, waiting, batch)
    BY DEF DecideStep
<1>1. /\ run[d].pc = "claimed" /\ ~Gone /\ lock' = lock /\ address' = address /\ faults' = faults
      /\ letters' = letters /\ reminders' = reminders /\ late' = late /\ last' = last
    BY DEF Decide, mailVars
<1>2. ASSUME NEW i \in batch
      PROVE  last = 0 \/ ~Cold(i)
  <2>1. last \in 0..2
      BY DEF IInv, TypeOK
  <2>2. i \in run[d].rows /\ i \notin Paused(d) /\ i \notin Held(d)
      BY DEF Decide
  <2> QED BY <2>1, <2>2 DEF Held
<1>3. PICK r \in Run : /\ Set(d, r)
                       /\ \/ r.pc = "after" /\ r.rows = {} /\ batch = {}
                          \/ r.pc = "ready" /\ r.rows = batch
  <2>1. CASE batch = {}
      BY <2>1, GoType DEF Decide, Go
  <2>2. CASE batch # {}
    <3> DEFINE s == [run[d] EXCEPT !.pc = "ready", !.rows = batch]
    <3>1. Set(d, s)
        BY <2>2 DEF Decide
    <3>2. run[d] \in Run
        BY DEF IInv, TypeOK
    <3>3. s \in Run /\ s.pc = "ready" /\ s.rows = batch
        BY <3>2 DEF Run
    <3> HIDE DEF s
    <3> QED BY <3>1, <3>3
  <2> QED BY <2>1, <2>2
<1>4. Steps(d, r) /\ Silent(d, r)
    BY <1>1, <1>2, <1>3 DEF Steps, Silent, Set, IInv, TypeOK
<1>5. ASSUME NEW i \in Row
      PROVE  Takes(d, r, i) /\ Balanced(d, r, i)
  <2>1. Holds(r, i) <=> i \in batch
      BY <1>3 DEF Holds
  <2>2. Owes(r, i) <=> i \in batch
      BY <1>3, <2>1 DEF Owes
  <2>3. Owes(run[d], i) <=> i \in run[d].rows
      BY <1>1 DEF Owes, Holds
  <2>4. Takes(d, r, i)
      BY <1>1, <2>1 DEF Takes, Holds
  <2>5. CASE i \in run[d].rows /\ i \notin batch
      BY <1>1, <2>2, <2>3, <2>4, <2>5, ReleaseBalance DEF IInv
  <2>6. CASE i \notin run[d].rows \/ i \in batch
    <3>1. (Open(i)' => Open(i)) /\ (row'[i].due => row[i].due)
        BY <2>6, DecideRows, RowSame
    <3>2. Holds(run[d], i) => Holds(r, i)
        BY <2>1, <2>6 DEF Holds
    <3> QED BY <1>1, <1>4, <2>2, <2>3, <2>4, <2>6, <3>1, <3>2, KeepBalance DEF IInv
  <2> QED BY <2>4, <2>5, <2>6
<1> QED BY <1>4, <1>5, DecideRows, SilentStep DEF Rest

LEMMA CrashStep ==
    ASSUME IInv, TypeOK', NEW d \in Instance, Crash(d)
    PROVE  Rest
<1>1. /\ run[d].pc # "idle" /\ lock' = lock /\ address' = address /\ row' = row
      /\ letters' = letters /\ reminders' = reminders /\ late' = late /\ last' = last
      /\ faults' = faults + 1 /\ Set(d, Idle)
    BY DEF Crash, mailVars, Fault
<1>2. Steps(d, Idle) /\ Silent(d, Idle)
    BY <1>1, IdleType DEF Steps, Silent, Set, IInv, TypeOK
<1>3. ASSUME NEW i \in Row
      PROVE  Takes(d, Idle, i) /\ Balanced(d, Idle, i)
  <2>1. ~Holds(Idle, i)
      BY IdleType DEF Holds
  <2> QED BY <1>1, <2>1, FaultBalance DEF Takes, Owes, IInv
<1> QED BY <1>1, <1>2, <1>3, RowSame, SilentStep DEF Rest

----------------------------------------------------------------------------
(* Letters, their answers and reminders.                                    *)

(* While an instance writes, with the lock no other does, and nothing left  *)
(* late.                                                                    *)
LEMMA QuietRested ==
    ASSUME IInv, NEW d \in Instance, NEW r, Steps(d, r), r.pc \notin {"ready", "reminding"},
           \/ late' = late
           \/ run[d].pc \in {"ready", "reminding"} /\ late' = IF Gone THEN late + 1 ELSE late
    PROVE  Quiet' /\ Rested'
<1>1. run'[d] = r /\ \A e \in Instance \ {d} : run'[e] = run[e]
    BY Stepped DEF IInv
<1>2. lock => \A e \in Instance \ {d} : run'[e].pc = "idle"
    BY OneRunsStep DEF IInv
<1>3. Gone' = Gone /\ lock' = lock
    BY DEF Gone, Steps
<1>4. Quiet'
    BY <1>1, <1>2, <1>3 DEF IInv, Quiet, TypeOK
<1>5. Rested'
    BY <1>1, <1>2, <1>3 DEF Rested
<1> QED BY <1>4, <1>5

(* What an answer leaves: at most one more letter for the rows it is about, *)
(* and that only when it is known to have left, or by a fault.              *)
LEMMA LetterLeaves ==
    ASSUME TypeOK, NEW rows, NEW outcome \in Outcomes, Answer(outcome, LetterTo(rows))
    PROVE  /\ reminders' = reminders /\ faults' \in {faults, faults + 1}
           /\ late' \in {late, IF Gone THEN late + 1 ELSE late}
           /\ \A i \in Row :
                /\ letters'[i] = letters[i] \/ (i \in rows /\ letters'[i] = letters[i] + 1)
                /\ outcome = "SENT" /\ i \in rows => letters'[i] = letters[i] + 1
                /\ outcome # "SENT" /\ faults' = faults => letters'[i] = letters[i]
<1>1. \/ outcome = "SENT" /\ LetterTo(rows) /\ faults' = faults
      \/ outcome # "SENT" /\ LetterTo(rows) /\ faults' = faults + 1
      \/ /\ outcome # "SENT" /\ faults' = faults
         /\ letters' = letters /\ reminders' = reminders /\ late' = late
    BY DEF Answer, Fault, mailVars
<1>2. LetterTo(rows) =>
        /\ reminders' = reminders /\ late' = IF Gone THEN late + 1 ELSE late
        /\ \A i \in Row : letters'[i] = letters[i] + IF i \in rows THEN 1 ELSE 0
    BY DEF LetterTo, Gone
<1>3. \A i \in Row : letters[i] \in Nat /\ letters[i] + 0 = letters[i]
    BY DEF TypeOK
<1>4. faults \in Nat
    BY DEF TypeOK
<1> QED BY <1>1, <1>2, <1>3, <1>4

LEMMA LetterStep ==
    ASSUME IInv, TypeOK', NEW d \in Instance, NEW outcome \in Outcomes, Send(d, outcome)
    PROVE  Rest
<1> DEFINE r == [run[d] EXCEPT !.pc = "answered", !.outcome = outcome]
<1>1. /\ run[d].pc = "ready" /\ lock' = lock /\ address' = address /\ row' = row
      /\ Set(d, r)
    BY DEF Send
<1>2. run[d] \in Run /\ faults \in Nat /\ \A i \in Row : letters[i] \in Nat /\ reminders[i] \in Nat
    BY DEF IInv, TypeOK
<1>3. r \in Run /\ r.pc = "answered" /\ r.rows = run[d].rows /\ r.outcome = outcome
    BY <1>2 DEF Run
<1> HIDE DEF r
<1>4. Steps(d, r)
    BY <1>1, <1>3 DEF Steps, Set
<1>5. /\ reminders' = reminders /\ faults' \in {faults, faults + 1}
      /\ late' \in {late, IF Gone THEN late + 1 ELSE late}
      /\ \A i \in Row :
           /\ letters'[i] = letters[i] \/ (i \in run[d].rows /\ letters'[i] = letters[i] + 1)
           /\ outcome = "SENT" /\ i \in run[d].rows => letters'[i] = letters[i] + 1
           /\ outcome # "SENT" /\ faults' = faults => letters'[i] = letters[i]
    BY LetterLeaves DEF Send, IInv
<1>6. run'[d] = r /\ \A e \in Instance \ {d} : run'[e] = run[e]
    BY <1>4, Stepped DEF IInv
<1>7. OneRuns'
    BY <1>4, OneRunsStep DEF IInv
<1>8. InHandWasQueued'
  <2>1. \A i \in Row : RunRow(i) /\ Takes(d, r, i)
      BY <1>1, <1>3, RowSame DEF Takes, Holds
  <2> QED BY <1>4, <2>1, InHandStep DEF IInv
<1>9. OneEach'
  <2>1. ASSUME NEW i \in Row
        PROVE  Balanced(d, r, i)
    <3>1. Claimable(i)' => Claimable(i)
        BY <1>1, <1>3, <1>4, RowSame, ClaimableKept DEF Holds, Steps, IInv, TypeOK
    <3>2. /\ Owes(run[d], i) <=> i \in run[d].rows
          /\ Owes(r, i) <=> i \in run[d].rows /\ outcome # "SENT"
        BY <1>1, <1>3 DEF Owes, Holds
    <3>3. /\ letters'[i] = letters[i] \/ (i \in run[d].rows /\ letters'[i] = letters[i] + 1)
          /\ outcome # "SENT" /\ faults' = faults => letters'[i] = letters[i]
          /\ letters[i] \in Nat /\ faults \in Nat /\ faults' \in {faults, faults + 1}
        BY <1>2, <1>5
    <3>4. letters'[i] + One(Owes(r, i)) + faults <= letters[i] + One(Owes(run[d], i)) + faults'
        BY <3>2, <3>3 DEF One
    <3>5. /\ One(Owes(r, i)) \in Nat /\ One(Owes(run[d], i)) \in Nat
          /\ One(Claimable(i)') \in Nat /\ One(Claimable(i)) \in Nat
          /\ One(Claimable(i)') <= One(Claimable(i))
        BY <3>1 DEF One
    <3> QED BY <3>3, <3>4, <3>5 DEF Balanced
  <2> QED BY <1>4, <2>1, OneEachStep DEF IInv
<1>10. \A i \in Row : letters'[i] \in Nat /\ letters'[i] >= letters[i]
    BY <1>2, <1>5
<1>11. AnswerLeft'
  <2> SUFFICES ASSUME NEW e \in Instance, run'[e].pc = "answered", run'[e].outcome = "SENT",
                      NEW i \in run'[e].rows
               PROVE  letters'[i] > 0
      BY DEF AnswerLeft
  <2>1. i \in Row
      BY DEF TypeOK, Run
  <2>2. CASE e = d
      BY <1>2, <1>3, <1>5, <1>6, <2>1, <2>2
  <2>3. CASE e # d
    <3>1. letters[i] > 0
        BY <1>6, <2>3 DEF IInv, AnswerLeft
    <3> QED BY <1>2, <1>10, <2>1, <3>1
  <2> QED BY <2>2, <2>3
<1>12. SentHasLeft'
  <2> SUFFICES ASSUME NEW i \in Row
               PROVE  /\ row[i].state = "SENT" => letters'[i] > 0
                      /\ letters'[i] > 0 /\ faults' = 0 /\ ClaimHolds =>
                           \/ row[i].state = "SENT"
                           \/ \E e \in Instance : run'[e].pc = "answered" /\ i \in run'[e].rows
      BY <1>1 DEF SentHasLeft, ClaimHolds
  <2>1. row[i].state = "SENT" => letters[i] > 0
      BY DEF IInv, SentHasLeft
  <2>2. ASSUME letters'[i] > 0, faults' = 0, ClaimHolds, row[i].state # "SENT"
        PROVE  \E e \in Instance : run'[e].pc = "answered" /\ i \in run'[e].rows
    <3>1. faults = 0
        BY <1>2, <1>5, <2>2
    <3>2. CASE letters[i] > 0
      <4>1. PICK e \in Instance : run[e].pc = "answered" /\ i \in run[e].rows
          BY <2>2, <3>1, <3>2 DEF IInv, SentHasLeft
      <4> QED BY <1>1, <1>6, <4>1
    <3>3. CASE letters[i] = 0
      <4>1. i \in run[d].rows
          BY <1>5, <2>2, <3>3
      <4> QED BY <1>3, <1>6, <4>1
    <3> QED BY <1>2, <3>2, <3>3
  <2> QED BY <1>2, <1>10, <2>1, <2>2
<1>13. Reminded'
  <2>1. \A i \in Row : Marked(i) => Marked(i)'
      BY <1>1, <1>6 DEF Marked
  <2> QED BY <1>1, <1>2, <1>5, <2>1 DEF IInv, Reminded, One
<1>14. Quiet' /\ Rested'
    BY <1>1, <1>3, <1>4, <1>5, QuietRested
<1> QED BY <1>7, <1>8, <1>9, <1>11, <1>12, <1>13, <1>14 DEF Rest

LEMMA CrashWhileSendingStep ==
    ASSUME IInv, TypeOK', NEW d \in Instance, CrashWhileSending(d)
    PROVE  Rest
<1>1. /\ run[d].pc = "ready" /\ lock' = lock /\ address' = address /\ row' = row
      /\ faults' = faults + 1 /\ Set(d, Idle)
    BY DEF CrashWhileSending, Fault
<1>2. faults \in Nat /\ \A i \in Row : letters[i] \in Nat /\ reminders[i] \in Nat
    BY DEF IInv, TypeOK
<1>3. Steps(d, Idle)
    BY <1>1, IdleType DEF Steps, Set
<1>4. /\ reminders' = reminders
      /\ late' \in {late, IF Gone THEN late + 1 ELSE late}
      /\ \A i \in Row :
            letters'[i] = letters[i] \/ (i \in run[d].rows /\ letters'[i] = letters[i] + 1)
  <2>1. CASE LetterTo(run[d].rows)
      BY <1>2, <2>1 DEF LetterTo, Gone
  <2>2. CASE UNCHANGED <<letters, reminders, late>>
      BY <2>2
  <2> QED BY <2>1, <2>2 DEF CrashWhileSending
<1>5. run'[d] = Idle /\ \A e \in Instance \ {d} : run'[e] = run[e]
    BY <1>3, Stepped DEF IInv
<1>6. OneRuns'
    BY <1>3, OneRunsStep DEF IInv
<1>7. InHandWasQueued'
  <2>1. \A i \in Row : RunRow(i) /\ Takes(d, Idle, i)
      BY <1>1, IdleType, RowSame DEF Takes, Holds
  <2> QED BY <1>3, <2>1, InHandStep DEF IInv
<1>8. OneEach'
  <2>1. ASSUME NEW i \in Row
        PROVE  Balanced(d, Idle, i)
    <3>1. ~Owes(Idle, i) /\ (Owes(run[d], i) <=> i \in run[d].rows)
        BY <1>1, IdleType DEF Owes, Holds
    <3>2. /\ letters'[i] = letters[i] \/ (i \in run[d].rows /\ letters'[i] = letters[i] + 1)
          /\ letters[i] \in Nat
        BY <1>2, <1>4
    <3> QED BY <1>1, <1>2, <3>1, <3>2 DEF Balanced, One
  <2> QED BY <1>3, <2>1, OneEachStep DEF IInv
<1>9. \A i \in Row : letters'[i] \in Nat /\ letters'[i] >= letters[i]
    BY <1>2, <1>4
<1>10. AnswerLeft'
  <2> SUFFICES ASSUME NEW e \in Instance, run'[e].pc = "answered", run'[e].outcome = "SENT",
                      NEW i \in run'[e].rows
               PROVE  letters'[i] > 0
      BY DEF AnswerLeft
  <2>1. i \in Row
      BY DEF TypeOK, Run
  <2>2. letters[i] > 0
      BY <1>5, IdleType DEF IInv, AnswerLeft
  <2> QED BY <1>2, <1>9, <2>1, <2>2
<1>11. SentHasLeft'
    BY <1>1, <1>2, <1>9 DEF IInv, SentHasLeft
<1>12. Reminded'
  <2>1. \A i \in Row : Marked(i) => Marked(i)'
      BY <1>1, <1>5 DEF Marked
  <2> QED BY <1>1, <1>2, <1>4, <2>1 DEF IInv, Reminded, One
<1>13. Quiet' /\ Rested'
    BY <1>1, <1>3, <1>4, IdleType, QuietRested
<1> QED BY <1>6, <1>7, <1>8, <1>10, <1>11, <1>12, <1>13 DEF Rest

(* A row after the answer is written.                                       *)
LEMMA RecordRow ==
    ASSUME IInv, NEW d \in Instance, Record(d), NEW i \in Row
    PROVE  /\ RunRow(i) /\ (Open(i)' => Open(i)) /\ (row'[i].due => row[i].due)
           /\ row'[i].reminded = row[i].reminded
           /\ i \notin run[d].rows => row'[i] = row[i]
           /\ i \in run[d].rows /\ run[d].outcome = "SENT" => row'[i].state = "SENT" /\ ~Open(i)'
           /\ row'[i].state = "SENT" =>
                row[i].state = "SENT" \/ (i \in run[d].rows /\ run[d].outcome = "SENT")
<1> row[i] \in InviteRow /\ run[d] \in Run
    BY DEF IInv, TypeOK
<1>1. run[d].tries[i] \in Nat /\ run[d].outcome \in Outcomes
    BY DEF Run
<1>2. CASE i \notin run[d].rows
    BY <1>2, RowSame DEF Record
<1>3. CASE i \in run[d].rows /\ run[d].outcome = "SENT"
  <2>1. row'[i] = AfterLetter(row[i], run[d].tries[i], "SENT")
      BY <1>3 DEF Record
  <2>2. /\ row'[i].state = "SENT" /\ row'[i].reminded = row[i].reminded
        /\ row'[i].source = row[i].source
      BY <1>1, <2>1, AfterSent
  <2>3. row'[i].due = row[i].due
      BY <2>1 DEF AfterLetter, InviteRow
  <2> QED BY <1>3, <2>2, <2>3 DEF RunRow, Open, Dropped
<1>4. CASE i \in run[d].rows /\ run[d].outcome = "SUPPRESSED"
  <2>1. row'[i] = AfterLetter(row[i], run[d].tries[i], "SUPPRESSED")
      BY <1>4 DEF Record
  <2>2. row'[i] = IF row[i].state = "QUEUED" THEN Cancelled(row[i], "OTHER") ELSE row[i]
      BY <1>1, <2>1, AfterSuppressed
  <2>3. row[i].state = "QUEUED" => row'[i].reminded = row[i].reminded
      BY <2>2, CancelledType, ReasonsOfDrops
  <2> QED BY <1>4, <2>2, <2>3, RowSame, RowCancelled DEF IInv
<1>5. CASE i \in run[d].rows /\ run[d].outcome = "FAILED"
  <2>1. row'[i] = AfterLetter(row[i], run[d].tries[i], "FAILED")
      BY <1>5 DEF Record
  <2>2. /\ row'[i].state \in {row[i].state, "FAILED"} /\ row'[i].reason = row[i].reason
        /\ row'[i].due = row[i].due /\ row'[i].reminded = row[i].reminded
        /\ row'[i].source = row[i].source
      BY <1>1, <2>1, AfterFailed
  <2> QED BY <1>5, <2>2 DEF RunRow, Open, Dropped
<1> QED BY <1>1, <1>2, <1>3, <1>4, <1>5 DEF Outcomes

LEMMA RecordStep ==
    ASSUME IInv, TypeOK', NEW d \in Instance, Record(d)
    PROVE  Rest
<1> DEFINE r == [Idle EXCEPT !.pc = "after"]
<1>1. /\ run[d].pc = "answered" /\ lock' = lock /\ address' = address /\ faults' = faults
      /\ letters' = letters /\ reminders' = reminders /\ late' = late /\ Set(d, r)
    BY DEF Record, mailVars, Go
<1>2. r \in Run /\ r.pc = "after" /\ r.rows = {}
    BY GoType
<1> HIDE DEF r
<1>3. Steps(d, r)
    BY <1>1, <1>2 DEF Steps, Set
<1>4. run'[d] = r /\ \A e \in Instance \ {d} : run'[e] = run[e]
    BY <1>3, Stepped DEF IInv
<1>5. OneRuns'
    BY <1>3, OneRunsStep DEF IInv
<1>6. \A i \in Row : RunRow(i) /\ ~Holds(r, i) /\ Takes(d, r, i)
    BY <1>2, RecordRow DEF Takes, Holds
<1>7. InHandWasQueued'
    BY <1>3, <1>6, InHandStep DEF IInv
<1>8. \A i \in Row : letters[i] \in Nat /\ reminders[i] \in Nat /\ faults \in Nat
    BY DEF IInv, TypeOK
<1>9. OneEach'
  <2>1. ASSUME NEW i \in Row
        PROVE  Balanced(d, r, i)
    <3>1. ~Owes(r, i)
        BY <1>6 DEF Owes
    <3>2. CASE i \in run[d].rows /\ run[d].outcome # "SENT"
      <4>1. Owes(run[d], i)
          BY <1>1, <3>2 DEF Owes, Holds
      <4> QED BY <1>1, <3>1, <4>1, ReleaseBalance DEF IInv
    <3>3. CASE i \in run[d].rows /\ run[d].outcome = "SENT"
      <4>1. ~Claimable(i)' /\ ~Owes(run[d], i)
          BY <1>1, <3>3, RecordRow DEF Claimable, Owes
      <4> QED BY <1>1, <1>8, <3>1, <4>1 DEF Balanced, One
    <3>4. CASE i \notin run[d].rows
      <4>1. ~Holds(run[d], i)
          BY <3>4 DEF Holds
      <4>2. (Open(i)' => Open(i)) /\ (row'[i].due => row[i].due)
          BY RecordRow
      <4> QED BY <1>1, <1>3, <3>1, <4>1, <4>2, KeepBalance DEF Owes, IInv
    <3> QED BY <3>2, <3>3, <3>4
  <2> QED BY <1>3, <2>1, OneEachStep DEF IInv
<1>10. AnswerLeft'
    BY <1>1, <1>2, <1>4 DEF IInv, AnswerLeft
<1>11. SentHasLeft'
  <2> SUFFICES ASSUME NEW i \in Row
               PROVE  /\ row'[i].state = "SENT" => letters[i] > 0
                      /\ letters[i] > 0 /\ faults = 0 /\ ClaimHolds =>
                           \/ row'[i].state = "SENT"
                           \/ \E e \in Instance : run'[e].pc = "answered" /\ i \in run'[e].rows
      BY <1>1 DEF SentHasLeft, ClaimHolds
  <2>1. row'[i].state = "SENT" => letters[i] > 0
      BY <1>1, RecordRow DEF IInv, SentHasLeft, AnswerLeft
  <2>2. ASSUME letters[i] > 0, faults = 0, ClaimHolds, row'[i].state # "SENT"
        PROVE  \E e \in Instance : run'[e].pc = "answered" /\ i \in run'[e].rows
    <3>1. CASE i \in run[d].rows
      <4>1. run[d].outcome # "SENT"
          BY <2>2, <3>1, RecordRow
      <4>2. d \in Owing(i)
          BY <1>1, <3>1, <4>1 DEF Owing, Owes, Holds
      <4>3. Owing(i) \subseteq Instance
          BY DEF Owing
      <4>4. Cardinality(Owing(i)) \in Nat /\ Cardinality(Owing(i)) # 0
          BY <4>2, <4>3, RowAssumption, FS_Subset, FS_CardinalityType, FS_EmptySet
      <4>5. letters[i] + Cardinality(Owing(i)) + One(Claimable(i)) <= 1
          BY <2>2 DEF IInv, OneEach
      <4> QED BY <1>8, <2>2, <4>4, <4>5 DEF One
    <3>2. CASE i \notin run[d].rows
      <4>1. row[i].state # "SENT"
          BY <2>2, <3>2, RecordRow
      <4>2. PICK e \in Instance : run[e].pc = "answered" /\ i \in run[e].rows
          BY <2>2, <4>1 DEF IInv, SentHasLeft
      <4> QED BY <1>4, <3>2, <4>2
    <3> QED BY <3>1, <3>2
  <2> QED BY <2>1, <2>2
<1>12. Reminded'
  <2>1. \A i \in Row : Marked(i) => Marked(i)'
      BY <1>1, <1>4, RecordRow DEF Marked
  <2> QED BY <1>1, <1>8, <2>1 DEF IInv, Reminded, One
<1>13. Quiet' /\ Rested'
    BY <1>1, <1>2, <1>3, QuietRested
<1> QED BY <1>5, <1>7, <1>9, <1>10, <1>11, <1>12, <1>13 DEF Rest

LEMMA ReminderStep ==
    ASSUME IInv, TypeOK', NEW d \in Instance, NEW outcome \in Outcomes, RemindSend(d, outcome)
    PROVE  Rest
<1>1. /\ run[d].pc = "reminding" /\ lock' = lock /\ address' = address /\ row' = row
      /\ \A i \in run[d].rows : ~row[i].reminded
    BY DEF RemindSend, StillToRemind
<1>2. run[d] \in Run /\ faults \in Nat
        /\ \A i \in Row : letters[i] \in Nat /\ reminders[i] \in Nat
    BY DEF IInv, TypeOK
<1>3. PICK r \in Run : /\ Set(d, r)
                       /\ r.pc \in {"idle", "reminded"}
                       /\ outcome # "FAILED" => r.pc = "reminded" /\ r.rows = run[d].rows
  <2>1. CASE outcome = "FAILED"
      BY <2>1, IdleType DEF RemindSend
  <2>2. CASE outcome # "FAILED"
    <3> DEFINE s == [run[d] EXCEPT !.pc = "reminded"]
    <3>1. Set(d, s)
        BY <2>2 DEF RemindSend
    <3>2. s \in Run /\ s.pc = "reminded" /\ s.rows = run[d].rows
        BY <1>2 DEF Run
    <3> HIDE DEF s
    <3> QED BY <3>1, <3>2
  <2> QED BY <2>1, <2>2
<1>4. Steps(d, r)
    BY <1>1, <1>3 DEF Steps, Set
<1>5. /\ letters' = letters
      /\ late' \in {late, IF Gone THEN late + 1 ELSE late}
      /\ \/ outcome = "SENT" /\ faults' = faults
            /\ \A i \in Row : reminders'[i] = reminders[i] + IF i \in run[d].rows THEN 1 ELSE 0
         \/ outcome = "FAILED" /\ faults' = faults + 1
            /\ \A i \in Row : reminders'[i] = reminders[i] + IF i \in run[d].rows THEN 1 ELSE 0
         \/ faults' = faults /\ reminders' = reminders
    BY DEF RemindSend, Answer, ReminderFor, Fault, mailVars, Gone
<1>6. run'[d] = r /\ \A e \in Instance \ {d} : run'[e] = run[e]
    BY <1>4, Stepped DEF IInv
<1>7. OneRuns' /\ (lock => \A e \in Instance \ {d} : run[e].pc = "idle")
    BY <1>4, OneRunsStep DEF IInv
<1>8. \A i \in Row : RunRow(i) /\ ~Holds(r, i) /\ ~Holds(run[d], i) /\ Takes(d, r, i)
    BY <1>1, <1>3, RowSame DEF Takes, Holds
<1>9. InHandWasQueued'
    BY <1>4, <1>8, InHandStep DEF IInv
<1>10. OneEach'
  <2>1. ASSUME NEW i \in Row
        PROVE  Balanced(d, r, i)
    <3>1. CASE faults' = faults + 1
        BY <1>5, <1>8, <3>1, FaultBalance DEF Owes, IInv
    <3>2. CASE faults' = faults
      <4>1. (Open(i)' => Open(i)) /\ (row'[i].due => row[i].due)
          BY <1>1, RowSame
      <4> QED BY <1>4, <1>5, <1>8, <3>2, <4>1, KeepBalance DEF Owes, IInv
    <3> QED BY <1>5, <3>1, <3>2
  <2> QED BY <1>4, <2>1, OneEachStep DEF IInv
<1>11. AnswerLeft'
    BY <1>3, <1>5, <1>6 DEF IInv, AnswerLeft
<1>12. SentHasLeft'
  <2>1. faults' = 0 => faults = 0
      BY <1>2, <1>5
  <2>2. \A i \in Row : (\E e \in Instance : run[e].pc = "answered" /\ i \in run[e].rows)
                        => \E e \in Instance : run'[e].pc = "answered" /\ i \in run'[e].rows
      BY <1>1, <1>6
  <2> QED BY <1>1, <1>5, <2>1, <2>2 DEF IInv, SentHasLeft, ClaimHolds
<1>13. Reminded'
  <2> SUFFICES ASSUME lock, NEW i \in Row
               PROVE  reminders'[i] <= faults' + One(Marked(i)')
      BY <1>1 DEF Reminded
  <2>1. reminders[i] <= faults + One(Marked(i)) /\ reminders[i] \in Nat
      BY <1>2 DEF IInv, Reminded
  <2>2. Marked(i) => Marked(i)'
      BY <1>1, <1>6 DEF Marked
  <2>3. i \in run[d].rows => ~Marked(i)
      BY <1>1, <1>7 DEF Marked
  <2>4. outcome = "SENT" /\ i \in run[d].rows => Marked(i)'
      BY <1>3, <1>6 DEF Marked
  <2> QED BY <1>2, <1>5, <2>1, <2>2, <2>3, <2>4 DEF One
<1>14. Quiet' /\ Rested'
    BY <1>1, <1>3, <1>4, <1>5, QuietRested
<1> QED BY <1>7, <1>9, <1>10, <1>11, <1>12, <1>13, <1>14 DEF Rest

----------------------------------------------------------------------------
(* The invariant.                                                           *)

(* Only the sweep drops a row for the reason that may end.                  *)
LEMMA ReasonMoves ==
    ASSUME TypeOK, Next, NEW i \in Row
    PROVE  row'[i].reason \in {row[i].reason, "-", "OTHER"} \/ AutoInviteOff(i)
<1>1. row[i] \in InviteRow /\ Cancelled(row[i], "OTHER").reason = "OTHER"
    BY CancelledType, ReasonsOfDrops DEF TypeOK
<1> DEFINE Fine == row'[i].reason \in {row[i].reason, "-", "OTHER"}
<1>2. ASSUME NEW rows, row' = CancelQueued(rows, "OTHER")
      PROVE  Fine
    BY <1>1, <1>2 DEF CancelQueued
<1>3. ASSUME NEW j \in Row, NEW source \in Source, NEW due \in BOOLEAN, Invite(j, source, due)
      PROVE  Fine
    BY <1>1, <1>3 DEF Invite, TypeOK, InviteRow
<1>4. ASSUME CancelQueue \/ \E toStandard \in BOOLEAN : Downgrade(toStandard)
      PROVE  Fine
    BY <1>2, <1>4 DEF CancelQueue, Downgrade
<1>5. ASSUME \/ CancelLink \/ (\E j \in Row : SwitchListing(j) \/ CloseListing(j))
             \/ AddressStep \/ TimePasses \/ \E r \in {"cancel", "join", "accept"} : CrashOfRequest(r)
      PROVE  Fine
  <2>1. row' = row
      BY <1>5 DEF CancelLink, SwitchListing, CloseListing, AddressStep, OptOut, Click,
         SignUpWithLink, VerifyEmail, ReadInvites, AcceptLink, TimePasses, CrashOfRequest
  <2> QED BY <2>1
<1>6. ASSUME NEW j \in Row, TurnComes(j)
      PROVE  Fine
    BY <1>1, <1>6 DEF TurnComes, TypeOK, InviteRow
<1>7. ASSUME NEW d \in Instance, DispatchStep(d) \/ Crash(d) \/ CrashWhileSending(d)
      PROVE  Fine \/ AutoInviteOff(i)
  <2>1. CASE Sweep(d)
    <3>1. \/ row'[i] = row[i] \/ row'[i] = Cancelled(row[i], "OTHER") \/ AutoInviteOff(i)
          \/ row'[i] = [row[i] EXCEPT !.state = "QUEUED", !.reason = "-"]
        BY <2>1 DEF Sweep
    <3> QED BY <1>1, <3>1 DEF InviteRow
  <2>2. CASE CapReached(d) \/ Claim(d)
    <3>1. row'[i] = row[i] \/ row'[i] = [row[i] EXCEPT !.due = FALSE]
        BY <2>2 DEF CapReached, Claim
    <3> QED BY <1>1, <3>1 DEF InviteRow
  <2>3. CASE TurnedAway(d)
      BY <1>2, <2>3 DEF TurnedAway
  <2>4. CASE DecideStep(d)
    <3>1. \/ row'[i] = row[i] \/ row'[i] = Cancelled(row[i], "OTHER")
          \/ row'[i] = [row[i] EXCEPT !.due = TRUE]
        BY <2>4 DEF DecideStep, Decide
    <3> QED BY <1>1, <3>1 DEF InviteRow
  <2>5. CASE Record(d)
    <3>1. row'[i] = row[i] \/ row'[i] = AfterLetter(row[i], run[d].tries[i], run[d].outcome)
        BY <2>5 DEF Record
    <3>2. run[d].tries[i] \in Nat
        BY DEF TypeOK, Run
    <3> QED BY <1>1, <3>1, <3>2 DEF AfterLetter, InviteRow
  <2>6. CASE RemindRecord(d)
    <3>1. row'[i] = row[i] \/ row'[i] = [row[i] EXCEPT !.reminded = TRUE]
        BY <2>6 DEF RemindRecord
    <3> QED BY <1>1, <3>1 DEF InviteRow
  <2>7. CASE ReadDue(d) \/ SendStep(d) \/ (\E j \in Row : RemindPick(d, j)) \/ FinishRun(d)
               \/ Crash(d) \/ CrashWhileSending(d)
    <3>1. row' = row
        BY <2>7 DEF ReadDue, SendStep, Send, RemindSend, RemindPick, FinishRun, Crash,
           CrashWhileSending
    <3> QED BY <3>1
  <2> QED BY <1>7, <2>1, <2>2, <2>3, <2>4, <2>5, <2>6, <2>7 DEF DispatchStep
<1> HIDE DEF Fine
<1>8. Fine \/ AutoInviteOff(i)
    BY <1>3, <1>4, <1>5, <1>6, <1>7 DEF Next, BuyerStep
<1> QED BY <1>8 DEF Fine

LEMMA ListingMoves ==
    ASSUME TypeOK, Next, "switch" \notin Event, NEW i \in Row
    PROVE  listing'[i] \in {listing[i], "closed"}
<1>1. ASSUME NEW d \in Instance, DispatchStep(d) \/ Crash(d) \/ CrashWhileSending(d)
      PROVE  listing' = listing
    BY <1>1 DEF DispatchStep, Sweep, ReadDue, CapReached, Claim, TurnedAway, DecideStep, Decide,
       SendStep, Send, RemindSend, Record, RemindPick, RemindRecord, FinishRun, Crash,
       CrashWhileSending, buyerVars
<1>2. ASSUME NEW j \in Row, CloseListing(j)
      PROVE  listing'[i] \in {listing[i], "closed"}
    BY <1>2 DEF CloseListing, TypeOK
<1>3. CASE \/ \E j \in Row, source \in Source, due \in BOOLEAN : Invite(j, source, due)
           \/ CancelLink \/ CancelQueue \/ (\E toStandard \in BOOLEAN : Downgrade(toStandard))
           \/ AddressStep \/ TimePasses \/ (\E j \in Row : TurnComes(j))
           \/ \E r \in {"cancel", "join", "accept"} : CrashOfRequest(r)
  <2>1. listing' = listing
      BY <1>3 DEF Invite, CancelLink, CancelQueue, Downgrade, AddressStep, OptOut, Click,
         SignUpWithLink, VerifyEmail, ReadInvites, AcceptLink, TimePasses, TurnComes,
         CrashOfRequest, buyerVars
  <2> QED BY <2>1
<1>4. ~\E j \in Row : SwitchListing(j)
    BY DEF SwitchListing
<1> QED BY <1>1, <1>2, <1>3, <1>4 DEF Next, BuyerStep

LEMMA NothingOffStep ==
    ASSUME TypeOK, NothingOff, Next
    PROVE  NothingOff'
<1> SUFFICES ASSUME "switch" \notin Event, NEW i \in Row
             PROVE  listing'[i] # "off" /\ row'[i].reason # "AUTO_INVITE_OFF"
    BY DEF NothingOff
<1>1. listing[i] # "off" /\ row[i].reason # "AUTO_INVITE_OFF" /\ ~AutoInviteOff(i)
    BY DEF NothingOff, AutoInviteOff
<1> QED BY <1>1, ReasonMoves, ListingMoves

LEMMA IInvInit == Init => IInv
<1> SUFFICES ASSUME Init PROVE IInv
    OBVIOUS
<1>1. TypeOK
  <2>1. NoRow \in InviteRow
      BY DEF NoRow, InviteRow, Reasons, Sources
  <2>2. row \in [Row -> InviteRow] /\ run \in [Instance -> Run]
      BY <2>1, IdleType DEF Init
  <2> QED BY <2>2, LimitAssumption, LockAssumption DEF Init, TypeOK
<1>2. \A d \in Instance : run[d] = Idle /\ run[d].pc = "idle"
    BY IdleType DEF Init
<1>3. \A i \in Row : row[i] = NoRow /\ row[i].state = "NONE" /\ row[i].reason = "-"
                      /\ listing[i] = "open"
    BY DEF Init, NoRow
<1>4. OneRuns /\ InHandWasQueued /\ AnswerLeft /\ Rested
    BY <1>2 DEF OneRuns, InHandWasQueued, Holds, AnswerLeft, Rested
<1>5. NothingOff /\ SentHasLeft
    BY <1>3 DEF NothingOff, SentHasLeft, Init
<1>6. OneEach
  <2> SUFFICES ASSUME NEW i \in Row
               PROVE  letters[i] + Cardinality(Owing(i)) + One(Claimable(i)) <= 1 + faults
      BY DEF OneEach
  <2>1. Owing(i) = {}
      BY <1>2 DEF Owing, Owes, Holds
  <2> QED BY <2>1, FS_EmptySet DEF One, Init
<1>7. Reminded /\ Quiet
    BY DEF Reminded, Quiet, One, Init
<1> QED BY <1>1, <1>4, <1>5, <1>6, <1>7 DEF IInv

LEMMA IInvStep == IInv /\ [Next]_vars => IInv'
<1> SUFFICES ASSUME IInv, [Next]_vars PROVE IInv'
    OBVIOUS
<1>1. TypeOK /\ TypeOK'
    BY TypeStep DEF IInv
<1>2. CASE UNCHANGED vars
    BY <1>2 DEF vars, buyerVars, mailVars, IInv, TypeOK, OneRuns, InHandWasQueued, NothingOff,
       OneEach, AnswerLeft, SentHasLeft, Reminded, Quiet, Rested, Marked, Owing, Owes, Holds,
       Claimable, Open, Dropped, Gone, Cold, ClaimHolds, One
<1>3. CASE Next
  <2>1. NothingOff'
      BY <1>1, <1>3, NothingOffStep DEF IInv
  <2>2. CASE BuyerStep \/ AddressStep \/ TimePasses \/ (\E i \in Row : TurnComes(i))
               \/ \E r \in {"cancel", "join", "accept"} : CrashOfRequest(r)
    <3>1. Aside /\ \A i \in Row : AsideRow(i)
        BY <2>2, AsideStep DEF IInv
    <3> QED BY <1>1, <2>1, <3>1, AsideKeeps DEF IInv
  <2>3. ASSUME NEW d \in Instance, DispatchStep(d) \/ Crash(d) \/ CrashWhileSending(d)
        PROVE  Rest
    <3>1. CASE SendStep(d)
        BY <1>1, <3>1, LetterStep, ReminderStep DEF SendStep
    <3>2. CASE DispatchStep(d) /\ ~SendStep(d)
        BY <1>1, <3>2, SweepStep, ReadStep, CapStep, ClaimStep, TurnedAwayStep, DecideKeeps,
           RecordStep, RemindRecordStep DEF DispatchStep
    <3> QED BY <1>1, <2>3, <3>1, <3>2, CrashStep, CrashWhileSendingStep
  <2>4. CASE \E d \in Instance : DispatchStep(d) \/ Crash(d) \/ CrashWhileSending(d)
      BY <1>1, <2>1, <2>3, <2>4 DEF IInv, Rest
  <2> QED BY <1>3, <2>2, <2>4 DEF Next
<1> QED BY <1>2, <1>3

LEMMA Invariant == Spec => []IInv
BY IInvInit, IInvStep, PTL DEF Spec

(* At most one letter leaves for a row, and one more for every fault that   *)
(* hides that it has left.                                                  *)
THEOREM LettersAreCounted == Spec => []OneLetterEach
<1>1. IInv => OneLetterEach
  <2> SUFFICES ASSUME IInv, ClaimHolds, NEW i \in Row
               PROVE  letters[i] <= 1 + faults
      BY DEF OneLetterEach
  <2>1. Owing(i) \subseteq Instance
      BY DEF Owing
  <2>2. Cardinality(Owing(i)) \in Nat
      BY <2>1, RowAssumption, FS_Subset, FS_CardinalityType
  <2>3. letters[i] + Cardinality(Owing(i)) + One(Claimable(i)) <= 1 + faults
      BY DEF IInv, OneEach
  <2>4. letters[i] \in Nat /\ faults \in Nat /\ One(Claimable(i)) \in Nat
      BY DEF IInv, TypeOK, One
  <2> QED BY <2>2, <2>3, <2>4
<1> QED BY <1>1, Invariant, PTL

(* With the lock, at most one reminder leaves for a row.                    *)
THEOREM RemindersAreCounted == Spec => []OneReminderEach
<1>1. IInv => OneReminderEach
  <2> SUFFICES ASSUME IInv, lock, NEW i \in Row
               PROVE  reminders[i] <= 1 + faults
      BY DEF OneReminderEach
  <2>1. reminders[i] <= faults + One(Marked(i)) /\ reminders[i] \in Nat /\ faults \in Nat
      BY DEF IInv, Reminded, TypeOK
  <2> QED BY <2>1 DEF One
<1> QED BY <1>1, Invariant, PTL

(* A row says SENT if and only if a letter left for it, unless a fault hid  *)
(* the letter.                                                              *)
THEOREM SentIsTrue == Spec => []SentHasLeft
<1>1. IInv => SentHasLeft
    BY DEF IInv
<1> QED BY <1>1, Invariant, PTL

(* Whoever opted out or registered gets at most the letter being written.   *)
THEOREM QuietIsKept == Spec => []QuietAfterwards
<1>1. IInv => QuietAfterwards
    BY DEF IInv, Quiet, QuietAfterwards
<1> QED BY <1>1, Invariant, PTL

(* A cold address rests for a week between two letters.                     *)
THEOREM WeekIsKept == Spec => WeekBetweenLetters
<1> DEFINE Step == lock /\ letters' # letters /\ last > 0 =>
                      \A i \in Row : letters'[i] > letters[i] => ~Cold(i)
<1>1. IInv /\ [Next]_vars => [Step]_vars
  <2> SUFFICES ASSUME IInv, Next, lock, last > 0, NEW i \in Row, letters'[i] > letters[i]
               PROVE  ~Cold(i)
      OBVIOUS
  <2>1. letters[i] \in Nat
      BY DEF IInv, TypeOK
  <2>2. letters' # letters
      BY <2>1
  <2>3. ~\/ BuyerStep \/ AddressStep \/ TimePasses \/ (\E j \in Row : TurnComes(j))
         \/ \E r \in {"cancel", "join", "accept"} : CrashOfRequest(r)
      BY <2>2, AsideStep DEF IInv, Aside
  <2>4. PICK d \in Instance : DispatchStep(d) \/ Crash(d) \/ CrashWhileSending(d)
      BY <2>3 DEF Next
  <2>5. run[d].pc = "ready" /\ LetterTo(run[d].rows)
    <3>1. CASE SendStep(d)
        BY <2>2, <3>1 DEF SendStep, Send, RemindSend, Answer, ReminderFor, mailVars
    <3>2. CASE CrashWhileSending(d)
        BY <2>2, <3>2 DEF CrashWhileSending
    <3>3. CASE Crash(d)
        BY <2>2, <3>3 DEF Crash, mailVars
    <3>4. CASE DispatchStep(d) /\ ~SendStep(d)
        BY <2>2, <3>4 DEF DispatchStep, Sweep, ReadDue, CapReached, Claim, TurnedAway,
           DecideStep, Decide, Record, RemindPick, RemindRecord, FinishRun, mailVars
    <3> QED BY <2>4, <3>1, <3>2, <3>3, <3>4
  <2>6. i \in run[d].rows
      BY <2>1, <2>5 DEF LetterTo
  <2> QED BY <2>5, <2>6 DEF IInv, Rested
<1> QED BY <1>1, Invariant, PTL DEF Spec, WeekBetweenLetters
=============================================================================
