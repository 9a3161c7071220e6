------------------------- MODULE DiscoveryRunsProofs -------------------------
(***************************************************************************)
(* Proofs about module DiscoveryRuns, for any companies, workers, callers, *)
(* runs and crashes.                                                       *)
(*                                                                         *)
(* One letter to each company rests on two groups of facts.  The runs:     *)
(* they are numbered as they are made, who works on one has it to himself, *)
(* and while nobody switches the box only the latest can be active.  The   *)
(* announcement: one caller at a time makes it, each of the two letters is *)
(* sent once at most, and, unless its waiting was cut short, no run is     *)
(* active from the moment it is released until it is out.                  *)
(***************************************************************************)
EXTENDS DiscoveryRuns, FiniteSetTheorems, TLAPS

(* The rows of the tables.                                                  *)
ListingRow == [status : {"DRAFT", "OPEN", "CLOSED"}, box : BOOLEAN, announced : BOOLEAN]
RunRow == [state : {"NONE", "PENDING", "RUNNING", "DONE", "FAILED"},
           trigger : {"PUBLISH", "SECOND_ROUND"}, off : BOOLEAN,
           stale : BOOLEAN, age : {"new", "held", "old"}, told : BOOLEAN]
CandRow == [Company -> {"-", "MEMBER", "INVITED", "ALREADY_INVITED", "NOT_ALLOWED"}]
InvitationRow == [by : {"-", "buyer", "run"}, after : 0..MaxRun]
NoticeState == {"-", "due", "sending", "done"}
CallStage == {"idle", "hold", "wait", "claim", "targets", "after", "send", "edited"}
CallRow == [pc : CallStage, to : SUBSET Company]
WorkStage == {"idle", "search", "read", "refused", "invite", "mark",
              "finish", "closing", "PUBLISH", "SECOND_ROUND"}
WorkRow == [pc : WorkStage, run : 0..MaxRun, todo : SUBSET Company]

Typed ==
    /\ listing \in ListingRow
    /\ run \in [Run -> RunRow]
    /\ cand \in [Run -> CandRow]
    /\ invitation \in [Company -> InvitationRow]
    /\ notice \in [Company -> NoticeState]
    /\ letters \in [Company -> Nat]
    /\ call \in [Caller -> CallRow]
    /\ work \in [Worker -> WorkRow]
    /\ crashes \in 0..MaxCrash
    /\ slip \subseteq {"hold", "switch"}

(* A worker has a run in hand, or is about to ask for one.                  *)
Working == {"search", "read", "refused", "invite", "mark", "finish"}
Planning == {"PUBLISH", "SECOND_ROUND"}
Placed == \A i \in Worker : work[i].pc \in Working => work[i].run \in Run

Sound == Typed /\ Placed

(* The numbers of the runs are given out one by one.                        *)
RunsInOrder == \E m \in 0..MaxRun : Existing = 1..m

(* Who works on a run has it to himself, and its lease is not over.         *)
WorkersApart ==
    /\ \A i \in Worker : work[i].pc \in Working =>
          run[work[i].run].state = "RUNNING" /\ ~run[work[i].run].stale
    /\ \A i, j \in Worker :
          work[i].pc \in Working /\ work[j].pc \in Working /\ work[i].run = work[j].run => i = j
    /\ \A r \in Run : run[r].stale => run[r].state \notin {"NONE", "PENDING"}

Apart == Sound /\ RunsInOrder /\ WorkersApart

(* No candidate is known before the search of a run has ended.              *)
Unsearched(r) == \/ run[r].state \in {"NONE", "PENDING"}
                 \/ \E i \in Worker : work[i].pc = "search" /\ work[i].run = r
NothingFoundYet == \A r \in Run : Unsearched(r) => Found(r) = {}

(* What a worker carries is what is still open, and when it has invited     *)
(* them they are all invited.                                               *)
TodoIsPending ==
    \A i \in Worker :
        /\ work[i].pc \in {"refused", "invite", "mark"} => work[i].todo = Pending(work[i].run)
        /\ work[i].pc = "mark" => work[i].todo \subseteq Invited
        /\ work[i].pc = "finish" => Pending(work[i].run) = {}

(* The end of a run: nothing is open, and the buyer is told of invitations. *)
DoneIsDone ==
    \A r \in Run :
        /\ run[r].state = "DONE" =>
              Pending(r) = {} /\ (run[r].told <=> \E c \in Company : cand[r][c] = "INVITED")
        /\ run[r].state # "DONE" => ~run[r].told

Kept == NothingFoundYet /\ TodoIsPending /\ DoneIsDone

(* Before it is published nothing happens to a request.                     *)
Unpublished ==
    listing.status = "DRAFT" =>
        /\ Existing = {}
        /\ \A k \in Caller : call[k].pc = "idle"
        /\ \A i \in Worker : work[i].pc \notin Planning

(* While nobody switches the box, there are runs only with the box on, the  *)
(* latest is the only one that may be active, and none is discounted ...    *)
Steady == "switch" \notin slip
OneRunActive ==
    Steady =>
        /\ \A r \in Run : ~run[r].off
        /\ Existing # {} => listing.box
        /\ \A i \in Worker : work[i].pc \in Planning => listing.box
        /\ \A r \in Running, q \in Existing : q <= r

(* ... an invitation of a run is older than the runs not yet searched ...   *)
InvitedBefore ==
    Steady =>
        \A r \in Run, c \in Company :
            Unsearched(r) /\ invitation[c].by = "run" => invitation[c].after < r

(* ... and no result of a candidate is untrue of its invitation.            *)
ResultsFit ==
    Steady /\ listing.status = "OPEN" =>
        /\ \A i \in Worker : work[i].pc # "refused"
        /\ \A r \in Run, c \in Company :
              /\ cand[r][c] # "NOT_ALLOWED"
              /\ cand[r][c] = "ALREADY_INVITED" => c \in Invited /\ ~Mine(r, c)

RunInv == Apart /\ Kept /\ Unpublished /\ OneRunActive /\ InvitedBefore /\ ResultsFit

(* One announcement, by one caller, and a worker plans another run only     *)
(* after it.                                                                *)
Announcing == {k \in Caller : call[k].pc \in {"targets", "after", "send"}}
OneAnnouncement ==
    /\ \A k, l \in Announcing : k = l
    /\ Announcing # {} => listing.announced
    /\ \A k \in Caller : call[k].pc = "wait" => Existing # {}
    /\ \A i \in Worker : work[i].pc \in Planning => listing.announced

(* The announcement may still reach the company.                            *)
ToCome(c) == \/ ~listing.announced
             \/ \E k \in Caller : \/ call[k].pc = "targets"
                                  \/ call[k].pc \in {"after", "send"} /\ c \in call[k].to

(* Each of the two letters is sent once at most.                            *)
TwoLettersAtMost ==
    \A c \in Company :
        /\ c \notin Invited => notice[c] = "-"
        /\ letters[c] <= 2
        /\ letters[c] = 2 => notice[c] = "done" /\ ~ToCome(c)
        /\ letters[c] = 1 => notice[c] = "done" \/ ~ToCome(c)

(* The announcement is released: it is being made, or will be by whoever    *)
(* stamps it first.  If nothing has cut the waiting short, no run is active *)
(* then and none is made until it is out ...                                *)
Released == \E k \in Caller :
                \/ k \in Announcing
                \/ call[k].pc = "claim" /\ listing.status = "OPEN" /\ ~listing.announced
RunsAreOver ==
    slip = {} /\ Released =>
        /\ Running = {}
        /\ Existing # {} \/ ~listing.box
        /\ \A i \in Worker : work[i].pc \notin Planning

(* ... so that whoever is in its list gets no letter from a run.            *)
NoSecondLetter ==
    slip = {} =>
        \A c \in Company :
            /\ letters[c] <= 1
            /\ notice[c] = "sending" => letters[c] = 0
            /\ \A k \in Caller : call[k].pc \in {"after", "send"} /\ c \in call[k].to =>
                  letters[c] = 0 /\ notice[c] \in {"-", "done"} /\ invitation[c].by # "run"

LetterInv == OneAnnouncement /\ TwoLettersAtMost /\ RunsAreOver /\ NoSecondLetter

(* The row a new run is written with, and what only one row is changed of.  *)
Fresh(t) == [NoRun EXCEPT !.state = "PENDING", !.trigger = t]
OnlyRun(r) == run' \in [Run -> RunRow] /\ \A q \in Run \ {r} : run'[q] = run[q]
OnlyWork(i) == work' \in [Worker -> WorkRow] /\ \A j \in Worker \ {i} : work'[j] = work[j]
OnlyCand(r) == cand' \in [Run -> CandRow] /\ \A q \in Run \ {r} : cand'[q] = cand[q]
OnlyCall(k) == call' \in [Caller -> CallRow] /\ \A l \in Caller \ {k} : call'[l] = call[l]

(* A new run: the number it gets, and what its creator has seen to.         *)
NewRun(n) ==
    /\ n \in Run /\ OnlyRun(n) /\ Existing = 1..(n - 1) /\ Existing' = 1..n
    /\ run[n].state = "NONE" /\ run'[n].state = "PENDING" /\ ~run'[n].off
    /\ listing' = listing /\ listing.status # "DRAFT"
    /\ \/ listing.box /\ Counted = {}
       \/ Running = {} /\ \E i \in Worker : work[i].pc \in Planning

----------------------------------------------------------------------------
(* The tables row by row, and what a step does to one of them.              *)
LEMMA TypedIsTypeOK == TypeOK <=> Typed
BY DEF TypeOK, Typed, ListingRow, RunRow, CandRow, InvitationRow, NoticeState,
       CallStage, CallRow, WorkStage, WorkRow

LEMMA ExistingCount ==
    /\ IsFiniteSet(Existing)
    /\ Cardinality(Existing) \in 0..MaxRun
<1>1. IsFiniteSet(1..MaxRun) /\ Cardinality(1..MaxRun) = MaxRun
  BY FS_Interval, DiscoveryAssumption
<1>2. Existing \subseteq 1..MaxRun
  BY DEF Existing, Run
<1>3. IsFiniteSet(Existing) /\ Cardinality(Existing) <= MaxRun
  BY <1>1, <1>2, FS_Subset
<1> QED
  BY <1>3, FS_CardinalityType, DiscoveryAssumption

LEMMA FreshRun ==
    ASSUME NEW t \in {"PUBLISH", "SECOND_ROUND"}
    PROVE  /\ Fresh(t) \in RunRow
           /\ Fresh(t).state = "PENDING" /\ ~Fresh(t).off /\ ~Fresh(t).stale
           /\ ~Fresh(t).told
BY DEF Fresh, NoRun, RunRow

LEMMA CreateTyped ==
    ASSUME run \in [Run -> RunRow], NEW t \in {"PUBLISH", "SECOND_ROUND"}, Create(t)
    PROVE  run' \in [Run -> RunRow]
<1> DEFINE n == Cardinality(Existing) + 1
<1>2. run' = [r \in Run |-> IF r = n THEN Fresh(t) ELSE run[r]]
  BY DEF Create, Fresh
<1> HIDE DEF n
<1> QED
  BY <1>2, FreshRun

LEMMA GoOnEffect ==
    ASSUME call \in [Caller -> CallRow], NEW k \in Caller, NEW pc \in CallStage, GoOn(k, pc)
    PROVE  /\ call' \in [Caller -> CallRow]
           /\ call'[k].pc = pc /\ call'[k].to = call[k].to
           /\ \A l \in Caller \ {k} : call'[l] = call[l]
<1>1. call[k] \in CallRow
  OBVIOUS
<1>2. [call[k] EXCEPT !.pc = pc] \in CallRow
  BY <1>1 DEF CallRow
<1>3. call' = [call EXCEPT ![k] = [call[k] EXCEPT !.pc = pc]]
  BY DEF GoOn
<1>4. call'[k] = [call[k] EXCEPT !.pc = pc]
  BY <1>3
<1> QED
  BY <1>1, <1>2, <1>3, <1>4 DEF CallRow

LEMMA ReturnEffect ==
    ASSUME call \in [Caller -> CallRow], NEW k \in Caller, Return(k)
    PROVE  /\ call' \in [Caller -> CallRow]
           /\ call'[k].pc = "idle" /\ call'[k].to = {}
           /\ \A l \in Caller \ {k} : call'[l] = call[l]
<1>1. NoCall \in CallRow /\ NoCall.pc = "idle" /\ NoCall.to = {}
  BY DEF NoCall, CallRow, CallStage
<1> QED
  BY <1>1 DEF Return

LEMMA AnnounceEffect ==
    ASSUME call \in [Caller -> CallRow], NEW k \in Caller, Announce(k)
    PROVE  /\ GoOn(k, "hold") /\ call[k].pc = "idle"
           /\ call' \in [Caller -> CallRow]
           /\ call'[k].pc = "hold" /\ call'[k].to = call[k].to
           /\ \A l \in Caller \ {k} : call'[l] = call[l]
<1>1. GoOn(k, "hold") /\ call[k].pc = "idle"
  BY DEF Announce, GoOn
<1> QED
  BY <1>1, GoOnEffect DEF CallStage

LEMMA NotifyEffect ==
    ASSUME notice \in [Company -> NoticeState], NotifyInvitees
    PROVE  notice' \in [Company -> NoticeState]
BY DEF NotifyInvitees, NoticeState

LEMMA WorkEffect ==
    ASSUME work \in [Worker -> WorkRow], NEW i \in Worker, NEW row \in WorkRow,
           work' = [work EXCEPT ![i] = row]
    PROVE  /\ work' \in [Worker -> WorkRow]
           /\ work'[i] = row
           /\ \A j \in Worker \ {i} : work'[j] = work[j]
OBVIOUS

LEMMA ProceedEffect ==
    ASSUME work \in [Worker -> WorkRow], NEW i \in Worker, NEW pc \in WorkStage, Proceed(i, pc)
    PROVE  /\ work' \in [Worker -> WorkRow]
           /\ work'[i].pc = pc /\ work'[i].run = work[i].run /\ work'[i].todo = work[i].todo
           /\ \A j \in Worker \ {i} : work'[j] = work[j]
<1> DEFINE row == [work[i] EXCEPT !.pc = pc]
<1>1. work[i] \in WorkRow
  OBVIOUS
<1>2. /\ row \in WorkRow
      /\ row.pc = pc /\ row.run = work[i].run /\ row.todo = work[i].todo
  BY <1>1 DEF WorkRow
<1>3. work' = [work EXCEPT ![i] = row]
  BY DEF Proceed
<1> HIDE DEF row
<1> QED
  BY <1>2, <1>3, WorkEffect

LEMMA SetWorkEffect ==
    ASSUME work \in [Worker -> WorkRow], NEW i \in Worker, NEW pc \in WorkStage,
           NEW todo \in SUBSET Company,
           work' = [work EXCEPT ![i].pc = pc, ![i].todo = todo]
    PROVE  /\ work' \in [Worker -> WorkRow]
           /\ work'[i].pc = pc /\ work'[i].run = work[i].run /\ work'[i].todo = todo
           /\ \A j \in Worker \ {i} : work'[j] = work[j]
<1> DEFINE row == [work[i] EXCEPT !.pc = pc, !.todo = todo]
<1>1. work[i] \in WorkRow
  OBVIOUS
<1>2. row \in WorkRow /\ row.pc = pc /\ row.run = work[i].run /\ row.todo = todo
  BY <1>1 DEF WorkRow
<1>3. work' = [work EXCEPT ![i] = row]
  OBVIOUS
<1> HIDE DEF row
<1> QED
  BY <1>2, <1>3, WorkEffect

LEMMA RestEffect ==
    ASSUME work \in [Worker -> WorkRow], NEW i \in Worker, Rest(i)
    PROVE  /\ work' \in [Worker -> WorkRow]
           /\ work'[i].pc = "idle" /\ work'[i].run = 0 /\ work'[i].todo = {}
           /\ \A j \in Worker \ {i} : work'[j] = work[j]
<1>1. Idle \in WorkRow /\ Idle.pc = "idle" /\ Idle.run = 0 /\ Idle.todo = {}
  BY DiscoveryAssumption DEF Idle, WorkRow, WorkStage
<1> QED
  BY <1>1, WorkEffect DEF Rest

LEMMA RunEffect ==
    ASSUME run \in [Run -> RunRow], NEW r \in Run, NEW row \in RunRow,
           run' = [run EXCEPT ![r] = row]
    PROVE  /\ run' \in [Run -> RunRow]
           /\ run'[r] = row
           /\ \A q \in Run \ {r} : run'[q] = run[q]
OBVIOUS

LEMMA RunIsNumber == Run \subseteq 0..MaxRun /\ Run \subseteq Nat /\ 0 \notin Run
BY DiscoveryAssumption DEF Run

----------------------------------------------------------------------------
(* What every action does, field by field: first the minute job ...         *)
LEMMA ClaimRunEffect ==
    ASSUME Typed, NEW i \in Worker, NEW r \in Run, ClaimRun(i, r)
    PROVE  /\ OnlyRun(r) /\ OnlyWork(i)
           /\ work[i].pc = "idle" /\ run[r].state = "PENDING"
           /\ run'[r].stale = run[r].stale /\ run'[r].told = run[r].told
          
           /\ \/ /\ listing.status # "OPEN" /\ run'[r].state = "FAILED"
                 /\ run'[r].off = run[r].off /\ work' = work
              \/ /\ listing.status = "OPEN" /\ ~listing.box /\ run'[r].state = "FAILED"
                 /\ work'[i].pc = "closing"
              \/ /\ listing.status = "OPEN" /\ listing.box /\ run'[r].state = "RUNNING"
                 /\ run'[r].off = run[r].off
                 /\ work'[i].pc = "search" /\ work'[i].run = r
                 /\ \A q \in Run \ {r} : \A c \in work'[i].todo : cand[q][c] = "-"
<1>1. run[r] \in RunRow /\ run \in [Run -> RunRow] /\ work \in [Worker -> WorkRow] /\ r \in 0..MaxRun
  BY RunIsNumber DEF Typed
<1>2. CASE listing.status # "OPEN"
  <2> DEFINE row == [run[r] EXCEPT !.state = "FAILED"]
  <2>1. run' = [run EXCEPT ![r] = row] /\ work' = work /\ Doing(i, "idle") /\ run[r].state = "PENDING"
    BY <1>2 DEF ClaimRun
  <2>2. /\ row \in RunRow /\ row.state = "FAILED" /\ row.off = run[r].off
        /\ row.stale = run[r].stale /\ row.told = run[r].told
    BY <1>1 DEF RunRow
  <2> HIDE DEF row
  <2> QED
    BY <1>1, <1>2, <2>1, <2>2, RunEffect DEF OnlyRun, OnlyWork, Doing
<1>3. CASE listing.status = "OPEN" /\ ~listing.box
  <2> DEFINE row == [run[r] EXCEPT !.state = "FAILED", !.off = TRUE]
             job == [pc |-> "closing", run |-> r, todo |-> {}]
  <2>1. /\ run' = [run EXCEPT ![r] = row] /\ work' = [work EXCEPT ![i] = job]
        /\ Doing(i, "idle") /\ run[r].state = "PENDING"
    BY <1>3 DEF ClaimRun
  <2>2. /\ row \in RunRow /\ row.state = "FAILED" /\ row.off
        /\ row.stale = run[r].stale /\ row.told = run[r].told
    BY <1>1 DEF RunRow
  <2>3. job \in WorkRow /\ job.pc = "closing"
    BY <1>1 DEF WorkRow, WorkStage
  <2> HIDE DEF row, job
  <2> QED
    BY <1>1, <1>3, <2>1, <2>2, <2>3, RunEffect, WorkEffect DEF OnlyRun, OnlyWork, Doing
<1>4. CASE listing.status = "OPEN" /\ listing.box
  <2> PICK found \in SUBSET (Company \ UNION {Found(q) : q \in Run \ {r}}) :
           work' = [work EXCEPT ![i] = [pc |-> "search", run |-> r, todo |-> found]]
    BY <1>4 DEF ClaimRun
  <2> DEFINE row == [run[r] EXCEPT !.state = "RUNNING"]
             job == [pc |-> "search", run |-> r, todo |-> found]
  <2>1. /\ run' = [run EXCEPT ![r] = row] /\ work' = [work EXCEPT ![i] = job]
        /\ Doing(i, "idle") /\ run[r].state = "PENDING"
    BY <1>4 DEF ClaimRun
  <2>2. /\ row \in RunRow /\ row.state = "RUNNING" /\ row.off = run[r].off
        /\ row.stale = run[r].stale /\ row.told = run[r].told
    BY <1>1 DEF RunRow
  <2>3. found \in SUBSET Company
    OBVIOUS
  <2>4. job \in WorkRow /\ job.pc = "search" /\ job.run = r /\ job.todo = found
    BY <1>1, <2>3 DEF WorkRow, WorkStage
  <2>5. \A q \in Run \ {r} : \A c \in found : cand[q][c] = "-"
    BY DEF Found
  <2> HIDE DEF row, job
  <2>6. work'[i] = job /\ OnlyWork(i)
    BY <1>1, <2>1, <2>4, WorkEffect DEF OnlyWork
  <2>7. OnlyRun(r) /\ run'[r] = row
    BY <1>1, <2>1, <2>2, RunEffect DEF OnlyRun
  <2> QED
    BY <1>4, <2>1, <2>2, <2>4, <2>5, <2>6, <2>7 DEF Doing
<1> QED
  BY <1>2, <1>3, <1>4

LEMMA FailEffect ==
    ASSUME Typed, NEW r \in Run, FailIfRunning(r, FALSE), run[r].state = "RUNNING"
    PROVE  /\ OnlyRun(r) /\ run'[r].state = "FAILED" /\ ~run'[r].off
           /\ run'[r].told = run[r].told /\ run'[r].stale = run[r].stale
          
<1> DEFINE row == [run[r] EXCEPT !.state = "FAILED", !.off = FALSE]
<1>1. run[r] \in RunRow /\ run \in [Run -> RunRow]
  BY DEF Typed
<1>2. run' = [run EXCEPT ![r] = row]
  BY <1>1 DEF FailIfRunning
<1>3. /\ row \in RunRow /\ row.state = "FAILED" /\ ~row.off
      /\ row.stale = run[r].stale /\ row.told = run[r].told
  BY <1>1 DEF RunRow
<1> HIDE DEF row
<1> QED
  BY <1>1, <1>2, <1>3, RunEffect DEF OnlyRun

LEMMA SearchInVainEffect ==
    ASSUME Typed, Placed, NEW i \in Worker, SearchInVain(i)
    PROVE  /\ work[i].pc = "search" /\ work[i].run \in Run
           /\ OnlyWork(i) /\ OnlyRun(work[i].run)
           /\ \/ /\ run[work[i].run].state # "RUNNING"
                 /\ run' = run /\ work'[i].pc = "idle"
              \/ /\ run[work[i].run].state = "RUNNING"
                 /\ work'[i].pc = "closing"
                 /\ run'[work[i].run].state \in {"FAILED", "DONE"}
                 /\ run'[work[i].run].stale = run[work[i].run].stale
                 /\ run'[work[i].run].told = run[work[i].run].told
                
                 /\ run'[work[i].run].off => run[work[i].run].off
<1> DEFINE r == work[i].run
<1>1. work[i].pc = "search" /\ r \in Run
  BY DEF SearchInVain, Doing, Placed, Working
<1>2. run[r] \in RunRow /\ run \in [Run -> RunRow] /\ work \in [Worker -> WorkRow]
  BY <1>1 DEF Typed
<1>3. CASE run[r].state # "RUNNING"
  BY <1>1, <1>2, <1>3, RestEffect DEF SearchInVain, OnlyRun, OnlyWork
<1>4. CASE run[r].state = "RUNNING"
  <2>1. OnlyWork(i) /\ work'[i].pc = "closing"
    <3>1. work' = [work EXCEPT ![i].pc = "closing", ![i].todo = {}]
      BY <1>4 DEF SearchInVain
    <3>2. "closing" \in WorkStage /\ {} \in SUBSET Company
      BY DEF WorkStage
    <3> QED
      BY <1>2, <3>1, <3>2, SetWorkEffect DEF OnlyWork
  <2>2. CASE FailIfRunning(r, FALSE)
    BY <1>1, <1>2, <1>4, <2>1, <2>2, FailEffect
  <2>3. CASE run' = [run EXCEPT ![r].state = "DONE"]
    <3> DEFINE row == [run[r] EXCEPT !.state = "DONE"]
    <3>1. /\ row \in RunRow /\ row.state = "DONE" /\ row.off = run[r].off
          /\ row.stale = run[r].stale /\ row.told = run[r].told
      BY <1>2 DEF RunRow
    <3>2. run' = [run EXCEPT ![r] = row]
      BY <2>3
    <3> HIDE DEF row
    <3>3. OnlyRun(r) /\ run'[r] = row
      BY <1>1, <1>2, <3>1, <3>2, RunEffect DEF OnlyRun
    <3> QED
      BY <1>1, <1>4, <2>1, <3>1, <3>3
  <2> QED
    BY <1>4, <2>2, <2>3 DEF SearchInVain
<1> QED
  BY <1>3, <1>4

LEMMA StoreCandidatesEffect ==
    ASSUME Typed, Placed, NEW i \in Worker, StoreCandidates(i)
    PROVE  /\ work[i].pc = "search" /\ work[i].run \in Run
           /\ OnlyWork(i) /\ OnlyCand(work[i].run)
           /\ work'[i].pc = "read" /\ work'[i].run = work[i].run
           /\ \A c \in Company :
                \/ cand'[work[i].run][c] = "ALREADY_INVITED" /\ c \in Invited
                \/ cand'[work[i].run][c] = "MEMBER"
                \/ cand'[work[i].run][c] = cand[work[i].run][c]
<1>1. work[i].pc = "search" /\ work[i].run \in Run
  BY DEF StoreCandidates, Doing, Placed, Working
<1>2. work \in [Worker -> WorkRow] /\ cand \in [Run -> CandRow] /\ work[i] \in WorkRow
  BY DEF Typed
<1> PICK known \in SUBSET (work[i].todo \cap Invited) :
       cand' = [cand EXCEPT ![work[i].run] =
                   [c \in Company |-> IF c \in known THEN "ALREADY_INVITED"
                                       ELSE IF c \in work[i].todo THEN "MEMBER"
                                       ELSE cand[work[i].run][c]]]
  BY DEF StoreCandidates
<1> DEFINE row == [c \in Company |-> IF c \in known THEN "ALREADY_INVITED"
                                      ELSE IF c \in work[i].todo THEN "MEMBER"
                                      ELSE cand[work[i].run][c]]
<1>3. row \in CandRow
  BY <1>1, <1>2 DEF CandRow
<1>4. cand' = [cand EXCEPT ![work[i].run] = row]
  OBVIOUS
<1>5. \A c \in Company : \/ row[c] = "ALREADY_INVITED" /\ c \in Invited
                         \/ row[c] = "MEMBER"
                         \/ row[c] = cand[work[i].run][c]
  OBVIOUS
<1> HIDE DEF row
<1>6. OnlyCand(work[i].run) /\ cand'[work[i].run] = row
  BY <1>1, <1>2, <1>3, <1>4 DEF OnlyCand
<1>7. /\ OnlyWork(i) /\ work'[i].pc = "read" /\ work'[i].run = work[i].run
  <2>1. work' = [work EXCEPT ![i].pc = "read", ![i].todo = {}]
    BY DEF StoreCandidates
  <2>2. "read" \in WorkStage /\ {} \in SUBSET Company
    BY DEF WorkStage
  <2> QED
    BY <1>2, <2>1, <2>2, SetWorkEffect DEF OnlyWork
<1> QED
  BY <1>1, <1>5, <1>6, <1>7

LEMMA ReadCandidatesEffect ==
    ASSUME Typed, Placed, NEW i \in Worker, ReadCandidates(i)
    PROVE  /\ work[i].pc = "read" /\ work[i].run \in Run
           /\ OnlyWork(i)
           /\ work'[i].run = work[i].run /\ work'[i].todo = Pending(work[i].run)
           /\ \/ work'[i].pc = "finish" /\ Pending(work[i].run) = {}
              \/ work'[i].pc = "invite"
              \/ work'[i].pc = "refused" /\ ~(listing.status = "OPEN" /\ listing.box)
<1>1. work[i].pc = "read" /\ work[i].run \in Run
  BY DEF ReadCandidates, Doing, Placed, Working
<1>2. work \in [Worker -> WorkRow] /\ Pending(work[i].run) \in SUBSET Company
  BY DEF Typed, Pending
<1> DEFINE next == IF Pending(work[i].run) = {} THEN "finish"
                   ELSE IF listing.status = "OPEN" /\ listing.box THEN "invite"
                   ELSE "refused"
           todo == Pending(work[i].run)
<1>3. next \in WorkStage
  BY DEF WorkStage
<1>4. work' = [work EXCEPT ![i].todo = todo, ![i].pc = next]
  BY DEF ReadCandidates
<1>5. \/ next = "finish" /\ Pending(work[i].run) = {}
      \/ next = "invite"
      \/ next = "refused" /\ ~(listing.status = "OPEN" /\ listing.box)
  OBVIOUS
<1>6. todo \in SUBSET Company
  BY <1>2
<1> HIDE DEF next, todo
<1> DEFINE row == [work[i] EXCEPT !.todo = todo, !.pc = next]
<1>7. row \in WorkRow /\ row.pc = next /\ row.run = work[i].run /\ row.todo = todo
  BY <1>2, <1>3, <1>6 DEF WorkRow
<1>8. work' = [work EXCEPT ![i] = row]
  BY <1>4
<1> HIDE DEF row
<1>9. OnlyWork(i) /\ work'[i] = row
  BY <1>2, <1>7, <1>8, WorkEffect DEF OnlyWork
<1> QED
  BY <1>1, <1>5, <1>7, <1>9 DEF todo

LEMMA InviteMembersEffect ==
    ASSUME Typed, Placed, NEW i \in Worker, InviteMembers(i)
    PROVE  /\ work[i].pc = "invite" /\ work[i].run \in Run
           /\ OnlyWork(i)
           /\ work'[i].run = work[i].run /\ work'[i].todo = work[i].todo
           /\ invitation' \in [Company -> InvitationRow] /\ notice' \in [Company -> NoticeState]
           /\ \/ /\ listing.status = "OPEN" /\ work'[i].pc = "mark"
                 /\ \A c \in Company :
                      \/ /\ c \in work[i].todo /\ c \notin Invited
                         /\ invitation'[c].by = "run"
                         /\ invitation'[c].after = Cardinality(Existing)
                         /\ notice'[c] = "due"
                      \/ /\ c \notin work[i].todo \/ c \in Invited
                         /\ invitation'[c] = invitation[c] /\ notice'[c] = notice[c]
              \/ /\ listing.status # "OPEN" /\ work'[i].pc = "refused"
                 /\ invitation' = invitation /\ notice' = notice
<1>1. work[i].pc = "invite" /\ work[i].run \in Run
  BY DEF InviteMembers, Doing, Placed, Working
<1>2. /\ work \in [Worker -> WorkRow] /\ invitation \in [Company -> InvitationRow]
      /\ notice \in [Company -> NoticeState]
  BY DEF Typed
<1>3. CASE listing.status = "OPEN"
  <2> DEFINE n == Cardinality(Existing)
             new == work[i].todo \ Invited
             row == [by |-> "run", after |-> n]
  <2>1. n \in 0..MaxRun
    BY ExistingCount
  <2>2. /\ invitation' = [c \in Company |-> IF c \in new THEN row ELSE invitation[c]]
        /\ notice' = [c \in Company |-> IF c \in new THEN "due" ELSE notice[c]]
        /\ Proceed(i, "mark")
    BY <1>3 DEF InviteMembers
  <2> HIDE DEF n
  <2>3. row \in InvitationRow /\ row.by = "run" /\ row.after = n
    BY <2>1 DEF InvitationRow
  <2> HIDE DEF row
  <2>4. invitation' \in [Company -> InvitationRow] /\ notice' \in [Company -> NoticeState]
    BY <1>2, <2>2, <2>3 DEF NoticeState
  <2>5. "mark" \in WorkStage
    BY DEF WorkStage
  <2>6. /\ OnlyWork(i) /\ work'[i].pc = "mark" /\ work'[i].run = work[i].run
        /\ work'[i].todo = work[i].todo
    BY <1>2, <2>2, <2>5, ProceedEffect DEF OnlyWork
  <2>7. \A c \in Company :
           \/ c \in new /\ invitation'[c] = row /\ notice'[c] = "due"
           \/ c \notin new /\ invitation'[c] = invitation[c] /\ notice'[c] = notice[c]
    BY <2>2
  <2> QED
    BY <1>1, <1>3, <2>3, <2>4, <2>6, <2>7 DEF n
<1>4. CASE listing.status # "OPEN"
  <2>1. invitation' = invitation /\ notice' = notice /\ Proceed(i, "refused")
    BY <1>4 DEF InviteMembers
  <2>2. "refused" \in WorkStage
    BY DEF WorkStage
  <2> QED
    BY <1>1, <1>2, <1>4, <2>1, <2>2, ProceedEffect DEF OnlyWork
<1> QED
  BY <1>3, <1>4

LEMMA MarkEffect ==
    ASSUME Typed, NEW i \in Worker, work[i].run \in Run,
           NEW result \in [Company -> {"INVITED", "ALREADY_INVITED", "NOT_ALLOWED"}],
           Mark(i, result)
    PROVE  /\ OnlyWork(i) /\ OnlyCand(work[i].run)
           /\ work'[i].pc = "finish" /\ work'[i].run = work[i].run
           /\ \A c \in Company :
                cand'[work[i].run][c] = IF c \in work[i].todo THEN result[c]
                                        ELSE cand[work[i].run][c]
<1>2. work \in [Worker -> WorkRow] /\ cand \in [Run -> CandRow] /\ work[i] \in WorkRow
  BY DEF Typed
<1> DEFINE row == [c \in Company |-> IF c \in work[i].todo THEN result[c]
                                      ELSE cand[work[i].run][c]]
<1>3. row \in CandRow
  BY <1>2 DEF CandRow
<1>4. cand' = [cand EXCEPT ![work[i].run] = row]
  BY DEF Mark
<1>5. \A c \in Company : row[c] = IF c \in work[i].todo THEN result[c]
                                  ELSE cand[work[i].run][c]
  OBVIOUS
<1> HIDE DEF row
<1>6. OnlyCand(work[i].run) /\ cand'[work[i].run] = row
  BY <1>2, <1>3, <1>4 DEF OnlyCand
<1>7. /\ OnlyWork(i) /\ work'[i].pc = "finish" /\ work'[i].run = work[i].run
  <2>1. work' = [work EXCEPT ![i].pc = "finish", ![i].todo = {}]
    BY DEF Mark
  <2>2. "finish" \in WorkStage /\ {} \in SUBSET Company
    BY DEF WorkStage
  <2> QED
    BY <1>2, <2>1, <2>2, SetWorkEffect DEF OnlyWork
<1> QED
  BY <1>5, <1>6, <1>7

LEMMA MarkInvitedEffect ==
    ASSUME Typed, Placed, NEW i \in Worker, MarkInvited(i)
    PROVE  /\ work[i].pc = "mark" /\ work[i].run \in Run
           /\ OnlyWork(i) /\ OnlyCand(work[i].run)
           /\ work'[i].pc = "finish" /\ work'[i].run = work[i].run
           /\ \A c \in Company :
                cand'[work[i].run][c] =
                   IF c \in work[i].todo
                   THEN IF Mine(work[i].run, c) THEN "INVITED" ELSE "ALREADY_INVITED"
                   ELSE cand[work[i].run][c]
<1>1. work[i].pc = "mark" /\ work[i].run \in Run
  BY DEF MarkInvited, Doing, Placed, Working
<1> DEFINE result == [c \in Company |-> IF Mine(work[i].run, c) THEN "INVITED"
                                         ELSE "ALREADY_INVITED"]
<1>2. result \in [Company -> {"INVITED", "ALREADY_INVITED", "NOT_ALLOWED"}]
  OBVIOUS
<1>3. Mark(i, result)
  BY DEF MarkInvited
<1>4. \A c \in Company : result[c] = IF Mine(work[i].run, c) THEN "INVITED" ELSE "ALREADY_INVITED"
  OBVIOUS
<1> HIDE DEF result
<1> QED
  BY <1>1, <1>2, <1>3, <1>4, MarkEffect

LEMMA MarkRefusedEffect ==
    ASSUME Typed, Placed, NEW i \in Worker, MarkRefused(i)
    PROVE  /\ work[i].pc = "refused" /\ work[i].run \in Run
           /\ OnlyWork(i) /\ OnlyCand(work[i].run)
           /\ work'[i].pc = "finish" /\ work'[i].run = work[i].run
           /\ \A c \in Company :
                cand'[work[i].run][c] =
                   IF c \in work[i].todo THEN "NOT_ALLOWED" ELSE cand[work[i].run][c]
<1>1. work[i].pc = "refused" /\ work[i].run \in Run
  BY DEF MarkRefused, Doing, Placed, Working
<1> DEFINE result == [c \in Company |-> "NOT_ALLOWED"]
<1>2. result \in [Company -> {"INVITED", "ALREADY_INVITED", "NOT_ALLOWED"}]
  OBVIOUS
<1>3. Mark(i, result)
  BY DEF MarkRefused
<1>4. \A c \in Company : result[c] = "NOT_ALLOWED"
  OBVIOUS
<1> HIDE DEF result
<1> QED
  BY <1>1, <1>2, <1>3, <1>4, MarkEffect

LEMMA FinishRunEffect ==
    ASSUME Typed, Placed, NEW i \in Worker, FinishRun(i)
    PROVE  /\ work[i].pc = "finish" /\ work[i].run \in Run
           /\ OnlyWork(i) /\ OnlyRun(work[i].run)
           /\ \/ /\ run[work[i].run].state # "RUNNING"
                 /\ run' = run /\ work'[i].pc = "idle"
              \/ /\ run[work[i].run].state = "RUNNING"
                 /\ work'[i].pc = "closing"
                 /\ run'[work[i].run].state = "DONE"
                 /\ run'[work[i].run].stale = run[work[i].run].stale
                
                 /\ run'[work[i].run].off = run[work[i].run].off
                 /\ run'[work[i].run].told <=>
                       \E c \in Company : cand[work[i].run][c] = "INVITED"
<1> DEFINE r == work[i].run
<1>1. work[i].pc = "finish" /\ r \in Run
  BY DEF FinishRun, Doing, Placed, Working
<1>2. run[r] \in RunRow /\ run \in [Run -> RunRow] /\ work \in [Worker -> WorkRow]
  BY <1>1 DEF Typed
<1>3. CASE run[r].state # "RUNNING"
  BY <1>1, <1>2, <1>3, RestEffect DEF FinishRun, OnlyRun, OnlyWork
<1>4. CASE run[r].state = "RUNNING"
  <2> DEFINE told == \E c \in Company : cand[r][c] = "INVITED"
             row == [run[r] EXCEPT !.state = "DONE", !.told = told]
  <2>1. told \in BOOLEAN
    OBVIOUS
  <2>2. run' = [run EXCEPT ![r].state = "DONE", ![r].told = told] /\ Proceed(i, "closing")
    BY <1>4 DEF FinishRun
  <2> HIDE DEF told
  <2>3. /\ row \in RunRow /\ row.state = "DONE" /\ row.off = run[r].off
        /\ row.stale = run[r].stale /\ row.told = told
    BY <1>2, <2>1 DEF RunRow
  <2>4. run' = [run EXCEPT ![r] = row]
    BY <2>2
  <2> HIDE DEF row
  <2>5. OnlyRun(r) /\ run'[r] = row
    BY <1>1, <1>2, <2>3, <2>4, RunEffect DEF OnlyRun
  <2>6. "closing" \in WorkStage
    BY DEF WorkStage
  <2>7. OnlyWork(i) /\ work'[i].pc = "closing"
    BY <1>2, <2>2, <2>6, ProceedEffect DEF OnlyWork
  <2> QED
    BY <1>1, <1>4, <2>3, <2>5, <2>7 DEF told
<1> QED
  BY <1>3, <1>4

LEMMA ClosingNoticesEffect ==
    ASSUME Typed, NEW i \in Worker, NEW k \in Caller, ClosingNotices(i, k)
    PROVE  /\ OnlyWork(i) /\ work[i].pc = "closing" /\ work'[i].pc = "idle"
           /\ call' \in [Caller -> CallRow]
           /\ \/ call' = call
              \/ listing.status = "OPEN" /\ ~listing.announced /\ Announce(k)
<1>1. work \in [Worker -> WorkRow] /\ call \in [Caller -> CallRow]
  BY DEF Typed
<1> QED
  BY <1>1, RestEffect, AnnounceEffect DEF ClosingNotices, OnlyWork, Doing

LEMMA SweepRunEffect ==
    ASSUME Typed, NEW i \in Worker, NEW r \in Run, SweepRun(i, r)
    PROVE  /\ OnlyWork(i) /\ OnlyRun(r)
           /\ work[i].pc = "idle" /\ run[r].state = "RUNNING" /\ run[r].stale
           /\ work'[i].pc = "closing"
           /\ run'[r].state = "FAILED" /\ ~run'[r].off /\ run'[r].told = run[r].told
          
<1>1. work \in [Worker -> WorkRow] /\ r \in 0..MaxRun
  BY RunIsNumber DEF Typed
<1>2. run[r].state = "RUNNING" /\ run[r].stale /\ work[i].pc = "idle"
  BY DEF SweepRun, Stuck, Doing
<1> DEFINE job == [pc |-> "closing", run |-> r, todo |-> {}]
<1>3. job \in WorkRow /\ job.pc = "closing"
  BY <1>1 DEF WorkRow, WorkStage
<1>4. work' = [work EXCEPT ![i] = job] /\ FailIfRunning(r, FALSE)
  BY DEF SweepRun
<1> HIDE DEF job
<1>5. OnlyWork(i) /\ work'[i] = job
  BY <1>1, <1>3, <1>4, WorkEffect DEF OnlyWork
<1> QED
  BY <1>2, <1>3, <1>4, <1>5, FailEffect

LEMMA ResumeRunEffect ==
    ASSUME Typed, NEW i \in Worker, NEW r \in Run, ResumeRun(i, r)
    PROVE  /\ OnlyWork(i) /\ OnlyRun(r)
           /\ work[i].pc = "idle" /\ run[r].state = "RUNNING" /\ run[r].stale
           /\ work'[i].pc = "read" /\ work'[i].run = r
           /\ run'[r].state = "RUNNING" /\ ~run'[r].stale
           /\ run'[r].off = run[r].off /\ run'[r].told = run[r].told
          
<1>1. /\ work \in [Worker -> WorkRow] /\ r \in 0..MaxRun
      /\ run \in [Run -> RunRow] /\ run[r] \in RunRow
  BY RunIsNumber DEF Typed
<1>2. run[r].state = "RUNNING" /\ run[r].stale /\ work[i].pc = "idle"
  BY DEF ResumeRun, Stuck, Doing
<1> DEFINE job == [pc |-> "read", run |-> r, todo |-> {}]
           row == [run[r] EXCEPT !.stale = FALSE]
<1>3. job \in WorkRow /\ job.pc = "read" /\ job.run = r
  BY <1>1 DEF WorkRow, WorkStage
<1>4. /\ row \in RunRow /\ row.state = run[r].state /\ ~row.stale /\ row.off = run[r].off
      /\ row.told = run[r].told
  BY <1>1 DEF RunRow
<1>5. work' = [work EXCEPT ![i] = job] /\ run' = [run EXCEPT ![r] = row]
  BY DEF ResumeRun
<1> HIDE DEF job, row
<1>6. OnlyWork(i) /\ work'[i] = job
  BY <1>1, <1>3, <1>5, WorkEffect DEF OnlyWork
<1>7. OnlyRun(r) /\ run'[r] = row
  BY <1>1, <1>4, <1>5, RunEffect DEF OnlyRun
<1> QED
  BY <1>2, <1>3, <1>4, <1>6, <1>7

LEMMA PlanEffect ==
    ASSUME Typed, NEW i \in Worker, CatchUpRead(i) \/ SecondRoundRead(i)
    PROVE  /\ OnlyWork(i) /\ work[i].pc = "idle" /\ work'[i].pc \in Planning
           /\ work'[i].run = work[i].run
           /\ listing.status = "OPEN" /\ listing.box /\ Quiet
<1>1. work \in [Worker -> WorkRow]
  BY DEF Typed
<1>2. "PUBLISH" \in WorkStage /\ "SECOND_ROUND" \in WorkStage
  BY DEF WorkStage
<1> QED
  BY <1>1, <1>2, ProceedEffect DEF CatchUpRead, SecondRoundRead, OnlyWork, Doing, Planning

LEMMA EnqueueEffect ==
    ASSUME Typed, NEW i \in Worker, Enqueue(i)
    PROVE  /\ OnlyWork(i) /\ work[i].pc \in Planning /\ work'[i].pc = "idle"
           /\ run' \in [Run -> RunRow]
           /\ \/ run' = run
              \/ Running = {} /\ Create(work[i].pc)
<1>1. work \in [Worker -> WorkRow] /\ run \in [Run -> RunRow]
  BY DEF Typed
<1>2. OnlyWork(i) /\ work'[i].pc = "idle"
  BY <1>1, RestEffect DEF Enqueue, OnlyWork
<1>3. work[i].pc \in {"PUBLISH", "SECOND_ROUND"}
  BY DEF Enqueue
<1>4. run' \in [Run -> RunRow]
  BY <1>1, <1>3, CreateTyped DEF Enqueue
<1> QED
  BY <1>2, <1>3, <1>4 DEF Enqueue, Planning

LEMMA LeaseExpiresEffect ==
    ASSUME Typed, NEW r \in Run, LeaseExpires(r)
    PROVE  /\ OnlyRun(r) /\ run[r].state = "RUNNING"
           /\ \A i \in Worker : work[i].run # r
           /\ run'[r].state = "RUNNING"
           /\ run'[r].off = run[r].off /\ run'[r].told = run[r].told
          
<1>1. run \in [Run -> RunRow] /\ run[r] \in RunRow
  BY DEF Typed
<1> DEFINE row == [run[r] EXCEPT !.stale = TRUE]
<1>2. /\ row \in RunRow /\ row.state = run[r].state /\ row.off = run[r].off
      /\ row.told = run[r].told
  BY <1>1 DEF RunRow
<1>3. run' = [run EXCEPT ![r] = row]
  BY DEF LeaseExpires
<1> HIDE DEF row
<1>4. OnlyRun(r) /\ run'[r] = row
  BY <1>1, <1>2, <1>3, RunEffect DEF OnlyRun
<1> QED
  BY <1>2, <1>4 DEF LeaseExpires

LEMMA RunAgesEffect ==
    ASSUME Typed, NEW r \in Run, RunAges(r)
    PROVE  /\ OnlyRun(r)
           /\ run'[r].state = run[r].state /\ run'[r].stale = run[r].stale
           /\ run'[r].off = run[r].off /\ run'[r].told = run[r].told
          
<1>1. run \in [Run -> RunRow] /\ run[r] \in RunRow
  BY DEF Typed
<1>2. PICK age \in {"held", "old"} : run' = [run EXCEPT ![r].age = age]
  BY DEF RunAges
<1> DEFINE row == [run[r] EXCEPT !.age = age]
<1>3. /\ row \in RunRow /\ row.state = run[r].state /\ row.off = run[r].off
      /\ row.told = run[r].told /\ row.stale = run[r].stale
  BY <1>1 DEF RunRow
<1>4. run' = [run EXCEPT ![r] = row]
  BY <1>2
<1> HIDE DEF row
<1>5. OnlyRun(r) /\ run'[r] = row
  BY <1>1, <1>3, <1>4, RunEffect DEF OnlyRun
<1> QED
  BY <1>3, <1>5

----------------------------------------------------------------------------
(* ... then the buyer, announceListingOpen and the letters.                 *)
LEMMA PublishEffect ==
    ASSUME Typed, NEW k \in Caller, Publish(k)
    PROVE  /\ listing.status = "DRAFT"
           /\ listing' \in ListingRow
           /\ listing'.status = "OPEN" /\ listing'.box = listing.box
           /\ listing'.announced = listing.announced
           /\ OnlyCall(k) /\ call[k].pc = "idle" /\ call'[k].pc = "hold"
<1>1. listing \in ListingRow /\ call \in [Caller -> CallRow]
  BY DEF Typed
<1>2. listing' = [listing EXCEPT !.status = "OPEN"]
  BY DEF Publish
<1>3. /\ listing' \in ListingRow /\ listing'.status = "OPEN" /\ listing'.box = listing.box
      /\ listing'.announced = listing.announced
  BY <1>1, <1>2 DEF ListingRow
<1> QED
  BY <1>1, <1>3, AnnounceEffect DEF Publish, OnlyCall

LEMMA SwitchBoxEffect ==
    ASSUME Typed, NEW k \in Caller, SwitchBox(k)
    PROVE  /\ listing.status = "OPEN"
           /\ listing' \in ListingRow
           /\ listing'.status = "OPEN" /\ listing'.announced = listing.announced
           /\ slip' = slip \cup {"switch"}
           /\ OnlyCall(k) /\ call[k].pc = "idle" /\ call'[k].pc \in {"hold", "edited"}
           /\ call'[k].pc = "edited" => listing.announced
<1>1. listing \in ListingRow /\ call \in [Caller -> CallRow]
  BY DEF Typed
<1>2. listing' = [listing EXCEPT !.box = ~listing.box] /\ listing.status = "OPEN"
  BY DEF SwitchBox
<1>3. /\ listing' \in ListingRow /\ listing'.status = "OPEN"
      /\ listing'.announced = listing.announced
  BY <1>1, <1>2 DEF ListingRow
<1>4. PICK announced \in {FALSE, listing.announced} :
         call' = [call EXCEPT ![k].pc = IF announced THEN "edited" ELSE "hold"]
  BY DEF SwitchBox
<1> DEFINE next == IF announced THEN "edited" ELSE "hold"
<1>5. /\ next \in CallStage /\ next \in {"hold", "edited"}
      /\ next = "edited" => listing.announced
  BY DEF CallStage
<1>6. GoOn(k, next)
  BY <1>4 DEF GoOn
<1> HIDE DEF next
<1>7. OnlyCall(k) /\ call'[k].pc = next
  BY <1>1, <1>5, <1>6, GoOnEffect DEF OnlyCall
<1> QED
  BY <1>2, <1>3, <1>5, <1>7 DEF SwitchBox

LEMMA HoldEffect ==
    ASSUME Typed, NEW k \in Caller, Hold(k)
    PROVE  /\ call[k].pc = "hold" /\ OnlyCall(k)
           /\ run' \in [Run -> RunRow] /\ notice' \in [Company -> NoticeState]
           /\ \/ /\ ~(listing.status = "OPEN" /\ ~listing.announced /\ listing.box)
                 /\ call'[k].pc = "claim" /\ run' = run /\ notice' = notice
              \/ /\ listing.status = "OPEN" /\ ~listing.announced /\ listing.box
                 /\ Counted = {} /\ Create("PUBLISH") /\ call'[k].pc = "idle"
                 /\ NotifyInvitees
              \/ /\ listing.status = "OPEN" /\ ~listing.announced /\ listing.box
                 /\ Counted # {} /\ call'[k].pc = "wait" /\ run' = run /\ notice' = notice
<1>1. /\ call \in [Caller -> CallRow] /\ run \in [Run -> RunRow]
      /\ notice \in [Company -> NoticeState]
  BY DEF Typed
<1>2. "claim" \in CallStage /\ "wait" \in CallStage
  BY DEF CallStage
<1>3. call[k].pc = "hold"
  BY DEF Hold, At
<1> DEFINE wanted == listing.status = "OPEN" /\ ~listing.announced /\ listing.box
<1>4. \/ ~wanted /\ GoOn(k, "claim") /\ UNCHANGED <<run, notice>>
      \/ wanted /\ Counted = {} /\ Create("PUBLISH") /\ Return(k) /\ NotifyInvitees
      \/ wanted /\ Counted # {} /\ GoOn(k, "wait") /\ UNCHANGED <<run, notice>>
  BY DEF Hold
<1>5. CASE ~wanted /\ GoOn(k, "claim") /\ UNCHANGED <<run, notice>>
  BY <1>1, <1>2, <1>3, <1>5, GoOnEffect DEF OnlyCall
<1>6. CASE wanted /\ Counted = {} /\ Create("PUBLISH") /\ Return(k) /\ NotifyInvitees
  BY <1>1, <1>3, <1>6, ReturnEffect, NotifyEffect, CreateTyped DEF OnlyCall
<1>7. CASE wanted /\ Counted # {} /\ GoOn(k, "wait") /\ UNCHANGED <<run, notice>>
  BY <1>1, <1>2, <1>3, <1>7, GoOnEffect DEF OnlyCall
<1> QED
  BY <1>4, <1>5, <1>6, <1>7

LEMMA HoldWaitEffect ==
    ASSUME Typed, NEW k \in Caller, HoldWait(k)
    PROVE  /\ call[k].pc = "wait" /\ OnlyCall(k)
           /\ notice' \in [Company -> NoticeState]
           /\ slip \subseteq slip' /\ slip' \subseteq {"hold", "switch"}
           /\ "switch" \in slip' => "switch" \in slip
           /\ \/ call'[k].pc = "idle" /\ NotifyInvitees /\ slip' = slip
              \/ /\ call'[k].pc = "claim" /\ notice' = notice
                 /\ slip' = {} => Awaited = {}
<1>1. /\ call \in [Caller -> CallRow] /\ notice \in [Company -> NoticeState]
      /\ slip \subseteq {"hold", "switch"}
  BY DEF Typed
<1>2. "claim" \in CallStage
  BY DEF CallStage
<1>3. call[k].pc = "wait"
  BY DEF HoldWait, At
<1>4. \/ Return(k) /\ NotifyInvitees /\ UNCHANGED slip
      \/ /\ GoOn(k, "claim") /\ UNCHANGED notice
         /\ slip' = IF Awaited # {} THEN slip \cup {"hold"} ELSE slip
  BY DEF HoldWait
<1>5. CASE Return(k) /\ NotifyInvitees /\ UNCHANGED slip
  BY <1>1, <1>3, <1>5, ReturnEffect, NotifyEffect DEF OnlyCall
<1>6. CASE /\ GoOn(k, "claim") /\ UNCHANGED notice
           /\ slip' = IF Awaited # {} THEN slip \cup {"hold"} ELSE slip
  <2>1. OnlyCall(k) /\ call'[k].pc = "claim"
    BY <1>1, <1>2, <1>6, GoOnEffect DEF OnlyCall
  <2>2. /\ slip \subseteq slip' /\ slip' \subseteq {"hold", "switch"}
        /\ "switch" \in slip' => "switch" \in slip
        /\ slip' = {} => Awaited = {}
    BY <1>1, <1>6
  <2> QED
    BY <1>1, <1>3, <1>6, <2>1, <2>2
<1> QED
  BY <1>4, <1>5, <1>6

LEMMA ClaimAnnouncementEffect ==
    ASSUME Typed, NEW k \in Caller, ClaimAnnouncement(k)
    PROVE  /\ call[k].pc = "claim" /\ OnlyCall(k) /\ listing' \in ListingRow
           /\ listing'.status = listing.status /\ listing'.box = listing.box
           /\ \/ /\ listing.status = "OPEN" /\ ~listing.announced
                 /\ listing'.announced /\ call'[k].pc = "targets"
              \/ /\ ~(listing.status = "OPEN" /\ ~listing.announced)
                 /\ listing' = listing /\ call'[k].pc = "idle"
<1>1. call \in [Caller -> CallRow] /\ listing \in ListingRow
  BY DEF Typed
<1>2. "targets" \in CallStage
  BY DEF CallStage
<1>3. CASE listing.status = "OPEN" /\ ~listing.announced
  <2>1. listing' = [listing EXCEPT !.announced = TRUE] /\ GoOn(k, "targets")
    BY <1>3 DEF ClaimAnnouncement
  <2>2. /\ listing' \in ListingRow /\ listing'.announced
        /\ listing'.status = listing.status /\ listing'.box = listing.box
    BY <1>1, <2>1 DEF ListingRow
  <2> QED
    BY <1>1, <1>2, <1>3, <2>1, <2>2, GoOnEffect DEF ClaimAnnouncement, OnlyCall, At
<1>4. CASE ~(listing.status = "OPEN" /\ ~listing.announced)
  BY <1>1, <1>4, ReturnEffect DEF ClaimAnnouncement, OnlyCall, At
<1> QED
  BY <1>3, <1>4

LEMMA ReadTargetsEffect ==
    ASSUME Typed, NEW k \in Caller, ReadTargets(k)
    PROVE  /\ call[k].pc = "targets" /\ OnlyCall(k)
           /\ call'[k].pc = "after" /\ call'[k].to = Company \ Invited
           /\ NotifyInvitees /\ notice' \in [Company -> NoticeState]
<1>1. call \in [Caller -> CallRow] /\ notice \in [Company -> NoticeState]
  BY DEF Typed
<1> DEFINE row == [pc |-> "after", to |-> Company \ Invited]
<1>2. row \in CallRow /\ row.pc = "after" /\ row.to = Company \ Invited
  BY DEF CallRow, CallStage
<1>3. call' = [call EXCEPT ![k] = row]
  BY DEF ReadTargets
<1> HIDE DEF row
<1>4. OnlyCall(k) /\ call'[k] = row
  BY <1>1, <1>2, <1>3 DEF OnlyCall
<1> QED
  BY <1>1, <1>2, <1>4, NotifyEffect DEF ReadTargets, At

LEMMA EnqueueFirstEffect ==
    ASSUME Typed, EnqueueFirst
    PROVE  /\ run' \in [Run -> RunRow]
           /\ \/ run' = run
              \/ listing.box /\ Counted = {} /\ Create("PUBLISH")
<1>1. run \in [Run -> RunRow]
  BY DEF Typed
<1> QED
  BY <1>1, CreateTyped DEF EnqueueFirst

LEMMA EnqueueAfterEffect ==
    ASSUME Typed, NEW k \in Caller, EnqueueAfter(k)
    PROVE  /\ call[k].pc = "after" /\ OnlyCall(k)
           /\ call'[k].pc = "send" /\ call'[k].to = call[k].to
           /\ EnqueueFirst
<1>1. call \in [Caller -> CallRow]
  BY DEF Typed
<1>2. "send" \in CallStage
  BY DEF CallStage
<1> QED
  BY <1>1, <1>2, GoOnEffect DEF EnqueueAfter, OnlyCall, At

LEMMA SendAnnouncementEffect ==
    ASSUME Typed, NEW k \in Caller, SendAnnouncement(k)
    PROVE  /\ call[k].pc = "send" /\ OnlyCall(k) /\ call'[k].pc = "idle"
           /\ letters' \in [Company -> Nat]
           /\ \A c \in Company :
                letters'[c] = IF c \in call[k].to THEN letters[c] + 1 ELSE letters[c]
<1>1. call \in [Caller -> CallRow] /\ letters \in [Company -> Nat]
  BY DEF Typed
<1>2. OnlyCall(k) /\ call'[k].pc = "idle"
  BY <1>1, ReturnEffect DEF SendAnnouncement, OnlyCall
<1>3. letters' = [c \in Company |-> IF c \in call[k].to THEN letters[c] + 1 ELSE letters[c]]
  BY DEF SendAnnouncement
<1> QED
  BY <1>1, <1>2, <1>3 DEF SendAnnouncement, At

LEMMA EnqueueAfterEditEffect ==
    ASSUME Typed, NEW k \in Caller, EnqueueAfterEdit(k)
    PROVE  /\ call[k].pc = "edited" /\ OnlyCall(k) /\ call'[k].pc = "idle"
           /\ \/ run' = run
              \/ listing.status = "OPEN" /\ EnqueueFirst
<1>1. call \in [Caller -> CallRow]
  BY DEF Typed
<1> QED
  BY <1>1, ReturnEffect DEF EnqueueAfterEdit, OnlyCall, At

LEMMA BuyerInvitesEffect ==
    ASSUME Typed, NEW c \in Company, BuyerInvites(c)
    PROVE  /\ invitation' \in [Company -> InvitationRow] /\ notice' \in [Company -> NoticeState]
           /\ listing.status = "OPEN" /\ c \notin Invited
           /\ invitation'[c].by = "buyer" /\ notice'[c] = "done"
           /\ \A d \in Company \ {c} : invitation'[d] = invitation[d] /\ notice'[d] = notice[d]
<1>1. invitation \in [Company -> InvitationRow] /\ notice \in [Company -> NoticeState]
  BY DEF Typed
<1> DEFINE n == Cardinality(Existing)
           row == [by |-> "buyer", after |-> n]
<1>2. n \in 0..MaxRun
  BY ExistingCount
<1>3. invitation' = [invitation EXCEPT ![c] = row]
  BY DEF BuyerInvites
<1> HIDE DEF n
<1>4. row \in InvitationRow /\ row.by = "buyer"
  BY <1>2 DEF InvitationRow
<1> HIDE DEF row
<1> QED
  BY <1>1, <1>3, <1>4 DEF BuyerInvites, NoticeState

LEMMA CloseEffect ==
    ASSUME Typed, Close
    PROVE  /\ listing' \in ListingRow /\ listing.status = "OPEN" /\ listing'.status = "CLOSED"
           /\ listing'.box = listing.box /\ listing'.announced = listing.announced
<1>1. listing \in ListingRow
  BY DEF Typed
<1>2. listing' = [listing EXCEPT !.status = "CLOSED"]
  BY DEF Close
<1> QED
  BY <1>1, <1>2 DEF ListingRow, Close

LEMMA CrashEffect ==
    ASSUME Typed, Crash
    PROVE  /\ crashes' \in 0..MaxCrash
           /\ \/ /\ notice' = notice /\ call' = call
                 /\ \E i \in Worker : OnlyWork(i) /\ work[i].pc # "idle" /\ work'[i].pc = "idle"
              \/ /\ notice' = notice /\ work' = work
                 /\ \E k \in Caller : OnlyCall(k) /\ call[k].pc # "idle" /\ call'[k].pc = "idle"
              \/ /\ call' = call /\ work' = work
                 /\ notice' \in [Company -> NoticeState]
                 /\ \E c \in Company :
                      /\ \/ notice[c] = "due" /\ notice'[c] = "-"
                         \/ notice[c] = "sending" /\ notice'[c] = "done"
                      /\ \A d \in Company \ {c} : notice'[d] = notice[d]
<1>1. /\ call \in [Caller -> CallRow] /\ work \in [Worker -> WorkRow]
      /\ notice \in [Company -> NoticeState] /\ crashes \in 0..MaxCrash
  BY DEF Typed
<1>2. crashes' \in 0..MaxCrash
  BY <1>1, DiscoveryAssumption DEF Crash
<1>3. CASE \E i \in Worker : ~Doing(i, "idle") /\ Rest(i) /\ UNCHANGED <<call, notice>>
  BY <1>1, <1>2, <1>3, RestEffect DEF OnlyWork, Doing
<1>4. CASE \E k \in Caller : ~At(k, "idle") /\ Return(k) /\ UNCHANGED <<work, notice>>
  BY <1>1, <1>2, <1>4, ReturnEffect DEF OnlyCall, At
<1>5. CASE \E c \in Company :
             /\ notice[c] \in {"due", "sending"}
             /\ notice' = [notice EXCEPT ![c] = IF notice[c] = "due" THEN "-" ELSE "done"]
             /\ UNCHANGED <<work, call>>
  BY <1>1, <1>2, <1>5 DEF NoticeState
<1> QED
  BY <1>3, <1>4, <1>5 DEF Crash

----------------------------------------------------------------------------
(* Type correctness: every value is what its column holds, and who works on *)
(* a run names one.                                                         *)
LEMMA TypedCaller ==
    ASSUME Typed, NEW k \in Caller, Publish(k) \/ SwitchBox(k) \/ CallStep(k)
    PROVE  Typed'
<1>1. CASE Publish(k)
  BY <1>1, PublishEffect DEF Publish, OnlyCall, Typed
<1>2. CASE SwitchBox(k)
  BY <1>2, SwitchBoxEffect DEF SwitchBox, OnlyCall, Typed
<1>3. CASE Hold(k)
  BY <1>3, HoldEffect DEF Hold, OnlyCall, Typed
<1>4. CASE HoldWait(k)
  BY <1>4, HoldWaitEffect DEF HoldWait, OnlyCall, Typed
<1>5. CASE ClaimAnnouncement(k)
  BY <1>5, ClaimAnnouncementEffect DEF ClaimAnnouncement, OnlyCall, Typed
<1>6. CASE ReadTargets(k)
  BY <1>6, ReadTargetsEffect DEF ReadTargets, OnlyCall, Typed
<1>7. CASE EnqueueAfter(k)
  BY <1>7, EnqueueAfterEffect, EnqueueFirstEffect DEF EnqueueAfter, OnlyCall, Typed
<1>8. CASE SendAnnouncement(k)
  BY <1>8, SendAnnouncementEffect DEF SendAnnouncement, OnlyCall, Typed
<1>9. CASE EnqueueAfterEdit(k)
  BY <1>9, EnqueueAfterEditEffect, EnqueueFirstEffect DEF EnqueueAfterEdit, OnlyCall, Typed
<1> QED
  BY <1>1, <1>2, <1>3, <1>4, <1>5, <1>6, <1>7, <1>8, <1>9 DEF CallStep

LEMMA TypedCompany ==
    ASSUME Typed, NEW c \in Company, BuyerInvites(c) \/ ClaimNotice(c) \/ SendNotice(c)
    PROVE  Typed'
<1>1. CASE BuyerInvites(c)
  BY <1>1, BuyerInvitesEffect DEF BuyerInvites, Typed
<1>2. CASE ClaimNotice(c)
  BY <1>2 DEF ClaimNotice, Typed, NoticeState
<1>3. CASE SendNotice(c)
  BY <1>3 DEF SendNotice, Typed, NoticeState
<1> QED
  BY <1>1, <1>2, <1>3

LEMMA TypedWorker ==
    ASSUME Typed, Placed, NEW i \in Worker,
           PickUp(i) \/ CatchUpRead(i) \/ SecondRoundRead(i) \/ WorkStep(i)
    PROVE  Typed' /\ Placed'
<1>p. ASSUME OnlyWork(i), work'[i].pc \in Working => work'[i].run \in Run
      PROVE  Placed'
  BY <1>p DEF OnlyWork, Placed
<1>1. ASSUME NEW r \in Run, ClaimRun(i, r) PROVE Typed' /\ Placed'
  <2>1. Typed'
    BY <1>1, ClaimRunEffect DEF ClaimRun, OnlyRun, OnlyWork, Typed
  <2>2. OnlyWork(i) /\ (work' = work \/ work'[i].pc = "closing" \/ work'[i].run = r)
    BY <1>1, ClaimRunEffect
  <2> QED
    BY <1>1, <1>p, <2>1, <2>2 DEF Placed, Working
<1>2. ASSUME NEW r \in Run, SweepRun(i, r) PROVE Typed' /\ Placed'
  BY <1>2, <1>p, SweepRunEffect DEF SweepRun, OnlyRun, OnlyWork, Typed, Working
<1>3. ASSUME NEW r \in Run, ResumeRun(i, r) PROVE Typed' /\ Placed'
  BY <1>3, <1>p, ResumeRunEffect DEF ResumeRun, OnlyRun, OnlyWork, Typed, Working
<1>4. CASE CatchUpRead(i) \/ SecondRoundRead(i)
  <2>1. OnlyWork(i) /\ work'[i].pc \in Planning
    BY <1>4, PlanEffect
  <2>2. Typed'
    BY <1>4, <2>1 DEF CatchUpRead, SecondRoundRead, OnlyWork, Typed
  <2> QED
    BY <1>p, <2>1, <2>2 DEF Planning, Working
<1>5. CASE SearchInVain(i)
  BY <1>5, <1>p, SearchInVainEffect DEF SearchInVain, OnlyRun, OnlyWork, Typed, Working
<1>6. CASE StoreCandidates(i)
  BY <1>6, <1>p, StoreCandidatesEffect DEF StoreCandidates, OnlyCand, OnlyWork, Typed
<1>7. CASE ReadCandidates(i)
  BY <1>7, <1>p, ReadCandidatesEffect DEF ReadCandidates, OnlyWork, Typed
<1>8. CASE InviteMembers(i)
  BY <1>8, <1>p, InviteMembersEffect DEF InviteMembers, OnlyWork, Typed
<1>9. CASE MarkInvited(i)
  BY <1>9, <1>p, MarkInvitedEffect DEF MarkInvited, Mark, OnlyCand, OnlyWork, Typed
<1>10. CASE MarkRefused(i)
  BY <1>10, <1>p, MarkRefusedEffect DEF MarkRefused, Mark, OnlyCand, OnlyWork, Typed
<1>11. CASE FinishRun(i)
  BY <1>11, <1>p, FinishRunEffect DEF FinishRun, OnlyRun, OnlyWork, Typed, Working
<1>12. CASE Enqueue(i)
  BY <1>12, <1>p, EnqueueEffect DEF Enqueue, OnlyWork, Typed, Working
<1>13. ASSUME NEW k \in Caller, ClosingNotices(i, k) PROVE Typed' /\ Placed'
  BY <1>13, <1>p, ClosingNoticesEffect DEF ClosingNotices, OnlyWork, Typed, Working
<1> QED
  BY <1>1, <1>2, <1>3, <1>4, <1>5, <1>6, <1>7, <1>8, <1>9, <1>10, <1>11, <1>12, <1>13
     DEF PickUp, WorkStep

LEMMA TypedOther ==
    ASSUME Typed, Placed, CronAnnounce \/ Close \/ Crash \/ UNCHANGED vars
    PROVE  Typed' /\ (Crash => Placed')
<1>1. CASE CronAnnounce
  BY <1>1, AnnounceEffect, DiscoveryAssumption DEF CronAnnounce, Typed, Crash, Placed
<1>2. CASE Close
  BY <1>2, CloseEffect DEF Close, Typed, Crash, Placed
<1>3. CASE Crash
  <2>1. Typed'
    BY <1>3, CrashEffect DEF Crash, OnlyWork, OnlyCall, Typed
  <2>2. Placed'
    BY <1>3, CrashEffect DEF OnlyWork, Placed, Working
  <2> QED
    BY <2>1, <2>2
<1>4. CASE UNCHANGED vars
  BY <1>4 DEF vars, Typed, Crash, Placed
<1> QED
  BY <1>1, <1>2, <1>3, <1>4

LEMMA TypedTime ==
    ASSUME Typed, NEW r \in Run, LeaseExpires(r) \/ RunAges(r)
    PROVE  Typed'
BY LeaseExpiresEffect, RunAgesEffect DEF LeaseExpires, RunAges, OnlyRun, Typed

LEMMA WorkFrame ==
    ASSUME [Next]_vars
    PROVE  \/ work' = work
           \/ Crash
           \/ \E i \in Worker : PickUp(i) \/ CatchUpRead(i) \/ SecondRoundRead(i) \/ WorkStep(i)
BY DEF Next, vars, Publish, SwitchBox, CallStep, Hold, HoldWait, ClaimAnnouncement, ReadTargets,
       EnqueueAfter, SendAnnouncement, EnqueueAfterEdit, CronAnnounce, BuyerInvites, ClaimNotice,
       SendNotice, Close, LeaseExpires, RunAges

LEMMA SoundStep == Sound /\ [Next]_vars => Sound'
<1> SUFFICES ASSUME Typed, Placed, [Next]_vars PROVE Typed' /\ Placed'
  BY DEF Sound
<1>1. Typed'
  BY TypedCaller, TypedCompany, TypedWorker, TypedOther, TypedTime DEF Next
<1>2. Placed'
  <2>1. CASE work' = work
    BY <2>1 DEF Placed
  <2>2. CASE Crash
    BY <2>2, TypedOther
  <2>3. CASE \E i \in Worker : PickUp(i) \/ CatchUpRead(i) \/ SecondRoundRead(i) \/ WorkStep(i)
    BY <2>3, TypedWorker
  <2> QED
    BY <2>1, <2>2, <2>3, WorkFrame
<1> QED
  BY <1>1, <1>2

LEMMA SoundInit == Init => Sound
<1> SUFFICES ASSUME Init PROVE Sound
  OBVIOUS
<1>1. Idle \in WorkRow /\ Idle.pc = "idle" /\ NoCall \in CallRow /\ NoRun \in RunRow
  BY DiscoveryAssumption DEF Idle, WorkRow, WorkStage, NoCall, CallRow, CallStage, NoRun, RunRow
<1>2. /\ run \in [Run -> RunRow] /\ call \in [Caller -> CallRow] /\ work \in [Worker -> WorkRow]
      /\ listing \in ListingRow
  BY <1>1 DEF Init, ListingRow
<1>3. \A c \in Company : [by |-> "-", after |-> 0] \in InvitationRow
  BY DiscoveryAssumption DEF InvitationRow
<1>4. invitation \in [Company -> InvitationRow]
  BY <1>3 DEF Init
<1>5. cand \in [Run -> CandRow] /\ notice \in [Company -> NoticeState]
      /\ letters \in [Company -> Nat]
  BY DEF Init, CandRow, NoticeState
<1>6. crashes \in 0..MaxCrash /\ slip \subseteq {"hold", "switch"}
  BY DiscoveryAssumption DEF Init
<1>7. Placed
  BY <1>1 DEF Init, Placed, Working
<1> QED
  BY <1>2, <1>4, <1>5, <1>6, <1>7 DEF Sound, Typed

(* The types of all the tables, for any number of companies, workers,       *)
(* callers and runs (TypeOK).                                               *)
THEOREM TypeCorrect == Spec => []TypeOK
<1>1. Sound => TypeOK
  BY TypedIsTypeOK DEF Sound
<1> QED
  BY SoundInit, SoundStep, <1>1, PTL DEF Spec

----------------------------------------------------------------------------
(* The runs in their order, and the workers apart.                          *)
LEMMA CreateEffect ==
    ASSUME Typed, NEW m \in 0..MaxRun, Existing = 1..m, NEW t \in Planning, Create(t)
    PROVE  \/ m = MaxRun /\ run' = run
           \/ /\ m + 1 \in Run /\ OnlyRun(m + 1) /\ run[m + 1].state = "NONE"
              /\ run'[m + 1] = Fresh(t) /\ Existing' = 1..(m + 1)
<1>1. m \in Nat /\ MaxRun \in Nat /\ run \in [Run -> RunRow]
  BY DiscoveryAssumption DEF Typed
<1>2. Cardinality(Existing) = m
  BY <1>1, FS_Interval
<1>3. run' = [r \in Run |-> IF r = m + 1 THEN Fresh(t) ELSE run[r]]
  BY <1>2 DEF Create, Fresh
<1>4. t \in {"PUBLISH", "SECOND_ROUND"}
  BY DEF Planning
<1>5. CASE m = MaxRun
  BY <1>1, <1>3, <1>5 DEF Run
<1>6. CASE m # MaxRun
  <2>1. m + 1 \in Run /\ m + 1 \notin Existing
    BY <1>1, <1>6 DEF Run
  <2>2. run[m + 1].state = "NONE"
    BY <2>1 DEF Existing
  <2>3. Fresh(t) \in RunRow /\ Fresh(t).state # "NONE"
    BY <1>4, FreshRun
  <2>4. OnlyRun(m + 1) /\ run'[m + 1] = Fresh(t)
    BY <1>1, <1>3, <2>1, <2>3 DEF OnlyRun
  <2>5. Existing' = Existing \cup {m + 1}
    BY <2>1, <2>3, <2>4 DEF OnlyRun, Existing
  <2>6. Existing' = 1..(m + 1)
    BY <1>1, <2>5
  <2> QED
    BY <2>1, <2>2, <2>4, <2>6
<1> QED
  BY <1>5, <1>6

LEMMA RunWorkFrame ==
    ASSUME Sound, [Next]_vars
    PROVE  \/ run' = run /\ work' = work
           \/ /\ work' = work
              /\ \E k \in Caller : Hold(k) \/ EnqueueAfter(k) \/ EnqueueAfterEdit(k)
           \/ \E i \in Worker : PickUp(i) \/ CatchUpRead(i) \/ SecondRoundRead(i) \/ WorkStep(i)
           \/ work' = work /\ \E r \in Run : LeaseExpires(r) \/ RunAges(r)
           \/ run' = run /\ Crash
BY DEF Next, vars, Publish, SwitchBox, CallStep, Hold, HoldWait, ClaimAnnouncement, ReadTargets,
       EnqueueAfter, SendAnnouncement, EnqueueAfterEdit, CronAnnounce, BuyerInvites, ClaimNotice,
       SendNotice, Close, LeaseExpires, RunAges, Crash

LEMMA CallerCreates ==
    ASSUME Typed, NEW k \in Caller, Hold(k) \/ EnqueueAfter(k) \/ EnqueueAfterEdit(k)
    PROVE  run' = run \/ (listing.box /\ Counted = {} /\ Create("PUBLISH"))
BY HoldEffect, EnqueueAfterEffect, EnqueueAfterEditEffect, EnqueueFirstEffect

LEMMA InOrderWhenSame ==
    ASSUME Typed, RunsInOrder, NEW r \in Run, OnlyRun(r), run[r].state # "NONE", run'[r].state # "NONE"
    PROVE  Existing' = Existing /\ RunsInOrder'
<1>1. Existing' = Existing
  BY DEF Existing, OnlyRun
<1> QED
  BY <1>1 DEF RunsInOrder

LEMMA ApartWhenCreated ==
    ASSUME Apart, NEW t \in Planning, Create(t), Typed', Placed',
           \/ work' = work
           \/ \E i \in Worker : OnlyWork(i) /\ work'[i].pc = "idle"
    PROVE  RunsInOrder' /\ WorkersApart'
<1>1. PICK m \in 0..MaxRun : Existing = 1..m
  BY DEF Apart, RunsInOrder
<1>2. \/ m = MaxRun /\ run' = run
      \/ /\ m + 1 \in Run /\ OnlyRun(m + 1) /\ run[m + 1].state = "NONE"
         /\ run'[m + 1] = Fresh(t) /\ Existing' = 1..(m + 1)
  BY <1>1, CreateEffect DEF Apart, Sound
<1>3. RunsInOrder'
  <2>1. CASE run' = run
    BY <1>1, <2>1 DEF RunsInOrder, Existing
  <2>2. CASE m + 1 \in Run /\ Existing' = 1..(m + 1)
    BY <2>2, RunIsNumber DEF RunsInOrder
  <2> QED
    BY <1>2, <2>1, <2>2
<1>4. \A j \in Worker : work'[j].pc \in Working => work'[j] = work[j]
  BY DEF OnlyWork, Working
<1>5. ~Fresh(t).stale
  BY FreshRun DEF Planning
<1>6. \A r \in Run : run'[r] = run[r] \/ (run[r].state = "NONE" /\ ~run'[r].stale)
  BY <1>2, <1>5 DEF OnlyRun
<1>7. \A j \in Worker : work'[j].pc \in Working => run'[work'[j].run] = run[work[j].run]
  BY <1>4, <1>6 DEF Apart, WorkersApart, Sound, Placed
<1> QED
  BY <1>3, <1>4, <1>6, <1>7 DEF Apart, WorkersApart

LEMMA ApartWhenReleased ==
    ASSUME Apart, NEW i \in Worker, OnlyWork(i), work'[i].pc \notin Working,
           \/ run' = run
           \/ /\ OnlyRun(work[i].run) /\ work[i].pc \in Working
              /\ run'[work[i].run].state \notin {"NONE", "PENDING"}
    PROVE  RunsInOrder' /\ WorkersApart'
<1>1. \A j \in Worker : work'[j].pc \in Working => j # i /\ work'[j] = work[j]
  BY DEF OnlyWork
<1>2. CASE run' = run
  <2>1. Existing' = Existing
    BY <1>2 DEF Existing
  <2>2. WorkersApart'
    BY <1>1, <1>2 DEF Apart, WorkersApart
  <2> QED
    BY <2>1, <2>2 DEF Apart, RunsInOrder
<1>3. CASE /\ OnlyRun(work[i].run) /\ work[i].pc \in Working
           /\ run'[work[i].run].state \notin {"NONE", "PENDING"}
  <2>1. work[i].run \in Run /\ run[work[i].run].state # "NONE"
    BY <1>3 DEF Apart, Sound, Placed, WorkersApart
  <2>2. RunsInOrder'
    BY <1>3, <2>1, InOrderWhenSame DEF Apart, Sound
  <2>3. \A j \in Worker : work'[j].pc \in Working => run'[work'[j].run] = run[work[j].run]
    BY <1>1, <1>3, <2>1 DEF OnlyRun, Apart, WorkersApart, Sound, Placed
  <2>4. WorkersApart'
    BY <1>1, <1>3, <2>1, <2>3 DEF OnlyRun, Apart, WorkersApart
  <2> QED
    BY <2>2, <2>4
<1> QED
  BY <1>2, <1>3

LEMMA ApartWhenTaken ==
    ASSUME Apart, NEW i \in Worker, NEW r \in Run, OnlyWork(i), OnlyRun(r),
           run[r].state # "NONE", run'[r].state \notin {"NONE", "PENDING"},
           \A j \in Worker : work[j].pc \in Working => work[j].run # r,
           \/ work'[i].pc \notin Working
           \/ work'[i].run = r /\ run'[r].state = "RUNNING" /\ ~run'[r].stale
    PROVE  RunsInOrder' /\ WorkersApart'
<1>1. RunsInOrder'
  BY InOrderWhenSame DEF Apart, Sound
<1>2. \A j \in Worker \ {i} : work'[j] = work[j]
  BY DEF OnlyWork
<1>3. \A j \in Worker \ {i} : work'[j].pc \in Working => run'[work'[j].run] = run[work[j].run]
  BY <1>2 DEF OnlyRun, Apart, Sound, Placed
<1> QED
  BY <1>1, <1>2, <1>3 DEF OnlyRun, Apart, WorkersApart

LEMMA ApartWhenCarriedOn ==
    ASSUME Apart, NEW i \in Worker, OnlyWork(i), work[i].pc \in Working,
           work'[i].run = work[i].run, run' = run
    PROVE  RunsInOrder' /\ WorkersApart'
<1>1. Existing' = Existing
  BY DEF Existing
<1>2. \A j \in Worker \ {i} : work'[j] = work[j]
  BY DEF OnlyWork
<1> QED
  BY <1>1, <1>2 DEF Apart, RunsInOrder, WorkersApart

LEMMA ApartStep == Apart /\ [Next]_vars => Apart'
<1> SUFFICES ASSUME Apart, [Next]_vars PROVE RunsInOrder' /\ WorkersApart'
  BY SoundStep DEF Apart
<1>s. Sound /\ Typed /\ Placed /\ Typed' /\ Placed'
  BY SoundStep DEF Apart, Sound
<1> USE DEF Working
<1>1. CASE run' = run /\ work' = work
  <2>1. Existing' = Existing
    BY <1>1 DEF Existing
  <2> QED
    BY <1>1, <2>1 DEF Apart, RunsInOrder, WorkersApart
<1>2. ASSUME NEW k \in Caller, Hold(k) \/ EnqueueAfter(k) \/ EnqueueAfterEdit(k), work' = work
      PROVE  RunsInOrder' /\ WorkersApart'
  BY <1>1, <1>2, <1>s, CallerCreates, ApartWhenCreated DEF Planning
<1>3. ASSUME NEW i \in Worker, NEW r \in Run, ClaimRun(i, r)
      PROVE  RunsInOrder' /\ WorkersApart'
  <2>1. \A j \in Worker : work[j].pc \in Working => work[j].run # r
    BY <1>3, <1>s, ClaimRunEffect DEF Apart, WorkersApart
  <2>2. ~run[r].stale
    BY <1>3, <1>s, ClaimRunEffect DEF Apart, WorkersApart
  <2> QED
    BY <1>3, <1>s, <2>1, <2>2, ClaimRunEffect, ApartWhenTaken
<1>4. ASSUME NEW i \in Worker, NEW r \in Run, SweepRun(i, r) \/ ResumeRun(i, r)
      PROVE  RunsInOrder' /\ WorkersApart'
  <2>1. run[r].stale
    BY <1>4, <1>s, SweepRunEffect, ResumeRunEffect
  <2>2. \A j \in Worker : work[j].pc \in Working => work[j].run # r
    BY <2>1 DEF Apart, WorkersApart
  <2> QED
    BY <1>4, <1>s, <2>2, SweepRunEffect, ResumeRunEffect, ApartWhenTaken
<1>5. ASSUME NEW i \in Worker, CatchUpRead(i) \/ SecondRoundRead(i)
      PROVE  RunsInOrder' /\ WorkersApart'
  <2>1. OnlyWork(i) /\ work'[i].pc \notin Working /\ run' = run
    BY <1>5, <1>s, PlanEffect DEF Planning, CatchUpRead, SecondRoundRead
  <2> QED
    BY <2>1, ApartWhenReleased
<1>6. ASSUME NEW i \in Worker, SearchInVain(i) \/ FinishRun(i)
      PROVE  RunsInOrder' /\ WorkersApart'
  <2>1. /\ OnlyWork(i) /\ work'[i].pc \notin Working /\ work[i].pc \in Working
        /\ \/ run' = run
           \/ /\ OnlyRun(work[i].run)
              /\ run'[work[i].run].state \notin {"NONE", "PENDING"}
    BY <1>6, <1>s, SearchInVainEffect, FinishRunEffect
  <2> QED
    BY <2>1, ApartWhenReleased
<1>7. ASSUME NEW i \in Worker, StoreCandidates(i) \/ ReadCandidates(i) \/ InviteMembers(i)
                               \/ MarkInvited(i) \/ MarkRefused(i)
      PROVE  RunsInOrder' /\ WorkersApart'
  <2>1. OnlyWork(i) /\ work[i].pc \in Working /\ work'[i].run = work[i].run
    BY <1>7, <1>s, StoreCandidatesEffect, ReadCandidatesEffect, InviteMembersEffect,
       MarkInvitedEffect, MarkRefusedEffect
  <2>2. run' = run
    BY <1>7 DEF StoreCandidates, ReadCandidates, InviteMembers, MarkInvited, MarkRefused, Mark
  <2> QED
    BY <2>1, <2>2, ApartWhenCarriedOn
<1>8. ASSUME NEW i \in Worker, Enqueue(i)
      PROVE  RunsInOrder' /\ WorkersApart'
  <2>1. /\ OnlyWork(i) /\ work[i].pc \in Planning /\ work'[i].pc = "idle"
        /\ run' = run \/ Create(work[i].pc)
    BY <1>8, <1>s, EnqueueEffect
  <2>2. CASE run' = run
    BY <2>1, <2>2, ApartWhenReleased
  <2>3. CASE Create(work[i].pc)
    BY <1>s, <2>1, <2>3, ApartWhenCreated
  <2> QED
    BY <2>1, <2>2, <2>3
<1>9. ASSUME NEW i \in Worker, NEW k \in Caller, ClosingNotices(i, k)
      PROVE  RunsInOrder' /\ WorkersApart'
  <2>1. OnlyWork(i) /\ work'[i].pc \notin Working /\ run' = run
    BY <1>9, <1>s, ClosingNoticesEffect DEF ClosingNotices
  <2> QED
    BY <2>1, ApartWhenReleased
<1>10. ASSUME NEW r \in Run, LeaseExpires(r) \/ RunAges(r), work' = work
       PROVE  RunsInOrder' /\ WorkersApart'
  <2>1. /\ OnlyRun(r) /\ run'[r].state = run[r].state
        /\ \/ run'[r].stale = run[r].stale
           \/ run[r].state = "RUNNING" /\ \A i \in Worker : work[i].run # r
    BY <1>10, <1>s, LeaseExpiresEffect, RunAgesEffect
  <2>2. Existing' = Existing
    BY <2>1 DEF OnlyRun, Existing
  <2>3. WorkersApart'
    BY <1>10, <1>s, <2>1 DEF OnlyRun, Apart, WorkersApart, Placed
  <2> QED
    BY <2>2, <2>3 DEF Apart, RunsInOrder
<1>11. CASE run' = run /\ Crash
  <2>1. work' = work \/ \E i \in Worker : OnlyWork(i) /\ work'[i].pc = "idle"
    BY <1>11, <1>s, CrashEffect
  <2> QED
    BY <1>1, <1>11, <2>1, ApartWhenReleased
<1> QED
  BY <1>1, <1>2, <1>3, <1>4, <1>5, <1>6, <1>7, <1>8, <1>9, <1>10, <1>11, <1>s, RunWorkFrame
     DEF PickUp, WorkStep

LEMMA ApartInit == Init => Apart
<1> SUFFICES ASSUME Init PROVE RunsInOrder /\ WorkersApart
  BY SoundInit DEF Apart
<1>1. NoRun.state = "NONE" /\ ~NoRun.stale /\ Idle.pc = "idle"
  BY DEF NoRun, Idle
<1>2. Existing = {}
  BY <1>1 DEF Init, Existing
<1>3. Existing = 1..0 /\ 0 \in 0..MaxRun
  BY <1>2, DiscoveryAssumption
<1>4. WorkersApart
  BY <1>1 DEF Init, WorkersApart, Working
<1> QED
  BY <1>3, <1>4 DEF RunsInOrder

----------------------------------------------------------------------------
(* What one step may do to a worker, a run, its candidates, an invitation.  *)
LEMMA WorkerMoves ==
    ASSUME Apart, [Next]_vars, NEW j \in Worker
    PROVE  \/ work'[j] = work[j]
           \/ work'[j].pc \notin Working
           \/ \E r \in Run : ClaimRun(j, r) \/ ResumeRun(j, r)
           \/ StoreCandidates(j) \/ ReadCandidates(j) \/ InviteMembers(j)
           \/ MarkInvited(j) \/ MarkRefused(j)
<1>s. Sound /\ Typed /\ Placed
  BY DEF Apart, Sound
<1>1. CASE work' = work
  BY <1>1
<1>2. CASE Crash
  BY <1>2, <1>s, CrashEffect DEF OnlyWork, Working
<1>3. ASSUME NEW i \in Worker, PickUp(i) \/ CatchUpRead(i) \/ SecondRoundRead(i) \/ WorkStep(i),
             i # j
      PROVE  work'[j] = work[j]
  BY <1>3, <1>s, ClaimRunEffect, SweepRunEffect, ResumeRunEffect, PlanEffect, SearchInVainEffect,
     StoreCandidatesEffect, ReadCandidatesEffect, InviteMembersEffect, MarkInvitedEffect,
     MarkRefusedEffect, FinishRunEffect, EnqueueEffect, ClosingNoticesEffect
     DEF PickUp, WorkStep, OnlyWork
<1>4. CASE PickUp(j) \/ CatchUpRead(j) \/ SecondRoundRead(j) \/ WorkStep(j)
  BY <1>4, <1>s, SweepRunEffect, PlanEffect, SearchInVainEffect,
     FinishRunEffect, EnqueueEffect, ClosingNoticesEffect
     DEF PickUp, WorkStep, Working, Planning
<1> QED
  BY <1>1, <1>2, <1>3, <1>4, WorkFrame

LEMMA RunMoves ==
    ASSUME Apart, [Next]_vars, NEW r \in Run
    PROVE  \/ run'[r].state = run[r].state /\ run'[r].told = run[r].told /\ run'[r].off = run[r].off
           \/ \E t \in Planning : run[r].state = "NONE" /\ run'[r] = Fresh(t)
           \/ \E i \in Worker : ClaimRun(i, r) \/ SweepRun(i, r)
           \/ \E i \in Worker : /\ SearchInVain(i) \/ FinishRun(i)
                                /\ work[i].run = r /\ run[r].state = "RUNNING"
<1>s. Sound /\ Typed /\ Placed
  BY DEF Apart, Sound
<1>c. ASSUME NEW t \in Planning, Create(t)
      PROVE  run'[r] = run[r] \/ (run[r].state = "NONE" /\ run'[r] = Fresh(t))
  <2>1. PICK m \in 0..MaxRun : Existing = 1..m
    BY DEF Apart, RunsInOrder
  <2> QED
    BY <1>c, <1>s, <2>1, CreateEffect DEF OnlyRun
<1>1. CASE run' = run
  BY <1>1
<1>2. ASSUME NEW k \in Caller, Hold(k) \/ EnqueueAfter(k) \/ EnqueueAfterEdit(k), run' # run
      PROVE  \E t \in Planning : Create(t)
  BY <1>2, <1>s, CallerCreates DEF Planning
<1>3. ASSUME NEW q \in Run, LeaseExpires(q) \/ RunAges(q)
      PROVE  run'[r].state = run[r].state /\ run'[r].told = run[r].told /\ run'[r].off = run[r].off
  BY <1>3, <1>s, LeaseExpiresEffect, RunAgesEffect DEF OnlyRun
<1>4. ASSUME NEW i \in Worker, PickUp(i)
      PROVE  \/ run'[r].state = run[r].state /\ run'[r].told = run[r].told /\ run'[r].off = run[r].off
             \/ ClaimRun(i, r) \/ SweepRun(i, r)
  BY <1>4, <1>s, ClaimRunEffect, SweepRunEffect, ResumeRunEffect DEF PickUp, OnlyRun
<1>5. ASSUME NEW i \in Worker, CatchUpRead(i) \/ SecondRoundRead(i)
      PROVE  run' = run
  BY <1>5 DEF CatchUpRead, SecondRoundRead
<1>6. ASSUME NEW i \in Worker, SearchInVain(i) \/ FinishRun(i)
      PROVE  run'[r] = run[r] \/ (work[i].run = r /\ run[r].state = "RUNNING")
  BY <1>6, <1>s, SearchInVainEffect, FinishRunEffect DEF OnlyRun
<1>7. ASSUME NEW i \in Worker, Enqueue(i)
      PROVE  run' = run \/ \E t \in Planning : Create(t)
  BY <1>7, <1>s, EnqueueEffect
<1>8. ASSUME NEW i \in Worker, StoreCandidates(i) \/ ReadCandidates(i) \/ InviteMembers(i)
            \/ MarkInvited(i) \/ MarkRefused(i) \/ \E k \in Caller : ClosingNotices(i, k)
      PROVE  run' = run
  BY <1>8 DEF StoreCandidates, ReadCandidates, InviteMembers, MarkInvited, MarkRefused, Mark,
              ClosingNotices
<1>9. CASE \E t \in Planning : Create(t)
  BY <1>9, <1>c
<1> QED
  BY <1>1, <1>2, <1>3, <1>4, <1>5, <1>6, <1>7, <1>8, <1>9, <1>s, RunWorkFrame DEF WorkStep

LEMMA CandMoves ==
    ASSUME Apart, [Next]_vars, NEW r \in Run
    PROVE  \/ cand'[r] = cand[r]
           \/ \E i \in Worker : /\ work[i].run = r
                                /\ StoreCandidates(i) \/ MarkInvited(i) \/ MarkRefused(i)
<1>1. \/ cand' = cand
      \/ \E i \in Worker : StoreCandidates(i) \/ MarkInvited(i) \/ MarkRefused(i)
  BY DEF Next, vars, Publish, SwitchBox, CallStep, Hold, HoldWait, ClaimAnnouncement, ReadTargets,
       EnqueueAfter, SendAnnouncement, EnqueueAfterEdit, CronAnnounce, BuyerInvites, ClaimNotice,
       SendNotice, Close, LeaseExpires, RunAges, Crash, PickUp, WorkStep, ClaimRun, SweepRun,
       ResumeRun, CatchUpRead, SecondRoundRead, SearchInVain, ReadCandidates, InviteMembers,
       FinishRun, Enqueue, ClosingNotices
<1>2. ASSUME NEW i \in Worker, StoreCandidates(i) \/ MarkInvited(i) \/ MarkRefused(i),
             work[i].run # r
      PROVE  cand'[r] = cand[r]
  BY <1>2, StoreCandidatesEffect, MarkInvitedEffect, MarkRefusedEffect DEF OnlyCand, Apart, Sound
<1> QED
  BY <1>1, <1>2

LEMMA InvitationMoves ==
    ASSUME Apart, [Next]_vars, NEW c \in Company
    PROVE  \/ invitation'[c] = invitation[c]
           \/ BuyerInvites(c)
           \/ \E i \in Worker : InviteMembers(i) /\ c \in work[i].todo /\ c \notin Invited
<1>1. \/ invitation' = invitation
      \/ \E d \in Company : BuyerInvites(d)
      \/ \E i \in Worker : InviteMembers(i)
  BY DEF Next, vars, Publish, SwitchBox, CallStep, Hold, HoldWait, ClaimAnnouncement, ReadTargets,
       EnqueueAfter, SendAnnouncement, EnqueueAfterEdit, CronAnnounce, ClaimNotice,
       SendNotice, Close, LeaseExpires, RunAges, Crash, PickUp, WorkStep, ClaimRun, SweepRun,
       ResumeRun, CatchUpRead, SecondRoundRead, SearchInVain, ReadCandidates, StoreCandidates,
       MarkInvited, MarkRefused, Mark, FinishRun, Enqueue, ClosingNotices
<1> QED
  BY <1>1, BuyerInvitesEffect, InviteMembersEffect DEF Apart, Sound

LEMMA InvitedStay ==
    ASSUME Apart, [Next]_vars, NEW c \in Invited
    PROVE  c \in Invited' /\ invitation'[c] = invitation[c]
<1>1. c \in Company /\ invitation[c].by # "-"
  BY DEF Invited
<1>2. invitation'[c] = invitation[c]
  BY <1>1, InvitationMoves, BuyerInvitesEffect DEF Apart, Sound
<1> QED
  BY <1>1, <1>2 DEF Invited

----------------------------------------------------------------------------
(* The candidates of a run, from the search to its end.                     *)
LEMMA SearchedStays ==
    ASSUME Apart, [Next]_vars, NEW r \in Run, Unsearched(r)'
    PROVE  Unsearched(r)
<1>s. Sound /\ Typed /\ Placed
  BY DEF Apart, Sound
<1>1. CASE run'[r].state \in {"NONE", "PENDING"}
  <2>1. \A i \in Worker : ClaimRun(i, r) => run[r].state \in {"NONE", "PENDING"}
    BY <1>s, ClaimRunEffect
  <2>2. \A i \in Worker : SweepRun(i, r) => run'[r].state = "FAILED"
    BY <1>s, SweepRunEffect
  <2>3. \A i \in Worker : work[i].run = r /\ SearchInVain(i) /\ run[r].state = "RUNNING"
           => run'[r].state \in {"FAILED", "DONE"}
    BY <1>s, SearchInVainEffect
  <2>4. \A i \in Worker : work[i].run = r /\ FinishRun(i) /\ run[r].state = "RUNNING"
           => run'[r].state = "DONE"
    BY <1>s, FinishRunEffect
  <2> QED
    BY <1>1, <2>1, <2>2, <2>3, <2>4, RunMoves DEF Unsearched
<1>2. ASSUME NEW i \in Worker, work'[i].pc = "search", work'[i].run = r
      PROVE  Unsearched(r)
  <2>1. CASE work'[i] = work[i]
    BY <1>2, <2>1 DEF Unsearched
  <2>2. ASSUME NEW q \in Run, ClaimRun(i, q)
        PROVE  Unsearched(r)
    BY <1>2, <2>1, <2>2, <1>s, ClaimRunEffect DEF Unsearched
  <2>3. ASSUME NEW q \in Run, ResumeRun(i, q)
        PROVE  FALSE
    BY <1>2, <2>3, <1>s, ResumeRunEffect
  <2>4. ~(StoreCandidates(i) \/ ReadCandidates(i) \/ InviteMembers(i)
          \/ MarkInvited(i) \/ MarkRefused(i))
    BY <1>2, <1>s, StoreCandidatesEffect, ReadCandidatesEffect, InviteMembersEffect,
       MarkInvitedEffect, MarkRefusedEffect
  <2> QED
    BY <1>2, <2>1, <2>2, <2>3, <2>4, WorkerMoves DEF Working
<1> QED
  BY <1>1, <1>2 DEF Unsearched

LEMMA NothingFoundStep ==
    ASSUME Apart, NothingFoundYet, [Next]_vars
    PROVE  NothingFoundYet'
<1>s. Sound /\ Typed /\ Placed
  BY DEF Apart, Sound
<1> SUFFICES ASSUME NEW r \in Run, Unsearched(r)' PROVE Found(r)' = {}
  BY DEF NothingFoundYet
<1>1. Unsearched(r) /\ Found(r) = {}
  BY SearchedStays DEF NothingFoundYet
<1>2. ASSUME NEW i \in Worker, work[i].run = r,
             StoreCandidates(i) \/ MarkInvited(i) \/ MarkRefused(i)
      PROVE  FALSE
  <2>1. work[i].pc \in Working /\ work'[i].pc # "search" /\ OnlyWork(i)
    BY <1>2, <1>s, StoreCandidatesEffect, MarkInvitedEffect, MarkRefusedEffect DEF Working
  <2>2. run' = run
    BY <1>2 DEF StoreCandidates, MarkInvited, MarkRefused, Mark
  <2>3. run[r].state = "RUNNING"
    BY <1>2, <2>1 DEF Apart, WorkersApart
  <2>4. PICK j \in Worker : work'[j].pc = "search" /\ work'[j].run = r
    BY <2>2, <2>3 DEF Unsearched
  <2>5. j # i /\ work'[j] = work[j]
    BY <2>1, <2>4 DEF OnlyWork
  <2> QED
    BY <1>2, <2>1, <2>4, <2>5 DEF Apart, WorkersApart, Working
<1>3. cand'[r] = cand[r]
  BY <1>2, CandMoves
<1> QED
  BY <1>1, <1>3 DEF Found

LEMMA PendingStays ==
    ASSUME NEW r \in Run, cand'[r] = cand[r]
    PROVE  Pending(r)' = Pending(r)
BY DEF Pending

LEMMA TodoStep ==
    ASSUME Apart, TodoIsPending, [Next]_vars
    PROVE  TodoIsPending'
<1>s. Sound /\ Typed /\ Placed
  BY DEF Apart, Sound
<1> SUFFICES ASSUME NEW i \in Worker
             PROVE  /\ work'[i].pc \in {"refused", "invite", "mark"} =>
                          work'[i].todo = Pending(work[i].run)'
                    /\ work'[i].pc = "mark" => work'[i].todo \subseteq Invited'
                    /\ work'[i].pc = "finish" => Pending(work[i].run)' = {}
  BY DEF TodoIsPending
<1>1. ASSUME NEW r \in Run, ClaimRun(i, r)
      PROVE  work'[i] = work[i] \/ work'[i].pc \in {"closing", "search"}
  BY <1>1, <1>s, ClaimRunEffect
<1>2. ASSUME NEW r \in Run, ResumeRun(i, r)
      PROVE  work'[i].pc = "read"
  BY <1>2, <1>s, ResumeRunEffect
<1>3. CASE StoreCandidates(i)
  BY <1>3, <1>s, StoreCandidatesEffect
<1>4. CASE ReadCandidates(i)
  <2>1. work[i].run \in Run /\ cand' = cand
    BY <1>4, <1>s, ReadCandidatesEffect DEF ReadCandidates
  <2>2. Pending(work[i].run)' = Pending(work[i].run)
    BY <1>4, <1>s, <2>1, ReadCandidatesEffect DEF Pending
  <2> QED
    BY <1>4, <1>s, <2>2, ReadCandidatesEffect
<1>5. CASE InviteMembers(i)
  <2>1. work[i].run \in Run /\ cand' = cand /\ work'[i].run = work[i].run
    BY <1>5, <1>s, InviteMembersEffect DEF InviteMembers
  <2>2. Pending(work[i].run)' = Pending(work[i].run)
    BY <2>1 DEF Pending
  <2>3. work[i].todo = Pending(work[i].run) /\ work[i].todo \subseteq Company
    BY <1>5, <1>s, InviteMembersEffect DEF TodoIsPending, Pending
  <2>4. work'[i].pc = "mark" => work[i].todo \subseteq Invited'
    BY <1>5, <1>s, <2>3, InviteMembersEffect DEF Invited
  <2> QED
    BY <1>5, <1>s, <2>2, <2>3, <2>4, InviteMembersEffect
<1>6. CASE MarkInvited(i) \/ MarkRefused(i)
  <2>1. /\ work[i].run \in Run /\ work'[i].run = work[i].run /\ work'[i].pc = "finish"
        /\ work[i].todo = Pending(work[i].run)
    BY <1>6, <1>s, MarkInvitedEffect, MarkRefusedEffect DEF TodoIsPending
  <2>2. \A c \in Company : cand'[work[i].run][c] # "MEMBER"
    BY <1>6, <1>s, <2>1, MarkInvitedEffect, MarkRefusedEffect DEF Pending
  <2> QED
    BY <2>1, <2>2 DEF Pending
<1>7. CASE work'[i] = work[i] /\ work[i].pc \in Working
  <2>1. ASSUME NEW j \in Worker, work[j].run = work[i].run,
               StoreCandidates(j) \/ MarkInvited(j) \/ MarkRefused(j)
        PROVE  j = i /\ work'[i].pc # work[i].pc
    BY <1>7, <2>1, <1>s, StoreCandidatesEffect, MarkInvitedEffect, MarkRefusedEffect
       DEF Apart, WorkersApart, Working
  <2>2. work[i].run \in Run
    BY <1>7, <1>s DEF Placed
  <2>3. cand'[work[i].run] = cand[work[i].run]
    BY <1>7, <2>1, <2>2, CandMoves
  <2>4. Pending(work[i].run)' = Pending(work[i].run)
    BY <1>7, <2>3 DEF Pending
  <2>5. \A c \in Invited : c \in Invited'
    BY InvitedStay
  <2> QED
    BY <1>7, <2>4, <2>5 DEF TodoIsPending
<1> QED
  BY <1>1, <1>2, <1>3, <1>4, <1>5, <1>6, <1>7, WorkerMoves DEF Working

LEMMA DoneStep ==
    ASSUME Apart, NothingFoundYet, TodoIsPending, DoneIsDone, [Next]_vars
    PROVE  DoneIsDone'
<1>s. Sound /\ Typed /\ Placed
  BY DEF Apart, Sound
<1> SUFFICES ASSUME NEW r \in Run
             PROVE  /\ run'[r].state = "DONE" =>
                         /\ Pending(r)' = {}
                         /\ run'[r].told <=> \E c \in Company : cand'[r][c] = "INVITED"
                    /\ run'[r].state # "DONE" => ~run'[r].told
  BY DEF DoneIsDone
<1>1. CASE run'[r].state = run[r].state /\ run'[r].told = run[r].told
  <2>1. CASE run[r].state = "DONE"
    <3>1. ASSUME NEW i \in Worker, work[i].run = r,
                 StoreCandidates(i) \/ MarkInvited(i) \/ MarkRefused(i)
          PROVE  FALSE
      BY <2>1, <3>1, <1>s, StoreCandidatesEffect, MarkInvitedEffect, MarkRefusedEffect
         DEF Apart, WorkersApart, Working
    <3>2. cand'[r] = cand[r]
      BY <3>1, CandMoves
    <3> QED
      BY <1>1, <2>1, <3>2, PendingStays DEF DoneIsDone
  <2>2. CASE run[r].state # "DONE"
    BY <1>1, <2>2 DEF DoneIsDone
  <2> QED
    BY <2>1, <2>2
<1>2. ASSUME NEW t \in Planning, run'[r] = Fresh(t)
      PROVE  run'[r].state # "DONE" /\ ~run'[r].told
  BY <1>2, FreshRun DEF Planning
<1>3. ASSUME NEW i \in Worker, ClaimRun(i, r) \/ SweepRun(i, r)
      PROVE  run'[r].state # "DONE" /\ ~run'[r].told
  <2>1. run[r].state # "DONE" /\ run'[r].state # "DONE" /\ run'[r].told = run[r].told
    BY <1>3, <1>s, ClaimRunEffect, SweepRunEffect
  <2> QED
    BY <2>1 DEF DoneIsDone
<1>4. ASSUME NEW i \in Worker, SearchInVain(i), work[i].run = r, run[r].state = "RUNNING"
      PROVE  /\ Pending(r)' = {} /\ ~\E c \in Company : cand'[r][c] = "INVITED"
             /\ ~run'[r].told
  <2>1. Unsearched(r)
    BY <1>4, <1>s, SearchInVainEffect DEF Unsearched
  <2>2. cand' = cand
    BY <1>4 DEF SearchInVain
  <2>3. Found(r) = {} /\ ~run[r].told
    BY <1>4, <2>1 DEF NothingFoundYet, DoneIsDone
  <2>4. run'[r].told = run[r].told
    BY <1>4, <1>s, SearchInVainEffect
  <2> QED
    BY <2>2, <2>3, <2>4 DEF Found, Pending
<1>5. ASSUME NEW i \in Worker, FinishRun(i), work[i].run = r, run[r].state = "RUNNING"
      PROVE  /\ Pending(r)' = {}
             /\ run'[r].told <=> \E c \in Company : cand'[r][c] = "INVITED"
             /\ run'[r].state = "DONE"
  <2>1. cand' = cand
    BY <1>5 DEF FinishRun
  <2>2. Pending(r) = {}
    BY <1>5, <1>s, FinishRunEffect DEF TodoIsPending
  <2>3. /\ run'[r].told <=> \E c \in Company : cand[r][c] = "INVITED"
        /\ run'[r].state = "DONE"
    BY <1>5, <1>s, FinishRunEffect
  <2> QED
    BY <2>1, <2>2, <2>3 DEF Pending
<1> QED
  BY <1>1, <1>2, <1>3, <1>4, <1>5, RunMoves

LEMMA KeptStep == Apart /\ Kept /\ [Next]_vars => Kept'
BY NothingFoundStep, TodoStep, DoneStep DEF Kept

LEMMA KeptInit == Init => Kept
<1>1. NoRun.state = "NONE" /\ ~NoRun.told /\ Idle.pc = "idle"
  BY DEF NoRun, Idle
<1> QED
  BY <1>1 DEF Init, Kept, NothingFoundYet, TodoIsPending, DoneIsDone, Found

----------------------------------------------------------------------------
(* Who makes a run, and what one step may do to the request and a caller.   *)
LEMMA NewRunEffect ==
    ASSUME Apart, Unpublished, NEW t \in Planning, Create(t), listing' = listing, listing.status # "DRAFT",
           \/ listing.box /\ Counted = {}
           \/ Running = {} /\ \E i \in Worker : work[i].pc \in Planning
    PROVE  Existing' = Existing \/ \E n \in Run : NewRun(n)
<1>1. PICK m \in 0..MaxRun : Existing = 1..m
  BY DEF Apart, RunsInOrder
<1>2. \/ m = MaxRun /\ run' = run
      \/ /\ m + 1 \in Run /\ OnlyRun(m + 1) /\ run[m + 1].state = "NONE"
         /\ run'[m + 1] = Fresh(t) /\ Existing' = 1..(m + 1)
  BY <1>1, CreateEffect DEF Apart, Sound
<1>3. CASE run' = run
  BY <1>3 DEF Existing
<1>4. CASE /\ m + 1 \in Run /\ OnlyRun(m + 1) /\ run[m + 1].state = "NONE"
           /\ run'[m + 1] = Fresh(t) /\ Existing' = 1..(m + 1)
  <2>1. Fresh(t).state = "PENDING" /\ ~Fresh(t).off
    BY FreshRun DEF Planning
  <2>2. (m + 1) - 1 = m
    BY DiscoveryAssumption
  <2>3. NewRun(m + 1)
    BY <1>1, <1>4, <2>1, <2>2 DEF NewRun
  <2> QED
    BY <1>4, <2>3
<1> QED
  BY <1>2, <1>3, <1>4

LEMMA RunsMade ==
    ASSUME Apart, Unpublished, [Next]_vars
    PROVE  Existing' = Existing \/ \E n \in Run : NewRun(n)
<1>s. Sound /\ Typed /\ Placed /\ "PUBLISH" \in Planning
  BY DEF Apart, Sound, Planning
<1>1. CASE run' = run
  BY <1>1 DEF Existing
<1>2. ASSUME NEW k \in Caller, Hold(k) \/ EnqueueAfter(k) \/ EnqueueAfterEdit(k), run' # run
      PROVE  Existing' = Existing \/ \E n \in Run : NewRun(n)
  <2>1. listing.box /\ Counted = {} /\ Create("PUBLISH")
    BY <1>2, <1>s, CallerCreates
  <2>2. listing' = listing
    BY <1>2 DEF Hold, EnqueueAfter, EnqueueAfterEdit
  <2>3. listing.status # "DRAFT"
    BY <1>2, <1>s, HoldEffect, EnqueueAfterEffect, EnqueueAfterEditEffect DEF Unpublished
  <2> QED
    BY <1>s, <2>1, <2>2, <2>3, NewRunEffect
<1>3. ASSUME NEW r \in Run, OnlyRun(r), run[r].state # "NONE", run'[r].state # "NONE"
      PROVE  Existing' = Existing
  BY <1>3 DEF OnlyRun, Existing
<1>4. ASSUME NEW r \in Run, LeaseExpires(r)
      PROVE  Existing' = Existing
  BY <1>3, <1>4, <1>s, LeaseExpiresEffect
<1>5. ASSUME NEW r \in Run, RunAges(r)
      PROVE  Existing' = Existing
  BY <1>5, <1>s, RunAgesEffect DEF OnlyRun, Existing
<1>6. ASSUME NEW i \in Worker, PickUp(i)
      PROVE  Existing' = Existing
  BY <1>3, <1>6, <1>s, ClaimRunEffect, SweepRunEffect, ResumeRunEffect DEF PickUp
<1>7. ASSUME NEW i \in Worker, SearchInVain(i) \/ FinishRun(i)
      PROVE  Existing' = Existing
  <2>1. /\ work[i].run \in Run
        /\ \/ run' = run
           \/ /\ OnlyRun(work[i].run) /\ run[work[i].run].state = "RUNNING"
              /\ run'[work[i].run].state \in {"FAILED", "DONE"}
    BY <1>7, <1>s, SearchInVainEffect, FinishRunEffect
  <2>2. CASE run' = run
    BY <2>2 DEF Existing
  <2> QED
    BY <1>3, <2>1, <2>2
<1>8. ASSUME NEW i \in Worker, Enqueue(i), run' # run
      PROVE  Existing' = Existing \/ \E n \in Run : NewRun(n)
  <2>1. work[i].pc \in Planning /\ Running = {} /\ Create(work[i].pc)
    BY <1>8, <1>s, EnqueueEffect
  <2>2. listing' = listing
    BY <1>8 DEF Enqueue
  <2>3. listing.status # "DRAFT"
    BY <2>1 DEF Unpublished
  <2> QED
    BY <2>1, <2>2, <2>3, NewRunEffect
<1>9. ASSUME NEW i \in Worker, CatchUpRead(i) \/ SecondRoundRead(i) \/ StoreCandidates(i)
            \/ ReadCandidates(i) \/ InviteMembers(i) \/ MarkInvited(i) \/ MarkRefused(i)
            \/ \E k \in Caller : ClosingNotices(i, k)
      PROVE  run' = run
  BY <1>9 DEF CatchUpRead, SecondRoundRead, StoreCandidates, ReadCandidates, InviteMembers,
              MarkInvited, MarkRefused, Mark, ClosingNotices
<1> QED
  BY <1>1, <1>2, <1>4, <1>5, <1>6, <1>7, <1>8, <1>9, <1>s, RunWorkFrame DEF WorkStep

LEMMA ListingMoves ==
    ASSUME Typed, [Next]_vars
    PROVE  \/ listing' = listing
           \/ \E k \in Caller : Publish(k) \/ SwitchBox(k) \/ ClaimAnnouncement(k)
           \/ Close
BY DEF Next, vars, CallStep, Hold, HoldWait, ReadTargets,
       EnqueueAfter, SendAnnouncement, EnqueueAfterEdit, CronAnnounce, BuyerInvites, ClaimNotice,
       SendNotice, LeaseExpires, RunAges, Crash, PickUp, WorkStep, ClaimRun, SweepRun,
       ResumeRun, CatchUpRead, SecondRoundRead, SearchInVain, ReadCandidates, StoreCandidates,
       InviteMembers, MarkInvited, MarkRefused, Mark, FinishRun, Enqueue, ClosingNotices

LEMMA CallMoves ==
    ASSUME Typed, [Next]_vars, NEW l \in Caller
    PROVE  \/ call'[l] = call[l]
           \/ Publish(l) \/ SwitchBox(l) \/ CallStep(l)
           \/ /\ Announce(l) /\ listing.status = "OPEN" /\ ~listing.announced
              /\ listing' = listing /\ notice' = notice /\ run' = run
           \/ call'[l].pc = "idle"
<1>1. \/ call' = call
      \/ \E k \in Caller : Publish(k) \/ SwitchBox(k) \/ CallStep(k)
      \/ CronAnnounce
      \/ \E i \in Worker, k \in Caller : ClosingNotices(i, k)
      \/ Crash
  BY DEF Next, vars, BuyerInvites, ClaimNotice, Close,
       SendNotice, LeaseExpires, RunAges, PickUp, WorkStep, ClaimRun, SweepRun,
       ResumeRun, CatchUpRead, SecondRoundRead, SearchInVain, ReadCandidates, StoreCandidates,
       InviteMembers, MarkInvited, MarkRefused, Mark, FinishRun, Enqueue
<1>2. ASSUME NEW k \in Caller, Publish(k) \/ SwitchBox(k) \/ CallStep(k), k # l
      PROVE  call'[l] = call[l]
  BY <1>2, PublishEffect, SwitchBoxEffect, HoldEffect, HoldWaitEffect, ClaimAnnouncementEffect,
     ReadTargetsEffect, EnqueueAfterEffect, SendAnnouncementEffect, EnqueueAfterEditEffect
     DEF CallStep, OnlyCall
<1>3. CASE CronAnnounce
  <2>1. /\ Announce(Cron) /\ listing.status = "OPEN" /\ ~listing.announced
        /\ listing' = listing /\ notice' = notice /\ run' = run
    BY <1>3 DEF CronAnnounce, Held
  <2>2. call \in [Caller -> CallRow] /\ Cron \in Caller
    BY DiscoveryAssumption DEF Typed
  <2> QED
    BY <2>1, <2>2, AnnounceEffect
<1>4. ASSUME NEW i \in Worker, NEW k \in Caller, ClosingNotices(i, k)
      PROVE  \/ call'[l] = call[l]
             \/ /\ Announce(l) /\ listing.status = "OPEN" /\ ~listing.announced
                /\ listing' = listing /\ notice' = notice /\ run' = run
  <2>1. call \in [Caller -> CallRow]
    BY DEF Typed
  <2>2. listing' = listing /\ notice' = notice /\ run' = run
    BY <1>4 DEF ClosingNotices
  <2> QED
    BY <1>4, <2>1, <2>2, ClosingNoticesEffect, AnnounceEffect
<1>5. CASE Crash
  BY <1>5, CrashEffect DEF OnlyCall
<1> QED
  BY <1>1, <1>2, <1>3, <1>4, <1>5

----------------------------------------------------------------------------
(* While nobody switches the box.                                           *)
LEMMA SteadyMoves ==
    ASSUME Apart, [Next]_vars, Steady'
    PROVE  /\ Steady /\ listing'.box = listing.box
           /\ listing'.status = "OPEN" => \/ listing.status = "OPEN"
                                          \/ \E k \in Caller : Publish(k)
<1>t. Typed
  BY DEF Apart, Sound
<1>1. \A k \in Caller : SwitchBox(k) => "switch" \in slip'
  BY DEF SwitchBox
<1>2. \A k \in Caller : ~SwitchBox(k)
  BY <1>1 DEF Steady
<1>3. slip' = slip \/ \E k \in Caller : SwitchBox(k) \/ HoldWait(k)
  BY DEF Next, vars, Publish, CallStep, Hold, ClaimAnnouncement, ReadTargets,
       EnqueueAfter, SendAnnouncement, EnqueueAfterEdit, CronAnnounce, BuyerInvites, ClaimNotice,
       SendNotice, Close, LeaseExpires, RunAges, Crash, PickUp, WorkStep, ClaimRun, SweepRun,
       ResumeRun, CatchUpRead, SecondRoundRead, SearchInVain, ReadCandidates, StoreCandidates,
       InviteMembers, MarkInvited, MarkRefused, Mark, FinishRun, Enqueue, ClosingNotices
<1>4. Steady
  BY <1>2, <1>3, <1>t, HoldWaitEffect DEF Steady
<1>5. listing'.box = listing.box
  BY <1>2, <1>t, ListingMoves, PublishEffect, ClaimAnnouncementEffect, CloseEffect
<1>6. listing'.status = "OPEN" => listing.status = "OPEN" \/ \E k \in Caller : Publish(k)
  BY <1>2, <1>t, ListingMoves, ClaimAnnouncementEffect, CloseEffect
<1> QED
  BY <1>4, <1>5, <1>6

LEMMA PlansMade ==
    ASSUME Apart, [Next]_vars, NEW i \in Worker, work'[i].pc \in Planning
    PROVE  \/ work'[i] = work[i]
           \/ CatchUpRead(i) \/ SecondRoundRead(i)
<1>t. Sound /\ Typed /\ Placed
  BY DEF Apart, Sound
<1> SUFFICES ASSUME work'[i] # work[i] PROVE CatchUpRead(i) \/ SecondRoundRead(i)
  OBVIOUS
<1>3. ASSUME NEW j \in Worker, j # i,
             PickUp(j) \/ CatchUpRead(j) \/ SecondRoundRead(j) \/ WorkStep(j)
      PROVE  work'[i] = work[i]
  BY <1>3, <1>t, ClaimRunEffect, SweepRunEffect, ResumeRunEffect, PlanEffect, SearchInVainEffect,
     StoreCandidatesEffect, ReadCandidatesEffect, InviteMembersEffect, MarkInvitedEffect,
     MarkRefusedEffect, FinishRunEffect, EnqueueEffect, ClosingNoticesEffect
     DEF PickUp, WorkStep, OnlyWork
<1>4. ~Crash
  BY <1>t, CrashEffect DEF OnlyWork, Planning
<1>5. PickUp(i) \/ CatchUpRead(i) \/ SecondRoundRead(i) \/ WorkStep(i)
  BY <1>3, <1>4, WorkFrame
<1>6. ~PickUp(i) /\ ~WorkStep(i)
  BY <1>t, ClaimRunEffect, SweepRunEffect, ResumeRunEffect, SearchInVainEffect,
     StoreCandidatesEffect, ReadCandidatesEffect, InviteMembersEffect, MarkInvitedEffect,
     MarkRefusedEffect, FinishRunEffect, EnqueueEffect, ClosingNoticesEffect
     DEF PickUp, WorkStep, Planning
<1> QED
  BY <1>5, <1>6

LEMMA UnpublishedStep ==
    ASSUME Apart, Unpublished, [Next]_vars
    PROVE  Unpublished'
<1>t. Typed
  BY DEF Apart, Sound
<1> SUFFICES ASSUME listing'.status = "DRAFT"
             PROVE  /\ Existing' = {}
                    /\ \A k \in Caller : call'[k].pc = "idle"
                    /\ \A i \in Worker : work'[i].pc \notin Planning
  BY DEF Unpublished
<1>1. listing.status = "DRAFT" /\ \A k \in Caller : ~Publish(k) /\ ~SwitchBox(k)
  BY <1>t, ListingMoves, PublishEffect, SwitchBoxEffect, ClaimAnnouncementEffect, CloseEffect
<1>2. Existing' = {}
  BY <1>1, RunsMade DEF Unpublished, NewRun
<1>3. ASSUME NEW k \in Caller
      PROVE  call'[k].pc = "idle"
  <2>1. call[k].pc = "idle"
    BY <1>1 DEF Unpublished
  <2>2. ~CallStep(k)
    BY <2>1 DEF CallStep, Hold, HoldWait, ClaimAnnouncement, ReadTargets, EnqueueAfter,
       SendAnnouncement, EnqueueAfterEdit, At
  <2> QED
    BY <1>1, <1>t, <2>1, <2>2, CallMoves
<1>4. ASSUME NEW i \in Worker, work'[i].pc \in Planning
      PROVE  FALSE
  <2>1. work[i].pc \notin Planning
    BY <1>1 DEF Unpublished
  <2> QED
    BY <1>1, <1>4, <1>t, <2>1, PlansMade, PlanEffect
<1> QED
  BY <1>2, <1>3, <1>4

LEMMA OneActiveStep ==
    ASSUME Apart, Unpublished, OneRunActive, [Next]_vars
    PROVE  OneRunActive'
<1>t. Sound /\ Typed /\ Placed
  BY DEF Apart, Sound
<1> SUFFICES ASSUME Steady'
             PROVE  /\ \A r \in Run : ~run'[r].off
                    /\ Existing' # {} => listing'.box
                    /\ \A i \in Worker : work'[i].pc \in Planning => listing'.box
                    /\ \A r \in Running', q \in Existing' : q <= r
  BY DEF OneRunActive
<1>1. Steady /\ listing'.box = listing.box
  BY SteadyMoves
<1>2. /\ \A r \in Run : ~run[r].off
      /\ Existing # {} => listing.box
      /\ \A i \in Worker : work[i].pc \in Planning => listing.box
      /\ \A r \in Running, q \in Existing : q <= r
  BY <1>1 DEF OneRunActive
<1>3. ASSUME NEW r \in Run
      PROVE  ~run'[r].off
  <2>1. \A i \in Worker : ClaimRun(i, r) => run[r].state = "PENDING"
    BY <1>t, ClaimRunEffect
  <2>2. run[r].state = "PENDING" => listing.box
    BY <1>2 DEF Existing
  <2>3. \A i \in Worker : ClaimRun(i, r) => ~run'[r].off
    BY <1>2, <1>t, <2>1, <2>2, ClaimRunEffect
  <2>4. \A i \in Worker : SweepRun(i, r) => ~run'[r].off
    BY <1>t, SweepRunEffect
  <2>5. ASSUME NEW i \in Worker, SearchInVain(i) \/ FinishRun(i),
               work[i].run = r, run[r].state = "RUNNING"
        PROVE  run'[r].off => run[r].off
    BY <2>5, <1>t, SearchInVainEffect, FinishRunEffect
  <2>6. \A t \in Planning : ~Fresh(t).off
    BY FreshRun DEF Planning
  <2> QED
    BY <1>2, <2>3, <2>4, <2>5, <2>6, RunMoves
<1>4. Existing' # {} => listing.box
  BY <1>2, RunsMade DEF NewRun
<1>5. ASSUME NEW i \in Worker, work'[i].pc \in Planning
      PROVE  listing.box
  BY <1>2, <1>5, <1>t, PlansMade, PlanEffect
<1>6. ASSUME NEW r \in Running', NEW q \in Existing'
      PROVE  q <= r
  <2>1. r \in Run /\ run'[r].state \in Active
    BY <1>6 DEF Running, Existing
  <2>2. r \in Running \/ run[r].state = "NONE"
    <3>1. \A i \in Worker : ClaimRun(i, r) => run[r].state = "PENDING"
      BY <1>t, <2>1, ClaimRunEffect
    <3>2. \A i \in Worker : SweepRun(i, r) => run[r].state = "RUNNING"
      BY <1>t, <2>1, SweepRunEffect
    <3> QED
      BY <2>1, <3>1, <3>2, RunMoves DEF Active, Running, Existing
  <2>3. CASE Existing' = Existing
    <3>1. r \in Existing
      BY <1>6, <2>3 DEF Running
    <3>2. r \in Running
      BY <2>2, <3>1 DEF Existing
    <3> QED
      BY <1>2, <1>6, <2>3, <3>2
  <2>4. ASSUME NEW n \in Run, NewRun(n)
        PROVE  q <= r
    <3>1. Running = {}
      <4>1. CASE Counted = {}
        BY <1>2, <4>1 DEF Counted, Existing, Running
      <4> QED
        BY <2>4, <4>1 DEF NewRun
    <3>2. r = n
      BY <2>1, <2>2, <2>4, <3>1 DEF NewRun, OnlyRun, Active
    <3> QED
      BY <1>6, <2>4, <3>2, RunIsNumber DEF NewRun
  <2> QED
    BY <2>3, <2>4, RunsMade
<1> QED
  BY <1>1, <1>3, <1>4, <1>5, <1>6

LEMMA InvitedBeforeStep ==
    ASSUME Apart, OneRunActive, InvitedBefore, [Next]_vars
    PROVE  InvitedBefore'
<1>t. Sound /\ Typed /\ Placed
  BY DEF Apart, Sound
<1> SUFFICES ASSUME Steady', NEW r \in Run, NEW c \in Company,
                    Unsearched(r)', invitation'[c].by = "run"
             PROVE  invitation'[c].after < r
  BY DEF InvitedBefore
<1>1. Steady /\ Unsearched(r)
  BY SteadyMoves, SearchedStays
<1>2. CASE invitation'[c] = invitation[c]
  BY <1>1, <1>2 DEF InvitedBefore
<1>3. CASE BuyerInvites(c)
  BY <1>3, <1>t, BuyerInvitesEffect
<1>4. ASSUME NEW i \in Worker, InviteMembers(i), c \in work[i].todo, c \notin Invited
      PROVE  invitation'[c].after < r
  <2>1. PICK m \in 0..MaxRun : Existing = 1..m
    BY DEF Apart, RunsInOrder
  <2>2. Cardinality(Existing) = m /\ m \in Nat /\ r \in Nat
    BY <2>1, FS_Interval, DiscoveryAssumption, RunIsNumber
  <2>3. invitation'[c].after = m \/ invitation'[c] = invitation[c]
    BY <1>4, <1>t, <2>2, InviteMembersEffect
  <2>4. /\ work[i].pc = "invite" /\ work[i].run \in Run /\ run[work[i].run].state = "RUNNING"
    BY <1>4, <1>t, InviteMembersEffect DEF Apart, WorkersApart, Working
  <2>5. r \notin Existing
    <3> SUFFICES ASSUME r \in Existing PROVE FALSE
      OBVIOUS
    <3>1. ASSUME NEW j \in Worker, work[j].pc = "search", work[j].run = r
          PROVE  run[r].state = "RUNNING"
      BY <3>1 DEF Apart, WorkersApart, Working
    <3>2. r \in Running /\ work[i].run \in Running
      BY <1>1, <2>4, <3>1 DEF Unsearched, Running, Existing, Active
    <3>3. r = work[i].run
      <4>1. r <= work[i].run /\ work[i].run <= r
        BY <1>1, <3>2 DEF OneRunActive, Running
      <4> QED
        BY <2>4, <4>1, RunIsNumber
    <3>4. PICK j \in Worker : work[j].pc = "search" /\ work[j].run = r
      BY <1>1, <2>4, <3>3 DEF Unsearched
    <3> QED
      BY <2>4, <3>3, <3>4 DEF Apart, WorkersApart, Working
  <2>6. m < r
    BY <2>1, <2>2, <2>5, RunIsNumber
  <2> QED
    BY <1>2, <2>3, <2>6
<1> QED
  BY <1>2, <1>3, <1>4, InvitationMoves

LEMMA ResultsStep ==
    ASSUME Apart, NothingFoundYet, TodoIsPending, Unpublished, OneRunActive, InvitedBefore, ResultsFit,
           [Next]_vars
    PROVE  ResultsFit'
<1>t. Sound /\ Typed /\ Placed
  BY DEF Apart, Sound
<1> SUFFICES ASSUME Steady', listing'.status = "OPEN"
             PROVE  /\ \A i \in Worker : work'[i].pc # "refused"
                    /\ \A r \in Run, c \in Company :
                          /\ cand'[r][c] # "NOT_ALLOWED"
                          /\ cand'[r][c] = "ALREADY_INVITED" => c \in Invited' /\ ~Mine(r, c)'
  BY DEF ResultsFit
<1>1. Steady /\ (listing.status = "OPEN" \/ \E k \in Caller : Publish(k))
  BY SteadyMoves
<1>2. CASE \E k \in Caller : Publish(k)
  <2>1. listing.status = "DRAFT" /\ work' = work /\ cand' = cand
    BY <1>2 DEF Publish
  <2>2. Existing = {}
    BY <2>1 DEF Unpublished
  <2>3. \A i \in Worker : work[i].pc \notin Working
    BY <1>t, <2>2 DEF Existing, Apart, WorkersApart, Placed
  <2>4. \A r \in Run : Found(r) = {}
    BY <2>2 DEF NothingFoundYet, Unsearched, Existing
  <2> QED
    BY <2>1, <2>3, <2>4 DEF Found, Working
<1>3. CASE listing.status = "OPEN"
  <2>1. /\ \A i \in Worker : work[i].pc # "refused"
        /\ \A r \in Run, c \in Company :
              /\ cand[r][c] # "NOT_ALLOWED"
              /\ cand[r][c] = "ALREADY_INVITED" => c \in Invited /\ ~Mine(r, c)
    BY <1>1, <1>3 DEF ResultsFit
  <2>2. ASSUME NEW i \in Worker, work'[i].pc = "refused"
        PROVE  FALSE
    <3>1. ~ReadCandidates(i)
      <4> SUFFICES ASSUME ReadCandidates(i) PROVE FALSE
        OBVIOUS
      <4>1. work[i].run \in Existing
        BY <1>t, ReadCandidatesEffect DEF Apart, WorkersApart, Working, Existing
      <4>2. listing.box
        BY <1>1, <4>1 DEF OneRunActive
      <4> QED
        BY <1>3, <1>t, <2>2, <4>2, ReadCandidatesEffect
    <3>2. ~InviteMembers(i) /\ ~StoreCandidates(i) /\ ~MarkInvited(i) /\ ~MarkRefused(i)
      BY <1>3, <1>t, <2>2, InviteMembersEffect, StoreCandidatesEffect, MarkInvitedEffect,
         MarkRefusedEffect
    <3>3. \A r \in Run : ~ResumeRun(i, r) /\ (ClaimRun(i, r) => work'[i] = work[i])
      BY <1>t, <2>2, ResumeRunEffect, ClaimRunEffect
    <3> QED
      BY <2>1, <2>2, <3>1, <3>2, <3>3, WorkerMoves DEF Working
  <2>3. ASSUME NEW r \in Run, NEW c \in Company
        PROVE  /\ cand'[r][c] # "NOT_ALLOWED"
               /\ cand'[r][c] = "ALREADY_INVITED" => c \in Invited' /\ ~Mine(r, c)'
    <3>1. c \in Invited => c \in Invited' /\ (Mine(r, c)' <=> Mine(r, c))
      BY InvitedStay DEF Mine
    <3>2. CASE cand'[r] = cand[r]
      BY <2>1, <3>1, <3>2
    <3>3. ASSUME NEW i \in Worker, work[i].run = r, StoreCandidates(i)
          PROVE  /\ cand'[r][c] # "NOT_ALLOWED"
                 /\ cand'[r][c] = "ALREADY_INVITED" => c \in Invited /\ ~Mine(r, c)
      <4>1. work[i].pc = "search"
        BY <3>3, <1>t, StoreCandidatesEffect
      <4>2. Unsearched(r)
        BY <3>3, <4>1 DEF Unsearched
      <4>3. ~Mine(r, c)
        <5>1. invitation[c] \in InvitationRow
          BY <1>t DEF Typed
        <5> QED
          BY <1>1, <4>2, <5>1, RunIsNumber DEF InvitedBefore, Mine, InvitationRow
      <4> QED
        BY <2>1, <3>3, <4>3, <1>t, StoreCandidatesEffect
    <3>4. ASSUME NEW i \in Worker, work[i].run = r, MarkInvited(i)
          PROVE  /\ cand'[r][c] # "NOT_ALLOWED"
                 /\ cand'[r][c] = "ALREADY_INVITED" => c \in Invited /\ ~Mine(r, c)
      <4>1. work[i].todo \subseteq Invited
        BY <3>4, <1>t, MarkInvitedEffect DEF TodoIsPending
      <4> QED
        BY <2>1, <3>4, <4>1, <1>t, MarkInvitedEffect
    <3>5. ASSUME NEW i \in Worker, MarkRefused(i)
          PROVE  FALSE
      BY <2>1, <3>5, <1>t, MarkRefusedEffect
    <3> QED
      BY <3>1, <3>2, <3>3, <3>4, <3>5, CandMoves
  <2> QED
    BY <2>2, <2>3
<1> QED
  BY <1>1, <1>2, <1>3

LEMMA RunInvStep == RunInv /\ [Next]_vars => RunInv'
BY ApartStep, KeptStep, UnpublishedStep, OneActiveStep, InvitedBeforeStep, ResultsStep DEF RunInv, Kept

LEMMA RunInvInit == Init => RunInv
<1> SUFFICES ASSUME Init PROVE RunInv
  OBVIOUS
<1>1. /\ NoRun.state = "NONE" /\ ~NoRun.off /\ Idle.pc = "idle" /\ NoCall.pc = "idle"
  BY DEF NoRun, Idle, NoCall
<1>2. Existing = {} /\ Running = {}
  BY <1>1 DEF Init, Existing, Running
<1>3. Unpublished /\ OneRunActive
  BY <1>1, <1>2 DEF Init, Unpublished, OneRunActive, Planning
<1>4. InvitedBefore /\ ResultsFit
  BY <1>1 DEF Init, InvitedBefore, ResultsFit
<1> QED
  BY <1>3, <1>4, ApartInit, KeptInit DEF RunInv

(* ResultsAreTrue, the end of inviteAndFinish: a run that is done has dealt *)
(* with every candidate, whom it invited is shown as invited, and the buyer *)
(* is told exactly of that - however often it was cut short and resumed.    *)
THEOREM TrueResults == Spec => []ResultsAreTrue
<1>1. RunInv => ResultsAreTrue
  <2> SUFFICES ASSUME RunInv, NEW r \in Run, run[r].state = "DONE", Steady
               PROVE  /\ Pending(r) = {}
                      /\ listing.status = "OPEN" =>
                            /\ \A c \in Found(r) : Mine(r, c) => cand[r][c] = "INVITED"
                            /\ run[r].told <=> \E c \in Company : cand[r][c] = "INVITED"
    BY DEF ResultsAreTrue, Steady
  <2>1. /\ Pending(r) = {}
        /\ run[r].told <=> \E c \in Company : cand[r][c] = "INVITED"
    BY DEF RunInv, Kept, DoneIsDone
  <2>2. ASSUME listing.status = "OPEN", NEW c \in Found(r), Mine(r, c)
        PROVE  cand[r][c] = "INVITED"
    <3>1. c \in Company /\ cand[r] \in CandRow /\ cand[r][c] # "-"
      BY DEF Found, RunInv, Apart, Sound, Typed
    <3>2. cand[r][c] # "MEMBER"
      BY <2>1, <3>1 DEF Pending
    <3>3. cand[r][c] # "NOT_ALLOWED" /\ cand[r][c] # "ALREADY_INVITED"
      BY <2>2, <3>1 DEF RunInv, ResultsFit
    <3> QED
      BY <3>1, <3>2, <3>3 DEF CandRow
  <2> QED
    BY <2>1, <2>2
<1> QED
  BY RunInvInit, RunInvStep, <1>1, PTL DEF Spec

----------------------------------------------------------------------------
(* The announcement and the notices.                                        *)
LEMMA AnnouncedStays ==
    ASSUME Typed, [Next]_vars
    PROVE  /\ listing.announced => listing'.announced
           /\ listing.status # "DRAFT" /\ listing'.status = "OPEN" => listing.status = "OPEN"
BY ListingMoves, PublishEffect, SwitchBoxEffect, ClaimAnnouncementEffect, CloseEffect

LEMMA CallerOutcome ==
    ASSUME Typed, [Next]_vars, NEW k \in Caller
    PROVE  \/ call'[k] = call[k]
           \/ call'[k].pc \in {"idle", "hold", "edited"}
           \/ Hold(k) /\ call'[k].pc \in {"claim", "wait"}
           \/ HoldWait(k) /\ call'[k].pc = "claim"
           \/ ClaimAnnouncement(k) /\ call'[k].pc = "targets"
           \/ ReadTargets(k) \/ EnqueueAfter(k)
BY CallMoves, AnnounceEffect, PublishEffect, SwitchBoxEffect, HoldEffect, HoldWaitEffect,
   ClaimAnnouncementEffect, SendAnnouncementEffect, EnqueueAfterEditEffect DEF CallStep, Typed

LEMMA AnnouncingMoves ==
    ASSUME Typed, [Next]_vars, NEW k \in Caller, call'[k].pc \in {"targets", "after", "send"}
    PROVE  \/ call[k].pc \in {"targets", "after", "send"}
           \/ /\ ClaimAnnouncement(k) /\ call[k].pc = "claim" /\ listing.status = "OPEN"
              /\ ~listing.announced /\ listing'.announced /\ call'[k].pc = "targets"
              /\ \A l \in Caller \ {k} : call'[l] = call[l]
BY CallerOutcome, ClaimAnnouncementEffect, ReadTargetsEffect, EnqueueAfterEffect DEF OnlyCall

LEMMA OneAnnouncementStep ==
    ASSUME Apart, Unpublished, OneAnnouncement, [Next]_vars
    PROVE  OneAnnouncement'
<1>t. Sound /\ Typed /\ Placed
  BY DEF Apart, Sound
<1>1. ASSUME NEW k \in Announcing', NEW l \in Announcing'
      PROVE  k = l
  <2>1. /\ k \in Caller /\ call'[k].pc \in {"targets", "after", "send"}
        /\ l \in Caller /\ call'[l].pc \in {"targets", "after", "send"}
    BY <1>1 DEF Announcing
  <2>2. k \in Announcing \/ (Announcing = {} /\ \A j \in Caller \ {k} : call'[j] = call[j])
    BY <1>t, <2>1, AnnouncingMoves DEF Announcing, OneAnnouncement
  <2>3. l \in Announcing \/ (Announcing = {} /\ \A j \in Caller \ {l} : call'[j] = call[j])
    BY <1>t, <2>1, AnnouncingMoves DEF Announcing, OneAnnouncement
  <2> QED
    BY <2>1, <2>2, <2>3 DEF Announcing, OneAnnouncement
<1>2. ASSUME NEW k \in Announcing'
      PROVE  listing'.announced
  <2>1. k \in Caller /\ call'[k].pc \in {"targets", "after", "send"}
    BY <1>2 DEF Announcing
  <2> QED
    BY <1>t, <2>1, AnnouncingMoves, AnnouncedStays DEF Announcing, OneAnnouncement
<1>3. ASSUME NEW k \in Caller, call'[k].pc = "wait"
      PROVE  Existing' # {}
  <2>1. CASE call'[k] = call[k]
    <3>1. Existing # {}
      BY <1>3, <2>1 DEF OneAnnouncement
    <3>2. ASSUME NEW n \in Run, NewRun(n)
          PROVE  Existing' # {}
      <4>1. n \in 1..n
        BY RunIsNumber DEF Run
      <4> QED
        BY <3>2, <4>1 DEF NewRun
    <3> QED
      BY <3>1, <3>2, RunsMade
  <2>2. CASE Hold(k)
    <3>1. Counted # {} /\ run' = run
      BY <1>3, <1>t, <2>2, HoldEffect
    <3> QED
      BY <3>1 DEF Counted, Existing
  <2> QED
    BY <1>3, <1>t, <2>1, <2>2, CallerOutcome, ReadTargetsEffect, EnqueueAfterEffect
<1>4. ASSUME NEW i \in Worker, work'[i].pc \in Planning
      PROVE  listing'.announced
  <2>1. listing.announced
    BY <1>4, <1>t, PlansMade, PlanEffect DEF OneAnnouncement, Quiet
  <2> QED
    BY <1>t, <2>1, AnnouncedStays
<1> QED
  BY <1>1, <1>2, <1>3, <1>4 DEF OneAnnouncement

LEMMA ToComeStays ==
    ASSUME Typed, [Next]_vars, NEW c \in Company, ToCome(c)'
    PROVE  ToCome(c)
<1>1. CASE ~listing'.announced
  BY <1>1, AnnouncedStays DEF ToCome
<1>2. ASSUME NEW k \in Caller,
             \/ call'[k].pc = "targets"
             \/ call'[k].pc \in {"after", "send"} /\ c \in call'[k].to
      PROVE  ToCome(c)
  BY <1>2, CallerOutcome, ClaimAnnouncementEffect, ReadTargetsEffect, EnqueueAfterEffect DEF ToCome
<1> QED
  BY <1>1, <1>2 DEF ToCome

LEMMA NoticeMoves ==
    ASSUME Apart, [Next]_vars, NEW c \in Company
    PROVE  \/ notice'[c] = notice[c]
           \/ BuyerInvites(c) \/ ClaimNotice(c) \/ SendNotice(c)
           \/ /\ c \notin Invited /\ notice'[c] = "due"
              /\ \E i \in Worker : InviteMembers(i)
           \/ notice[c] = "-" /\ invitation[c].by = "run" /\ notice'[c] = "due"
           \/ notice[c] = "due" /\ notice'[c] = "-"
           \/ notice[c] = "sending" /\ notice'[c] = "done" /\ letters' = letters
<1>t. Sound /\ Typed /\ Placed /\ notice \in [Company -> NoticeState]
  BY DEF Apart, Sound, Typed
<1>1. \/ notice' = notice
      \/ NotifyInvitees
      \/ \E d \in Company : BuyerInvites(d) \/ ClaimNotice(d) \/ SendNotice(d)
      \/ \E i \in Worker : InviteMembers(i)
      \/ Crash
  BY DEF Next, vars, Publish, SwitchBox, CallStep, Hold, HoldWait, ClaimAnnouncement, ReadTargets,
       EnqueueAfter, SendAnnouncement, EnqueueAfterEdit, CronAnnounce,
       Close, LeaseExpires, RunAges, PickUp, WorkStep, ClaimRun, SweepRun,
       ResumeRun, CatchUpRead, SecondRoundRead, SearchInVain, ReadCandidates, StoreCandidates,
       MarkInvited, MarkRefused, Mark, FinishRun, Enqueue, ClosingNotices
<1>2. CASE NotifyInvitees
  BY <1>2 DEF NotifyInvitees
<1>3. ASSUME NEW d \in Company, BuyerInvites(d) \/ ClaimNotice(d) \/ SendNotice(d), d # c
      PROVE  notice'[c] = notice[c]
  BY <1>3, <1>t DEF BuyerInvites, ClaimNotice, SendNotice
<1>4. ASSUME NEW i \in Worker, InviteMembers(i)
      PROVE  notice'[c] = notice[c] \/ (c \notin Invited /\ notice'[c] = "due")
  BY <1>4, <1>t, InviteMembersEffect
<1>5. CASE Crash
  <2>1. letters' = letters
    BY <1>5 DEF Crash
  <2> QED
    BY <1>5, <1>t, <2>1, CrashEffect
<1> QED
  BY <1>1, <1>2, <1>3, <1>4, <1>5

LEMMA LetterMoves ==
    ASSUME Apart, [Next]_vars, NEW c \in Company
    PROVE  \/ letters'[c] = letters[c]
           \/ SendNotice(c) /\ letters'[c] = letters[c] + 1 /\ notice[c] = "sending"
                            /\ notice'[c] = "done"
           \/ \E k \in Caller : /\ SendAnnouncement(k) /\ c \in call[k].to
                                /\ letters'[c] = letters[c] + 1 /\ notice' = notice
<1>t. /\ Sound /\ Typed /\ Placed /\ letters \in [Company -> Nat]
      /\ notice \in [Company -> NoticeState]
  BY DEF Apart, Sound, Typed
<1>1. \/ letters' = letters
      \/ \E d \in Company : SendNotice(d)
      \/ \E k \in Caller : SendAnnouncement(k)
  BY DEF Next, vars, Publish, SwitchBox, CallStep, Hold, HoldWait, ClaimAnnouncement, ReadTargets,
       EnqueueAfter, EnqueueAfterEdit, CronAnnounce, BuyerInvites, ClaimNotice, Crash,
       Close, LeaseExpires, RunAges, PickUp, WorkStep, ClaimRun, SweepRun, InviteMembers,
       ResumeRun, CatchUpRead, SecondRoundRead, SearchInVain, ReadCandidates, StoreCandidates,
       MarkInvited, MarkRefused, Mark, FinishRun, Enqueue, ClosingNotices
<1>2. ASSUME NEW d \in Company, SendNotice(d)
      PROVE  \/ letters'[c] = letters[c]
             \/ SendNotice(c) /\ letters'[c] = letters[c] + 1 /\ notice[c] = "sending"
                              /\ notice'[c] = "done"
  BY <1>2, <1>t DEF SendNotice
<1>3. ASSUME NEW k \in Caller, SendAnnouncement(k)
      PROVE  \/ letters'[c] = letters[c]
             \/ c \in call[k].to /\ letters'[c] = letters[c] + 1 /\ notice' = notice
  <2>1. notice' = notice
    BY <1>3 DEF SendAnnouncement
  <2> QED
    BY <1>3, <1>t, <2>1, SendAnnouncementEffect
<1> QED
  BY <1>1, <1>2, <1>3

LEMMA TwoLettersStep ==
    ASSUME Apart, OneAnnouncement, TwoLettersAtMost, [Next]_vars
    PROVE  TwoLettersAtMost'
<1>t. Sound /\ Typed /\ Placed
  BY DEF Apart, Sound
<1> SUFFICES ASSUME NEW c \in Company
             PROVE  /\ c \notin Invited' => notice'[c] = "-"
                    /\ letters'[c] <= 2
                    /\ letters'[c] = 2 => notice'[c] = "done" /\ ~ToCome(c)'
                    /\ letters'[c] = 1 => notice'[c] = "done" \/ ~ToCome(c)'
  BY DEF TwoLettersAtMost
<1>n. letters[c] \in Nat /\ letters'[c] \in Nat
  BY <1>t, SoundStep DEF Sound, Typed
<1>0. /\ c \notin Invited => notice[c] = "-"
      /\ letters[c] <= 2
      /\ letters[c] = 2 => notice[c] = "done" /\ ~ToCome(c)
      /\ letters[c] = 1 => notice[c] = "done" \/ ~ToCome(c)
  BY DEF TwoLettersAtMost
<1>1. c \notin Invited' => notice'[c] = "-"
  <2> SUFFICES ASSUME c \notin Invited' PROVE notice'[c] = "-"
    OBVIOUS
  <2>1. c \notin Invited /\ notice[c] = "-"
    BY <1>0, InvitedStay
  <2>2. invitation[c].by = "-"
    BY <2>1 DEF Invited
  <2>3. ~BuyerInvites(c) /\ ~ClaimNotice(c) /\ ~SendNotice(c)
    BY <1>t, <2>1, BuyerInvitesEffect DEF Invited, ClaimNotice, SendNotice
  <2>4. ASSUME NEW i \in Worker, InviteMembers(i)
        PROVE  notice'[c] = notice[c]
    BY <1>t, <2>1, <2>4, InviteMembersEffect DEF Invited
  <2> QED
    BY <2>1, <2>2, <2>3, <2>4, NoticeMoves
<1>2. notice[c] = "done" => notice'[c] = "done"
  <2>1. notice[c] = "done" => c \in Invited
    BY <1>0
  <2> QED
    BY <1>t, <2>1, NoticeMoves, BuyerInvitesEffect DEF ClaimNotice, SendNotice
<1>3. ToCome(c)' => ToCome(c)
  BY <1>t, ToComeStays
<1>4. CASE letters'[c] = letters[c]
  BY <1>0, <1>1, <1>2, <1>3, <1>4
<1>5. CASE letters'[c] = letters[c] + 1 /\ notice[c] = "sending" /\ notice'[c] = "done"
  BY <1>0, <1>1, <1>3, <1>5, <1>n
<1>6. ASSUME NEW k \in Caller, SendAnnouncement(k), c \in call[k].to,
             letters'[c] = letters[c] + 1
      PROVE  /\ letters'[c] <= 2
             /\ letters'[c] = 2 => notice'[c] = "done" /\ ~ToCome(c)'
             /\ letters'[c] = 1 => notice'[c] = "done" \/ ~ToCome(c)'
  <2>1. call[k].pc = "send" /\ call'[k].pc = "idle" /\ \A l \in Caller \ {k} : call'[l] = call[l]
    BY <1>6, <1>t, SendAnnouncementEffect DEF OnlyCall
  <2>2. ToCome(c) /\ k \in Announcing
    BY <1>6, <2>1 DEF ToCome, Announcing
  <2>3. listing'.announced
    BY <1>t, <2>2, AnnouncedStays DEF OneAnnouncement
  <2>4. \A l \in Caller : call'[l].pc \notin {"targets", "after", "send"}
    BY <2>1, <2>2 DEF OneAnnouncement, Announcing
  <2>5. ~ToCome(c)'
    BY <2>3, <2>4 DEF ToCome
  <2> QED
    BY <1>0, <1>2, <1>6, <1>n, <2>2, <2>5
<1> QED
  BY <1>1, <1>4, <1>5, <1>6, LetterMoves

----------------------------------------------------------------------------
(* While nothing cuts the waiting short.                                    *)
LEMMA SlipStays ==
    ASSUME Typed, [Next]_vars, slip' = {}
    PROVE  slip = {} /\ \A k \in Caller : ~SwitchBox(k)
<1>1. slip' = slip \/ \E k \in Caller : SwitchBox(k) \/ HoldWait(k)
  BY DEF Next, vars, Publish, CallStep, Hold, ClaimAnnouncement, ReadTargets,
       EnqueueAfter, SendAnnouncement, EnqueueAfterEdit, CronAnnounce, BuyerInvites, ClaimNotice,
       SendNotice, Close, LeaseExpires, RunAges, Crash, PickUp, WorkStep, ClaimRun, SweepRun,
       ResumeRun, CatchUpRead, SecondRoundRead, SearchInVain, ReadCandidates, StoreCandidates,
       InviteMembers, MarkInvited, MarkRefused, Mark, FinishRun, Enqueue, ClosingNotices
<1>2. \A k \in Caller : ~SwitchBox(k)
  BY SwitchBoxEffect
<1> QED
  BY <1>1, <1>2, HoldWaitEffect

LEMMA NoneReopened ==
    ASSUME Apart, [Next]_vars, Existing' = Existing
    PROVE  Running' \subseteq Running
<1>t. Typed
  BY DEF Apart, Sound
<1> SUFFICES ASSUME NEW r \in Running' PROVE r \in Running
  OBVIOUS
<1>1. r \in Existing /\ r \in Run /\ run[r].state # "NONE" /\ run'[r].state \in Active
  BY DEF Running, Existing
<1>2. \A i \in Worker : ClaimRun(i, r) => run[r].state = "PENDING"
  BY <1>t, <1>1, ClaimRunEffect
<1>3. \A i \in Worker : SweepRun(i, r) => run[r].state = "RUNNING"
  BY <1>t, <1>1, SweepRunEffect
<1> QED
  BY <1>1, <1>2, <1>3, RunMoves DEF Active, Running

LEMMA RunsAreOverStep ==
    ASSUME Apart, Unpublished, OneRunActive, OneAnnouncement, RunsAreOver, [Next]_vars
    PROVE  RunsAreOver'
<1>t. Sound /\ Typed /\ Placed
  BY DEF Apart, Sound
<1> SUFFICES ASSUME slip' = {}, Released'
             PROVE  /\ Running' = {}
                    /\ Existing' # {} \/ ~listing'.box
                    /\ \A i \in Worker : work'[i].pc \notin Planning
  BY DEF RunsAreOver
<1>1. slip = {} /\ \A k \in Caller : ~SwitchBox(k)
  BY <1>t, SlipStays
<1>2. Steady /\ Steady'
  BY <1>1 DEF Steady
<1>3. /\ \A r \in Run : ~run[r].off
      /\ Existing # {} => listing.box
      /\ \A i \in Worker : work[i].pc \in Planning => listing.box
      /\ \A r \in Running, q \in Existing : q <= r
  BY <1>2 DEF OneRunActive
<1>4. listing'.box = listing.box
  BY <1>2, SteadyMoves
<1>5. CASE Released
  <2>1. /\ Running = {}
        /\ Existing # {} \/ ~listing.box
        /\ \A i \in Worker : work[i].pc \notin Planning
    BY <1>1, <1>5 DEF RunsAreOver
  <2>2. Existing' = Existing
    <3> SUFFICES ASSUME NEW n \in Run, NewRun(n) PROVE FALSE
      BY RunsMade
    <3>1. listing.box /\ Counted = {}
      BY <2>1 DEF NewRun
    <3>2. Existing = {}
      BY <1>3, <3>1 DEF Counted, Existing
    <3> QED
      BY <2>1, <3>1, <3>2
  <2>3. Running' = {}
    BY <2>1, <2>2, NoneReopened
  <2>4. ~Quiet
    BY <1>5 DEF Released, Announcing, Quiet, At
  <2>5. \A i \in Worker : work'[i].pc \notin Planning
    BY <2>1, <2>4, <1>t, PlansMade, PlanEffect
  <2> QED
    BY <1>4, <2>1, <2>2, <2>3, <2>5
<1>6. CASE ~Released
  <2>1. PICK k \in Caller :
           \/ call'[k].pc \in {"targets", "after", "send"}
           \/ call'[k].pc = "claim" /\ listing'.status = "OPEN" /\ ~listing'.announced
    BY DEF Released, Announcing
  <2>2. /\ call[k].pc \notin {"targets", "after", "send"}
        /\ ~(call[k].pc = "claim" /\ listing.status = "OPEN" /\ ~listing.announced)
    BY <1>6 DEF Released, Announcing
  <2>3. call'[k].pc = "claim" /\ listing'.status = "OPEN" /\ ~listing'.announced
    BY <1>t, <2>1, <2>2, AnnouncingMoves
  <2>4. ~listing.announced
    BY <1>t, <2>3, AnnouncedStays
  <2>5. \A i \in Worker : work[i].pc \notin Planning
    BY <2>4 DEF OneAnnouncement
  <2>6. call'[k] # call[k]
    <3> SUFFICES ASSUME call'[k] = call[k] PROVE FALSE
      OBVIOUS
    <3>1. listing.status # "DRAFT"
      BY <2>3 DEF Unpublished
    <3> QED
      BY <1>t, <2>2, <2>3, <2>4, <3>1, AnnouncedStays
  <2>7. Hold(k) \/ HoldWait(k)
    BY <1>t, <2>3, <2>6, CallerOutcome, ReadTargetsEffect, EnqueueAfterEffect
  <2>8. listing' = listing /\ work' = work
    BY <2>7 DEF Hold, HoldWait
  <2>9. CASE Hold(k)
    <3>1. run' = run /\ ~listing.box
      BY <1>t, <2>3, <2>4, <2>8, <2>9, HoldEffect
    <3>2. Existing = {} /\ Existing' = Existing
      BY <1>3, <3>1 DEF Existing
    <3>3. Running' = {}
      BY <3>2 DEF Running
    <3> QED
      BY <2>5, <2>8, <3>1, <3>3
  <2>10. CASE HoldWait(k)
    <3>1. Awaited = {} /\ run' = run /\ call[k].pc = "wait"
      BY <1>t, <2>3, <2>10, HoldWaitEffect DEF HoldWait
    <3>2. PICK m \in 0..MaxRun : Existing = 1..m
      BY DEF Apart, RunsInOrder
    <3>3. Existing # {} /\ Existing' = Existing /\ Counted = Existing
      BY <1>3, <3>1 DEF OneAnnouncement, Existing, Counted
    <3>4. Running = {}
      <4> SUFFICES ASSUME NEW r \in Running PROVE FALSE
        OBVIOUS
      <4>1. r \in Existing /\ run[r].state \in Active /\ \A q \in Existing : q <= r
        BY <1>3 DEF Running
      <4> QED
        BY <3>1, <3>3, <4>1 DEF Awaited
    <3>5. Running' = {}
      BY <3>3, <3>4, NoneReopened
    <3> QED
      BY <2>5, <2>8, <3>3, <3>5
  <2> QED
    BY <2>7, <2>9, <2>10
<1> QED
  BY <1>5, <1>6

LEMMA NoSecondStep ==
    ASSUME Apart, OneAnnouncement, TwoLettersAtMost, RunsAreOver, NoSecondLetter, [Next]_vars
    PROVE  NoSecondLetter'
<1>t. Sound /\ Typed /\ Placed
  BY DEF Apart, Sound
<1> SUFFICES ASSUME slip' = {}, NEW c \in Company
             PROVE  /\ letters'[c] <= 1
                    /\ notice'[c] = "sending" => letters'[c] = 0
                    /\ \A k \in Caller : call'[k].pc \in {"after", "send"} /\ c \in call'[k].to =>
                          letters'[c] = 0 /\ notice'[c] \in {"-", "done"} /\ invitation'[c].by # "run"
  BY DEF NoSecondLetter
<1>1. slip = {}
  BY <1>t, SlipStays
<1>2. /\ letters[c] <= 1
      /\ notice[c] = "sending" => letters[c] = 0
      /\ \A k \in Caller : call[k].pc \in {"after", "send"} /\ c \in call[k].to =>
            letters[c] = 0 /\ notice[c] \in {"-", "done"} /\ invitation[c].by # "run"
  BY <1>1 DEF NoSecondLetter
<1>n. letters[c] \in Nat /\ letters'[c] \in Nat
  BY <1>t, SoundStep DEF Sound, Typed
<1>3. letters'[c] <= 1
  <2>1. CASE letters'[c] = letters[c]
    BY <1>2, <2>1
  <2>2. CASE letters'[c] = letters[c] + 1 /\ notice[c] = "sending"
    BY <1>2, <1>n, <2>2
  <2>3. ASSUME NEW k \in Caller, SendAnnouncement(k), c \in call[k].to,
               letters'[c] = letters[c] + 1
        PROVE  letters'[c] <= 1
    BY <1>2, <1>n, <1>t, <2>3, SendAnnouncementEffect
  <2> QED
    BY <2>1, <2>2, <2>3, LetterMoves
<1>4. ASSUME notice'[c] = "sending"
      PROVE  letters'[c] = 0
  <2>1. CASE notice'[c] = notice[c]
    <3>1. ~SendNotice(c)
      BY <1>4, <1>t DEF SendNotice, Typed
    <3>2. ASSUME NEW k \in Caller, SendAnnouncement(k), c \in call[k].to
          PROVE  FALSE
      BY <1>2, <1>4, <1>t, <2>1, <3>2, SendAnnouncementEffect
    <3> QED
      BY <1>2, <1>4, <2>1, <3>1, <3>2, LetterMoves
  <2>2. CASE ClaimNotice(c)
    <3>1. notice'[c] = IF letters[c] > 0 THEN "done" ELSE "sending"
      BY <1>t, <2>2 DEF ClaimNotice, Typed
    <3>2. letters' = letters
      BY <2>2 DEF ClaimNotice
    <3> QED
      BY <1>4, <1>n, <3>1, <3>2
  <2>3. ~BuyerInvites(c) /\ ~SendNotice(c)
    BY <1>4, <1>t, BuyerInvitesEffect DEF SendNotice, Typed
  <2> QED
    BY <1>4, <2>1, <2>2, <2>3, NoticeMoves
<1>5. ASSUME NEW k \in Caller, call'[k].pc \in {"after", "send"}, c \in call'[k].to
      PROVE  letters'[c] = 0 /\ notice'[c] \in {"-", "done"} /\ invitation'[c].by # "run"
  <2>1. CASE ReadTargets(k)
    <3>1. /\ call[k].pc = "targets" /\ c \notin Invited /\ NotifyInvitees
      BY <1>5, <1>t, <2>1, ReadTargetsEffect
    <3>2. letters' = letters /\ invitation' = invitation
      BY <2>1 DEF ReadTargets
    <3>3. invitation[c].by = "-" /\ notice[c] = "-"
      BY <3>1 DEF Invited, TwoLettersAtMost
    <3>4. ToCome(c)
      BY <3>1 DEF ToCome
    <3>5. letters[c] # 1 /\ letters[c] # 2 /\ letters[c] <= 2
      BY <3>3, <3>4 DEF TwoLettersAtMost
    <3>6. notice'[c] = "-"
      BY <3>1, <3>3 DEF NotifyInvitees
    <3> QED
      BY <1>n, <3>2, <3>3, <3>5, <3>6
  <2>2. CASE ~ReadTargets(k)
    <3>1. call[k].pc \in {"after", "send"} /\ c \in call[k].to
      BY <1>5, <1>t, <2>2, CallerOutcome, ClaimAnnouncementEffect, EnqueueAfterEffect
    <3>2. letters[c] = 0 /\ notice[c] \in {"-", "done"} /\ invitation[c].by # "run"
      BY <1>2, <3>1
    <3>3. k \in Announcing
      BY <3>1 DEF Announcing
    <3>4. ASSUME NEW i \in Worker, InviteMembers(i)
          PROVE  FALSE
      <4>1. Running = {}
        BY <1>1, <3>3 DEF RunsAreOver, Released
      <4>2. work[i].run \in Running
        BY <1>t, <3>4, InviteMembersEffect
           DEF Apart, WorkersApart, Working, Running, Existing, Active
      <4> QED
        BY <4>1, <4>2
    <3>5. letters'[c] = 0
      <4>1. ASSUME NEW l \in Caller, SendAnnouncement(l)
            PROVE  FALSE
        <5>1. call[l].pc = "send" /\ call'[l].pc = "idle"
          BY <1>t, <4>1, SendAnnouncementEffect
        <5>2. l = k
          BY <3>3, <5>1 DEF Announcing, OneAnnouncement
        <5> QED
          BY <1>5, <5>1, <5>2
      <4> QED
        BY <3>2, <4>1, LetterMoves
    <3>6. notice'[c] \in {"-", "done"}
      <4>1. ~ClaimNotice(c) /\ ~SendNotice(c)
        BY <3>2 DEF ClaimNotice, SendNotice
      <4> QED
        BY <1>t, <3>2, <3>4, <4>1, NoticeMoves, BuyerInvitesEffect
    <3>7. invitation'[c].by # "run"
      BY <1>t, <3>2, <3>4, InvitationMoves, BuyerInvitesEffect
    <3> QED
      BY <3>5, <3>6, <3>7
  <2> QED
    BY <2>1, <2>2
<1> QED
  BY <1>3, <1>4, <1>5

LEMMA LetterInvStep == RunInv /\ LetterInv /\ [Next]_vars => LetterInv'
BY OneAnnouncementStep, TwoLettersStep, RunsAreOverStep, NoSecondStep DEF RunInv, LetterInv

LEMMA LetterInvInit == Init => LetterInv
<1> SUFFICES ASSUME Init PROVE LetterInv
  OBVIOUS
<1>1. Idle.pc = "idle" /\ NoCall.pc = "idle"
  BY DEF Idle, NoCall
<1>2. Announcing = {} /\ ~Released
  BY <1>1 DEF Init, Announcing, Released
<1>3. OneAnnouncement
  BY <1>1, <1>2 DEF Init, OneAnnouncement, Planning
<1>4. TwoLettersAtMost /\ NoSecondLetter
  BY <1>1 DEF Init, TwoLettersAtMost, NoSecondLetter
<1> QED
  BY <1>2, <1>3, <1>4 DEF LetterInv, RunsAreOver

(* OneLetterEach, holdForDiscovery and claimInvitationNotices together: one *)
(* letter to a company about a request, and never more than two when the    *)
(* announcement could not wait or the box was switched.                     *)
THEOREM OneLetterOnly == Spec => []OneLetterEach
<1>1. LetterInv => OneLetterEach
  BY DEF LetterInv, TwoLettersAtMost, NoSecondLetter, OneLetterEach
<1>2. RunInv /\ LetterInv /\ [Next]_vars => (RunInv /\ LetterInv)'
  BY RunInvStep, LetterInvStep
<1> QED
  BY RunInvInit, LetterInvInit, <1>1, <1>2, PTL DEF Spec
=============================================================================
