------------------------------ MODULE AiBudget ------------------------------
(****************************************************************************)
(* The monthly budget of a company for calls of a language model:           *)
(* ai-budget.service.ts with its three callers, callAi of ai.service.ts,    *)
(* the turn and the summary of the assistant, and the job that closes       *)
(* reservations nobody has closed.  Money is reserved under the lock of the *)
(* company's row before the model is called and corrected afterwards; the   *)
(* balance is never stored, it is the sum of the rows.  The model's         *)
(* provider is external: what it bills is its own choice.                   *)
(****************************************************************************)
EXTENDS Naturals, FiniteSets

CONSTANTS
    Call,       \* calls of the company's members, each with its row of ai_usage
    User,       \* the members who ask
    LastDay,    \* bound: days
    Month,      \* the month a day lies in
    Tier,       \* packages the company may have
    Cap,        \* what a package allows per window, in units of money
    Price,      \* the most one provider call should cost, by kind of model
    ToolRounds, \* MAX_TOOL_ITERATIONS of the assistant
    Overrun     \* what a provider call may cost above its price

Day == 1..LastDay
Path == {"single", "chat", "summary"}
Model == {"default", "premium"}
Window == {"pool", "request", "user", "day", "premium"}

ASSUME BudgetAssumption ==
    /\ IsFiniteSet(Call) /\ IsFiniteSet(Tier) /\ Tier # {}
    /\ LastDay \in Nat \ {0}
    /\ Month \in [Day -> Nat]
    /\ \A d, e \in Day : d <= e => Month[d] <= Month[e]
    /\ Cap \in [Tier -> [Window -> Nat]]
    /\ Price \in [Model -> Nat]
    /\ ToolRounds \in Nat /\ Overrun \in Nat

VARIABLES
    row,        \* ai_usage
    call,       \* the request in flight behind each row
    billed,     \* what the provider has billed for each call
    today,      \* the clock
    tier        \* the package of the company

vars == <<row, call, billed, today, tier>>

NoRow == [status |-> "none", user |-> "-", model |-> "default", cost |-> 0, day |-> 1]
NotAsked == [step |-> "idle", path |-> "single", user |-> "-", wanted |-> FALSE,
             day |-> 1, used |-> 0, rounds |-> 0, timedOut |-> FALSE]

Steps == {"idle", "asking", "calling", "answered", "saving", "failing", "over"}

UsageRow == [status : {"none", "RESERVED", "SETTLED", "FAILED"}, user : User \cup {"-"},
             model : Model, cost : Nat, day : Day]
Request == [step : Steps, path : Path, user : User \cup {"-"}, wanted : BOOLEAN,
            day : Day, used : Nat, rounds : Nat, timedOut : BOOLEAN]

TypeOK ==
    /\ row \in [Call -> UsageRow]
    /\ call \in [Call -> Request]
    /\ billed \in [Call -> Nat]
    /\ today \in Day
    /\ tier \in Tier

----------------------------------------------------------------------------
(* The balance                                                              *)

(* What a call is expected to cost at most: a turn of the assistant pays    *)
(* for every round of tools and for the closing answer.                     *)
EstimateFor(c, model) ==
    IF call[c].path = "chat" THEN (ToolRounds + 1) * Price[model] ELSE Price[model]

Rows == {c \in Call : row[c].status # "none"}

(* Money in units, so that a sum is the size of a set.                      *)
Units(c, money) == {c} \X (1..money)

(* Faulty variant: what is only reserved is not spent yet.                  *)
SpendSettled(rows) ==
    Cardinality(UNION {Units(c, row[c].cost) :
                       c \in {k \in rows : row[k].status = "SETTLED"}})

Spend(rows) == Cardinality(UNION {Units(c, row[c].cost) : c \in rows})

(* The rows of the windows that begin with the day a request has read.      *)
SinceMonth(day) == {c \in Rows : Month[row[c].day] >= Month[day]}
SinceDay(day) == {c \in Rows : row[c].day >= day}
OfUser(u, rows) == {c \in rows : row[c].user = u}
OnPremium(rows) == {c \in rows : row[c].model = "premium"}

(* Whether no cap of the package denies the candidate.                      *)
Fits(c, model) ==
    LET estimate == EstimateFor(c, model)
        limit == Cap[tier]
        month == SinceMonth(call[c].day)
    IN  /\ limit["pool"] > 0
        /\ estimate <= limit["request"]
        /\ Spend(month) + estimate <= limit["pool"]
        /\ Spend(OfUser(call[c].user, month)) + estimate <= limit["user"]
        /\ Spend(SinceDay(call[c].day)) + estimate <= limit["day"]
        /\ model = "premium" => Spend(OnPremium(month)) + estimate <= limit["premium"]

(* The first candidate that fits: the premium model, when it is wanted,     *)
(* then the default one.                                                    *)
Chosen(c, model) ==
    /\ Fits(c, model)
    /\ model = "premium" => call[c].wanted
    /\ model = "default" => ~(call[c].wanted /\ Fits(c, "premium"))

----------------------------------------------------------------------------
(* A call                                                                   *)

At(c, step) == [call EXCEPT ![c].step = step]

(* A call that has ended is forgotten, except for the feature in its row.   *)
Ended(c) == [call EXCEPT ![c] = [NotAsked EXCEPT !.step = "over", !.path = call[c].path]]

(* A member asks; the request takes the time before it waits for the lock.  *)
(* Only single calls ever want the premium model.                           *)
Ask(c, u, path, wanted) ==
    /\ call[c].step = "idle"
    /\ wanted => path = "single"
    /\ call' = [call EXCEPT ![c] = [NotAsked EXCEPT !.step = "asking", !.path = path,
                                    !.user = u, !.wanted = wanted, !.day = today]]
    /\ UNCHANGED <<row, billed, today, tier>>

(* reserve, under the lock: the database dates the row, some time between   *)
(* the request's clock and the lock.                                        *)
Reserve(c, model, day) ==
    /\ call[c].step = "asking"
    /\ Chosen(c, model)
    /\ call[c].day <= day /\ day <= today
    /\ row' = [row EXCEPT ![c] = [status |-> "RESERVED", user |-> call[c].user,
                                  model |-> model, cost |-> EstimateFor(c, model),
                                  day |-> day]]
    /\ call' = At(c, "calling")
    /\ UNCHANGED <<billed, today, tier>>

Refuse(c) ==
    /\ call[c].step = "asking"
    /\ \A model \in Model : ~Chosen(c, model)
    /\ call' = Ended(c)
    /\ UNCHANGED <<row, billed, today, tier>>

Bills(c, money) == billed' = [billed EXCEPT ![c] = @ + money]
Bill(c) == 0..Price[row[c].model] + Overrun

(* The provider answers.  The assistant goes on while the answer asks for   *)
(* tools, and closes with an answer that may not.                           *)
Answer(c, money, last) ==
    /\ call[c].step = "calling"
    /\ money \in Bill(c)
    /\ last \/ (call[c].path = "chat" /\ call[c].rounds < ToolRounds)
    /\ Bills(c, money)
    /\ call' = [call EXCEPT ![c].used = @ + money, ![c].rounds = @ + 1,
                            ![c].step = IF last THEN "answered" ELSE "calling"]
    /\ UNCHANGED <<row, today, tier>>

(* The answer does not come in time, or the time of the turn is over before *)
(* the provider is asked again: what was generated meanwhile is billed and  *)
(* not reported.                                                            *)
TimesOut(c, money) ==
    /\ call[c].step = "calling"
    /\ money \in Bill(c)
    /\ Bills(c, money)
    /\ call' = [call EXCEPT ![c].step = "failing", ![c].timedOut = TRUE]
    /\ UNCHANGED <<row, today, tier>>

(* The provider refuses, after retries and the model of second choice.      *)
Rejects(c) ==
    /\ call[c].step = "calling"
    /\ call' = At(c, "failing")
    /\ UNCHANGED <<row, billed, today, tier>>

(* settle closes the row with what was used, whatever the row is by now.    *)
Settle(c) ==
    /\ call[c].step = "answered"
    /\ row' = [row EXCEPT ![c].status = "SETTLED", ![c].cost = call[c].used]
    /\ call' = IF call[c].path = "summary" THEN At(c, "saving") ELSE Ended(c)
    /\ UNCHANGED <<billed, today, tier>>

(* The summary is stored; what fails in its settlement or in storing it     *)
(* counts as a failure of the call.                                         *)
SaveSummary(c) ==
    /\ call[c].step = "saving"
    /\ call' = Ended(c)
    /\ UNCHANGED <<row, billed, today, tier>>

SummaryFails(c) ==
    /\ call[c].path = "summary" /\ call[c].step \in {"answered", "saving"}
    /\ call' = At(c, "failing")
    /\ UNCHANGED <<row, billed, today, tier>>

(* Faulty variant: a timeout costs what was reported, which is nothing.     *)
CostAsReported(c) == IF call[c].path = "chat" THEN call[c].used ELSE 0

(* What the failed call keeps costing: the estimate after a timeout of a    *)
(* single call, what was reported in a turn of the assistant, else nothing. *)
CostOfFailure(c) ==
    IF call[c].path = "single" /\ call[c].timedOut THEN row[c].cost
    ELSE IF call[c].path = "chat" THEN call[c].used
    ELSE 0

(* Faulty variant: the row takes the name of the step.                      *)
FailByName(c) ==
    /\ call[c].step = "failing"
    /\ row' = [row EXCEPT ![c].status = call[c].step, ![c].cost = CostOfFailure(c)]
    /\ call' = Ended(c)
    /\ UNCHANGED <<billed, today, tier>>

Fail(c) ==
    /\ call[c].step = "failing"
    /\ row' = [row EXCEPT ![c].status = "FAILED", ![c].cost = CostOfFailure(c)]
    /\ call' = Ended(c)
    /\ UNCHANGED <<billed, today, tier>>

(* The process stops, or the write that would close the row fails.          *)
Lost(c) ==
    /\ call[c].step \notin {"idle", "over"}
    /\ call' = Ended(c)
    /\ UNCHANGED <<row, billed, today, tier>>

(* reapStaleReservations: after ten minutes a reservation counts as failed  *)
(* and keeps its estimate.  Its call may still be under way.                *)
Reap(c) ==
    /\ row[c].status = "RESERVED"
    /\ row' = [row EXCEPT ![c].status = "FAILED"]
    /\ UNCHANGED <<call, billed, today, tier>>

NextDay ==
    /\ today < LastDay
    /\ today' = today + 1
    /\ UNCHANGED <<row, call, billed, tier>>

ChangeTier ==
    /\ tier' \in Tier \ {tier}
    /\ UNCHANGED <<row, call, billed, today>>

----------------------------------------------------------------------------
Init ==
    /\ row = [c \in Call |-> NoRow]
    /\ call = [c \in Call |-> NotAsked]
    /\ billed = [c \in Call |-> 0]
    /\ today = 1
    /\ tier \in Tier

Next ==
    \/ \E c \in Call, u \in User, path \in Path, wanted \in BOOLEAN : Ask(c, u, path, wanted)
    \/ \E c \in Call, model \in Model, day \in Day : Reserve(c, model, day)
    \/ \E c \in Call : Refuse(c)
    \/ \E c \in Call, last \in BOOLEAN : \E money \in Bill(c) : Answer(c, money, last)
    \/ \E c \in Call : \E money \in Bill(c) : TimesOut(c, money)
    \/ \E c \in Call : Rejects(c)
    \/ \E c \in Call : Settle(c)
    \/ \E c \in Call : SaveSummary(c)
    \/ \E c \in Call : SummaryFails(c)
    \/ \E c \in Call : Fail(c)
    \/ \E c \in Call : Lost(c)
    \/ \E c \in Call : Reap(c)
    \/ NextDay
    \/ ChangeTier

Spec == Init /\ [][Next]_vars

----------------------------------------------------------------------------
(* What a row takes out of the budget, the part no estimate foresaw apart.  *)
Foreseen(c) ==
    LET estimate == EstimateFor(c, row[c].model)
    IN  IF row[c].cost <= estimate THEN row[c].cost ELSE estimate
ForeseenIn(rows) == Cardinality(UNION {Units(c, Foreseen(c)) : c \in rows})

InMonth(month) == {c \in Rows : Month[row[c].day] = month}
OnDay(day) == {c \in Rows : row[c].day = day}

(* Within the cap of some package the company may have had.                 *)
Allowed(rows, window) == \E t \in Tier : ForeseenIn(rows) <= Cap[t][window]

(* The last money of a month is never shared: however many requests reserve *)
(* at once, settle late or fail, whatever day or month begins between their *)
(* start and their reservation, no month, day, member or premium model      *)
(* takes more than a package allows - except for what answers cost above    *)
(* their estimate.                                                          *)
WithinBudget ==
    /\ \A month \in {Month[day] : day \in Day} :
          /\ Allowed(InMonth(month), "pool")
          /\ \A u \in User : Allowed(OfUser(u, InMonth(month)), "user")
          /\ Allowed(OnPremium(InMonth(month)), "premium")
    /\ \A day \in Day : Allowed(OnDay(day), "day")

(* What the provider has billed for a single call stays in the budget up to *)
(* the estimate, through timeouts, lost answers, stopped processes and the  *)
(* job that closes reservations, and in full once it is settled.            *)
BilledIsCounted ==
    \A c \in Rows : call[c].path = "single" =>
        /\ billed[c] <= row[c].cost \/ Foreseen(c) = EstimateFor(c, row[c].model)
        /\ row[c].status = "SETTLED" => row[c].cost = billed[c]
=============================================================================
