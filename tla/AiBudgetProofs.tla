--------------------------- MODULE AiBudgetProofs ---------------------------
(****************************************************************************)
(* Theorems about AiBudget for any calls, members, calendar, packages,      *)
(* prices and overrun: the caps hold for what was foreseen, and what the    *)
(* provider bills for a single call is counted.                             *)
(****************************************************************************)
EXTENDS AiBudget, FiniteSetTheorems, TLAPS

----------------------------------------------------------------------------
(* The inductive invariant                                                  *)

(* A call that waits or was refused has no row and costs nothing; one that  *)
(* runs has a row.                                                          *)
RowsOfCalls ==
    \A c \in Call :
        /\ call[c].step \in {"idle", "asking"} => c \notin Rows
        /\ call[c].step \in {"calling", "answered", "saving", "failing"} => c \in Rows
        /\ c \notin Rows => billed[c] = 0
        /\ call[c].step = "asking" => call[c].used = 0
        /\ call[c].step = "saving" => call[c].path = "summary"

(* Nothing is dated later than today.                                       *)
Dated ==
    \A c \in Call :
        /\ call[c].step = "asking" => call[c].day <= today
        /\ row[c].day <= today

(* Its row holds the estimate of a call under way, even when the job that   *)
(* closes reservations has been there.                                      *)
HoldsEstimate ==
    \A c \in Call :
        (\/ call[c].step \in {"calling", "answered"}
         \/ call[c].step = "failing" /\ call[c].path # "summary")
        => row[c].status # "SETTLED" /\ row[c].cost = EstimateFor(c, row[c].model)

(* A single call knows what it was billed, unless it has timed out.         *)
KnowsBill ==
    \A c \in Call : call[c].path = "single" =>
        /\ call[c].step = "calling" => billed[c] = 0 /\ call[c].used = 0
        /\ call[c].step = "answered" => billed[c] = call[c].used
        /\ call[c].step = "failing" /\ ~call[c].timedOut => billed[c] = 0

(* Afterwards its row costs the estimate or what was billed.                *)
Closed ==
    \A c \in Rows : call[c].path = "single" /\ call[c].step = "over" =>
        /\ row[c].cost = EstimateFor(c, row[c].model) \/ row[c].cost = billed[c]
        /\ row[c].status = "SETTLED" => row[c].cost = billed[c]

Bookkeeping == TypeOK /\ RowsOfCalls /\ Dated /\ HoldsEstimate /\ KnowsBill /\ Closed

IInv == Bookkeeping /\ WithinBudget

----------------------------------------------------------------------------
(* Sums                                                                     *)

(* The sum of g over rows.                                                  *)
Total(rows, g) == Cardinality(UNION {Units(c, g[c]) : c \in rows})

(* Any number of units is a finite set of that size.                        *)
LEMMA UnitsCounted ==
    ASSUME NEW c, NEW n \in Nat
    PROVE  IsFiniteSet(Units(c, n)) /\ Cardinality(Units(c, n)) = n
<1>1. IsFiniteSet({c}) /\ Cardinality({c}) = 1
    BY FS_Singleton
<1>2. IsFiniteSet(1..n) /\ Cardinality(1..n) = n
    BY FS_Interval
<1> DEFINE S == {c}
           T == 1..n
<1> HIDE DEF S, T
<1>3. IsFiniteSet(S \X T) /\ Cardinality(S \X T) = Cardinality(S) * Cardinality(T)
    BY <1>1, <1>2, FS_Product DEF S, T
<1> QED BY <1>1, <1>2, <1>3 DEF Units, S, T

(* Finitely many rows hold finitely many units.                             *)
LEMMA TotalFinite ==
    ASSUME NEW rows \in SUBSET Call, NEW g \in [Call -> Nat]
    PROVE  /\ IsFiniteSet(UNION {Units(c, g[c]) : c \in rows})
           /\ Total(rows, g) \in Nat
<1> DEFINE f == [c \in rows |-> Units(c, g[c])]
           T == {Units(c, g[c]) : c \in rows}
<1>1. IsFiniteSet(rows)
    BY BudgetAssumption, FS_Subset
<1>2. f \in Surjection(rows, T)
    BY DEF Surjection
<1>3. IsFiniteSet(T)
    BY <1>1, <1>2, FS_Surjection
<1>4. \A U \in T : IsFiniteSet(U)
  <2>1. \A c \in rows : IsFiniteSet(Units(c, g[c]))
      BY UnitsCounted
  <2> QED BY <2>1
<1>5. IsFiniteSet(UNION T)
    BY <1>3, <1>4, FS_UNION
<1> QED BY <1>5, FS_CardinalityType DEF Total

(* Fewer rows that hold no more have no larger sum.                         *)
LEMMA TotalFalls ==
    ASSUME NEW rows \in SUBSET Call, NEW less \in SUBSET rows,
           NEW g \in [Call -> Nat], NEW h \in [Call -> Nat],
           \A c \in less : h[c] <= g[c]
    PROVE  Total(less, h) <= Total(rows, g)
<1>1. \A c \in less : Units(c, h[c]) \subseteq Units(c, g[c])
    BY DEF Units
<1>2. (UNION {Units(c, h[c]) : c \in less}) \subseteq UNION {Units(c, g[c]) : c \in rows}
    BY <1>1
<1> QED BY <1>2, TotalFinite, FS_Subset DEF Total

(* One more row adds no more than it holds.                                 *)
LEMMA TotalGrows ==
    ASSUME NEW rows \in SUBSET Call, NEW c \in Call, NEW more \in SUBSET (rows \cup {c}),
           NEW g \in [Call -> Nat], NEW h \in [Call -> Nat], NEW n \in Nat,
           \A k \in more \ {c} : h[k] <= g[k], h[c] <= n
    PROVE  Total(more, h) <= Total(rows, g) + n
<1> DEFINE A == UNION {Units(k, g[k]) : k \in rows}
           B == UNION {Units(k, h[k]) : k \in more}
<1>1. \A k \in more \ {c} : Units(k, h[k]) \subseteq Units(k, g[k])
    BY DEF Units
<1>2. Units(c, h[c]) \subseteq Units(c, n)
    BY DEF Units
<1>3. B \subseteq A \cup Units(c, n)
    BY <1>1, <1>2
<1>4. IsFiniteSet(A) /\ IsFiniteSet(Units(c, n)) /\ Cardinality(Units(c, n)) = n
    BY TotalFinite, UnitsCounted
<1>5. /\ IsFiniteSet(A \cup Units(c, n))
      /\ Cardinality(A \cup Units(c, n)) =
             Cardinality(A) + Cardinality(Units(c, n)) - Cardinality(A \cap Units(c, n))
    BY <1>4, FS_Union
<1>6. IsFiniteSet(A \cap Units(c, n)) /\ Cardinality(A \cap Units(c, n)) \in Nat
    BY <1>4, FS_Intersection, FS_CardinalityType
<1>7. Cardinality(B) <= Cardinality(A \cup Units(c, n))
    BY <1>3, <1>5, FS_Subset
<1>8. Cardinality(A) \in Nat /\ Cardinality(B) \in Nat
    BY TotalFinite DEF Total
<1> HIDE DEF A, B
<1>9. Cardinality(B) <= Cardinality(A) + n
    BY <1>4, <1>5, <1>6, <1>7, <1>8
<1> QED BY <1>9 DEF Total, A, B

(* An estimate is an amount of money.                                      *)
LEMMA EstimateIsMoney ==
    ASSUME NEW c, NEW model \in Model
    PROVE  EstimateFor(c, model) \in Nat
<1>1. Price[model] \in Nat /\ ToolRounds + 1 \in Nat
    BY BudgetAssumption
<1>2. \A m, n \in Nat : m * n \in Nat
    OBVIOUS
<1> QED BY <1>1, <1>2 DEF EstimateFor

(* What the rows hold, and what of it was foreseen.                         *)
Costs == [c \in Call |-> row[c].cost]
Parts == [c \in Call |-> Foreseen(c)]

(* Costs and their foreseen parts are amounts; a part is no more than all. *)
LEMMA PartsOfCosts ==
    ASSUME TypeOK
    PROVE  /\ Costs \in [Call -> Nat] /\ Parts \in [Call -> Nat]
           /\ \A c \in Call : Parts[c] <= Costs[c]
<1>1. \A c \in Call : row[c].cost \in Nat /\ row[c].model \in Model
    BY DEF TypeOK, UsageRow
<1>2. \A c \in Call : EstimateFor(c, row[c].model) \in Nat
    BY <1>1, EstimateIsMoney
<1>3. \A c \in Call : Foreseen(c) \in Nat /\ Foreseen(c) <= row[c].cost
    BY <1>1, <1>2 DEF Foreseen
<1> QED BY <1>1, <1>3 DEF Costs, Parts

(* The sums of the module are totals of such functions.                    *)
LEMMA SumsAreTotals ==
    ASSUME NEW rows \in SUBSET Call
    PROVE  Spend(rows) = Total(rows, Costs) /\ ForeseenIn(rows) = Total(rows, Parts)
<1>1. \A c \in rows : Costs[c] = row[c].cost /\ Parts[c] = Foreseen(c)
    BY DEF Costs, Parts
<1>2. {Units(c, row[c].cost) : c \in rows} = {Units(c, Costs[c]) : c \in rows}
    BY <1>1
<1>3. {Units(c, Foreseen(c)) : c \in rows} = {Units(c, Parts[c]) : c \in rows}
    BY <1>1
<1> QED BY <1>2, <1>3 DEF Spend, ForeseenIn, Total

----------------------------------------------------------------------------
(* The types of the parts a step changes                                    *)

(* Days are natural numbers.                                               *)
LEMMA Days == 1 \in Day /\ Day \subseteq Nat
BY BudgetAssumption DEF Day

(* A request replaced by a request.                                        *)
LEMMA RequestKept ==
    ASSUME TypeOK, NEW c \in Call, NEW r \in Request
    PROVE  [call EXCEPT ![c] = r] \in [Call -> Request]
BY DEF TypeOK

(* A row replaced by a row.                                                *)
LEMMA RowKept ==
    ASSUME TypeOK, NEW c \in Call, NEW r \in UsageRow
    PROVE  [row EXCEPT ![c] = r] \in [Call -> UsageRow]
BY DEF TypeOK

(* A request that moves on.                                                *)
LEMMA AtTyped ==
    ASSUME TypeOK, NEW c \in Call, NEW step \in Steps
    PROVE  At(c, step) \in [Call -> Request]
<1>1. call[c] \in Request
    BY DEF TypeOK
<1>2. [call[c] EXCEPT !.step = step] \in Request
    BY <1>1 DEF Request
<1> QED BY <1>2 DEF At, TypeOK

(* A request that has ended.                                               *)
LEMMA EndedTyped ==
    ASSUME TypeOK, NEW c \in Call
    PROVE  Ended(c) \in [Call -> Request]
<1>1. call[c].path \in Path
    BY DEF TypeOK, Request
<1>2. [NotAsked EXCEPT !.step = "over", !.path = call[c].path] \in Request
    BY <1>1, Days DEF Request, NotAsked, Steps
<1> QED BY <1>2, RequestKept DEF Ended

(* A request starts.                                                       *)
LEMMA AskTyped ==
    ASSUME TypeOK, NEW c \in Call, NEW u \in User,
           NEW path \in Path, NEW wanted \in BOOLEAN, Ask(c, u, path, wanted)
    PROVE  TypeOK'
<1>1. [NotAsked EXCEPT !.step = "asking", !.path = path, !.user = u,
                       !.wanted = wanted, !.day = today] \in Request
    BY Days DEF Request, NotAsked, Steps, TypeOK
<1>2. call' \in [Call -> Request]
    BY <1>1, RequestKept DEF Ask
<1> QED BY <1>2 DEF TypeOK, Ask

LEMMA AskKept ==
    ASSUME Bookkeeping, NEW c \in Call, NEW u \in User,
           NEW path \in Path, NEW wanted \in BOOLEAN, Ask(c, u, path, wanted)
    PROVE  Bookkeeping'
<1>1. TypeOK /\ RowsOfCalls /\ Dated /\ HoldsEstimate /\ KnowsBill /\ Closed
    BY DEF Bookkeeping
<1>2. TypeOK'
    BY <1>1, AskTyped
<1>3. /\ \A k \in Call : row[k] \in UsageRow /\ call[k] \in Request /\ row[k].day \in Nat
      /\ today \in Nat
    BY <1>1, Days DEF TypeOK, UsageRow
<1>4. RowsOfCalls'
    BY <1>1, <1>3 DEF TypeOK, UsageRow, Request, RowsOfCalls, Rows, Ask, NotAsked
<1>5. Dated'
  <2>1. call'[c].day = today /\ row' = row /\ today' = today
      BY <1>1 DEF TypeOK, Ask, NotAsked
  <2>2. \A k \in Call \ {c} : call'[k] = call[k]
      BY <1>1 DEF TypeOK, Ask
  <2> QED BY <1>1, <1>3, <2>1, <2>2 DEF Dated
<1>6. HoldsEstimate'
    BY <1>1, <1>3 DEF TypeOK, UsageRow, Request, HoldsEstimate, RowsOfCalls, Rows,
                      EstimateFor, Ask, NotAsked
<1>7. KnowsBill'
    BY <1>1, <1>3 DEF TypeOK, UsageRow, Request, KnowsBill, RowsOfCalls, Rows, Ask, NotAsked
<1>8. Closed'
    BY <1>1, <1>3 DEF TypeOK, UsageRow, Request, Closed, HoldsEstimate, KnowsBill,
                      RowsOfCalls, Rows, EstimateFor, Ask, NotAsked
<1> QED BY <1>2, <1>4, <1>5, <1>6, <1>7, <1>8 DEF Bookkeeping

(* A reservation is made.                                                  *)
LEMMA ReserveTyped ==
    ASSUME TypeOK, NEW c \in Call, NEW model \in Model, NEW day \in Day,
           Reserve(c, model, day)
    PROVE  TypeOK'
<1>1. EstimateFor(c, model) \in Nat /\ call[c].user \in User \cup {"-"}
    BY EstimateIsMoney DEF TypeOK, Request
<1>2. [status |-> "RESERVED", user |-> call[c].user, model |-> model,
       cost |-> EstimateFor(c, model), day |-> day] \in UsageRow
    BY <1>1 DEF UsageRow
<1>3. row' \in [Call -> UsageRow]
    BY <1>2, RowKept DEF Reserve
<1>4. call' \in [Call -> Request]
    BY AtTyped DEF Reserve, Steps
<1> QED BY <1>3, <1>4 DEF TypeOK, Reserve

LEMMA ReserveKept ==
    ASSUME Bookkeeping, NEW c \in Call, NEW model \in Model, NEW day \in Day,
           Reserve(c, model, day)
    PROVE  Bookkeeping'
<1>1. TypeOK /\ RowsOfCalls /\ Dated /\ HoldsEstimate /\ KnowsBill /\ Closed
    BY DEF Bookkeeping
<1>2. TypeOK'
    BY <1>1, ReserveTyped
<1>3. /\ \A k \in Call : row[k] \in UsageRow /\ call[k] \in Request /\ row[k].day \in Nat
      /\ today \in Nat /\ day \in Nat
    BY <1>1, Days DEF TypeOK, UsageRow
<1>4. RowsOfCalls'
    BY <1>1, <1>3 DEF TypeOK, UsageRow, Request, RowsOfCalls, Rows, Reserve, At
<1>5. Dated'
    BY <1>1, <1>3 DEF TypeOK, UsageRow, Request, Dated, Reserve, At
<1>6. HoldsEstimate'
    BY <1>1, <1>3 DEF TypeOK, UsageRow, Request, HoldsEstimate, RowsOfCalls, Rows,
                      EstimateFor, Reserve, At
<1>7. KnowsBill'
    BY <1>1, <1>3 DEF TypeOK, UsageRow, Request, KnowsBill, RowsOfCalls, Rows, Reserve, At
<1>8. Closed'
    BY <1>1, <1>3 DEF TypeOK, UsageRow, Request, Closed, HoldsEstimate, KnowsBill,
                      RowsOfCalls, Rows, EstimateFor, Reserve, At
<1> QED BY <1>2, <1>4, <1>5, <1>6, <1>7, <1>8 DEF Bookkeeping

(* No model fits.                                                          *)
LEMMA RefuseTyped ==
    ASSUME TypeOK, NEW c \in Call, Refuse(c)
    PROVE  TypeOK'
<1>1. call' \in [Call -> Request]
    BY EndedTyped DEF Refuse
<1> QED BY <1>1 DEF TypeOK, Refuse

LEMMA RefuseKept ==
    ASSUME Bookkeeping, NEW c \in Call, Refuse(c)
    PROVE  Bookkeeping'
<1>1. TypeOK /\ RowsOfCalls /\ Dated /\ HoldsEstimate /\ KnowsBill /\ Closed
    BY DEF Bookkeeping
<1>2. TypeOK'
    BY <1>1, RefuseTyped
<1>3. /\ \A k \in Call : row[k] \in UsageRow /\ call[k] \in Request /\ row[k].day \in Nat
      /\ today \in Nat
    BY <1>1, Days DEF TypeOK, UsageRow
<1>4. RowsOfCalls'
    BY <1>1, <1>3 DEF TypeOK, UsageRow, Request, RowsOfCalls, Rows, Refuse, Ended, NotAsked
<1>5. Dated'
    BY <1>1, <1>3 DEF TypeOK, UsageRow, Request, Dated, Refuse, Ended, NotAsked
<1>6. HoldsEstimate'
    BY <1>1, <1>3 DEF TypeOK, UsageRow, Request, HoldsEstimate, RowsOfCalls, Rows,
                      EstimateFor, Refuse, Ended, NotAsked
<1>7. KnowsBill'
    BY <1>1, <1>3 DEF TypeOK, UsageRow, Request, KnowsBill, RowsOfCalls, Rows, Refuse, Ended, NotAsked
<1>8. Closed'
    BY <1>1, <1>3 DEF TypeOK, UsageRow, Request, Closed, HoldsEstimate, KnowsBill,
                      RowsOfCalls, Rows, EstimateFor, Refuse, Ended, NotAsked
<1> QED BY <1>2, <1>4, <1>5, <1>6, <1>7, <1>8 DEF Bookkeeping

(* The provider answers.                                                   *)
LEMMA AnswerTyped ==
    ASSUME TypeOK, NEW c \in Call, NEW last \in BOOLEAN, NEW money \in Bill(c), Answer(c, money, last)
    PROVE  TypeOK'
<1>1. money \in Nat
    BY DEF Bill
<1>2. call[c] \in Request /\ billed[c] \in Nat
    BY DEF TypeOK
<1>3. /\ call[c].used + money \in Nat /\ call[c].rounds + 1 \in Nat
      /\ (IF last THEN "answered" ELSE "calling") \in Steps
    BY <1>1, <1>2 DEF Request, Steps
<1>35. [call[c] EXCEPT !.used = call[c].used + money, !.rounds = call[c].rounds + 1,
                      !.step = IF last THEN "answered" ELSE "calling"] \in Request
    BY <1>2, <1>3 DEF Request
<1>4. call' \in [Call -> Request]
    BY <1>35 DEF TypeOK, Answer
<1>5. billed' \in [Call -> Nat]
    BY <1>1, <1>2 DEF TypeOK, Answer, Bills
<1> QED BY <1>4, <1>5 DEF TypeOK, Answer

LEMMA AnswerKept ==
    ASSUME Bookkeeping, NEW c \in Call, NEW last \in BOOLEAN, NEW money \in Bill(c), Answer(c, money, last)
    PROVE  Bookkeeping'
<1>1. TypeOK /\ RowsOfCalls /\ Dated /\ HoldsEstimate /\ KnowsBill /\ Closed
    BY DEF Bookkeeping
<1>2. TypeOK'
    BY <1>1, AnswerTyped
<1>3. /\ \A k \in Call : row[k] \in UsageRow /\ call[k] \in Request /\ row[k].day \in Nat
      /\ today \in Nat
    BY <1>1, Days DEF TypeOK, UsageRow
<1>4. RowsOfCalls'
    BY <1>1, <1>3 DEF TypeOK, UsageRow, Request, RowsOfCalls, Rows, Answer, Bills
<1>5. Dated'
    BY <1>1, <1>3 DEF TypeOK, UsageRow, Request, Dated, Answer, Bills
<1>6. HoldsEstimate'
    BY <1>1, <1>3 DEF TypeOK, UsageRow, Request, HoldsEstimate, RowsOfCalls, Rows,
                      EstimateFor, Answer, Bills
<1>7. KnowsBill'
    BY <1>1, <1>3 DEF TypeOK, UsageRow, Request, KnowsBill, RowsOfCalls, Rows, Answer, Bills
<1>8. Closed'
    BY <1>1, <1>3 DEF TypeOK, UsageRow, Request, Closed, HoldsEstimate, KnowsBill,
                      RowsOfCalls, Rows, EstimateFor, Answer, Bills
<1> QED BY <1>2, <1>4, <1>5, <1>6, <1>7, <1>8 DEF Bookkeeping

(* The answer is late.                                                     *)
LEMMA TimesOutTyped ==
    ASSUME TypeOK, NEW c \in Call, NEW money \in Bill(c), TimesOut(c, money)
    PROVE  TypeOK'
<1>1. money \in Nat
    BY DEF Bill
<1>2. call[c] \in Request /\ billed[c] \in Nat
    BY DEF TypeOK
<1>3. [call[c] EXCEPT !.step = "failing", !.timedOut = TRUE] \in Request
    BY <1>2 DEF Request, Steps
<1>4. call' \in [Call -> Request]
    BY <1>3 DEF TypeOK, TimesOut
<1>5. billed' \in [Call -> Nat]
    BY <1>1, <1>2 DEF TypeOK, TimesOut, Bills
<1> QED BY <1>4, <1>5 DEF TypeOK, TimesOut

LEMMA TimesOutKept ==
    ASSUME Bookkeeping, NEW c \in Call, NEW money \in Bill(c), TimesOut(c, money)
    PROVE  Bookkeeping'
<1>1. TypeOK /\ RowsOfCalls /\ Dated /\ HoldsEstimate /\ KnowsBill /\ Closed
    BY DEF Bookkeeping
<1>2. TypeOK'
    BY <1>1, TimesOutTyped
<1>3. /\ \A k \in Call : row[k] \in UsageRow /\ call[k] \in Request /\ row[k].day \in Nat
      /\ today \in Nat
    BY <1>1, Days DEF TypeOK, UsageRow
<1>4. RowsOfCalls'
    BY <1>1, <1>3 DEF TypeOK, UsageRow, Request, RowsOfCalls, Rows, TimesOut, Bills
<1>5. Dated'
    BY <1>1, <1>3 DEF TypeOK, UsageRow, Request, Dated, TimesOut, Bills
<1>6. HoldsEstimate'
    BY <1>1, <1>3 DEF TypeOK, UsageRow, Request, HoldsEstimate, RowsOfCalls, Rows,
                      EstimateFor, TimesOut, Bills
<1>7. KnowsBill'
    BY <1>1, <1>3 DEF TypeOK, UsageRow, Request, KnowsBill, RowsOfCalls, Rows, TimesOut, Bills
<1>8. Closed'
    BY <1>1, <1>3 DEF TypeOK, UsageRow, Request, Closed, HoldsEstimate, KnowsBill,
                      RowsOfCalls, Rows, EstimateFor, TimesOut, Bills
<1> QED BY <1>2, <1>4, <1>5, <1>6, <1>7, <1>8 DEF Bookkeeping

(* The provider refuses.                                                   *)
LEMMA RejectsTyped ==
    ASSUME TypeOK, NEW c \in Call, Rejects(c)
    PROVE  TypeOK'
<1>1. call' \in [Call -> Request]
    BY AtTyped DEF Rejects, Steps
<1> QED BY <1>1 DEF TypeOK, Rejects

LEMMA RejectsKept ==
    ASSUME Bookkeeping, NEW c \in Call, Rejects(c)
    PROVE  Bookkeeping'
<1>1. TypeOK /\ RowsOfCalls /\ Dated /\ HoldsEstimate /\ KnowsBill /\ Closed
    BY DEF Bookkeeping
<1>2. TypeOK'
    BY <1>1, RejectsTyped
<1>3. /\ \A k \in Call : row[k] \in UsageRow /\ call[k] \in Request /\ row[k].day \in Nat
      /\ today \in Nat
    BY <1>1, Days DEF TypeOK, UsageRow
<1>4. RowsOfCalls'
    BY <1>1, <1>3 DEF TypeOK, UsageRow, Request, RowsOfCalls, Rows, Rejects, At
<1>5. Dated'
    BY <1>1, <1>3 DEF TypeOK, UsageRow, Request, Dated, Rejects, At
<1>6. HoldsEstimate'
    BY <1>1, <1>3 DEF TypeOK, UsageRow, Request, HoldsEstimate, RowsOfCalls, Rows,
                      EstimateFor, Rejects, At
<1>7. KnowsBill'
    BY <1>1, <1>3 DEF TypeOK, UsageRow, Request, KnowsBill, RowsOfCalls, Rows, Rejects, At
<1>8. Closed'
    BY <1>1, <1>3 DEF TypeOK, UsageRow, Request, Closed, HoldsEstimate, KnowsBill,
                      RowsOfCalls, Rows, EstimateFor, Rejects, At
<1> QED BY <1>2, <1>4, <1>5, <1>6, <1>7, <1>8 DEF Bookkeeping

(* The row is settled.                                                     *)
LEMMA SettleTyped ==
    ASSUME TypeOK, NEW c \in Call, Settle(c)
    PROVE  TypeOK'
<1>1. row[c] \in UsageRow /\ call[c].used \in Nat
    BY DEF TypeOK, Request
<1>2. [row[c] EXCEPT !.status = "SETTLED", !.cost = call[c].used] \in UsageRow
    BY <1>1 DEF UsageRow
<1>3. row' \in [Call -> UsageRow]
    BY <1>2 DEF TypeOK, Settle
<1>4. call' \in [Call -> Request]
    BY AtTyped, EndedTyped DEF Settle, Steps
<1> QED BY <1>3, <1>4 DEF TypeOK, Settle

LEMMA SettleKept ==
    ASSUME Bookkeeping, NEW c \in Call, Settle(c)
    PROVE  Bookkeeping'
<1>1. TypeOK /\ RowsOfCalls /\ Dated /\ HoldsEstimate /\ KnowsBill /\ Closed
    BY DEF Bookkeeping
<1>2. TypeOK'
    BY <1>1, SettleTyped
<1>3. /\ \A k \in Call : row[k] \in UsageRow /\ call[k] \in Request /\ row[k].day \in Nat
      /\ today \in Nat
    BY <1>1, Days DEF TypeOK, UsageRow
<1>4. RowsOfCalls'
    BY <1>1, <1>3 DEF TypeOK, UsageRow, Request, RowsOfCalls, Rows, Settle, At, Ended, NotAsked
<1>5. Dated'
    BY <1>1, <1>3 DEF TypeOK, UsageRow, Request, Dated, Settle, At, Ended, NotAsked
<1>6. HoldsEstimate'
    BY <1>1, <1>3 DEF TypeOK, UsageRow, Request, HoldsEstimate, RowsOfCalls, Rows,
                      EstimateFor, Settle, At, Ended, NotAsked
<1>7. KnowsBill'
    BY <1>1, <1>3 DEF TypeOK, UsageRow, Request, KnowsBill, RowsOfCalls, Rows, Settle, At, Ended, NotAsked
<1>8. Closed'
    BY <1>1, <1>3 DEF TypeOK, UsageRow, Request, Closed, HoldsEstimate, KnowsBill,
                      RowsOfCalls, Rows, EstimateFor, Settle, At, Ended, NotAsked
<1> QED BY <1>2, <1>4, <1>5, <1>6, <1>7, <1>8 DEF Bookkeeping

(* The summary is stored.                                                  *)
LEMMA SaveSummaryTyped ==
    ASSUME TypeOK, NEW c \in Call, SaveSummary(c)
    PROVE  TypeOK'
<1>1. call' \in [Call -> Request]
    BY EndedTyped DEF SaveSummary
<1> QED BY <1>1 DEF TypeOK, SaveSummary

LEMMA SaveSummaryKept ==
    ASSUME Bookkeeping, NEW c \in Call, SaveSummary(c)
    PROVE  Bookkeeping'
<1>1. TypeOK /\ RowsOfCalls /\ Dated /\ HoldsEstimate /\ KnowsBill /\ Closed
    BY DEF Bookkeeping
<1>2. TypeOK'
    BY <1>1, SaveSummaryTyped
<1>3. /\ \A k \in Call : row[k] \in UsageRow /\ call[k] \in Request /\ row[k].day \in Nat
      /\ today \in Nat
    BY <1>1, Days DEF TypeOK, UsageRow
<1>4. RowsOfCalls'
    BY <1>1, <1>3 DEF TypeOK, UsageRow, Request, RowsOfCalls, Rows, SaveSummary, Ended, NotAsked
<1>5. Dated'
    BY <1>1, <1>3 DEF TypeOK, UsageRow, Request, Dated, SaveSummary, Ended, NotAsked
<1>6. HoldsEstimate'
    BY <1>1, <1>3 DEF TypeOK, UsageRow, Request, HoldsEstimate, RowsOfCalls, Rows,
                      EstimateFor, SaveSummary, Ended, NotAsked
<1>7. KnowsBill'
    BY <1>1, <1>3 DEF TypeOK, UsageRow, Request, KnowsBill, RowsOfCalls, Rows, SaveSummary, Ended, NotAsked
<1>8. Closed'
    BY <1>1, <1>3 DEF TypeOK, UsageRow, Request, Closed, HoldsEstimate, KnowsBill,
                      RowsOfCalls, Rows, EstimateFor, SaveSummary, Ended, NotAsked
<1> QED BY <1>2, <1>4, <1>5, <1>6, <1>7, <1>8 DEF Bookkeeping

(* The summary fails.                                                      *)
LEMMA SummaryFailsTyped ==
    ASSUME TypeOK, NEW c \in Call, SummaryFails(c)
    PROVE  TypeOK'
<1>1. call' \in [Call -> Request]
    BY AtTyped DEF SummaryFails, Steps
<1> QED BY <1>1 DEF TypeOK, SummaryFails

LEMMA SummaryFailsKept ==
    ASSUME Bookkeeping, NEW c \in Call, SummaryFails(c)
    PROVE  Bookkeeping'
<1>1. TypeOK /\ RowsOfCalls /\ Dated /\ HoldsEstimate /\ KnowsBill /\ Closed
    BY DEF Bookkeeping
<1>2. TypeOK'
    BY <1>1, SummaryFailsTyped
<1>3. /\ \A k \in Call : row[k] \in UsageRow /\ call[k] \in Request /\ row[k].day \in Nat
      /\ today \in Nat
    BY <1>1, Days DEF TypeOK, UsageRow
<1>4. RowsOfCalls'
    BY <1>1, <1>3 DEF TypeOK, UsageRow, Request, RowsOfCalls, Rows, SummaryFails, At
<1>5. Dated'
    BY <1>1, <1>3 DEF TypeOK, UsageRow, Request, Dated, SummaryFails, At
<1>6. HoldsEstimate'
    BY <1>1, <1>3 DEF TypeOK, UsageRow, Request, HoldsEstimate, RowsOfCalls, Rows,
                      EstimateFor, SummaryFails, At
<1>7. KnowsBill'
    BY <1>1, <1>3 DEF TypeOK, UsageRow, Request, KnowsBill, RowsOfCalls, Rows, SummaryFails, At
<1>8. Closed'
    BY <1>1, <1>3 DEF TypeOK, UsageRow, Request, Closed, HoldsEstimate, KnowsBill,
                      RowsOfCalls, Rows, EstimateFor, SummaryFails, At
<1> QED BY <1>2, <1>4, <1>5, <1>6, <1>7, <1>8 DEF Bookkeeping

(* The row is closed as failed.                                            *)
LEMMA FailTyped ==
    ASSUME TypeOK, NEW c \in Call, Fail(c)
    PROVE  TypeOK'
<1>1. row[c] \in UsageRow /\ row[c].cost \in Nat /\ call[c].used \in Nat
    BY DEF TypeOK, Request, UsageRow
<1>2. [row[c] EXCEPT !.status = "FAILED", !.cost = CostOfFailure(c)] \in UsageRow
    BY <1>1 DEF UsageRow, CostOfFailure
<1>3. row' \in [Call -> UsageRow]
    BY <1>2 DEF TypeOK, Fail
<1>4. call' \in [Call -> Request]
    BY EndedTyped DEF Fail
<1> QED BY <1>3, <1>4 DEF TypeOK, Fail

LEMMA FailKept ==
    ASSUME Bookkeeping, NEW c \in Call, Fail(c)
    PROVE  Bookkeeping'
<1>1. TypeOK /\ RowsOfCalls /\ Dated /\ HoldsEstimate /\ KnowsBill /\ Closed
    BY DEF Bookkeeping
<1>2. TypeOK'
    BY <1>1, FailTyped
<1>3. /\ \A k \in Call : row[k] \in UsageRow /\ call[k] \in Request /\ row[k].day \in Nat
      /\ today \in Nat
    BY <1>1, Days DEF TypeOK, UsageRow
<1>4. RowsOfCalls'
    BY <1>1, <1>3 DEF TypeOK, UsageRow, Request, RowsOfCalls, Rows, Fail, Ended, NotAsked, CostOfFailure
<1>5. Dated'
    BY <1>1, <1>3 DEF TypeOK, UsageRow, Request, Dated, Fail, Ended, NotAsked, CostOfFailure
<1>6. HoldsEstimate'
    BY <1>1, <1>3 DEF TypeOK, UsageRow, Request, HoldsEstimate, RowsOfCalls, Rows,
                      EstimateFor, Fail, Ended, NotAsked, CostOfFailure
<1>7. KnowsBill'
    BY <1>1, <1>3 DEF TypeOK, UsageRow, Request, KnowsBill, RowsOfCalls, Rows, Fail, Ended, NotAsked, CostOfFailure
<1>8. Closed'
    BY <1>1, <1>3 DEF TypeOK, UsageRow, Request, Closed, HoldsEstimate, KnowsBill,
                      RowsOfCalls, Rows, EstimateFor, Fail, Ended, NotAsked, CostOfFailure
<1> QED BY <1>2, <1>4, <1>5, <1>6, <1>7, <1>8 DEF Bookkeeping

(* The call is gone.                                                       *)
LEMMA LostTyped ==
    ASSUME TypeOK, NEW c \in Call, Lost(c)
    PROVE  TypeOK'
<1>1. call' \in [Call -> Request]
    BY EndedTyped DEF Lost
<1> QED BY <1>1 DEF TypeOK, Lost

LEMMA LostKept ==
    ASSUME Bookkeeping, NEW c \in Call, Lost(c)
    PROVE  Bookkeeping'
<1>1. TypeOK /\ RowsOfCalls /\ Dated /\ HoldsEstimate /\ KnowsBill /\ Closed
    BY DEF Bookkeeping
<1>2. TypeOK'
    BY <1>1, LostTyped
<1>3. /\ \A k \in Call : row[k] \in UsageRow /\ call[k] \in Request /\ row[k].day \in Nat
      /\ today \in Nat
    BY <1>1, Days DEF TypeOK, UsageRow
<1>4. RowsOfCalls'
    BY <1>1, <1>3 DEF TypeOK, UsageRow, Request, RowsOfCalls, Rows, Lost, Ended, NotAsked
<1>5. Dated'
    BY <1>1, <1>3 DEF TypeOK, UsageRow, Request, Dated, Lost, Ended, NotAsked
<1>6. HoldsEstimate'
    BY <1>1, <1>3 DEF TypeOK, UsageRow, Request, HoldsEstimate, RowsOfCalls, Rows,
                      EstimateFor, Lost, Ended, NotAsked
<1>7. KnowsBill'
    BY <1>1, <1>3 DEF TypeOK, UsageRow, Request, KnowsBill, RowsOfCalls, Rows, Lost, Ended, NotAsked
<1>8. Closed'
  <2>1. /\ row' = row /\ billed' = billed /\ call'[c].path = call[c].path
        /\ \A k \in Call \ {c} : call'[k] = call[k]
      BY <1>1 DEF TypeOK, Lost, Ended, NotAsked
  <2>2. \/ call[c].step = "asking"
        \/ call[c].step \in {"calling", "answered", "failing"}
        \/ call[c].step = "saving"
      BY <1>3 DEF Lost, Request, Steps
  <2>3. c \in Rows /\ call[c].path = "single" =>
            row[c].status # "SETTLED" /\ row[c].cost = EstimateFor(c, row[c].model)
      BY <1>1, <2>2 DEF RowsOfCalls, HoldsEstimate
  <2> QED BY <1>1, <2>1, <2>3 DEF Closed, Rows, EstimateFor
<1> QED BY <1>2, <1>4, <1>5, <1>6, <1>7, <1>8 DEF Bookkeeping

(* The job closes a reservation.                                           *)
LEMMA ReapTyped ==
    ASSUME TypeOK, NEW c \in Call, Reap(c)
    PROVE  TypeOK'
<1>1. row[c] \in UsageRow
    BY DEF TypeOK
<1>2. [row[c] EXCEPT !.status = "FAILED"] \in UsageRow
    BY <1>1 DEF UsageRow
<1>3. row' \in [Call -> UsageRow]
    BY <1>2 DEF TypeOK, Reap
<1> QED BY <1>3 DEF TypeOK, Reap

LEMMA ReapKept ==
    ASSUME Bookkeeping, NEW c \in Call, Reap(c)
    PROVE  Bookkeeping'
<1>1. TypeOK /\ RowsOfCalls /\ Dated /\ HoldsEstimate /\ KnowsBill /\ Closed
    BY DEF Bookkeeping
<1>2. TypeOK'
    BY <1>1, ReapTyped
<1>3. /\ \A k \in Call : row[k] \in UsageRow /\ call[k] \in Request /\ row[k].day \in Nat
      /\ today \in Nat
    BY <1>1, Days DEF TypeOK, UsageRow
<1>4. RowsOfCalls'
    BY <1>1, <1>3 DEF TypeOK, UsageRow, Request, RowsOfCalls, Rows, Reap
<1>5. Dated'
    BY <1>1, <1>3 DEF TypeOK, UsageRow, Request, Dated, Reap
<1>6. HoldsEstimate'
    BY <1>1, <1>3 DEF TypeOK, UsageRow, Request, HoldsEstimate, RowsOfCalls, Rows,
                      EstimateFor, Reap
<1>7. KnowsBill'
    BY <1>1, <1>3 DEF TypeOK, UsageRow, Request, KnowsBill, RowsOfCalls, Rows, Reap
<1>8. Closed'
    BY <1>1, <1>3 DEF TypeOK, UsageRow, Request, Closed, HoldsEstimate, KnowsBill,
                      RowsOfCalls, Rows, EstimateFor, Reap
<1> QED BY <1>2, <1>4, <1>5, <1>6, <1>7, <1>8 DEF Bookkeeping
(* A day goes by, or the package changes: the rows stay.                    *)
LEMMA ClockKept ==
    ASSUME Bookkeeping, NextDay \/ ChangeTier
    PROVE  Bookkeeping'
<1>1. TypeOK /\ RowsOfCalls /\ Dated /\ HoldsEstimate /\ KnowsBill /\ Closed
    BY DEF Bookkeeping
<1>2. row' = row /\ call' = call /\ billed' = billed /\ today' \in Day /\ tier' \in Tier
    BY <1>1, BudgetAssumption DEF NextDay, ChangeTier, TypeOK, Day
<1>3. \A k \in Call : row[k].day \in Nat /\ call[k].day \in Nat
    BY <1>1, Days DEF TypeOK, UsageRow, Request
<1>4. today \in Nat /\ today' \in Nat /\ today <= today'
    BY <1>1, <1>2, Days DEF NextDay, ChangeTier, TypeOK
<1>5. TypeOK' /\ RowsOfCalls' /\ HoldsEstimate' /\ KnowsBill' /\ Closed'
    BY <1>1, <1>2 DEF TypeOK, RowsOfCalls, Rows, HoldsEstimate, KnowsBill, Closed, EstimateFor
<1>6. Dated'
    BY <1>1, <1>2, <1>3, <1>4 DEF Dated
<1> QED BY <1>5, <1>6 DEF Bookkeeping

(* Every step keeps the books.                                             *)
LEMMA BooksKept == Bookkeeping /\ [Next]_vars => Bookkeeping'
<1> SUFFICES ASSUME Bookkeeping, [Next]_vars
             PROVE  Bookkeeping'
    OBVIOUS
<1>1. CASE \E c \in Call, u \in User, path \in Path, wanted \in BOOLEAN :
              Ask(c, u, path, wanted)
    BY <1>1, AskKept
<1>2. CASE \E c \in Call, model \in Model, day \in Day : Reserve(c, model, day)
    BY <1>2, ReserveKept
<1>3. CASE \E c \in Call : Refuse(c)
    BY <1>3, RefuseKept
<1>4. CASE \E c \in Call, last \in BOOLEAN : \E money \in Bill(c) : Answer(c, money, last)
    BY <1>4, AnswerKept
<1>5. CASE \E c \in Call : \E money \in Bill(c) : TimesOut(c, money)
    BY <1>5, TimesOutKept
<1>6. CASE \E c \in Call : Rejects(c)
    BY <1>6, RejectsKept
<1>7. CASE \E c \in Call : Settle(c)
    BY <1>7, SettleKept
<1>8. CASE \E c \in Call : SaveSummary(c)
    BY <1>8, SaveSummaryKept
<1>9. CASE \E c \in Call : SummaryFails(c)
    BY <1>9, SummaryFailsKept
<1>10. CASE \E c \in Call : Fail(c)
    BY <1>10, FailKept
<1>11. CASE \E c \in Call : Lost(c)
    BY <1>11, LostKept
<1>12. CASE \E c \in Call : Reap(c)
    BY <1>12, ReapKept
<1>13. CASE NextDay \/ ChangeTier
    BY <1>13, ClockKept
<1>14. CASE UNCHANGED vars
    BY <1>14 DEF vars, Bookkeeping, TypeOK, RowsOfCalls, Rows, Dated, HoldsEstimate,
                 KnowsBill, Closed, EstimateFor
<1> QED BY <1>1, <1>2, <1>3, <1>4, <1>5, <1>6, <1>7, <1>8, <1>9, <1>10, <1>11, <1>12,
           <1>13, <1>14 DEF Next

(* The books are right at the start.                                       *)
LEMMA BooksBegin == Init => Bookkeeping
<1> SUFFICES ASSUME Init
             PROVE  Bookkeeping
    OBVIOUS
<1>1. NoRow \in UsageRow /\ NotAsked \in Request
    BY Days DEF NoRow, NotAsked, UsageRow, Request, Steps, Path, Model
<1>2. TypeOK
    BY <1>1, Days DEF Init, TypeOK
<1>3. \A c \in Call : /\ row[c].status = "none" /\ row[c].day = 1 /\ billed[c] = 0
                      /\ call[c].step = "idle"
    BY DEF Init, NoRow, NotAsked
<1>4. today = 1
    BY DEF Init
<1> QED BY <1>2, <1>3, <1>4 DEF Bookkeeping, RowsOfCalls, Rows, Dated, HoldsEstimate,
                                KnowsBill, Closed

----------------------------------------------------------------------------
(* The caps                                                                 *)

(* Some package allows the sum of g over the rows.                          *)
Fit(rows, g, window) == \E t \in Tier : Total(rows, g) <= Cap[t][window]

(* Caps are amounts of money.                                              *)
LEMMA CapsAreMoney ==
    \A t \in Tier, window \in Window : Cap[t][window] \in Nat
BY BudgetAssumption

(* The caps as sums over the rows.                                         *)
LEMMA AllowedFits ==
    ASSUME NEW rows \in SUBSET Call, NEW window
    PROVE  Allowed(rows, window) <=> Fit(rows, Parts, window)
BY SumsAreTotals DEF Allowed, Fit

(* A sum that falls stays allowed.                                          *)
LEMMA FitFalls ==
    ASSUME NEW rows \in SUBSET Call, NEW less \in SUBSET rows, NEW window \in Window,
           NEW g \in [Call -> Nat], NEW h \in [Call -> Nat],
           \A c \in less : h[c] <= g[c],
           Fit(rows, g, window)
    PROVE  Fit(less, h, window)
<1>1. Total(less, h) \in Nat /\ Total(rows, g) \in Nat
    BY TotalFinite
<1>2. Total(less, h) <= Total(rows, g)
    BY TotalFalls
<1> QED BY <1>1, <1>2, CapsAreMoney DEF Fit

(* So does one that grows by what its package still has.                    *)
LEMMA FitGrows ==
    ASSUME NEW rows \in SUBSET Call, NEW c \in Call, NEW more \in SUBSET (rows \cup {c}),
           NEW window \in Window, NEW g \in [Call -> Nat], NEW h \in [Call -> Nat],
           NEW n \in Nat, NEW t \in Tier,
           \A k \in more \ {c} : h[k] <= g[k], h[c] <= n,
           Total(rows, g) + n <= Cap[t][window]
    PROVE  Fit(more, h, window)
<1>1. Total(more, h) \in Nat /\ Total(rows, g) \in Nat
    BY TotalFinite
<1>2. Total(more, h) <= Total(rows, g) + n
    BY TotalGrows
<1> QED BY <1>1, <1>2, CapsAreMoney DEF Fit

(* Parts are amounts after a step too.                                     *)
LEMMA PartsTypedNext ==
    ASSUME TypeOK'
    PROVE  Parts' \in [Call -> Nat]
<1>1. \A c \in Call : row'[c].cost \in Nat /\ row'[c].model \in Model
    BY DEF TypeOK, UsageRow
<1>2. \A c \in Call : EstimateFor(c, row[c].model)' \in Nat
  <2>1. \A m, n \in Nat : m * n \in Nat
      OBVIOUS
  <2>2. \A model \in Model : Price[model] \in Nat /\ ToolRounds + 1 \in Nat
      BY BudgetAssumption
  <2> QED BY <1>1, <2>1, <2>2 DEF EstimateFor
<1>3. \A c \in Call : Foreseen(c)' \in Nat
    BY <1>1, <1>2 DEF Foreseen
<1> QED BY <1>3 DEF Parts

(* The sum of the foreseen parts after a step.                             *)
LEMMA UnitsAfter ==
    ASSUME NEW rows \in SUBSET Call
    PROVE  Cardinality(UNION {Units(c, Foreseen(c)') : c \in rows}) = Total(rows, Parts')
<1>1. \A c \in rows : Parts'[c] = Foreseen(c)'
    BY DEF Parts
<1>2. {Units(c, Foreseen(c)') : c \in rows} = {Units(c, Parts'[c]) : c \in rows}
    BY <1>1
<1> QED BY <1>2 DEF Total

(* The caps as sums over the rows.                                          *)
LEMMA WithinFits ==
    ASSUME WithinBudget
    PROVE  /\ \A month \in {Month[day] : day \in Day} :
                  /\ Fit(InMonth(month), Parts, "pool")
                  /\ \A u \in User : Fit(OfUser(u, InMonth(month)), Parts, "user")
                  /\ Fit(OnPremium(InMonth(month)), Parts, "premium")
           /\ \A day \in Day : Fit(OnDay(day), Parts, "day")
<1>1. \A month, u, day : /\ InMonth(month) \in SUBSET Call
                         /\ OfUser(u, InMonth(month)) \in SUBSET Call
                         /\ OnPremium(InMonth(month)) \in SUBSET Call
                         /\ OnDay(day) \in SUBSET Call
    BY DEF InMonth, OfUser, OnPremium, OnDay, Rows
<1> QED BY <1>1, AllowedFits DEF WithinBudget

(* The caps after a step, from sums over the rows.                         *)
LEMMA FitsWithin ==
    ASSUME \A month \in {Month[day] : day \in Day} :
               /\ Fit(InMonth(month)', Parts', "pool")
               /\ \A u \in User : Fit(OfUser(u, InMonth(month))', Parts', "user")
               /\ Fit(OnPremium(InMonth(month))', Parts', "premium"),
           \A day \in Day : Fit(OnDay(day)', Parts', "day")
    PROVE  WithinBudget'
<1>1. \A month, u, day : /\ InMonth(month)' \in SUBSET Call
                         /\ OfUser(u, InMonth(month))' \in SUBSET Call
                         /\ OnPremium(InMonth(month))' \in SUBSET Call
                         /\ OnDay(day)' \in SUBSET Call
    BY DEF InMonth, OfUser, OnPremium, OnDay, Rows
<1>2. ASSUME NEW month \in {Month[day] : day \in Day}
      PROVE  /\ Allowed(InMonth(month), "pool")'
             /\ \A u \in User : Allowed(OfUser(u, InMonth(month)), "user")'
             /\ Allowed(OnPremium(InMonth(month)), "premium")'
  <2>1. Allowed(InMonth(month), "pool")'
      BY <1>1, UnitsAfter DEF Fit, Allowed, ForeseenIn
  <2>2. ASSUME NEW u \in User
        PROVE  Allowed(OfUser(u, InMonth(month)), "user")'
      BY <1>1, UnitsAfter DEF Fit, Allowed, ForeseenIn
  <2>3. Allowed(OnPremium(InMonth(month)), "premium")'
      BY <1>1, UnitsAfter DEF Fit, Allowed, ForeseenIn
  <2> QED BY <2>1, <2>2, <2>3
<1>3. ASSUME NEW day \in Day
      PROVE  Allowed(OnDay(day), "day")'
    BY <1>1, UnitsAfter DEF Fit, Allowed, ForeseenIn
<1> QED BY <1>2, <1>3 DEF WithinBudget

(* The rows of every window before and after a step that leaves no row      *)
(* dearer than foreseen and writes none.                                    *)
LEMMA CapsKept ==
    ASSUME TypeOK, TypeOK', WithinBudget,
           Rows' = Rows,
           \A k \in Rows : /\ row'[k].day = row[k].day
                           /\ row'[k].user = row[k].user
                           /\ row'[k].model = row[k].model
                           /\ Parts'[k] <= Parts[k]
    PROVE  WithinBudget'
<1>1. Parts \in [Call -> Nat] /\ Parts' \in [Call -> Nat]
    BY PartsOfCosts, PartsTypedNext
<1>2. \A month, u, day :
          /\ InMonth(month) \in SUBSET Call
          /\ InMonth(month)' = InMonth(month)
          /\ OfUser(u, InMonth(month))' = OfUser(u, InMonth(month))
          /\ OnPremium(InMonth(month))' = OnPremium(InMonth(month))
          /\ OnDay(day)' = OnDay(day)
    BY DEF InMonth, OfUser, OnPremium, OnDay, Rows
<1>3. \A month, u, day :
          /\ InMonth(month) \in SUBSET Rows
          /\ OfUser(u, InMonth(month)) \in SUBSET Rows
          /\ OnPremium(InMonth(month)) \in SUBSET Rows
          /\ OnDay(day) \in SUBSET Rows
    BY DEF InMonth, OfUser, OnPremium, OnDay
<1>4. ASSUME NEW rows \in SUBSET Rows, NEW window \in Window, Fit(rows, Parts, window)
      PROVE  Fit(rows, Parts', window)
  <2>1. rows \in SUBSET Call /\ \A k \in rows : Parts'[k] <= Parts[k]
      BY DEF Rows
  <2> QED BY <1>1, <1>4, <2>1, FitFalls
<1>5. {"pool", "user", "premium", "day"} \subseteq Window
    BY DEF Window
<1> QED BY <1>2, <1>3, <1>4, <1>5, WithinFits, FitsWithin

(* What a row keeps of its estimate falls when it is corrected, closed or   *)
(* left alone.                                                              *)
LEMMA PartsFall ==
    ASSUME TypeOK, TypeOK',
           \A k \in Rows : /\ row'[k].model = row[k].model
                           /\ call'[k].path = call[k].path
                           /\ \/ row'[k].cost = row[k].cost
                              \/ row'[k].cost = 0
                              \/ row[k].cost = EstimateFor(k, row[k].model)
    PROVE  \A k \in Rows : Parts'[k] <= Parts[k]
<1> SUFFICES ASSUME NEW k \in Rows
             PROVE  Foreseen(k)' <= Foreseen(k)
    BY DEF Parts, Rows
<1>1. /\ k \in Call /\ row[k].cost \in Nat /\ row'[k].cost \in Nat
      /\ row[k].model \in Model
    BY DEF Rows, TypeOK, UsageRow
<1>2. EstimateFor(k, row[k].model) \in Nat
    BY <1>1, EstimateIsMoney
<1>3. EstimateFor(k, row[k].model)' = EstimateFor(k, row[k].model)
    BY DEF EstimateFor
<1> QED BY <1>1, <1>2, <1>3 DEF Foreseen

(* Every step but a reservation keeps the rows and makes none dearer.       *)
LEMMA OtherStepsKeepCaps ==
    ASSUME IInv, Bookkeeping', [Next]_vars,
           ~ \E c \in Call, model \in Model, day \in Day : Reserve(c, model, day)
    PROVE  WithinBudget'
<1>1. /\ TypeOK /\ RowsOfCalls /\ HoldsEstimate /\ WithinBudget /\ TypeOK'
    BY DEF IInv, Bookkeeping
<1> SUFFICES /\ Rows' = Rows
             /\ \A k \in Rows : /\ row'[k].day = row[k].day
                                /\ row'[k].user = row[k].user
                                /\ row'[k].model = row[k].model
                                /\ call'[k].path = call[k].path
                                /\ \/ row'[k].cost = row[k].cost
                                   \/ row'[k].cost = 0
                                   \/ row[k].cost = EstimateFor(k, row[k].model)
    BY <1>1, PartsFall, CapsKept
<1>2. \A k \in Call : row[k] \in UsageRow /\ call[k] \in Request
    BY <1>1 DEF TypeOK
<1>3. ASSUME NEW c \in Call, NEW u \in User, NEW path \in Path, NEW wanted \in BOOLEAN,
             Ask(c, u, path, wanted)
      PROVE  row' = row /\ \A k \in Rows : call'[k].path = call[k].path
  <2>1. c \notin Rows
      BY <1>1, <1>3 DEF RowsOfCalls, Ask
  <2> QED BY <1>1, <2>1, <1>3 DEF Ask, TypeOK, Rows
<1>4. ASSUME NEW c \in Call, Refuse(c) \/ SaveSummary(c) \/ Lost(c)
      PROVE  row' = row /\ \A k \in Rows : call'[k].path = call[k].path
  <2>1. row' = row /\ call' = Ended(c)
      BY <1>4 DEF Refuse, SaveSummary, Lost
  <2>2. Ended(c)[c].path = call[c].path /\ \A k \in Call \ {c} : Ended(c)[k] = call[k]
      BY <1>1 DEF Ended, NotAsked, TypeOK
  <2> QED BY <2>1, <2>2 DEF Rows
<1>5. ASSUME NEW c \in Call, Rejects(c) \/ SummaryFails(c)
      PROVE  row' = row /\ \A k \in Rows : call'[k].path = call[k].path
    BY <1>1, <1>2, <1>5 DEF Rejects, SummaryFails, At, TypeOK, Request, Rows
<1>6. ASSUME NEW c \in Call, NEW last \in BOOLEAN, NEW money \in Bill(c),
             Answer(c, money, last) \/ TimesOut(c, money)
      PROVE  row' = row /\ \A k \in Rows : call'[k].path = call[k].path
    BY <1>1, <1>2, <1>6 DEF Answer, TimesOut, TypeOK, Request, Rows
<1>7. ASSUME NEW c \in Call, Settle(c)
      PROVE  /\ \A k \in Rows : call'[k].path = call[k].path
             /\ \A k \in Call \ {c} : row'[k] = row[k]
             /\ row'[c].status # "none" /\ row[c].status # "none"
             /\ row'[c].day = row[c].day /\ row'[c].user = row[c].user
             /\ row'[c].model = row[c].model
             /\ row[c].cost = EstimateFor(c, row[c].model)
  <2>1. \A k \in Rows : call'[k].path = call[k].path
      BY <1>1, <1>2, <1>7 DEF Settle, At, Ended, NotAsked, TypeOK, Request, Rows
  <2>2. /\ row'[c] = [row[c] EXCEPT !.status = "SETTLED", !.cost = call[c].used]
        /\ \A k \in Call \ {c} : row'[k] = row[k]
      BY <1>1, <1>7 DEF Settle, TypeOK
  <2>3. c \in Rows /\ row[c].cost = EstimateFor(c, row[c].model)
      BY <1>1, <1>7 DEF RowsOfCalls, HoldsEstimate, Settle
  <2> QED BY <1>2, <2>1, <2>2, <2>3 DEF UsageRow, Rows
<1>8. ASSUME NEW c \in Call, Fail(c)
      PROVE  /\ \A k \in Rows : call'[k].path = call[k].path
             /\ \A k \in Call \ {c} : row'[k] = row[k]
             /\ row'[c].status # "none" /\ row[c].status # "none"
             /\ row'[c].day = row[c].day /\ row'[c].user = row[c].user
             /\ row'[c].model = row[c].model
             /\ row'[c].cost = 0 \/ row[c].cost = EstimateFor(c, row[c].model)
  <2>1. \A k \in Rows : call'[k].path = call[k].path
      BY <1>1, <1>2, <1>8 DEF Fail, Ended, NotAsked, TypeOK, Request, Rows
  <2>2. /\ row'[c] = [row[c] EXCEPT !.status = "FAILED", !.cost = CostOfFailure(c)]
        /\ \A k \in Call \ {c} : row'[k] = row[k]
      BY <1>1, <1>8 DEF Fail, TypeOK
  <2>3. c \in Rows /\ (call[c].path # "summary" => row[c].cost = EstimateFor(c, row[c].model))
      BY <1>1, <1>8 DEF RowsOfCalls, HoldsEstimate, Fail
  <2>4. call[c].path = "summary" => CostOfFailure(c) = 0
      BY DEF CostOfFailure
  <2> QED BY <1>2, <2>1, <2>2, <2>3, <2>4 DEF UsageRow, Rows
<1>9. ASSUME NEW c \in Call, Reap(c)
      PROVE  /\ call' = call
             /\ \A k \in Call \ {c} : row'[k] = row[k]
             /\ row'[c].status # "none" /\ row[c].status # "none"
             /\ row'[c].day = row[c].day /\ row'[c].user = row[c].user
             /\ row'[c].model = row[c].model /\ row'[c].cost = row[c].cost
  <2>1. /\ row'[c] = [row[c] EXCEPT !.status = "FAILED"]
        /\ \A k \in Call \ {c} : row'[k] = row[k]
      BY <1>1, <1>9 DEF Reap, TypeOK
  <2> QED BY <1>2, <1>9, <2>1 DEF UsageRow, Reap
<1>10. ASSUME NextDay \/ ChangeTier \/ UNCHANGED vars
       PROVE  row' = row /\ call' = call
    BY <1>10 DEF NextDay, ChangeTier, vars
<1>11. ASSUME row' = row, \A k \in Rows : call'[k].path = call[k].path
       PROVE  /\ Rows' = Rows
              /\ \A k \in Rows : /\ row'[k].day = row[k].day
                                 /\ row'[k].user = row[k].user
                                 /\ row'[k].model = row[k].model
                                 /\ call'[k].path = call[k].path
                                 /\ row'[k].cost = row[k].cost
    BY <1>11 DEF Rows
<1>12. CASE \/ \E c \in Call, u \in User, path \in Path, wanted \in BOOLEAN :
                  Ask(c, u, path, wanted)
            \/ \E c \in Call : Refuse(c) \/ SaveSummary(c) \/ Lost(c)
            \/ \E c \in Call : Rejects(c) \/ SummaryFails(c)
            \/ \E c \in Call, last \in BOOLEAN : \E money \in Bill(c) :
                  Answer(c, money, last) \/ TimesOut(c, money)
            \/ NextDay \/ ChangeTier \/ UNCHANGED vars
    BY <1>3, <1>4, <1>5, <1>6, <1>10, <1>11, <1>12
<1>13. CASE \E c \in Call : Settle(c)
    BY <1>7, <1>13 DEF Rows
<1>14. CASE \E c \in Call : Fail(c)
    BY <1>8, <1>14 DEF Rows
<1>15. CASE \E c \in Call : Reap(c)
    BY <1>9, <1>15 DEF Rows
<1> QED BY <1>12, <1>13, <1>14, <1>15 DEF Next

(* A reservation adds its estimate to windows that have room for it: what   *)
(* it counted is no less than what the month and the day of its row hold.   *)
LEMMA ReserveKeepsCaps ==
    ASSUME IInv, TypeOK', NEW c \in Call, NEW model \in Model, NEW day \in Day,
           Reserve(c, model, day)
    PROVE  WithinBudget'
<1> DEFINE estimate == EstimateFor(c, model)
<1>1. TypeOK /\ RowsOfCalls /\ WithinBudget
    BY DEF IInv, Bookkeeping
<1>2. /\ call[c].step = "asking" /\ c \notin Rows /\ Fits(c, model)
      /\ call[c].day <= day
    BY <1>1 DEF Reserve, Chosen, RowsOfCalls
<1>3. /\ row'[c] = [status |-> "RESERVED", user |-> call[c].user, model |-> model,
                    cost |-> estimate, day |-> day]
      /\ \A k \in Call \ {c} : row'[k] = row[k]
      /\ \A k \in Call : call'[k].path = call[k].path
    BY <1>1 DEF Reserve, At, TypeOK, Request
<1>4. estimate \in Nat /\ tier \in Tier
    BY <1>1, EstimateIsMoney DEF TypeOK
<1>5. /\ Parts \in [Call -> Nat] /\ Parts' \in [Call -> Nat] /\ Costs \in [Call -> Nat]
      /\ \A k \in Call : Parts[k] <= Costs[k]
    BY <1>1, PartsOfCosts, PartsTypedNext
<1>6. \A k \in Call \ {c} : Parts'[k] = Parts[k]
    BY <1>3 DEF Parts, Foreseen, EstimateFor
<1>7. Parts'[c] <= estimate
    BY <1>3, <1>4 DEF Parts, Foreseen, EstimateFor
<1>8. Rows' = Rows \cup {c}
    BY <1>3 DEF Rows
<1> HIDE DEF estimate
<1>9. \A k \in Call \ {c} : Parts'[k] <= Parts[k] /\ Parts'[k] <= Costs[k]
    BY <1>5, <1>6
    (* A window counts the reservation (<1>10) or not (<1>11).               *)
<1>10. ASSUME NEW rows \in SUBSET Rows, NEW more \in SUBSET (rows \cup {c}),
              NEW window \in Window, Spend(rows) + estimate <= Cap[tier][window]
       PROVE  Fit(more, Parts', window)
  <2>1. rows \in SUBSET Call /\ \A k \in more \ {c} : Parts'[k] <= Costs[k]
      BY <1>9, <1>10 DEF Rows
  <2>2. Total(rows, Costs) + estimate <= Cap[tier][window]
      BY <1>10, <2>1, SumsAreTotals
  <2> QED BY <1>4, <1>5, <1>7, <2>1, <2>2, FitGrows
<1>11. ASSUME NEW rows \in SUBSET Rows, NEW window \in Window, Fit(rows, Parts, window)
       PROVE  Fit(rows, Parts', window)
  <2>1. rows \in SUBSET Call /\ \A k \in rows : Parts'[k] <= Parts[k]
      BY <1>2, <1>9 DEF Rows
  <2> QED BY <1>5, <1>11, <2>1, FitFalls
<1>12. \A d, e \in Day : d <= e => Month[d] <= Month[e]
    BY BudgetAssumption
<1>13. /\ call[c].day \in Day /\ \A k \in Rows : row[k].day \in Day
       /\ \A d \in Day : d \in Nat /\ Month[d] \in Nat
    BY <1>1, Days, BudgetAssumption DEF TypeOK, Request, UsageRow, Rows
<1>14. /\ InMonth(Month[day]) \subseteq SinceMonth(call[c].day)
       /\ OnDay(day) \subseteq SinceDay(call[c].day)
    BY <1>2, <1>4, <1>12, <1>13 DEF InMonth, OnDay, SinceMonth, SinceDay
<1>15. ASSUME NEW month
       PROVE  /\ month # Month[day] => InMonth(month)' = InMonth(month)
              /\ month = Month[day] => InMonth(month)' = InMonth(month) \cup {c}
              /\ InMonth(month) \subseteq Rows
    BY <1>2, <1>3, <1>8 DEF InMonth, Rows
<1>16. ASSUME NEW d
       PROVE  /\ d # day => OnDay(d)' = OnDay(d)
              /\ d = day => OnDay(d)' = OnDay(d) \cup {c}
              /\ OnDay(d) \subseteq Rows
    BY <1>2, <1>3, <1>8 DEF OnDay, Rows
<1>17. /\ Spend(SinceMonth(call[c].day)) + estimate <= Cap[tier]["pool"]
       /\ Spend(OfUser(call[c].user, SinceMonth(call[c].day))) + estimate <= Cap[tier]["user"]
       /\ Spend(SinceDay(call[c].day)) + estimate <= Cap[tier]["day"]
       /\ model = "premium" =>
              Spend(OnPremium(SinceMonth(call[c].day))) + estimate <= Cap[tier]["premium"]
    BY <1>2 DEF Fits, estimate
<1>18. SinceMonth(call[c].day) \subseteq Rows /\ SinceDay(call[c].day) \subseteq Rows
    BY DEF SinceMonth, SinceDay
<1>19. {"pool", "user", "premium", "day"} \subseteq Window
    BY DEF Window
<1>20. ASSUME NEW month \in {Month[d] : d \in Day}
       PROVE  Fit(InMonth(month)', Parts', "pool")
  <2>1. CASE month = Month[day]
      BY <1>10, <1>14, <1>15, <1>17, <1>18, <1>19, <2>1
  <2>2. CASE month # Month[day]
      BY <1>1, <1>11, <1>15, <1>19, <2>2, WithinFits
  <2> QED BY <2>1, <2>2
<1>21. ASSUME NEW month \in {Month[d] : d \in Day}, NEW u \in User
       PROVE  Fit(OfUser(u, InMonth(month))', Parts', "user")
  <2>1. CASE month = Month[day] /\ u = call[c].user
    <3>1. OfUser(u, InMonth(month))' \subseteq OfUser(u, SinceMonth(call[c].day)) \cup {c}
        BY <1>2, <1>3, <1>14, <1>15, <2>1 DEF OfUser, InMonth, Rows
    <3>2. OfUser(u, SinceMonth(call[c].day)) \subseteq Rows
        BY <1>18 DEF OfUser
    <3> QED BY <1>10, <1>17, <1>19, <2>1, <3>1, <3>2
  <2>2. CASE ~(month = Month[day] /\ u = call[c].user)
    <3>1. OfUser(u, InMonth(month))' = OfUser(u, InMonth(month))
        BY <1>2, <1>3, <1>15, <2>2 DEF OfUser, InMonth, Rows
    <3>2. OfUser(u, InMonth(month)) \subseteq Rows
        BY <1>15 DEF OfUser
    <3> QED BY <1>1, <1>11, <1>19, <3>1, <3>2, WithinFits
  <2> QED BY <2>1, <2>2
<1>22. ASSUME NEW month \in {Month[d] : d \in Day}
       PROVE  Fit(OnPremium(InMonth(month))', Parts', "premium")
  <2>1. CASE month = Month[day] /\ model = "premium"
    <3>1. OnPremium(InMonth(month))' \subseteq OnPremium(SinceMonth(call[c].day)) \cup {c}
        BY <1>2, <1>3, <1>14, <1>15, <2>1 DEF OnPremium, InMonth, Rows
    <3>2. OnPremium(SinceMonth(call[c].day)) \subseteq Rows
        BY <1>18 DEF OnPremium
    <3> QED BY <1>10, <1>17, <1>19, <2>1, <3>1, <3>2
  <2>2. CASE ~(month = Month[day] /\ model = "premium")
    <3>1. OnPremium(InMonth(month))' = OnPremium(InMonth(month))
        BY <1>2, <1>3, <1>15, <2>2 DEF OnPremium, InMonth, Rows
    <3>2. OnPremium(InMonth(month)) \subseteq Rows
        BY <1>15 DEF OnPremium
    <3> QED BY <1>1, <1>11, <1>19, <3>1, <3>2, WithinFits
  <2> QED BY <2>1, <2>2
<1>23. ASSUME NEW d \in Day
       PROVE  Fit(OnDay(d)', Parts', "day")
  <2>1. CASE d = day
      BY <1>10, <1>14, <1>16, <1>17, <1>18, <1>19, <2>1
  <2>2. CASE d # day
      BY <1>1, <1>11, <1>16, <1>19, <2>2, WithinFits
  <2> QED BY <2>1, <2>2
<1> QED BY <1>20, <1>21, <1>22, <1>23, FitsWithin

(* Nothing is spent at the start.                                          *)
LEMMA NothingSpent == Init => WithinBudget
<1> SUFFICES ASSUME Init
             PROVE  WithinBudget
    OBVIOUS
<1>1. Rows = {}
    BY DEF Init, NoRow, Rows
<1>2. \A month, u, day : /\ InMonth(month) = {} /\ OfUser(u, InMonth(month)) = {}
                         /\ OnPremium(InMonth(month)) = {} /\ OnDay(day) = {}
    BY <1>1 DEF InMonth, OfUser, OnPremium, OnDay
<1>3. ForeseenIn({}) = 0
    BY FS_EmptySet DEF ForeseenIn
<1>4. /\ tier \in Tier
      /\ \A window \in Window : Cap[tier][window] \in Nat
      /\ {"pool", "user", "premium", "day"} \subseteq Window
    BY CapsAreMoney DEF Init, Window
<1>5. \A window \in {"pool", "user", "premium", "day"} : Allowed({}, window)
    BY <1>3, <1>4 DEF Allowed
<1> QED BY <1>2, <1>5 DEF WithinBudget

----------------------------------------------------------------------------
(* The theorems                                                             *)

(* The invariant holds in every state.                                     *)
LEMMA BudgetHolds == Spec => []IInv
<1>1. Init => IInv
    BY BooksBegin, NothingSpent DEF IInv
<1>2. IInv /\ [Next]_vars => IInv'
  <2> SUFFICES ASSUME IInv, [Next]_vars
               PROVE  IInv'
      OBVIOUS
  <2>1. Bookkeeping'
      BY BooksKept DEF IInv
  <2>2. TypeOK'
      BY <2>1 DEF Bookkeeping
  <2>3. WithinBudget'
      BY <2>1, <2>2, ReserveKeepsCaps, OtherStepsKeepCaps
  <2> QED BY <2>1, <2>3 DEF IInv
<1> QED BY <1>1, <1>2, PTL DEF Spec

(* Rows, requests, bills and the clock keep their types.                    *)
THEOREM TypeCorrect == Spec => []TypeOK
<1>1. IInv => TypeOK
    BY DEF IInv, Bookkeeping
<1> QED BY <1>1, BudgetHolds, PTL

(* No month, day, member or premium model takes more than a package of the  *)
(* company allows, answers dearer than their estimate apart, however many   *)
(* reservations, corrections and changes of day, month or package meet.     *)
THEOREM CapsHold == Spec => []WithinBudget
<1>1. IInv => WithinBudget
    BY DEF IInv
<1> QED BY <1>1, BudgetHolds, PTL

(* What is billed for a single call is counted up to the estimate, and in   *)
(* full once the call is settled.                                           *)
THEOREM BillsAreCounted == Spec => []BilledIsCounted
<1>1. IInv => BilledIsCounted
  <2> SUFFICES ASSUME IInv, NEW c \in Rows, call[c].path = "single"
               PROVE  /\ \/ billed[c] <= row[c].cost
                         \/ Foreseen(c) = EstimateFor(c, row[c].model)
                      /\ row[c].status = "SETTLED" => row[c].cost = billed[c]
      BY DEF BilledIsCounted
  <2>1. /\ c \in Call /\ row[c].cost \in Nat /\ row[c].model \in Model /\ billed[c] \in Nat
        /\ call[c].step \in Steps
        /\ RowsOfCalls /\ HoldsEstimate /\ KnowsBill /\ Closed
      BY DEF IInv, Bookkeeping, TypeOK, UsageRow, Request, Rows
  <2>2. EstimateFor(c, row[c].model) \in Nat
      BY <2>1, EstimateIsMoney
  <2>3. \/ call[c].step \in {"calling", "answered", "failing"}
        \/ call[c].step = "over"
      BY <2>1 DEF Steps, RowsOfCalls
  <2>4. CASE call[c].step \in {"calling", "answered", "failing"}
      BY <2>1, <2>2, <2>4 DEF HoldsEstimate, Foreseen
  <2>5. CASE call[c].step = "over"
      BY <2>1, <2>2, <2>5 DEF Closed, Foreseen
  <2> QED BY <2>3, <2>4, <2>5
<1> QED BY <1>1, BudgetHolds, PTL

=============================================================================
