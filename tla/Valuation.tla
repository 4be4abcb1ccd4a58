----------------------------- MODULE Valuation ------------------------------
(***************************************************************************)
(* What recorded responses cost: the effective-dated schedules, the value  *)
(* of one response in dollars and in credits, and the totals of a report   *)
(* by day, project, model or task.                                         *)
(*                                                                         *)
(* Time is in minutes of 2026, rates in 1/10000 of a dollar or credit per  *)
(* million tokens, tokens in thousands, so that values are integers: the   *)
(* order of floating additions is not modelled.  A report grows by one     *)
(* response at a time, up to MaxRecords.                                   *)
(***************************************************************************)
EXTENDS Integers, SequencesExt, FiniteSetsExt

CONSTANTS Responses, MaxRecords

VARIABLE records   \* the responses of a report, in ledger order

-----------------------------------------------------------------------------
MonthStart == <<0, 31, 59, 90, 120, 151, 181, 212, 243, 273, 304, 334>>
Minutes == 1440
Date(month, day) == (MonthStart[month] + day - 1) * Minutes
Baseline == 0

(* The schedules: model, aliases, from when, and the rates of input,       *)
(* cached input, output and cache writes (-1: as input).                   *)
Bedrock(model, places, from, in, cached, out, write) ==
  <<"openai." \o model, {p \o "openai." \o model : p \in places}, from, in, cached, out, write>>

ApiSchedule == <<
  Bedrock("gpt-5.6-sol", {"us."}, Date(7, 13), 55000, 5500, 330000, 68750),
  Bedrock("gpt-5.6-terra", {"us.", "in."}, Date(7, 13), 27500, 2750, 165000, 34375),
  Bedrock("gpt-5.6-luna", {"us.", "in."}, Date(7, 13), 11000, 1100, 66000, 13750),
  Bedrock("gpt-5.6-sol", {"us."}, Date(8, 21), 44000, 4400, 220000, 55000),
  Bedrock("gpt-5.6-terra", {"us.", "in."}, Date(7, 30), 22000, 2200, 132000, 27500),
  Bedrock("gpt-5.6-luna", {"us.", "in."}, Date(7, 30), 2200, 220, 13200, 2750),
  <<"gpt-6.1-terra", {}, Date(10, 26), 10000, 500, 50000, 12500>>,
  <<"gpt-6.1-sol", {}, Date(9, 29), 20000, 1000, 100000, 25000>>,
  <<"gpt-6-sol", {}, Date(9, 22), 20000, 2000, 100000, 25000>>,
  <<"gpt-6-luna", {}, Date(9, 22), 1000, 100, 5000, 1250>>,
  <<"gpt-6-astra", {}, Date(9, 4), 100000, 10000, 500000, 125000>>,
  <<"gpt-5.6-sol", {"gpt-5.6"}, Date(6, 26), 50000, 5000, 300000, 62500>>,
  <<"gpt-5.6-terra", {}, Date(6, 26), 25000, 2500, 150000, 31250>>,
  <<"gpt-5.6-luna", {}, Date(6, 26), 10000, 1000, 60000, 12500>>,
  <<"gpt-5.6-terra", {}, Date(7, 31), 20000, 2000, 120000, 25000>>,
  <<"gpt-5.6-luna", {}, Date(7, 31), 2000, 200, 12000, 2500>>,
  <<"gpt-5.6-sol", {"gpt-5.6"}, Date(8, 22), 40000, 4000, 200000, 50000>>,
  <<"gpt-5.5", {}, Baseline, 50000, 5000, 300000, -1>>,
  <<"gpt-5.4-mini", {}, Baseline, 7500, 750, 45000, -1>>,
  <<"gpt-5.4", {}, Baseline, 25000, 2500, 150000, -1>>,
  <<"gpt-5.3-codex", {}, Baseline, 17500, 1750, 140000, -1>>,
  <<"gpt-5.3", {}, Baseline, 17500, 1750, 140000, -1>> >>

(* Long requests are priced apart up to here in the schedule. *)
LongContext(entry) == entry[3] # Baseline

AutoReview == "codex-auto-review"
AutoReviewFreeFrom == Date(10, 6) + 7 * 60 + 14

CreditSchedule == <<
  <<"gpt-6.1-terra", {}, Date(10, 26), 250000, 12500, 1250000, -1>>,
  <<AutoReview, {}, AutoReviewFreeFrom, 0, 0, 0, -1>>,
  <<"gpt-6.1-sol", {}, Date(9, 29), 500000, 25000, 2500000, -1>>,
  <<"gpt-6-sol", {}, Date(9, 22), 500000, 50000, 2500000, -1>>,
  <<"gpt-6-luna", {}, Date(9, 22), 25000, 2500, 125000, -1>>,
  <<"gpt-6-astra", {}, Date(9, 4), 2500000, 250000, 12500000, -1>>,
  <<"gpt-5.6-sol", {"gpt-5.6"}, Date(7, 9), 1250000, 125000, 7500000, -1>>,
  <<"gpt-5.6-terra", {}, Date(7, 9), 625000, 62500, 3750000, -1>>,
  <<"gpt-5.6-luna", {}, Date(7, 9), 250000, 25000, 1500000, -1>>,
  <<"gpt-5.6-sol", {"gpt-5.6"}, Date(9, 4), 1000000, 100000, 5000000, -1>>,
  <<"gpt-5.6-terra", {}, Date(9, 4), 500000, 50000, 3000000, -1>>,
  <<"gpt-5.6-luna", {}, Date(9, 4), 50000, 5000, 300000, -1>>,
  <<"gpt-5.5", {}, Baseline, 1250000, 125000, 7500000, -1>>,
  <<"gpt-5.4-mini", {}, Baseline, 187500, 18750, 1130000, -1>>,
  <<"gpt-5.4", {}, Baseline, 625000, 62500, 3750000, -1>>,
  <<"gpt-5.3-codex", {}, Baseline, 437500, 43750, 3500000, -1>>,
  <<"gpt-5.2", {}, Baseline, 437500, 43750, 3500000, -1>> >>

(* _compiled_schedule: the entries that name a model, in order of time. *)
Names(entry) == {entry[1]} \cup entry[2]
Timeline(schedule, model) ==
  SortSeq(SelectSeq(schedule, LAMBDA e : model \in Names(e)), LAMBDA a, b : a[3] < b[3])

(* Mutant: bisect_left, an entry counts from the minute after. *)
MutEntryAt(schedule, model, at) ==
  LET line == Timeline(schedule, model)
      index == Cardinality({i \in DOMAIN line : line[i][3] < at})
  IN IF index = 0 THEN <<>> ELSE <<line[index]>>

(* _entry_at: bisect_right.  No entry is the empty sequence. *)
EntryAt(schedule, model, at) ==
  LET line == Timeline(schedule, model)
      index == Cardinality({i \in DOMAIN line : line[i][3] <= at})
  IN IF index = 0 THEN <<>> ELSE <<line[index]>>

IsIncluded(model, at) == model = AutoReview /\ at >= AutoReviewFreeFrom

-----------------------------------------------------------------------------
(* A response: model, at, project, task and its tokens. *)
Parts == {"ordinary", "cached", "write", "output"}
Threshold == 272

Tokens(r) == [part \in Parts |->
  CASE part = "ordinary" -> Max({0, r.input - r.cached - r.write})
    [] part = "cached" -> r.cached
    [] part = "write" -> r.write
    [] part = "output" -> r.output]

Rate(entry) == [part \in Parts |->
  CASE part = "ordinary" -> entry[4]
    [] part = "cached" -> entry[5]
    [] part = "write" -> IF entry[7] = -1 THEN entry[4] ELSE entry[7]
    [] part = "output" -> entry[6]]

(* rate_for_usage: a long request pays twice for input, half more for output. *)
RateFor(entry, r) ==
  IF LongContext(entry) /\ r.input > Threshold
    THEN [part \in Parts |-> IF part = "output" THEN (3 * Rate(entry)[part]) \div 2
                                                ELSE 2 * Rate(entry)[part]]
    ELSE Rate(entry)

Nothing == [part \in Parts |-> 0]
Priced(r, rate) == [amount |-> [part \in Parts |-> (Tokens(r)[part] * rate[part]) \div 1000],
                    unpriced |-> Nothing, unpricedTotal |-> 0]

(* Mutant: the tokens written to the cache are in no unpriced component.  *)
MutUnpriced(r) == [amount |-> Nothing, unpriced |-> [Tokens(r) EXCEPT !["write"] = 0],
                   unpricedTotal |-> r.total]
Unpriced(r) == [amount |-> Nothing, unpriced |-> Tokens(r), unpricedTotal |-> r.total]

(* Credits know no long context, and count a cache write as input. *)
CreditRate(entry) == [Rate(entry) EXCEPT !["write"] = entry[4]]

Cost(r) == LET e == EntryAt(ApiSchedule, r.model, r.at) IN
           IF e = <<>> THEN Unpriced(r) ELSE Priced(r, RateFor(e[1], r))
Credits(r) == LET e == EntryAt(CreditSchedule, r.model, r.at) IN
              IF e = <<>> THEN Unpriced(r) ELSE Priced(r, CreditRate(e[1]))

(* Totals, component by component. *)
AddParts(a, b) == [part \in Parts |-> a[part] + b[part]]
AddBreakdown(a, b) == [amount |-> AddParts(a.amount, b.amount),
                       unpriced |-> AddParts(a.unpriced, b.unpriced),
                       unpricedTotal |-> a.unpricedTotal + b.unpricedTotal]
NoBreakdown == [amount |-> Nothing, unpriced |-> Nothing, unpricedTotal |-> 0]
NoSummary == [tokens |-> Nothing, total |-> 0, cost |-> NoBreakdown, credits |-> NoBreakdown,
              count |-> 0]

Value(r) == [tokens |-> Tokens(r), total |-> r.total, cost |-> Cost(r), credits |-> Credits(r),
             count |-> 1]

AddSummary(a, b) ==
  [tokens |-> AddParts(a.tokens, b.tokens), total |-> a.total + b.total,
   cost |-> AddBreakdown(a.cost, b.cost), credits |-> AddBreakdown(a.credits, b.credits),
   count |-> a.count + b.count]

Summarize(s) == FoldLeft(LAMBDA sum, r : AddSummary(sum, Value(r)), NoSummary, s)

Groups == {"day", "hour", "project", "model", "session"}
BucketKey(r, group) ==
  CASE group = "day" -> r.at \div Minutes
    [] group = "hour" -> r.at \div 60
    [] group = "project" -> r.project
    [] group = "model" -> r.model
    [] group = "session" -> r.session

Aggregate(s, group) ==
  [key \in {BucketKey(s[i], group) : i \in DOMAIN s} |->
     Summarize(SelectSeq(s, LAMBDA r : BucketKey(r, group) = key))]

-----------------------------------------------------------------------------
InitValuation == records = <<>>

Record(r) ==
  /\ Len(records) < MaxRecords
  /\ records' = Append(records, r)

NextValuation == \E r \in Responses : Record(r)

-----------------------------------------------------------------------------
(* Properties. *)

(* However a report is grouped, its rows add up to its summary, and every  *)
(* token of it is counted once: priced, or unpriced, in dollars and in     *)
(* credits (aggregate_valued_records, value_records, SummaryAccumulator).  *)
RowSum(rows) == MapThenFoldSet(AddSummary, NoSummary, LAMBDA k : rows[k],
                               LAMBDA S : CHOOSE x \in S : TRUE, DOMAIN rows)
EveryTokenIsValuedOnce ==
  LET whole == Summarize(records)
      known(schedule) == SelectSeq(records, LAMBDA r : EntryAt(schedule, r.model, r.at) # <<>>)
  IN
  /\ \A group \in Groups : RowSum(Aggregate(records, group)) = whole
  /\ AddParts(whole.cost.unpriced, Summarize(known(ApiSchedule)).tokens) = whole.tokens
  /\ AddParts(whole.credits.unpriced, Summarize(known(CreditSchedule)).tokens) = whole.tokens

(* A response costs what was announced for its day.  An alias always costs *)
(* like its model; a price that was lowered is the lower one from its      *)
(* first minute on; a response is free in credits exactly while its model  *)
(* is included in the subscription; no part of a long request costs less   *)
(* than it would in a short one (pricing, subscription_usage).             *)
PriceOfItsDay ==
  \A r \in ToSet(records) :
    LET sol == [r EXCEPT !.model = "gpt-5.6-sol"]
        alias == [r EXCEPT !.model = "gpt-5.6"]
        announced(schedule) == {e \in ToSet(schedule) : r.model \in Names(e) /\ e[3] <= r.at}
    IN
    /\ Cost(alias) = Cost(sol) /\ Credits(alias) = Credits(sol)
    /\ Cost(r).unpriced = (IF announced(ApiSchedule) = {} THEN Tokens(r) ELSE Nothing)
    /\ \A e \in announced(ApiSchedule), part \in Parts :
         Cost(r).amount[part] <= Priced(r, RateFor(e, r)).amount[part]
    /\ IsIncluded(r.model, r.at) =
         (announced(CreditSchedule) # {} /\ Credits(r) = NoBreakdown)
    /\ \A part \in Parts :
         r.input > Threshold =>
           Cost(r).amount[part] >= Cost([r EXCEPT !.input = Threshold]).amount[part]

=============================================================================
