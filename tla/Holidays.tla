------------------------------- MODULE Holidays -------------------------------
(***************************************************************************)
(* The rules that name the public holidays, and the days on which they are *)
(* observed.  Observances are entered by hand, generated for a year by the *)
(* Go code, one statement each, or by the trigger on academic_periods,     *)
(* which runs fn_materialise_holidays inside the INSERT of the period.     *)
(* The Go code works through its rules in the order of their list; here    *)
(* they may come in any order.                                             *)
(*                                                                         *)
(* 0 stands for NULL in the fields of a rule, NoDate for no date, "*" for  *)
(* the whole nation.                                                       *)
(***************************************************************************)
EXTENDS Calendar, FiniteSets

CONSTANTS
    YearsShown,     \* the years the page may show
    RuleForms,      \* what the form of a rule may hold
    HandForms,      \* what the form of an observance may hold
    Generators,     \* bound: "generate" requests under way at once
    MaxRules,       \* bound: the rules that are ever created
    MaxPeriods,     \* bound: the academic periods that are created
    MaxEdits        \* bound: what is changed, deleted or entered by hand

Recurrences == {"ONCE", "ANNUAL_FIXED", "ANNUAL_NTH_DOW", "ANNUAL_EASTER_OFFSET"}

\* A row of holiday_observances has these columns.
ObservanceColumns == {"date", "name", "state", "rule", "substitute"}

\* The page takes a year that is a positive number, or the current one.
ASSUME HolidaysAssumption ==
    /\ MaxRules \in Nat /\ MaxPeriods \in Nat /\ MaxEdits \in Nat
    /\ YearsShown \subseteq Nat \ {0}
    /\ \A r \in RuleForms : r.fixed \in Int /\ r.offset \in Int
    /\ \A f \in HandForms : DOMAIN f = ObservanceColumns

VARIABLES
    year,           \* the year the page shows, which is never changed
    rules,          \* holiday_rules: id -> row
    lastRule,       \* the sequence of their ids
    observances,    \* holiday_observances
    generating,     \* the "generate" requests under way
    periods,        \* the academic periods of the year that were created
    edits,          \* the edits so far
    settled         \* history: nothing has changed since the last of them

holidaysVars == <<year, rules, lastRule, observances, generating, periods, edits, settled>>

Free == [busy |-> FALSE, todo |-> {}, disturbed |-> FALSE]

HolidaysInit ==
    /\ rules = [r \in {} |-> 0]
    /\ lastRule = 0
    /\ observances = {}
    /\ generating = [g \in Generators |-> Free]
    /\ periods = 0
    /\ edits = 0
    /\ settled = FALSE

-----------------------------------------------------------------------------
(* Rows                                                                    *)

\* chk_holiday_recurrence, chk_holiday_rule_shape: a field that is NULL makes
\* its line false or unknown, and an Easter offset of 0 was stored as NULL.
Shaped(r) ==
    CASE r.recurrence = "ONCE" -> r.fixed # NoDate
      [] r.recurrence = "ANNUAL_FIXED" -> r.month \in 1 .. 12 /\ r.day \in 1 .. 31
      [] r.recurrence = "ANNUAL_NTH_DOW" ->
            r.month \in 1 .. 12 /\ r.weekday \in 1 .. 7 /\ r.nth \in {-1} \cup 1 .. 5
      [] r.recurrence = "ANNUAL_EASTER_OFFSET" -> r.offset # 0
      [] OTHER -> FALSE

\* uq_observance
SameDay(o, p) == o.date = p.date /\ o.state = p.state /\ o.name = p.name

\* INSERT ... ON CONFLICT DO NOTHING
Added(S, o) == IF \E p \in S : SameDay(o, p) THEN S ELSE S \cup {o}

\* Mutant: without the foreign key.
AnyRule(o) == o.rule \in Nat

\* The foreign key to holiday_rules
RuleThere(o) == o.rule = 0 \/ o.rule \in DOMAIN rules

Observance(date, name, suffix, state, rule, substitute) ==
    [date |-> date, name |-> <<name, suffix>>, state |-> state, rule |-> rule,
     substitute |-> substitute]

\* Whoever generates has read the rules, and counts on what was inserted.
Disturb ==
    generating' = [g \in Generators |->
        IF generating[g].busy THEN [generating[g] EXCEPT !.disturbed = TRUE] ELSE generating[g]]

Edit == edits < MaxEdits /\ edits' = edits + 1

-----------------------------------------------------------------------------
(* The rules                                                               *)

\* A name and a recurrence are required; the database checks the rest.
Fillable(r) == r.name # "" /\ r.recurrence # ""

CreateHolidayRule(r) ==
    /\ Shaped(r) /\ lastRule < MaxRules
    /\ lastRule' = lastRule + 1
    /\ rules' = [i \in DOMAIN rules \cup {lastRule + 1} |-> IF i = lastRule + 1 THEN r ELSE rules[i]]
    /\ UNCHANGED observances
UpdateHolidayRule(i, r) ==
    /\ Shaped(r)
    /\ rules' = [rules EXCEPT ![i] = r]
    /\ UNCHANGED <<lastRule, observances>>
\* ON DELETE CASCADE
DeleteHolidayRule(i) ==
    /\ rules' = [j \in DOMAIN rules \ {i} |-> rules[j]]
    /\ observances' = {o \in observances : o.rule # i}
    /\ UNCHANGED lastRule

AdminExceptionRuleCreate ==
    /\ \E r \in RuleForms : Fillable(r) /\ CreateHolidayRule(r)
    /\ Disturb /\ settled' = FALSE
    /\ UNCHANGED <<year, periods, edits>>
AdminExceptionRuleUpdate ==
    /\ \E i \in DOMAIN rules, r \in RuleForms : Fillable(r) /\ UpdateHolidayRule(i, r)
    /\ Edit /\ Disturb /\ settled' = FALSE
    /\ UNCHANGED <<year, periods>>
AdminExceptionRuleDelete ==
    /\ \E i \in DOMAIN rules : DeleteHolidayRule(i)
    /\ Edit /\ Disturb /\ settled' = FALSE
    /\ UNCHANGED <<year, periods>>

-----------------------------------------------------------------------------
(* Observances entered by hand                                             *)

CreateHolidayObservance(o) == RuleThere(o) /\ observances' = Added(observances, o)
UpdateHolidayObservance(o, f) ==
    LET p == [o EXCEPT !.date = f.date, !.name = f.name, !.state = f.state, !.substitute = f.substitute]
    IN  /\ \A q \in observances \ {o} : ~ SameDay(p, q)
        /\ observances' = (observances \ {o}) \cup {p}
DeleteHolidayObservance(o) == observances' = observances \ {o}

AdminExceptionObservanceCreate ==
    /\ \E f \in HandForms : CreateHolidayObservance(f)
    /\ Edit /\ settled' = FALSE
    /\ UNCHANGED <<year, rules, lastRule, generating, periods>>
AdminExceptionObservanceUpdate ==
    /\ \E o \in observances, f \in HandForms : UpdateHolidayObservance(o, f)
    /\ Edit /\ Disturb /\ settled' = FALSE
    /\ UNCHANGED <<year, rules, lastRule, periods>>
AdminExceptionObservanceDelete ==
    /\ \E o \in observances : DeleteHolidayObservance(o)
    /\ Edit /\ Disturb /\ settled' = FALSE
    /\ UNCHANGED <<year, rules, lastRule, periods>>

-----------------------------------------------------------------------------
(* GenerateObservancesForYear                                              *)

Active(r, y) == (r.from > 0 => y >= r.from) /\ (r.to > 0 => y <= r.to)

\* A day that the month does not have is a day of the next month.
GoRuleDate(r, y) ==
    CASE r.recurrence = "ONCE" -> IF r.fixed # NoDate /\ InYear(r.fixed, y) THEN r.fixed ELSE NoDate
      [] r.recurrence = "ANNUAL_FIXED" -> GoDate(y, r.month, r.day)
      [] r.recurrence = "ANNUAL_NTH_DOW" -> nthWeekdayOfMonth(y, r.month, r.weekday, r.nth)
      [] r.recurrence = "ANNUAL_EASTER_OFFSET" -> computeEaster(y) + r.offset

GoRows(i, r, y) ==
    LET date == GoRuleDate(r, y)
        sub == substituteDate(date)
    IN  IF ~ Active(r, y) \/ date = NoDate THEN {}
        ELSE {Observance(date, r.name, "", r.state, i, FALSE)} \cup
             (IF r.substitute /\ sub # date
              THEN {Observance(sub, r.name, "Substitute", r.state, i, TRUE)} ELSE {})

\* A year before 2000 is refused.  The rules are read in one statement; each
\* insert is another one.
AdminExceptionGenerate(g) ==
    /\ ~ generating[g].busy /\ year >= 2000
    /\ generating' = [generating EXCEPT ![g] =
          [busy |-> TRUE, disturbed |-> FALSE,
           todo |-> UNION {GoRows(i, rules[i], year) : i \in DOMAIN rules}]]
    /\ UNCHANGED <<year, rules, lastRule, observances, periods, edits, settled>>

\* The next rule's day, or the substitute for the day just inserted.
NextRows(todo) ==
    LET begun == {o \in todo : o.substitute /\ ~ \E p \in todo : p.rule = o.rule /\ ~ p.substitute}
    IN  IF begun = {} THEN {o \in todo : ~ o.substitute} ELSE begun

Generate(g) ==
    /\ \E o \in NextRows(generating[g].todo) :
          /\ CreateHolidayObservance(o)
          /\ generating' = [generating EXCEPT ![g].todo = @ \ {o}]
    /\ settled' = FALSE
    /\ UNCHANGED <<year, rules, lastRule, periods, edits>>

GenerateDone(g) ==
    /\ generating[g].busy /\ generating[g].todo = {}
    /\ generating' = [generating EXCEPT ![g] = Free]
    /\ UNCHANGED <<year, rules, lastRule, observances, periods, edits, settled>>

\* A statement fails, or its rule is gone: what was inserted stays.
GenerateFails(g) ==
    /\ generating[g].todo # {}
    /\ generating' = [generating EXCEPT ![g] = Free]
    /\ UNCHANGED <<year, rules, lastRule, observances, periods, edits, settled>>

-----------------------------------------------------------------------------
(* trg_materialise_holidays                                                *)

SqlRuleDate(r, y) ==
    CASE r.recurrence = "ONCE" -> IF InYear(r.fixed, y) THEN r.fixed ELSE NoDate
      [] r.recurrence = "ANNUAL_FIXED" -> SqlDate(y, r.month, r.day)
      [] r.recurrence = "ANNUAL_NTH_DOW" -> fn_nth_weekday(y, r.month, r.weekday, r.nth)
      [] r.recurrence = "ANNUAL_EASTER_OFFSET" -> computeEaster(y) + r.offset

\* make_date refuses a day that its month does not have: the period is not
\* created.
Computable == \A i \in DOMAIN rules : Active(rules[i], year) /\ rules[i].recurrence = "ANNUAL_FIXED"
                                        => SqlRuleDate(rules[i], year) # NoDate

\* WHILE EXISTS (...): the first day from date on that no observance of the
\* state has claimed.
FirstFree(S, date, state) ==
    LET Claimed(d) == \E o \in S : o.date = d /\ o.state = state
    IN  CHOOSE d \in date .. date + Cardinality(S) :
            ~ Claimed(d) /\ \A e \in date .. d - 1 : Claimed(e)

\* What the loop over the rules does for the rule i.
Materialise(S, i) ==
    LET r == rules[i]
        date == SqlRuleDate(r, year)
        plain == Added(S, Observance(date, r.name, "", r.state, i, FALSE))
        sub == FirstFree(plain, substituteDate(date), r.state)
    IN  IF ~ Active(r, year) \/ date = NoDate THEN S
        ELSE IF r.substitute /\ IsoWeekday(date) >= 6
        THEN Added(plain, Observance(sub, r.name, "observed", r.state, i, TRUE))
        ELSE plain

\* The SELECT has no order.
Orders == {q \in [1 .. Cardinality(DOMAIN rules) -> DOMAIN rules] :
              \A i \in DOMAIN rules : \E n \in DOMAIN q : q[n] = i}

PeriodCreated ==
    /\ periods < MaxPeriods /\ Computable
    /\ \E order \in Orders :
          LET After[n \in 0 .. Cardinality(DOMAIN rules)] ==
                  IF n = 0 THEN observances ELSE Materialise(After[n - 1], order[n])
          IN  observances' = After[Cardinality(DOMAIN rules)]
    /\ periods' = periods + 1
    /\ settled' = TRUE
    /\ UNCHANGED <<year, rules, lastRule, generating, edits>>

-----------------------------------------------------------------------------
HolidaysNext ==
    \/ AdminExceptionRuleCreate \/ AdminExceptionRuleUpdate \/ AdminExceptionRuleDelete
    \/ AdminExceptionObservanceCreate \/ AdminExceptionObservanceUpdate
    \/ AdminExceptionObservanceDelete
    \/ PeriodCreated
    \/ \E g \in Generators :
          AdminExceptionGenerate(g) \/ Generate(g) \/ GenerateDone(g) \/ GenerateFails(g)

HolidaysSpec == HolidaysInit /\ year \in YearsShown /\ [][HolidaysNext]_holidaysVars
-----------------------------------------------------------------------------
(* Properties                                                              *)

RightYears == {y \in YearsShown : EasterIsRight(y) /\ WeekdaysAgree(y)}

\* Easter is when the Church keeps it, and the Go code finds the weekdays of
\* the year's months that the database finds; where there is no fifth one, the
\* Go code takes the first of the next month.
CalendarIsRight == year \in RightYears

\* When "generate" answers, every rule has its observance of the year on the
\* day the database computes, and for a weekend one on the Monday after it,
\* unless a rule or an observance was changed or deleted meanwhile.  It may
\* share that Monday with another rule's: see SubstitutesApart.
GeneratedYearIsComplete ==
    [][\A g \in Generators :
          GenerateDone(g) /\ ~ generating[g].disturbed =>
            \A i \in DOMAIN rules :
                LET r == rules[i]
                    date == SqlRuleDate(r, year)
                    Kept(d) == \E o \in observances : o.date = d /\ o.name[1] = r.name /\ o.state = r.state
                IN  Active(r, year) /\ date # NoDate =>
                      /\ Kept(date)
                      /\ r.substitute /\ IsoWeekday(date) >= 6 =>
                            \E d \in date + 1 .. date + 2 : IsoWeekday(d) = 1 /\ Kept(d)]_holidaysVars

\* A rule that is deleted leaves no observance, and none is generated for it
\* by a request that read it before.
DeletedRuleLeavesNothing == \A o \in observances : o.rule = 0 \/ o.rule \in DOMAIN rules

\* A substitute is for "the next free weekday", bumped "past any day already
\* claimed for this state (e.g. Christmas + Boxing Day overlap)": no two rules
\* give one state its substitutes on one date.
SubstitutesApart ==
    \A o, p \in observances :
        (o.substitute /\ p.substitute /\ o.state = p.state /\ o.date = p.date)
            => o.rule = p.rule

\* A second academic period in the year is harmless: the trigger observes
\* nothing more when nothing has changed since it ran.
SecondPeriodIsHarmless == [][PeriodCreated /\ settled => observances' = observances]_holidaysVars
=============================================================================
