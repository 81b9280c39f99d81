----------------------------- MODULE Countdowns -----------------------------
(***************************************************************************)
(* The countdowns (countdown/store.ts): entries with a date that may come  *)
(* round every year or month, the day count of each towards today, the     *)
(* order of the page and the few that the morning card names.              *)
(*                                                                         *)
(* A date is a year, a month and a day of a small calendar; its order is   *)
(* that of the code's strings.  Titles are left out.                       *)
(***************************************************************************)
EXTENDS Integers, FiniteSets, FiniteSetsExt

CONSTANTS
  Ids,
  Years, Months,  \* 1 .. so many
  Length(_, _),   \* days of a month in a year
  Horizon, Limit, \* CARD_HORIZON_DAYS, CARD_LIMIT
  Inputs,         \* what a client may send, see Save
  FirstDays,         \* the days the first day may be; the last year lies behind them
  LastDay,        \* bound: how many days pass
  Writes          \* bound: how often the user saves or deletes

VARIABLES
  items,   \* the file
  today,
  passed,  \* how many days have passed
  asked,   \* what the user last asked each entry to be
  spent    \* writes so far

vars == <<items, today, passed, asked, spent>>

(***************************************************************************)
(* The calendar                                                            *)
(***************************************************************************)
Dates == {d \in (1 .. Years) \X (1 .. Months) \X (1 .. Max({Length(y, m) : y \in 1 .. Years, m \in 1 .. Months})) :
            d[3] <= Length(d[1], d[2])}
Key(d) == 10000 * d[1] + 100 * d[2] + d[3]
Before(a, b) == Key(a) < Key(b)
Since == [d \in Dates |-> Cardinality({e \in Dates : Before(e, d)})]

(* diffCalendarDays *)
Diff(from, to) == Since[to] - Since[from]
NoDate == <<0, 0, 0>>
NoItem == [date |-> NoDate, repeat |-> "none", since |-> FALSE, pinned |-> FALSE, note |-> FALSE, end |-> NoDate, lead |-> 0]

TypeOK ==
  /\ today \in Dates /\ passed \in 0 .. LastDay
  /\ \A i \in Ids : items[i] = NoItem \/ (items[i].date \in Dates /\ items[i].end \in Dates \cup {NoDate})

Init ==
  /\ items = [i \in Ids |-> NoItem] /\ asked = [i \in Ids |-> NoItem]
  /\ passed = 0 /\ today \in FirstDays /\ spent = 0

(***************************************************************************)
(* resolveCountdown                                                        *)
(***************************************************************************)
Day(y, m, d) == <<y, m, Min({d, Length(y, m)})>>  \* occurrenceInYear

Yearly(date) ==
  LET this == Day(today[1], date[2], date[3])
  IN  IF ~Before(this, today) THEN this ELSE Day(today[1] + 1, date[2], date[3])

(* Mutant of Monthly: the day of the anchor is not cut to the month. *)
MonthlyUncut(date) ==
  LET this == <<today[1], today[2], date[3]>>
  IN  IF ~Before(date, today) THEN date
      ELSE IF ~Before(this, today) THEN this
      ELSE IF today[2] = Months THEN Day(today[1] + 1, 1, date[3]) ELSE Day(today[1], today[2] + 1, date[3])

Monthly(date) ==
  LET this == Day(today[1], today[2], date[3])
  IN  IF ~Before(date, today) THEN date
      ELSE IF ~Before(this, today) THEN this
      ELSE IF today[2] = Months THEN Day(today[1] + 1, 1, date[3]) ELSE Day(today[1], today[2] + 1, date[3])

Occurrence(item) ==
  CASE item.repeat = "yearly" -> Yearly(item.date)
    [] item.repeat = "monthly" -> IF item.end # NoDate /\ Before(item.end, Monthly(item.date)) THEN item.end ELSE Monthly(item.date)
    [] OTHER -> item.date
DaysLeft(item) == Diff(today, Occurrence(item))

(***************************************************************************)
(* listCountdowns, cardCountdowns: the pinned first, then what comes, by   *)
(* how soon, then what has passed, by how recently; the card takes the     *)
(* first few of those it may name.                                         *)
(***************************************************************************)
There == {i \in Ids : items[i] # NoItem}
Distance(n) == IF n < 0 THEN -n ELSE n
Past(i) == IF DaysLeft(items[i]) < 0 THEN 1 ELSE 0
Ahead(i, j) ==
  IF items[i].pinned # items[j].pinned THEN items[i].pinned
  ELSE IF Past(i) # Past(j) THEN Past(i) < Past(j)
  ELSE Distance(DaysLeft(items[i])) < Distance(DaysLeft(items[j]))

Named(item) ==
  IF item.since THEN item.pinned
  ELSE DaysLeft(item) >= 0 /\ (item.pinned \/ DaysLeft(item) <= IF item.lead > 0 THEN item.lead ELSE Horizon)

(* Entries alike in all of this are in either order: a card is one of      *)
(* these sets.                                                             *)
Cards ==
  LET may == {i \in There : Named(items[i])}
  IN  {C \in SUBSET may : /\ Cardinality(C) = Min({Limit, Cardinality(may)})
                          /\ \A i \in C, j \in may \ C : ~Ahead(j, i)}

(***************************************************************************)
(* saveCountdown: what is sent wins; an end or a lead that is not sent     *)
(* stays as it was, and one that is empty is taken away; a note that is    *)
(* not sent is taken away.                                                 *)
(***************************************************************************)
Sent(field, old) == IF field.sent THEN field.value ELSE old

Written == spent < Writes /\ spent' = spent + 1 /\ UNCHANGED <<today, passed>>

Saved(old, in, note) ==
  [date |-> in.date, repeat |-> Sent(in.repeat, old.repeat), since |-> Sent(in.since, old.since),
   pinned |-> Sent(in.pinned, old.pinned), note |-> Sent(in.note, note),
   end |-> Sent(in.end, old.end), lead |-> Sent(in.lead, old.lead)]

Save(i, in) ==
  /\ Written
  /\ items' = [items EXCEPT ![i] = Saved(@, in, FALSE)]
  /\ asked' = [asked EXCEPT ![i] = Saved(@, in, @.note)]

(* deleteCountdown *)
Without(i) == [items EXCEPT ![i] = NoItem]

Delete(i) ==
  /\ Written /\ i \in There
  /\ items' = Without(i) /\ asked' = [asked EXCEPT ![i] = NoItem]

NextDay ==
  /\ passed < LastDay /\ passed' = passed + 1
  /\ today' = CHOOSE d \in Dates : Diff(today, d) = 1
  /\ UNCHANGED <<items, asked, spent>>

Next == (\E i \in Ids, in \in Inputs : Save(i, in)) \/ (\E i \in Ids : Delete(i)) \/ NextDay

Spec == Init /\ [][Next]_vars

(***************************************************************************)
(* Properties                                                              *)
(***************************************************************************)
(* All the days an entry falls on: from its date on, the same day of each  *)
(* month or year, or the last one of a month that is too short.            *)
Series(item) ==
  {o \in Dates : /\ ~Before(o, item.date)
                 /\ item.repeat # "none" => o[3] = Min({item.date[3], Length(o[1], o[2])})
                 /\ item.repeat = "yearly" => o[2] = item.date[2]
                 /\ item.repeat = "none" => o = item.date}
Coming(item) == {o \in Series(item) : ~Before(o, today)}
Soonest(S) == CHOOSE o \in S : \A p \in S : ~Before(p, o)

(* An entry that comes round points at the first of its days that is not   *)
(* past, whatever the lengths of the months: monthly from its date on,     *)
(* yearly once its first year has come, both as long as no end cuts them.  *)
PointsAtNext ==
  \A i \in There : LET item == items[i] IN
    item.repeat # "none" /\ item.end = NoDate /\ (item.repeat = "yearly" => item.date[1] <= today[1]) =>
      Occurrence(item) = Soonest(Coming(item))

(* A passed date that nobody deleted and nobody pinned does not stay on    *)
(* the card, and no entry is left out for a later one of its kind.         *)
CardTells ==
  \A C \in Cards : \A i \in C :
    /\ items[i].since \/ items[i].pinned \/ DaysLeft(items[i]) >= 0
    /\ \A j \in There \ C : /\ Named(items[j]) /\ items[i].pinned = items[j].pinned /\ Past(i) = Past(j)
                            => Distance(DaysLeft(items[i])) <= Distance(DaysLeft(items[j]))

(* "Pinning it keeps it; that is the deliberate act" (store.ts:281): a     *)
(* passed date that is pinned is on the card, if there is room; the code   *)
(* drops it before it looks at the pin (store.ts:287).                     *)
PinnedStays ==
  \A C \in Cards : \A i \in There \ C : items[i].pinned => Cardinality(C) = Limit /\ \A j \in C : ~Ahead(i, j)

(* What the entry is, is what was asked for it ("an omitted field keeps    *)
(* what the entry already had").                                           *)
OmittedKept == items = asked

(* "For yearly/monthly, the first occurrence": none comes before it. *)
NeverBeforeFirst == \A i \in There : ~Before(Occurrence(items[i]), items[i].date)

(* "stop after this date - the series ends, nothing more shows": what the  *)
(* card names is a day of the series, and not after the end.               *)
EndsAtEnd ==
  \A i \in There : items[i].repeat # "none" /\ items[i].end # NoDate /\ Named(items[i]) =>
    /\ Occurrence(items[i]) \in Series(items[i])
    /\ ~Before(items[i].end, Occurrence(items[i]))
=============================================================================
