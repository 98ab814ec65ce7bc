---------------------------- MODULE DigestBuckets ----------------------------
(***************************************************************************)
(* What a morning digest tells: _fetch_buckets of                          *)
(* src/pollers/digest/poller.py splits the open todos into an urgent band, *)
(* whose deadlines are near, and suggestions, which age out.  The clock    *)
(* counts hours in UTC; the digest lives in the time zone of its user,     *)
(* Offset hours ahead.  A deadline is an instant, or a date alone, which   *)
(* is stored without a time and read as its midnight in UTC.               *)
(***************************************************************************)
EXTENDS Naturals, FiniteSets, Sequences

CONSTANTS Works,             \* todos
          Important,         \* those whose importance is high
          Deadlines, NoDeadline,
          DayLength, Offset, SendHour,   \* SEND_HOUR_LOCAL, of a day of DayLength hours
          UrgentWindow, AgeOut, SuggestionLimit,
          LastHour           \* bound on the clock

ASSUME DigestIsDaily ==
    /\ Important \subseteq Works /\ NoDeadline \notin Deadlines
    /\ \A d \in Deadlines : d.dateOnly \in BOOLEAN /\ d.at \in Nat
    /\ DayLength \in Nat \ {0} /\ {Offset, SendHour} \subseteq 0 .. DayLength - 1
    /\ {UrgentWindow, AgeOut, SuggestionLimit, LastHour} \subseteq Nat

VARIABLES hour,      \* in UTC
          agenda,    \* the rows of the todos
          lastDay,  \* the local day of the last digest
          mail,     \* that digest
          moved     \* ghost: todos whose row was written since

bucketVars == <<hour, agenda, lastDay, mail, moved>>

Work == [status: {"none", "open", "closed"}, due: Deadlines \cup {NoDeadline}, created: 0 .. LastHour]
NoWork == [status |-> "none", due |-> NoDeadline, created |-> 0]

BucketInit ==
    /\ hour = 0 /\ lastDay = 0
    /\ agenda = [t \in Works |-> NoWork]
    /\ mail = [urgent |-> <<>>, suggestions |-> <<>>, more |-> 0] /\ moved = {}

---------------------------------------------------------------------------
(* _fetch_buckets *)

LocalDay(instant) == (instant + Offset) \div DayLength
LocalHour(instant) == (instant + Offset) % DayLength

\* _parse_dt: a date alone is midnight in UTC.
Instant(due) == IF due.dateOnly THEN due.at * DayLength ELSE due.at
HasTime(due) == LocalHour(Instant(due)) # 0
\* "A date-only deadline stays live through end of that day."
Effective(due) == IF HasTime(due) THEN Instant(due) ELSE Instant(due) + DayLength - 1

Listed == {t \in Works : agenda[t].status = "open"}
IsUrgent(t) ==
    /\ agenda[t].due # NoDeadline
    /\ hour <= Effective(agenda[t].due) /\ Effective(agenda[t].due) <= hour + UrgentWindow
AgedOut(t) == agenda[t].created + AgeOut < hour

\* fault: what has aged out is left out before its deadline is looked at
UrgentOfFresh == {t \in Listed : IsUrgent(t) /\ ~AgedOut(t)}
Urgent == {t \in Listed : IsUrgent(t)}
Suggestions == {t \in Listed \ Urgent : ~AgedOut(t)}

Rank(t) == IF t \in Important THEN 0 ELSE 1
Sooner(t, u) == Instant(agenda[t].due) <= Instant(agenda[u].due)
Before(t, u) ==
    \/ Rank(t) < Rank(u)
    \/ Rank(t) = Rank(u) /\ agenda[t].created >= agenda[u].created

\* list.sort: nothing stands behind what comes later; rows that come together are in the
\* order of the query, which is any.
Sortings(S, ordered) ==
    {s \in [1 .. Cardinality(S) -> S] :
        /\ \A t \in S : \E i \in DOMAIN s : s[i] = t
        /\ \A i, j \in DOMAIN s : i < j => <<s[i], s[j]>> \in ordered}
FirstOf(s) == SubSeq(s, 1, IF Len(s) < SuggestionLimit THEN Len(s) ELSE SuggestionLimit)

UrgentLists == Sortings(Urgent, {p \in Works \X Works : Sooner(p[1], p[2])})
SuggestionLists == Sortings(Suggestions, {p \in Works \X Works : Before(p[1], p[2])})

\* What becomes of the two lists.
FetchBuckets(u, s) == [urgent |-> u, suggestions |-> FirstOf(s), count |-> Len(s)]

\* _render: the band in full, the suggestions that are shown, and how many more there are.
Rendered(buckets) ==
    [urgent |-> buckets.urgent, suggestions |-> buckets.suggestions,
     more |-> buckets.count - Len(buckets.suggestions)]

---------------------------------------------------------------------------
(* The clock, the rows and the digest *)

HourPasses ==
    /\ hour < LastHour /\ hour' = hour + 1
    /\ UNCHANGED <<agenda, lastDay, mail, moved>>
Writes(t, row) ==
    /\ agenda' = [agenda EXCEPT ![t] = row] /\ moved' = moved \cup {t}
    /\ UNCHANGED <<hour, lastDay, mail>>
AddWork(t) ==
    /\ agenda[t].status = "none"
    /\ \E due \in Deadlines \cup {NoDeadline} :
          Writes(t, [status |-> "open", due |-> due, created |-> hour])
\* Closed, or rejected.
CloseWork(t) == agenda[t].status = "open" /\ Writes(t, [agenda[t] EXCEPT !.status = "closed"])
SetDeadline(t) ==
    /\ agenda[t].status = "open"
    /\ \E due \in Deadlines : due # agenda[t].due /\ Writes(t, [agenda[t] EXCEPT !.due = due])

\* poll, whose mail goes out (LocalDigest has what becomes of it).
SendDigest ==
    /\ LocalHour(hour) >= SendHour /\ lastDay # LocalDay(hour)
    /\ lastDay' = LocalDay(hour) /\ moved' = {}
    /\ \E u \in UrgentLists, s \in SuggestionLists : mail' = Rendered(FetchBuckets(u, s))
    /\ UNCHANGED <<hour, agenda>>

BucketNext ==
    \/ HourPasses \/ SendDigest
    \/ \E t \in Works : AddWork(t) \/ CloseWork(t) \/ SetDeadline(t)

BucketSpec == BucketInit /\ [][BucketNext]_bucketVars

---------------------------------------------------------------------------
(* Properties *)

BucketTypeOK ==
    /\ hour \in 0 .. LastHour /\ lastDay \in 0 .. LocalDay(LastHour)
    /\ agenda \in [Works -> Work] /\ moved \subseteq Works
    /\ mail.urgent \in Seq(Works) /\ mail.suggestions \in Seq(Works) /\ mail.more \in Nat

In(t, s) == \E i \in DOMAIN s : s[i] = t

\* Urgent: todos that nobody touches are in every digest until their deadline, however
\* old they grow.
UrgentStays ==
    \A t \in Works \ moved :
        In(t, mail.urgent) /\ ~agenda[t].due.dateOnly /\ hour <= agenda[t].due.at
        => In(t, mail'.urgent)
\* No open todo is left out, unless it has aged out or more important or fresher ones fill
\* the suggestions, and none is told twice.  Those that are left out are counted.
InMail(t) == In(t, mail'.urgent) \/ In(t, mail'.suggestions)
NothingIsHidden ==
    /\ mail'.more = Cardinality({t \in Listed : ~AgedOut(t) /\ ~InMail(t)})
    /\ \A t \in Listed :
          \/ agenda[t].created + AgeOut < hour
          \/ In(t, mail'.urgent) # In(t, mail'.suggestions)
          \/ /\ Len(mail'.suggestions) = SuggestionLimit
             /\ \A i \in DOMAIN mail'.suggestions : Before(mail'.suggestions[i], t)

\* "Urgent items are always shown in full": no deadline and no open todo disappears from
\* one digest to the next before its time (the two retention rules of poller.py:8).
DigestServes == [][lastDay' # lastDay => UrgentStays /\ NothingIsHidden]_bucketVars

\* "A date-only deadline (due today) stays live through end of that day": a digest has
\* what is due on its own day in the urgent band.
DueTodayLeads ==
    [][lastDay' # lastDay =>
        \A t \in Listed :
            agenda[t].due # NoDeadline /\ agenda[t].due.dateOnly /\ agenda[t].due.at = LocalDay(hour)
            => In(t, mail'.urgent)]_bucketVars
=============================================================================
