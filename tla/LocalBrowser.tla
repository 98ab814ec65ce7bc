----------------------------- MODULE LocalBrowser -----------------------------
(***************************************************************************)
(* The browser poller, src/pollers/browser/poller.py: the newest visits of *)
(* the last day are copied from the browser's history, gathered by URL,    *)
(* cleared of what the person finished on the same domain afterwards, and  *)
(* a model picks todos from the pages that are left; meanwhile the person  *)
(* browses on.  A todo is known by its page, the URL without "www." and    *)
(* query.  Noise (login walls, search pages) is never looked at.           *)
(***************************************************************************)
EXTENDS Integers, FiniteSets

CONSTANTS Hosts,
          MaxVisits,   \* bound on the clock: one visit, at most, at each time
          HistoryDay,  \* WINDOW_HOURS
          MaxRows,     \* MAX_ROWS
          Interval,    \* MIN_INTERVAL_SECONDS
          Nothing

ASSUME HistoryIsBounded ==
    MaxVisits \in Nat /\ HistoryDay \in Nat /\ MaxRows \in Nat /\ Interval \in Nat

VARIABLES visit,      \* the URL visited at each time so far
          lastPoll,   \* browser_history_last_polled_at, 0 at first
          reading,    \* the poll under way
          asked       \* the pages with a todo, and when the history was read for it

browserVars == <<visit, lastPoll, reading, asked>>

\* A URL: its host, with "www." or without, and a page of it or the one that says it is done.
Urls == [host: Hosts, www: BOOLEAN, path: {"page", "done"}]
Domain(u) == <<u.host, u.www>>
HasCompletionMarker(u) == u.path = "done"
\* _normalize_url.
Page(u) == <<u.host, u.path>>
Pages == {Page(u) : u \in Urls}

Clock == DOMAIN visit
Visited == Cardinality(Clock)

BrowserInit ==
    /\ visit = <<>> /\ lastPoll = 0
    /\ reading = [at |-> "idle", time |-> 0, allowed |-> {}]
    /\ asked = [p \in Pages |-> 0]

Visit(u) ==
    /\ Visited < MaxVisits
    /\ visit' = [t \in 1 .. Visited + 1 |-> IF t <= Visited THEN visit[t] ELSE u]
    /\ UNCHANGED <<lastPoll, reading, asked>>

---------------------------------------------------------------------------
(* The digest *)

Recent(now) == {t \in Clock : t > now - HistoryDay /\ visit[t] # Nothing}

\* _read_recent_history: the newest rows of the window.
Rows(now) == {t \in Recent(now) : Cardinality({s \in Recent(now) : s > t}) < MaxRows}

\* _aggregate_visits_by_url.
UrlsOf(rows) == {visit[t] : t \in rows}
Visits(u, rows) == {t \in rows : visit[t] = u}
LastVisit(u, rows) == CHOOSE t \in Visits(u, rows) : \A s \in Visits(u, rows) : s <= t

\* _drop_superseded_by_completion.
Superseded(u, rows) ==
    \/ HasCompletionMarker(u)
    \/ \E v \in UrlsOf(rows) : /\ HasCompletionMarker(v) /\ Domain(v) = Domain(u)
                               /\ LastVisit(u, rows) <= LastVisit(v, rows)

\* _group_urls_by_domain: two visits of a domain are the least that counts.
HistoryDigest(rows) ==
    LET left == {u \in UrlsOf(rows) : ~Superseded(u, rows)} IN
    {u \in left : Cardinality({t \in rows : visit[t] \in left
                                            /\ Domain(visit[t]) = Domain(u)}) >= 2}

---------------------------------------------------------------------------
(* The poll *)

ReadHistory ==
    /\ reading.at = "idle"
    /\ lastPoll = 0 \/ Visited - lastPoll >= Interval
    /\ Visited > 0
    /\ LET allowed == {Page(u) : u \in HistoryDigest(Rows(Visited))} IN
       IF allowed = {} THEN lastPoll' = Visited /\ UNCHANGED reading
       ELSE /\ reading' = [at |-> "saving", time |-> Visited, allowed |-> allowed]
            /\ UNCHANGED lastPoll
    /\ UNCHANGED <<visit, asked>>

\* A todo of the model for a page in the digest; "dropped (url not in digest)" otherwise.
\* Its id is made of its page: a second todo of one is never inserted.
SaveHistoryTodo(p) ==
    /\ reading.at = "saving" /\ p \in reading.allowed
    /\ asked[p] = 0
    /\ asked' = [asked EXCEPT ![p] = reading.time]
    /\ UNCHANGED <<visit, lastPoll, reading>>

EndReading ==
    /\ reading.at = "saving"
    /\ lastPoll' = reading.time
    /\ reading' = [at |-> "idle", time |-> 0, allowed |-> {}]
    /\ UNCHANGED <<visit, asked>>

\* The model's answer fails, or the process dies; what was saved stays.
ReadingFails ==
    /\ reading.at = "saving"
    /\ reading' = [at |-> "idle", time |-> 0, allowed |-> {}]
    /\ UNCHANGED <<visit, lastPoll, asked>>

BrowserNext ==
    \/ \E u \in Urls \cup {Nothing} : Visit(u)
    \/ \E p \in Pages : SaveHistoryTodo(p)
    \/ ReadHistory \/ EndReading \/ ReadingFails

BrowserSpec == BrowserInit /\ [][BrowserNext]_browserVars

---------------------------------------------------------------------------
(* Properties *)

BrowserTypeOK ==
    /\ visit \in [1 .. Visited -> Urls \cup {Nothing}] /\ Visited <= MaxVisits
    /\ lastPoll \in 0 .. MaxVisits
    /\ reading \in [at: {"idle", "saving"}, time: 0 .. MaxVisits, allowed: SUBSET Pages]
    /\ asked \in [Pages -> 0 .. MaxVisits]

\* Nobody is asked to do what they had finished: a page with a todo was visited in the
\* day before the history was read for it, and from then on nothing on its domain said
\* "done" ("the user finished what they started", src/pollers/browser/poller.py:63).
FinishedIsNotAsked ==
    \A p \in Pages : asked[p] # 0 =>
        \E t \in 1 .. asked[p] :
            /\ t > asked[p] - HistoryDay
            /\ visit[t] # Nothing /\ Page(visit[t]) = p
            /\ \A s \in t .. asked[p] :
                  visit[s] # Nothing /\ HasCompletionMarker(visit[s])
                  => Domain(visit[s]) # Domain(visit[t])
=============================================================================
