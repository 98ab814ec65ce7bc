------------------------------ MODULE LocalParts ------------------------------
(***************************************************************************)
(* The parts of the local app around its runs and chat: the poller process *)
(* and what it finds, the todos, the ways out, the accounts, the database  *)
(* and what a turn of Hermes has around it.  Each has its own rows or      *)
(* process, and they meet only in calls that the module of the caller      *)
(* answers; so one of Parts moves at a time.                               *)
(***************************************************************************)
EXTENDS LocalPollers, LocalBrowser, LocalTodos, LocalNotices, LocalLinks, LocalGoogle,
        LocalSchema, LocalChrome, LocalActivity, LocalReplies, DigestBuckets

CONSTANT Parts
ASSUME PartsAreKnown ==
    Parts \subseteq {"pollers", "buckets", "browser", "table", "notices", "replies", "phone",
                     "enrolment", "accounts", "schema", "chrome", "activity"}

VARIABLE part

\* What is found, what is told of it, what is kept, what a turn of Hermes has around it.
foundVars == <<pollVars, browserVars, tableVars>>
toldVars == <<bucketVars, noticeVars, repliesVars, phoneVars, enrolVars>>
keptVars == <<googleVars, schemaVars>>
hermesVars == <<chromeVars, activityVars>>
localVars == <<foundVars, toldVars, keptVars, hermesVars, part>>

LocalInit ==
    /\ part \in Parts
    /\ PollInit /\ BrowserInit /\ TableInit
    /\ BucketInit /\ NoticeInit /\ RepliesInit /\ PhoneInit /\ EnrolInit
    /\ GoogleInit /\ SchemaInit
    /\ ChromeInit /\ ActivityInit
    /\ part # "pollers" => /\ enabled = CHOOSE s \in Servers : TRUE
                           /\ machine = CHOOSE m \in Machines : TRUE
    /\ part # "phone" => me = Anybody
    /\ part # "accounts" => bound = NoMailbox
    /\ part # "schema" => file = Version("fresh")
    /\ part # "chrome" => chrome = "open"

FoundNext ==
    \/ part = "pollers" /\ PollNext /\ UNCHANGED <<browserVars, tableVars>>
    \/ part = "browser" /\ BrowserNext /\ UNCHANGED <<pollVars, tableVars>>
    \/ part = "table" /\ TableNext /\ UNCHANGED <<pollVars, browserVars>>
ToldNext ==
    \/ /\ part = "buckets" /\ BucketNext
       /\ UNCHANGED <<noticeVars, repliesVars, phoneVars, enrolVars>>
    \/ /\ part = "notices" /\ NoticeNext
       /\ UNCHANGED <<bucketVars, repliesVars, phoneVars, enrolVars>>
    \/ /\ part = "replies" /\ RepliesNext
       /\ UNCHANGED <<bucketVars, noticeVars, phoneVars, enrolVars>>
    \/ /\ part = "phone" /\ PhoneNext
       /\ UNCHANGED <<bucketVars, noticeVars, repliesVars, enrolVars>>
    \/ /\ part = "enrolment" /\ EnrolNext
       /\ UNCHANGED <<bucketVars, noticeVars, repliesVars, phoneVars>>
KeptNext ==
    \/ part = "accounts" /\ GoogleNext /\ UNCHANGED schemaVars
    \/ part = "schema" /\ SchemaNext /\ UNCHANGED googleVars
HermesNext ==
    \/ part = "chrome" /\ ChromeNext /\ UNCHANGED activityVars
    \/ part = "activity" /\ ActivityNext /\ UNCHANGED chromeVars

LocalNext ==
    /\ \/ FoundNext /\ UNCHANGED <<toldVars, keptVars, hermesVars>>
       \/ ToldNext /\ UNCHANGED <<foundVars, keptVars, hermesVars>>
       \/ KeptNext /\ UNCHANGED <<foundVars, toldVars, hermesVars>>
       \/ HermesNext /\ UNCHANGED <<foundVars, toldVars, keptVars>>
    /\ UNCHANGED part

LocalSpec == LocalInit /\ [][LocalNext]_localVars

\* Everything the variables of a part may hold.
LocalTypeOK ==
    /\ PollTypeOK /\ BrowserTypeOK /\ TableTypeOK
    /\ BucketTypeOK /\ NoticeTypeOK /\ RepliesTypeOK /\ LinksTypeOK
    /\ GoogleTypeOK /\ SchemaTypeOK
    /\ ChromeTypeOK /\ ActivityTypeOK

\* What a person has finished with is not put before them again: pages of the browser
\* (pollers/browser/poller.py:136) and tasks of any source (db.py:1148).
NothingComesBack == FinishedIsNotAsked /\ TaskStaysAway

\* The numbers and buttons that answer a list do what stands there (push_notify.py:195,
\* app.py:1047).
AnswersAreUnderstood == NoticesAreUnderstood /\ NumberIsUnderstood

\* What Settings says of the ways out and of the accounts is what the server does.
SettingsAreTrue == LinksHold /\ AccountsHold

\* A turn of Hermes tells its own steps, and leaves the browsers as it may.
TurnIsAttended == StepsAreTold /\ BrowsersAreLeft
=============================================================================
