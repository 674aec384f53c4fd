# Verification of the testing platform

TLA+ modules, TLC configurations and TLAPS proofs for the platform in `src/`: a
web front end, an authorization server and an application server with which
teachers set tests and students take them. The modules are written from the
source; the repository has almost no documentation and one (empty) test, so the
code is the only reference.

## The system

| Part | Language | State it keeps | Operations |
|---|---|---|---|
| **AppModuleRemake**, the application server (port 3032) | C++, Crow, libpqxx | PostgreSQL tables `users`, `courses`, `users_courses`, `tests`, `questions`, `quests_tests`, `attempts`, `answers`; one connection shared by every thread | REST handlers of five controllers (`controllers/*.cpp`), access checks (`AccessRequestValidator.cpp`), JWT reading |
| **AuthorizationModule** (port 3031) | Go, MongoDB | `tokens`, a global map of login attempts; the `users` and role collections | login, callback, authorize, logout; get_role and set_role |
| **WebModule/web** (port 3030) | Java, Spring, Redis | one Redis record of tokens per browser session | login, home (page and callback), logout |
| **AppModuleRemake/src/test** | C++ | scores of answers, questions and tests | a scoring library no handler uses |
| **WebModule/learn** and the other tools | Java | none shared with the platform | exercises, stand-alone tools |

How they interact: the web server sends a browser to the authorization server
with a token it stored for the session; the authorization server, back from the
OAuth provider, finds or creates the user, registers a new one with the
application server over HTTP, and posts the tokens to the web server. The
browser then calls the application server with the JWT, which forwards the
reading and the change of a role to the authorization server; that server takes
both from anybody with a JWT, on the same port the browsers use. The handlers of
the application server never call each other: they interact through the tables.

Where it is hard:

* Crow runs the handlers on many threads (`DefaultServerInitializer.cpp:15-16`).
  Every `DataAdapter`, `DataUploader`, `DataModificator` or `DataRemover` call is
  a transaction of its own, so a handler is a sequence of database steps; what it
  has checked or read in one step may be stale in the next, and a handler that
  fails half-way leaves the steps it committed.
* All threads share one `pqxx::connection` (`main.cpp:10-17`); beginning a
  transaction while another thread's is open throws, so any step may fail.
* A commit whose acknowledgement is lost throws although the write was made.
* Go's `net/http` runs the authorization handlers concurrently over an unlocked
  map and over MongoDB calls that are not transactions; an `/authorize` request is
  a chain of up to nine calls to three other programs.
* A session's record is one Redis value that pages, logouts and the POST of the
  tokens read and overwrite in separate calls.
* An access token carries the permissions of a role for an hour, whatever becomes
  of the role. A block is known to the application server alone.
* `/authorize` is told whose sign-in it is by its URL and whose session by the
  cookie, and nothing ties the two.
* The application server takes `[0]` of query results that may be empty: a request
  that names something that is not there can end the process, and every request in
  flight with it.

`PROJECT.json` lists the components and, under `hazards`, what can go wrong at
which line, with the properties that watch it.

## What makes each component correct

* **Attempts.** A student takes a test once; nobody else writes in the attempt;
  the sheet has the test's questions; the mark is the number of correct answers
  handed in and does not change; a handed-in attempt gets its mark; nothing
  changes after the test is closed.
* **Test administration.** The questions of a test students have begun do not
  grow; sheets handed out are never touched.
* **Membership and access.** Blocked users and users outside the course change
  nothing; a deleted course gains no members.
* **Reports.** What a report shows is true and stays true; one student's attempt
  does not take the report away from everybody; a saved order is the order asked
  for; a look at something that is not there does no harm to others.
* **Login and registration.** One account and one id per email; the two user
  tables agree; a login that expired gives no tokens; the tokens in a session are
  those of the person whose browser holds it, as long as no request mixes people.
* **Web session.** A session keeps its tokens until its own logout, and stays
  without them after it.
* **Roles.** Nobody gives themselves powers; somebody can always administrate; a
  role given is a role that works.

## Modules

| Module | What it is |
|---|---|
| `AppDb` | Tables, requests, the record of a thread's handler (`job`), access checks, queries. |
| `Attempts` | `AttemptRestController.cpp`: `create`, `set`, `finish`. |
| `TestAdmin` | `add_quest`, `delete_quest` (`TestRestController.cpp`), `set_test_status`, `delete_test` (`CourseRestController.cpp`). |
| `Membership` | `set_block_status` (`UserRestController.cpp`), `add_user`, `delete_user`, `delete_course` (`CourseRestController.cpp`). |
| `AppServer` | Composition: threads receive requests, step, fail, answer; restart; the properties. |
| `Exam` | Abstract specification: the examination as if every operation were atomic. |
| `Reports` | Beside `AppServer`: `set_quest_order_info`, `get_users_list`, `get_user_marks`, `get_user_answers` (`TestRestController.cpp`), `attempts/get`. |
| `Roles` | `get_role`, `set_role` and `set_block_status` of both servers, the making of access tokens from roles, their expiry. |
| `SignInDb` | The state of a sign-in: Redis records, sessions, the `tokens` map, the two user tables, the requests in flight, the kinds of fault. |
| `AuthServer` | `/login`, `/callback`, `/authorize`, `/logout` (`AuthenticationServerHandler.go`) with the MongoDB calls, and `register` of the application server. |
| `WebServer` | `HomeController`, `AuthorizationController`, `AuthorizationService`: home, login, logout. |
| `SignIn` | Composition of the two with browsers; the properties. |
| `Registry` | Abstract specification of the users table: each person once, under an id of their own. |
| `MCAppServer`, `MCReports`, `MCRoles`, `MCSignIn` | The instances TLC checks. |
| `AppServer_proofs`, `AttemptSafety_proofs` | Type correctness and safety of the attempt handlers, proved. |
| `Drain_proofs` | What the check-then-act pairs promise once the requests in flight have drained. |
| `Exam_proofs` | Sheets and marks; the handlers implement `Exam`. |
| `Reports_proofs`, `Roles_proofs` | Proofs about `Reports` and `Roles`. |
| `SignIn_proofs`, `SignInSerial_proofs` | Proofs about `SignIn`: for any interleaving, and for sign-ins that do not overlap. |

### The application server

`job[w]` is the handler running on thread `w`: `pc` names the *next database
step*, `req` is the request, the other fields are the handler's locals. One
action is one database call together with the computation up to the next one; a
read of a column that never changes after its row is inserted (`course_id`,
`teacher_id`, `author_id`, `correct_answer`, an attempt's `user_id` and
`test_id`) is merged with its neighbour. The steps:

    create   auth -> member -> tcheck -> dup -> insert -> sheet -> answers* -> done
    set      row -> auth -> tcheck -> write -> done
    finish   row -> auth -> tcheck -> complete -> grade -> mark -> done
    add_quest         auth -> vacant -> link -> done
    delete_quest      auth -> taken -> unlink -> done
    set_test_status   auth -> status -> done        delete_test    auth -> retire -> done
    set_block_status  auth -> block -> done         delete_course  auth -> drop -> done
    add_user          auth -> course -> join -> done
    delete_user       auth -> leave -> done

Every early return is a jump to `done` with its HTTP code. Details kept because
they decide what happens:

* `set` and `finish` read the attempt, `is_completed` included, *before* they
  check the caller, and use that snapshot after the check of the test.
* A valid caller who does not own the attempt gets the validation's own 200.
* `matchCourseIdOwner` accepts any caller as long as the course has a teacher;
  the third ownership check, `matchQuestIdOwner`, says yes when it throws.
* `delete_quest` answers 404 for a test *without* attempts and unlinks from one
  that has them; `add_quest` is the other way round.
* `set_test_status` returns before the code that would complete open attempts.
* `set` updates only the row of the question's actual version.
* `delete_course` asks for the permission to *add* a course.

A request can name a test that does not exist. The constant `Missing` holds such
ids. `create` answers 403 to them (no such member), `set` and `finish` never come to
one, and the four handlers of `TestAdmin` take `[0]` of the empty result of the
course lookup: before the token's answer is used, whoever asks. That is undefined
behaviour; the builds at hand read through a null pointer, so `MissTest` ends the
process (`Die`): every thread's handler is gone, the tables keep what was committed.

Nor does `add_quest` look up the question when the caller has the permission to add
one; only without it must the question be the caller's own. `Phantoms` are the ids
`questions` has no row of (their `ActualVersion` is `Nil`). `create` copies such a link
to the sheet like any other, `set` answers it with 500 (`SetCodes`), and `finish` takes
`[0]` of it between its two writes: `MissQuest` ends the process there, and the attempt
is orphaned.

Constants of the environment: `Pipelined` says whether one user's client may have
several requests in flight (two tabs, a retry after a client-side timeout);
`Faults` says whether database calls may throw and the process may be killed.
Tokens are valid, expired or unreadable by choice (`ValidateWithBlockHandle`);
`Grants`, the permissions in each user's token, is fixed, which is one token's
lifetime: `Roles` models how tokens and permissions change.

External, modelled from how the code uses it: the database. Its schema is not in
the repository. No uniqueness constraint is assumed on `attempts`; the columns
`create` leaves out have the defaults its readers rely on (`is_completed` false,
`answer` -1); each transaction is atomic; `get_actual_version` gives the one
version a question's row has, since no handler inserts a second version.

### Reports

`desk[r]` is the handler of a further thread `r` of the same server; `ServerStep`
is a step of `AppServer`, `Restart` ends all of them.

    order     auth -> place* -> done          takers, marks   auth -> query -> done
    answers   auth -> query -> sheets* -> done
    get       auth -> query -> sheets -> done

* `set_quest_order_info` updates every row of a question, one question at a time.
  `kept` is a history variable: the rows that were linked when the handler began
  and that nobody else has removed or placed since. (Nothing in the repository
  reads `order_id` back.)
* A column that is NULL is left out of a row by `DataAdapter`, and asking for it
  throws: so does the mark of an attempt without one, and the text of an answer
  that is no subscript of `questions.answers`, -1 for "not answered" included. The
  exception becomes a 500 for the whole report.
* The mask `get_user_answers` builds for a caller who may only see his own rows
  lacks an `AND`: that query always fails.
* Deaths. All five look up the course of the test by `[0]` before they use the
  token's answer (`MissCourse`: a test of `Missing`, whoever asks). `attempts/get`
  does so with the attempt (`MissAttempt`: a student who opened none), and both
  readers of answers with the question of a row, of which there is none for a version
  that `add_quest` linked and `questions` does not have (`MissVersion`). The rows of a
  sheet come in any order: a sheet with such a row and with one whose text cannot be
  read may end in a 500 or in a death. `Death` is all of them, `Miss` and a
  restart (`Restart`) included.
* `ReportFaults` says whether the reports' calls may throw and the process may be
  stopped from outside; `Faults` still says so for the calls of the others.

### Signing in

`call[g]` is the `/authorize` request of goroutine `g`, `task[t]` the page request
of web thread `t`; again `pc` names the next call:

    authorize  find [-> count -> insert -> refind -> register [-> undo]]
                    -> expiry -> store -> deliver
    home       look -> [save ->] show        login   look -> [save ->] ask
    logout     remove [-> revoke]

`wire` holds the register requests the application server has not handled:
one may be handled after its sender died. `Faults` is the set of things that may go
wrong in an instance (`FaultKinds`): a call that errs, a registration refused, or
made with its answer lost, an undo that fails, a process that dies, a server that is
not reached, five minutes that pass. Details that decide what happens:

* `/authorize` takes the provider's access token and the state from its URL, the
  session from the cookie. `Authorize(g, b, p, s)` is browser `b` loading a link with
  the token of person `p` and the state `s`, of whatever sign-ins these are, again and
  again if it likes: its own link, somebody else's, or one put together from two. The
  constant `Links` says which an instance has; the proofs are for any. (A state nobody
  was given has no entry in the map and a made-up token no person: the handler ends
  at its expiry check, as with an entry the process has lost, or before it begins.)
* Every error of `FindByEmail` is taken for a user who is not there.
* `CreateByEmail` counts the documents and inserts one with that id plus one, in two
  calls; the handler ignores its errors and reads the user again.
* Registration goes on only after a 200; anything else undoes the account by *id*,
  and the error of that is ignored.
* The expiry is checked after all this; the entry of the map is then written and
  read back, and the tokens posted under the cookie the request carried.
* The home page replaces a record it does not find, or fails to read, by an
  anonymous one. `logout?all=true` removes the record first and asks for the refresh
  token in it afterwards; the authorization server's `/logout` fails on every token.
* `ModifyTokensByEmail` selects by a field no document has and changes nothing.

The auth token of a login, the OAuth state, is generated for the new session of that
login, so a session and its state are one value. A browser stands for the person who
uses it (`EmailOf`). `KeyedIds` says whether the id column of the users table is a
key; the runs have it so, the proofs cover both. The default role a new account gets
is assumed to be of stage 0 and to have permissions; `register` answers 403
otherwise, which is the fault `refuse`. Tomcat's idle timeout is left out. The tokens
reach the web server: `WEB_PORT` of the authorization server
(`config/AppConfigurationConstants.go:8`) is 3033 while `server.port` is 3030, which
a deployment has to bridge; with the fault `web` none arrives.

### Roles

`tokens` are the access tokens handed out and not expired, `visit[u]` the role
`/authorize` has read for `u` and not yet made a token from, `job[w]` the request on
thread `w`:

    get_role  auth -> forward -> read       set_role  auth -> forward -> modify
    set_block_status  auth -> block

`auth` is the application server's check, which knows blocks; `forward` the
authorization server's, which knows none. `Receive` is a request to the application
server, which begins at `auth`; `ReceiveDirect` one to the authorization server itself
(`DatabaseServerHandler.go:16-19`, port 3031), which begins at `forward`.
`set_block_status` is the application server's alone. So a block takes away the right to
block and not the right to change roles, which lasts as long as a token does. `Workers`
are the requests under way, at either server. `GeneratePermissions` fails for an unknown
role; for a role above stage 0 it looks for the roles below in a slice its loop never
fills, so that stage 1 gives a claim of `null`, which the application server cannot
read, and stage 2 and more a nil pointer. `ModifyRoleById` takes any name. Ids are
assumed unique and users registered (that is `SignIn`'s subject), a role document to
have a list of permissions and a natural stage, a user to sign in once at a time;
response codes are left out, nothing here depends on them.

## Runs

Two threads suffice for every pair of interleaved handlers, and the properties
relate at most two handlers and the tables. Ids (of attempts, link rows, documents,
sessions) are pools large enough that no handler waits for one, except where the
table says otherwise; threads and ids are symmetric in the safety runs, the liveness
runs use no symmetry. Deadlock is checked in every run: the servers never stop.

| Run | Question | Properties |
|---|---|---|
| `race` | What holds whatever a client sends in parallel, with failures and restarts, while nobody adds a question? Two threads, one student, a third attempt id free so that the bound can fail; one question is linked twice, once in a version that is not the actual one; bob sends `finish` for alice's attempt. | `TypeOK`, `AttemptsBoundedByWorkers`, `FinishOkMeansMarked`, `CreateOkMeansFullSheet`, `MarkWithinAnswerable`, `OnlyOwnerWrites`, `AttemptsOnlyAdvance`, `OrphanedForever` |
| `serial` | Is the examination atomic for users who wait for their answers, while the test is closed, reopened and deleted, and is given a question that does not exist? | `SingleAttempt`, `MarkMatchesAnswers`, `ImplementsExam`, `ClosedTestIsFrozen` |
| `editing` | Can a teacher edit a test under a student, with requests for a test that does not exist ending the process meanwhile? | `QuestionsFollowAttempts`, `SheetIsFixed` |
| `access` | Do blocking, leaving a course and deleting it take effect? | `ShutOutUserChangesNothing`, `DisbandedCourseGainsNoMember`, `OutsiderOpensNoAttempt` |
| `live` | Is every request answered, and does a completed attempt get its mark, when calls do not fail and requests name tests that exist? | `EveryRequestAnswered`, `CompletedGetsMarked` |
| `reports` | What do the reports and the order of questions promise, with two reports beside one thread of the other handlers? The course has no teacher, so that permissions decide; bob may order questions. The student waits for answers; the teacher links a question that does not exist, and looks at an attempt nobody opened; bob asks for a test that does not exist. | `OrderOkMeansPlaced`, `ReportsAreFinal`, `OrphanBlocksMarks`, `BlankBlocksAnswers`, `OrphanedByDeathOnly` |
| `roles` | Who can gain the right to administrate, and when is it lost for good? An administrator, a warden who may only block, a role of stage 1, a misspelt one; two requests at a time, at either server. | `PowerComesFromOthers`, `LeaderlessForever`, `StagedRoleStrands` |
| `signin_race` | What does a sign-in guarantee when two people load links with the same state, logins expire and the process dies? Two people, three documents. | `OwnTokensUnlessMixed`, `AccountsBoundedByGoroutines`, `ExpiredStateIsSpent` |
| `signin_serial` | Are accounts unique, and is the users table the `Registry`, when sign-ins do not overlap but calls fail, requests arrive late and browsers load other people's links? Three people. | `UniqueAccounts`, `ImplementsRegistry`, `StrandedForever` |
| `signin_agree` | Is every request answered, and do the two user tables agree, when inserts fail, registrations are refused or their answers lost, logins expire, and Redis, the web server or the authorization server is not reached? Two people, one of them in the middle of signing in. | `FirstSignInHasRow`, `TablesAgree`, `SignInAnswered`, `LostAnswerLocksOutNewcomers` |
| `signin_session` | What do several tabs of one browser do to its session, `FindByEmail` or the web server failing? Two sessions, which are all the logins there are. | `SignedInUntilLogout`, `SignedOutUntilAuthorize` |
| `signin_done` | Does a sign-in without failures complete, also with another person's link? | `SignInCompletes` |

What they show.

* The check-then-act pairs of the application server are safe only after the
  requests in flight have drained, and the properties say exactly that: a deleted
  test, a blocked user, a deleted course or a taken test stands still once no
  handler is past its check.
* A student's parallel requests can open two attempts, and change answers after the
  mark; `AttemptsBoundedByWorkers` and `MarkWithinAnswerable` bound the damage, and
  `SingleAttempt`, `MarkMatchesAnswers` and `ImplementsExam` hold when the student
  waits for each answer.
* A `finish` that fails between its two writes leaves an attempt that no request can
  ever mark (`OrphanedForever`), and with it the marks of the whole test can never be
  reported again (`OrphanBlocksMarks`). When calls do not fail only the death of the
  server does that (`OrphanedByDeathOnly`), but anybody can cause one: a request that
  names a test that does not exist is enough, with a token or without. At a test to
  which a question that does not exist was linked every `finish` is one.
* One attempt handed in with a question unanswered makes the answers of everybody at
  that test unreadable (`BlankBlocksAnswers`).
* Sign-ins that overlap can create as many accounts of one person as there are
  goroutines, never more; those that do not overlap implement the `Registry`, as long
  as no answer to a registration is lost, or accounts can always be read and undone.
  One lost answer leaves a row whose id every
  later newcomer is given: nobody new can register (`LostAnswerLocksOutNewcomers`).
  A registration that breaks off after the account was created is never made up for
  (`StrandedForever`).
* A session can be given another person's tokens: somebody else's link does it, and so
  does a link of one's own whose state another person's request is using, the map
  being shared. `OwnTokensUnlessMixed` says that nothing else does: not an overlap, a
  failure, a restart or a retry of unmixed requests.
* A POST of tokens on its way during a logout is the only thing that undoes the logout.
* Nobody regains lost powers on their own once their tokens have expired. A blocked
  administrator goes on changing roles at the authorization server, so blocking
  everybody is not the end; but once nobody may change roles and whoever may change
  blocks is blocked, nothing changes any more (`LeaderlessForever`).

Fairness. `AppServer`'s `FairSpec` is weak fairness of each thread's own steps: Crow's
threads run a handler to its end and no handler waits for another. `SignIn`'s is weak
fairness of each goroutine's and each web thread's steps: a call to another server ends
with an answer or an error, and neither server waits for the other to begin anything.
The code sets no timeout on these calls, so a peer that keeps a connection open and
never answers is ruled out by this assumption, not by the code. Nothing is assumed of
clients and browsers (no fairness on `Receive`, `Request`, `Authorize` or `Callback`) or
of failures. `EveryRequestAnswered`, `CompletedGetsMarked` and `SignInCompletes` are
checked without faults and without requests that end the process, after which nobody is
answered; `SignInAnswered` is checked with every call of the handlers failing that
`signin_agree` lists. With failures `OrphanedForever` and `StrandedForever` show they
are false.

Each property has in `PROJECT.json` a faulty variant of a step under which TLC finds
it violated.

## Proofs

The theorems hold for every set of users, tests, threads and rows, every choice of
requests and of failures, unless the table says otherwise. They rest on the
assumptions about the constants (`ConstantsAssumption`, `ReportsAssumption`,
`RolesAssumption`, `SignInAssumption`), which TLC evaluates in every run: finite
sets where something is counted, functions with their domains, `Nil` outside the
data, no question whose correct answer is the "not answered" one. The type
invariants of `Reports`, `Roles` and `SignIn` are proved and in no run.

| Module | Theorem | Property | Condition |
|---|---|---|---|
| `AppServer_proofs` | `TypeCorrectness` | `TypeOK` | |
| `AttemptSafety_proofs` | `AttemptsBounded` | `AttemptsBoundedByWorkers` | |
| | `FinishAcknowledged` | `FinishOkMeansMarked` | |
| | `AttemptsAdvance` | `AttemptsOnlyAdvance` | |
| | `OwnerWrites` | `OnlyOwnerWrites` | |
| `Drain_proofs` | `OrphansStay` | `OrphanedForever` | |
| | `QuestionsFollow` | `QuestionsFollowAttempts` | |
| | `ClosedFreezes` | `ClosedTestIsFrozen` | |
| | `ShutOutStays` | `ShutOutUserChangesNothing` | |
| | `DisbandedStays` | `DisbandedCourseGainsNoMember` | |
| | `OutsidersStayOut` | `OutsiderOpensNoAttempt` | |
| | `RequestsDrain` | the requests past a check only get fewer | |
| | `HandlersTerminate` | a request has at most eight calls and one per linked question to go, each counts down | |
| | `MarksOnTheirWay` | a completed attempt without a mark is at most two steps of its `finish` from it | `~Faults`, `Missing = {}`, `Phantoms = {}` |
| `Exam_proofs` | `SheetsStay` | `SheetIsFixed` | |
| | `MarksWithinAnswerable` | `MarkWithinAnswerable` | |
| | `FullSheets` | `CreateOkMeansFullSheet` | no `add_quest` is sent |
| | `SingleAttempts` | `SingleAttempt` | `~Pipelined` |
| | `MarksMatch` | `MarkMatchesAnswers` | `~Pipelined` |
| | `ExamImplemented` | `ImplementsExam` | `~Pipelined` |
| `Reports_proofs` | `ReportTypes` | type invariant | |
| | `OrderPlaced` | `OrderOkMeansPlaced` | |
| | `ReportsInterfereByDeathOnly` | beside `Reports`, `AppServer` is a server that may stop at any time (`MortalSpec`) | |
| | `ReportsImplementServer` | `Reports` implements `AppServer` | `Faults` (the deaths are then `AppServer`'s `Crash`) |
| | `SafeBesideReports` | `FinishOkMeansMarked`, `MarkWithinAnswerable`, `AttemptsBoundedByWorkers`, `AttemptsOnlyAdvance`, `OnlyOwnerWrites`, `SheetIsFixed`, `QuestionsFollowAttempts` and `OrphanedForever`, beside the reports | |
| | `DrainedBesideReports` | `ClosedTestIsFrozen`, `ShutOutUserChangesNothing`, `DisbandedCourseGainsNoMember`, `OutsiderOpensNoAttempt`, draining and bounded work, beside the reports | |
| | `ReportsImplementExam` | `ImplementsExam`, `SingleAttempt` and `MarkMatchesAnswers`, beside the reports | `~Pipelined` |
| | `OrphansBlockMarks` | `OrphanBlocksMarks` | |
| | `BlanksBlockAnswers` | `BlankBlocksAnswers` | |
| | `OrphansByDeath` | `OrphanedByDeathOnly` | `~Faults` |
| | `ReportsFinal` | `ReportsAreFinal` | `~Pipelined` |
| | `ReportsEnd` | a report has a bounded number of calls to go, each counts down | |
| `Roles_proofs` | `RolesTypes` | type invariant | |
| | `PowersGiven` | `PowerComesFromOthers` | |
| | `LeaderlessStays` | `LeaderlessForever` | |
| | `StrandedStays` | `StagedRoleStrands` | |
| | `RequestsEnd` | a request has at most three steps to go, each counts down | |
| | `ChangesGranted` | a role or block is changed as asked by a request let in with a token that grants it | |
| | `BlockedStayOut` | only somebody else, with the permission, unblocks a user whose requests have drained | |
| `SignIn_proofs` | `SignInTypes` | type invariant | |
| | `OwnUntilMixed` | `OwnTokensUnlessMixed` | |
| | `OwnTokens` | every session holds its own person's tokens | in behaviours in which no request mixes people |
| | `FirstSignInRegistered` | `FirstSignInHasRow` | |
| | `ExpiredIsSpent` | `ExpiredStateIsSpent` | |
| | `StaysSignedOut` | `SignedOutUntilAuthorize` | |
| | `StaysSignedIn` | `SignedInUntilLogout` | `"redis" \notin Faults` |
| `SignInSerial_proofs` | `AccountsBounded` | `AccountsBoundedByGoroutines` | `"find" \notin Faults` |
| | `AccountsUnique` | `UniqueAccounts` | `~Overlap`, `"find" \notin Faults` |
| | `RegistryImplemented` | `ImplementsRegistry` | the same and `"lost" \notin Faults` |
| | `StrandedStays` | `StrandedForever` | `~Overlap`, `"find" \notin Faults` |
| | `TablesStayInStep` | `TablesAgree` | `Reliable`: `~Overlap`, `KeyedIds`, no crash, no failed find, read or undo |
| | `NewcomersLockedOut` | `LostAnswerLocksOutNewcomers` | `Reliable` |
| | `RegistryDespiteLostAnswers` | `ImplementsRegistry` | `Reliable` |
| | `SignInRequestsEnd` | an `/authorize` has at most eight steps to go, a page four, each counts down | |
| | `NobodyWaitsInVain` | whoever waits for an answer to a registration has its request on the wire | |
| | `SignInsDeliver` | an `/authorize` ends only with tokens in its session's record | `~Overlap`, no fault on the way of the tokens (`Faults \subseteq {"auth", "undo"}`) |

For the properties of the runs the conditions are needed. With any one of them
dropped TLC finds a small instance that violates the property: two requests of one
student in parallel (`~Pipelined`), two sign-ins at once (`~Overlap`), a
`FindByEmail` that fails (`"find"`), an id column that is no key (`KeyedIds`), an
`add_quest` before a `create` (`FullSheets`), calls that fail where the death of the
server is to be blamed (`OrphansByDeath`), Redis out of reach (`StaysSignedIn`).
Lost answers alone do not break the `Registry`; they do together with an undo that
fails, a crash, a failing read or ids that are no key, which is why
`RegistryImplemented` excludes the lost answers and `RegistryDespiteLostAnswers` the
others.

How the arguments go.

* **Types.** `TypeOK` of the application server is not inductive: `finish` updates a
  field of a row that must exist, `create` inserts under the id it was given.
  `TypeInv` adds that the attempt a thread works on is there (`JobWellFormed`), and
  `OneThread` is the argument all steps share: a step that removes no row leaves the
  other threads well formed. `Roles!TypeOK` is inductive as it stands, its jobs being
  a union of the record sets of the program points.
* **A server that may stop.** `AppServer` lets the process die where calls may fail. The
  reports kill it in any case, so the invariants are shown of `MortalSpec`, which adds
  to `Next` a `Stop` that forgets the jobs; lemma `MortalX` is theorem `X` for it, and
  `SpecIsMortal` gives the theorem. `Miss` is such a stop too (`MortalCases`), and
  so is every death of a report (`DeathStops`). `MarksOnTheirWay` and `OrphansByDeath`,
  where the death matters, are the exceptions.
* **Attempts.** `JobsInv` says for whom a thread past its checks works and that
  `finish` completes before it marks. `StepEffect` is what one step does to the jobs
  and to the table; the three action properties and `FinishOkMeansMarked` follow.
  `AttemptsBoundedByWorkers` needs to count: the rows of a student at a test plus the
  threads about to insert one are never more than the threads (`RowsBounded`).
* **Draining.** `Guarded(w)` lists what each step of a thread has checked to get where
  it goes, once for all steps; everything that is not a step (`Calm`) changes no table
  and puts threads only at the beginning or the end of a handler. With `DrainInv`,
  which says where a check leads, "nobody is past the check" stays true by itself.
  That it comes about is the other half: the set of those past a check shrinks
  (`Draining`), and each of them ends, because `StepsLeft`, which counts the calls the
  handler has still to make, goes down with each of its steps and with no other. The
  rows `create` has to copy are those of its first query, so that a teacher adding
  questions meanwhile does not prolong it.
* **Sheets.** `SheetInv`: two threads never fill the same sheet, a row a thread has
  still to copy is not there yet, and a row of a version that is not the actual one
  has no answer. So rows are only added by the thread that opened the attempt, and a
  mark, which counts correct answers, counts rows that can be answered.
* **The examination.** With one request of each user at a time, what `set` and
  `finish` read before the check of the caller is still so when they use it, and a
  `create` that found no attempt is still right when it inserts (`UpToDate`): only the
  owner changes an attempt (`OwnerWrites`), and he has no second request. `Settled`
  then gives `SingleAttempt` and `MarkMatchesAnswers`, and each step maps to a step of
  `Exam` or to a stutter: the insert to `Open`, a copied row to `HandOut`, the write
  of an answer to `Answer`, the two writes of `finish` to `Close` and `Publish`.
* **Reports.** `OrderSafe`: the rows a handler has still to answer for have the place
  of the last mention so far (`PlacedSoFar`). A report changes no table of
  `AppServer`; its one effect on the other handlers is the end of the process
  (`ReportsInterfereByDeathOnly`), so that all that is proved of the server that may
  stop holds beside the reports too, and its invariants are there for the reports'
  own theorems (`TableInv`). What blocks a report stays because the requests that
  could undo it have drained, and a report that had still to read it fails
  (`MarksReplied`, `ReaderBehind`). `GradedInv` says that an attempt completed and not
  marked is orphaned or has its finish between the two writes, and only a death ends
  that finish. With one request of each user at a time a completed sheet and a mark
  are never written again (`FinalStep`), so what a desk has read is so (`Shown`).
* **Roles.** Powers are in tokens, in roles read for a token, and in roles; each
  step hands them on or takes them from somebody who has the right to
  (`EngagedNeedsPower`), so nobody without gains any (`PowerKept`). `Admitted` says
  that a thread past the first check has a token that grants what it is about to do;
  the token may have expired since. A check made while its user is blocked never
  succeeds, so once his requests have ended every unblocking is somebody else's.
* **Signing in.** `SignInInv` says what a goroutine at each point has in hand, whatever
  link it came with. A session that has its own person's tokens, and no others on
  their way (`OwnOnly`), can only be given others by a delivery that reads the map's
  entry after another person's request wrote it, or by another person's request
  itself: while none is there `OwnOnly` is kept (`OwnUntilMixed`), and without one for
  ever (`OwnTokens`). `AccountsBounded` counts: the
  accounts of an email plus the goroutines about to create one are never more than the
  goroutines (`BoundInv`). For sign-ins that do not overlap `SerialInv` says that the
  ids of the documents are 1 to n, all different, and that the document which may yet
  be removed is the last one; `RowsInv` that every row belongs to one of the documents
  or to a request still to be undone, so without lost answers a row is added once per
  person and id; `RegisterInv` that only a goroutine which created a document
  registers it, so once it is gone nobody does (`StrandedStays`).
* **Tables in step.** Under `Reliable` the documents are the settled ones and, while a
  registration is on its way, the last one. `AgreeInv` says that settled documents and
  rows agree and that no request outlives its goroutine; by `SettleStep` a step keeps
  both (`Keeps`) or settles one document by its row (`Settles`). A row with the id of
  the next document refuses that registration, the document is undone and the id is
  counted again: nothing can settle (`NewcomersLockedOut`). A row added and not
  settled is an entry of the `Registry` all the same, under an id no other row has.
* **Completing a sign-in.** `SoundInv`: without faults the entry of a state that asks is
  there and unexpired, and no handler has an account to undo. No row has the id of a
  registration on its way (`IdIsFree`), so it is accepted, and of all the ways out of
  the handler the one that delivers the tokens is left.

Only model-checked: what is said under fairness (`EveryRequestAnswered`,
`CompletedGetsMarked`, `SignInAnswered`, `SignInCompletes`); liveness is out of the
prover's reach. What is left to fairness is little: that a thread at work takes its
next step. That its steps are bounded in number, counted down by nothing but
themselves and end where they should is proved (`HandlersTerminate` and
`MarksOnTheirWay`, `SignInRequestsEnd`, `NobodyWaitsInVain` and `SignInsDeliver`).
Every other property of the runs is proved.

## Plan

Done: the application server's handlers that change shared state, the reports, the
roles, and the whole sign-in. Left:

1. Two application-server threads beside two reports, when a larger instance is
   affordable.
2. The scoring library against a reference definition, if a handler comes to use it.

## Not modelled

* The SQL text and the conversions of values to strings, HTTP and JSON parsing, JWT
  cryptography, OAuth providers, HTML pages, framework configuration.
* Handlers that only read and report rows (`get_users_list` of users and courses,
  `get_full_name`, `get_block_status`, `get_user_info`, which compares a `const char*`
  with `==` and so answers 400 whatever it is asked, the lists and infos of courses,
  tests and questions): what they read is in the model, and they keep nothing. Some of
  them take `[0]` of what may be empty too (`CourseRestController.cpp:110`, `:249`,
  `UserRestController.cpp:103`, `:131`, `:230`) and then end the process: for the tables
  and the other handlers that is a `MissTest` or a `Crash`.
* Handlers that only insert rows no other handler knows yet (`add_test`, `add_course`,
  `create_quest`) or change texts only (`set_course_info`, `set_quest_info`,
  `set_full_name`).
* `UserModificator`'s other modifications and `RefreshAccessToken`, which nothing
  calls; `matchAttemptExist`, which always answers false and only guards a read.
* The scoring library (`AppModuleRemake/src/test`), sequential and used by no
  handler; the exercises of `WebModule/learn` (a semaphore, a tree), which run on
  their own; the stand-alone tools (`NameGenerator`, `WifiHackUtils`,
  `SimpleDDosWithDynamicProxyFinder`).
