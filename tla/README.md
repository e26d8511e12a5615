# A verification of namorama

namorama proposes names that are still free as domains, and sells reports on
them. This directory holds TLA+ modules of the parts of it where concurrency,
failures and money meet, the TLC runs that check them on small instances, and
theorems about them that TLAPS proves for every value of the constants. Paths
below are relative to `src/`.

## The system

| Component | State it keeps | Operations | What is hard |
|---|---|---|---|
| Accounts (`api/src/users`) | the `user` row: free credits, pack credits, date of the last renewal, dates of the request for feedback and of its answer | `findOrCreate` at the start of almost every authenticated call (with the lazy monthly renewal), `decrementCredits`, `addExtraCredits`, `deleteAccount` | every operation reads the whole row, changes it in memory and saves it; requests overlap |
| Administration (`api/src/admin`) | `admin_mail`, `credit_adjustment` | `adjustCredits`, `setInternal`, mails by hand, dashboards, retention | whole-entity saves on rows in use |
| Payments (`api/src/payments`) | `stripe_event` (sessions processed), `paiement` (register of what was received) | checkout, `fulfillSession` (browser), `handleWebhook` (Stripe), `rattraperPaiements` | two endpoints for one fact, resent events, failures between statements |
| Domain search (`api/src/domain`) | per search: names checked, verified, retained, attempts | `findAvailableDomains`, the stream and its stop button, the transaction that bills | six workers share a queue and a count across `await`s; the client leaves; the credits change meanwhile |
| Framing (`web/src/app/components/wizard`, `api/src/domain`) | description, what was read in it, maximum, withdrawals, type, wishes | read the description, withdraw, set, log in, load, reset, ask for the search | two copies of one rule, two readings of one text, a page left and found again, a screen that moves before the request leaves |
| Registry gate (`api/src/domain`) | per extension: `active`, `queue` | `withRegistryGate` | hand-over to a waiter that resumes later |
| Availability probes (`api/src/domain`) | RDAP bootstrap, DNS witness per extension | `isDomainAvailable`, `probe`, `lookup` | shared promises, three sources in an order, each of which fails |
| Brand report (`api/src/brand-report`) | `brand_report_record` | `full` (find, generate, debit, store, answer), `shared`, `send` | overlapping purchases; failure between debit and storage |
| Projects and shares (`api/src/projects`) | projects, suggestions, shares | save, rate, analyse, add, invite, revoke, remove | several writers, whole-entity saves, access that changes during an operation |
| Feedback (`api/src/feedback`, `api/src/retours`, `api/src/admin/demande-de-retour.service.ts`) | `feedback`, dates on the user row | one-click answer (100 credits), award, reject, delete, hourly request | rewards given once, mail sent once, stops between two statements |
| Session replay (`api/src/replay`), funnel (`api/src/common/funnel`) | counters and sets in memory, rows | `recevoir`, `purger`, `visite`, `marquer`, `rattacher` | caps checked before an `await`; marks set before a write |
| Recorder and consent (`web/src/app/services`) | the choice (cookie and signal), the recorder of the page, `sessionStorage` of the tab | `evaluer`, `demarrer`, `emit`, `envoyer`, `stopper` | a library loaded in the background while the choice changes |
| Results screen (`web/src/app/components/wizard`) | cards, searches, project, wishes | search, stop, rate, analyse, type a name, load, reset, delete | answers in any order on a screen that went on |
| Report page (same component) | query parameter, history of the browser, report shown | open, buy, retry, close | address, heading and late answers |
| Language model access, usage accounting, mail, logging, authentication (`api/src/common`, `api/src/mail`) | rows of usage | adapters | outside calls |

They interact through the database and calls: the search and the report debit
the account through `decrementCredits` in their own transaction; payments,
feedback and the administrator add to it through `addExtraCredits` or a save;
the search asks the registries through the gate; the screen and the report page
call the server and take its answers in the order in which they come; deleting
an account or a project happens under all of them. The server is one Node
process, a page one event loop: a step of a model goes from one `await` or
callback to the next, and everything in between is atomic.

## The modules

| Layer | Modules | Composition |
|---|---|---|
| account | `Ledger`, `Accounts` | `Accounts` refines `Ledger` |
| money | `Payments`, `BrandReport` | – |
| search | `RegistryGate`, `Availability`, `DomainSearch`, `NamingRules`, `Framing` | `Availability` extends the gate and refines it; `Framing` extends `DomainSearch`, runs it and refines it |
| shared data | `Projects`, `Feedback` | – |
| visits | `Funnel`, `Replay`, `Visitor` | each extends the one before; `Visitor` runs all three |
| screen | `Cards`, `Wizard`, `ReportDialog` | `Wizard` extends `Cards` and runs both |

`MC...` modules hold the values of the constants, `...Proofs` the
theorems.

TypeORM's `save(entity)`, which most of the server relies on, is not one step:
it SELECTs the row, then UPDATEs the columns in which the entity differs from
that SELECT, with the entity's values, or INSERTs the entity if there is no row.
What a request read earlier, it writes later. `Accounts` models the statements
one by one, and `Feedback` those of the saves of user rows that cross it;
`Projects` and `BrandReport` a reading and a later save, which is enough where
two saves of one column are told apart only by what they had read. A share was
read without its project, and its INSERT needs one: the save of a share that is
gone fails.

### `Ledger` and `Accounts`

`Ledger` is what an account promises its owner: free credits renewed each
month, pack credits that only grants and spending change, spending that takes
the free ones first.

`Accounts` is one `user` row and the requests that use it. A request is *find*
(`FindExisting`, `AddExtraCredits`, ...: the entity is read and changed in
memory), *SaveSelect*, *SaveUpdate* or *SaveInsert*. `decrementCredits` runs in
a transaction whose snapshot its find takes (REPEATABLE READ), so its SELECT
returns what its find returned and only its UPDATE is a later step. The first
requests of a new account are `FindMissing`, `InsertWins` or `InsertLoses`,
`Reread`. `Repondre` is relative UPDATEs on the row, one step. `Restart` forgets
the requests in flight. With the constant `Isolated` set, a request starts only
when no other is in flight.

### `Payments`

Sessions at Stripe (external: paid, unpaid, paid later; the completion event is
resent until acknowledged) and requests on the two endpoints, each at one
statement: `check` (`isAlreadyProcessed`), `retrieve` (browser only), `mark`,
`credit`, `record`. `Fail` is a throw or a stop at any of them. `credited`
counts the additions of a session's credits.

### `RegistryGate` and `Availability`

`RegistryGate` is one gate. `granted` is the interval between the resolution of
a waiter's promise and its resumption: it is why the leaver must not decrement.

`Availability` is `isDomainAvailable` for the domains of one extension. Each
verification (`at`) awaits the witness of the DNS filter (`prefiltreUtilisable`,
one promise per extension), asks the DNS, passes the gate, and asks RDAP and
WHOIS in the order of `WHOIS_AVANT_RDAP`; RDAP first awaits the directory, which
one load serves for all and a failure closes for `BOOTSTRAP_RETRY_MS`. The
registry is right when it answers; the resolver, the directory, RDAP and WHOIS
may each fail at any time. `ServerForOther` is a verification of another
extension: the directory is common to all, the gate is not.

### `DomainSearch`

One search of one payer. `Generated` is the return of the language model (any
batch, with repetitions and excluded names), `NewItems` the filter that marks,
`Launch` the synchronous start of the workers, `Settle` the return of a
worker's registries with all that follows up to the next `await`: the second
look at the signal and at the count, the next candidate, or the end of the
attempt, the head of the loop (`StopReason`) and the controller's early return.
`Bill` is the transaction. The stop button, the clock, the payer's other
spending and the removal of the project happen at any time.

### `NamingRules` and `Framing`

`NamingRules` is the rules of a search's terms: the bounds of its names
(`BornesDeLongueur` of the server and its double `BornesAffichees` of the
screen, two definitions as they are two functions), the demands withdrawn
(`RetirerContraintes`), the wishes on earlier names (`AppliquerRetours`) and the
filter of the names (`RespecteLesContraintes`). A demand (a word or an ending to
avoid, a word to hold) is a model value, and a name breaches some of them.

`Framing` is what leads to a search. On the screen: the description, the
readings awaited and the one displayed, the maximum and the type set over it,
the withdrawals, the project opened or reset. `FindDomains` is the button,
`Return` the way back from the login (`wizard_state`), `Send` the request, made
of the screen as it is once the token has come. `ServerReads` is the server's
own reading, which may differ from the screen's, and the terms it draws from it;
`ServerGenerates` is `Generated` of `DomainSearch` with the names the filter let
through, and every other step of `DomainSearch` is taken as it is.

### `BrandReport`

Overlapping `POST /brand-report` for one name of one payer, each at `find`,
`generate`, `debit`, `saveFind` or `saveWrite`. A failure of the store is
swallowed where the code swallows it. Tokens are numbered as they are drawn.

### `Projects`

One project, its suggestions and its shares, used by its owner and by guests.
`Role` is `accessFor`; its side effect, the first opening noted by a save nobody
waits for, is `Noted` and later `Accepted`; the save of a share that was revoked
since fails (`IsThere`). Every other request is a *Read* (what
it may do and the rows it works on) and a *Saved*: `invite`, `update`, a search
that appends its names, `addManualSuggestion`, `setRating`, an analysis.
`update` reads the project with its suggestions and saves both: those that came
in between lose their project (`attached`). `setRating` saves a whole
suggestion. A removal deletes the suggestions, then the project. A column holds
the number of the request that set it, so that a stale write is visible.

### `Feedback`

The passage of `DemandeDeRetourService` (selection of at most `LOT_MAX`
accounts, the oldest first; then, one by one, the reservation `UPDATE ... WHERE
demandeRetourAt IS NULL`, the mail, its trace), the mails an administrator
writes by hand, the link that unsubscribes, and the feedbacks: written,
awarded in two statements (`Pay`, `Mark`), rejected, deleted, each on the row
as it was read. Only the automatic mails carry that link. `VisitReads`,
`VisitSelects` and `VisitSaves` are the save of a whole user row by any other
request of the account, which writes the dates back as it had read them.
`Stop` is a stop of the server between any two steps.

### `Funnel`, `Replay`, `Visitor`

`Funnel` is the journal of visits: `dejaEcrit` notes a step as written before
its `INSERT ... ON DUPLICATE KEY UPDATE` runs, statements race and fail, and the
row of a visit is inserted by whichever comes first, the beacon, a step, or the
link to the account. Dates are only compared, so a row keeps the accounts that
existed when it was inserted, and `before` those that existed when the visit
began. `lien` is the account whose link was noted.

`Replay` is the reception of a batch: the visit is known (`visiteConnue`), its
total is read, cached and compared (`totalDeLaVisite`), the day's is compared,
the batch is inserted unless its number is there, and only then counted, each at
its own `await`. `Purger`, `ViderTotaux`, `Minuit` and `Redemarrer` are what
happens to the caches.

`Visitor` is the pages of a visit and runs the two above. The choice is a cookie
all tabs share and a signal of each page; `Effet` is the task in which the
recorder hears of it (`evaluer`), `Demarrer` the end of the import of rrweb,
after which the conditions are read again. The number of the segment lives in
`sessionStorage`, which a duplicated tab starts with a copy of.

### `Cards` and `Wizard`

`Cards` is the list of names on the results screen: a rating is shown at once
and recorded later (`SetRating`, `VoteReaches`, `VoteAnswered`), kept on the card
until the card has its id (`pending`); a card seen and saved is analysed in
batches, one at a time, after a delay of regrouping (`Collect`, `EnvoyerUnLot`,
`BatchAnswered`) or from its button; a name typed in is checked, added (or found
in the project, and its id taken), then liked. A card is replaced by a copy when a batch touches it, so the answer to a
vote may hold a card nobody sees (`stale`).

`Wizard` is the project on the screen, the streams of searches (waiting for a
token, open, done, failing, ended), the stop button, the dialog of the timeout,
the loads, resets and removals of projects, and the wishes. Loading or
resetting does not end a stream: `Opened`, `Result`, `Done` and `Complete` act on
whatever is displayed when they come, as the code does. `drawn` are the ids of
projects given so far: a search without a project gets a new one (a UUID).

### `ReportDialog`

The report page: the query parameter `rapport`, the history of the tab, the
`location.back()` still to be done, and what the component holds
(`brandReportName`, `brandReport`, `preloadedReportName`, `reportUrlPushed`,
`showReportDialog`). The visitor comes by the list, by the address of a report, or
by that of the sample, whose name may be bought like another (`SAMPLE_NAME`).
`SyncReportFromUrl` and `LoadReportInto` are the methods of
those names; `FullFind`, `FullDebit`, `FullRefuse` and `FullFail` are what the
page can tell apart of `BrandReport`.

## The runs

| Run | Shows | Bounds, and why they are enough |
|---|---|---|
| `MCAccounts_money` | pack credits are never minted; the race of first requests surfaces no error; a debit spends the pack of the row last, unless another request wrote the free credits since its read | two requests (every race here is between a stale request and one other), two months, two rows (one deleted and re-created), a quota of 1 with costs 1 and 2, so both branches of the debit are taken |
| `MCAccounts_isolated` | without overlap, the account implements `Ledger`, and an answer is rewarded once | three months, two rows, adjustments down and up |
| `MCPayments_fulfilment` | register, bound on the credits, strangers; with fairness, every completed session is processed, and credited if nothing failed | two requests at once (webhook and browser, or twice the same), two failures, one session: sessions share nothing |
| `MCAvailability_probes` | the limit and the order of the gate, the truth of the verdicts, one load of the directory, every verification answers | three callers for one place (a queue of two, with a middle when one hands over), three verifications, one delay that passes; every combination of wildcard, RDAP server and order of the protocols |
| `MCDomainSearch_search` | the search applies what the screen announced; what it retains, why it stops, when it bills, that it hears the stop button, that a search asked for is answered | two workers, two extensions, three names, a target of one or two, two attempts. Two kinds of behaviour (`MCBudgets`): the screen left alone, with batches of up to three names, the stop button, the clock and other spending, so that a name waits, two match at once, the target is met or missed; or three gestures on the screen and batches of one name: a setting, a reading or a project, and what crosses it. Two descriptions, one read in three ways (nothing, below the floor, above it), wishes for shorter or longer names, a word the filter sees and one it does not |
| `MCBrandReport_paid` | every debit is served, the report is paid once per overlap, the share link of a returned report opens it unless its own INSERT failed | two requests, three reports' worth of credits, a clock past the refresh interval, one failure of any kind |
| `MCProjects_shared` | rights follow the owner's last word, what was stored is kept, what was removed stays removed, but in the crossings the properties name | an owner and a guest, a name of a search and a name typed in, five requests: a read, a change in between and its consequence, twice |
| `MCFeedback_requests` | every eligible account is asked, once per reservation; who unsubscribed is left alone; a feedback is paid as it is marked | two accounts and passages of one, so that one waits for the next, and one stop; then either two saves of whole rows and a mail by hand, or one feedback and three gestures of the administrator (`RowsOrFeedbacks`): three requests on one feedback |
| `MCVisitor_recorded` | the consent governs the recorder, the caps hold up to the overlap, segments do not mix, the funnel loses nothing it noted, the sign-up is dated | a tab and its copy, two accounts, caps of one batch, two batches in flight, and budgets (`MCBudgets`) that give a behaviour many calls, or many gestures, or an incident and events: each race needs few of each |
| `MCWizard_screen` | one project on the screen, what it shows is recorded, each analysis is asked for once, the screen settles | two names, two projects of which one exists, three gestures crossed with every order of the answers: a search, something that disturbs it, and its consequence. A fourth only types in a name under analysis that a new search took off the screen (`FourthTypesAgain`), which takes that many |
| `MCReportDialog_page` | one name on the page, the button stays on the site, a name is paid once, but in the cases the properties name | any arrival, two names of which one is the sample's, two reports' worth of credits, seven gestures, two purchases: open, leave, come back and buy |
| `MCReportDialog_late` | *violation*: a report on the screen without its address | six gestures (two are enough) |

Deadlock is checked in the runs of `Accounts` and `BrandReport`. The other
systems may really stop, or their bounded inputs run out: `Payments` once the
accounts are deleted and the session is over, `DomainSearch` once the search is
over, the others once nothing is left to answer and the gestures, calls or
verifications of their bounds are spent. The action constraints of two runs
(`RowsOrFeedbacks`, `FourthTypesAgain`) are bounds on the gestures, requests and
visits of people, which no fairness condition asks for.

A definition marked `Mutant` is a plausible mistake in the definition that
follows it. `PROJECT.json` pairs each property of a passing run with a mutant
that violates it, so that no property holds by the shape of the model alone.

### Where the code stops short

A property of a passing run that has an exception names, in a history variable, the
exact circumstances in which the code does not give what one would expect. They are
the known limits of the code, and each was met as a counterexample of the property
without its exception. Where a comment, a test or a specification of the repository
says otherwise, the sentence is quoted:

- A stale whole-entity save can erase a purchase
  (`api/src/users/users.service.ts:190`, `240-246`), although pack credits are
  "permanents" (`user.entity.ts:25`): hence `Ledger` is implemented by isolated
  requests only. It can also erase `utiliteAt`, "posée une seule fois, c'est le
  verrou des 100 crédits" (`user.entity.ts:84`): `RewardedOnce` holds without
  overlap, and a stale save makes a second answer be rewarded. And a save begun
  before the deletion of the account inserts the row again.
- `isAlreadyProcessed` and `markProcessed` are two statements, and the mark is a
  `save`, which accepts an existing row: webhook and browser both credit.
  `CreditsBoundedByOverlap` says by how much at most. The mark precedes the credits:
  a failure in between loses them (`CompletedIsCredited`, without failure).
- The search ignores the `-1` of `decrementCredits`: names are saved unpaid when the
  payer spent the credits meanwhile (`PaidUnlessSpentElsewhere`).
- The server reads the description a second time, and a language model may read it
  otherwise than the screen showed: only the settings and the withdrawals are sure
  to be applied (`AnnouncedIsApplied` and `SettingsPrevail` in `Framing`).
- `loadProject` keeps the reading and the withdrawals of the description that was
  there before, and a reading is displayed whichever description it was asked for:
  the screen may show bounds that are not those of the search, although
  `bornes-affichees.ts:7-9` says they cannot diverge. What moves the screen between
  the click and the request is sent unannounced (`crossed` in `Framing`).
- The filter does not see a word to avoid with an accent, which no name has, nor one
  of two letters (`Unseen`). Withdrawing one with an accent is refused with the
  whole search (`Unwritable`, `search-domains.dto.ts:108`), although a misread
  demand "ne doit pas coûter une recherche" (`domain.service.ts:518-519`).
- The loser of two first purchases of a report is debited, too
  (`PaidOncePerOverlap`), and receives a share token that no row has, although
  `brand-report.store.ts:73-74` "garantit un jeton de partage stable, embarqué dans
  le rapport renvoyé". So does a purchase whose INSERT fails (`unsaved` in
  `ReturnedTokenOpens`).
- A lost witness is taken for a zone without a wildcard, for the life of the
  process: every name of a wildcard zone is then "taken" (`blind` in
  `VerdictIsTrue`).
- A save in flight of a share, a project or a rating puts back what it had read: the
  right a share had when its first opening was noted, if the owner changes it
  meanwhile, a suggestion without its project, a project that was removed
  (`crossed`, `exposed`, `leaving` in `Projects`). A revoked share does not come
  back: its INSERT lacks the project.
- `remove` asks for no right to write (`projects.service.ts:287`): a guest with the
  right to read removes the project (`RemoveRead`), although "un accès en lecture ne
  modifie rien" (`partage.spec.ts:6-7`).
- An award that fails between its two statements, or crosses another, is paid and
  not marked, or twice (`crossed` in `Feedback`); an account that unsubscribes once
  it is selected is still written to (`late`).
- A stale save of the user row (`users.service.ts:190`) erases the reservation of
  the request for feedback, which "garantit un seul envoi par compte"
  (`user.entity.ts:76`): if the trace of the mail failed, or was not written yet,
  the account is asked again (`erased` in `AskedOnce`). It erases an unsubscription
  that was confirmed as well, and the account is written to again, although it "MUST
  NOT recevoir de nouvelle demande"
  (`openspec/changes/demande-de-retour-automatique/specs/retours-utilisateurs/demande-de-retour/spec.md:106`).
- A refusal "arrête l'enregistrement pour la visite" (`session-replay.ts:50-51`),
  but only the page remembers it (line 80): after a reload, the recorder starts
  again in the same visit. `RecorderFollowsTheChoice` therefore speaks of a page.
- A batch whose totals were read while another was under way passes the caps
  (`crossed` in `Replay`); a duplicated tab numbers its segments like the tab it was
  copied from (`copied`).
- The link of a visit is noted by visit, not by account
  (`api/src/common/funnel/funnel.service.ts:164`): a second account of the same
  visit is neither linked nor counted as a sign-up until the server restarts,
  although this cache "n'évite que le trajet" (`funnel.service.ts:65-66`).
  `JournalIsTrue` speaks of the account whose link was noted (`lien`).
- A search or a load left behind writes its names, its project and its wishes on the
  screen that followed (`strayed` in `Wizard`). A rating may be shown and not
  recorded when votes cross or an answer is lost (`doubtful`). A name that is being
  analysed when its list is loaded anew can be sent to the model again, and so can
  one that is typed in after a new search cleared the list: `addManualSuggestion`
  answers the row that exists (`projects.service.ts:233-237`), and the card takes
  its id (`wizard.ts:3040-3042`) (`relisted`).
- The report page takes an answer without a look at what is on the screen (`strayed`
  in `ReportDialog`): a purchase accepted after Back or Forward is for another name
  than the popup asked about, a purchase asked for while another is awaited is
  silently skipped, and a report may be shown without its address
  (`MCReportDialog_late`), which the close button cannot leave. The retry of a
  purchase the client gave up waiting for is a second purchase
  (`PaidOnceUnlessGivenUp`), although `wizard.ts:1375` says "sans re-débit
  (idempotent côté API)". The wizard takes the entry the visitor came by for one it
  pushed in two cases (`misjudged`): a report bought or opened at the address one is
  at, where the navigation pushes nothing, and a return by the browser from a report
  that was pushed to the one the visitor came by. The button then may leave the
  site, on the direct arrival for which `wizard.ts:862-864` promises that it does
  not: who comes by the address of a report and buys it there is taken off the site
  by the button.

### Fairness

Every fairness condition is weak, except where Stripe resends an event, which
finds the server busy from time to time.

- `Payments`: a request goes on, and Stripe resends an event it got no answer
  for; nobody is forced to pay, to come back to the page or to run the catch-up.
- `Availability`: the witness, the load of the directory and each verification
  go on, since every outside call has a timeout and the event loop resumes
  whoever it can; nobody is forced to start one.
- `Framing`, `DomainSearch`: the token comes or not, the event loop goes on and
  every outside call answers or times out; the user, who may never come back from
  the login, the readings on the screen, the clock and the payer's other requests
  are free.
- `Feedback`: the hourly timer fires and a passage goes on. Stops are bounded:
  a server that always stops asks nobody.
- `Wizard`: requests are answered or fail, and timers fire; nobody is forced to
  do anything, and no name need ever come.

## The proofs

Every proof has one step or one lemma per action; lemmas state once what the
helpers return.

`AccountsProofs`, for every number of requests, quota, cost, grant and bound:

- `TypeCorrect`: `Spec => []TypeOK`. The type invariant is inductive. The one
  delicate part is `SaveUpdate`: the merge of a stale entity into the row takes
  each column from one of two well-typed rows.
- `NeverMints`: `Spec => []NoMinting`. The row alone is not enough: a stale
  entity will be written later. The inductive invariant `Backed` says that the
  entity of every request holds no more pack credits than were granted, too;
  grants are counted when the entity is changed, before it is saved.
- `IsolatedImplementsLedger`: `Isolated` implies `Spec => ImplementsLedger`. The
  inductive invariant `IsolatedInv` says that at most one request is in flight
  (`OneAtATime`) and that what it holds is about the row as it is (`UpToDate`):
  its entity is the row, the renewed row, or the row after one grant, adjustment
  or debit (`Outcome`). Hence a save writes its whole entity
  (`UndisturbedSave`) and is one step of `Ledger` or a stutter
  (`OutcomeIsLedgerStep`); reads and SELECTs stutter.
- `OnlyDeletionBreaks` (`OnlyDeletionBreaksARequest`): as long as no account was
  deleted, `Undeleted` holds: once there is a row it keeps its id, and whoever
  holds an entity holds one of that row, so nothing is looked for in vain.
- `DebitSpendsPackLast` (`PackIsSpentLast`), an action property, from `FreeFirst`: what
  a debit under way will write differs from the pack it read only if no free
  credit is left in its entity. The UPDATE names the columns that differ from the
  read, so the row gets that pack with no free credit, or with those another
  request wrote since.
- `IsolatedRewardsOnce`: `Isolated` implies `Spec => []RewardedOnce`. `AnswerIsMarked`
  says that a rewarded account bears the mark; it is inductive with `IsolatedInv`,
  since every `Outcome` keeps the mark (`OutcomeKeepsTheAnswer`).

The second half of `AccountsProofs` is the requests for feedback (`Feedback`), for any
accounts, any size of a passage and any bounds:

- `OneRequestPerReservation` (`AskedOnce`, the safety half of `AskedExactlyOnce`) from
  `AskInv`, whose core is `AskBound`: each request that left or is leaving has a
  reservation of its own, one that stands, or that a delivered mail stands for, or
  that a save of an older row erased.
- `UnsubscribedLeftAlone` (`UnsubscribedIsHeard`) from `HeardInv`: whoever a mail
  is being written to and has unsubscribed is among the late.
- `PaidOnceAndMarked` (`PaidAsMarked`) from `PayInv`: an uncrossed feedback has one
  request at most (`OneRequest`), and is paid as often as it is marked or being
  marked (`PaidOrBeingMarked`).

`PaymentsProofs`, for every number of sessions, accounts and overlapping
requests, and every bound on the failures; assumed: each session has one owner,
and finitely many requests run:

- `RegisterIsMoney` (`RegistryIsCashed`), `MarkBeforeCredits`
  (`CreditedIsProcessed`) and `OverlapBoundsCredits`
  (`CreditsBoundedByOverlap`) come from one inductive invariant, `PayInv`. Its
  core is `MarkedIsBounded`: once a session is marked, what was credited plus
  the requests that passed the check and may still credit it never exceed the
  requests there are. Marking starts the count from nothing
  (`CreditedIsProcessed`), crediting moves one request from the second term to
  the first, and the mark lets nobody else pass. `CreditsBoundedByOverlap`
  alone is not inductive: it forgets who passed. `PaidIsTrue` (a request that
  believes its session paid is right for ever) gives the register.
- `StrangersKeptOut` (`StrangersProcessNothing`): a second invariant,
  `OwnersPass`, says that a request at the mark acts for the owner.

`BrandReportProofs`, for every number of overlapping requests, every cost,
balance and spending, and every bound on time and failures:

- `CostKept` and `ReturnedTokens` (`CostIsKept`, `ReturnedTokenOpens`) come from
  `ReportInv`, which relates what each request holds to the store
  (`HandlerFits`): only a refresh goes round the debit, there is a report to
  refresh, and what a save found is still the stored token and cost. No step
  changes the stored token (`TokenKept`), so a link that opened the report when it
  was returned (`TokenReceived`) goes on opening it.
- `NoDebitForNothing` and `PaidOnce` (`DebitedIsServed`, `PaidOncePerOverlap`)
  add `PaidBeforeStored`. As long as nothing is stored, every debit is still
  owed, failed or was cut short by a restart; once a report is stored, the
  debits plus the requests that passed the store before (`MayDebit`) never
  exceed the requests there are, the failures and the restarts. The moment the
  report is stored turns the first bound into the second, because who owes and
  who may be debited are different requests (`OwedAndMayDebit`).

`AvailabilityProofs`, for every number of callers and every limit above zero, first
the gate:

- `LimitKept`, `CountIsExact`, `NoPlaceWasted` and `NobodyLost` prove the four
  invariants of the gate from `GateInv`. `NeverOverLimit` needs all of the
  rest: a caller resumed from the queue does not look at `active`, so the count
  must include those who were handed a place and have not run yet
  (`PlacesAreCounted`), and the head of the queue must be somebody who waits and
  is there once (`QueueHoldsTheWaiting`, `QueuedOnce`).
- `ServedInOrder` (`FirstComeFirstServed`) is an action property of the same
  invariant: a free place means an empty queue, so nobody enters past a waiter.

Then the probes, for every bound:

- `ProbesUseTheGate`: the verifications implement `RegistryGate` (each step of
  theirs is a step of the gate or leaves it alone), so the theorems above are
  theirs: `ProbesKeepTheLimit`, `ProbesKeepTheirOrder`.
- `VerdictsAreTrue` (`VerdictIsTrue`) and `DirectoryIsSpared`
  (`BootstrapIsSpared`) come from `ProbesInv`. `FilterIsWarranted`: a filter in
  use is one of a zone without a wildcard, or of a zone whose witness was lost.
  `LoadsAreOwed`: a load that ended left a directory or a delay behind, and one
  more is asked for only once a tick took it away; the bound on the loads alone
  forgets who waits.
- `ProbesTypes` is the type invariant of the gate and the probes.

`ProjectsProofs`, for any number of guests, names and requests:

- `RightsKept` (`RightsAreTheOwners`) from `RightsInv`. `NotesAreCurrent`: the note of
  an opening on its way holds the right its share has, unless the owner changed it
  since; and it never fits another share, because the identifier of a share is the
  call that made it (`IdsAreFresh`).
- `RemovedForGood` (`RemovedStaysRemoved`) from `GoneInv`: no update is in flight
  once the project is gone uncrossed, and only an update inserts it again.
- `WorkStored` (`WorkIsKept`), an action property, from `WorkInv`: what an update
  or a rating in flight will write agrees with every row that is not exposed
  (`UpdatesAgree`, `RatingsAgree`), and an addition in flight is of a name that is
  not there (`AddsAreNew`).

`DomainSearchProofs`, for any names, extensions, batches, targets and attempts,
any balance and any finite number of workers; assumed: the constants are natural
numbers, the target and the attempts above zero. `SearchInductive`: `SearchInv`
is an invariant of the search. Its parts, each needed by the next:

- `InOrder`: what is verified or queued is marked, each name once, and none of
  the excluded names is: the queue alone would let a name come back in a later
  batch.
- `AtWork`: a candidate is in the hands of one worker, is verified already, and
  nobody waits outside an attempt.
- `RetainedOnce`: a retained name is free where it must be, was verified, and is
  there once.
- `GoesOn` and `ReasonTold`: the loop is where it is for a reason, and the
  reason it gave when it stopped still holds.

From it: `RetainsAsAsked` (`RetainedAsAsked`), `StopsTruly`
(`StopReasonIsTrue`), `BillsUnlessSpent` (`PaidUnlessSpentElsewhere`) and the
action property `HearsTheAbort` (`AbortIsHeard`).

Then the framing, for any floor, maxima, descriptions, readings, wishes and demands;
assumed: the floor is at most the default maximum and the cap of a minimum, a maximum
of the selector is at least the floor, and a reading with both bounds has them in
order, as the server swaps them. `FramedSearchIsASearch`: `FramingSpec => Spec`, so
the theorems above hold of a framed search. `FramingInv`, with `AsAnnounced` (nothing
moved the settings since the click, through the login too) and `Applies` (the terms
are those of what was read, and every name marked and not excluded passed the filter
with them), gives `FramedAsAnnounced` (`SearchIsAsFramed`). `BoundsFit` and
`WishPrevails` say what the rules return. A retained name conforms because the search
retains only what it marked (`InOrder`, of `SearchInv`): the framing needs the search.

`VisitorProofs`, for any number of tabs, visits, accounts, batches and events, and
any caps; assumed: the caps and the budgets are natural numbers, and the values
that stand for "nothing" are none of the others. `VisitorTypes` is the type
invariant of the three modules.

- `RecorderFollows` (`RecorderFollowsTheChoice`) from `RecorderInv`: every open page
  is `Sound`. It records, or keeps what it recorded, only if it may or has not heard
  yet that it may not; and a page that may, has heard so and loads nothing records,
  unless the library failed to load. `Evaluer` makes any page sound
  (`EvaluerSound`), which is why it is run after every change.
- `SegmentsArePages` (`SegmentIsOnePage`) from `TabsInv` and `KeysInv`. The number of
  a segment comes from its tab, so a visit that was not copied must be in one tab
  (`OneTab`), and what was sent must come from a page of that tab, numbered no
  further than the tab has gone (`Origin`). The recording page owns the last segment
  and is ahead of what it sent of it (`CurrentSegment`): hence one page per segment
  (`OnePage`), and a batch to insert that is neither in the table nor twice on
  the way (`KeysNew`, `KeysUnique`).
- `JournalStaysTrue` (`JournalIsTrue`) from `JournalInv`: rows and statements are no
  older than their visit (`RowsAreDated`), and the link that was noted is still to be
  written, was lost, or its row tells whether the account is newer (`LinksAreDated`).
  It showed that the sign-up of a second account goes uncounted, and that the run
  needed two accounts to see it.
- `CapsHold` (`CapsBoundedByOverlap`) from `CapsInv`. The caches lag behind the table,
  because a batch is inserted before it is counted. Each bound therefore adds to what
  is stored the batches that may still be inserted, and allows one for every batch
  that crossed another (`crossed`) and one more while a batch is not yet counted
  (`Slack`): `VisitCounted` and `BatchCounted` for the totals of a visit, `DayCounted`
  and `DayForgotten` for those of the day before and after midnight, and
  `OverlapIsCounted` for `crossed` itself.

The second half of `BrandReportProofs` is the page of the report (`ReportDialog`), for
any number of names, gestures, purchases and late answers; assumed: the values that
stand for "no name" and for the sample are no names. `DialogTypes` is its type
invariant, with what a retry needs: one purchase awaited at most, and a name to repeat
(`Remembered`).

- `ButtonStays` (`ButtonStaysOnSite`) from `ButtonInv`, for any arrival: until the
  wizard has misjudged an entry, there is below the entry the tab is at one for
  every `location.back()` still to be done, and one more if the wizard pushed it
  (`RoomToPop`).
- `PageIsOfOneName` (`OneNameOnThePage`) from `NamesInv`: what the address asks for is
  the name of the page, displayed or awaited (`Headed`), as long as nobody awaited is
  elsewhere.
- `DialogPaysOnce` (`PaidOnceUnlessGivenUp`) from `PurchaseInv`: as long as a name is
  not bought, the purchases nobody waits for were each given up; once it is, the debits
  and the purchases that set out before (`UnderWay`) never exceed those given up by
  more than one (`PaidByName`). The first debit turns the one bound into the other,
  since one purchase at most is awaited.

`WizardProofs`, for any names, projects, size of a lot and number of gestures;
assumed: the value that stands for null is no project and no rating, and the projects
that exist at first are among those there may be. `WizardTypes` is the type invariant
of `Cards` and `Wizard`.

- `AnalysesSpared` (`AnalysesAreSpared`) from `AnalysesInv`. A suggestion under
  analysis is not offered again because its card, if it is displayed, does not offer
  it (`AskedAreShown`); and no card can come into the id of such a suggestion without
  its state, because whatever is under analysis is stored already
  (`AnalysedAreStored`) while an id is given to what was not. That rests on the ids
  of projects never being drawn twice (`drawn`): they are UUIDs. Two ways are
  left (`relisted`): a list that is loaded anew, whose cards come without an
  analysis, and a name typed in after a new search, whose card takes the id of
  the row that exists.
- `ScreenOfOneProject` (`ScreenIsOneProject`) from `ScreenInv`: until a search or a load
  is left behind, the screen is `Calm`. One request at a time has it (`OneAtWork`), so
  what comes is of the project displayed (`SearchIsOfTheScreen`); a wish becomes a
  chip when the search ends, so the wish that waits must be that of the search under
  way, and what the search sent must be the chips and that wish (`WishesAreSent`).
- `ShownIsRecorded` (`DisplayedIsRecorded`) from `RatingsInv`, which rests on the three
  others. Between a click and its answer the property says nothing of the card:
  `Recorded` says what the vote in flight will write, and what it will restore if it is
  refused; `Unsent` says what a card without its id keeps for later, which `Done` turns
  into votes on the ids it gives. At most one request is about a name that is not
  doubtful (`OneRequest`).

The constants need no more than natural numbers, bounds above zero where the
code has them, and finiteness where a cardinality is taken: each module names its
assumption, and TLC evaluates it in every run.

### Only model-checked

- The liveness properties `CompletedIsCredited`, `EveryCheckAnswers`,
  `AskedIsAnswered`, `ScreenSettles`, and `EveryoneIsAsked` in `AskedExactlyOnce`:
  liveness under fairness and `ENABLED` are out of the prover's reach. Nothing here
  needs an induction over data: no definition is recursive.

## Not modelled

- What names, briefs, verdicts, mails, pages and logs contain; the language
  model, Stripe and the registries beyond what they answer. What a report is
  made of and how its score is computed.
- `ensureStripeCustomer` (`api/src/payments/payments.service.ts:49`): two checkouts
  at once of a user without a Stripe customer create two customers, and the
  second overwrites the first. Nothing modelled reads the customer.
- The rest of the user row: the profile, the journal of active days, the internal
  mark. They share the hazard of the whole-entity save, which `Accounts` shows on
  the columns that hold money.
- In the framing: the reformulation of the description, the keywords, the reference
  brands, the market; the setting of a minimum and the withdrawal of a length, which
  the screen no longer offers; a reset of a project between the click and the
  request.
- On the results screen: the second verification of a card, the advice `helpMePick`, the badges of whose name it is.
  `addManualSuggestion` may store two rows of one name; the model's names are
  distinct.
- A choice withdrawn in another tab is not heard by the recorder of this one
  until its next visit: modelled, and no property forbids it. A first batch
  refused because its beacon has not arrived is lost, which the code accepts.
- Dashboards, statistics, retention, trademark and social checks, the accounting
  of the language model, login and configuration: reads, adapters and SQL, with no
  state that several steps share. Much of the repository is this, and templates,
  content pages and prompts.

## Plan

Every safety property of the runs is proved. What is left:

1. The second verification of a card and the advice, added to `Cards`.
2. An abstract specification of a project's rights and content, that `Projects`
   implements as long as nothing crosses, as `Accounts` implements `Ledger`.
3. That a failed analysis is not tried again by itself, but from the button of the
   card (`launched` in `Cards`): modelled, and no property says so yet.
