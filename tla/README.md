# A TLA+ model of OpenDogShow

This directory specifies the parts of OpenDogShow whose correctness depends on
interleaving, failure, retry or precedence, checks them with TLC and proves
the central ones with TLAPS. Paths are relative to `src/`, the root of the
repository; `Shared/`, `sample/`, `iam/` and `rulesets/` are under `src/`.

## The system

OpenDogShow is a hexagonal TypeScript monorepo. Contexts (`sample`, `iam`,
`rulesets`) have a domain model, use cases and adapters; `Shared` holds the
kernel they stand on. There is no host application yet, so what calls a use
case, or a dispatcher's `poll`, and how often, is open.

| component | state it keeps | operations | hard behaviours | module |
|---|---|---|---|---|
| Outbox dispatcher (`Shared/infrastructure/messaging`) | outbox rows: `dispatched_at`, `attempts`; row locks | `poll`: select, handle, acknowledge or record a failure, count | several dispatchers, crash between steps, dead connections, hanging handlers, poison pills | `OutboxDispatcher` |
| Transactions and outbox writer (`Shared/infrastructure/persistence/postgres`) | the open transaction, RLS session keys, pending facts | `withTransaction`, `withOutboxTransaction`, `PgOutboxWriter.write` | failure at any statement, lost COMMIT answer, a small pool | `UnitOfWork` |
| Sample context (`sample/`) | tables items, notes, tickets, announcements | four create and four rename use cases | two callers on one row, optimistic versions, row-level security | `UnitOfWork` |
| In-memory unit of work (`sample`, `iam`) | a Map of rows, an undo record per run | `run`, `findById`, `add`, `update`, rollback | runs interleave at every `await` and see each other's uncommitted rows | `InMemoryUnitOfWork` |
| IAM (`iam/`) | users, role grants per user | authenticate, suspend, reactivate, grant, revoke | two first logins at once, login against suspension, lost revocation | `IamAccounts` |
| Identity query (`iam/application/identity-query`) | none | `findIdentity` | two reads with changes between them | `IdentityQuery` |
| Effective ruleset (`rulesets/domain/model`) | editions of layers; a pinned snapshot | publish, in force, merge, validate | precedence of layers and dates, dangling references, feeder cycles | `EffectiveRuleset` |
| Award policy (`rulesets/domain/service/fci`) | none: pure functions of a snapshot and results | eligible awards, validation of award choices | two answers written apart, grades on several scales, opposite sexes | `FciAwardPolicy` |
| Class eligibility and calendar (the same directory, and `LocalDate`) | none: pure functions of a class, a profile and two dates | completed months, eligible classes | short months, leap days, boundaries between classes | `LocalDates`, `ClassEligibility` |
| Bundled editions (`rulesets/infrastructure/persistence/bundled`) | three constant editions | - | a layer that replaces items of another one as a whole | `BundledRulesets`, `BundledShows` |
| Collective policies (`rulesets/domain/service/fci`) | none: pure functions | collective awards | counting rules | not modelled |
| Event codec and rehydration registry (`Shared/infrastructure/messaging`, `Shared/domain/event-scope.ts`) | a table of event types, filled once | columns of a fact, fact of the columns | a type that is registered for another class, owners that do not fit | `EventEnvelope` |
| Composition roots, generators, scripts, `apps/` | none of their own | wiring, code generation | - | not modelled |

Interaction. A use case opens a transaction through a unit of work, changes
rows through repositories, and the unit of work inserts the facts its
aggregates recorded into the outbox in the same transaction, each as a row of
columns. A dispatcher reads the outbox table, rebuilds each event from its
columns and calls a handler; the table is all the two share. Rulesets are called with values and return values; a show pins the
snapshot it gets.

Correctness in one line each. Dispatcher: every committed event is delivered
at least once or visibly quarantined, and in the order of its aggregate. Unit
of work: a use case is one atomic, entitled, version-checked change together
with its events, and its caller is told the truth. In-memory unit of work: the
same for runs that do not overlap. IAM: one account per provider subject, no
lost suspension, no lost grant, and an identity that tells no revoked role.
Codec: the event a handler gets is the fact the aggregate recorded. Rulesets: a
pinned snapshot is what its layers say for that day, nothing in it dangles, and
the awards a judge is offered and the choices that are accepted fit together.
Calendar: a dog's age is the number of its monthly birthdays, and neighbouring
classes neither overlap nor leave a gap.

`PROJECT.json` lists the components, the hazards (each at its line, with the
properties aimed at it), the runs, the theorems, and for every definition the
lines of code it stands for.

## The modules

### OutboxDispatcher, with AtLeastOnce above it

One action per step between two awaits of `PgPollingDispatcher.poll`:
`StartPoll`, `SelectRow` / `SelectNothing` (FOR UPDATE SKIP LOCKED: the first
eligible row no one else locks), `HandlerResolves` / `HandlerRejects` /
`TimeoutFires` / `Settle`, `MarkDispatched` / `MarkFails`, `DispatchFailed`
(ROLLBACK), the recording of a failed attempt in a transaction of its own
(`RecordUpdate`, `RecordCommit`, `RecordFails`, `RecordAnswerLost`),
`ThrowDispatchFailed`, `Count`, `EndPoll`. `Publish` is the writer.
`Crash`, `ConnectionLost` and the lost COMMIT answers are the environment,
limited by `MaxFaults`. A lost connection frees the row lock while the handler
still runs. `AtLeastOnce` promises only that a delivery follows a commit, an
acknowledgement follows a delivery, and neither happens twice to the same
acknowledged row.

### UnitOfWork, with SampleCommands above it

A call is a sequence of statements on one client of the pool: connect, find
(or the find of the ticket's item), add or update, outbox INSERT, COMMIT.
Between any two of them other calls run; each statement may fail, and COMMIT
may succeed without its answer. Row locks are held from the row statement to
the end. Row-level security is one predicate for reading and one for writing
per table, taken from the migrations. `SampleCommands` is the same system with
each use case one atomic step by an entitled caller; `ImplementsCommands` is
the refinement. The outbox INSERT writes the columns `EventEnvelope` gives the
fact, and `EveryEventRehydrates` reads them back as the dispatcher would.

### EventEnvelope

The codec of the outbox as operators without state: `OutboxColumns` is what
`PgOutboxWriter` inserts for a fact (type, owner columns, payload), `Rehydrate`
what the registry makes of a row, an event or a
rejection. The eight registrations of the sample context are a table, as in the
code. `eventId` and `occurredAt` are stamped and restored unchanged and are left
out.

### InMemoryUnitOfWork

Bodies are arbitrary: any sequence of port calls, caught rejections, resolve
or throw. Port calls are atomic (the code is single-threaded), runs interleave
between them. `gated` tells the sample context's unit of work, whose ports
refuse after the run, from the IAM one, whose ports do not; `overlapped` is a
history variable, so that what holds for runs awaited one by one and what
holds always are stated about one model.

### IamAccounts

Logins follow `AuthenticateHandler` await by await (`ResolveToken`, `Find`,
`Register`, `LogIn`). Administrators load an account or its grants, change the
aggregate and save it; IAM has no such use case yet, so they stand for the
bodies the tests of the unit of work run. A version check at each save is all
that keeps actors apart.

`IdentityQuery` puts `findIdentity` on top: `FindIdentity` reads the account,
`AnswerIdentity` the grants, and any step of `IamAccounts` may come between
(`Meanwhile`). Two history variables hold the roles the user has had at some
time, and all the time, since the call.

### EffectiveRuleset

`Publish` adds an edition (layer, date, content); `Resolve` selects, merges
and validates, and pins the result or fails with one of the four errors of the
code. Content is a function from item ids to items; the order of items in an
edition is not represented, so where two references of one phase are wrong
either error may come out. The walk along `fedBy` keeps the code's order of
feeders and its single visited set.

### FciAwardPolicy

One breed judged under a pinned snapshot, on top of `EffectiveRuleset`:
`OpenShow` pins a snapshot `Resolve` produced, `JudgeClass` gives a dog its
result, `ChooseAwards` puts a list of choices to `validateAwardChoices` and, if
it is accepted, lets the awards feed the next scope: male, female, breed,
group, show. Group and show have only the dogs of this breed. The Judging
context is not in the repository: a dog has one result, a class feeds its
winner, an award feeds the dogs it was given to, and streams carry a sex at
breed scope only, as the policy documents its inputs.
`PerSexEligible` and `HigherScopeEligible` are the two halves of
`eligibleAwardTypes`; `ValidPerSexAssignment`, `ValidHigherScopeAssignment`,
`BreedScopeInvariants` and `RequireNonDiscretionary` are the checks of
`validateAwardChoices`.

### LocalDates, ClassEligibility, BundledRulesets, BundledShows

`LocalDates` is `LocalDate`: validity of a date, `isOnOrBefore`, completed
months, and the day after. `ClassEligibility` is `FciClassEligibilityPolicy`:
age, certificates, handler, in its order, over the entry rules of a class.
`BundledRulesets` has the two FCI editions and the Belgian one item by item.
`BundledShows` joins them: a dog grows up day by day (`NextDay` counts its
monthly birthdays as they go by), and each day a show may be held under the FCI
layer or with the Belgian layer over it, its ruleset resolved by the operators
of `EffectiveRuleset` through INSTANCE.

## What is checked

Each property has a mutant in `PROJECT.json`: a definition of the model with a
plausible bug, marked Broken in the module, under which TLC finds the property
violated.

| run | instance | shows |
|---|---|---|
| `OutboxCompeting` | 2 dispatchers, 2 rows of 2 aggregates, the first row never rehydrates, MaxAttempts 2, 2 faults | `LockExclusive`, `LiveDispatchIsPending`; `AttemptsBounded` (attempts may pass MaxAttempts, by at most one per further dispatcher); `NoSpuriousQuarantine`; `RedeliveryNeedsFault`; `QuarantineIsFinal`; refinement of `AtLeastOnce`; under fairness `EveryRowSettles` |
| `OutboxSingle` | 1 dispatcher, 3 rows of one aggregate, the second one a poison pill, 2 faults | `PerAggregateOrder`, `QuarantineReportIsTrue` |
| `OutboxOrder` | 2 dispatchers, one aggregate, no fault | **violated**: `PerAggregateOrder` |
| `UowTickets` | 2 callers, 5 kinds of scope, one item and one ticket, 3 calls | `ImplementsCommands`, `OutboxTellsHistory`, `AnswersAreHonest`, `ConflictIsStaleOrForeign`, `EveryEventRehydrates` |
| `UowConflict` | the same without tickets | **violated**: `ConflictMeansStale` |
| `UowNotes` | 2 callers, 3 scopes, one note and one announcement, 3 calls | `EveryEventRehydrates`; under fairness `CallsAreAnswered` |
| `InMemoryRuns` | 3 runs, one row, 4 writes, with and without gate | `RollbackSparesResolved`, `RollbackErasesOwnWrites`; what overlapping runs can do wrong and when, `RolledBackRowsAreRestored`, `LostUpdateNeedsRollback`; for runs awaited one by one `SerialRunsAreAtomic`, `RowsMatchEvents` |
| `IamAccounts` | 2 logins, 2 administrators, 2 subjects, one role, one query after another | `OneAccountPerSubject`, `LoginAnswersItsAccount`, `SuspensionSticks`, `EventsBalanceGrants`, `LoserIsLoggedIn`, `AnswerIsOfTheCall` |
| `Rulesets` | 2 layers, 2 dates, 3 editions of 8 contents; 3 dogs, 2 classes, grades and places | `PinnedReferencesResolve`, `WalkFindsEveryScale`, `EarlierShowsAreUnaffected`; `PerSexAnswersAgree`, `JudgeIsNeverStuck`, `OfferedMeansAcceptable`, `MoreResultsNeverDisqualify` |
| `RulesetsMinimum` | the same | **violated**: `MinimumOnEveryScale` |
| `RulesetsOffer` | one content, 3 dogs, lists of up to 2 choices | **violated**: `AcceptedAwardsAreEligible` |
| `BundledShows` | 5 dogs, every day from the birth of a dog to 2028-03-05, shows of both kinds | `AgeCountsBirthdays`, `OneYoungClass`, `BreedTitleFromNineMonths`, `BundledShowsResolve` |

Every type invariant is proved and needs no run, and so is
`TicketBelongsToItemsClub`: a ticket takes its club from the item its call has read,
and no operation changes an item's club, so concurrency does not threaten it.

### Where code and documentation disagree

- `OutboxOrder`. `docs/adr/0006-monorepo-scaffolding-and-shared-kernel.md:90`
  states order per aggregate. A dispatcher skips a locked row, so while one
  handles the first event of an aggregate another one delivers the second.
  With one dispatcher the order holds (`OutboxSingle`), poison pills aside.
- `UowConflict`. `drizzle-item-repository.ts:54` and
  `sample/domain/shared/concurrent-modification-error.ts:5-8` say that a conflict
  means another writer changed the version. Items are readable by everyone
  (migration 0002), so a caller of another club gets past the lookup of
  `rename-item.ts:27-30`, which is said to prove that it may act; the UPDATE
  matches no row, whose version is what the caller expected, and a concurrent
  modification is reported. No row changes (`ImplementsCommands`), and this is the
  only other reason for a conflict (`ConflictIsStaleOrForeign`, in `UowTickets`).
- `RulesetsMinimum`. `effective-ruleset.ts:108-109` says a minimum grade
  resolves on every scale it is used with; for higher-scope awards the code
  asks for one.
- `RulesetsOffer`. `award-policy.ts:26-28`, `fci-award-policy.ts:51-54` and
  `CONTEXT.md:70` tell which awards may be proposed: at breed scope those for
  which a male and a female qualify. A male with CAC and no female so far: BOB is
  not offered, and a list that gives it to him is accepted, since the assignment is
  checked for its dog alone. Assignment by assignment, sexes aside, the two
  answers agree (`OfferedMeansAcceptable`, in `Rulesets`).

### Observations

What modelling showed of the code beside the runs above:

- `outbox-dispatch-failed.ts:8-10` lets a caller tell a quarantined row by its
  attempts. The failure is recorded after ROLLBACK has freed the lock, without a
  look at `dispatched_at`, so with two dispatchers the row may have been delivered
  by the other one meanwhile. With one the report is true
  (`QuarantineReportIsTrue`, `OutboxSingle`).
- The rule that a rolled-back attempt writes no rows (`docs/adr/0027-...:73`, quoted
  at `fake-sample-unit-of-work.ts:223`) fails for two overlapping runs that both
  throw, the earlier writer first: the second one puts back what it had found, a
  row of the first. `RolledBackRowsAreRestored` says that it fails in no other way.
- `fake-sample-unit-of-work.ts:118-120` says an update with a stale version throws
  instead of overwriting a concurrent change. The check compares a number that a
  rollback hands out a second time: a run adds a row, a second one finds it, the
  first throws and its row goes, a third adds the row anew, again at version 1, and
  the update of the second one overwrites it. Without a rollback of the key no
  update is lost (`LostUpdateNeedsRollback`), nor by runs awaited one by one
  (`SerialRunsAreAtomic`).
- `fci-award-policy.ts:25-26` and `:324-326` want BOB and BOS for dogs of opposite
  sexes. The check applies to lists of exactly two breed awards; with a third one,
  which a layer may define, BOB and BOS go to two males.
- One award may be proposed for two dogs, and a class may list a breed or show
  award, which then counts as a per-sex one.
- The resolution of a ruleset checks neither the feeders of an award nor the
  award ids of a show type. `BundledShowsResolve` shows that the bundled
  editions have no dangling ones.
- Of the Belgian classes only Fokkersklas names CAC and reserve CAC, so these two
  feed BOB from there alone.
- Two grade scales may order the grades they share differently; a candidate is
  then compared on the first of them, whatever scale it was judged on.
- `LocalDate.of` says it takes any integer as year and rejects the years 0 to 99.

### Bounds, and why they are enough

`MaxFaults` 2: one fault to lose a connection in mid-dispatch, one to lose the
answer or the recording of the retry; the interesting cases need a second
dispatcher in the gap, not a third fault. `MaxAttempts` 2 separates a first
failure, the last allowed one and the one beyond. Two dispatchers are the
fewest that race; the theorems cover every number. `MaxCalls` 3 lets two
callers race on a row and a third call find the result. `MaxWrites` 4 lets
three runs write one row in turn and one of them twice. `MaxVersion` 3 lets an
aggregate be read, overtaken and retried. `MaxEditions` 3 gives two dates of a
layer and an override by the other layer, in every order of publication.
One query at a time is enough for `IdentityQuery`: a query reads and writes
nothing another one sees. The dogs of `BundledShows` are born on 29 February, on
the 30th and 31st before shorter months, on New Year's Day and New Year's Eve;
`LastDay` 2028-03-05 lies behind the next leap day, behind the change of FCI
edition at the start of 2027 and behind the last boundary a class of theirs has.
Three dogs, two of one sex, are the fewest with a place to dispute and an
opposite sex. `MaxChoices` 2 is as many choices as the rule about a breed's two
awards looks at. `JudgeIsNeverStuck` leaves out a breed with three mandatory awards, which no bundled edition has: two
dogs cannot win three awards that need distinct dogs. Symmetry is
used over actors and dogs that start alike, and only where the run has no
liveness property.

### Fairness and ends

`OutboxDispatcher`: weak fairness of `StartPoll` (the host keeps polling), of
`Work` (PostgreSQL answers, timers fire) and of `Settle` once the handler was
signalled to stop (a handler that honours its abort signal, which the
dispatcher asks of it). Nothing is assumed of handlers that were not
signalled, and nothing makes a fault happen. `UnitOfWork`: weak fairness of
each caller's next statement; a connection that cannot be had is waited for,
and is had once another call ends.

`IamAccounts`, `InMemory*`, `Rulesets*` and `BundledShows` switch deadlock
checking off: their behaviours may end when actors, writes, editions or days are
used up or the show is over.
The others are checked for deadlock.

## What is proved

TLAPS checks these for every value of the constants that meets the named
assumptions of the modules (positive limits, finite sets of dispatchers and of
awards, ids of different kinds disjoint, a `None` that is no edition, and the
like). What needs more is said to.

**OutboxDispatcherProofs.** Inductive invariant `DispatchSafe`: types, the
location and the row of each dispatcher (`RowMatchesPc`), `LockExclusive`,
`LiveDispatchIsPending`, and that a row to be acknowledged has been delivered.
`LockExclusive` alone is not inductive: which dispatcher holds a lock depends
on where it is and whether its connection lives. From it `LockIsExclusive`,
`LiveDispatchesArePending` and `DeliveryRefinement`, step by step against
`AtLeastOnce`. The others count. `AttemptsAreBounded`: `Charged` adds to the
attempts of a row the dispatchers still working on it, each of which selected it
below the limit. `NoAttemptWithoutFailure`: attempts and the recordings under way
are covered by failures (`FailuresCoverAttempts`). `ExtraDeliveriesNeedFaults`:
`DeliveriesPaid` weighs the deliveries of a row, and the handlers still at work on
it without a lock (`Ghosts`), against the faults so far and the one delivery that
is free. `QuarantineNeverEnds` rests on `LiveBelowLimit`: under the lock nobody
else counts a failure. `OneDispatcherKeepsOrder` and `OneDispatcherReportsTrue`
assume a single dispatcher, as they must (`OutboxOrder` shows it for the one, the
observations say it of the other): then a row is selected only when the earlier rows of its aggregate are
delivered or quarantined (`AggregateInOrder`), and nobody acknowledges a row
between its failure and the recording (`FailuresArePending`).

**EventEnvelopeProofs.** `EnvelopeRoundTrip`: rehydrating the columns of a fact
gives back the fact, whoever owns it. `OnlyWrittenRowsAreRead`: whatever the
columns of a row hold, if it is accepted it is a row the writer writes.

**UnitOfWorkProofs.** Inductive invariant `Inv`: types; what each transaction
remembers at each statement (`TxOK`), in particular that a row written and not
yet committed is still the one the statement matched (`LockedRow`); one holder
per row; the owner columns of stored rows; and the columns of outbox rows. From
it `TransactionsAreTyped`, `TicketsBelongToItemsClubs`, `EventsRehydrate`, and
`CommandRefinement`: the commit of a transaction is one `SampleCommands` step by
an entitled caller, every other statement a stutter. `AnswersStayHonest` adds
that calls, open transactions and events have different call numbers (`CallsOK`).
`HistoryIsTold` adds that a number drawn for a row exceeds those of its committed
events (`HistoryOK`), which the row lock ensures, while between rows numbers and
commits may be in different orders.
`ConflictsAreStaleOrForeign` keeps with every conflict the version the caller
expected, the one that was stored and the caller's scope (`Explained`); a stored
row never changes its owner (`RowsStay`), so what was true at the conflict stays
so.

**InMemoryUnitOfWorkProofs.** `StoreIsTyped`. `ResolvedRowsSurvive` needs
`UndoRecord`: a run has an undo value exactly for the keys it has written, and
remembers its own last write there. `OwnWritesAreErased` is the hardest: other
runs may hold a row of this run as their undo value and put it back later. The
invariant `OwnWriteIsLast` names a set of rows, closed under what the rollbacks of
others would put back, in which the run's last write is the only one of its own.
`RestoredByAThrow` follows from it: a row that a rollback puts back is never the
row of that run itself. `LostUpdatesNeedRollbacks` needs `VersionsInv`: as long as
no run that wrote a key has thrown, a copy a body has in hand is the stored row or
has a smaller version. `AwaitedRunsAreAtomic` and `RowsAndEventsAgree` are about
runs awaited one by one: what the run at work would put back is a row of a resolved run (`RunsAreUndoable`,
`RowsAreSound`), and with or without its pending facts there is one per version
(`EventsAreCounted`).

**IamAccountsProofs.** Inductive invariant `Inv`: types; `LoginOK` and `AdminOK`,
which say that what an actor remembers of an account is a past of the stored one
(`PastOf`: no newer version, and equal at the same version);
`OneAccountPerSubject`. The version check of a save then means the actor saw the
latest state. From it `AccountsInvariant`, `AccountsAreTyped`,
`SubjectsHaveOneAccount`, `OkAnswersNameTheAccount` and `SuspensionsStick`.
`GrantsMatchTheirEvents` adds the same for grants (`RootsAreCurrent`), that facts
name versions up to the stored one (`FactsAreOld`), and the balance of grants and
revocations over the facts recorded or waiting to be (`Balanced`).
`LosersHaveAWinner`: a login that gets a conflict has read an account written
since (`LosersReadAnOlderAccount`), however many race. `LoserOfTwoIsLoggedIn`
assumes at most two logins, as the comment in the code does: with a third one the
winner may be a login that was let in, too. The same module has the identity
query: `QueriesChangeNothing` makes every theorem about `IamAccounts` one about
the system with queries, and `RevocationsTakeEffect` needs that the history of a
query brackets the present roles (`HistoryBrackets`).

**EffectiveRulesetProofs.** Inductive invariant `RulesetInv`: types; a pinned
content is one for which `validateReferences` found no error (`PinnedIsSound`);
and its sources are, layer by layer, the edition with the latest date up to the
show, of two with one date the one published last, and each of its items is that
of the last layer that has it (`PinnedFromTheLatest`). The selection and the merge
are folds: `FoldExists` and the lemmas after it show, by induction over the length,
that the recursion behind `FoldLeft` has a solution and one value after another, so
that facts about the code's reducing loops (`InForceIsLatest`,
`MergeIsOfTheLast`) follow by induction over their steps. From these
`PinnedRulesAreTheLatest`, and `EditionsNeverReachBack`: an edition dated after a
day is no candidate for it.
`WalkFindsAll` is the hardest. The walk is a recursion on the set of awards not
yet visited: `WalkExists` shows it defined, `AlongFeedersIsOnward` that visited
awards stay visited, and `WalkReaches`, by induction on that set, that a walk from
an award with some awards visited finds the scales of the classes its feeders lead
to through the awards newly visited, and leaves none of these with a feeder it
has not followed (`Reached`). From nothing visited that is the least closed set,
`FeedingAwards`: no cycle, diamond or order of feeders makes the single visited set
lose a scale. `SomeScaleIsEnough` is what the code guarantees instead of the claim
`RulesetsMinimum` refutes: the minimum grade is on one of the scales an award is
used with, unless it is used with none.

**FciAwardPolicyProofs.** `OffersMatchTakers` and `JudgeCanGoOn` follow from
the definitions of the two answers alone, so they hold whatever the snapshot
and the results are, without an invariant: an eligible award has a candidate,
at breed scope one of either sex, and from these an acceptable list of one or
two choices is put together by cases. `OffersStand` needs `ClassesComeFirst`:
while classes are judged nothing is awarded yet, so a class result only adds
dogs to the streams (`StreamsGrow`). `RulesetInv` holds
also while shows are opened and judged (`RulesetUnderJudging`), and with it
`PinnedReferencesAreThere`, `EditionsNeverReachBackUnderJudging` and
`WalkFindsAllUnderJudging`. `JudgingIsTyped` adds that the snapshot the judge has is
the pinned content; from the types `PerSexWalksAgree`: the walk from
classes to awards and the one from a choice back to its class come to the same.

**BundledShowsProofs.** `AgesAreCounted`: for dogs of any birth date and through
any number of days the age computed from two dates is the number of monthly
birthdays counted one by one (`AgeInvariant`). Lemmas about the calendar and the
policy beside it: `OrdinalsAreChronological` (the numbers editions are ordered
by), `ClassesAreLeftForGood` (a dog never grows back into a class),
`AdjacentClassesPartition` (of two classes that meet at an age a dog between
their outer ages may enter exactly one).
The theorems about shows are for every dog and every day, where the run has five
dogs and the days to 2028-03-05. `GrowingUp` adds to the ages `ShowIsBundled`: a
show has no ruleset before 2026 and otherwise a content that is, item by item, the
Belgian edition's over one of the two of the FCI (`Bundled`). It rests on the
general lemmas about selection, merge and walk, taken from `EffectiveRulesetProofs`
through the instance `KmshRules`, and on tables of what the three editions say
(`FciItems`, `KmshItems`, `BundledClasses`, `BundledAwards`). `YoungDogsHaveOneClass`
and `BreedTitlesFromNineMonths` go through the classes by age.
`BundledRulesetsResolve` follows the feeders: those of the adults' awards stay
among them and end at certificates, juniors and veterans, so the only scale is
`fci-adult`, on which "excellent" is; the puppies' awards are fed by their
class alone (`BundledFeedingAwards`, `BundledScalesUsed`), and `WalkIsExhaustive` says
the walk finds just that. That the editions are well-typed contents is the
assumption `BundledContentsAssumption`, which TLC evaluates: it has no parameter.

Only model-checked: liveness (`EveryRowSettles`, `CallsAreAnswered`), which the
prover cannot do. Every safety invariant, action property and refinement the
passing runs check has its theorem.

## What is not modelled

- Collective awards: comparisons of counts over one group of dogs (one of each
  sex, or three to five), whose verdict nothing in the repository reads. They
  would make one more definition and no behaviour.
- A body that does not await its port calls: the gate of `PgUnitOfWork` closes
  after COMMIT (`pg-unit-of-work.ts:132`), so a call left behind can meet a client
  that has gone back to the pool. No use case does this, and what the client then
  does depends on the driver.
- IAM on PostgreSQL. The loser of a first-login race reads again after a failed
  INSERT (`authenticate.ts:124`), which an aborted transaction would refuse; the
  repository has only the in-memory unit of work for IAM.
- Rejections of a malformed timestamp or event type, which the writer cannot
  produce; placeable thresholds, special outcomes and breeds, which no policy
  reads.
- Composition roots, generators, scripts, test harness and `apps/`: wiring and
  text generation without state of their own, or no code yet.

## Order of the modules, and what may follow

The modules were written in the order outbox, transactions, in-memory unit of
work, IAM, effective ruleset, award policy, event codec, calendar with class
eligibility and bundled editions, identity query; each proof module once TLC
agreed with what it proves.

Worth adding when the code grows: the host that calls `poll` and the use cases
(today their pace is open), a PostgreSQL unit of work for IAM, and the Judging
context, of which `FciAwardPolicy` states what the award policy needs.
