# Verification of Salio's runs, readings, catalogue and placement

TLA+ models of the part of the repository that is hard to test: what happens
between the scheduler, its worker processes, the API and the people using it,
and what a listing looks like after any order of passes, re-reads and decisions,
what the catalogue may become, and how the parts a run is made of behave when
something fails under them.
Every definition is a translation of `src/app/...`; `PROJECT.json` (`map`) names
the lines each one stands for.

- [The system](#the-system)
- [The models](#the-models)
- [The runs](#the-runs)
- [Fairness](#fairness)
- [What is proved](#what-is-proved)
- [Where code and documentation disagree](#where-code-and-documentation-disagree)
- [What is not modelled](#what-is-not-modelled)
- [Plan](#plan)

## The system

The program collects listings of shops and places them in a catalogue. One
PostgreSQL database holds all state. Three kinds of process write to it:

- the **API** (FastAPI): one transaction per request, READ COMMITTED
  (`db/session.py`). An admin API for people, a worker API for workers;
- the **scheduler**, a container of its own that compose starts again when it
  stops (`docker-compose.prod.yml`). One loop: reap workers, start queued and due
  runs, re-read what a registry change asked for;
- **workers**, one child process of the scheduler per run. They talk to nobody
  but the worker API: they hand over batches of slices and report their end.

### Components

| component | state | operations | what makes it correct |
| --- | --- | --- | --- |
| runs and their API (`runs/service.py`, routers) | table `runs`: slot (channel, kind), status, finished_at, settle_phase | enqueue, queue_reparses, start, finish, cancel, sweep, hand-over check | one live row per slot; a closed row stays closed; a running row has somebody working on it |
| scheduler (`runs/scheduler.py`) | the processes it holds; where the loop is | reap, close, tick, start, settle, reread, shutdown | every run ends; every queued run is taken; a bound on workers; a crash strands nothing |
| worker and client (`runs/worker.py`, `runs/client.py`) | the slice in hand, the call under way | read, hand over, report, die | what is read after a cancel is not stored |
| observations (`offers/service.py`, `db/query.py`) | observations (one per distinct payload), their readings, the columns copied onto the offer | ingest_batch, renormalize, re-read of a brand or a source, offer_is_listed | the offer's columns are the right observation's current reading |
| price series (`prices/service.py`) | price_events | record_price | the newest row is what the shop asks |
| registry re-reads (`brands/service.py`, `scheduler.reread`) | reread_requests with their cursor | ask, take, batch, finish, fail | a finished request left no listing with old words |
| matching (`matching/service.py`) | offer_matches, match_queue, catalogue entries | run, promote_queue, match_offer, promote, set_manually, keep_doubted, unlink, snooze, judge_ambiguous; merge_pair, merge_duplicates, rebuild, split | one answer per listing; people's decisions survive; nothing is forgotten; two products are not folded into one |
| judge (`judge/service.py`) | verdicts, one per question | look, ask, write, forget; the questions of makers | what is acted on is what is stored; a question is paid for once; a pass moves forward |
| catalogue (`catalog/service.py`, `identity.py`) | variants with axes, barcodes, identity key, forwarding notes; families | create, update, set an axis, add a barcode, merge; families: find, make, show, hide, delete | the key is right and nobody else's; barcodes are not lost; an entry is under the family of its name |
| categories (`categories/service.py`) | the tree and what of it is visible | create, move, show, hide | no loops; effective visibility follows the ancestors |
| channels (`runs/channels/*.py`) | none | discover, fetch, parse | a full pass lists what the shop has |
| fetcher (`runs/fetching.py`) | rate, gate, addresses that are out, turn | request | rate and concurrency are kept; a request fails only for a reason |
| snapshots (`runs/snapshots.py`, `worker.py`) | files of good and of broken pages | save, load, stored, forget_failure | the broken ones are the failures; a re-parse never goes back in time |
| rate limit, users, attributes' values, brands, shops, proxies, markets, audit, health | registries | create, update, ... | uniqueness and references, which the database keeps |

How they interact: the loop and the API meet at rows of `runs`; a worker meets
them through the API alone, and learns of a cancel only when a hand-over is
refused or when it is killed. A settling is **one transaction** of the scheduler
over all listings of a pass, open for minutes, while people and the judge decide
on the same listings in short ones. A registry change commits a request that the
loop works off batch by batch, and the next change may restart it half way. A
judge's question is read in one transaction and its answer applied later.

### What is hard here

- *Check, then commit.* `finish`, `cancel` and the scheduler's own `_finish`
  check `finished_at` and write without a lock on the row.
- *The loop looks at one thing at a time.* A tick reads the cancelled runs, then
  looks at workers, then settles one of them for minutes; an exception anywhere
  ends the loop and its workers with it.
- *Ends are told twice.* A run's end is in its row and in its process's exit code,
  and settling goes by the second.
- *Passes overtake each other.* Full passes, quick passes, reparses and re-reads
  of one listing hand over in any order, each applying what it read earlier.
- *Requests restart.* A change while its predecessor is being read, settled or
  failed must not be swallowed.
- *A long transaction beside short ones.* What a settling read at its start may
  be untrue when it writes.
- *One operation made of many.* A rebuild or a split is a sequence of changes of
  the catalogue, each of which may find that an entry has become another one,
  some of them taken back by a savepoint.
- *The world moves while it is read.* A shop changes under the walk, pages come
  back as something else, addresses stop working, a worker dies with a file half
  written, another pass asks the judge the same thing.

`PROJECT.json` (`hazards`) lists them at their lines, with the property that
would catch each, or why none does yet.

## The models

### RunBoard, implemented by Runs

`RunBoard` is what the table `runs` promises whoever writes to it: rows are
admitted only to slots without a live row, begin, and close for good.

`Runs` is the code. Variables and what they stand for:

| variables | in the code |
| --- | --- |
| `n`, `slot`, `status`, `finished`, `phase` | rows of `runs` |
| `owed` | ghost: runs whose settling was deferred and not made up for |
| `proc`, `slice`, `call`, `ask` | a worker: its process, what it has read, its request past the check; and people's requests past theirs |
| `pc`, `todo`, `held`, `dues`, `cur`, `back`, `leaving` | the loop: where it is, what it still visits, `self._running`, the run it starts, closes or settles and where it returns |
| `faults` | how many crashes, failed transactions and stops there were |

A request that reads a row and writes it later is two actions: the check
(`Ask`, `HandOver`, `Report`) and the commit (`AskCommit`, `BatchCommit`,
`ReportCommit`), between which anything may happen. Requests whose check and
write are one statement (the sweep, the insert against the unique index) are
one action. `HandOver` compares the status as `offers/service.py` does; the
slice it carries remembers whether it was read before or after a cancel.

The loop's actions follow `run_forever`: `ReapAsk`, `ReapAnswer`, `KillCancelled`,
one `Collect...` per outcome of looking at a worker (alive, overdue, broken,
deferred, well), `CloseRead`/`CloseCommit` for `_finish`, `SettleEnd`, then
`Tick`, `Take`, `Due`, `StartDue`, `Spawn`. `Raise` is an exception of a database
call, `Crash` the container's end at any point, `Stop` a signal; after each of
them `Start` sweeps. `CrashTakesWorkers` says whether a crash of the scheduler
takes its children along (it does when the container dies) or orphans them.

Abstracted: a contract's arithmetic (a good report is judged `ok` or `rejected`
freely), the cron in `due` (any slot of `Scheduled` may be due at any tick), the
hour of a timeout (a live worker may be overdue at any visit).

### Observations

One listing of a shop, and everything that decides what its card shows: the last page
each channel kept (`snapshot`), the payload each pass has read and not handed over (`hand`), the
observations with their stamp, channel and reading (`at`, `by`, `reading`), the columns copied
onto the offer (`price`, `name`, `lastSeen`), the price series' newest row (`quoted`), each channel's
full pass under way and last one (`pass`, `passed`), and what a re-read under way has decided to
write (`again`). `brought` and `seen` are ghosts.

`HandOver(s, k)` is `_ingest_one`: the short path of a payload that is stored
already (bump `last_seen_at`, move nothing), the path of a stored payload with an
outdated reading, the new observation, and for a reparse the re-reading of
the newest. It is one action, the commit of its batch: a batch writes `last_seen_at` and
so locks the offer's row before it decides anything, and batches with one listing come one after
another. `Lose` is a batch or an item that failed.

`Renormalize`, `RereadBrand` and `RereadSource` lock nothing. Each is a step that reads what has
been committed and decides (`_is_newest` among it), and a later one, `WriteBack`, that writes what was
decided over whatever came in between; `GiveUp` is one that fails. `Deploy` and `Register` change
parsers or rules, and words, between those steps too.

`behind` is who may have loaded a column before another commit wrote it. The session writes only
columns that it would change of what it loaded, so such a one either writes its value or leaves the
other's (`Lands`). `crossed` says whether that happened to the last to give the listing its name: a
re-read in whose time another named it, or a batch whose name was left out for that reason.

A payload is its price and which reader wrote it down. Whether the shop shows the listing, and at what
price, is free at each look.

Assumed: the price a payload says does not depend on the rules it is read by; a reading is stored
whole; rules only move forward (a rollback is a listed hazard).

### Reread

Requests per key (maker and category): `open`, `asked`, `quiet`, `after`, `failed`;
the loop's place with the one it took (`place`, `cur`, `curAsked`, `page`);
the listings with the words they were last read with. A change and its request
are one transaction (`Ask` ... `AskCommit`/`AskRolledBack`); the loop's steps
are `Take`, `ReadPage` (a batch and its cursor in one commit), `Finish` (closes only a
request whose `requested_at` is still the one taken), `Fails` and `FailClose`,
and `Crash`. Passes go on storing listings meanwhile (`Load`, `HandOver`), with
the words they loaded, and settlings placing them (`Join`).

Assumed: the quiet time is longer than a batch of hand-overs that had loaded the
words of before. With `REREAD_QUIET_SECONDS = 0` it is not, and the promise falls;
that is a listed hazard.

### Placement

`placed`/`by` (active match), `queue`/`among`/`snoozed` (match_queue, least
recently tried first), `entries`; and one settling, as an overlay that
its transaction alone sees until `Commit`: `linked`, `found` (the rows it wrote), `made`.
`Begin`, `Try`, `BeginSweep`, the outcomes of the sweep (`SweepUnread`, `SweepPlaces`,
`SweepLeaves`, `SweepMakes`, `SweepFails`), `BeginAgain` and `Commit` are `run`,
`promote_queue` and `run` again; `Abort` is a failure or crash of it. People's requests
(`SetManually`, `Keep`, `Unlink`, `Snooze`, `Unsnooze`, `MatchOffer`, `Promote`) and
`Ask`/`Answer` of the judge are their own transactions and may come between any
two steps. A row the open transaction has written is locked, so a request that
needs it is disabled; a row it has inserted is not seen by anybody's delete.

The rungs of the ladder are given: `Fits[o]` are the entries a listing's signals
would find at first, `fits[o]` those they find now, of which those in the catalogue
count. One fitting entry is a match, none or several go to the queue.

A merge of two entries is a transaction of its own that may be open beside a settling.
`BeginMerge` moves the matches it sees, which it has locked until it ends; `EndMerge`
deletes the entry, waits for transactions that hold on to it, and hands its identifiers
over (`fits`), and with the entry go the matches it was given meanwhile, by the cascade of
their foreign key (`AfterMerge`); `MergeFails` keeps nothing. A settling that would link a
listing the merge has moved waits for it (`SettleLink`).

`Tried`, `KeepsItsTurn`, `GoesFirst` and `TakenInTurn` say of the order what `FirstComeFirst`
promises. A row's place in `queue` is its `last_attempt_at`. One that the settling inserts says when its
transaction began (`now()` is the column's default), whatever happened meanwhile; one that it, or a
person, updates says the moment. `fresh` are the first, and `recent` the rows stamped since the settling
began, be it by it or by others, in their order: at its commit the queue is what nobody touched, then
`fresh` by id, then `recent` (`SeesQueue`). Left out: the times themselves.

### Catalogue

The entries of one brand and category. `cat` is one value: which entries there
are, `model`, `axes`, `key` and `gtins` of each (a barcode with its origin), the
entry each listing is `on`, its reason in `queued`, the forwarding notes of
`merges`. Operations map a catalogue to another, as the code composes them:
`Regenerate` recomputes a key and may end in a conflict that names the twin,
`SetAxis` and `SetModel` go through it, `Merge` moves listings, barcodes and axes,
and `Try` is a savepoint. `Decide` is the ladder (`ByGtin`, `ByModel`, `Agrees`,
`Reconcile`, `Learn`), `Promoted` makes an entry and runs the ladder again. `Rebuilt`
folds the stale axes and then the stale names one after another, `Split` moves
listings and barcodes into twins. Actions are requests, or listings of a pass:
`Place`, `Promote`, `ReadAgain`, `Create`, `Set`, `Rename`, `AddGtin`, `MergePair`,
`MergeDuplicates`, `Rebuild`, `SplitByAxis`, and `Bear`, by which people change which
axes bear identity.

Each action is alone. That transactions overlap is `Placement`'s: a merge there is what
this module's `Merge` does to matches and identifiers, beside an open settling. The order in which a rebuild takes stale axes is the database's
but for held ones coming first, so it is any such order. Left out: titles
and slugs, part numbers, visibility, the length of a model and ties by it.

### Families

The families (products) that the entries of one maker and category are filed under:
`headed` and `visible` of a family, `called` and `under` of an entry. A `session` is a
transaction under way with what it has written (`heads`, `shows`, `calls`, `puts`), which
it alone sees until `Commits`; `CutOff` keeps nothing. A promotion is `BeginPromotion`,
`FindFamily` (`_family`: found, shown again, or made), `FileNew`. A rebuild is
`BeginRebuild`, `RenameStale` with `FindFamily` and `Rehome`, `ListMisfiled` and
`TakeMisfiled` with the same, `Respell`, `HideEmpty`, `SelectHidden`, `DeleteHidden`: the
last two are one query and one statement, between which others go on. `FamilyGone` is the
savepoint that takes a step back when its family is no more. `RenameVariant`,
`RenameFamily` and `FoldAway` are people's.
Rows that were written are locked (`Writable`, `FreeRow`); an entry filed and not committed
holds on to its family (`Removable`), and one may refer only to a family that is there
(`Referable`).

It begins with entries that were filed one at a time, families that merges may have
emptied, and hidden ones the trail names, as a rebuild leaves them. Which entries of a
rebuild have stale names is free (`Catalogue` has the rule). Every list of a rebuild is cut at
`ListLimit` (`Cuts`), that of the misfiled at what the stale names, those that could not be changed
among them, leave of it (`left`); `cut` remembers whether that happened. Which of a list are taken
is free, where the code takes the lowest ids. Left out: the fold of an entry that a rename turns into another one (`FoldAway`
empties families here); rows a session read before and keeps in its identity map; making or
hiding a family by hand.

### Categories

`parent`, `own`, `effective` are committed rows; an edit (`doing`, `edit`, `news`, `owes`,
`wrote`, `held`) is a transaction in READ COMMITTED with the rows it has locked.
`BeginEdit` reads its row; `CheckMove` walks up in what is committed by then;
`Flush` writes the row; `Recompute` takes the snapshot of the recomputing statement and
`VisitRow` one of the rows it updates, waiting for whoever has it locked and
comparing again once it is free; `Commit`. Edits that wait for each other are ended
by the database (`DeadlockAbort`).

### Walk

`discover` of ten channels is five ways to walk a category: the first page tells how many there
are and the rest are asked for together, or one page after another by offset, until as many are
listed as there are, until a page is short, until nothing is new. The shop
(`shop`) changes meanwhile (`Comes`, `Leaves`); a page may come back without what
it should hold (`HoleTold`, `HolePage`) or not at all (`Refused`). `HoleFirst` is that of
the first page where nobody looks: rdveikals takes such a page, a 4xx too, for a category of one page
and ends well with nothing. m79 stores the size of a page against a session, and a fetcher has one for each address
it goes out by; `mixed` are walks whose pages come in either size as the sessions take turns.

### Fetching

The requests of one run. `Book` is `Rate.wait`, `Depart` picks the way out (`_next`),
`Enter` is the gate, and `Answer`, `Trouble`, `NoConnection` are what comes of an attempt.
Time is counted in intervals of the rate; a `Tick` passes only when no timer is due.

### Snapshots

Files (`good`, `broken`) are named by `NameOf`, which two products may share. `ObserveCard` is a
crawl's product, `ReadFile` a re-parse's file; either may be where the worker
dies, between two writes or in the middle of one. `HandsOver` passes on what was read.

### AnswerBook, implemented by Verdicts

`AnswerBook` is what the judge's store promises the passes that pay for answers: a question has one
answer, entered once and kept until it is withdrawn, and a pass that has ended goes by answers
that are in the book or were. `Enter` is a whole pass seen from there: what it writes that nobody
wrote before it, and what it goes by.

`Verdicts` is the code. The judge's table (`live`, and `past` for what was forgotten), and passes: `Look` reads
what is stored, `AskAll` pays for as many of the rest as the budget allows, `Store`
inserts one answer, `Conflict` takes the one that was there first, `Committed`
and `RolledBack` end the transaction. `Forget` is an admin's. The pass is
`check_matches`; the other three cut the queue at their limit before they look. It implements
`AnswerBook` with the rows that are not forgotten as the answers, the forgotten ones as the
withdrawn, and, of what passes read, that of those that have ended (`GoesBy`): `Committed` is an
`Enter` and `Look` a `Leave`, `Forget` a `Withdraw`, and the rest, with `RolledBack`, a stutter.

### Makers

Whose product a listing is. `aliases` are rows of `brand_aliases`, `makes` the catalogue's entries,
`told` the judge's answers under the questions they answer, `row` what a listing waits for in
the queue. `Lookup` is `_resolve_brand`: by the field, by the title where the field
says nothing known, by a stored answer where several makers bear it. `Retry` runs the
ladder, `MakeEntry` is the promotion of one row, `OpenPass` and `ClosePass` are `judge_brands` before and
after the answers. `TurnAlias`, `Entered` and `Refiled` are people's; `MaxTurns` bounds
them. A question (`QuestionOf`) holds the listing's words and each maker with the categories it has
entries in, as the stored hash does.
Left out: barcodes and part numbers, a field that normalizes to nothing, the maker a reading keeps
(`normalized_offers.brand_id`, which nothing modelled reads), new names of makers.

## The runs

Deadlock is checked but in `parts` and `catalogue_rebuild`, where walks end and bounds are reached.
All constants are small; the
reason each suffices is in the last column.

| run | asks | bounds, and why they are enough |
| --- | --- | --- |
| `runs` | types; a running row is owned; no more workers than allowed; nothing read after a cancel is stored; only a run that reported is settled; no restart closes a queued run; `Runs` implements `RunBoard`; every running run ends, every queued one is taken | two channels, two rows, one worker at a time, two faults at any points (a transaction that fails and a crash), fairness with the clock. Two rows meet in every way a queue of one place allows: queued behind a running one, taken at a crash, both reparses |
| `runs_cancel` | the worker of a cancelled run dies; a full pass that ended well is settled | two workers, no fault: whether the kill of one and the exception it may raise disturbs the other |
| `reparse_deferral` | a deferred settling has a reparse still to come: **violated** | two reparses queued together, no faults, nobody cancelling |
| `late_report` | a cancelled run stays cancelled: **violated** | one run |
| `observations` | the name is the newest page's current reading unless the last to write it was crossed; a listing every pass brought is on sale; a re-read nobody crossed reaches the name | a channel that opens pages and reparses them, one that reads cards, a re-read beside them; one price, so that the payloads are a card and a page as each of two parsers reads it: what is told apart is which observation is newest, and three are enough for one that is neither. One change of parser, rules or words, five stamps: a full pass's start, a page, a card, a newer page and one more. 1.7 million states, three minutes |
| `series_return` | the series follows the price: **violated** | one channel of cards |
| `reread` | a finished request left nobody behind; the cursor never passes an unread listing; every request ends | two keys, one of which fails each time; three listings, batches of one, two changes, one fault, one hand-over in flight: a change restarts a request at every one of its steps |
| `placement` | types; a settling adds no second answer, and moves only what waits; only a person takes a listing out; a listing once tried is placed or queued; whoever waits longer is tried first | three listings: one unreadable at the head, two that compete for one entry, the third with two candidates and able to make an entry. Two of faults and merges, of an entry that a listing is placed on into one it also fits. The limit of two makes the second pass necessary |
| `placement_retry` | each readable listing is tried again and again | the same listings; the requests that move rows or matches, and the judge; one fault or merge; fair settlings. People may try a listing by hand, which sets its row back behind the others: one who does so over and over is the one who tries it, and the property counts that |
| `parts` | types; and of the catalogue: keys are right, barcodes stay, no entry is made in vain, a rebuild does not fold what its listings tell apart; of the tree: no loop and nothing stale without an overlap; of a walk with pages of one size: what stands is seen, but for what stood on pages that were something else; of the snapshots: the broken ones are the failures, and no page goes back; of the fetcher: a request is served while a way is up; of the judge: passes move forward, nothing is paid for twice, `Verdicts` implements `AnswerBook`; of the families: a rebuild that nobody crossed and whose lists were not cut leaves each filed entry in the family of its name, no visible family empty, and no entry is hidden with its family unless transactions crossed; of the makers: the listing an entry is made from is found at it, unless the judge chose its maker and the entry is that maker's first in its category | eight parts that share no state, side by side: in a behaviour one of them moves, so the states add up instead of multiplying. Listings, editors, passes, transactions and so on come in pairs that are swapped together (`Alike`); no choice depends on which of a pair it is. Two listings, three entries, two axes of two values and a barcode: a merge, a twin of a twin and a split need no more. Two editors and three categories, the least that close a loop past a check. A category of four products on pages of one or two, changing twice under a walk, with pages of one size or mixed. Three products in two files. Three requests through three addresses with one room too few. Two passes, three listings, two of them asking one question. Three families, two entries, two spellings of one name and another name, two transactions at once and four of transactions and renames together: a family that is emptied, hidden, found again by a promotion and deleted by a rebuild needs no more. A limit of two cuts lists of three families, and with a stale name that takes of it the two misfiled. Two listings whose field two makers bear, one found by its title, three makers, two categories, one change by a person, a judge pass of one listing: a question changes by a promotion alone |
| `catalogue_rebuild` | a rebuild folds no entry into one its listings contradict: **violated** | two listings of one model that say both axes |
| `change_lost` | a change restarts the request it meets: **violated** | two keys, one of which cannot be read, two changes, no fault |

Between them the passing runs fire every action of every module. Each property
of a passing run has a mutant in `PROJECT.json`: a plausible bug in one
definition that makes TLC report that property.

## Fairness

- `Runs!Fairness`: weak fairness of the loop as a whole (it is a process that
  keeps running, and compose starts it again), and of each request past its
  check (it commits or is rolled back). No fairness for workers and people: a
  worker may hang for ever, a person need do nothing.
- `Runs!ClockSpec` adds strong fairness of `CollectOverdue`: the loop visits a live worker
  again and again, and the clock brings each past its timeout, so one of the
  visits finds it overdue. Without it TLC shows a worker that hangs and is always found
  in time, which the clock of the code excludes.
- `Reread!FairSpec`: open transactions end, time passes, the loop goes round, and
  a listing that always fails to be read does fail when it is read. Changes are
  not fair, and a request ends once they stop.
- `Placement!FairSpec`: weak fairness of the settling: runs go on ending and each
  is settled. And of the end of a merge, which is a request and is committed or
  rolled back. No fairness for people or the judge; `TriedAgain` must hold against
  whatever they do. (Who runs the ladder by hand on a listing before every settling keeps it
  behind the cut, and it is then tried by hand: that too is being tried again.)

`Observations` and the eight modules of `parts` have safety and action properties
only: what they promise is about what has been done, by a run or a request that
may be cut off at any time.

## What is proved

For every value of the constants, in eight modules:

| module | about | for any |
| --- | --- | --- |
| `RunsProofs` | `Runs` | channels, number of rows, workers and faults, workers that die with the scheduler or outlive it |
| `ObservationsProofs` | `Observations` | channels, prices and passes, number of changes and stamps |
| `RereadProofs` | `Reread` | makers and listings, size of a batch, number of changes, hand-overs and faults |
| `MatchingProofs` | `Placement`, `Verdicts` | listings, entries, signals, limit, faults and merges; questions, answers, budget and number of passes |
| `CatalogueProofs` | `Catalogue` | entries, models, axes, values, barcodes and listings, limit of a rebuild, number of changes |
| `RegistryProofs` | `Categories`, `Families`, `Makers` | trees and editors; families, entries, spellings and transactions; makers, aliases, models and listings |
| `ChannelProofs` | `Walk`, `Fetching`, `Snapshots` | shops, sizes of a page, number of pages and changes; requests, addresses, room, retries and troubles; products and ways of naming their files |
| `Ranks` | what several of them cite | finite sets of numbers by rank, going on by one, functions defined step by step, sequences without repetition |

The only assumptions are those on the constants, each beside the constants it is about
(`RunsAssumption`, `ObservationsAssumption`, `RereadAssumption`, `PlacementAssumption`,
`VerdictsAssumption`, `CatalogueAssumption`, `CategoriesAssumption`, `FamiliesAssumption`, `MakersAssumption`,
`WalkAssumption`, `FetchingAssumption`, `SnapshotsAssumption`), and, where the table says
so, on what people ask for. Those that restrict more than types: a re-read's quiet time a batch of hand-overs (the guard
of `GoesQuiet`), makers and their entries, and the listings, axes and values of the catalogue,
are finitely many, and a shop lists a product of
a category once.

| theorem | states |
| --- | --- |
| `TypeCorrect` | `Spec => []TypeOK`, with `finished_at` set exactly on ended rows |
| `RunningOwned` | `Spec => []RunningIsOwned` |
| `QueuedOutlives` | `Spec => QueuedOutlivesScheduler` |
| `Implements` | `Spec => KeepsTheBoard`: `Runs` implements `RunBoard` under `stage = closed` on ended rows |
| `LateRefused` | `Spec => []LateSliceRefused` when people only cancel |
| `OneLiveRun` | `Spec => []Board!OneLive`: one live run of a kind and channel, which `RunBoard` promises and `Implements` carries over; no run checks it |
| `AllowedKept` | `Spec => []NoMoreThanAllowed` |
| `SettledReported` | `Spec => []OnlyReportedIsSettled` when people only cancel |
| `ObservationsTypes` | `Spec => []TypeOK` of `Observations`, which no run checks |
| `NamedByNewest` | `Spec => []NamedUnlessCrossed` |
| `BroughtIsListed` | `Spec => []SeenIsListed` |
| `RereadRenames` | `Spec => RereadReachesTheName` |
| `ReparseRereads` | `Spec => ReparseReachesNewest`, which no run checks |
| `RereadTypes` | `Spec => []TypeOK` of `Reread`, which no run checks |
| `FinishedHasRead` | `Spec => []ReadSinceChanged` |
| `CursorBehind` | `Spec => []CursorIsBehind` |
| `PassesGoByTheStore` | `VerdictsSpec => []HoldsTheStored`, which `KeepsTheBook` implies and no run checks |
| `PassesMoveForward` | `VerdictsSpec => []PassMovesForward` |
| `StoreKeepsTheBook` | `VerdictsSpec => KeepsTheBook`: `Verdicts` implements `AnswerBook` |
| `PaidOnce` | `VerdictsSpec => []PaidTwiceNeedsOverlap` |
| `VerdictsTyped` | `VerdictsSpec => []VerdictsTypeOK` |
| `FailuresKept` | `SnapSpec => []BrokenAreTheFailures` |
| `NeverBack` | `SnapSpec => NeverToAnOlderPage` |
| `NoneInvented` | `SnapSpec => []SnapTypeOK` |
| `RateAndGate` | `FetchSpec => []FetchTypeOK` |
| `Served` | `FetchSpec => []ServedWhileAWayIsUp` |
| `PlacementTyped` | `Spec => []TypeOK` of `Placement` |
| `CommitLeavesOne` | `Spec => OneAnswer` |
| `MovesOnlyTheWaiting` | `Spec => MovesOnlyWhatWaits` |
| `NobodyOvertakes` | `Spec => FirstComeFirst` |
| `OnlyPeopleTakeOut` | `Spec => PlacedStaysPlaced` |
| `AlwaysSomewhere` | `Spec => NeverNowhere` |
| `CatTyped` | `CatSpec => []CatTypeOK` |
| `KeyRight` | `CatSpec => []KeyIsRight` |
| `BarcodesKept` | `CatSpec => BarcodesStay` |
| `FoundWhenMade` | `CatSpec => NotMadeInVain` |
| `FoldsWhatIsOne` | `CatSpec => RebuildKeepsApart` |
| `TreeTyped` | `TreeSpec => []TreeTypeOK` |
| `LoopNeedsTwo` | `TreeSpec => []LoopTakesTwo` |
| `NothingStale` | `TreeSpec => []StaleNeedsOverlap` |
| `FamTyped` | `FamSpec => []FamTypeOK` |
| `EntriesFollow` | `FamSpec => []FamiliesFollow` |
| `MakersTyped` | `MakersSpec => []MakersTypeOK` |
| `GoesWhereItIsFrom` | `MakersSpec => FoundAtItsEntry` |
| `WalkTyping` | `WalkSpec => []WalkTypeOK` |
| `StandingSeen` | `WalkSpec => []StandingShopIsSeen` |

The argument for `Runs`:

1. `TypeOK` is not inductive: the loop names a row by `cur`, `todo` and `held`, and
   to close or spawn "it" that row must have been inserted. `Inductive` adds that
   ids are given out in order (`status[r] = "none" <=> r > n`), that workers,
   requests and lists of the loop name inserted rows only, and that a call of
   the loop has a row and a place to return to. One lemma per action
   (`...Inductive`), joined in `StepInductive`.
2. `RunningIsOwned` needs who has a *queued* run (`Waiting`: nobody holds it, is
   closing it or works on it, so that taking it gives it exactly one owner) and
   that a process is only dropped from `held` when its row has ended (`Spent`).
   `Owned` is their conjunction, proved step by step under `Inductive`.
3. `QueuedOutlives` and `Implements` are action properties: from the invariants,
   every step moves each row along `none, queued, running, ended` or leaves it
   (`StepRowMove`), and maps to a step or a stutter of `RunBoard` (`BoardStep`). A
   commit over an ended row maps to a stutter, which is why the board promises
   that a closed row stays closed and not which end it has. `OneLiveRun` follows from
   the board's own steps (`BoardOneLive`): rows that are added together share no slot.
4. `LateRefused` strengthens with `Sliced`: a stale slice is in the hands of a
   reader whose row is cancelled, and the scheduler only ever closes a row when
   its worker is dead or was never born, so it never overwrites that `cancelled`
   with a status under which hand-overs are let in. A person who reports by
   could, which is why the theorem assumes that nobody does.
5. `AllowedKept` counts: a worker is promised to the runs the loop holds, to the one it
   is spawning and to those it is about to take (`Promised`), and a tick makes dues only
   for the rest, so that the two together never exceed `MaxRunning`. All but a few
   actions promise nothing (`Shrinks`); `Take`, `Tick`, `Due` and `StartDue` move a promise
   from one part to the other.
6. `SettledReported` strengthens with `Judged`: a worker that exited well has reported, a
   settled run's worker is gone and no report of it is on its way, and a run that the
   loop closes or spawns was never settled.

The argument for `Observations`. `NamedUnlessCrossed` needs that no two observations have
one stamp, so that there is one newest (`StoredOK`, `NewestIs`), that the row of the
offer has a name exactly when a page is kept (`RowOK`), and of a re-read under way what it has
decided (`RereadsOK`, `OpenOK`): as long as nobody named the listing since, which `behind` would tell, the page it goes by
is still the newest (`StaysOpen`, `StillReads`), and it writes that page's reading and the name
together (`WriteBackOK`). A batch decides with the row locked, so that only the name it keeps may be
amiss (`AppliedOK`, `MarksOK`). `SeenIsListed` needs that a
pass which saw the listing began no later than `lastSeen` (`PassesOK`). The two
re-reading properties follow from the same invariant for one step.

The argument for `Reread`. Neither promise is inductive: that a finished request
left nobody behind depends on what the loop still holds when it finishes.
`Inductive` adds

1. `Quieted`: once a request is quiet, no hand-over under way carries other
   words, so none can undo what a batch has read (here the assumption on the quiet
   time is used, in the guard of `GoesQuiet`);
2. `Rested`: only a quiet request has a cursor, and one that is closed was
   quiet, unless it failed;
3. `Newer`: a change under way is newer than the one by which the loop took the
   request, so that comparing `requested_at` tells whether another came;
4. `Reading`: a listing behind the cursor that has to be read is in the batch, or
   the batch is full and ends before it;
5. `Settling`: what is settled for has been read, if nothing was asked since.

`Reading` needs that `order by id limit n` returns either everything or `n` rows
that precede the rest, and that a full batch has a last row. These are
facts about ranks in finite sets of numbers (`RankTaken`, `FirstOnes`, `GreatestMember`),
proved without induction: the rank of a member is an injection into `0 .. n - 1`,
and so a bijection.

The argument for `Verdicts`. `HoldsTheStored` needs that a row which is written and
not committed is the only one of its question that is not forgotten (`OneRow`, from the
unique index an insert waits at), and that what a pass goes by before it ends is a row's,
if only one it wrote itself (`Known`); a commit turns the second into the promise.
`PaidTwiceNeedsOverlap` speaks of behaviours without an overlap, for which `Orderly`
says that one pass is active (`Alone`), that what it takes has no answer yet
(`Unanswered`), that what it was told and has not stored is on its way (`OnItsWay`), and
counts: a question is paid for no more often than forgotten, and once more where an answer
is stored or on its way (`Accounted`).
`StoreKeepsTheBook` needs one thing more: where a pass wrote a row and goes by an answer to its question, it is
the row's (`WroteIsRead`). Then a commit enters what the book lacked, by `OneRow` over nothing,
and what else the pass goes by is known by `Known`; every other step of a pass under way leaves
what is committed and what others go by alone (`Underway`).

The argument for `Snapshots`. `Kept` joins to the promise that a file holds a page the
shop has served of a product whose file it is, and a re-parse works through files that are
there (`OnDisk`), and that no file of a product is older than what was read or handed
over of it (`Order`). Both properties leave out the products a worker died at;
the lemma on a death (`DiesKeeps`) shows that it disturbs those alone.

The argument for `Fetching`. A request that was tried and found no way has met as many
ways, each another one, as it had attempts (`Met`: the witness is a set of that many
ways that are down, without the one it is on), since a way that is bad is not picked again
and the turn comes by all of them (`AllInTurn`). When its attempts are over, that set is
larger than `Retries`. The rate is that each booking lies before the next free departure
(`BookedOK`), the gate a count (`OpenOK`).

The argument for `Placement`. `IInv` adds to the types that no row of the queue, of what
is to try or of what is written comes twice (`Once`); that what the settling has linked is
apart from what it has yet to try and from what an open merge has moved; and the heart of it
(`WaitsOK`): whatever is still to be tried or was queued again, and nobody decided on since
it was read, waits for a match now, and so does what the settling has linked. `OneAnswer` and
`MovesOnlyWhatWaits` compare the commit with that: a listing with the two
answers it could leave, or one it would move away from a match, is in `since`. `PlacedStaysPlaced` and `NeverNowhere` go through
the actions: for requests one form of what a request may do to where listings are
(`StaysSomewhere`), for the end of a merge the case each property names. `NobodyOvertakes` is about the order of rows: what
`Without`, `Append`, `\o`, `Top` and `ById` make of who is before whom (`WithoutRows`, `AppendOrder`, `JoinOrder`,
`TopOrder`, `ByIdRows`), and, where no row comes twice, the converse (`OneOrder`, `LeftInOrder`, `BehindInOrder`); for
one dequeue (`TurnsAfterDequeue`), one requeue (`TurnsAfterRequeue`) and the commit, which puts the rows
nobody touched before those that were inserted and those that were stamped meanwhile (`TurnsAfterCommit`); and what a
pass lists holds the never tried, then the rows in their order, cut at the limit (`PendingInTurn`).
The commit writes back an order that was kept apart from the queue while people changed both, so it needs an invariant of
its own: what is behind a row that somebody else stamped, and is not placed by the settling, is behind it in
`recent` as well (`AgreesOK`). Each action keeps that, and `IInv` that the two sorts of stamps are
apart and account for every row that was written (`StampsOK`).

The argument for `Catalogue`. `KeyIsRight` alone is not inductive: people change which axes bear
identity (`Bear`), and what was no key of now may be one again after the next change. `Good`
therefore says of every entry that its key, over whichever axes bore identity when it was written,
tells what the entry still is (`KeyStands`), and adds that references lead to entries that are there
(`RefersOK`), that one that is gone has nothing (`BlankOK`), and that no two have one key (`OneKey`).
An operation maps a good catalogue to a good one, with no barcode lost and no id given twice
(`Onward`). Each has a lemma saying what comes of it (`RegenerateOut`, `MergeOut`, ..., `SplitOut`), on which
those composed of it rest; those that go through a list (the axes of a listing, the stale axes and
names of a rebuild, the values of a split) by what holds after each step of it (`ThroughSteps`,
`StepsWithin`). Two are less than obvious. A gap of an entry may be filled, and a conflict keep what was
filled, without the key being written again: the key says nothing of an axis that was not known.
And the twin that a split moves listings to is never the entry it splits: its key says the other
value of the axis. For `FoundWhenMade`, the entry that was made has all its listing says, and is the only
candidate at the rung that the listing reaches, its barcode's or its model's: were there another, it would
have been found before, or it is one that `Findable` speaks of. For `FoldsWhatIsOne`, an axis that a rebuild
has come to says what the listings said before it (`SaidNow`), and one it has not come to what it did
(`AlignedTo`). An entry is folded into the one that has the key it would have had, so the two agree
then; where one axis is behind between them, that was the one being set, and nothing sets
another of the survivor afterwards. Names are taken when every axis is as its listings say
(`SettledTo`), and change none. Such a fold never fails half way: the twin bears a key of all axes that
bear identity, so it takes none over and keeps the key it has (`TwinTakesIn`).

The argument for `Categories`. A tree is one whose rows have ranks that fall on the way up
(`RankedBy`, `Ranked`): then the walk of `UpFrom` meets the root, and a checked move, made alone,
has new ranks (what hangs below the moved row is raised by one number for all). The move under way
is the only one and still stands past its check (`OneMover`, `PastTheCheck`), unless
`overlapped`. `StaleNeedsOverlap` carries for an edit that has the tree to itself what its
statement's snapshot will have made of the rows, those updated and those still owed
(`SetsRight`).

The argument for `Families` is about what each transaction sees over the committed tables
(`HeadsIn`, `ShowsIn`, `CallsIn`, `PutsIn`). Two parts hold always: locks and foreign keys keep
transactions apart (`ApartOK`: no row in common, nobody files under a family another deletes,
no two promotions of one entry), and so in the view of each every entry is filed under a family
that is there (`FiledOK`). The others hold for one that nobody crossed, which is then alone
(`AloneOK`): no entry hidden or without a family (`ShownOK`), and a rebuild is as far as its
stage says (`TidiesOK`): entries astray are still in `todo`, then every family that its
entries agree on is spelled so (`Spelled`), then none is visible and empty (`Filled`), then
what it deletes is exactly what is needless (`Needless`), each as long as no list was cut. A commit (`OverCommit`)
makes the tables what one transaction saw; by `ApartOK` the view of the others stays right.

The argument for `Makers`. An entry's promotion changes the question a listing asks only if its
maker had nothing in that category yet (`QuestionOf` tells the categories); no question has
two answers (`ToldOnce`), and a lookup is one maker or a question between several, never
both. So the ladder that ran again finds the maker that it found before, and with it the entry.

The argument for `Walk`. For the way that is told how many pages there are, what stands on a
page is on one that was asked for or has been seen (`ByPagesOK`), by the page each place lies
on (`PageOfAPlace`). For the others, while nothing that is listed moves, what stands before `turn * size` was
seen and nothing behind it was found (`InOrderOK`); that a short page, a page of nothing
new, or as many listed as there are then means the end is a count of the places
(`offset <= turn * size`, each product listed once).

Model-checked only:

- Liveness: fairness is out of the prover's reach, as is `ENABLED`.
- `PartsTypeOK`, a conjunction over eight modules that one run checks side by side: each of the
  eight is a theorem of its own.

`Placement`, `Families` and `Catalogue` could not be reasoned about with the library's `SelectSeq`,
`@@`, `FoldLeft` and `SetToSortSeq`, and have definitions of their own with the same meaning (`Without`, the rows of a
sequence but some, a recursive function; `Wrote` and `SeenOver`, rows written over rows; `SetAxes`, `Realigned`, `Renamed` and `Split`, recursive
functions of how far along the list they are). Induction over the naturals is proved
once, in `Ranks` (`NoFirstMissing`: the least number that a set misses would follow one it has), and
with it functions that are defined step by step (`StepByStep`, `StepsFrom`), by which `Categories`' walks are there
to be taken and what holds of each step of an operation of `Catalogue` holds of all of them. No module uses a RECURSIVE operator.

## Where code and documentation disagree

Each is a run expected to end in a counterexample; `PROJECT.json` (`findings`) quotes
the lines.

- `late_report`: a report checked before a cancel and committed after it writes
  over `cancelled`, which "its own finish is refused" excludes.
- `reparse_deferral`: "the last one settles for all of them" fails if the last
  one is cancelled, fails or is swept: nothing looks for deferred runs again.
- `series_return`: a price that comes back (10, 20, 10) is a payload that is
  stored already, so neither the offer nor the series returns to it.
- `catalogue_rebuild`: an entry two of whose axes are behind its listings passes through
  the identity of another entry when the first is set, and is folded into it though
  they differ on the second. So may two entries that have one axis behind each: one is folded into the
  other while the other still is what it was, and then the survivor is set right.
  `RebuildKeepsApart`, which the run `parts` checks and `FoldsWhatIsOne` proves, is the
  part that holds: with one axis behind between the two it does not happen. (That each
  alone has at most one behind would not be enough: with two changes of a reading instead of the
  run's one, TLC finds the second case.)
- `change_lost`: a request that fails is closed without comparing `requested_at`: a change that
  came while it was being read, and should have started it over, is closed with it.
  (`ReadSinceChanged` speaks of requests that did not fail.)

Six more, stated in the modules beside those and each refuted by TLC with the `.cfg` named,
are not among the runs:

- `HumanSurvives` (`PlacementHuman.cfg`): running the ladder by hand on a placed listing leaves it
  with a match and a queue row, and the next settling's sweep makes an entry for it and moves it
  away from where a person put it, which "survives the next pass as every human decision does".
- `HumanOutlastsJudge` (`PlacementJudge.cfg`): the judge's answer is applied to listings as they
  were when it was asked; one that a person placed meanwhile is moved. `MovesOnlyWhatWaits` is what holds of
  settlings.
- `TriedAgain` with as many listings without a reading as the limit (`PlacementStarve.cfg`): a listing
  that only quick passes saw has no reading a pass could go by, and is skipped without a row. As many of them as
  the limit head every pass, and the rest is "never retried", which the order of the pass was made to prevent.
- `ListedIsSeen` (`ObservationsGone.cfg`): a reparse moves `last_seen_at` though it asks the shop
  nothing, and a listing that had gone counts as on sale again.
- `NameIsNewestPage` (`ObservationsOverlap.cfg`): a re-read that began before a newer page was committed
  asks for the newest page without the row's lock, and writes after it: the listing is called what
  the older page says, until the next names it. The docstring of `_is_newest` speaks of this for re-reads of older
  observations, and `NamedUnlessCrossed` says what holds.
- `SeenInAnySize` (`Parts.cfg`, in the place of `StandingShopIsSeen`): m79's page size is kept "for the whole
  run" (`channels/m79.py:197`) where the fetcher has one client. With several addresses each has a session of its own,
  and a wide first page tells of fewer pages than the narrow ones that follow hold the category on.

Seen while modelling, without a property of its own:

- `Rate` says how many requests "may be *started* per second, whatever is in flight"
  (`runs/fetching.py:26`). Departures are spaced before the gate; those whose time came while
  the gate was full start as soon as it empties, together. `FetchTypeOK` says what is kept.
- A listing that a settling or a person puts on an entry while it is being folded into
  another goes with it: the match is deleted by its foreign key's cascade, and the listing has
  neither a match nor a row of the queue until the next pass tries it, which finds it by the
  lack of both (`GoesWithTheEntry` in `Placement`).
- `judge/service.py:294` says of the budget that "a pass always moves forward". A budget's
  worth of questions that fail each time is asked again each time, and
  nothing behind them; `PassMovesForward` says what holds.
- `users/service.py:130` says of two admins that "one is always left standing". Each of
  them disabling the other at the same time leaves none: either request
  reads the other as active. Accounts are not modelled.
- Nothing keeps two families from having one name: two promotions that look for it before
  either commits make one each, and no rebuild joins them. A promotion that files its entry
  in a hidden family while a rebuild deletes or hides empty ones leaves the entry without a
  family, or in a hidden one; `_misfiled` joins the family and compares names, so a later
  rebuild finds neither. Hence the condition `~crossed` of `FamiliesFollow`.
- `promote` and `promote_queue` make an entry and run the ladder again so that the link "records
  the rung that actually fired" (`matching/service.py:1079`). Where the judge chose the maker and the entry is that
  maker's first in its category, the maker is now described differently, the question hashes
  differently, and the stored answer is not found: the listing is back to `brand_ambiguous` beside
  an entry nobody is on, until the judge is paid again. Every other listing waiting between the same
  makers loses its answer too. The condition of `FoundAtItsEntry`; without it TLC finds five states.
- `promote` also makes an entry for a listing that the ladder left ambiguous. When people change which axes bear
  identity, entries keep the keys of before, and two may have one identity now that is the key of
  neither; both are complete candidates, which "would be a real question and stay ambiguous"
  (`matching/service.py:400`). A third is then made, and the listing is still ambiguous. It takes three listings
  and a change of the axes; the condition `Findable` of `NotMadeInVain` names it.
- `BrandAlias` and `BrandService.resolve` keep aliases of kind `line` out of titles ("Spigen case for iPhone 15
  is not an Apple product", `brands/service.py:273`, `brands/schemas.py:27`). The matcher's own lookup in titles, `_named_by`
  (`matching/service.py:876`), does not ask for the kind: a listing without a known maker whose title holds `iPhone`
  and no other maker is Apple's. `NamedBy` has no kinds for that reason.
- `judge_brands` runs a listing again because "the verdict is now in the store, so the ladder resolves it"
  (`matching/service.py:2535`). The question was asked with the makers of the queue's row, the ladder asks with those
  of the moment: an alias entered in between makes the answer one nobody looks up.
- The comment on `JudgeVerdict` says "the same question is never paid for twice". Two passes
  that overlap, or one whose transaction is lost, pay again: the condition of
  `PaidTwiceNeedsOverlap`.

## What is not modelled

- *Text*: rules, parsers of shops, normalisation of titles, wording of questions.
  What an expression finds in a string is not a question of states.
- *Registries* (values and aliases of attributes, brands but for their aliases, shops, proxies, markets,
  users, the counters of sign-ins): rows with uniqueness and references, which the database
  keeps. What a change of theirs sets off is in `Reread`, in `Observations!Register` and
  in `Catalogue!Bear`.
- *Read-only parts*: lists, charts, the pipeline's counts, health.
- *In modelled components*: sign-in of workers and the retry after a 401; the
  heartbeat row; availability, which has the shape of the price series;
  sellers; titles and slugs; making or hiding a family by hand; the colour and category judges; an
  admin's own run of a pass beside a settling; the cron of `due` with `CATCH_UP`; a settling that a crash cut short, which nothing
  resumes and no document speaks of.
- *PostgreSQL*: READ COMMITTED, row locks and unique indexes are assumed, and
  modelled where two transactions meet.

## Plan

Done, in the order of importance: `RunBoard`, `Runs` with `RunsProofs`, `Observations` with
`ObservationsProofs`, `Reread` with `RereadProofs`, `Placement` with merges and `Verdicts` with
`MatchingProofs`, `Catalogue` with `CatalogueProofs`, `Families`, `Categories` and `Makers` with
`RegistryProofs`, `Walk`, `Fetching` and `Snapshots` with `ChannelProofs`, and the lemmas of `Ranks`.

What would come next: the cron of `due` with `CATCH_UP` as
a pure operator against a reference definition; and a split or a rebuild beside an open settling.
