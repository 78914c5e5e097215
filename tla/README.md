# YuioLink in TLA+

YuioLink is an ephemeral link shortener: a Rust server (axum over SQLite), pages
with plain JavaScript, and two deployment scripts. A link has a name made of
words, a content (a redirect target or a text), a life of at most seven days and,
if it is *one-time*, a single use. This directory holds TLA+ modules translated
from the source, the TLC runs that check them, and TLAPS proofs about them.

Run them with `tlc -config <run>.cfg <module>` and `tlapm <module>.tla`.

## 1. Inventory

| Component | State | Operations | Interacts with | What is hard |
|---|---|---|---|---|
| Links table (`server/src/db.rs`, migrations) | one SQLite row per link: name (UNIQUE, NOCASE), content, expiry, use limit, uses, withdrawn, creator token hash | `get_link_live`, `get_link_any`, `reveal_and_redact`, `consume_link`, `insert_link`, `delete_link`, `is_creator`, `reap_expired` | handlers, reaper | statements of concurrent requests interleave; one deferred transaction |
| Link handlers (`server/src/web.rs`) | none of their own: what a suspended handler remembers | preview, card, reveal, revealed view, create (form, plain, API), read, withdraw | table, tokens, limiter, statistics | values read before an await and used after; handlers dropped at an await |
| Reveal tokens (`token.rs`, `config.rs`) | the signing secret; cookies in browsers | `mint`, `verify` | handlers | tokens name a *name*, outlive links and restarts |
| Reaper (`main.rs`) | its interval | sweep, count, publish the counts | table, allocation | failing statements; starvation |
| Name allocation (`core/src/link.rs`, `insert_link`) | `occupancy`, one atomic per tier | `words_for`, insert loop with its collision valve | reaper, table | stale or torn occupancy; full tiers |
| Name generation (`core/src/link.rs`, `words.rs`) | word list, reserved names | `generate_name`, `spelling_count`, `pick_index` | allocation | ambiguous spellings; bias |
| Rate limiter (`ratelimit.rs`) | map of token buckets behind a mutex | `allow` | create handlers | clock read outside the lock; pruning |
| Create input (`web.rs`, `link.rs`, `views.rs`) | none on the server; the pages carry the request | form with its questions, JSON API, `curl -d`; `check_link`, `parse_plain_body`, `form_ttl`, `parse_duration` | limiter, table | what a page loses; what counts as an address; overflow |
| Statistics (`db.rs`, `web.rs`) | day and metric counters | `bump_by`, `stat_totals`, `stat_recent` | all handlers | dropped increments, midnight, a page of two reads |
| Browser history (`static/app.js`) | `localStorage`, an in-memory copy per tab, markers with time limits | add, withdraw, forget, clear, merge | API, other tabs | several tabs, late storage events, frozen tabs |
| Text page and composer (`views.rs`, `joining.rs`, `emoji.rs`, `variation.rs`) | none | which characters are marked, listed, removed; the History row | create, history | joiners that spell; offsets in two units |
| Preview (`urlview.rs`, `views.rs`, `static/preview.js`) | the parts struck on the card | cut an address into slices, read it for display, edit it, label its button | create input | two programs that must agree; decoding twice |
| Link pages and share cards (`views.rs`, `card.rs`) | none | titles, tags, bodies, expiry times, the picture | handlers | what a one-time link gives away; faces and rounding |
| Deployment (`deploy/*.bash`) | binary, `.bak` copies, state file, snapshots | update, back up, roll back | server, migrations | a stop between any two steps; retries |
| Security headers, legal pages, core crypto | none | pure functions | handlers | nothing that interleaves |

What makes each correct, and where it is stated, is the table of section 4; the
hazards, at their lines, are listed in `PROJECT.json`.

## 2. Modules

| Module | What it is |
|---|---|
| `LinkTable` | the `links` table at the level of its SQL statements |
| `LinkService` | the handlers, the reaper, time, dropped clients and restarts over `LinkTable` |
| `LinkPromise` | abstract: what the service promises about a link's life |
| `LinkRequirements` | the refinement mapping, the properties and the inductive invariant of `LinkService` |
| `LinkProofs` | the theorems about `LinkService`: the life of a link, who may read it, and that `LinkPromise` is implemented |
| `NameAllocation` | words asked for, insert loop, occupancy and reaper loop |
| `NameDraw` | `generate_name` and what it calls, over every small word list |
| `NameProofs` | the theorems about `NameAllocation` and `NameDraw` |
| `RateLimiter` | `allow`, its map, its clock, its threads |
| `TokenBucket` | abstract: one unpruned bucket per client |
| `RateLimiterProofs` | the theorems about `RateLimiter` |
| `CreateInput` | kind detection, address checks, lifetimes |
| `PlainBody` | the body of `curl -d`: a content, bare or encoded, and the options after it |
| `Create` | the three create surfaces and the pages between a post and its link |
| `CreateRequirements` | what somebody who creates a link may rely on |
| `CreateProofs` | the theorems about `Create` and `PlainBody` |
| `HistoryList` | the browser's list: entries, tombstones, certificates, the merge, the purge |
| `History` | the list's handlers in several tabs, `localStorage` and its events |
| `HistoryRequirements` | what the history is for |
| `HistoryProofs` | the theorems about `History` |
| `HiddenText` | which characters of a text are marked, listed and removed; the page's and the History row's markup |
| `TextRequirements` | what a reader may rely on of them |
| `UriView` | an address cut into slices, and each value read for display |
| `PreviewCard` | the preview's card as an editor: server and script |
| `CardPage` | the card as it is drawn: headline, rows, record, marks and their entries |
| `CardRequirements` | editing only removes, labels agree, nothing hides |
| `LinkPage` | what titles, tags, pictures and bodies give away, for a name that gains a word a step |
| `Expiry` | instants read back from the database and the time left, as months go by |
| `Statistics` | the counters and the page that shows them |
| `PageProofs` | the theorems about `Statistics`, `LinkPage`, `Expiry`, `HiddenText` and `ShareCard` |
| `ShareCard` | the faces and the size of a share card's line, for a domain that gains a letter a step |
| `Deploy` | the update script, its backups and snapshots, the service |
| `DeployProofs` | the theorems about `Deploy` |
| `DataLemmas` | what the proofs need of sums, joined sequences and quotients |
| `MC*` | what TLC needs on top: symmetry, and for `MCInputs` the samples |

`NameDraw`, `Create`, `PreviewCard` and `Statistics` have state of their own, `PlainBody`, `LinkPage`, `ShareCard` and `Expiry` the body, the words, the domain
or the month and the seconds that their functions are asked about; `HiddenText` and `CardPage` are functions of a text or an address.
None of them shares a variable with another, so `MCInputs` checks them in one run: a behaviour moves one of
them and leaves the others at rest, and for the functions it grows one sample a piece at a time.

### LinkTable and LinkService

A member of `Links` is one row over its whole life, the autoincrement id. The
fields of `row[l]` are the columns, with `max_uses` reduced to `once` (creation
accepts 1 or nothing, `web.rs` 304), the creator token hash to `owned` (a token
is 256 random bits, so the link it was made for identifies it), and the content to
`blank`. `stage` distinguishes a row not yet inserted from one that was deleted. `now` is in
seconds: SQLite's `datetime('now')` and `now_unix()` both truncate to them.

The operators of `LinkTable` are the `WHERE` clauses and the `SET` lists. The
actions of `LinkService` say in which order a request issues them. A
request slot `q` has a `pc` that names the statement its handler issues next:

| Handler | Actions |
|---|---|
| `resolve`, `interstitial_response` | `ResolveCookie` or `Resolve`, then `Bump` |
| `revealed_view`, `reveal_and_redact` | `RedactRead`, `RedactWrite`, `RedactCommit` |
| `tombstone_or_missing` | `Tombstone` |
| `card_image` | `Card` |
| `reveal`, `consume_link` | `Reveal`, `Consume`, `Mint` |
| `store_link`, `insert_link` | `Create`, `Bump` |
| `api_delete_link` | `Withdraw` |
| `api_get_link`, `is_creator` | `Read`, `ReadCreator` |
| an error from the pool, a lock not obtained in `busy_timeout` | `Reject`, `Fail` |
| `spawn_reaper` | `Reap` |
| the browser, the connection | `Deliver`, `HangUp` |
| the process | `Restart` |

Between two statements anything else may happen. `reveal_and_redact` is the one
transaction of several statements. sqlx begins it deferred, so its SELECT only fixes a
snapshot; the UPDATE must upgrade to SQLite's write lock, which is refused *at
once* when another connection holds it or has committed since (`stale`).
A statement outside a transaction waits for the lock up to `busy_timeout`, which the
model renders as: it runs when the lock is free and may fail while it is not.
`HangUp` is axum dropping the handler's future: an open transaction rolls
back, what was committed stays.

Three variables are history only: `minted`, `rendered` and `handed` (the
creator tokens that reached somebody). No guard of the code's reads `minted` or
`rendered`; `handed` limits which tokens requests can present.

What is left out of the handlers: kinds of content (a redirect and a text differ
in how they are drawn, which `LinkPage` models), and the `+` that `resolve` strips.
The two bumps of a create and the two of a reveal are one step each: each is
a commit of its own, and what they can do to other requests is the same.

### NameAllocation and NameDraw

`NameAllocation` follows the attempts of `insert_link` that `LinkService`
folds into `Create`. A name is a tier and a number. The constants
`WordCount`, `LimitedWords` (also `MAX_PUBLIC_WORDS`) and `GrowAt`
(`COLLISION_GROW_AT`, 8 in the code) are parameters; `Stock` bounds how many
names a tier can issue and may be smaller than its nominal capacity, so that collisions are
frequent. The reaper's loop is split at its awaits, and the stores of the counts are
steps of their own, since a create may read between two relaxed stores.

`NameDraw` takes any word list over a small alphabet in its initial states.
`spelling_count` is the recursive function that the code's table computes. Letter
case is dropped because names compare NOCASE. `pick_index` keeps the raw values (`Raws` of them, 65536 in the code) below the
largest multiple of the list's length; `DrawAssumption` is its `debug_assert`, that the list is no longer than that.

### RateLimiter

`allow` is two steps, because `Instant::now()` is read before the mutex is taken.
Tokens are counted in units of `1/Cost` of a create, so that one unit comes back
per tick of the clock: the code's numbers are `Burst = 10`, `Cost = 6` with
ticks of a second. The arithmetic is exact; the code's is in `f64`, whose
rounding is not modelled. One process lifetime is modelled: a restart empties
the map.

### CreateInput, PlainBody and Create

A text is a sequence of atoms, each for the characters that the code treats alike (the comment at the head of
`CreateInput` lists them). Scheme detection, `looks_like_domain`, normalisation, the bounds and the
parsers of web.rs are translated; the `url` crate is external: what it accepts and how it serializes is
modelled from how link.rs uses it. Numbers are bounded by `MaxInt`, the place of `i64::MAX`, so that
products saturate or are refused within the run.

`Create` follows one client. `fields` is the form that the page at hand would post and `sent` the last one it
posted, for a reload; `asked` is what the person wants, kept apart from what the pages
carry for them, and `wishes` pairs it with each stored link. A browser's part is explicit: a textarea drops a line end at
its start, a post writes line ends as CRLF. `form_create` answers with an error, the hidden-character
step, the limiter's page or the result, whose offer of a text link posts the form again; the API and `curl` are limited first and
checked after. What `store_link` does with the table is `LinkService`'s.

`CreateRequirements` says of the constants what a form, a request or a body wants: `FormAssumption`, that a wish is the form's own text, kind and
type, with a lifetime that is the number typed times its unit, else the slider's stop, else the seconds (`AsksFor`, in exact arithmetic, where the
code's saturates); `RequestAssumption`, that a request means what it says; `BodyAssumption`, that a body is what
curl sends of a content and options (`Sent`: the content as an encoded field, or a file's bytes in which no field or option
stands, then the options, then white space) and means these. None of them speaks of what the server reads. TLC evaluates them on every form of the run.

`PlainBody` holds `parse_plain_body` and, as its state, a content and options that grow a piece at a time. `SentAssumption` says which bytes
they are written in: an escape is the three characters it is made of, and an option's value has no white space, escape or ampersand, which no lifetime or number of
uses needs.

### Texts, addresses and pages

`HiddenText` has one atom for each class of characters the rules of joining.rs,
emoji.rs and variation.rs tell apart. `marked_text` is the loop of views.rs, with what it carries from one
character to the next; `markup_tree` is the inverse History applies to that markup. Offsets count UTF-16 units, as a script does.

`UriView` cuts an address as `parse_uri` does, by scheme family, into verbatim slices, and decodes a value
for reading. `PreviewCard` is the page that is built from it: what the server writes first (`action`) and what preview.js rebuilds
after each click (`build`, `relabel`, `apply_floor`). `CardPage` adds everything the card draws. Host
names are opaque to all three.

`LinkPage` orders what a surface tells: nothing, the kind, the domain, all. The title decides by the number of words it reads in
the name's casing, the others by the link's use limit, so the two are compared. In `ShareCard` a face is the set of
characters it has a glyph for. The sets follow the coverage of the bundled fonts: the wide mono has every letter of
the narrow one, and the five CJK faces have the same letters. `Over` is the set of widths for which
`AVAIL / width` rounds in `f32` to a size at which the line is measured as too wide.
`NameWordsAssumption` is the guard test of words.rs: words of letters, with hyphens inside only.
`Expiry` keeps an instant as a day and a second of it, since TLC's integers have 32 bits. Its calendar is the reference: it counts
the days month by month, and the formula of `parse_sqlite_utc` is compared with the count.

### Statistics

A fact (a create, an open, a reveal, a sweep) is counted after it came about, one or two metrics in the order of
the calls. Every write takes the day at which it runs. `happened` and `lost` are history variables.

### HistoryList and History

A list of `app.js` is a function from links to entries: an entry is found by the id
`addHistory` stamps, and the order of the rows follows from their creation. An entry is a
state (live, one of the tombstones, the "cleared" certificate), the one time the code
compares (`coverAt`, `until` or `clearedAt`) and whether it holds the creator's token. What a row
displays is left out, but for its eye, which the merge compares.

| Variable | Code |
|---|---|
| `mem`, `on`, `armed`, `panel` | per tab: `memHistory`, `persistEnabled`, `forgetGraceTimer`, the panel's Delete and the token its closure keeps |
| `saved`, `flag` | `HISTORY_KEY` and `PERSIST_KEY` in `localStorage` |
| `events` | the storage events a tab has not handled, in order |
| `requests` | the awaits of `serverDelete`; `served` once the server has withdrawn the link |
| `created`, `withdrawn`, `expired`, `now` | the server, reduced to what an answer depends on, and `Date.now` |
| `due` | the tabs whose `tickTimer` has an expired row to dim |
| `dismissed` | history variable: rows a tab has seen cleared |

One action is one handler, which runs to completion: what it adopts (`findEntry`), what it
overwrites, what `tickForgetGrace` purges, and each `persistNow` on the way with the events it
causes. A click acts on the row as it was drawn, so guards look at `mem`; what the handler then
finds, after the merge, may differ. The answer to a DELETE finds whatever has become of the row.

### Deploy

One action is one step of `yuiolink-update.bash` in the order of the script, from the comparison of `STATE` with the latest
tag to the record of what was installed, or the way back; `set -e` ends a run where a
step fails. `Stop` and `Reboot` may come between any two steps and in the middle of writing a file (`Torn`).
`baks` is the list as `ls -1t` gives it, newest first and ties by name, because the prune and nothing else depends on times: `cp -a` gives a
backup the time of the binary it copies. A release is a number, `Schema` says up to which migration it carries, `Broken` which
ones fail their health check. The database and the service are as much as the script sees of them. `Refit` takes `yuiolink-backup` away or puts
it in place: where it is missing the script warns and updates without a snapshot (`Warn`, lines 108-109), and there is no nightly one.

| Variable | Script |
|---|---|
| `latest`, `target` | the tag GitHub calls the latest, the one this run installs |
| `dest`, `running`, `schema` | `DEST`, what systemd runs, what has been migrated |
| `baks`, `snaps`, `record` | `DEST.*.bak`, the snapshots, `STATE` |
| `pc`, `was` | where the run is, the binary it found |
| `crowded`, `lost` | whether other files lie in the current directory, whether one was removed |
| `equipped` | whether `BACKUP` is executable |
| `since`, `before`, `bare`, `stops`, `yanked`, `reworked`, `slipped` | history variables of the properties |

## 3. Runs

| Run | Bounds | What it shows |
|---|---|---|
| `link_reveal_race` | 1 link, 2 browsers, 3 requests, faults, 1 new secret | shown once, one reader |
| `link_recycling` | 2 links taking 1 name in turn, 2 requests | names, content and withdrawals stay with their link; `LinkPromise` is implemented |
| `link_liveness` | 1 link, 2 requests, fair | requests end, rows are deleted |
| `limiter_one_worker` | 3 clients, 1 thread, burst 2, prune at 2, 6 ticks | the advertised rate over every window; `TokenBucket` is implemented |
| `allocation` | 2 creates at once, 3 in all with restarts, 2 counted tiers, grow after 2 collisions | long names for secrets, bounded tries, priority of short lives, occupancy settles |
| `inputs` | see below | what is typed, drawn, stored and shown, each definition against its reference |
| `history_tabs` | 1 link, 2 tabs, grace of 1 tick, certificates of 2, 3 ticks, 3 things the user does, the switch flipped once | entries only move on, cleared rows stay cleared, tokens are purged, tabs agree and, but for ties, come to rest |
| `deploy` | 3 releases of which the second is broken, a migration at each, 2 backups, 2 snapshots, 3 faults | the record is true, a failed update finds its way back, a healthy release is installed in the end |
| `found_withdrawn_still_shown` | 1 link, 2 requests | violated: see section 6 |
| `found_late_clock` | 1 client, 2 threads | violated: see section 6 |
| `found_ping_pong` | 1 link, 2 tabs, 3 things the user does | violated: see section 6 |
| `found_stray_removal` | the deployment without faults | violated: see section 6 |

Why these bounds. The race on one link needs two requests that spend or render and
a third that withdraws, creates or writes in between; two browsers suffice to ask whether two
hold the capability. Reuse of a name needs two rows, one name, and time enough
for the first to expire (`Horizon = 2`, lives of one second, tokens valid one second more).
`Horizon` caps the clock and keeps lives within it; the reaper and all requests
go on when it is reached, so nothing is cut off in the middle. `MaxEpoch`
caps restarts that draw a new secret. In the limiter `Horizon` exceeds the
time of a full refill, so that pruning forgets a bucket and its client returns.
In `allocation` two names per tier and three creates fill a tier; `MaxWords`
is large enough that no create leaves the tiers modelled: one that did could draw no name, and `CreateEnds` would fail.
The lengths of life sit on both sides of the code's bands (3600, 172800).

The history is merged link by link, so one link is enough; two tabs make every race of a
write with an event. A tick is long against the delivery of an event (a second of
`tickForgetGrace` against a task of the browser): the clock waits until the
tabs that are not frozen have handled theirs, unless they never will (`Tied`) and have come to agree in all else
(`Settled`): two tabs that exchange a removal for ever deliver everything else meanwhile. A certificate
lives for two ticks, the clock runs for three, so it is dropped within the run, and a grace of one tick
ends before that. Three things the user does create a link, remove it and act on what is left of it; the
runs' safety properties were also checked once with four (1.4 million states).
`ClearedStaysCleared` and `TokensArePurged` are about runs in which the switch is left alone: a tab that was switched
off neither adopts certificates nor purges what others saved.

`deploy` has a healthy release before and after a broken one, so an update fails with something to go back to and is
repaired by the next; every release migrates, the broken one too, so that the way back may be closed and the repair needs a snapshot of its own. Two faults stop as many runs as `KeepBaks` keeps
backups (2 in the place of the script's 3), the case in which the prune goes wrong (section 6), and the third comes on top; two snapshots are pushed out by one retry and one night. A fault is also a
change to `yuiolink-backup`: two of them take it away for one update and put it back for the next.

`inputs` takes small numbers in the place of the code's: a minute of 2, an hour of 4 and a day of 12
seconds, lifetimes of 2 to 60, integers to 127, so that 11 days overflow; contents of at most 6 atoms, ladder of 4 stops, one token of the limiter,
two links. Every text of up to 3 atoms is typed, and longer ones that mix what 3 cannot: a host with a port, a hidden
character in a host, line ends before a hidden character. Lists have up to 3 words of up to 3 letters out of 2, names up to 2 words, 16 raw values.
Values grow to 3 or 4 chunks and texts to 5 atoms, by themes of characters that act on one another; a rule that looks at a character looks at its
nearest neighbours that count, at most two, and 5 atoms hold two neighbours and what may stand between.
A body has up to 4 pieces: bytes of its content, among them those of every escape, and at most 2 options.
Domains grow to 5 characters on a card 2 to 4 wide letters in width, where each reason for a cut occurs. A name gains words up to one more
than `LIMITED_WORDS`. Months go by from 1970 to 2102, past leap years and the first century that is none, spans lie around each whole hour up to 200. The statistics have 2 handlers, 3 days, a
window of 2 days and 2 facts; of the facts that differ by name only, one each.

Deadlock is checked in the link, history and deployment runs. The limiter stops at its horizon,
`NameAllocation` comes to rest when its budget is spent, and in `inputs` a name is issued and a sample has grown to its size: there CHECK_DEADLOCK is off.

### Fairness

`LinkService`: weak fairness of each request's next statement (tokio polls
every task that can go on), weak fairness of time, and *strong* fairness of `Reap`. The
reaper tries again on every tick of its interval for as long as the process lives;
the write lock is held only between two statements of one transaction, so it is free again and
again, and a sweep is then not kept out for ever. No fairness is assumed of clients,
of faults or of restarts: a client may never come, a fault may never happen.
`link_liveness` runs without database faults; if the database always fails, no name is freed.

`NameAllocation`: weak fairness of each create's next attempt, weak fairness of
the reaper's steps and strong fairness of those that succeed. `Store` cannot fail.

`History`: weak fairness of each tab's next storage event and of its grace timer, which an open page's
event loop gives. None of the user, the server or the clock.

`Deploy`: weak fairness of the script's next step. systemd's timer starts it every five minutes and nothing in it waits for
ever (the health check asks five times); publishing, faults and `--force` have none.

## 4. Properties

| Property | Says | Proved |
|---|---|---|
| `ShownOnce` | at most one revealed view shows a link's content | yes |
| `SoleReader` | two browsers never hold the capability for one one-time link | yes |
| `ContentOnlyToHolders` | a one-time link's content goes to a verified reader or its own creator | yes |
| `RevealsItsOwnLink` | a revealed view shows the token's link unless it was reaped | yes |
| `NameNeverRepurposed` | an unexpired link keeps its name, spent, withdrawn or live | yes |
| `KeepsPromise` (links) | the service implements `LinkPromise` | yes |
| `EveryRequestEnds`, `EveryNameFreed` | liveness | out of reach |
| `WindowBound` | at most the burst plus the refill in any window | yes, one worker |
| `OnlyActiveBeyondPruneAt` | memory beyond `PRUNE_AT` only for active clients | yes, one worker |
| `KeepsPromise` (limiter) | pruning is never noticed | yes, one worker |
| `PolicyHolds` | a secret or one-time link never gets a short name; at most `GrowAt` collisions in each tier in use; a longer life never gets a shorter name | yes |
| `CreateEnds`, `OccupancySettles` | liveness | out of reach |
| `LinkIsAsAsked` | a link is what was asked for, whatever pages came between | yes |
| `RefusedForCause` | a form is turned away only for a cause | yes |
| `PlainBodyIsExact` | a curl body gives back its content and options | yes |
| `DrawIsExact`, `IssuedInItsTierOnly` | spellings are counted exactly, no word is favoured, a name is spelled in its own tier only | yes |
| `MarksCarryTheText` | page and History row hold every character, and each mark opens its entry | of a copy, not of marks and entries |
| `RemoveLeavesNothing` | Remove takes what is hidden and nothing that spells | no |
| `EditOnlyRemoves`, `LabelsAgree` | an edited card holds exactly the parts still ticked; server and script word the button alike | no |
| `ReadingIsReal`, `NothingHides` | what a card shows is what is stored, and what hides is warned of, marked and explained | no |
| `OneTimeIsBlind` | no title, tag, picture or page of a one-time link tells its domain | yes |
| `TimesAreTrue` | an expiry is read as written, the time left is told truly | yes |
| `TalliesAddUp` | every fact is counted once and never too early; the page shows no more than came about | yes |
| `CardIsLegible` | a domain is drawn whole or cut for a cause, each letter in a face that has it | yes |
| `DeletedIsTrue` | no list says "deleted from the server" of a link that works | yes |
| `AgreeAtRest` | with no event under way every saving tab holds what is saved, but for certificates past their time | yes |
| `EntriesMoveOn` | in an open tab an entry goes from live to tombstone to certificate, its eye to later choices, and never back | yes |
| `ClearedStaysCleared` | a row seen cleared does not come back in that tab | yes, without frozen tabs |
| `TokensArePurged` | a forgotten link's token goes when its grace is over | out of reach |
| `RestUnlessTied` | only two different removals of one link keep the tabs writing | out of reach |
| `UpToDateIsTrue` | a run that finds the latest release recorded, and does nothing, has it in place | yes |
| `ServesUnlessMigrated` | a failed update leaves the old release serving, unless the new one migrated | yes |
| `BackupAtHand` | a failed update finds the binary it replaced | yes |
| `SnapshotBeforeMigration` | the snapshot before a migration is where later ones have not pushed it out | yes |
| `EventuallyCurrent` | a healthy release is installed in the end | out of reach |

Two more are theorems and no longer checked by a run: `SpentOnce` (a use is spent at most once, and no more tokens are minted
than uses spent) and `DeadStaysDead` (nothing revives a link). The proofs' invariants `IInv` were checked by TLC
on the instances above before they were proved.

## 5. Proofs

`LinkProofs` proves, for every value of the constants, that the conjunction `IInv`
of `LinkRequirements` is an invariant. `ShownOnce` and `SpentOnce` are not inductive:

- that a link is shown once rests on `SnapshotCurrent`. A request about to commit,
  or one whose snapshot nobody has outdated, still sees what the table holds, so the content it read is not
  blank; and on `LockHeld`, which makes it the only one about to commit.
  `RenderedIsBlank` ties the count of renders to the column.
- that no more tokens are minted than uses spent rests on `OneMint`: of a
  one-time link there is at most one request between spending and minting, and then none was minted.
- `NameUnique` is the table's UNIQUE constraint, and `RowShape` and
  `RequestShape` say which fields are filled when.

There is a lemma for each action; `Invariant` puts them together. `NamesStayReserved` and
`NoRevival` are action properties: `Ages` states what one step may do to a row,
and they follow from it and the invariant. Assumptions: those named in the
modules (`NoneAssumption`, `ServiceAssumption`, `TokenAssumption`), no bound on any set.

Its second part proves for the same parameters `SoleReader`, `ContentOnlyToHolders` and `RevealsItsOwnLink`. The table alone
does not give them: cookies, tokens in requests and creator tokens outlive the row they were issued for, and names are
issued again. `RInv` therefore ties each of them to a row: a token kept or presented under a name is `Backed` by a use of a link that was
published under that name (`JarsBacked`, `RequestsHonest`), a creator token in hand belongs to a row that was taken (`HandedStored`), and
nobody holds a token before one was minted (`HoldersPaid`), so that with `SpentOnce` the first holder is the only one.
`Keeps` says that a row, once taken, keeps its name and use limit and is never stored again; with it what a request in flight knows
survives every step of the others.

The third part shows the refinement. The state of the promise is written as functions of the table (`Directory`, `Used`, `Past`, ...), each
statement of db.rs is shown to change them as one action of `LinkPromise` does or not at all, and `ServiceRefines` follows
from `IInv` and `TypeOK`. It needs `TokenAssumption`, that no token is `None`.

`NameProofs` proves `PolicyHolds`, and with it that no create leaves the tiers modelled, which is what
`MaxWords` rests on. The invariant `AInv` adds two things: `InStep`, that a create's collisions and its growth belong together
(`Valve` does the arithmetic of the remainder), and a `Ledger`: the creates in flight and the tiers that ever held a link
together number at most the creates begun. A create leaves a tier only if some link was held there, so it cannot run ahead of what was begun
(`RoomToGrow`). That a longer life never gets a shorter name needs the least open tier to exist (`Least`) and a capacity not below zero;
the provers know no powers, hence `CapacityAssumption`, which TLC evaluates.

Its second part is about `NameDraw`, for any alphabet and word list. That `spelling_count` counts the ways to spell a name (`DrawIsExact`) compares
a recursive function with a set of sequences of words. A spelling is seen as a *chain*: the places where its words meet, with both ends of the name.
The chains that end at a letter are those that end where a last word can start, each with one place more, and no chain comes about
twice; that is the sum the function makes (`ChainsAdd`), and a sum that stops at a limit is the sum, or both are past the limit. A first letter at which
the function counted wrongly would have only right counts before it, so there is none (`CountsChains`). A draw of `n` words has a chain of `n`: a name with one
spelling is spelled in its own tier and no shorter tier reaches it (`IssuedInItsTierOnly`). The raw values `pick_index` keeps are whole rounds of the
list's length, with each remainder once in a round (`PickedEvenly`).

`CreateProofs` proves `LinkIsAsAsked` and `RefusedForCause` for texts of any length, any bounds and ladder of lifetimes, any forms, requests and bodies
that the assumptions of section 2 admit, and any number of posts and reloads. The code looks at a text by cutting it: at a scheme's colon, at the end of an
authority, at an escape. `CutIs` says what lies before the first of some atoms (none of them) and from it on, and the rest follows without
a recursion over texts. A serialized address is read back into the parts it was made of, so `Canonical` settles in one turn (`CanonicalSettles`). `UnwireWire`: what a
browser makes of line ends, the server undoes, so a page's text survives being posted. `TypedFits` compares `parse_duration`, which saturates, with exact
arithmetic: where they differ, both are beyond the maximum, for which the maximum has to be less than `MaxInt` (`InputAssumption`; a maximum of `i64::MAX` seconds would let
a saturated product pass as one that was typed). `DetectFits`: what is detected as an address passes the checks, but for the bare host with a colon of
section 6. The invariant `CreateInvariant` is about pages: whatever the page at hand would post, and whatever a reload would post again,
`Matches` what the person asked for, on the result page with the offer in the place of the question; and each link `Meets` the wish it was made for.

Its last part proves `PlainBodyIsExact` for contents and options of any length; the theorems above use it for what comes by curl.
An encoded content is one piece after another, of one byte or three (`JoinsAgree` addresses a byte by its piece and its place there). The decoder
is a function that goes from the right end to the left; a rightmost piece where it gives back something else does not exist, so what was encoded is read
(`EncodedReads`). The parser goes the other way and cuts at the last ampersand: since no ampersand is left in an encoded content, and none in a value, that is where the
last option begins (`LastOption`), and each turn takes just it (`TurnTakes`). After as many turns as there are options the content
is left, which is none (`BodyTurns`), and of options given twice the first is written last.

`RateLimiterProofs` assumes `OneWorker`: at most one thread is inside `allow`, which is the
deployment of docs/NAMESPACES.md ("a 1-vCPU box") with a runtime of as many workers as
CPUs. Section 6 shows what happens without it. Its invariant says that the stamps in hand
are not before the last decision, that no bucket is dated later than that, and that in
any window what a client spent is covered by what its bucket lost. The window's beginning is an arbitrary
time chosen initially (`since`), so a statement about one window is one about all.
`LimiterRefines` maps a decision of the pruned map to a step of `TokenBucket`.

`HistoryProofs` proves for any links, tabs, grace and certificate life the invariant `IInv`: the types, that a
closed tab holds and is sent nothing, that a served DELETE is of a link that is gone, and that *every* list is
`Honest` - it says "deleted" only of links that are gone, has entries only of links that were created and
no eye clicked later than the last thing the user did. `DeletedIsTrue` is not inductive without the requests
(the answer writes what the server did earlier). All handlers are instances of `AnyTabStep`: one list changes, into an honest one,
and at most that list is saved. `EntriesAdvance` then shows for each handler that what it makes of an entry has
moved on: the merge by `MergeMoves`, a purge by `PurgeMoves`, a tombstone put in the place of a row
by `TombstoneMoves` (here `findEntry`'s refusal of cleared rows is used), a click on an eye because
the clicks before it were earlier. A new entry replaces none, which is why the invariant speaks of `created`.

`AgreeAtRest` speaks of rest, and most states are not at rest. `Agree` says of every open tab that it is `Told`: it knows the
switch and the list as they are stored, or an event of the one that differs is in its queue. A save makes every other tab's list
differ and puts the event there in the same step; handling one either takes over what is stored or saves what it merged, and then
the others are told. Lists are compared up to certificates whose time is over (`Same`), since a tab drops those on
reading without saving. `TabsAgree` needs no fairness and no assumption on frozen tabs.

`ClearedStaysCleared` is where the time limit of a certificate matters: once it is dropped, any list that still shows the row would
bring it back. `Laid` says that it never is too early. A link is `Buried` when neither the saved copy nor a tab shows it; every list is
`Quieter` - it shows no buried link and its certificates are of this tick or of buried links - and each dismissed row is certified in its tab or
buried. When the clock moves all tabs have handled their events (`Settled` or empty queues), so by `Agree` they hold the same list, and one certificate
in it means that no list shows the row (`TickLaid`). Hence the two hypotheses of `ClearedForGood`: no tab is ever frozen
(`Awake = Tabs`), and the switch is left alone (`flips = 0` in the property). mergeHistories' comment accepts the frozen tab, section 6 describes the switch.

`DeployProofs` proves for any releases, schemas and numbers of backups, snapshots and faults the invariant `IInv` of
`Deploy`. `UpToDateIsTrue` speaks of the moments between two runs and is not inductive: a run may be stopped anywhere. `Settled` says
what the run over the recorded release found and leaves, `InPlace` that what is started and recorded is the
target, and `OwnBackup` that the only backup a run goes back to is its own, of the binary it found, so a way back restores what was recorded.
`NothingIsSkipped` follows. The backups are a sequence and the prune a cut of it, hence the lemmas about `BackUp`, `Older` and `Newest`.

Whether a failed update can go back is `Recoverable`, which has four parts. `InOrder`: the backups not older than the binary come first, and there are at
most as many as runs were stopped and one for the run under way; for `cp -a` hands the binary's time on and `ls -t` orders by it, so only stopped runs leave
several copies of one time. `OwnKept`: the run's own backup is then among the first that the prune keeps (`UpdateCanGoBack`).
`Served`: without a stop, what is in place is whole, what is recorded was seen to answer, and it still serves, unless the database has
moved beyond its schema (`RecordedServes`). `Covered`: releases only rise, a binary that has yet to migrate the database was put in place after a snapshot of
the present schema, and the snapshot before a migration moves back by one with each later one (`MigrationIsCovered`). The last was first thought
to hold after every run; trying to prove it gave `slipped`, the exception section 6 describes. The other exception, `bare`, is in the
invariant itself: a run that finds `yuiolink-backup` missing and no snapshot of the schema raises it (`WarnCovers`), and `Covered` is
re-established by the next migration that has a snapshot behind it.

`PageProofs` proves `TalliesAddUp`. The sums of `Statistics` are the community modules' folds over finite sets, defined by a `CHOOSE` of a
recursive function and of the element to add next, so that nothing but their definition is known of them. The first part shows that such a
function exists (`AddsExist`), that any element may be the one added last (`AnyOrder`), and from these what sums obey: `SumTakes`,
`SumPlus`, `SumMost`, `SumChanges`, `SumWithin`. Instead of induction each law takes a smallest set that breaks it (`LeastSet`), which well-foundedness
of the naturals gives. The invariant `SInv` then has
a `Ledger` (in the table, owed or lost: together what came about), `Balanced` (links came about by type as by kind), `Dated` (no day's running total is ahead of
the facts', which for days past is kept and for today follows from the ledger), and `HasRead`, what a page's first read still is worth. That a type is counted before its kind comes from the
shape of the queues (`Queue`, `TypesFirst`). The only hypothesis, `Sized`, is that handlers are finitely many and the numbers of days are numbers.

`OneTimeIsBlind` has two halves. That a name is read back as the words it was made of (`NameReads`) concerns two programs with different loops, one that joins
words in alternating case and one that cuts where the case of neighbours differs. The joined name is addressed by word and place in the word
(`Pieces` of `DataLemmas`); after each character the words read so far are those written, the last one up to that place, and a
first character after which they are not does not exist. Hyphens stay inside since words begin and end with letters. The other half, `PagesAreBlind`, goes through
surfaces and kinds of links; it uses that one-time and secret names have `LIMITED_WORDS` words, which is `PrivateStaysLong` of `PolicyKept`.

`TimesAreTrue` has the invariant `CalendarCounts`: the days counted month by month are those of the formula. A month adds to the formula's days what the
calendar gives it (`MonthAdds`): within a year that began in March by cases (`MarchDays`), and from February to March because the days of the
years before grow by 365 or 366 (`EraGrows`: `yoe` goes on by one, or an era of 400 years ends). The hours and spans are quotients, which the provers take only
with their remainders written out (`TellsTrue`).

`CopyIsStored` proves the first thing `MarksCarryTheText` asks of a page: for every text, reading and place for words, a copy of the marked
page is the text that is stored (`Copied` is what a parser makes of the pieces, put together again by text.js). `PageOfVisits` shows that
the fold in `marked_text` is one `Visit` after another. The invariant of these, `Kept`, is that what is written reads back as the text before `start`,
and that what is not yet written holds no NUL and no carriage return, up to the place visited or the end of the cluster that is passed over.
It needs that neither is ever inside a marked cluster (`ClusterHas`; that a NUL ends a grapheme is a fact of the segmentation, which `Holds` stands for)
and that a NUL is always marked (`NulIsMarked`). How the places are counted, how marks are told and where words are listed does not matter to it.

`CardIsLegible` is proved for domains of any length over any alphabet, any width of the card, any number of characters shown (but more than one) and any
set of widths that round; only the scripts and what each face has a glyph for are the sample that `ShareCard` fixes. Its first half finds the faces: a stretch
of letters that some face has has one face for them all (`FaceFound`, from `CandidatesAre`: among the candidates of a kind one has all letters
that any of the faces has), a neutral character keeps that face or takes one beside it, so that a text is drawn exactly if each character has
some face (`RunsAre`), and the letters of one stretch share theirs (`OneFace`). The second half is the loop of `fit_hero`: each round draws the line or tries a shorter
one (`LineIs`), so the function that follows the rounds exists (`StepsExist`) and ends at a line that is drawn (`LoopEnds`), the whole one unless
it was too wide. What is cut from a capped domain is cut from the domain (`CapCuts`), and the ellipsis has a face.

Only model-checked: liveness, which is out of the prover's reach, and whatever the table above says "no" to. That the marks of a page and its
entries belong to each other counts over the whole text on both sides, and the properties of preview cards speak of loops with much to carry from one
character to the next (the slices of `parse_uri`, the decoder of UTF-8): each would need an invariant of its loop about as long as the loop.

## 6. Where code and documentation differ

- **Withdrawn after the use was spent** (`found_withdrawn_still_shown`).
  docs/PREVIEW.md gives 410 for a withdrawn link; `reveal_and_redact` does not look at
  `withdrawn`, so the reader who already spent the use still sees the content.
- **The clock before the lock** (`found_late_clock`). With several worker threads `allow` can
  refill an interval twice.
- **Two tabs write for ever** (`found_ping_pong`). A merge keeps this tab's copy among removals of the same rank, and
  drawing the list writes it. Forget a link and then, in its grace, delete it in the same tab: a second tab still
  holds "forgotten" and writes it back, the first writes "deleted" again, and each event provokes the next, although
  the comments of `persistNow` and of the storage listener exclude a ping-pong. `RestUnlessTied` shows this is the only way.

- **The first install prunes the current directory** (`found_stray_removal`). The prune lists `DEST.*.bak` with
  `nullglob` set. Without any backup the pattern vanishes, `ls -1t --` lists the current directory, and all but its newest
  three entries go to `rm -f`; a directory among them ends the run before the install (`deploy/yuiolink-update.bash` 117-121).

Not runs, but worth knowing.

*Links and history.*
The comment on `reveal_and_redact` promises 410 to every visit after the first; one that reads before the
first commits is refused by SQLite and answered 500.
Local History switched off in one tab deletes the saved copy; a tab that had an
earlier storage event to handle writes its list before it learns of the switch, and the copy stays. A tab
that was frozen for longer than a certificate lives brings cleared rows back, as the comment at
`mergeHistories` accepts. `persistNow` reads, compares and writes without a merge on some paths (an eye's click, Clear All): the tab it
overwrites repairs the loss when it handles the event, but not if it is closed before. A reveal token can open the next link of its name,
if it outlives its own (the token lives up to ten minutes; "the link's own expiry
still bounds everything", says token.rs) - `RevealsItsOwnLink` is stated with that exception;
it blanks the content of that next link, even when that one is not one-time.
A name reissued between the two reads of `resolve` answers 410 for a live
link. `core/src/words.rs` says only one-word names can be reserved, while
`generate_name` also refuses two words that spell `wordlist`. db.rs 165-167 says that redirects and
one-time reveals both come through `consume_link`; only `reveal` calls it, so a redirect that is followed is not counted as opened.

*Deployment.* After `KeepBaks` runs that were stopped, the copies of one binary have one time, and the prune removes the newest, the run's own
(`BackupAtHand` is stated for fewer). A release that is withdrawn, or `--force` stopped while it puts the same release there again, leaves
`STATE` naming what is not in place, and the timer then finds it up to date for ever (`UpToDateIsTrue` excepts both).
The note at lines 145-146 says to restore the newest snapshot; from the second attempt on the newest one is from after the migration.
The comment at lines 104-105 says "Fail closed -- no snapshot, no update", but where `yuiolink-backup` is not installed the script warns and
updates without one (lines 108-109). Unless a snapshot of the schema is there already, the next migration has none behind it (`bare`, an
exception of `SnapshotBeforeMigration`), until one that has. The set-up of a machine always installs it.
After a stop between install and record, the unvetted binary is the one in place: the next run tries the release again
(`UpToDateIsTrue`, `EventuallyCurrent`), but it is that binary which it backs up, and to which it goes back when the update fails.
A run looks for a database once, before its snapshot. When a first install has failed, its service may make and migrate the database just after the next run has
looked: that run takes no snapshot and installs its own migrations over it (`slipped`, an exception of `SnapshotBeforeMigration`).

*Create.* `example.com:8080` is detected as a redirect and then refused: the look at the host stops at the colon, and what is before it
is no allowed scheme (link.rs 343-345); `RefusedForCause` counts it as a cause. Where the longest lifetime is set below seven days, the slider of
the form offers, and first shows, a stop that is refused. *Remove and Create* does not check its result: where a hidden joiner stood
beside one that spells, the other may now say nothing (`Crowded`), one carriage return more or less changes what the others mean (these
texts are left out of `RemoveLeavesNothing`), and a text may have become an address.

*Addresses.* `irc:chat?x`, `ircs:x`, `ftps:x` and `magnet:xt=a` do not reassemble to what is stored (`WellFormed` excepts them), and
preview.js rebuilds the button as the page loads, so the button opens another address, although urlview.rs 8-10 promises the stored bytes.
preview.js and the server word the button differently for a mail with `bcc` or several `cc` and for a message to no number, against
preview.js 17-19 (`Differing`). The floor of a message's recipients counts empty ones.
An address of one run (irc, ftp, spotify) draws its username before the slashes and decodes its query, against views.rs 1392-1398 (`OutOfOrder`).
`decode_for_reading` may show an escape that is not there, `%20` for `%%32%30`; web addresses are read by the
other decoder. A web path draws `%3F` as `?`. No chip warns of escapes in mail and chat addresses, usernames and spotify bodies, which are
drawn as stored (`ReadBare`). `xmpp:%02` has a mark and no list for it to open, `ftp://x/%02` a warning and no mark.
A run of several escapes is named by its first character.

*Pages.* `humanize_duration` names a ceiling of 90 seconds "1 minute". A share card cuts some domains that fit, because a size found by division is measured
again in `f32` (`Over`; about one width in six between the two sizes), against card.rs 429-430. A domain that is cut has lost its last label,
which chose the forms of its Han letters (card.rs 282-283). The note at views.rs 2700 says "on a different domain", while no domains
are compared, and addresses in a mail's `to=` are not counted.

## 7. Not modelled

Security headers, legal pages and the unused sealed format have no state of their own and nothing
interleaves with them. Of the pages, layout, styles, QR codes, phone numbers and their countries are left out: they are tables, and no property is about them.
The reading of a host (punycode, registrable domain, scripts of a label) rests on Unicode's tables; a host is one slice here.
preview.js's copying, with its feedback, and the notes it opens and closes change nothing that is stored, and text.js edits on the page what
`HiddenText` models on the server. `live_count` is a count over the table.
The MAC of a token is taken as unforgeable and a creator token
as unguessable. Of the history, its entries' display data (marks, snippets), the removal of an older row with
the same url, the window's width and openness, and a second DELETE of one kind while the first is under way are left out. SQLite's own recovery is trusted: a committed statement survives
a restart (WAL), though a power cut may lose the last commits. Statement errors
are modelled as failing before they take effect. The set-up of a machine (`deploy/droplet-user-data.bash`) runs once.

## 8. What is left

1. **Proofs**: that `CardPage`'s slices put together are the address (`ReadingIsReal`), as names and bodies are put together.
2. **Host names**: what `url_line` marks in a label of mixed scripts, over a small table of scripts.
3. **History**: the removal of an older row with the same url, composed with `HiddenText`'s rows.
