# CopyIt: a TLA+ verification project

CopyIt is a browser extension with a native host. The popup of the extension
lists the prompts ("snippets") of the user's library and copies one to the
clipboard; the host (`native-host/`, Rust) owns the library, an SQLite database
that the CopyIt desktop application shares, and decrypts protected prompts while
the vault is unlocked. The two speak a small JSON protocol over Chromium native
messaging. The first host or desktop to start after the update migrates the old
JSON files into the database.

This directory models the parts of it that have behaviour: TLA+ modules, TLC
configurations that check them on small instances, and proofs that TLAPS checks
for every instance. Sources are named relative to the repository.

- [1. Inventory](#1-inventory)
- [2. Modules and their correspondence to the code](#2-modules-and-their-correspondence-to-the-code)
- [3. Runs, bounds, fairness](#3-runs-bounds-fairness)
- [4. Proofs](#4-proofs)
- [5. Where code and documents disagree](#5-where-code-and-documents-disagree)
- [6. Not modelled](#6-not-modelled)
- [7. Plan](#7-plan)
- [8. Running it](#8-running-it)

## 1. Inventory

| Component | Source | State it keeps | Operations |
|---|---|---|---|
| Legacy migration | `migration.rs`, `legacy.rs` | `copyit.db`, `snippets.json`, `config.json`, their backups, `copyit.db.migrating.<pid>`, `migration.lock` | `ensure_canonical_db`: open, or lock, re-check, read, hash, build, verify, install, back up, sweep |
| Import transaction | `migration.rs` (`build_and_install`, `verify_imported`), `legacy.rs` | the tables of the temporary database | insert categories, snippets, settings; read back; commit or roll back |
| Host request handling | `main.rs`, `protocol.rs` | connection, cached failure, vault key, wrong-password count | `hello`, `listCategories`, `listSnippets`, `getSnippetBody`, `unlockVault`, `lockVault`, `ping` |
| Database access | `db.rs` | the database | open and check, categories, search, count and page, body, configuration |
| Native client | `native-client.ts`, `protocol.ts` | port, map of pending requests with a timer each | connect, request, message, disconnect, timeout |
| Popup copy and vault | `popup.ts`, `copy-feedback.ts` | vault state shown, dialog, the pending copy, each button's state | copy, unlock, reconcile after a timeout, cancel, lock |
| Popup list | `popup.ts`, `state.ts` | opening, category menu, query, category, debounce timer, generation, rows, offset | open, search, choose a category, load, load more |
| Framing and the serving loop | `framing.rs`, `native_mode` in `main.rs`, `parse_request` | the position in the byte stream, the frame being read, the response being written | read a frame, parse its envelope, write a response, end with an exit code |
| Log | `logging.rs` | `native-host.log` and its backup, each host's open file | rotate at the start, check the length, append, cut |
| Vault cryptography | `vault.rs` | none | derive, encrypt, decrypt, verify |
| Origin check | `origin.rs` | none | accept or refuse the command line |
| DOM helpers, scripts, diagnostics, desktop | `dom.ts`, `tooltip.ts`, `scripts/`, `--self-test` and others | none of the protocol's | |

How they interact. The popup calls the client, which posts frames to one host at
a time and settles promises when a frame, the end of the port or a timer comes.
The host is one thread: it reads a frame, answers it and reads the next; the
first request that needs the database calls `ensure_canonical_db`. Hosts of
several browsers and the desktop share one data directory and meet in the
migration lock and in SQLite. An old desktop, which knows only the JSON files,
may still run and save them.

What is hard.

- *Concurrency*: several processes migrate one directory and write one log; an old desktop writes
  without the lock; a popup's promises, timers, clicks and the end of its host
  interleave; the desktop edits rows and replaces the vault under a host.
- *Failure*: a crash between any two steps of a migration; an insert or a
  verification that fails; a host that ends with requests pending; a clipboard
  that rejects; a pipe that ends inside a frame; a log that cannot be rotated; a
  vault or a record that is damaged.
- *Ordering*: answers of overtaken loads; events of a port that was given up;
  backups after the installation, never before.
- *Timeouts*: the client waits 3.5 s for a read and 10 s for an unlock, the host
  up to 15 s for the lock: answers come after their timers, and what was asked
  has been done although it was reported as failed.

What makes each component correct.

- Migration: one whole library is installed, once; no content of the user's is
  overwritten or lost; a seed never takes a library's place; every call returns.
- Import: what is committed is the library that was read, for every id; what is
  refused is refused for a reason, and leaves nothing behind.
- Host: a start that failed for good is final and one that may be retried is not;
  a key is held only after its password and only until a lock; a right password
  and a sound prompt are refused only for a reason; each request gets one answer.
- Framing: every whole frame within the limit is answered, in order, whatever the
  pipe does with its bytes; what is above the limit ends the loop and says so.
- Log: bounded in size whatever fails and whoever else writes; a host loses its
  log only when the file system refuses it, or when two hosts rotate at once.
- Client: each request settles, once, and only by an answer of the host it was
  sent to.
- Copying: no path leaves the popup unable to copy, a button disabled or a check
  mark behind; one copy at a time; the retry after an unlock is the copy that
  asked for it; the vault shown is the vault the host has.
- List: the rows belong to the filter shown; over an unedited database they are a
  prefix of what the search means; an edit of the desktop costs at most a row; every
  snippet is under an entry of the category menu; the spinner stops.

PROJECT.json lists the components, and under "hazards" every place of this code
that is hard to test, with the properties that cover it.

## 2. Modules and their correspondence to the code

```
Library  <--implements--  Migration  --one step refined by-->  LegacyImport
                             |  (its results)                   (and the menu)
                             v
HostService <--implements-- Host          Protocol: the answers both ends know
                             ^                 ^
                             | (answers)       |
Exchange <--implements-- Framing, Session -----+      Listing (over Search):
                                     |                the list, over the same host
                                     v
                                NativeClient          Logging, Calendar: the log
```

**Library** is the promise of the migration: no library, then at one instant a
complete one that is never replaced; imported sources are moved aside after that.
**Migration** is `ensure_canonical_db` for a set of processes. `pc[p]` is the
place in the function; every step that reads or writes a shared file is an action
of its own (`Enter`, `AcquireLock`, `LockTimeout`, `Recheck`, `ReadSources`,
`HashSources`, `ClearTemp`, `OpenTemp`, `ImportCommits`, `Install`, `Reopen`,
`BackupSources`, `Sweep`, and the failures between them), and `Crash` may come
after each. The bytes of a file are a member of `Content`, some of it `Corrupt`
(does not parse), some `Unimportable` (parses, and is refused by an insert or by
the verification); `snap` is what was parsed, `hash` what was read a second time
to be hashed. Reading may fail: `read_source` then reports a corrupt file, as for one
that does not parse, and `hash_file` answers "none", with which the import goes on. Actions of the environment: an old desktop saves a file
(`DesktopSave`), a newer one upgrades the schema (`DesktopUpgrade`). SQLite
transactions are atomic, and an `flock`-style lock dies with its process.

**LegacyImport** opens the step `ImportCommits`: the rows that `build_and_install`
inserts, one snippet per step, and what `verify_imported` compares. Ids are
`Width`-bit and cast to signed as `s.id as i64` does; categories are spellings
that `normalize_category` maps to names; a protected snippet may have a plaintext body
too, which the parser accepts and the insert drops; the theme keeps only whether spaces
surround it. **Ascending** is the sort that it and `Listing` use: the n-th member of
a set of numbers is the one with n - 1 before it.

**NativeClient** is `native-client.ts` alone, against ports that may deliver
anything: the right answer, a late or doubled one, one that names another
request, a malformed one with or without an id, the end of a port that was given
up. Each handler runs to completion, so each is an action. `postedOn` and
`settled` are history.

**Protocol** states once which answers a request can get, and what becomes of the
key. **HostService** turns that into the promise of a host: one request at a time,
one answer each. **Host** is `main.rs`: the serving loop (`Receive`, `Respond`,
`Exit`), `connection` (`Open`, `FailClosed`), the methods, and `unlock_vault` in
its two halves, before and after the backoff, because the desktop may replace the
vault in between. A vault stands for salt, canary and key; those in `Broken` are
stored damaged. A body is gone, plain, protected under the current vault, or
damaged. `Verifies` and `Decrypts` say what `vault.rs` comes to.

**Framing** is the serving loop below that: `native_mode` with `read_message`,
`read_exact_or_eof`, `parse_request` and `write_message`, over a pipe of bytes. A
read takes any part of what is wanted and has arrived (`ReadSome`); the browser
sends whole frames, dies inside one (`Hangup`) or stops reading answers
(`StopReading`); a read may fail. Everything is scaled: a byte is a number below
`Base`, a length has two of them, an envelope is the two bytes id and version.
What `handle` does with a request is `Host`'s business and any answer here, small
or too large. `Start` is the check of the command line in `origin.rs`.
**Exchange** is the promise: messages are answered in order, each once and with an
answer to it; `Framing` implements it with the bytes hidden.

**Logging** is `logging.rs` for a set of hosts. A file has an identity and up to two
names: a host goes on writing to the file it opened, whatever it is called by then.
Start-up is a step per call on the file system, each of which may fail, and writing
is two: the check of the length (with the cut), then the append. **Calendar** is
`civil_from_days`, which dates log lines and backups, next to the calendar's rules.

**Session** is the popup from its first `hello` on, with its host: `handleCopy`,
`finishUnlock`, `reconcileVaultAfterTimeout`, `handleUnlock`, `handleLock`, the
cancel handlers, `onDisconnect`, `showCopySuccess`. A JavaScript task runs
together with the promise continuations it settles, so the end of the host, which
rejects every request, shows the vault locked and draws new buttons, is one
action. An element of `ops` is one run of `handleCopy`, from the click to the end
of its feedback; `attached` says whether its button is still the one on the
screen. The host answers with what `Protocol` allows; its inbox and outbox are
the pipe.

**Listing** is `init`, `loadSnippets`, `loadMore`, `onSearchInput` and
`onCategoryChange` over `list_snippets`, which counts and selects in two statements
(`Count`, `SelectPage`), between which the desktop may edit. A row remembers the
filter it was asked for. `init` waits for `hello` and for the categories while the
user may type already; the category filter works only once its menu is filled.
**Search** is the WHERE clause: `trim`, `escape_like`, and SQLite's LIKE with its
wildcards, escape and letter case, over texts of six characters; next to it stands
what a user means by a search (`Meant`). The category menu itself, `list_categories`,
is in `LegacyImport`, over the tables an import leaves behind.

Operators under a comment "A plausible bug" are faulty variants of the definition
that follows; they take no part in the specification and serve to see that the
properties can fail. PROJECT.json pairs each property with one.

## 3. Runs, bounds, fairness

| Run | Question | Bounds |
|---|---|---|
| `migration_race` | Two processes race, with crashes at each step: is one whole library installed, once, and does every call return? | 2 processes, 3 contents (good, corrupt, unimportable), 1 backup name |
| `migration_saves` | And with an old desktop that saves at any time: is the build undisturbed, nothing lost, nothing seeded over, and `Library` implemented? | the same, with the backup name free or taken by an earlier backup; symmetric in the processes |
| `import_rows` | Is exactly the library read committed, is nothing refused without reason, and is every snippet under one entry of the menu? | all libraries of up to 2 snippets, 2-bit ids, 5 spellings of 4 categories |
| `client` | Does every request settle, once, from its own host? | 3 requests, 2 ports, any message |
| `host` | Does the start fail closed, is a key earned, is a refusal honest, is every request answered as `HostService` says? | 3 vaults of which one is damaged, 2 passwords, 1 snippet |
| `session_any` | Whatever user and host do: does copying never wedge, no button stay disabled, and is the vault shown truthfully until an answer misses its timer? | 2 rows, 2 copies at a time, 3 requests in flight |
| `session_patient` | If the user waits for an unlock: one copy at a time, no mark left behind, the right retry, and does every copy and unlock end? | 2 rows, 2 copies, 4 requests in flight |
| `listing` | Do the rows belong to the filter, are they a prefix of the result, what does an edit cost, and does every load end? | 3 snippets, pages of 1, 3 loads, 2 edits, 2 queries, 2 categories |
| `wire` | Is every whole frame answered, in order, by an answer to it, and does the exit code tell why the loop ended? | bytes of one bit, messages of up to 3 bytes with a limit of 2, 2 frames and a torn one |
| `logs` | Does the log stay bounded, and does every host keep it? | 2 hosts, 4 files, cap 3, lines of 1, 2 and 4, a log of 5 left by an earlier version; symmetric |
| `import_theme`, `session_cancel` | Statements of the documents that the code does not keep (section 5) | as small as the case needs |

Two assumptions of MC modules are checks of pure functions, which TLC evaluates
before a run, on bounded inputs, and of which section 4 has the proofs: `DatesAssumption` (in `migration_race` and `migration_saves`), that
`civil_from_days` follows the calendar day by day for 400 years, and
`SearchIsOccurrence` (in `listing`), that for every query of up to 2 characters and
every text of up to 3 the pattern the host builds matches exactly where the trimmed
query occurs, `%`, `_` and `\` included.

Why the bounds are enough. The migration is symmetric in the processes and
only ever has one holder of the lock and some that wait, so two show each way to
meet; a third adds a second waiter. Three contents are the three fates of a
source, and both files take each. A library is installed once, so each file is
backed up once at most, and one backup name, free or taken, gives it both its fates; which
of several free names is taken makes no difference, and the proofs are for any number.
Two-bit ids have both signs after the cast and both ends of the range,
and two snippets can have equal, equal-after-a-bad-cast and different ids. Two
ports are a live one and one given up. Two copies at a time are the one that
cancelling during an unlock leaves behind and the one that is started after it.
Requests in flight are limited in `Session` (`Room`) to requests of the user's
making: an answer or a timer is never blocked by the bound. Pages of one row over
three snippets have a first, a middle and a last page; one edit before the first page and one
between two are the ways to shift them. Two passwords over three vaults are right
for the vault, right for one that was replaced, right for a damaged one, or wrong.
A length of two bytes has every way to be cut; messages of 0 to 3 bytes around a
limit of 2 are the empty one, a bad envelope, a good one, and one too long; two
frames are one before and one after whatever goes wrong. Two hosts are one that
checked and one that appends meanwhile; four files are both names and two files
without a name that a host still has open. `MaxLine` is the longest line that fits,
and 4 one that never does.

Fairness. `Migration`: a call that has started goes on (`WF(Step(p))`); that is a
running process, whose `flock` wait has a deadline; nobody has to start one, and
no fairness is asked of the desktop. `NativeClient`: a timer that was set fires.
`Session`: timers fire and the clipboard resolves or rejects; neither host nor
user has to do anything, so `CopyEnds` and `UnlockEnds` hold with a host that
never answers. `Listing`: timers fire, of requests and of the debounce.
`Host`: the single thread goes on serving what it has read (each of its waits, for
the lock, for SQLite and for the backoff, is bounded in the code). `Framing`: the
loop goes on with what has arrived; no read has to fail, and the browser has to do
nothing. `Logging` promises no progress and has no fairness.

`CHECK_DEADLOCK FALSE` appears where the system ends: in the runs of
`LegacyImport`, a transaction, and of `wire`, a loop whose process exits. `Session` limits the user in one run by a constant,
`CancelDuringUnlock`: with it, `RetryIsOriginal` fails, which is the run
`session_cancel`.

`Truthful` is stated up to the first timeout. After one it does not hold: when the
`hello` that follows a timed-out unlock times out as well, or answers
`not_configured` because the configuration could not be read just then, the popup
shows a locked vault while the host has the key; and a `lockVault` that timed out
is still carried out by the host. Opening the popup again sets it right.

## 4. Proofs

All proofs are for any number of processes, requests, ports, vaults, contents and
so on, under the named assumptions on the constants (`DataAssumption`,
`DatabaseAssumption`, `NamesAssumption`, `HostAssumption`: the special values
differ from the ordinary ones; `LoggingAssumption`: there are finitely many hosts,
lengths are numbers, and `MaxLine` is not shorter than a line that fits;
`ListAssumption`: a library has finitely many snippets, and pages have a size;
`BoundsAssumption`: the bounds of `Session` are numbers, and no row is the placeholder; `FramingAssumption`: a byte has
two values at least, and a length one above the limit still fits the header;
`ImportAssumption`: `normalize_category` has a name for every spelling, and an id has at
least one bit). TLC evaluates the assumptions in the runs.

**MigrationProofs.** The inductive invariant is `IInv` of `Migration`. Its core is
`HolderOnly` (whoever is between the re-check and the return holds the lock): it
makes the steps of the holder run undisturbed, and from it follow in turn that
while anyone builds there is no `copyit.db` (`NotYetInstalled`), that the files of
a builder that no old desktop has saved to are still as it read them, where it could read
them, and its digests are of them or none (`SourcesAsRead`), that what it accepted is neither corrupt nor unimportable
(`OnlyGoodAccepted`), that its temporary database is its own (`BuildUndisturbed`)
and that what is installed when it backs up and sweeps is what it built
(`InstalledItsOwn`). `LibraryComplete`, `SeedOnlyWhenEmpty` and `NothingUnique` are
not part of it; each is proved by a second induction on top of `IInv`. The last two
need that what is imported is what the files hold (`ImportsTheFiles`): a file that
could not be read counts as corrupt, and is not accepted.
`InstallOnce` and `SourcesNeverLost` are step properties under `IInv`, and
`Implements` maps each step to a step of `Library` or to none.

**NativeClientProofs.** `IInv` ties the three places where a request is recorded:
it is pending exactly from its post to its settlement (`NoneForgotten`), pending
requests wait on the live port (`WaitingOnLivePort`), settled ones were settled
from their own port (`AnsweredByItsHost`). `SettledOnce` follows: whatever settles
is pending, and what is pending has not settled.

**HostProofs.** `IInv` adds to the safety properties what their proofs need:
metadata is held only by an unlock in progress over an open connection, whose
password has been recorded, and a key only over a connection (`UnlockInProgress`);
key and metadata are of the vault that is configured or of one that was replaced
(`KeysAreKnown`). `RefusalsAreHonest` follows step by step: a right password fails
only against metadata that were replaced or damaged.
`Implements` then maps each response to the answer `HostService` allows; a start
that fails answers `not_configured` or an error, which is allowed because no key
is held then.

**LoggingProofs.** `IInv` keeps the two names apart (`NamesDiffer`), and says that a
host with no excuse - no refused call, nobody else starting - finds the log it is to
rotate (`Alone`), from which `RotationKeepsTheLog`. For `FilesStayBounded` a second
invariant is needed, `Bounded`: while hosts are between check and append, one of
them, the last to check, accounts for the file as it is, its own line, and a longest
line for each other that waits. Only that host is counted exactly; whoever appends,
the bound `Limit`, cap plus one longest line for each other host, is kept. The proof
counts the hosts that wait with the library's facts about cardinality.

**SessionProofs.** `IInv` has two halves. The *link*: no two messages carry one id, and
what carries the id of a pending request belongs to it (`MessagesFit`); a host that is
gone has neither key nor input (`HostsEnd`); the popup's `hello` is alone
(`HelloFirst`); until a timer fires, each message is waited for (`NoneMissed`). On these
rests `KeyFollows`, the reason why `Truthful` holds: the host answers in order, so the
last answer on its way that says something of the vault says what the host has now, and
if there is none the popup shows it. `Truthful` alone is not inductive, since it speaks
only of a quiet pipe. The *copies*: each body that is asked for has its operation
(`BodiesAsked`), the pending copy runs or waits under the dialog (`NeverStuck`), from
which `NeverWedged`; and with a user who waits for the unlock, one unlock at a time
under the dialog (`UnlockUnderDialog`) and one operation, the pending one
(`OneOperation`), from which `OneCopyAtATime`, `MarksAreFeedback` and
`RetryIsOriginal`. Those three are theorems under the assumption
`~CancelDuringUnlock`, without which the third is false (section 5). The lemmas about a
request being posted or settled are shared by the actions.

**ListingProofs.** `IInv` says what each answer on its way was asked for
(`AnswersStand`, for the answers, and `Stands`, for the load that is still counting),
which load is the latest (`LatestGoesOn`), and what the rows are (`RowsStand`). The
spinner (`ListOK`) and `RowsMatchFilter` follow for any desktop. `RowsArePrefix` needs
that consecutive pages of a finite result fit together: the row at an offset is the
first one above those before it. That every offset has a row is counting: the members of
a finite set have different ranks (`RanksDiffer`), and as many different ranks as there
are places fill the places (`NthExists`).

That the list shows what the search *means* needs that the host's pattern finds it:
`SearchFindsWhatIsMeant` says so for every query and every text, of any length, over the
six characters of `Search`. It is an induction over the characters of the query.
The library's induction theorems take an operator and cannot be used here; `Induction`
is one for sets, by the least number outside of the set, which `NthExists` gives. From it
come the existence and the equations of the recursive functions (`FixedPoint`, for any
step whose value at a place depends on the places before it), so `LikeIsDefined` and
`FlattenIsDefined`. Escaped characters are matched one by one (`StartsAt...`,
`MatchesFrom`), and the two `%` around them let the match begin and end anywhere
(`LikeFinds`). In the proofs about the list `FoundIsMeant` is all that is used of it.

`DriftIsBounded` is about a list under edits and is not inductive: the
rows that are missed show only when their page comes. `DriftInv` weighs what was shown
twice together with what was shown and is still to come (`Within`), and says it of the
rows on the screen and, while the awaited page is on its way, of the rows as they will
be with it. An edit moves the place of the next row by one at most
(`AddMovesOne`) and costs what it is allowed to (`EditCostsOne`); a page takes the next
places and costs nothing (`PageCostsNothing`).

**FramingProofs.** First the codec: two digits to any base are read as the number they
were written for (`EncodeProperties`, `DecodeProperties`), so the header of a frame
says where it ends (`HeaderOfFrame`) and a stream of bytes begins with one frame only
(`FrameIsUnique`). `NothingSkipped` speaks of the position after a whole frame, and says
nothing in the middle of one, where bytes have been read and counted. `InStep` does: put
back the header that was taken and the bytes in the buffer, and the unread bytes
(`Stream`) are exactly the frames of the messages not yet taken, with the torn one at the
end. `SuffixesOfSend` and `SuffixesOfHangup` keep it when the browser writes,
`ReadKeepsStream` and `HeaderKeepsStream` when the host reads, and `PayloadIsNext` and
`TooLargeIsNext` say that what comes out is the next message. From it follow
`NothingSkipped` and `Implements`, that each step is one of `Exchange` or none.

**LegacyImportProofs.** `Inv` says of the rows in the table that they are, in order, the
casts of the first snippets, with different ids (`RowsAreInserted`), and the like of
categories and settings. That a row can be found by its id for every snippet
(`InvImpliesFaithful`) needs that the cast to signed is injective for every width
(`SignedProperties`), and this that a power of two is positive, for which subsets are
counted (`PowersOfTwo`). A failed insert is two equal ids (`TakenIsEqual`), and the
verification fails only for a theme with spaces around it (`VerifiedUnlessPadded`):
so `RefusedForAReason`. For the menu, the pairs of an entry and a place in its count are
brought into one-to-one correspondence with the rows (`CountsAddUp`), and an entry is
made up for a category that the table lacks (`MenuIsRightWhenCommitted`).

**The calendar**, at the end of LoggingProofs. Every date of `civil_from_days` from
1970-01-01 on is followed by the next date of the Gregorian calendar (`AllDaysFollow`),
for any number of days. A day is written by its era of 400 years, century, four years,
year, and day of a year that starts in March (`IsDay`, `EveryDay`). The divisions of the
code find that year and day (`YearOfDay`): taking away one day in 1460 and giving one
back in 36524 leaves whole years of 365, also on the last day of each, the leap day. Then
the months: within the year the days follow (`NextInYear`), February ends it
(`NextYear`), and the next year starts the next four, century or era (`DayAfter`).

Only model-checked: the liveness properties (`EveryCallReturns`, `EveryRequestSettles`,
`EveryRequestAnswered`, `CopyEnds`, `UnlockEnds`, `LoadEnds`, `EveryFrameAnswered`), since
liveness under fairness needs ENABLED, which is out of the prover's reach. Every
invariant and every step property that a run checks has a theorem.

## 5. Where code and documents disagree

Each is the only property of a run that TLC is expected to refute.

- `import_theme`: `build_and_install` stores the theme trimmed (`migration.rs`
  line 497), `verify_imported` compares it with the untrimmed one (line 640). A
  `config.json` whose theme is surrounded by spaces fails with
  "theme mismatch" on every start, for good, although the file is valid.
- `session_cancel`: Cancel forgets the pending copy but not the unlock on its way.
  A copy started meanwhile becomes the pending one, and `finishUnlock` starts it a
  second time, on the same button, while the first is still running
  (`popup.ts` line 234; the comment at 238 promises the *original* operation).

Others, met while modelling and not kept as runs:

- Typing changes `state.query` at once and the list only after the debounce;
  `loadMore` in between asks for the new query at the old offset and appends the
  rows to the old ones (`popup.ts` line 153; `IMPLEMENTATION_PLAN.md` line 1016 says
  that changing the search starts at offset 0). The debounced load soon replaces
  them, which is why `RowsMatchFilter` is stated for a list without a timer.
- A corrupt `snippets.json` is refused before any backup is made and stays where it
  is; `docs/troubleshooting.md` line 39 says it is preserved as a
  `.legacy-backup-*` file.
- `docs/troubleshooting.md` line 42 bounds the log to 256 KiB while the host writes.
  With several hosts it can be longer by a line of each other one (`Limit`).
- Two hosts that rotate together can remove the backup one of them has just made,
  and the second, which then finds no log to rename or truncate, runs without a log
  although a new one could be made (`logging.rs` lines 86 to 90).
- A log just below the cap is cut by `set_len` on a handle opened to append. Where the
  system does not allow that, each line that finds no room is dropped, and a restart
  does not help: only a log *above* the cap is rotated. `GrowthIsBounded` holds all
  the same.

Smaller ones: the digests in
`migration_meta` are of a second reading of the files, so they need not be those of
the imported bytes if an old desktop saves in between, and are "none" if that reading
fails, where the comment at `migration.rs` line 407 says "when absent"; the text of a
legacy snippet that has a ciphertext as well is dropped by the import without a word
(lines 471 and 583), and stays only in the backup of `snippets.json`; a zero-byte file is left in
place by a seeding call, where a test comment says it is backed up; a snippet of a
reserved category is stored as "Uncategorized", which the category table then
need not contain (`list_categories` makes up for it).

## 6. Not modelled

- Vault cryptography: the models know whether a password is right, whether a key
  fits and whether a record is damaged. The primitives are library code.
- JSON as text: an envelope is well-formed or not, its id usable or not, its version
  right or not.
- The migration of the schema (`migrate_forward`) is a part of the step that opens a
  database, under SQLite's own lock; `migration_meta` is written once and read by
  tests.
- `Path::exists`, which counts an error as absence: `Enter`, `Recheck` and `Free` take its
  answer as the truth. The other calls on these files may fail.
- What a log line says.
- The length of the backoff after wrong passwords (0.2 to 2 s): no property here
  depends on it; that the thread is busy meanwhile is modelled by the host being
  slow.
- Layout, tooltips, text truncation, the installation scripts, the diagnostic
  commands: no interaction with the state above.
- The desktop is not in this repository. It appears as environment, with what the
  host's code has to expect of it.

## 7. Plan

Done: Migration with Library and proofs; LegacyImport with the menu and proofs;
NativeClient with proofs; Host with HostService and proofs; Session with proofs; Listing
with Search and proofs; Framing with Exchange and proofs; Logging and Calendar with
proofs.

Next, in this order.

1. *Refinements*: the connection of `Session` implements `NativeClient` (`pending` to
   `pending`), and the import of `LegacyImport` implements the step `ImportCommits`.
2. *Two hosts*: `Host` over one database with a second popup, for the backoff and the
   key, which each process keeps for itself.

## 8. Running it

```
tlc -workers 2 -config migration_race.cfg MCMigration.tla
tlapm MigrationProofs.tla
```

Each run is listed in PROJECT.json with its module, configuration and properties.
The longest takes under two minutes with two workers.
