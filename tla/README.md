# WWW: a TLA+ verification of the application

`src/WWW` is an Objective-C application for the iPhone: a tab bar with a city
list, a chat over an encrypted SQLite file, a search and collection page, and a
photo page that leads on to a carousel page and a menu page. It is built with
two embedded libraries in source form (`IQKeyBoardManager`,
`UIImageView+LBBlurredImage`) and links SQLCipher, which is vendored with
OpenSSL beside it. This directory models the parts of the application that keep
state over several events, and the two parts of SQLCipher that make a statement
of the chat's store atomic: the file locks and the rollback journal. It checks
them with TLC and proves theorems about all of them with TLAPS.

In the application nearly everything runs on the main thread, so a handler is
one atomic action. The hard part is *which handler comes next*: UIKit decides
when notifications, scroll delegate calls, timers, completion blocks and
dispatched blocks arrive, the user decides what to touch meanwhile, any SQLite
call may fail, and the process may be killed. In SQLCipher it is the other way
round: a call is a long program, other processes run between any two system calls
of it, and each of these may fail or be the last before the power goes.

## Inventory

| Component | State | Operations | Interacts with | What makes it correct |
|---|---|---|---|---|
| Message store (`DBCommon`, `DBUtil`) | `test.db` in Documents, its table `USER_INFO`, a once-per-launch singleton | create file and table, insert, select | launch, chat page | nothing sent is lost without a fault; nothing invented with one, and durable data only grows, until a text is run as SQL |
| Chat page, messages (`TwoViewController`) | peer, bubbles, draft, Send button, picture files | open, edit, send, pick picture, trash, back | store, image picker | the window on opening agrees with what was shown; button and draft agree |
| Chat page, bottom bar (`TwoViewController`) | position of the bar and the scroll view, `keyBoardIsOpen`, `isEng` | `moveView`, `keyboardWasChanged`, swipes | keyboard notifications, keyboard manager | slides are taken back exactly; the text view is not behind the keyboard |
| Launch (`AppDelegate`, `main`) | none of its own | `didFinishLaunching` | store | |
| Keyboard manager (`IQKeyboardManager`) | edited view, its saved frame, root view's saved frame, keyboard size, last notification | notification handlers, `setEnable:`, toolbar arrows | every page with a text view, UIKit | the edited view is visible; everything is put back; no residue |
| Toolbar and view categories (`IQToolbar`, `UIView+...`) | none | build bars, order siblings | keyboard manager | |
| Carousel (`FiveViewController`) | offset, page control, timer | scroll delegate, `pageTurn`, `scrollToNextPage` | run loop, UIScrollView | rests on an original; one timer; every picture comes up |
| Blurred image (`UIImageView+LBBlurredImage`) | image, requests under way | `setImageToBlur` | two GCD queues, photo page | each request completes once; order of results |
| Photo page, toast (`FourViewController`) | label, click time, timers | `toast:`, `toastTimeOver` | run loop, clock | a toast goes, and not too early |
| Photo page, fan menu (`FourViewController`) | `isShow`, five animated buttons | open, close, `animationDidStop` | Core Animation | buttons can be touched exactly when `isShow` says so |
| City list (`OneViewController`) | open sections, rows | tap header, select row | navigation | row counts follow the open sections |
| Search and collection (`ThreeViewController`, `MyCell`) | search bar, selection, progress timer | search, cancel, select | cell reuse, timer | Cancel is beside the bar; one selected item |
| Tabs and navigation (`MyTabBarController`, `BusinessUtil`) | selected tab, badge, tab strip visibility | select, push, pop | all pages | the strip is shown exactly on top-level pages |
| Message cell (`OneCell`) | none that outlives a call | layout | chat page | |
| Menu page (`SixViewController`) | - | `viewDidLoad` sends the undefined selector `blurMenuView` | photo page | |
| Exception handler (`MyUncaughtExceptionHandler`) | one report file | write while dying | | |
| SQLCipher, file locks (`os_unix.c`) | `unixFile` and `unixInodeInfo` of each process, the kernel's locks | lock, unlock, open, close, check for RESERVED | pager, kernel, other processes | the levels obey the pager's protocol, whichever process a connection is of |
| SQLCipher, pager (`pager.c`) | database file, journal, page caches, pager state | shared lock, hot-journal rollback, read, write, spill, commit, rollback | file locks, file system | a transaction is there as a whole or not at all; no stale cache is used |
| SQLCipher, everything else | B-tree, virtual machine, parser, encryption, WAL, extensions | | store | |
| OpenSSL | vendored, called by SQLCipher only | | SQLCipher | |

Behaviours that are hard to test: a kill between `sqlite3_open` and `CREATE
TABLE`; a failing SQLite call in the middle of a sequence; text fields and text
views that report editing and keyboard in opposite orders; a completion block
that resigns a view that may not be the first responder any more; two parties
that move the same view for the same keyboard; relative moves that may add up;
timers that are never cancelled, or whose pointer is stale; renderings that
finish out of order; recycled cells that carry the selection in their colour;
animations that stop after what they animated was put away; POSIX locks, which a
process loses on any `close` of the file; a journal of which only part reached
the disk; a cache that outlives the lock it was read under. `PROJECT.json` lists
each at its line with the properties that would catch it.

## Modules

| Module | Stands for |
|---|---|
| `ChatLog` | abstract: one log per peer, append-only unless a text has been run as SQL, and a page that opens on its newest rows |
| `ChatStore` | `DBCommon`, `DBUtil`, the message part of `TwoViewController`, launch; implements `ChatLog` |
| `ChatStoreProofs` | the theorems about `ChatStore` |
| `KeyboardManager` | `IQKeyboardManager` with UIKit's notification queue |
| `ChatBar` | the chat page's bottom bar, composed with `KeyboardManager` |
| `Carousel` | the scroll view, page control and timer of `FiveViewController` |
| `Toast` | `toast:` and its timers in `FourViewController` |
| `BlurredImage` | `UIImageView+LBBlurredImage` |
| `FanMenu` | the five buttons of `FourViewController` and their animations |
| `PhotoPage` | those three composed: one button is a toast and a request |
| `SearchPage` | search bar and collection view of `ThreeViewController` |
| `Navigation` | tab bar controller, navigation stacks, tab strip, badge, and the city list of `OneViewController` |
| `Pages` | `SearchPage` below `Navigation`: the page keeps its state while others are above it |
| `LockLevels` | the five levels of a lock, `os.h` |
| `FileLocks` | abstract: the locking protocol that the pager relies on |
| `UnixLocks` | `os_unix.c`: `unixLock`, `posixUnlock`, `unixOpen`, `unixClose` over the kernel's POSIX locks; implements `FileLocks` |
| `AtomicStore` | abstract: an image that transactions replace as a whole |
| `Pager` | `pager.c`: the rollback journal, over `FileLocks`; implements `AtomicStore` |
| `KeyboardProofs` | the theorems about `KeyboardManager` and `ChatBar` |
| `PhotoPageProofs` | the theorems about `BlurredImage`, `FanMenu`, `Toast` and `PhotoPage` |
| `PagesProofs` | the theorems about `SearchPage`, `Navigation`, `Pages` and `Carousel` |
| `FileLocksProofs`, `UnixLocksProofs` | the theorems about those modules |
| `PagerProofs` | the theorems about the locks, files and order of writes of `Pager`, and what a playback reads |
| `PagerRecovery` | that `Pager` recovers, and so implements `AtomicStore` |
| `MC...` | the instances for TLC |

Operators that are called mutants in a comment are plausible bugs of the
definition that follows them. No specification uses them; `PROJECT.json` names
the property that each of them breaks.

### ChatStore

`phase` is the process, `file` and `table` the database, `log[p]` the
`ATTRIBUTION` texts of peer `p` in rowid order (all that is ever read back).
`Launch...` and `CreateTable...` are `createDatabaseAndTables`: only a launch
that finds no file creates anything, and `sqlite3_open` has made the file before
`CREATE TABLE` runs, so a launch takes two steps and a `Crash` fits between
them. `Insert` and `Select` are `insertDB` and `selectDB` with the outcome of
each SQLite call a choice; the code logs failures and goes on. `Open` is
`viewDidLoad` with the window of ten rows, `Newest` the two branches and the index
arithmetic of it, `ClickSend` is `clickSend` with the insert and `sendMessage`.
`sent`, `faulted`, `intact` and `complete` are history variables.

Quoting is modelled by what it does: `Stored[t]` is what the literal `'<t>'`
denotes, or `BadLiteral` when `t` ends it. `insertDB` pastes the text, three times
and unescaped, and `sqlite3_exec` runs every statement of the result
(`DBCommon.m:159-168`), so a text that ends its literal is more than an insert that
fails: it may be run as SQL. `Insert` has three outcomes. `InsertFails`: an error,
and nothing is changed. `InsertRow`: the statement that was meant.
`InsertRunsText`: the text was run, no error need be reported, and the table and the
rows of all peers are whatever a nondeterministic choice makes of them. From then on
(`~intact`) the same may come of any text, because the first may have left a trigger
or another schema. Only a missing table stops it, since the insert is the first
statement and is then not prepared. `NULL` columns, of which `selectDB` makes an
exception, end the process, which `Crash` may do at any time.

`ChatLog` forgets files, drafts and launches, and says what is shown by its
distance from the end of the log instead of by a loop. `ChatStore` implements it
with the identity on `log`, `peer`, `bubbles` and `intact`. It promises an
append-only log as long as `intact`; a read may stop early, which is what the code
does when `sqlite3_step` fails, and then the window is one of the rows read.

### KeyboardManager

`manager` is the singleton's instance variables, `uikit` the first responder,
the input method, the keyboard on screen and the notifications one event has
made UIKit post but not yet delivered. `Deliver` takes the first of them and
runs its handler: `KeyboardWillShow`, `KeyboardWillHide`, `DidBeginEditing`,
`DidEndEditing`. The orders come from the drawing in
`IQKeyboardManagerConstants.h`: a text field begins, then the keyboard shows; a
text view the other way round; hiding comes before the end. When the height does
not change UIKit may or may not post another show, so both are possible. The
`completion` block that resigns and reactivates a text view is `RunCompletion`,
which may come after any other event. Geometry is in points; `Adjusted` is the
arithmetic of `adjustFrame:` for a page in portrait without scroll or table
views around its fields, the only kind this application has text input on.

### ChatBar

`EXTENDS KeyboardManager`: `shift` is how far the page has moved its bar, which
changes where the manager finds the text view. A notification reaches the page
first (it is the text view's delegate) and the manager second. Each keyboard
animation ends in a `DidChangeFrame` notification that waits in `frames`, unless
a later animation interrupts it. The frame is the height that
`keyboardWasChanged` compares with 216 and 252. The model ends when the page is
popped: `dealloc` does not remove the observer, and what the next notification
does is undefined.

### Carousel, Toast, BlurredImage

`Carousel` counts the offset in half pages. `DidScroll` runs inside every change
of the offset. `myTimer` is not retained: `mine = "freed"` says that it dangles,
and `Invalidate` of a dangling pointer may do nothing or end the process.
`Toast` has a clock in fractions of a second, since the code compares two clocks
truncated to seconds. `BlurredImage` names each picture by the request it is
from; `Render` is a thread of the concurrent queue, `SetImage` the next block of
the main queue.

### FanMenu, PhotoPage

`FanMenu` keeps one state for the five buttons, which are always treated alike.
A button is touched where its `center` is, and `animationDidStop` moves the
centres without looking at `isShow`; `running` counts the calls still to come.

`PhotoPage` is the page as one controller on one main queue. `ClickBtn` is a tap
on a button that can be touched: it raises a toast and requests a blur in the
same call. The request of `initWithNibName` loads the view, so nothing can be
touched before. Every other step is a step of one part and leaves the others.

### SearchPage, Navigation, Pages

`SearchPage` remembers the selection twice, as the program does: `selected` is
the collection view's, `orange` the colour of the cells. `CellForItem` and
`Recycle` are the reuse of cells. `LoseKeyboard` is the end of editing that the
page does not hear of. An orange cell is told by the identity of its colour
object, which the getter need not preserve: `Tap` may take either branch.

`Navigation` treats a transition as one step, since UIKit takes no touches
during it. `WillAppear` is `viewWillAppear` of whatever page comes up, `stack[t]`
the pages of tab `t`. `ClickL2` pushes the menu page, which ends the process:
the next launch begins afresh.

`Pages` joins the two by visibility: only the visible page gets touches, pushing
a page takes the keyboard away from the one below, and the search page keeps its
bar, its cells and its selection until the process ends.

### FileLocks, UnixLocks

A POSIX lock belongs to a process and not to an open file. `os_unix.c` therefore
counts what the connections of a process hold in a `unixInodeInfo` that they
share (`inode[p]`), and defers `close` while any of them holds a lock, since any
`close` of the file would drop them all (`unused[p]` is the `pUnused` list). `sys`
is what the kernel has: a lock of each process on the pending byte, the reserved
byte and the shared range.

`call[p]` is the call that is inside the mutex of `unixEnterMutex`: one at a time
in a process, while other processes run between its `fcntl` calls. `Lock` and
`Unlock` are the checks up to the first system call; each further action is one
`fcntl` call and the assignments after it, with the branch for its failure
(`MayLack`: the kernel may refuse a lock for want of memory; a lock that another
process stands against is always refused). Lowering a lock to read may fail and
does what the code does then; giving one back does not. `Crash` ends a process at
any point of a call, and the kernel drops its locks.

`FileLocks` knows nothing of processes sharing locks but for one rule: a PENDING
lock keeps new readers out, except from a process that reads already and does not
wait itself. `Held` maps a handle to its level while a call is under way: a lock
counts from the `fcntl` call that gets it to the one that drops it, so that a
handle between "range" and the end of `unixLock` is at PENDING already and one
that is being counted down is at SHARED still.

### AtomicStore, Pager

A file is a sequence of cells: pages of the database, headers and records of a
journal. A cell has what the processes see (`now`) and everything a power loss
may leave in it (`disk`), torn writes included (`Junk`); `Fsync` makes the two
agree. The directory entry of the journal is a cell too, so that a name may be
lost, or come back after an `unlink` that was not synced.

`pager[c]` is the `Pager` object of connection `c`. `at` is how far the call in
progress has come and `job` which one it is: each action runs up to the next
write, sync or lock, and other connections, failures and power losses come
between. Levels go through `FileLocks`, one process per connection; the order of
the requests is the code's (`Share`, `LockForRollback`, `ExclusiveLock`,
`Downgrade` in `Return`). `LookForJournal` to `OpenHotJournal` are
`hasHotJournal` and the rollback in `sqlite3PagerSharedLock`, `Validate` the
check of the change counter. `PutPage` is `pager_write` with the opening of the
journal; `SyncRecords` and `SyncHeader` are the two syncs of `syncJournal`.
`Fail` is a call of the operating system that fails with what the pager then does
(a commit is rolled back, anything else breaks the pager until it is unlocked),
`Crash` the end of a process, `PowerLoss` a choice of one value of `disk` for each
cell.

`AtomicStore` is what a user of the pager may think: `image` is the database,
`snapshot[c]` what a connection reads, `risk` the images a power loss may leave.
The mapping takes for the image the database with its journal played back, if
there is a hot one, and for the risk all that can be left of both files. The
`risk` is there because `CommitPhaseTwo` deletes the journal without syncing the
directory: the last commit may be undone by a power loss, as a whole, until a
later sync. (The comment in the code calls the transaction irrevocably committed
at that point; against a process that ends it is.)

## Runs

| Run | Shows | Bounds |
|---|---|---|
| `chat_store` | `NothingLost`, `NothingInvented`, `ReopenShowsNothingNew`, `SendMatchesDraft`, `DurableOnlyGrows`, `TablelessForever`, and that `ChatStore` implements `ChatLog` | 2 peers, 3 texts (its own literal, a doubled and a single apostrophe), window 2, 3 texts sent to one peer and 1 to the other, 3 bubbles, 1 row per peer after a text was run as SQL, 1 picture |
| `keyboard_manager` | `RestoredOnceSaved`, `FieldVisible`, `NoResidue`, `FramesIntact`, `InStepWithUIKit`, `ToolbarInTheEnd`, with `setEnable:` called between any two events | 2 text fields, a text view and a text view too high to fit; 2 keyboards |
| `keyboard_toggle_restore` | `RestoredWhenHidden` fails when the manager is enabled while a view is edited | the same |
| `chat_bar` | `BarNeverCreeps` (bar and scroll view), `BoxFollowsKeyboard` | 2 swipes each way, 5 animations under way |
| `carousel` | `RestsOnOriginal`, `OneTimer`, `DragsNeverMeetFreedTimer`, `TickAdvances`, `ShowsEveryImage` | 6 pictures |
| `photo_page` | `GoneWhenOver`, `NotCutShort`, `EachRequestOnce`, `OnlyOvertakingHidesNewest`, `EveryRequestCompletes`, `MenuMeetsTouches`, `OpensInTheEnd` | toast: 2 ticks a second, duration 2 s, up to 2 ticks late, 2 clicks, 8 ticks; 3 requests; 2 buttons, 3 animations under way |
| `blurred_image_fails` | `CompletedMeansImageSet` fails when the rendering does | 4 requests |
| `pages` | `CancelWhileEditing`, `SingleSelection`, `StripFollowsPage` | 3 items, 2 cells; two sections with 3 and 0 cities |
| `unix_locks` | `InodeMatchesKernel`, `WritersAreSeen`, `PendingGetsThrough`, and that `UnixLocks` implements `FileLocks` (`Implements`) | 2 connections of one process, 1 of another; any lock may be refused |
| `pager` | `CachesAreRecognized`, `AnyJournalRollsBack`, `JournalStaysLinked`, and that `Pager` implements `AtomicStore` (`Implements`) | a writer and a reader, both in mode DELETE or both in PERSIST; at most 2 pages, 4 cells in a journal, 2 transactions, 2 faults, 3 of both together |
| `pager_persist` | `AnyJournalRollsBack` fails in mode PERSIST when a process ends between zeroing the header and syncing it | 1 connection, 2 transactions, 2 faults; no write-back |
| `pager_mixed` | `JournalStaysLinked` fails between a connection in mode DELETE and one in PERSIST | 2 connections that write, 3 transactions, no fault |

`keyboard_manager` and `unix_locks` also check the type invariants of their
modules. Between them the passing runs take every action of every module.

Why the bounds are enough. A window of two rows with three texts has logs
below, at and above the window, and an order of the rows in it; a second peer with
one text tells conversations apart; three
bubbles let a page hold two old rows and a new text or a picture. One row per peer is
enough for a text that was run to have added, removed, changed and moved rows. The
proofs of `ChatStore` do not depend on any of it. The keyboard page has a view of each
kind whose orders differ, one behind both keyboards, one that only the higher
keyboard with a toolbar covers by more, and one whose top, not bottom, decides;
its state space has no counter. Six pictures give originals that neighbour no
copy. Two toasts give a timer whose toast has been replaced; two ticks late of
two reach both the same and the next second; eight ticks are time for two
durations that overlap. Three requests allow an overtaken one before another.
Three animations under way are an opening whose buttons have not all stopped when
the menu is closed and opened again; the menu looks at none of them. Three items
and two cells keep an item off the screen, possibly the selected one, and let a
cell come back with any other.

Three connections in two processes have every case of `unixLock` and
`posixUnlock`: sharing within a process, conflict within one and across, a close
that must wait, a last reader. With two processes of two connections each,
`PendingGetsThrough` would promise nothing (see Fairness); with one connection
each there would be nothing to share. The proofs do not depend on the instance.
For the pager, two pages are a page 1 that every commit writes and one that may be
new, spilled or rolled back on its own; four cells of a journal hold a header and
two records and one cell that an older journal left behind them, or the second
header after a spill. Two transactions let the second run into the journal of the
first; two faults are a fault and one more during the recovery from it.
`MaxEvents` leaves out the behaviours with two transactions and two faults.

Limits found while choosing the instances and while proving: `FieldVisible` does
*not* hold on the chat page, where a late 216-point frame makes the page take back
36 points the manager had counted on; `BoxFollowsKeyboard` is what does hold, for
keyboards of any heights. That the text view is never *behind* the keyboard holds
with up to three frame notifications under way, the bound of an earlier instance,
and fails with four: after two changes of the input method within the same
animations the manager lifts the view for the Chinese keyboard with its toolbar
while an English frame is still to come, and the page takes back 36 points of which
the manager had added 10. So the bound is 5 and the property the weaker one. `Writeback = TRUE` in
`pager` says that a header zeroed by a process that then ends reaches the disk
before the next writer uses the journal; without it finding 3 is met.

`CHECK_DEADLOCK FALSE` is said where the model really may stop: a popped chat
page, a process that died on a dangling timer, the end of the toast's horizon,
the last blur request, the last transaction of the pager's bound.

### Fairness

- `KeyboardManager`: WF of `Deliver` (a posted notification is delivered) and SF
  of `RunCompletion` (an animation's completion block runs even if the user keeps
  the run loop busy; it is only disabled while notifications are under way).
- `Carousel`: WF of `Tick`. A scheduled timer fires unless the run loop tracks a
  drag, which disables it; dragging for ever is allowed.
- `PhotoPage`: WF of each `RenderStep(r)` and of `ImageStep`, since GCD runs every
  dispatched block; WF of `AnimationStep`, since Core Animation calls the delegate
  of every animation. `BlurredImage` and `FanMenu` state the same for themselves.
- `UnixLocks`: WF of `SystemCall(p)`: a process goes on until it ends. SF of a
  granted `LockRange`: the kernel does not refuse for want of memory for ever. SF
  of an `Unlock` below PENDING: a statement that reads, or that has not asked to
  write to the file, ends. SF of the retry at PENDING: the busy handler tries
  again. The last two are what an application owes to the others, and
  `PendingGetsThrough` holds only where no *other* process has two connections:
  two of them that take turns in reading can keep a writer waiting for ever.
- The other specifications state no fairness and have only safety properties.
  Nothing is assumed of the user.

## Findings

1. `keyboard_toggle_restore`. `keyboardWillHide:` sets the root view to
   `topViewBeginRect`, which only `textFieldViewDidBeginEditing:` of an enabled
   manager saves. Enabled in the middle of an editing session, the manager lifts
   the root view and then "restores" it to a frame it never had. This
   application enables the manager once, in `+load`, and does not meet it.
2. `blurred_image_fails`. `createCGImage:fromRect:` may return `NULL`; the block
   then sets no picture and calls the completion block without an error, which
   the header says is called after the image was blurred and set.

3. `pager_persist`. In mode PERSIST a journal is finalized by overwriting its
   header and syncing it. If the process ends between the two calls, the next
   transaction overwrites the records of a journal whose old header a power loss
   can still bring back. The playback then undoes part of a committed
   transaction. Rule (7) at the head of `pager.c` excludes that.
4. `pager_mixed`. A connection in mode DELETE needs only RESERVED to begin a
   transaction and to roll it back from its cache, and then deletes the journal.
   One in mode PERSIST that goes on reading has the journal open; it journals its
   next transaction into a file without a name, which nobody could roll back. The
   comment in `pager_unlock` says that closing the journal with the lock prevents
   it. The application uses one connection in the default mode and meets neither
   this nor the finding before.

More things show in the models as exemptions or as weaker statements and not as
violated promises: a toast whose timer is late by a whole second of the clock is
never removed (`slipped` in `GoneWhenOver`); a tap on the page control leaves
`myTimer` dangling and the carousel without a timer (`turned`, `mine`); PENDING
does not keep out further readers of a process that reads already, which take no
system call (`JoinReaders`), although the comment on the levels in `unixLock`
says that no new SHARED locks can be obtained (`FileLocks!Share` has the rule
that does hold); a commit in mode DELETE is durable only after a later sync (`risk`).

## Proofs

Every theorem is for all values of the constants that satisfy the assumptions
named in the modules; some have one or two hypotheses more, `~MayToggle`,
`~RenderMayFail`, `Alike`, `ZeroesLast` or one on the fields' tops, and the text
says why. Each module has the same shape: a strengthened invariant, a
lemma for each action or group of actions that preserves it, and the properties
as consequences. All three refinements are proved: `ChatStore` to `ChatLog`,
`UnixLocks` to `FileLocks` and `Pager` to `AtomicStore`.

### The store

`ChatStoreProofs` proves, for any set of peers and texts, any `Stored`, any
window and any bounds that satisfy `ConstantsAssumption` and
`BoundsAssumption`:

| Theorem | Statement |
|---|---|
| `StoreInvariant` | `Spec => []StoreInv` |
| `TypeCorrect` | `Spec => []TypeOK` |
| `FaultFreeIsLossless` | `Spec => []NothingLost` |
| `Durability` | `Spec => DurableOnlyGrows` |
| `Tableless` | `Spec => TablelessForever` |
| `Refinement` | `Spec => ChatLogSpec` |
| `ButtonMatchesDraft` | `Spec => []SendMatchesDraft` |
| `NothingIsInvented` | `Spec => []NothingInvented` |
| `NothingNewOnReopening` | `Spec => []ReopenShowsNothingNew` |

`NothingLost` is not inductive: a text may be sent to a store without a table,
in which case nothing is stored and no call needs to have failed *on that step*.
That state is unreachable without an earlier fault, which is
`HealthyStoreHasTable` (a part of the invariant); to use it one must know that a
page is only open while the process runs (`PageOnlyWhileRunning`), that what
the button sends is a text and not the empty draft (`SendMatchesDraft`), and that a
text that was run as SQL counts as a fault (`IntactWhileFaultless`).
`TablelessForever` needs
`RowsNeedTable`: without a table there is no row. `StoreInv` is the conjunction.
The proof has one lemma per action that changes more than a flag, on top of
lemmas about sequences (`Newest` and `Append` keep types, the stored form of a
longer sequence is the longer stored form, an appended log has the old one as
its prefix).

`NothingLost` holds where nothing failed, and a text that is run as SQL is a fault.
`NothingInvented`, the part of `DurableOnlyGrows` that is about rows and the table,
and `ReopenShowsNothingNew` hold of every failure of SQLite and every kill, but only
as long as no text has been run as SQL (`intact`): the code does not promise more.
That the file and the pictures stay, `TablelessForever` and `SendMatchesDraft` have
no such condition. `LogStep` is the lemma they share: a step leaves the rows alone,
or appends one, or has run a text.

`NothingInvented` says that a log is a subsequence of what was sent;
the witness is the old one, extended by the new last text when its insert
succeeds. `ReopenShowsNothingNew` is the consequence of `CompletePage`: as long as a
page is complete, its bubbles show the newest rows of its peer's log as the log is
now. Which rows those are is said by their distance from the end (`NewestRows`), not
with the loop's arithmetic (`Newest`), so that an error in the latter breaks it. A
read that a failing `sqlite3_step` ends early makes a page that is not complete:
the code cannot tell it from the end of the rows, and shows an older window.
The refinement maps `Open`, `ClickSend`, `PickPicture`, `Trash`,
`Back` and `Crash` to steps of `ChatLog` and everything else to stuttering.

### The pages

| Module | Invariants | Properties proved |
|---|---|---|
| `PagesProofs` | `CarouselInv` (`CarouselInvariant`) | `CarouselTypeOK` (`CarouselTypeCorrect`), `RestsOnOriginal` (`AlwaysRestsOnOriginal`), `OneTimer` (`TimersNeverPileUp`), `DragsNeverMeetFreedTimer` (`DragsAreSafe`), `TickAdvances` (`TicksAdvance`) |
| `PhotoPageProofs` | `BlurInv` (`BlurInvariant`), `OrderInv`, `FanInv` (`FanInvariant`), `ToastInv` (`ToastInvariant`) | of the parts: `EachRequestOnce` (`RequestsAreNotLost`), `OnlyOvertakingHidesNewest` (`NewestIsShown`), `MenuTypeOK` (`FanTypeCorrect`), `MenuMeetsTouches` (`TouchesAreMet`), `GoneWhenOver` (`ToastIsGone`), `NotCutShort` (`ToastStays`); of the page as a whole: `PageMeetsTouches`, `PageLosesNoRequest`, `PageShowsNewest`, `PageToastIsGone`, `PageToastStays` |
| `PagesProofs` | `SearchInv` (`SearchInvariant`), `NavInv` (`NavigationInvariant`), `PagesInv` (`PagesInvariant`) | `CancelWhileEditing`, `SingleSelection`, `StripFollowsPage` of the parts (`CancelIsThere`, `OnlySelectedIsOrange`, `StripIsThere`) and of the whole (`PagesCancelIsThere`, `PagesOneIsOrange`, `PagesStripIsThere`), and that no other page comes up under the search page's keyboard (`NoKeyboardElsewhere`) |

- *Carousel.* The properties together are inductive but for one case: that a
  drag which is let go starts the only timer needs its timer to have been stopped
  when the drag began, so `mine = "freed"` while a finger drags. The arithmetic is
  in lemmas of its own: the page nearest to the offset of a page is that page, and
  the dot after the last is the first. `TickAdvances` follows since only `Tick`
  goes from rest to rest with a timer on both sides.
- *BlurredImage.* With the types, `EachRequestOnce` is inductive: a request's name
  is new, and the main queue neither repeats nor loses one at either end.
  `OnlyOvertakingHidesNewest` needs `OrderInv`: the picture that will be left when
  the blocks now waiting have run is the newest rendered one, or an overtaken one.
  `NewestIsShown` supposes `~RenderMayFail`, since a failed rendering sets no
  picture (finding 2).
- *Toast.* `GoneWhenOver` and `NotCutShort` rest on `ToastInv`: a pending timer of
  the toast on screen is due its duration after the click that `clickTime` has in
  seconds. The rest is the arithmetic of truncation: two times whose seconds are
  `d` apart are more than `d - 1` seconds apart (`SecondsApart`).
- *FanMenu.* That a menu put away cannot be touched rests on its buttons being
  hidden, or on nothing having been animated yet; that an open one can, on its
  animations: while any is under way nothing is promised, and the last to stop
  moves the centres out.
- *PhotoPage.* All these invariants carry over because each step of the page is a
  step of a part, or leaves the part as it is; the lemmas that they are kept are
  stated for one step so that both theorems can use them.
- *SearchPage.* Inductive with the types: the test of the width is what makes the
  relative moves safe, and repainting a reused cell what keeps a single selection.
- *Navigation.* Two pages leave the strip as they find it, so one must know what
  they can come after: `Stacks` lists what each tab can have on its stack.
- *Pages.* Both invariants, and that the keyboard is the visible page's, which is
  why the page below may miss the end of its editing.

### The keyboard and the bar

`KeyboardProofs` is about any set of fields and keyboards, with `setEnable:` called
at any time if `MayToggle`.

| Theorem | Statement |
|---|---|
| `KeyInvariant` | `Spec => []KeyInv` |
| `PageInvariant` | `Spec => []PageInv` |
| `TypesHold` | `Spec => []TypeOK` |
| `EveryFrameIntact` | `Spec => []FramesIntact` |
| `AlwaysInStep` | `Spec => []InStepWithUIKit` |
| `AlwaysRestored` | `Spec => []RestoredOnceSaved` |
| `NoResidueEver` | `Spec => []NoResidue` |
| `FieldStaysVisible` | `Spec => []FieldVisible`, if every field's top is at least 5 points below the status bar |
| `RestoredUnlessToggled` | `Spec => []RestoredWhenHidden`, if `~MayToggle` |
| `BarStaysPut` | `BarSpec => []BarNeverCreeps` |
| `BoxIsFollowed` | `BarSpec => []BoxFollowsKeyboard`, if the text view is below the status bar where the page puts it |

Each property but the type invariant speaks of moments at which no notification is
under way, or would be false if a handler met a notification it does not expect.
What makes the handlers right is the *order* of the notifications, so the invariant
is about the queue. `Phase` says that it is one of six kinds (`Rests`, `Shows`,
`Starts`, `Switches`, `Bounces`, `Ends`): which notifications it holds, and what the
manager knows meanwhile (its field is the first responder, the one before, or
none). `Knowledge` is what follows for the keyboard, `Kept` for the frames. A
delivery moves from phase to phase, the user's next action finds the queue at rest.

`PageInv` adds where the root view is (`RootInv`) and, on a page that leaves its
fields alone, that the lift is the one the field asks for (`Lifted`): `adjustFrame:`
adds to what is there, and the sum is right only because it starts from the lift of
the same field, or from none (`NoResidue`). The arithmetic is in lemmas about `Lift`.

Two of the hypotheses: `adjustFrame:` does not lift a field whose top is within 5
points of the status bar or behind it, however much of it the keyboard covers, so
`FieldVisible` is false of a page with such a field (none here has one); and with
`MayToggle`, `RestoredWhenHidden` is false (finding 1).

`BarStaysPut` needs from the manager only `KeyInv`, which is the same whatever the
page does with its fields: the bar is up exactly while the manager has a field, and
its height is what the swipes have made of it since.

`BoxIsFollowed` needs `BoxInv`: besides `BarInv` and `RootInv`, that the root view is
where `adjustFrame:` puts it for a bar at *one* of the two heights the page knows and
the swipes (`BarLift`), not necessarily the one the bar has now. The page moves the
bar between these two without the manager; everything else either keeps the lift or
makes it anew (`AdjustedFrame`: the result does not depend on where the root view
was).

### The locks

`FileLocksProofs` proves of the protocol, for any handles and processes,
`ExclusiveMeansAlone` (`WritersAreAlone`) and `OneReserves` (`WritersDoNotMeet`).
Neither is inductive: RESERVED stays taken on the way up to EXCLUSIVE, and PENDING
has one holder (`ReservedIsTaken`, `OnePending`).

`UnixLocksProofs` proves of `os_unix.c`, for any finite set of connections of any
processes (`LocksAssumption`):

| Theorem | Statement |
|---|---|
| `UnixInvariant` | `Spec => []UnixInv` |
| `LocksTypeCorrect` | `Spec => []TypeOK` |
| `KernelIsMatched` | `Spec => []InodeMatchesKernel` |
| `WritersAreKnown` | `Spec => []WritersAreSeen` |
| `LocksImplement` | `Spec => Implements`, the refinement of `FileLocks` |
| `ExclusiveIsAlone` | `Spec => []FL!ExclusiveMeansAlone` |

`InodeMatchesKernel` speaks of a process outside its mutex, so the invariant has
to say what holds at each stage of a call. `UnixInv` is, for each process, that its
counters count its handles (`Counts`), that at most one handle is above SHARED
(`HandleLevels`), what the call in progress found when it came in and still relies
on (`CallInProgress`), and which kernel locks go with which level and stage
(`KernelLocks`); and, between two processes, that write locks exclude and that the
range of an EXCLUSIVE one stays free of others (`Conflicts`). The last is more than
the kernel's rule: `posixUnlock` lowers the range to a read lock while the level is
still EXCLUSIVE, and nobody can come in between because the pending byte is held
until after.

The proof splits every step by the process that takes it. The others keep their
part of the invariant since nothing of theirs changes (`OthersKeep`); for the one
that moves there is a lemma per action. `Conflicts` is kept in a lemma about the
kernel alone: a step takes at most one lock, and that one was granted. The counters
are cardinalities, so `CountDown` and `JoinReaders` rest on the theorems about
finite sets.

The refinement maps a request and the stages that change no `Held` to stuttering
(`RequestStays`, `CallStays`), the `fcntl` call that gets a range or a byte to
`Share`, `Reserve`, `Pend` or `Exclude`, and `ReleaseBytes`, `CountDown` and `Crash`
to `Downgrade` and `Lose`. The guard of `Share` is where the exception for a
process that reads already is needed, and the guards of `Pend` and `Exclude`, which
speak of all handles, follow from `Conflicts` for other processes and from
`HandleLevels` and the checks at the head of `unixLock` for the same one.

### The pager

`PagerProofs` and `PagerRecovery` are about any connections, pages, journal lengths
and numbers of transactions and faults (`PagerAssumption`). The first has what the
notes at the head of `pager.c` ask of every step: the locks held, what is on the
disk, and the order of writes. The second has what all that is for: whatever
happens, the database is that of the last transaction.

| Theorem | Statement |
|---|---|
| `PagerKeepsProtocol` | every step of the pager is a step of `FileLocks`, or none |
| `PagersShareLocks` | hence the invariant of `FileLocksProofs` holds of its connections |
| `PagerInvariant` | `Spec => []PagerInv` |
| `PagerStatesFitLocks` | `assert_pager_state`: SHARED to read, RESERVED to log, EXCLUSIVE once the file may be written to, at every stage of every call |
| `PagesAreLoggedAhead` | note (1a): before a page of the database is overwritten, its record is in the journal and on the disk, in a segment whose header is on the disk and counts it |
| `DatabaseIsSyncedFirst` | note (5): when a journal is about to be deleted or zeroed, all of the database file is on the disk |
| `FileStaysForReaders` | notes (12) and (13): while a connection reads, no step of another changes the database file |
| `JournalsStayLinked` | `Spec => []JournalStaysLinked`, if all connections use one journal mode (`Alike`) |
| `JournalsRollBack` | note (7): `Spec => []AnyJournalRollsBack`, if `Alike` and `ZeroesLast` |
| `CachesStayRecognized` | note (9): `Spec => []CachesAreRecognized`, under the same hypotheses |
| `PagerIsAtomic` | `Spec => Implements`, the refinement of `AtomicStore`, under the same hypotheses |

*Order of writes.* `PagerInv` is that the files are files (`FilesOK`) and, for each
connection, that its object has its type (`PagerOK`), that its locks go with its
state and stage (`Fits`), that the journal it writes is in order (`JournalOK`) and
that the database was synced before the journal is finalized (`SyncedFirst`).
`JournalOK` is the part that write-ahead logging needs: the journal up to the
current header is on the disk and is a sequence of complete segments, each header
counting the records after it (`Segments`); the segment at the header is open; every
page in `inJournal` has its record before `off`, and before the header unless it is
in `needSync`.

A step of one connection keeps the invariant of the others because they do not own
the journal or the database meanwhile: only who has RESERVED or EXCLUSIVE does
(`Owner`), and by the lock invariant there is one. That is the reason to prove the
protocol first and to take `FileLocksProofs` from there instead of repeating it.
For a connection itself there is a lemma per action, with failing calls, the end of
a process and power losses among them.

`LinkInv` is that whoever has a journal open, or writes to one, has the one that is
in the directory, and that in mode DELETE only the owner has it open.

*What a playback reads.* `Playback` is a recursive function over the cells of a
journal, and so is `Outcomes`, all that a power loss may leave of a file. What they
compute is proved with first-order facts only: `Counts` is induction on a *set* of
numbers, `OutcomesAre` unfolds `Outcomes` to "one of the values of each cell", and
`PlaybackUnfolds` says that any function that satisfies the equation of `Playback`
cell by cell, from the last one back, is the one it is computed by.
`PlaybackReads` is the result: of a journal that consists, up to `n`, of complete
segments of one transaction and has no header at `n`, the playback reads the
records below `n` and no others, whatever an older journal left behind.

*Recovery.* `Image` is what a playback of the journal in the directory makes of the
file. An image `B` is `Valid` for a state of journal and database if rolling the one
back makes `B` of whatever a power loss may leave of the other: the pages that it
does not restore are on the disk as they are in `B` (`ValidRestores`,
`RecoveriesAre`). `RecInv` says of the files (`FilesRecover`) that every journal
that may be left is valid for the present image, and that every journal a power loss
may bring back under another directory entry is valid for *some* image; and of each
connection, by its state and the stage of its call (`ConnOK`), what its cache is
worth, what its journal logs of the image, what it has not written to, what a
playback still has to play; and what it may conclude, by its lock, about a journal
in the directory (`KnowsJournal`).

The heart is `LogIsValid`: whatever is left of the journal of a transaction that is
logging, its header of the last segment there or not, it rolls back to the image the
transaction started from. It joins the order of writes (`Segments`), the playback
(`PlaybackReads`) and what the transaction has left untouched (`Untouched`). Then
there is one lemma per action, `...Recovers`. The interesting ones are
`SyncHeaderRecovers` (a segment becomes hot as a whole), `OpenHotJournalRecovers`
and `PlayRecordRecovers` (a playback may be interrupted anywhere, its writes torn,
because what it writes is in a synced journal, `Covers`), `FinalizeJournalRecovers`
and `PowerLossRecovers`. `CachesStayRecognized` needs in `RecInv` that the counter
of an old cache is not above that of the image (`OpenOK`).

*Atomicity.* Each of the lemmas says more than that `RecInv` is kept: a step
`Keeps` the image and adds nothing to what is at risk, or it `Commits` (the image is
replaced, and the old and the new one are at risk), or it `Loses` (a power loss
picks one of the images at risk, and no other is left). These are the steps of
`AtomicStore`, once it is known who reads (`Readers`) and that whoever reads sees the
image (`SnapshotIsImage`, `ReadersSeeImage`). The commit is the step that deletes or
zeroes the header of the journal (`FinalizeCommits`), and no other step
(`OrdinarySteps`).

*Hypotheses.* Both are needed, as runs show. With two journal modes (not `Alike`)
`JournalStaysLinked` is false: run `pager_mixed`, finding 4. `ZeroesLast` is
`AllDelete \/ Writeback`: a header that a process has zeroed and not synced when it
ends reaches the disk, or there is none since all connections are in mode DELETE.
Without it a zeroed header may come back over the records of the next transaction:
run `pager_persist`, finding 3. The application, one connection in the default mode
DELETE, satisfies both, whatever the operating system does with unsynced writes.
`PagerAssumption` names what the model takes for granted of its constants: the
journal modes are DELETE and PERSIST, the database has at least one page, and
`Nothing` is no journal; `ValuesAssumption`, that the model's special values (absent,
zeroed, torn) are no pages, headers or records. For mode PERSIST there is one more
that is not a formula: a header never follows the last record without a gap (see
"Not modelled"). `PutPage` and `SyncHeader` are
disabled where they would go beyond the bounds on pages and cells.

### Only model-checked

Every invariant, every action property and every refinement that a passing run
checks is a theorem, some under the hypotheses named above. What is left is:

- Liveness, which needs `ENABLED`: `ToolbarInTheEnd`, `ShowsEveryImage`,
  `EveryRequestCompletes`, `OpensInTheEnd`, `PendingGetsThrough`.

## Not modelled

- Inside modelled parts of the application: which side a bubble is on, sizes and
  scroll offsets; the text of a picture's file name; rotation, and fields inside
  scroll or table views, which no page of the application has; the sound and
  appearance options of the keyboard manager; a popped page that a timer still
  retains, and notifications to a page that has been freed. `updateDB` and
  `deleteDB` have no caller.
- The progress bar of the search page, a counter of its own that nothing reads.
- `OneCell`: the layout of one bubble.
- `SixViewController` beyond `viewDidLoad`: pushing it raises an exception there,
  so no other handler of it can run.
- `MyUncaughtExceptionHandler`: one write while the process dies.
- `WWWTests`: a template test that fails unconditionally.
- In the file locks: dot-file, `flock`, AFP, NFS and proxy locks, `unix-excl`, an
  unlock that fails, shared memory, and reading and writing the file.
- In the pager: an empty database, savepoints, auto-vacuum, exclusive locking
  mode, journal modes other than DELETE and PERSIST, WAL, commits over several
  files, backups, in-memory databases. Power losses are at the grain of a page or
  record. In mode PERSIST, a segment of a journal whose records fill a whole number
  of sectors, of which it takes `SectorSize/8` records: a rollback after a write
  that failed then skips the check of the magic number of a header an older journal
  left right behind them (`pager.c:1518`, `journalHdr` as set at 4159) and plays old
  records into the cache. The model's segments are shorter, and so are those the
  theorems about mode PERSIST speak of; in mode DELETE, the application's, there is
  no older journal.
- In the store: what a text that is run as SQL does, beyond that it may do anything
  to the rows and the table. `log` is what a select returns; a view in the place of
  `USER_INFO` that returns something else each time is left out, and so is a journal
  mode that such a text has set.
- The rest of SQLCipher (B-tree, virtual machine, parser, code generator, page
  encryption, WAL, full-text search, its test programs) and OpenSSL. What the
  application relies on of them is in `ChatStore`: a call succeeds or fails, and
  a statement is atomic; what makes it atomic is in `Pager`. Counted in lines they
  are nearly all of the repository (570,000 of C against 6,000 of the
  application), so that the modelled share of all lines is small and would stay
  small: it is a database engine and a cryptographic library, of which the
  application uses one table.

## Plan

Written, in this order: `ChatLog`, `ChatStore` and its proofs;
`KeyboardManager`; `ChatBar`; `Carousel`, `Toast`, `BlurredImage`; `FanMenu`,
`SearchPage`, `Navigation`; the proofs about the pages; the compositions
`PhotoPage` and `Pages`; `FileLocks`, `UnixLocks` and their proofs;
`AtomicStore`, `Pager`; the proofs about the keyboard, the bar, the compositions
and the pager, and last that the pager recovers and is atomic. What could come next:

1. The pager over `UnixLocks` instead of `FileLocks`, with two connections of one
   process, and its first access to an empty database.
2. Savepoints, whose sub-journal shares the page cache with the rollback journal.
3. Pushing and popping in `Carousel`: its timer retains the page, so a popped page
   goes on ticking, and a page pushed again has a timer of its own.
