# Athena: a verification development

This directory models, in TLA+, the parts of MIT's Athena environment in which
several processes change state that lasts:

* *discuss*, the conferencing system (`src/athena/bin/discuss/server`): what a
  meeting is on disk, how its operations change it, how its files are made to change
  atomically, who may use it, and how a meeting is rebuilt, without its deleted
  transactions while servers use it, or from half of its files after a loss;
* *Moira*, the service management system (`src/third/moira`): how its data control
  manager distributes files to hosts and has them installed, and how its server
  keeps the members of lists flattened and passes changes on;
* the *locker library* (`src/athena/lib/locker/src`): the table of what is attached
  on a workstation, and the locks of the programs that attach and detach.

The models are checked with TLC on small instances, and every safety property that holds
there is proved with TLAPS for instances of any size.

Paths below are relative to `src/athena/bin/discuss/server/` unless they say
otherwise; `moira/` stands for `src/third/moira/`, `locker/` for
`src/athena/lib/locker/src/`.

## 1. Inventory

The repository is MIT's Athena environment: `athena/` holds its own C programs,
`debathena/` the packaging, configuration and small modules for Debian, and `third/`
what comes from elsewhere (Moira, lam, rs). The parts with state and hard behaviour are:

| Part | State | Operations | Interaction | What is hard |
|---|---|---|---|---|
| meetings, `core.c`, `mtg.h` | control file (superblock, chain blocks), transactions file | add, expunge, delete, retrieve, set flags, create, remove, readers | one server process per connection, all on the same files | the links after any order of deletes and retrieves; failed adds; block k is both transaction k and chain k |
| meeting files, `coreutil.c` | open descriptors and acl of the last meeting, superblock in memory | open_mtg, start/finish_read, read/write super and chain, core_abort | called by all of core.c | cached descriptors of a file that was replaced; fcntl locks lost on close |
| atomic files, `atom.c` | dirty blocks in memory, the file, its lock | aopen, aread, awrite, aclose, aabort | under core.c | block arithmetic, quota reserved before the commit, crashes, readers |
| expunge, `expunge.c` | position in the copy, three directory names | copy, check, lock, recheck, two renames, remove | runs beside the servers | everything that happens meanwhile; being killed; being run again |
| recover, `recover.c` | positions of the transactions found | rebuilds a meeting from its transactions file | makes the new meeting at its final place, where servers use it | takes any bytes that look like a header; failed adds in the file |
| acls, `acl.c`, `acl_core.c` | acl file, list in memory | check, add, replace, delete access | lock on the control file, rename | locks lost on close, 1-second mtimes |
| dispatch, `rpproc.c`, `dispatch.c` | | decode, switch | one call at a time | |
| libds, usp, clients | conversations, caches | RPC stubs | TCP | |
| locker library, `locker/` | attachtab directory, one locked file per attachment | lookup, get, update, delete entry; attach; detach; mountpoints | many processes | locks given up before use; undo of half an attach |
| Moira's data control manager, `moira/dcm` | rows of servers and serverhosts, the generated file | generate, send to every host, execute, retry | one update server per host; several runs at once; operators reset rows | a run that dies or fails anywhere; two runs; marks left behind |
| Moira's update server, `moira/update` | the target file, what is installed | transfer, execute | one process per connection | half a file under the final name; answers that are lost |
| Moira's server, lists: `moira/server/qsupport.pc` | the flattened table imembers with reference counts | add, delete, tag member | one transaction per query | counts after any order of adds and deletes; arrays of fixed size |
| Moira's server, incrementals: `moira/server/increment.pc`, `mr_main.c` | queues of updates, the program that runs | queue, commit, flush, start the next | programs that change other systems | a program that fails, hangs, or comes late; the queue is lost with the server |
| the rest of Moira's server, its clients and generators | the database | hundreds of queries in SQL | | |
| larvnetd, messaged, athinfod, lert, delete, attach, hesiod, Xj, ... | mostly none | | | timers and late answers in larvnetd |

`PROJECT.json` lists all of them, with the reason where a part is not modelled, and
the hazards at their lines.

What makes each part correct:

* **meeting**: next/prev/first/last visit exactly the transactions that are not
  deleted, in order; nref/pref/fref/lref do the same within each chain; numbers are
  never taken back; the transactions file alone is enough to find everything again.
* **atomic file**: any process sees the old contents or the new ones; an abort or a
  crash before aclose changes nothing; the writer sees its own writes.
* **expunge**: no acknowledged transaction is lost, no threads are merged, there is
  always a whole meeting under some name, and everybody's call ends.
* **recover**: the rebuilt meeting is consistent at every step, no text is lost, and
  left alone it has the old numbers and threads.
* **access control**: no change is lost between two servers, each is what its caller
  asked for and may do, and operations are decided by the list in place.
* **data control manager**: what its tables say of a host is true; marks are cleared; a
  replicated service is installed only when every host has it; soft failures are made
  good; one run at a time works on a host.
* **list membership**: a member has a row in exactly the lists that lead to it, with
  the number of ways; other systems follow.
* **attachtab**: one process at a time mounts or unmounts a locker, the table says
  what is mounted, and every call ends.

## 2. Modules

| Module | Models |
|---|---|
| `MeetingOps` | the two files of a meeting as a value, and each operation of `core.c` as a function on it; what "linked" means |
| `Meeting` | one meeting as its callers change it, `retrieve_trn` one block read per step |
| `Conference` | abstract specification: what a meeting promises its users |
| `Atom` | `atom.c` and the readers' lock of `coreutil.c`, one block per step |
| `AtomicFile` | abstract specification: a file that changes only as a whole |
| `Expunge` | `expunge.c` and `remove_mtg`, with servers running `open_mtg`, `add_trn_priv`, `delete_trn` and `retrieve_trn`; uses the functions of `MeetingOps` |
| `Recover` | `recover.c` on a meeting with any short history, with users at the meeting it makes; uses the functions of `MeetingOps` |
| `Acl` | `acl.c` as functions, `acl_core.c` and the list kept by `open_mtg`, in several servers |
| `Access` | abstract specification: what set_access and delete_access promise |
| `UpdateServer` | what a transfer and an execution do to a host, as functions |
| `Dcm` | the data control manager's runs, their tables and the hosts; uses `UpdateServer` |
| `Imembers` | the flattened table of list members and its changes, as functions, and what it stands for |
| `Moirad` | the queries that use `Imembers`, the queue of incremental updates and its programs |
| `Attachtab` | `attachtab.c`, `attach.c` and `detach.c` for one locker and several processes |
| `MeetingLemmas` | facts about the operators of `MeetingOps` |
| `MeetingProofs`, `AtomProofs`, `ExpungeProofs`, `RecoverProofs`, `AclProofs`, `AttachtabProofs` | theorems about `Meeting`, `Atom`, `Expunge`, `Recover`, `Acl` and `Attachtab` |
| `MoiraProofs` | theorems about `Dcm`, and about `Imembers` and `Moirad` |
| `MCMeeting`, `MCAtom`, `MCExpunge`, `MCRecover`, `MCAcl`, `MCDcm`, `MCMoirad`, `MCAttachtab` | instances for TLC |

### MeetingOps and Meeting

A meeting `m` is a record of the superblock's numbers, the chain blocks `m.blk` and
the transactions file `m.trns`, a sequence with one entry per append; an address is
a position in it. Fields keep the names of `mtg.h`. Abstracted: texts, subjects,
authors, dates and access rights (a refused call changes nothing and is no step);
byte order; the sizes behind `high_water` and `trn_fsize`.

`AddTrn`, `AbortAdd`, `ExpungeTrn`, `SetTrnFlags`, `DeleteTrn` and `RelinkTrn` are the
changes that the functions of the same names make. Two things are nondeterministic
because the code leaves them so: what a failed add leaves in the transactions file
(a whole header or part of one), and the fields that `expunge_trn` never sets (`Junk`
for `pref` and `trn_chain`, any flags). New numbers are always `highest + 1`: the programs
that ask for a number (`desired_trn`) go through 1, 2, 3, ... and ask for that one.

An operation holds the exclusive lock from `aopen` to `aclose` and `aclose` is atomic
(that is what `Atom` is about), so each is one step of `Meeting`, except
`retrieve_trn`: its four search loops are the actions `SearchPref`, `SearchNref`,
`SearchPrev` and `SearchNext`, one `read_chain` per step, and the server may die in
between.

### Atom

The file is a sequence of bytes, blocks are `ABLOCKSIZE` long, and every process has
an `afile` with its dirty blocks. `awrite` and `aclose` take one step per block.
`awrite` first writes a block back as it was (reserving quota), so the file grows
before the commit; the write may fail; a process may crash anywhere but in `aclose`,
which `atom.c` says it does not protect. The refinement mapping to `AtomicFile` gives a
process that has the file open its dirty blocks over the file, and counts the
change as made when `aclose` starts. `block_num` is 16 bits wide; the assumption
`BelowWrap` keeps the file below the size (32 megabytes) where it would wrap.

### Expunge

Files are numbered; `dir` says which file the names `loc`, `loc~` ("bak") and `loc#` ("fut")
lead to. A server call is `Call`, `OpenMtg` (with the cache: descriptors are kept unless
the acl at the name is newer), `Work` (lock, read, change in memory, or reopen because
`date_created` is 0, or refuse) and `Commit` (aclose and the answer). `SetAccess` is
`set_access` or `delete_access` as one step (`Acl` has its steps), of which only the new
`st_mtime` of the acl matters here (`acl`, `now`): the same second as the last change, or a later
one. Making the new meeting writes an acl too, and a rename takes the acl with the control file.

The expunge program is one action per call it makes. Its lock is an fcntl lock and goes when
any descriptor of the file is closed. That happens in two places, both in `open_mtg`: in
`remove_mtg` (`RemoveOpen`), and in the check under the lock if the acl has become newer since
the check before it (`RecheckOpen`; then `Recheck` and the renames follow without the lock).
After an error in the copying it only reads `loc` and writes `bak` and then exits, so it exits
at once in the model.

After the check under the lock `no_nuke` stays set, and if the program is sent back to
copying, the next add to `bak` is not atomic: `write_chain` and `write_super` write straight
to the file. Nobody else looks at `bak` meanwhile, so that the add is one step (`CopyTrn`)
unless the program is killed in it: `DiesCopying` leaves any of the blocks it changes written
(`PartsOf`), and the superblock, which comes last, as it was. (A kill inside `aclose` does
much the same when `no_nuke` is not set; no property says anything of a copy that such a run
leaves behind but that it never gets the meeting's name.) `expunge_trn` writes one block that
is not in use before the superblock, so that `CopyHole` needs no such action. `disturbed`,
`acked` with its `late`, and `gone` are history for the properties.

`Expunge` starts from one of a few meetings with a budget of calls and of runs of the
program for each (`Starts`), so that one run of TLC covers both a meeting of two threads
and a small one that is expunged twice. A file that no run has made yet is `NoFile`; the
meetings of `Starts` have their links in order, as `Meeting` keeps them
(`StartsAssumption`), and 0 is among the flags (`NoFlagsAssumption`), as the server gives a
new transaction none.

### Recover

`old` is the meeting whose control file is lost, made by any short sequence of the operations
of `MeetingOps`, failed adds among them (`Add`, `LostAdd`, `Hole`, `Delete`, and so on). The
program is `ReadLastTrn` (search from the end for what looks like a header: `MayLookWhole`),
`Walk` (follow `prev_trn`), then `SaveTrn` or `SaveHole` for each number; any of them may fail
or the program be killed. The code allocates one entry too few for `trn_pos` (`recover.c:154`;
index `th.current` is used): in the model the entry exists, and keeps its value or the program
is killed; that is an assumption about the allocator, and no property, `TypeOK` included, says
that the code stays inside its array. Because `create_mtg` puts the new meeting at its final
place, users post to it and delete from it in between (`Post`, `PostDelete`). `from` remembers
which entry of the old file each new number was made from. Text that happens to look like a
header is left out.

### Acl

The list is a sequence of entries, as in the file; `AclAddAccess`, `AclReplaceAccess`,
`AclDeleteAccess`, `AclCheck` are the functions of `acl.c`. A change is `Call`,
`LockedOpenMtg` (lock without waiting, read, check), `Modify` (change, refuse to lose
one's own control), `CreateTmp`, `WriteTmp`, `Rename`, `Close`, each of which may fail, with
the process dying anywhere. An operation on the meeting is `OpenMtg`, which decides by
the copy kept if the file's `st_mtime`, in seconds, is not newer, then waits for the lock.
`Access` says what this amounts to: one call changes what one name is given. The
refinement mapping takes the list to what `acl_get_access` finds in it for each name,
so that an entry behind that of everybody would not count. `FirstAcl` is any list
that is `Orderly`, one entry for each name and that of everybody last, as `create_mtg_priv` makes
it and `acl_add_access` keeps it; a list edited by hand may be otherwise.

### UpdateServer and Dcm

`UpdateServer` gives, for each request, the set of states the host may be left in with
what the sender is told: `get_file` unlinks the old file, creates the new one under its
final name, and writes; any of these may fail, and the last answer may be lost. The
script is `hesiod.sh` as an example of them. It fails on a partial file in the model; in fact
`get_file` fills the file with zeros first and tar may accept what is there. No property
depends on that, since a run executes only what it has sent whole.

`Dcm` is one service. A run goes through `GenRead`, `GenMark`, `GenWrite` and `GenDone` (or
`GenNoChange`, `GenFails`) of `generate_service`, and `HostsStart` to `Finish` of `do_hosts`: the
first loop sends to each host that is due, the second executes on each that is marked. The
hosts that a loop has queued and not come to are the set `todo`; it takes them in the order
in which the cursor returned them (`First`).
A step is what lies between two COMMITs, and the steps of a connection. Runs die
(`Dies`, `SqlError`), operators reset rows (`ResetServerError`, `ResetServer`,
`ResetHostError`, `ResetHost`, as `dcmmaint` and the queries do), the data changes, and time
passes. Two things the model takes for granted: generating and sending each take
longer than the second they start in (`hist.last`), since times are compared in seconds;
and operators reset marks only while no run is on its way.

### Imembers and Moirad

`Imembers` has the table as a record of reference counts and of the rows added
directly, `AddMember` and `DeleteMember` as functions on it, with the conditions under which
the queries refuse, and `IsFlattened`: the counts are the numbers of walks over direct
rows (`Walks`), and no list is in itself. The arrays have `MaxListDepth` entries: an add
that does not fit is refused, a delete takes the rows that do fit (`Fetched`).

`Moirad` runs queries on it, one transaction each. Rows that appear or go are queued when
the query commits (`Commit`) or thrown away when it fails (`QueryFails`), and one program
at a time carries an update out in another system: `StartUpdate`, `UpdateCarried`,
`UpdateFailed`, `StartFails` (vfork), `Overdue` (after three minutes the program is not waited for any
longer), `Late` (and then carries its update out after all), `Restart` (the queues are in
memory only). `cut` is set when a delete passed over rows, `lost` has the rows whose last
update failed, was lost, or came out of turn. The names of `Moirad` differ from those of `Dcm`
(`MoiradInit`, `MoiradNext`, `MoiradSpec`), so that `MoiraProofs` can extend both.

### Attachtab

One locker, its mountpoint, and processes that attach it, detach it or detach everything
(`locker_iterate_attachtab`). Files have inodes, because an entry that is deleted and created
again is another file, and the code checks for that. The steps are `LockTab`, `OpenEntry`,
`LockEntry`, `CheckGone`, `CheckEmpty`, `RemoveEmpty`, `ReadEntry`, `CreateEntry` and
`LockCreated` of the lookup, then `Attach` or `Detach` with their failures, `Update`, and
`Free`, `LockToDelete`, `DeleteEntry`. A process may be killed between any two. `removed` is a
history variable: a file was unlinked that had an entry in it, or that another process had
just created or was working with. Lockers are looked up by mountpoint here. A lookup by name
goes through a symbolic link to the entry (`locker/attachtab.c:654`), and what `RemoveEmpty`
stands for then removes the link and not the file (`attachtab.c:729`); the links are left out.

`Variant:` definitions beside some operations are plausible mistakes in them; each
property is shown to fail under one of them (`mutants` in `PROJECT.json`).

## 3. What the runs check

| Run | Instance | Shows |
|---|---|---|
| `meeting` | 3 transactions, 4 appends (a failed one before, between or after), 2 junk values | `LinksOK`, `ChainNumbersOK`, `SearchOK`: links, ends and searches are right after any sequence of operations, failures and crashes; `LogOK`: the transactions file can be walked back past failed adds and records the chains; `NumbersAreForGood`; `IsConference`: a meeting implements `Conference`; `RetrieveEnds` |
| `atom` | 2 processes, blocks of 2 bytes, a file of 1 byte growing to 4, writes of up to 3 | `IsAtomic`: atom.c implements `AtomicFile`; `ReadsOwnWrites`; `EitherEndHasRoom`: aclose needs no new space and an abort can cut the file back. Deadlock is checked |
| `expunge_copy` | 2 servers, 2 calls or changes of the acl, 4 transactions in two threads with one deleted; or 1 transaction, 1 call and two runs of the program; all killed anywhere | the copy is in step (`CopyInStep`), no threads are merged (`NeverMerged`), none is split if nothing is deleted or retrieved meanwhile (`UndisturbedCopy`), the move starts with everything and under the lock if the acl was left alone (`MoveIsWhole`), links are in order at "loc" and "fut", and at "bak" when it is to be moved (`NamedLinked`), adds answered before the program's last look are kept, with or without the lock (`AckedBeforeMove`), and between the renames the old meeting can be put back whole (`BothThere`) |
| `expunge_live` | 2 servers, 1 transaction, 2 more calls | `CallsEnd`; `ExpungeEnds`: the program ends, with the meeting at its name |
| `expunge_lost` | 2 servers, 2 transactions, 1 more call, nobody killed | **violated**: `AckedIsKept`, see below |
| `recover` | 3 numbers and 4 appends in the old meeting, 1 post | `NewLinked`, `TextsKept`, `RecoveredWhole` |
| `acl` | 2 servers for 2 people, 2 modes, 2 seconds, 3 calls | `IsAccess`: the protocol implements `Access`; `DecidesByListInPlace` |
| `dcm_one` | 2 hosts, 2 runs one after the other, 2 versions, a failure, a death | `RecordedIsInstalled`, `MarksCleared`, `SentBeforeInstalled`, `Retried` |
| `dcm_two` | 2 hosts, 2 runs at once, a failure | **violated**: `OneAtATime`, see below |
| `moirad` | 3 lists, 3 users, arrays of 4; 7 queries without faults, or 4 with one fault or 3 with two, and up to three queries' updates waiting | `Flattened`, `FollowsTable` |
| `attach` | 3 processes, 4 calls, one fault | `GuardedByEntry`, `CallsEnd` |
| `attach_view` | 2 processes, 4 calls, no fault | **violated**: `ConsistentView`, see below |

Every passing run but `expunge_live` has a type invariant too.

**Bounds.** Three transactions give a thread with a first, a middle and a last one, two
threads that alternate, a hole before, between and after; a search loop takes 0, 1 or
2 steps. The theorems cover every other size. In `Atom`, blocks of two bytes give
writes that start at an offset, end inside a block, span two blocks and go past the end;
`MaxSize` leaves room for two blocks. In `Expunge` two calls are enough for one to
race the copying and another the move; `Threads` (1-2-4 and 3, with 2 deleted) is the
smallest meeting in which following `pref` instead of the chain could go wrong.
`MaxFiles` bounds the runs of the program, each of which makes one file; a change of the acl
counts as a call, and each may be in the second of the last one or in the next: more seconds
tell no more than that one is later.

In `Recover` a fourth append is a failed add before, between or after three others, or at
the end, where the search finds it. In `Acl` two seconds give changes in the same and in
different ones, and three calls one that a stale list would undo. In `Dcm` the first
of two hosts can fail and the second go on, the data can change once between two runs, and
one death or failure can be made good or not by the second run; the clock runs to 5
with an interval of 1, enough for both runs to be due. In `Moirad` three lists give
a list in another in two ways, loops of two and of three, and with arrays of four a
list that is too full to be taken out whole; seven changes make and unmake these. The
queue needs an add and a delete of one row behind one another, a program that hangs,
and a fault after that. In `Attachtab` three processes give one that holds, one that waits
for and one that removes an entry, and four calls a second attach by one of them.
A bound of `MaxCalls`, `MaxRuns`, `MaxFaults`, `Budgets` and so on is in the guard of the action it
limits; deadlock is not checked where the model stops because a bound is reached.
Processes are symmetric, and are declared so in runs without liveness.

**Fairness.** `RetrieveEnds`: a process that runs takes its next step (weak fairness
of `Search`). `expunge_live`: weak fairness of steps that never block, strong fairness
of the ones that wait for a lock, since the kernel queues F_SETLKW waiters;
nobody is obliged to start a call, and calls are bounded, as users' additions are
during one run of the program. `dcm_one`: cron starts runs, time passes, and a run
that is on its way goes on. `attach`: a process that can take a step takes it; no death is
relied on to end a wait. The other runs need none.

**A lost transaction.** `expunge.c:292` says "When we get here, we have the old
meeting locked. Now we do the move as atomically as we can". A server that waits for
the lock on the old control file should find `date_created` 0 when it gets it, and reopen.
But `remove_mtg` begins with `open_mtg(future_location)`, which closes `u_control_f`
(`coreutil.c:139`), a second descriptor of the locked file, and with it goes the fcntl lock,
before the mark is written (`core.c:1501`). In `expunge_lost` a waiting server gets the
lock in that gap, adds to the old file and reports success; the transaction is in
the unlinked file only. `AckedBeforeMove` says what does hold: an add is kept that was
answered before the program looked for new transactions the last time, or while no move
was under way.

**A meeting moved without its lock.** The same sentence of `expunge.c:292` fails in another
way. Between the lock (259) and the renames the program calls `get_mtg_info` (267) and so
`open_mtg`. If a server has changed the acl since the check at 241, `open_mtg` finds it newer,
closes `u_control_f` (`coreutil.c:139`) and opens the meeting again, and the lock is gone
(`RecheckOpen`). What the program reads at 267 it then reads without the lock, but after
having had it, so everything answered before is seen; what is added between that and the
rename is lost. So `MoveIsWhole` is stated for an acl that was left alone between the two
checks (TLC refutes it at once without that condition), and `AckedBeforeMove` and `BothThere`
for both cases. (What the change did to the acl is lost with the old meeting in any case: the
new one has the acl of the start.)

**Two runs at one host.** `moira/dcm/dcm.pc:362` says of the check of a host's mark
"There's still a race condition here, but it's a small one". There is another one, in which
no mark is set twice: run A fails softly at a host and clears its mark; run B marks the
host and sends to it; then A's second cursor (`dcm.pc:401`) takes every marked host
of the service, this one included, and has it install what B is still sending. `dcm_two`
shows it.

**A locker the attachtab does not know.** `locker_free_attachent` (`locker/attachtab.c:275`)
closes the entry's file, and so unlocks it, before `delete_attachent` takes the
table's lock and unlinks whatever has the name. In between another process may have removed
the empty file, created its own and mounted the locker. `attach_view` shows it with two
processes, none of them killed. `GuardedByEntry` says what holds otherwise.

**What else the models show.** Taking a list with `MAXLISTDEPTH` or more members below it
out of a list leaves rows in the table and reports success (`moira/server/qsupport.pc:493`),
though adding such a list is refused: `Flattened` is stated up to the first
such delete. An incremental update is lost if vfork fails or the server restarts, and one
that hangs may be carried out after its successor: `FollowsTable` excepts these rows until
the next update for them. With a generator that returns `MR_NO_CHANGE`, a host that failed
softly is not tried again until the data changes (`moira/dcm/dcm.pc:263`): `Retried` is
stated for the others.

## 4. What is proved

Every theorem is of the form `Spec => ...`, for every value of the constants that the
named assumptions allow. Each rests on an inductive invariant, `IInv` of its module:
`Invariance` is `Spec => []IInv`, with one lemma per action, and the properties follow from it.
The invariants were checked by TLC on the instances of the runs before they were proved.

**Meetings** (any `MaxTrn`, `MaxAppends`, `TrnFlags` and any set `Junk` of integers).
`LinksOK` is not inductive alone: that a retrieve puts a transaction in the right place
depends on its searches having found its neighbours, which depends on links and
on chain numbers. The inductive invariant is the links and chain numbers
(`Linked`), the type of the call in progress, and `SearchInv`: for each search a loop
invariant while it runs and "is the neighbour" once it is over.

* `MeetingLemmas` reduces the links to statements about neighbours in a set of
  numbers (`IsSucc`, `IsPred`, `IsFirst`, `IsLast`): what happens to them when one number
  is inserted at its place, appended or taken out. Add, delete and retrieve are then
  instances of these, once for the whole meeting and once for the chain. It also has what
  each operation does to the transactions file (`AddLogged`, `NoneAddedLogged`) and
  what it keeps of the other transactions (`Keeps`).
* `MeetingProofs`: `TypeCorrect`, `LinksAlwaysOK`, `ChainNumbersAlwaysOK` and
  `SearchAlwaysOK` from `Invariance`. Every step keeps addresses, chains and headers of stored
  transactions (`NextKeeps`); from that and `IInv` follow `LogAlwaysOK`, the action property
  `NumbersForGood`, and the refinement `MeetingIsConference`.

**Atom** (any processes, bytes, block size and writes; `SizesAssumption`, and `BelowWrap`: the
file stays below the size at which block numbers wrap round). The invariant adds to the types
who may have the file open beside whom (`LockInv`), that what is left of a write is inside the
bound (`WriteInv`), and that what an awrite has added to the file reads as zeros up to the
time it is closed (`TailInv`): without it, neither the file after an abort nor a reader's
view after a crash could be shown to be what it was. `BlockWritten` says what a write
of a block does to each position, `CutBack` what the truncation does, `Stretch` that
awrite's blocks and offsets are one stretch of positions. From `Invariance` follow `TypeCorrect`,
`RoomAtEitherEnd` and, with one lemma per action that says which step of `AtomicFile` it is or that
it cannot be seen, the refinement `AtomIsAtomicFile`. `ReadsItsOwnWrites` needs one thing more
of the file, that it ends before any block behind all that can be written (`SizeInv`), so that
the numbers of the blocks in it do not wrap round. What `aread` gives is then shown turn by turn:
its blocks follow one another from where the last part ended to what was asked for
(`BlocksAre`, `PartIs`), what it takes from each is what the process has there (`PartReads`),
and so one turn takes the right beginning of the answer to a longer one (`OneTurn`).

**Expunge** (any meetings to start from that satisfy `StartsAssumption`, any servers, calls
and runs, deaths allowed or not). No property is inductive alone: that the copy is in step
depends on what servers do to the old meeting meanwhile, and that nothing is lost on the two
checks. The invariant says which of the two meetings has which name at every step of the move
(`DirInv`); that every meeting with a name, and the one being expunged, is linked, but for the
copy that a run has left behind (`KeptInv`, `LeftOver`), and what is deleted there is in
`gone` (`GoneInv`); that a server in the middle of a call has the lock of its file, never has
one that is still at "bak", and is about to write what an allowed call makes of what is in the
file *now* (`CallInv`); that at the first rename every add that was answered in time has a
number that was copied (`LookInv`), which does not need the program's lock; and, for the
copying, `RunInv`: how the numbers of the two meetings compare at each step (`Counted`), that
what is missing in the new one was deleted (`Copied`), that no threads are joined
(`MergedNone`), what the program still knows of the number it is at (`AtNumber`), and, while
nothing has been deleted or retrieved, that no thread is split and `pref` still is the
predecessor (`SplitNone`, `AtNumberStill`). A change by a server only lets a meeting grow
(`Grown`), and `GrownRun` is the lemma that growing keeps `RunInv`; the program's steps have a
lemma each. Nothing in that speaks of the program's lock. `HeldInv`, inductive together with
it, does: as long as the acl is no newer than at the last check, the program has the lock from
the second check to the second rename, and the old meeting has the numbers it had. The links
themselves come from `MeetingLemmas`: here `retrieve_trn` is one step, so `RetrieveLinked`
first shows that its searches end at the neighbours (`BeforeAfter`). From `Invariance` follow
`TypeCorrect`, `CopyAlwaysInStep`, `ThreadsNeverMerged`, `UndisturbedIsExact`,
`NamedAlwaysLinked`, `MoveAlwaysWhole`, `AckedAlwaysThere` and `BothAlwaysThere`.

**Recover** (any `MaxTrn`, `MaxFile`, `MaxPosts`; `TrnFlags` with 0 in it, the flags of a new
transaction). The properties say nothing of the walk back that they depend on, so the
invariant follows it: `Recorded(old)`, what any history of adds, lost adds, holes and deletes
leaves in the transactions file (in particular that a lost add behind the last stored
transaction has the next number and leads to the last one); `WalkInv`, that what is
behind the walk has been found and what is before it has not been touched; `FoundInv`, that
`trn_pos` then has every stored transaction and at most that one lost add; `FromInv`, `OrderInv`
and `WholeInv`, what has been made of it with and without users at the new meeting. From
it follow `TypeCorrect`, `NewAlwaysLinked`, `TextsAreKept` and `RecoveredIsWhole`.

**Acl** (any servers, callers and principals, any list to start from that is `Orderly`, any
times and calls). The invariant says who has the lock (`LockInv`), that what a process with
the lock has in core or in the temporary file is what one permitted call makes of the list
in place *now* (`ChangeInv`), and what a list kept by `open_mtg` is worth (`CacheInv`: one with
the time of the file is the file's, unless the file was replaced again in that second).
Most of the proof is about lists: `AccessIs` and `GivenIs` say what `acl_get_access` finds in an
orderly one; `Replaced`, `Removed` and `Added` that a change keeps a list orderly and changes
what one name is given. From `Invariance` follow `TypeCorrect`, the refinement
`AclGivesAccess` (only `Rename` can be seen, and it is a step of `Access`), and `DecidesByList`.

**Dcm** (any hosts in any order, any interval, any number of failures, deaths, resets and
versions of the data). `TypeCorrect` is for any number of runs at once; the others assume
`OneRun`, that runs do not overlap, which the code does not enforce: it marks the rows it works on,
and between the check of a mark and the mark (`HostCheck`, `HostMark`) another run may pass the
same check. `OneAtATime` is violated for that reason (run `dcm_two`), and so would be
`RecordedIsInstalled` and `MarksCleared`. For one run none of them is
inductive alone: that a host that is recorded as up to date has the data installed depends on
what the first loop left on it, on the file not changing meanwhile, and on the times in the tables.
The invariant orders those times (`TimeInv`: what was generated last is due everywhere
until it is recorded), says which version the file has and the run is sending (`OutInv`), which
hosts have been sent it when a loop has passed them (`SentInv`: of a replicated service every
host, before the second loop starts), and, as long as no run has died, which run a mark is of
(`MarkInv`). From `Invariance` follow `RecordedAlwaysInstalled`, `MarksAlwaysCleared` and the
action property `SentAlwaysFirst`.

**Imembers and Moirad** (any finite set of lists, any other members, any size of the arrays, any
numbers of queries, waiting updates and faults). `Flattened` compares the counts with the walks
over direct rows, and nothing in the code counts walks, so the invariant has the local form of
it: each count is the number of ways over the first direct row (`CountsWays`), and no list is
in itself (`InNoLoop`); together `RightTable`, as long as no delete has passed over rows. A query
adds to the rows, or takes from them, the product of the ways to the list and the ways from the
member (`ChangedBy`), and `ChangeCounts` shows that this is what a direct row more or less
means for `CountsWays`; the loop check keeps the list itself out of the product. A delete
cuts counts off at 0 and drops those rows: `CountsAreNat` shows that none would fall below, so
that nothing is cut off. That, and that the counts are those of `Walks` (`RightIsFlattened`), is by
induction over the number of lists that are in a list, which falls along direct rows
(`BelowLess`) because no list is in itself.
For the other system, the invariant says that no query leaves an update in `incremental_sq`,
that a query has one update for a row (`OneEach`), and for each row that the last update that
waits for it, or if none waits the one that is under way, says what the table says, or else
the other system has it or the row is one of those known to have failed, been lost or be late
(`FollowsInv`). `PutBehind` and `TakenFrom` say what the queue says of a row after a commit and
after `next_incremental`. From `MoiradInvariance` follow `MoiradTypeCorrect`, `AlwaysFlattened` and
`AlwaysFollowsTable`.

The sums of `Imembers` and the turns of `aread` are recursive functions, and the library's
theorems on induction take an operator, which the provers cannot instantiate. Induction is done
over sets instead: `Counting` (a set with 0 in it, and with every number its successor, has all
numbers) and `Building` (the same for the subsets of a finite set) follow from the
well-foundedness of `<`. For each recursive function it is shown that one exists (`SumExists`,
`WalksExist`, in `AreadGives`), and that any two agree, or that any one has the values that are
wanted.

**Attachtab** (any finite set of processes, any bounds). `GuardedByEntry` speaks of
processes at work only; the invariant adds who has which lock at which step (`LockInv`,
`TabInv`), where the entry's name leads while the table's lock is held (`PathInv`), that a file
in use is the one the name leads to and no new one waits to be locked (`UseInv`), and what a
process knows of the entry and the mount between reading and writing it (`AttachedInv`,
`ViewInv`). From it follow `TypeCorrect` and `EntryGuards`.

Only model-checked: the liveness properties (`RetrieveEnds`, `CallsEnd`, `ExpungeEnds`,
`Retried`), since fairness and `ENABLED` are out of the prover's reach. Every other property of a
passing run is proved. Of overlapping runs of `Dcm` nothing is proved but their types: the other
properties do not hold of them.

## 5. Not modelled, and the plan

Not modelled: see the components with that status in `PROJECT.json`. The repository is some
hundreds of independent programs; most of its lines are user interfaces (xdsc, Xj, the
Moira clients), tables and translations (Moira's queries in SQL, the programs that pass
accounts on to Active Directory), and single-purpose commands, which keep no state that
outlives a call or leave it to a database or a file system. The modules cover the places
where processes share state that the code itself has to keep right, a small share of the
lines.

Within the parts that are modelled: texts, Zephyr notices, byte swapping, the forward
file, short writes, a crash inside `aclose`, two expunge programs at once; in Moira
authentication, access checks of queries, several services, changes of a list's own flags,
what the incremental programs do besides setting one membership; in the locker
library keep-mount, locked lockers, cleaning of owners, MUL lockers, and the directories
above a mountpoint. `moira/dbck/members.pc`, which would repair the table of members, is not
modelled: it cannot work as it stands (`fix_members` reads a queue that is never set).

The plan, most important behaviour first:

1. *(done)* `MeetingOps`, `Meeting`, `Conference`, with proofs; `Atom`, `AtomicFile`; `Expunge`.
2. *(done)* `Recover`; `Acl`, `Access`; `UpdateServer`, `Dcm`; `Imembers`, `Moirad`; `Attachtab`.
3. *(done)* Theorems: `Meeting`, `Atom`, `Expunge`, `Recover`, `Acl`, `Dcm`, `Moirad`, `Attachtab`.
4. A composition of `Meeting` and `Atom`, in which a write of one link fails or a reader
   without a lock meets an `aclose`.
5. The mountpoint directories of the locker library (`locker/mountpoint.c`), larvnetd's timers
   and late answers, and the USP block protocol of discuss.
