# Verification of bigfred-shared-daemon

TLA+ models of the crate `bigfred-shared-daemon`, the TLC runs that check them
and TLAPS proofs about them. Source paths below are relative to
`rust/crates/bigfred-shared-daemon/src/`.

## The system

The crate is the runtime that BigFred OS daemons share: a control socket with
one live listener per daemon, length-prefixed JSON requests on it, and a
configuration that is read again when its files change.

| Component | State | Operations | What is hard |
|---|---|---|---|
| `ipc/bind.rs` | the socket path in the file system, the listening descriptor | `bind`, `claim`, `apply_socket_perms`, `chown_socket` | several processes, each system call a step; crashes; restarts |
| `ipc/server.rs`, `serve_listener` | atomic client counter, kernel backlog, handler threads | accept, Busy reject, spawn, release | counter shared by acceptor and handlers; panics; accept errors |
| `ipc/server.rs`, `handle_conn`, `dispatch_one` | position in the byte stream, request in progress | auth, read, dispatch, hooks, hang-up | EOF and errors at any point of a frame; pipelining; commands that read by themselves |
| `ipc/frame.rs` | none | read and write a frame | widths, limits, partial reads |
| `ipc/command.rs` | router table | register, look up; framed connection | duplicates |
| `ipc/auth.rs` | none | `Auth::allows` | empty lists, unknown users |
| `config/watch.rs` | attached flags, pending instant, notify's channel, stop flag | attach, late attach, debounce, reload, stop | time, events and polls in any order; directories that come and go |
| `config/mod.rs` | the live snapshot | `replace`, `with`, `try_reload` | several reloaders, failed loads |
| `config/json.rs` | the file on disk | `load`, seeding of defaults | other writers between the read and the write |
| `config/sighup.rs` | a flag | registration | none here |
| `datadir.rs` | an environment variable | resolution, joins, `set_root` | relative and empty values |

Interaction: `Server::bind` claims the socket and hands the listener to
`serve_listener`, which spawns one `handle_conn` per connection; that reads
frames through `Connection`, asks `Auth`, and dispatches through `Router`. The
probe of a second instance is a connection of the first one's accept loop. The
watcher thread tells the application (channel or callback) to run
`try_reload`, which loads with `JsonFile` and replaces the `Live` snapshot.

What makes each part correct: a live socket is never taken away and a leftover
never keeps a daemon out (bind); the cap holds, the counter is exact and nobody
waits for another client (accept loop); framing is kept, each request is
settled before the next and the client is told in order, a client that left is
let go (session); no change is lost and reloads wait for a pause (watcher); the snapshot is one that was whole
on disk, and in the end the last one (reload, loader).

## Modules

| Module | Models | Run by |
|---|---|---|
| `Singleton` | abstract: one listener, reachable until it closes | refinement target of `SocketBind` |
| `SocketBind` | `bind()` and `claim()` by several processes | `bind`, `bind_steal` |
| `SocketBindProofs` | theorems on `SocketBind` | tlapm |
| `AcceptLoop` | `serve_listener()` and the handler threads' slots | `accept_*`, `daemon` |
| `AcceptLoopProofs` | theorems on `AcceptLoop` | tlapm |
| `Auth` | `Auth::allows()` | `daemon` |
| `Daemon`, `MCDaemon` | composition: `AcceptLoop` with the sessions of its clients under a policy of `Auth` | `daemon` |
| `DaemonProofs` | theorems on `Daemon` | tlapm |
| `Session` | `handle_conn()`, `dispatch_one()`, reading of frames | `session_*` |
| `SessionProofs` | theorems on `Session` | tlapm |
| `Messages` | abstract: payloads arrive whole, in order, once | refinement target of `Frame` |
| `Frame`, `MCFrame` | `write_frame_bytes()` and `read_frame_bytes()`, byte by byte | `frame` |
| `FrameProofs` | theorems on `Frame`, the codec of the length and the refinement of `Messages` | tlapm |
| `PathFilter` | `is_relevant_path()`, `is_junk_name()` | `watch_*` |
| `ConfigWatch`, `MCWatch` | `watch_loop()` with file system, clock and application | `watch_*` |
| `ConfigWatchProofs` | theorems on `ConfigWatch` | tlapm |
| `ConfigReload` | `try_reload()`, `Live::replace()` and `JsonFile::load()` by several threads, with an operator | `reload` |
| `ConfigReloadProofs` | theorems on `ConfigReload` | tlapm |
| `DataDir`, `MCDataDir` | `resolve_root()`, `set_root()` and the derived paths | `datadir` |
| `DataDirProofs` | theorems on `DataDir` | tlapm |

**SocketBind.** `pc[p]` is the next system call of process `p` or how its
`bind()` returned; `path` is what the socket path names: nothing, a stale
socket, a regular file, a directory, or the inode of an open socket (then the
process that owns it). `Probe` is `connect`, `Unlink` is `remove_file`,
`BindSock` and `Listen` are the two halves of `UnixListener::bind`, `Chmod` and
`Chown` act by path as the code does. `IoError` is every `?` that returns an
error, dropping the listener; `Exit` is exit or crash after any step, or a
listener that is dropped because `serve_background()` cannot start its thread
or `serve()` returns. `serial` is chosen at the start and never changes: with it
a process starts only when no other is inside `bind()`, as under a supervisor
that runs one instance; without it starts may overlap.

**AcceptLoop.** `acc` is the acceptor's next step, `conn[c]` where the
connection of client `c` is. `Load`, `Add` and `Release` are the load,
`fetch_add` and `fetch_sub`. `HandlerPanic` unwinds past `fetch_sub`;
`AcceptorPanic` is `thread::spawn` (or the daemon's reject hook) panicking. A
client that is done connects again, so runs are unbounded. `leaked` is a
history variable: slots that nobody will give back. `capped` says whether there
is a cap; it is chosen at the start.

**Auth, Daemon.** `Allows` is the decision of `Auth::allows()`; what
`SO_PEERCRED` and the passwd database say of a client is a constant. `Daemon`
takes the actions of `AcceptLoop` as they are and puts a session in the place of
a running handler (`sess[c]`): check of the peer, wait for a request, execute,
read on or end. Clients send, leave and come back when they like; the probe of a
second instance is such a client. Frames, answers and modes are left to
`Session`. Every step of the accept loop's variables is one of its own actions,
so what is proved of `AcceptLoop` holds in the composition. A session that ends
by a panic (`Panics`) leaves its client idle and its slot lost (`leaked`).

**Frame.** One direction of a connection. `out` is what `write_all()` has still
to write of the current frame, `wire` the socket, `buf` and `need` the loop of
`read_exact()`. A `Push` or `Pull` is one `write(2)` or `read(2)` of any size.
The base and the length of the header are constants, so that a small instance
has lengths a header cannot say; `ToLE` saturates as the code does and divides
the length digit by digit, `FromLE` reads it back. A write that
fails inside a frame (`cut`) and a payload beyond the header make the writer
lose the framing (`broken`); what was sent before is still owed. The two ends
have limits of their own.

**Session.** A frame travels as a header part and a body part; a frame's kind
is what the server makes of it. `ReadHeader` and `ReadBody` are the two
`read_exact` calls, by the server or, for a command that calls
`conn.read_json()`, by the command. A command is the daemon's own code:
`Executing` it calls `Reply` and `ReadJson` in any order, up to `MaxCalls`
times, ignores or not what a read failed with, and then `ReturnsOk`,
`ReturnsErr` or `ReturnsHangup`, or `Panics`. A request may so have several
replies and an error after them; a panic unwinds the thread and its client gets
no word in either mode. `log` is what the client is told (replies and hooks),
`taken` the requests dispatched, `served` those whose command returned Ok,
`hung` that one returned Hangup. When a body is read as a header (`misread`) the
model stops following the bytes and takes the length to be too large.
Authentication may go either way here; `Daemon` has the decision the code takes.
What a command does to the raw `stream()`, and a hook that panics after it has
written, are left out.

**ConfigWatch.** The steps of `watch_loop` around `recv_timeout`;
`attach_pending` is one step per spec. Clocks (`age`, `wait`, `quiet`) stop at
the value they are compared with. `stale` is a history variable: a change under
a watch, or a late attach, that the application has not read yet; `cause` is one
that no reload has answered; `quiet` counts from the last relevant event the
thread took, the last late attach and the last reload. A `watch()` that fails
may leave the directory of a file behind that `create_dir_all()` made
(`AttachFails`). Which names are configuration of a spec is given
beside the filters (`Concerns`), so that the filters of `PathFilter` are checked
against it. A name is a record of what the filters look at. A file given by a
bare name (`Bare`) is never attached. Whether a file, a directory or a tree is watched
through its own directory or its parent is decided by `Target`, at the moment
of the attach, as in `watch_dir_for`.

**ConfigReload.** `disk` is what the file holds: nothing, an empty file,
something that does not parse, `T::default()` or a version of the operator's.
`Read` is `read_to_string` and the parser, with the seed's answer to a missing
file; `Create` and `Fill` are the two halves of `fs::write`, which meets
whatever the path names by then; `mine[r]` says that the path still names the
inode that `r` has opened. `Replace` is `Live::replace`. The only panic that
can poison the lock is one of the old value's destructor, inside the
assignment: it poisons the lock and ends its thread (`Unlock`). `due` and
`failed` record a change nobody has begun to load and a failed load; `held`,
`passed` and `raced` are history variables. A reload may begin at any time, and
does when one is due: that is what `ConfigWatch` shows of the watcher.

**DataDir.** One thread resolves, one variable per step, while others call
`set_root()`. A path is absolute or not, with components; an unset variable, the
empty string, a relative path and one that is not UTF-8 are told apart. `RootIn`
is the reference definition of the answer in one instant, `seen` what it gave
since the call began. The names a daemon passes to `etc_file()` and the others
are taken to be single relative components: a name that begins with `/` would
replace the root in `PathBuf::push`, and nothing in the code prevents it.

## Runs

| Run | Result | Shows |
|---|---|---|
| `bind` | pass | 3 processes, all leftovers, 2 failing calls, crashes anywhere. Starts one at a time: `SocketBind` implements `Singleton`; serving processes are reachable with their permissions; a probing process with no live peer gets to serve. Overlapping starts: only a process that probed before the socket listened can unlink it; the reachable inode has its permissions |
| `bind_steal` | violation | overlapping starts: a process that probed before another listened unlinks the other's socket once it listens, before its `bind()` has returned (`bind.rs:9` says never) |
| `daemon` | pass | 3 clients (root without a name in passwd, a user, one without credentials), 5 policies, cap 2 or none, one lost slot: exact counter, cap, every queued client answered, the slot of a client that left or is refused comes back; unless the policy is open to all, nobody without credentials, nobody nameless under a list of names and nobody at all under an empty closed list gets a request executed |
| `accept_busy` | violation | after a panic Busy is answered below the cap (`command.rs:33`) |
| `accept_ends` | violation | the loop does not end when the path disappears (`server.rs:130`) |
| `session` | pass | both modes, up to 3 frames of all kinds, commands with up to 2 replies or reads: framing; the client is told in order, with the server's own word about a request once and last; requests are settled before the next read; a handler that returns drops nobody silently; silent hang-up in persistent mode; end after EOF |
| `session_hangup` | violation | one-shot Hangup is followed by an error (`server.rs:36`) |
| `watch_reload` | pass | two files (one a bare name), a directory and a tree, names of 4 kinds, 2 file system events, 1 failing call: a reload comes a whole debounce after the last event, late attach and reload; no reload without a cause, nothing lost, files and trees attached, stop |
| `watch_late` | violation | a non-recursive directory is not late-attached (`watch.rs:120`; crate README line 16, which names drop-in trees: those are attached, a plain directory is not) |
| `reload` | pass | 2 reloaders, 3 seeds, 2 edits of any kind, 2 failing calls or panics: a live value was whole on disk or is the seed's default; an older one comes back only by a reload that was passed; the live value ends up at what the file holds |
| `frame` | pass | 3 writes of payloads of 0 to 4 bytes, headers up to 3, limits 2 to 4 at either end, a socket of 2 bytes: `Frame` implements `Messages`; EOF tells truly whether a frame was cut; the ends agree at the limit; what is written arrives |
| `datadir` | pass | every pair of values of the two variables, both policies, both rules, `set_root` at any time: one moment's answer, never below the working directory, `set_root` takes effect |

**Bounds.** Three processes let one steal from a second while a third probes;
two failing calls hit two steps of one `bind()`. Three clients with cap 2 and a
backlog of 1 give full, refused, queued and idle clients (two of each in the
accept runs, which have more). Three frames
give a misread after a command's own failed read and an answer after it; two
calls let a command reply twice, or reply and then read or fail. Two
file system events, beside the late attaches that failing calls cause, give two
bursts, a change during a reload, and a directory that comes and goes; a
debounce of two ticks
has an inside and an end. The idle poll is one tick: shorter than the debounce,
which makes polls fall inside it. Two reloaders and two edits let reloads pass
each other with a newer version; two faults let a load fail, or a thread die,
on a poisoned lock, and both threads die.

**Fairness.** Threads that run straight-line code are scheduled again (`WF` on
the step of a process, of the acceptor, of a handler, of the watcher); commands
return (`Session`); failing `accept` calls end (`AcceptLoop`); time passes and
the application takes its signals (`ConfigWatch`); a change is followed by a
reload, and an editor that truncated a file goes on to write it
(`ConfigReload`); a reader reads (`Frame`, nothing is assumed of its writer). In
`Daemon` the handlers are scheduled and commands return; clients need not do
anything. A failed load is not retried: nothing in the code does. Clients, handlers, the file
system, crashes and failures are never assumed to act. In `AcceptLoop` a
handler may run for ever.

**Deadlock** is checked in the bind, daemon, accept and datadir runs. A session
ends, a stream is closed, and a
watcher thread stops with the file system events used up, and reloaders may all
have died of panics, so those runs say `CHECK_DEADLOCK FALSE`.

Next to each operation the modules define the faulty variants (marked "Mutant")
that the checked properties are known to catch.

## Proofs

All proofs hold for every value of the constants that meets `ConstAssumption`.

`SocketBindProofs` (any number of processes, leftovers, failures):
`TypeCorrect`; `PermsAlways`, through `PermsInv`: the attributes on the inode
follow the `pc` of the process that owns it; `StealersProbedFirst`. For
`serial` starts the inductive `SerialInv` says that at most one process is inside
`bind()`, that none is listening behind its back once the probe is passed, and
that the path names the socket of whoever has one; from it `ServingReachable`
and `Refinement`: `Listen` is `Acquire`, closing is `Release`, every other step
stutters.

`AcceptLoopProofs` (any finite set of clients, any cap and backlog):
`CounterExact` is not inductive. `QueueInv` (the backlog lists queued
connections once each), `HandInv` (what the acceptor holds at each step) and
`CapInv` (the counter stays below the cap between load and add) make it so.
`CounterCorrect`, `CapCorrect` and `TypeCorrect` follow; `BusyHonest` shows
that without lost slots Busy means that the cap is reached, so panics are the
only cause of the violation in `accept_busy`.

`DaemonProofs` (any clients, peers and policies that meet `PeerAssumption` and
`PolicyAssumption`): every step of the daemon is a step of the accept loop or
leaves it alone (`StepRefines`, `LoopInside`), which carries over
`DaemonCounter` and `DaemonCap`. `DTypeCorrect` is inductive relative to
`TypeOK`. `OnlyAllowedExecute` (`StrangersStayOut`) needs `AllowedInv`, that a
session past the check belongs to an allowed peer, and the lemma `AllowedPeer`
about `Allows`.

`SessionProofs` (any number of frames of all kinds, both modes). `StreamInv`
describes what the client has sent and nobody has read: headers and bodies take
turns and frames keep their order. From it `AlignInv`, which says for each
phase of the handler whether a header or a body comes next; `StaysAligned` is
one of its conjuncts and not inductive without the others (`AlignedCorrect`).
`OrderInv` (what is logged is about requests up to the current one, only replies
about it while it is not settled, and what is unread comes after it) gives
`OrderCorrect`; `SettledInv` on top of it, which follows a request from `taken`
to `served` or to a word of the hooks, `NoneSkippedCorrect` and
`NoSilentDropCorrect`; `HangupInv` gives
`HangupCorrect`. `TypeCorrect` needs `AlignInv` too: that a frame beyond the
limit is never dispatched depends on where the reader stands.

`FrameProofs` (any radix of at least 2, header length, limits, payloads, socket
buffer and number of writes). `RoundTrip`: `FromLE` undoes `ToLE` up to
`HeaderMax`. Both are recursive functions over the digits; the induction goes
through the set of digits for which the claim holds (`SetInduction`), so that
no operator is passed to the prover. `FrameInv` is the framing of the stream:
there are places `pos[i]` such that the frames of the payloads that were sent
and not returned lie between them one after the other, and behind the last one,
until the framing is lost, the part of the current frame that was written. It
is what a reader with any amount of buffered bytes relies on; a header that is
complete then says the length of its payload (`HeaderSays`, by `RoundTrip`),
and a payload that is complete is the next one that was sent (`Returned`).
`LinkCorrect` is the refinement: the write that ends a frame is `Send`, a
`Write` that loses the framing `Break`, a completed read `Receive`, every other
step stutters. `ReadableCorrect`, `EofCorrect` and `TypeCorrect` follow from the
same invariant.

`ConfigWatchProofs` (any specs, debounce, poll interval, events and failures).
`DebounceCorrect` (`DebounceInv`: "pending" is no older than the last relevant
event, late attach or reload, except inside the round that will set it again)
and `StopCorrect` (`StopInv`) hold whatever the filters are. `CauseCorrect`
assumes `FiltersSound`, that a filter lets nothing through that is nobody's
configuration, and `NothingForgottenCorrect` assumes `FiltersComplete`, that it
lets its own spec's through. Both are about the filters that an application
gives, not about this code, and the filters of `MCWatch` have both. `NothingForgotten`
is the safety that `ChangeIsReloaded` rests on: an unread change is always a
relevant event in the channel, a round of attaching that will set "pending",
"pending" itself or a signal, so that no step drops it.

`ConfigReloadProofs` (any threads, any number of edits and faults, at least one
edit). `GenuineInv` follows a value from the file to `Live` (`GenuineCorrect`);
`VersionInv` orders the versions in the file, in hand and live
(`RegressCorrect`). `QuietCorrect` is the safety part of `Converges`: when
nobody is reloading, a reload has begun since the last change, none failed and
none was passed, the live value is what the file holds. `FreshInv` carries it:
some thread is bringing the file's version, or it is live and every thread that
could replace it is known to have been passed.

`DataDirProofs` (any values of the variables, any names that are single
relative components). `MomentCorrect`: the
two reads of `resolve_root()` give the answer of one moment because
`set_root()` writes only the variable that is read last (`MomentInv`).
`CwdCorrect` needs what `Join` returns for two or three parts, which is proved
by unfolding its recursive function. `StickCorrect` uses `StickInv`: `DATA_DIR`
is what `set_root()` stored last.

Each inductive invariant was checked with TLC on the run's instance before it
was proved.

With these every invariant, action property and refinement that a run checks is
also a theorem. Only model-checked is liveness (`StaleRecovered`,
`QueuedIsAnswered`, `SlotsComeBack`, `GoneClientEndsSession`, `SentArrives`,
`ChangeIsReloaded`, `StopEndsThread`, `FilesAndTreesAttach`, `Converges`):
fairness and ENABLED are out of reach of the prover. The runs that expect a
violation are counterexamples and have nothing to prove. Nothing is proved of
the filters in `PathFilter` beside what `ConfigWatch` needs of them.

## Plan

1. Proofs: for the remaining liveness properties the safety they rest on, as
   `NothingForgotten` and `QuietIsCurrent` are for two of them: a session whose
   client has left never waits (`GoneClientEndsSession`), the acceptor never
   waits with a queued client (`QueuedIsAnswered`), a reader short of a frame
   that was sent has bytes to read (`SentArrives`).
2. `ConfigReload` composed with `ConfigWatch`, so that the reload after a
   change is no assumption.

## Not modelled

Message texts, logging and the pid in `AlreadyRunning`. JSON parsing, inotify,
`getpwuid` and the signal handler are libraries. Blocking writes: in `Session`
and `Daemon` replies are assumed to fit the socket buffer (`Frame` lets a writer
wait for ever). Overflow of inotify's own queue, which notify reports as an event
without paths. Two specs of one directory, whose watches notify merges. Changes
that never pause: the debounce then puts the reload off without end, and the
runs have finitely many changes. `Router::add` runs once, before a server
exists, on a value nobody shares: a duplicate name is an error and that is all.
`sighup.rs` is one registration call; the flag is polled by the daemons.
