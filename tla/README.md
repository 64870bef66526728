# A TLA+ model of airgap

airgap runs a program behind FUSE overlays of its working and home directories.
The overlays show redacted views of secret files and merge the program's edits
back into the real ones; a directory gate can ask the user before a file is
opened; with `--mitm` the program also gets a network namespace of its own whose
traffic a user-space TCP/IP stack hands to an in-process proxy.

This directory holds the modules that model it, the TLC configurations that
check them, and TLAPS proofs. `PROJECT.json` maps each definition to the source
lines it stands for, and lists runs, mutants, findings, hazards and theorems.

    tlc -workers 2 -config MCOverlay.cfg MCOverlay          # one run
    tlapm OverlayProofs.tla                                 # one module's proofs

## Inventory

| Component | State | Operations | What makes it correct |
|---|---|---|---|
| Redaction handlers (`redact.rs`) | none | `detect`, `redact`, `merge` for `.env`, `.npmrc`, private keys, `mitm.yaml` | the view hides every value; a placeholder restores exactly the value it hid; a malformed side is an error |
| Inode table (`fs.rs`) | `next`, `by_ino`, `by_path` | `new`, `intern`, `forget_path`, `rename` | a path has one number, and that number leads back to the path |
| Overlay, files (`fs.rs`) | handle table with served views, pending buffers and descriptors | `lookup`, `getattr`, `setattr`, `open`, `create`, `read`, `write`, `flush`, `fsync`, `release`, `unlink`, `rename`, `link` | never the raw bytes, never a corrupted original, no lost value |
| Overlay, directories (`fs.rs`) | the real tree, the inode table | `lookup`, `getattr`, `readdir`, `readlink`, `mkdir`, `rmdir`, `symlink`, `link`, `rename` of a directory | a number stands for one object; a link to a secret shows it redacted; inspecting a link does not block the backend |
| Directory gate (`profiles/npm.rs`) | allowed and denied paths behind a mutex | `allow` | one question at a time; a file is decided once |
| Profiles (`profiles/*`) | none | `resolve`, `by_name`, the policy and pre-approved paths of a profile | every overlay of a run applies the policy the command line calls for |
| Stack loop (`mitm/stack.rs`) | the socket set, listeners, connections, wanted ports, stashed chunks | `run`, `ensure_listeners`, `promote_listeners`, `service_conns`, `push_out` | a new port is not refused; every accepted connection is served; bytes in order, ends of stream in place, connections reaped |
| TUN (`mitm/tun.rs`) | a descriptor, the inbox | `drain`, `receive`, `syn_dest_port` | no packet is left behind while the loop sleeps |
| DNS (`mitm/dns.rs`) | a socket | `service`, `build_response` | exactly the well-formed questions are answered, with the stack's address |
| Byte stream (`mitm/stream.rs`) | two bounded channels, a `Notify`, the unread remainder | `poll_read`, `poll_write`, `poll_shutdown`, drop | no lost wake-up |
| Proxy handler (`mitm/proxy.rs`, `mitm/config.rs`) | per-connection buffers | reading and rewriting a request head, connecting, forwarding, splicing | no request of a ruled host escapes its rule; nothing is lost or repeated at the cut between head and rest |
| Certificates (`mitm/cert.rs`) | a cache | `mint`, `resolve` | one certificate per name |
| MitM lifecycle (`mitm.rs`, `mitm/netns.rs`) | artifact directory, readiness channel, threads | `setup`, `start_netstack`, `start_proxy`, child hook, `Drop` | start-up ends one way or the other; nothing is left behind |
| Launcher (`main.rs`) | mounted sessions, targets | `run`, `overlay_targets`, `dedup_targets`, `enter_namespaces`, `spawn_and_wait` | the child sees overlays only |
| Logging (`logging.rs`) | a sink | | output only |

How they interact. The kernel calls each overlay's single-threaded backend. A
backend calls the redaction handlers and the inode table, makes system calls on
the real files, and may call the gate, which all backends share. The stack
thread and the proxy thread share, per connection, two channels and one
`Notify`. The launcher starts the threads, waits for the stack on a channel of
one message, mounts the overlays, spawns the child, and undoes everything by
dropping it.

What is hard: host processes change the real files between two system calls of
one request; several handles on one file hold several pending buffers; a system
call can fail in the middle of a write-back; inode numbers and handles outlive
the names they came from, and a renamed directory leaves them behind; resolving a
path inside a request may send the kernel back to a backend that is busy; several backends meet at the gate's lock while a
question is on the terminal; loop and proxy run in parallel over queues that
fill up, with a wake-up permit and a timer; packets come in while the loop clears
the readiness it was told of; a request head is cut into reads anywhere, with the
next request behind it; start-up takes a dozen steps in two
threads, each of which can fail. `PROJECT.json` lists these, at their lines, as
hazards.

## Modules

| Module | Models | Uses |
|---|---|---|
| `Redact` | `redact.rs`: `detect`, `redact`, `merge`, `format_value` on texts made of lines | |
| `Buffer` | `fs.rs`: `write_at`, the resize of a pending buffer, `Option` buffers | `Redact` |
| `SecretFile` | abstract: one mergeable secret file edited through several handles, with atomic saves | `Buffer` |
| `InodeTable` | `fs.rs`: `InodeTable` | |
| `Overlay` | `fs.rs`: the file operations, system call by system call | `Buffer`, `InodeTable` |
| `OverlayImplements` | `Overlay` implements `SecretFile` | `Overlay`, instance of `SecretFile` |
| `Paths` | `fs.rs`: `lexically_normalize`, `symlink_target_within_overlay`; path resolution by the kernel (external) | |
| `Namespace` | `fs.rs`: the directory operations on a tree with links, for one or more overlays | `Paths`, `InodeTable` |
| `AtomicGate` | abstract: a gate that decides each file once and atomically | |
| `GateState` | `npm.rs`: the state of `DirGate` and of the threads that call it, and what the gate promises of it | instance of `AtomicGate` |
| `Gate` | `npm.rs`: `DirGate::allow` step by step, with its mutex and the question | `GateState` |
| `NetConn` | `stack.rs` and `stream.rs` for one connection, byte by byte | |
| `Picks` | the elements of a sequence at given places, and lists of entries without duplicates: what `retain`, `filter` and loops with an early `continue` leave | |
| `Dns` | `dns.rs`: `build_response`, and what a query deserves | |
| `Listeners` | `stack.rs` and `tun.rs` for all sockets, `dns.rs` `service` | `Dns`, `Picks` |
| `RequestHead` | `proxy.rs`: `find_headers_end`, `rewrite_head`; `config.rs`: matching a rule | `Picks` |
| `Proxy` | `proxy.rs`: `handle_conn`; `cert.rs`: `mint` and its cache | `RequestHead` |
| `Profiles` | `profiles/*`: which profile and policy a command line leads to | |
| `Launch` | `main.rs` `main` and `run`, `mitm.rs`, the readiness part of `netstack_thread` | `Profiles`, `Picks` |
| `LaunchProofs`, `ListenersProofs`, `NamespaceProofs`, `NetConnProofs`, `OverlayProofs`, `ProxyProofs` | theorems | the modules they name, `PicksProofs` for four of them |
| `FileProofs` | theorems about one secret file and about the gate before it | `SecretFile`, `GateState`, instance of `Gate` |
| `PicksProofs` | lemmas about `Picks` | `Picks` |
| `MC*` | instances for TLC | |

Texts. A file is a sequence of lines. A line is a key with a value, or a mark:
junk that only some parsers accept, a line of NUL bytes left by a resize, and
the begin, body and end lines of a private key. Keys and values are model
values; the constants say which keys are secret, how npm normalises a key, which
values `format_value` puts between quotes (`Quoted`), which hold a dollar sign
(`Dollar`) and which a backslash (`Backslash`). Formatting and parsing a value is
not the identity: what a saved line reads as is what the parser makes of what
`format_value` wrote. Between quotes it escapes a backslash and the parser undoes
that; in a bare value it escapes nothing, and a dollar sign it never escapes. What
the parser reads from such a line (`Unescaped`) is the external function `Reparsed`:
another value (`\\`, `\$` and `\n` stand for one character, a variable is
replaced by what it is set to) or an error (any other escape). It is fixed for each
value of a run, although an expansion depends on the environment.

`Overlay`. `dir` and `data` are the real directory and the real files, including
files that only a descriptor still holds; `inodes` and `handles` are the
backend's tables. `op` is the request in progress: `open` has a step for
`view_for` and one for the second `openat`; a write-back (`persist`, for flush,
fsync and release) has one for taking the buffer and reading the original, one
for merging and redacting, one for `ftruncate`, one for the write; a `setattr`
without a handle has one for `view_for` and one for the second `openat` with its
`ftruncate` (`SetattrSize`). All other
requests change the real files with one system call and are one step. Host
actions (write in place, replace, remove) interleave with all of them. With
`DiskMayFail`, each system call that can fail has a disjunct in which it does,
and a failing write leaves any prefix. The kernel side is external: it uses
numbers and handles it was given, looks a name up before it unlinks or renames
it, and creates a name after a failed lookup.

`Paths` and `Namespace`. A path is a sequence of components, the real tree a
function from paths to directories, files, files with a handler, and links.
Each request is one step. Whenever the code makes the kernel resolve a path
(`openat` with a link in it, `fstatat` following a link), `Resolve` walks the
tree as the kernel does; where the walk enters a mounted overlay it needs a
lookup from that overlay's backend. If that backend is busy, which the one that
asks always is, the request never ends and the backend is put into `stuck`, with the
numbers and the place the request was about; if
it is free, its own `attr` of the link it finds is part of the walk. `given`
remembers for each number the objects the kernel was given it for, and `stale`
the numbers that a rename left with a path that is not theirs. Such a number can
lead a request through a link that has taken the place of a directory, so that the
request acts on one name and the table records another: `misled` is set then, and
no property says anything of what follows. `Resolve` ends as "lost" after
`MaxSteps` steps, where the kernel ends with `ELOOP`; a walk that is lost is an
error to the request. `readdir` may find the entries in any order. The assumptions:
no entry is called "." or "..", a directory has finitely many possible names, and
what two paths show as one object is one node.

`Gate`. One thread per overlay: `allow` takes the lock, checks the lists, asks
and records the answer while it still has the lock, and returns. `prompts`
counts questions per file.

`NetConn`. The loop's pass is a sequence of steps (ingress, promotion of the
listener, service of the connection in the order of `service_conns`, poll,
sleep), each of them one operation on a channel or on the socket, and the proxy
runs between them. The socket and the child's TCP are external and modelled by
the states and calls `stack.rs` uses: `may_recv`, `can_send`, `recv`,
`send_slice`, `close`, `abort`. Byte *i* of a direction is the number *i*, so
order and loss are visible. `abort` follows smoltcp: the socket is Closed at
once, and its reset goes out at the next poll.

`Dns` and `Listeners`. A query is its header fields and a sequence of bytes;
record types and classes are single bytes. `Listeners` has the pass of the loop
as drain, poll (packet by packet, in the order of the inbox), promotion, service
and the select, with the kernel putting SYNs, resets and queries on the TUN at
any time. Handles of removed sockets are given out again, the smallest first, as
smoltcp's `SocketSet` does. What happens on a connection after the handshake is
`NetConn`'s matter.

`RequestHead` and `Proxy`. A byte stream is a sequence of tokens (request line,
header, something that does not parse, line end), and a read returns any number
of them up to `CHUNK`. Header names, host values and patterns are compared
through the functions that say what trimming, lower-casing and cutting off a
port make of them. The client pipelines, reuses its connection until a response
says close, and repeats on a new connection what was not answered; a request may
have a body, which is any tokens. The upstream acts on what looks like a head to it,
in order; one that obeys (`plan.obeys`) closes after a head that says close and acts
on nothing behind it, as RFC 9112 (9.6) wants, one that ignores close goes on to
the bytes that follow. The network, the handshake, the minter and every write to the
upstream may fail; what a failed write left behind is still acted on.

`Profiles` and `Launch`. `selected` is `main`'s choice of the profile; `pc` walks
through `run`; the netstack thread has its own steps, and the proxy thread one: it
builds its runtime after `start_proxy` has returned, or panics (`proxy = "dead"`)
with nobody to notice.
`Fail` is the way of an error through `?` to `main`, with the drops it causes.
Paths are sequences of components, and `starts_with` compares components.

## Runs

| Run | Checks | Bounds |
|---|---|---|
| `secretfile` | `ViewFollowsFile`, `UnseenValuesSurvive`, `StaysReadable` | originals of up to two lines over three keys (two of which differ in case only) with duplicates, buffers of three lines: the first size at which a duplicate, another key and a resize gap meet; plain values, one that the parser rejects when written bare (`bs`), one that it reads as another (`esc`), one that is quoted (`bs q`) and one that it expands (`dollar`) |
| `secretfile_escapes` | one documented statement, violated | the same instance; see Findings |
| `overlay` | `TypeOK`, `NoSecretServed`, `TableConsistent`, `HandleFollowsInode` | a `.env` and a private key, handles one after the other, two files at a time, three numbers, one host change between any two system calls, failing system calls, a gate that may refuse: a name can be unlinked, made again, linked and renamed over under an open handle. `mitm.yaml` is left to the proofs |
| `overlay_implements` | `HandlerErrorKeepsOriginal`, `ImplementsSecretFile` | two handles open at a time on one `.env`, buffers of two lines; no host changes and no failures, which break the atomicity of a save (see Findings) |
| `namespace` | `BackendNeverWaits`, `NumbersKeepTheirObject`, `LinkedSecretIsServed` | one overlay `/m` beside a plain directory `/x` with a secret; two names, two levels, four numbers, six objects; links `../x/a` and `../x` (out of the overlay), `/m/b` (back into it), `b/a` (on below what may be a link) and `b/../../x` (out by way of what may be a link), twelve steps of a walk (the longest takes fewer unless it is a cycle); states after `misled` are cut off by the constraint `NotMisled`: chains of links, a link moved to another level, a directory renamed over another, with entries below it, all happen |
| `gate` | `OneQuestion`, `DecidedOnce`, `CallsReturn`, `ImplementsAtomicGate` | two overlays, three calls each, two files to ask about and one pre-approved |
| `netconn` | `UpInOrder`, `EofIsEnd`, `DownInOrder`, `NoLostWakeup`, `BytesReachProxy`, `BytesReachChild`, `ClosedIsReaped` | channels of one chunk, buffers of one and two bytes, two bytes each way: every queue fills, every push and read can be partial |
| `listeners` | `OwnedOnce`, `AcceptedIsServed`, `SleepsOnlyWhenDrained`, `DnsAnswersDeserved`, `RefusedOnlyBeyondBacklog`, `EveryPacketHandled` | two connections, to 443 or to a port never dialled before, a backlog of one that the second one overflows, one DNS query in the loop and every query of up to seven bytes over four byte values against the reference, one failing read of the TUN |
| `proxy` | `UpstreamGetsStream`, `HeadRewrittenByName`, `EveryRequestRewritten`, `HeadLimit`, `OneCertificate`, `EveryExchangeEnds` | up to three requests per plan for ruled, unruled and malformed hosts, over TLS or plain, with and without a name, one with a body that reads like a request; an upstream that obeys close, and for a plan of two pipelined requests one that ignores it; limit 7 and reads of up to 3 tokens, so that a head ends before, at and after the limit; three headers fit; two failures |
| `launch` | `ChildIsContained`, `TargetsNeverNest`, `CleansUp`, `PolicyApplied`, `Ends` | four directories in every nesting, one of them named `node_modules`; eleven command lines (known, unknown and path-qualified programs, each flag); a failure at any step of `run` and of both threads |
| `overlay_diskfail`, `namespace_two` | one documented statement each, violated | small instances; see Findings |

`VIEW` in the overlay runs leaves out `reply`, which no later step reads; the
action properties that mention it speak of the step that sets it.
`CHECK_DEADLOCK FALSE` is for the gate, whose calls are bounded, the launcher,
which ends, and `namespace`, where no request may be possible once the numbers
are used up; a backend that waits for ever is not a deadlock of TLC there but a
member of `stuck`. Each property has a mutant of the code in its module (an
operator whose comment begins "Mutant of") under which its run fails.

### Fairness

- Gate: a thread that has the lock goes on, the user answers, and a thread that
  waits takes the lock when it stays free. `std::sync::Mutex` promises no order
  among waiters, so only weak fairness is assumed; it suffices because each
  overlay makes a bounded number of calls. Starting a call is not fair.
- NetConn: the loop runs and its timer fires (`run` sleeps for
  its poll delay, or 100 ms), the proxy keeps reading, `notify_one` follows the send it belongs to,
  the child's kernel acknowledges, retransmits and takes bytes, and TimeWait
  expires. Nothing makes the child or the proxy write, shut down or close:
  `ClosedIsReaped` assumes that they have.
- Listeners: the loop runs, and its timer fires. The child need not do anything.
  `EveryPacketHandled` rests on the timeout after a read of the TUN that failed,
  and on nothing else of the select.
- Proxy: the runtime polls a task that can go on; the client and the upstream do
  in the end what they can do (send the rest of a request, read, close, answer).
  Without the latter an idle upstream holds the splice for ever: `handle_conn`
  has no timeout.
- Launch: all three threads make progress and the child ends. `Ends` fails as soon as
  a failing netstack thread does not report or close the readiness channel; nothing
  depends on the proxy thread, since `run` does not wait for it.

## Proofs

Checked by TLAPS for all values of the constants that satisfy the assumptions
named in the modules (`ASSUME`), plus the hypotheses given below. Every safety
property that a passing run checks has a theorem, except `DnsAnswersDeserved`.
`PROJECT.json` lists theorem and property side by side.

### Along which argument

`FileProofs`, the gate: `GateDecidesOnce`, `GateAsksOneQuestion`,
`GateImplementsAtomicGate`. The module extends `SecretFile` and `GateState` and has
the steps of `Gate` as an instance `G`, since both components have an `Init`. The
inductive invariant says that only the holder of
the lock is between check and answer (`HolderInside`), that the file being asked
about is undecided and was never asked about (`AskedIsOpen`), and that a file
asked about before is decided (`AskedIsDecided`). `DecidedOnce` alone is not
inductive: it needs the last two. The refinement maps a file to the verdict the
lists give it. `GateAssumption`: no two files asked about are one inside the
other (files are leaves).

`OverlayProofs`, for host changes at any point, any failure and any number of
handles: `TableStaysConsistent`, `TypeCorrect`, `SecretsStayHidden`. The module
starts with what `redact`, `merge` and the operations of the inode table return.
The invariant `Inv` has five parts: files are texts, the inode table is typed and
consistent, every handle is typed and safe, the request in progress carries data
that fit its handle, with a safe view (`OpGood`), and the bookkeeping.
`NoSecretServed` is not inductive without `OpGood`, since the views of a half-done
open or write-back become served views later. There is one lemma per action. With
further hypotheses:

- `RefusedSaveKeepsOriginal`, with no host process at work (`MaxHost = 0`), and
  `HandlesFollowTheirInode`, whose property is about the states before the first
  host change (`host = 0`); failures included. The first adds `OriginalRead`: until
  the merge the file holds what `persist` read. The second adds `Follow`: a
  name with a number exists, and a handle was opened through a number that will not
  be given out again, and is on the file of the name as long as number and name lead
  to each other. A host process that
  replaces a file takes the name from under a number without a request, so the
  restriction is needed.
- `OverlayImplementsSecretFile`, when all names have one mergeable kind, redaction
  is on, the disk does not fail and no host process is at work (`OneKind`,
  `MaxHost = 0`). The editors of `SecretFile` are the handles open on file 1, and a
  save happens at the step that writes. `Exact` is what the mapping needs: a
  half-done open has the view of the file as it is, and a half-done write-back has
  the original, the merge of it and the redaction of that. It is model-checked in
  the instance of `overlay_implements` as well. A failing write and a host change
  in the middle of a save are just what breaks this (Findings).

`FileProofs`, the file: `FileStaysReadable` without hypotheses. `ServedViewFollowsFile`
for one editor, by `Fresh`; with two the view of the other one is stale after a
save. `UnseenValuesAreKept` without hypotheses, for any number of editors and
whatever the parser makes of an unescaped value. Its property exempts exactly the
values of a `.env` file that `Reparsed` does not leave as they are (`Altered`),
which an unedited save does change (Findings); an `.npmrc` value is never exempt.
It rests on lemmas on the last line of a key before and after a merge, for
duplicated keys too.

`NamespaceProofs`, for any tree, any names and bounds:

- `NamespaceKeepsNumbers`, for any links and any number of overlays. The invariant
  `Held` says that the tree is well formed and shows an object as one node
  (`SameObject`), that every link is one of the program's or was there at the start
  (`Origin`), and that every number the kernel has which is not stale stands for one
  object, with a path that the table leads back from and where that object is, of
  the kind the kernel was told (`Kept`, `Stands`, `Truth`). With it the directory of
  a number that is not stale is reached without a link (`DirIsDirect`), so a request
  changes the tree where the table says. Each request is a lemma; `Moved` takes
  most of them: what a rename makes of paths, nodes and numbers.
- `NamespaceNeverWaits`, under `Alone`: one overlay, no entry with the name of a
  directory of the root, and no link beside the overlay that mentions it. Nothing is
  assumed of the targets: the program chooses them freely, and the property says for
  which links a request about them never waits, the ones whose target is `Straight`
  (climbs, then goes down: "../../x/a", "/m/b", "b"). `WithinMeans` says exactly which
  of these `symlink_target_within_overlay` lets pass; a walk behind another one leaves the
  overlay and never comes back (`Leaving`, `Nearing`). The invariant adds `Trapped`:
  whoever waits used a stale number, or asked about a link that is not straight, and
  that link stays where it is, since its backend answers no request any more.
- `NamespaceServesSecrets`, for any number of overlays and any targets, with the same
  two conditions on the root and on the links beside the overlays. The property is
  about the states in which no target is unstraight or goes on below a link
  (`Untangled`); the program may enter and leave these as it likes, and the proof
  needs no history of the targets. What the backend sees when it inspects such a link
  is what the kernel would come to (`Settles`, from `OutsideSettles`: outside of the
  overlays a walk comes to the same end, whoever makes it and however many steps it
  has left), so a link that would bring the kernel to a secret has been shown as a
  file before.

A statement about the walk is proved for each of its steps (`Walked`) and holds of
the whole walk by `WalkInductionOn`, a least counterexample on the number of steps.
The instance of the run satisfies these conditions. What the properties exempt is
what the code gets wrong: the test is on the letters of a target, and without the
exemption the run of `namespace` fails (Findings).

`NetConnProofs`, for channels, chunks and buffers of any size and any number of
bytes: `UpwardOrder`, `EofIsTrue`, `DownwardOrder`, `NoSleepingOnWork`. The
invariant `Good` follows the bytes of each direction through every place they can
be in: `Upward` from the wire to what the proxy has read, `Downward` from the
channel over the stash and the tx buffer to the child, with the acknowledgements on
their way back. `EofIsEnd` needs `Ending` (no byte behind a FIN, no end of the
stream seen while bytes are on the wire), and our FIN needs `Closing` (`sent_fin`
only with the channel and the stash empty). `Wakeful` is `NoLostWakeup` from the
service of the channel on, not only in the sleep.

`ListenersProofs`, for any ports, connections, queries, failed reads and backlog:
`Ownership`, `Promotion`, `NoForgottenPackets`, `Refusals`. `OwnedOnce` and
`AcceptedIsServed` are parts of the invariant; `Announced` is
`SleepsOnlyWhenDrained` from the drain on; `Backlog` counts: in a pass, the SYNs
taken for a wanted port and the sockets still listening on it make a full backlog.
`ensure_listeners` is proved to reach that for every port, whatever is listening
before.

`ProxyProofs`, for any requests, rules, limit and size of reads:
`StreamReachesUpstream`, `HeadersFollowTheRule`, `LimitIsKept`,
`CertificateIsKept`. `Stages` says, for each stage of `handle_conn`, where the
client's bytes are and that put together they are what the client said; below it
are lemmas on `find_headers_end` (a head that is found stays the same when more
bytes come) and on `rewrite_head` (by name, what is kept, dropped and set).
`NoRequestEscapes`, for any requests with any bodies and for rules that do not set
`Connection`, as its property says: an obeying upstream that is still open has acted
on nothing (`Once`), which is what the forced `Connection: close` is for, and the
first head on a connection is the rewritten one whether the upstream obeys or not.
Nothing follows for the later heads of an upstream that ignores close (Findings).

`LaunchProofs`: `DedupTargets` (for any list of directories no target lies below
another, and every directory lies below a target), `Containment`, `NoNesting`,
`CleanExit`, `PolicyIsApplied`, for any directories, command lines and failures. The
invariant: the overlays are the targets in their order as far as they are mounted
(`Mounting`), and what the steps up to `pc` have set up (`Progress`), the state of
the netstack thread included. `Containment` says of the proxy that its thread was
started and that the streams of the child go nowhere else, not that it still serves.

### How they are laid out

Invariants that an action changes in several places at once are stated of values
instead of variables (`Good(child, wire, ...)`, `GoodHandles(hs, n)`,
`Owned(s, l, c)`), with a lemma per operation on the values and a short step per
action. Where a statement is about all elements of a sequence or all lines of a
text, the proof looks at a least counterexample (`WFMin` of `WellFoundedInduction`
on the order of the naturals), since schemes of induction cannot be instantiated by
the provers. Filtered sequences are therefore `Pick(s, places)` and not `SelectSeq`:
`Picks` says which element comes where, which `PicksProofs` can reason from.

Proving changed the models. `NetConn`: a poll sends nothing from a
socket that is already closed (`Transmit`). `Proxy`: `HeadLimit` allows a
head that is over the limit by a whole read, which the code lets through when the
buffer held exactly the limit before; and `EveryRequestRewritten` compares with the
request and not with the rule of the host in the rewritten head, which is another
one when a rule sets `Host`. `Namespace`: what a stale number does once a link has
taken the place of its directory (`misled`); a walk that does not end is an outcome
of its own ("lost"); the order of a listing is open; a new object has a number that
no object had before.

### Only model-checked

- Liveness: `CallsReturn`, `Ends`, `BytesReachProxy`, `BytesReachChild`,
  `ClosedIsReaped`, `EveryPacketHandled`, `EveryExchangeEnds`.
- `DnsAnswersDeserved`: what `build_response` computes for every query is a matter
  of induction over its bytes. The run takes every query of up to seven.
- The properties of `Overlay`, `SecretFile` and `Namespace` beyond the hypotheses
  above.

## Findings

Each is a run that must fail; `PROJECT.json` quotes the text it disagrees with.

1. `overlay_diskfail`: `persist` truncates the original before it writes, so a
   write that fails leaves it empty or cut short.
2. `namespace_two`: `attr` inspects every link that leaves its own overlay. If
   the target is a link of the other overlay that leads back, the other backend
   does the same and asks the first one: both wait for ever.
3. `secretfile_escapes`: `format_value` is there "so the line round-trips"
   (`redact.rs:119`), but it escapes a backslash only in the values it quotes and a dollar
   sign in none. An unedited save turns `a\\b` into `a\b`, and a value with a `$` into
   what the parser expands it to. A bare value with an escape that the parser does not
   know is not changed: the save is refused, since the merged text does not parse.

Further disagreements with the documentation are in the models, without a run of
their own:

- `detect` finds a key header anywhere in the sniffed prefix, `redact_private_key`
  looks for it in one place only; when the two disagree, `view_for` passes the
  file through (`fs.rs:301`), and `NoSecretServed` is not about such a handle.
- Without a network namespace airgap stops, where `mitm.md:141` says that it
  goes on without the MitM.
- `symlink_target_within_overlay` is "purely lexical" (`fs.rs:257`), and what it
  concludes is not where the kernel goes when a target passes another link. With `b`
  a link that names the overlay `/m` by an absolute path (`/m/b`), the target `b/../../x`
  counts as one that leaves, but following it brings the kernel to the mount: the
  backend waits for itself, which `fs.rs:250-260` means to avoid. With `b` a link to `../x`, the
  target `b/a` counts as one that stays, and is "redacted naturally when the kernel
  follows it" (`fs.rs:248`, and `fs.rs:323`), but it leads to `/x/a` itself, raw. Both
  targets are among those of the run `namespace`; `BackendNeverWaits` without its
  exemption for links that are not straight, and `LinkedSecretIsServed` without
  `Untangled`, are violated there.
- Only the first head of a connection is rewritten. The bytes of a request that the
  client pipelines reach the upstream as they are (`UpstreamGetsStream` says so). An
  upstream that obeys the forced `Connection: close` does not act on them, and the client
  repeats the request on a new connection; one that ignores close does act on them.
  `mitm.md:161-163` names this "unrewritten passthrough" as a remaining gap for both
  the pipelining client and the upstream that ignores close. In the models the gap is
  the second one: pipelining alone sends the request unrewritten, but needs an upstream
  that ignores close for it to be acted on. `EveryRequestRewritten` claims
  nothing of the later heads of such an upstream.
- A panic of the proxy thread when it builds its runtime (`mitm.rs:224`) comes after
  `start_proxy` has returned, and `run` goes on to spawn the child (`main.rs:279`). The
  child then has no network: the stack drops what it accepts (`stack.rs:259`). It stays
  contained, and is not told why.
- A link that cannot be read counts as one that leaves the overlay and is
  followed, where the comment at `fs.rs:259` says that it never is.

The model also shows behaviour that no run claims anything about: a key the host
adds after `open` is deleted by the next save; `create` has no `O_EXCL` and gives
an existing file an empty view; every line of a duplicated `.env` key gets the
last value; `InodeTable::rename` leaves the number of the replaced path behind;
a connection aborted with unread data is removed before its reset is sent; the
numbers below a renamed directory keep their old paths, and lead nowhere or to
what is put there later; a handler that goes by the name sees the name of the
link and not of its target; `readdir` counts its offset in a listing that is made
afresh for each reply. They are noted at their hazards.

## What the models leave out

- The kernel's page and entry caches, and its forget requests (airgap does not
  handle them).
- A torn read of the original by one `view_for` or `read_all`: a text is read in
  one step.
- A resize that glues NUL bytes to a line: a gap is whole lines of NUL.
- `pwrite` returning 0, and `O_APPEND` handles.
- A handle that `create` leaves in the table when `attr` fails is one the kernel
  never learns of; the model lets requests use it, which only adds behaviours.
- Loss and reordering on the wire: TCP's own work. The model keeps delayed
  acknowledgements and the retransmission that repairs them.
- The proxy writes only after it has read, as its protocols do.
- The two ways into a user namespace are one step of `Launch`.
- `Namespace`: file contents, the gate, host processes, requests that answer with
  an error (they change nothing), the part of a listing that fits a reply. A
  secret is one recognised by its contents.
- A `pread` of the sniffer that fails (`fs.rs:287`): the file then is passed
  through, which is a behaviour the model has for other reasons.
- `Listeners`: port 0, IPv6 extension headers and fragments, SYNs repeated by the
  child's kernel, more than one DNS query in flight, the deadline of the poll
  delay (the timer may fire at any time).
- `Proxy`: one connection at a time. The tasks share one thread and the cache,
  which none touches across an `await`. Bodies are tokens after the head; request
  lines and chunked encodings are not looked at by the code either.
- `Profiles`: a program path without a last component.
- `Dns`: packets shorter than a header, which `build_response` drops (`dns.rs:55`):
  the query type of the model begins after it.
- `CleansUp` is about a MitM that came up. `setup` that fails after
  `create_private_dir` (`mitm.rs:146-166`) leaves the directory behind: the guard that
  removes it does not exist yet. Signals that end airgap are not modelled either.

Not modelled: cryptography (`cert.rs` beyond its cache), logging, the parsing of
the command line (clap) and of YAML beyond what it accepts, the `ioctl`s that
create the TUN and the interfaces (steps of `Launch` that may fail).

## Plan

1. Done: all components that keep state; theorems for the safety properties of all
   modules.
2. Weaker hypotheses: `ServedViewFollowsFile` for several editors, as a statement
   about the one that saved last; `HandlesFollowTheirInode` beyond the first host
   change, for host processes that write in place only; `NamespaceServesSecrets` for
   targets that go on below a link which stays in the overlay.
