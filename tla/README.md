# naleystogramm-core in TLA+

Specifications of the concurrent and distributed core of naleystogramm-core, a
peer-to-peer messenger library in C++, with the TLC configurations that check them and
proofs about them for TLAPS.  Everything is translated from the code under `src/`
(`src/src` the implementation, `src/include` the headers); the repository has no tests,
its documents are `README.md` and the comments in the code, most of them in Russian.
`PROJECT.json` maps each definition to the lines it stands for.

    tlc -workers 2 -config CallPair.cfg MCCallManager     # model-check
    tlapm CallManagerProofs.tla                           # check the proofs

Contents: 1 the system, 2 plan, 3 the modules and the code, 4 runs, 5 proofs, 6 where
code and documents disagree, 7 what is not modelled.

## 1. The system

`App` builds the managers and wires them together.  One thread runs the asio
`io_context`, on which `NetworkManager` does all its work.  The user's interface calls
the managers from a thread of its own, and several managers start threads.  Managers
talk to each other through calls and listeners, and to other nodes through
`NetworkManager::sendFrame`/`sendEncrypted` and the `onMessage` listeners.

| component | state | operations | hard because | must hold |
|---|---|---|---|---|
| NetworkManager, direct links (`net/network.cpp`) | `m_peers`, `m_pending`, `m_reconnectInfo`, `m_reconnectTimers`, `m_reconnectAttempts`, `m_messageQueues`, a read and a ping timer per connection | connectToPeer, acceptIncoming, rejectIncoming, sendFrame, the handlers of reads, timers and frames | mutual dials, timers that expire as they are cancelled, handlers keyed by peer and not by connection, two reads on one socket, a queue drained while frames are sent | a disconnect closes its own socket; no socket leaks; connected at one end means accepted at the other; a lost peer is dialled again, within the limit; a frame is not sent twice; a dead path is noticed |
| NetworkManager, relay mode | `m_relaySocket`, `m_relayRegistered`, `m_relayPeers`, `m_relayReconnectTimer` | connectToRelay, sendViaRelay, the handlers of RELAY_* frames | frames, requests and PEER_OFFLINE of a peer in any order, while links to the relay go up and down | both ends of a connection know of it; a lost relay returns; who has gone is noticed |
| CallManager (`calls/callmanager.cpp`) | `m_state`, `m_callId`, `m_peer`, `m_generation`, the media engine, two timers | initiateCall, acceptCall, rejectCall, endCall, handleSignaling, startMedia, the timers' callbacks | user's thread, io_context and timer thread between the critical sections; glare; late answers | the two ends are in one call, which the callee accepted; media only in a call; calls that are not answered end |
| FileTransfer (`transfer/filetransfer.cpp`) | `m_outgoing`, `m_incoming`, files, a hash thread, saved states on disk | sendFile, acceptOffer, rejectOffer, cancel, pause, resume, handleMessage | crossing frames; a resumed file; a lost frame; a restart; a stream whose fail bit stays set | what is reported as received is what was offered, if the disk took it; an accepted transfer ends; an end is final |
| RemoteShellManager, ShellProcess (`shell/`) | `m_sessions`, one-time passwords, the process, its reader thread, the inactivity timer | requestShell, respondToChallenge, rejectRequest, killSession, sendInput, handleMessage, onOutput, onExit, the timer, the destructor | five ways to end a session on three threads; detached reader thread; lost frames | no shell without session and password; bounded number; both ends agree |
| GroupManager (`net/groupmanager.cpp`) | `m_conns`, rows of two tables, a WebSocket thread per group, detached join threads | joinGroup, connectGroup, leaveGroup, sendMessage, loadSavedGroups, destructor | threads that are joined while they dial, receive or sleep; a crash between the steps of joining and leaving | the rows, the connections and what the user sees agree; the server keeps no forgotten member; leaving ends |
| SessionManager (`storage/sessionmanager.cpp`) | the settings, `session.json` | load, the setters, save | setters on two threads, no lock, a file truncated and then written | identity and returned changes survive |
| DevicePairing (`identity/device_pairing.cpp`, part of `network.cpp`) | the code and its expiry, the linked devices, bans by address | generateCode, connectToDevice, DEVICE_PAIR_* frames, removeLinkedDevice | one code sent by several devices, expiry, bans over several connections, lost acceptances | a code links one device; bounded guesses; a secondary is known to its primary |
| StorageManager (`storage/storage.cpp`) | an SQLite database | contacts, messages, groups, block list | calls of several statements without a transaction, one connection for all threads | a block outlives the contact; a message is not shown as delivered that was not; paging misses nothing |
| UpnpMapper (`net/upnp.cpp`), and what NetworkManager does with its results | a generation, a count of attempts, sockets and timers of each run; `m_upnpMapped`, `m_upnpRefreshTimer` | mapPort, the handlers of answers and timers; notifyUpnpResult, the refresh, retryUpnp | time limits that race the answers, runs that a new one supersedes | each run reports once, in order |
| AudioRecorder (`calls/audiorecorder.cpp`) | a capture thread, a buffer | start, stop | stop against the thread's own end | one thread, joined |
| UpdateChecker, DiscoveryClient, Logger, Identity, SystemInfo, VersionUtils, DemoMode | small | requests, files, parsing | little | - |

The hazards of this code, each at its line and with the properties that would catch it
going wrong, are listed under "hazards" in `PROJECT.json`.  Those without a property say
why.

## 2. Plan

Modules are ordered by what the rest of the program leans on.  Each is written so that it
can be proved about as well as checked: parameters and bounds are constants with a named
assumption, one action stands for one handler or for one piece of a thread's work between
two places where it blocks or lets go of a lock, there is no RECURSIVE operator, and
invariants are conjunctions of named parts.

1. `PeerLink`: links between two nodes - done, with proofs
2. `CallManager` - done, with proofs; `Agreement`, which it implements - done, proved
3. `FileTransfer` - done, with proofs; `Delivery`, which it implements - done, proved
4. `RemoteShell` - done, with proofs
5. `GroupManager` - done, with proofs
6. `SessionManager`, `DevicePairing`, together in `MCSettings` - done, with proofs
7. `Storage` - done, with proofs
8. `Relay` and `Upnp`, together in `NetworkModes` - done, with proofs

What could follow:

- an abstract specification of a session's file as a register, and of a conversation's
  table as a log, each with a proof that SessionManager or Storage implements it;
- modules: the refusals of a handshake (versions, UUIDs, rate limit), the detached threads
  of UpdateChecker and DiscoveryClient against the destruction of their owners, and
  operators for VersionUtils and Identity's connection strings against reference
  definitions;
- composition: CallManager and FileTransfer take a link to be a channel of frames that
  may be cut.  With PeerLink's frames in place of that channel, what is sent before
  `onPeerConnected` and what is queued while the link is down would be in one model.

## 3. The modules and the code

What runs under a lock that is held throughout, or on the only thread of the `io_context`,
is one action.  Where code lets go of its lock and goes on, the rest is another action, and
what other threads may do between is checked.  Payloads, names, texts and formats are left
out; a message keeps what its handler decides on.  The constants named `Max...` are bounds
of the model; those named as in the code (`kMaxConcurrentSessions`, `kMaxReconnAttempts`,
`kMaxUuidFailures`, `MaxReconnectAttempts`, `MaxQueueSize`) are the code's, made smaller.
In a module, a definition that has a variant next to it (`AcceptCall` and
`AcceptAtAnyTime`, say) is what the code does; the variant is the code with a plausible
mistake in it, and shows that the property that names it in `PROJECT.json` can fail.

**PeerLink.**  Two nodes; node 2 has the greater UUID, which is all the tie-break looks at.
A TCP connection is a slot of `Conns` with the state of each end (`sock`), the frames on
their way (`wire`) and what NetworkManager keeps about it at each end: `pending` for
`m_pending`, `entry` for the peer's record in `m_peers`, `pendRead` and `peerRead` for the
two kinds of reads, `closing` for a close that is posted or delayed.  A read handler with
the frame it gets is one action (`Receive`: hello, challenge, `OnHandshake`, `OnAckYes`,
`OnAckNo`, `OnPong`, `OnMessage`), an error of a read another (`PendingReadFails`,
`PeerReadFails` with `HandleDisconnect`).  A read whose record has moved gets a frame and
drops it (`StaleRead`).  `ConnectToPeer`, `AcceptIncoming`, `RejectIncoming` and
`SendFrame` post; `StartDial`, `AcceptIncoming` etc. are what runs then.  A timer of the
reconnection is in the map (`timer`), cancelled with its handler still queued
(`cancelled`), or running but no longer in the map (`orphan`).  A path may go silent
(`Break`), a node may restart; the acceptor's user may answer late.

**CallManager.**  Any number of nodes.  A handler runs on a thread that cannot be entered
twice; where it lets go of `m_mutex` the rest of it is kept in `ui` (send the invite, start
the engine, tell the listeners, arm the timer).  The timer thread tests `m_generation`
under the lock (`TimerExpires`) and resets without it (`TimerResets`); with `Preempt` TRUE
it runs in any gap of a handler, with FALSE between handlers only.  The media engine may
refuse to start.  A link may be lost, with what is on it.  `meddled` are the nodes where
a timer's reset came in the middle of a handler, or was due for an earlier call, and which
have made no call since.  `EndCall` takes its two critical sections
(`callmanager.cpp:265-272` and `282`) as one action: a reset between them is taken to come
after the second, when the node is Idle at once, and not Ended until the next timer runs out.  Frames arrive in the order of sending, which
`sendFrame` gives for links that are up; what was queued for a link that was down can be
overtaken while `drainMessageQueue` sends it (`network.cpp:1418-1431`).

**Agreement** is what CallManager promises to two users, without its frames, threads and
timers: who calls whom (`parties`), which calls the callee agreed to, in which call a node
talks.  CallManager's `Promise` maps `talking` to the call of a node in the state InCall;
`parties` and `agreed` are its own history variables.

**FileTransfer.**  One transfer between a sender and a receiver; every handler holds
`m_mutex` throughout.  `out` and `inc` are the entries of `m_outgoing` and `m_incoming`;
bytes of the file are their positions, and `inc` holds the sequence of positions that went
to the stream, which is what the hash is taken of.  `final` is what the file holds in the
end, and `short` says that a write or the close fell short, at which nobody looks: the file
is then cut off, and reported as received all the same.  Streaming one chunk is
`Continue`; the fail bit that `ifstream` keeps after reading the end is part of `AfterRead`,
since `seekg` clears it or not as the code says.  The saved state of the sender outlives
`Restart`.  The receiver's is left out: nothing in the code reads it.

**Delivery** is what FileTransfer promises to the listeners of both ends: `sending` and
`receiving` say whether an end holds the transfer, `sEnd` and `rEnd` what it was told.
FileTransfer's `Promise` maps `sending` to an entry in `m_outgoing`, `receiving` to one in
`m_incoming`, `straight` to `Straight`.

**RemoteShell.**  Nodes, and sessions in either direction.  `sessions` is `m_sessions`,
`window` what the user's interface has been told, `proc` the shell as the operating system
sees it ("zombie" until the reader thread waits for it), `net` the frames.  A shell exits
(`Dies`), its reader thread waits for it and posts (`Reap`), the posted handler ends the
session (`OnExit`).  A timer that has expired may have its handler queued when it is armed
anew (`TimerExpires`, `OnTimer`).  The user may answer the question for the password, or
refuse the request, more than once and after a session has begun, as the code tests for
the session and its role only.  What comes then ends a session whose shell runs without an
event; `silent` records those.  `Stop` is the manager's destruction.  SHELL_DATA changes
nothing, and only resets the timer (`OnOutput`).

**GroupManager.**  `joins` holds each call of joinGroup with how far its thread has come:
the request, its answer, the row, the event, `connectGroup`'s two halves.  `m_conns` holds
each Conn with its thread's place in the loop (dialling, online, closing, asleep,
returned), `curl` and whether what it points to is open.  `ui` is the user's thread in the
middle of leaveGroup or of the destructor, waiting for threads.  `stored` and `rows` are
the two tables and outlive `Crash` and `Quit`; `Start` is `loadSavedGroups`.  Servers are
external: they give out tokens, take a DELETE, and send the history at every connection.
Any statement of the database may fail, and `leaveGroup` deletes in two of them
(`LeaveMessages`, `LeaveDeleted`): `unsaved` and `undeleted` are the groups whose
row was not written or not deleted, `skipped` those whose row could not be read at the start,
`missed` the messages that came on this connection and were not saved or decrypted,
`unknown` the tokens that a lost message or the end of the program left to nobody.
`rejoined` and `leftEarly` record what the user did: which groups were joined again while
they were joined, and which were left before their join was complete.

**SessionManager.**  A setter changes memory, composes the document, truncates the file and
writes it, with nothing to keep another thread out.  The file may fail to be opened or
written, of which the setter's caller hears nothing, or to be read, and then it is taken for
missing and replaced.  An empty or garbled file is malformed, and `load` then generates an
identity.  `unsure` holds the changes that may not be on the disk, until a save that has the
file to itself (`crossed` are the threads whose save overlapped with another) writes them
again; `lost` those that were unsure when the program ended or when the file could not be
read.

**DevicePairing.**  Starts where PeerLink leaves a connection: at the request the primary's
user is asked to accept.  The code has an expiry (`late`), is used up by the first right
request, and is forgotten at a restart; the list of linked devices is saved at every
change, and the user may take a device off it (`removals` counts that).  A ban lasts 30 minutes and a code 60 seconds, hence `BanEnds` requires the codes
of the time of the ban to be gone.

**MCSettings** checks the two in one run.  They have no variable in common, and a
behaviour of the run is one of SessionManager or one of DevicePairing, not both, which is
all that properties of one of them can tell apart.

**Storage.**  `contacts`, `blockList` and `messages` are rows of three tables; group
messages are counted only, since what matters about them is that their ids come from the same
`sqlite3_last_insert_rowid`.  `sequence` is AUTOINCREMENT's.  A call of one statement is
one action; `deleteContact` and `saveMessage` are split where another thread, a failure
(`Fails`) or the end of the program can come between (`DeleteContact`, `DeleteMessages`,
`DeleteRow`; `SaveMessage`, `ReturnId`), and `doing` says what a thread has left to do.
`MarkDelivered` comes with an id the caller was given, at any later time.  `view` is the
interface, which pages through a conversation with `getMessages`.  `refused`, `unlisted`
and `crossed` record, for the properties, what was done.

**Relay.**  NetworkManager in the mode ClientServer, on any number of nodes.  The server is
external: it registers a node, forwards a frame to a registered one, and answers
RELAY_PEER_OFFLINE otherwise; `up` and `down` are the two directions of a node's link to
it.  `socket` also tells a link that is lost from one whose end has noticed, and the waiting
for the reconnect timer.  Handlers run on one thread, hence each is an action; what is posted
(`sendFrame`) is `posted`.  Without an address to dial, the chain of reconnections ends (`NoAddress`).
`m_relayPeers` is left out: in this mode it changes exactly
where `m_peers` does.

**Upnp.**  A run of `mapPort` is its generation.  `job` says for each run what it waits for,
what its operation on a socket has come to, and whether its time limit is armed, has run
out, or has run out when there was nothing to cancel, or only one of several addresses
("missed").  Runs that were superseded
go on until their handlers find out.  `results` is what `m_onResult` was given.
NetworkManager's `notifyUpnpResult`, refresh timer and `retryUpnp` are here too.

**NetworkModes** is `init`: the mode decides between Relay and Upnp, and the user may turn
UPnP off while a run or a refresh is under way.

## 4. Runs

The `MC` modules add symmetry sets only.  CHECK_DEADLOCK is FALSE in all runs: every
bounded model comes to a state in which its users have used up what they may do, and the
program itself may rest whenever no one asks anything of it.  That somebody waits for ever
is looked for with liveness properties.

Runs that hold:

| run | bounds | shows |
|---|---|---|
| `peerlink_mutual` | both users dial, 2 dials, a message, queue of 1, no retry, 2 connections | a record is always being read (or its end would not be noticed); a dialler that is connected was accepted on that connection; there are never two links up at once; a disconnect closes its own socket; a frame is in one place |
| `peerlink_retries` | 2 dials, 1 retry, reconnect timers late, 1 lost timer | a remembered peer that is not connected has a timer, a request or a dial outstanding |
| `peerlink_faults` | 1 dial, 1 silent path, 1 restart, late dial timer, oversized frames; fairness | no socket leaks, a silent path is found out |
| `call_pair` | 2 nodes, 3 calls, 1 link loss, engines fail | state, call, peer and engine agree; the calls are a history of `Agreement` |
| `call_race` | 2 nodes, 2 calls, timer thread between critical sections; fairness, none of frames | caller and callee that talk to each other are in one call; where no timer meddled, state, call, peer and engine agree; an unanswered call is given up; Ended passes |
| `file_transfer` | 5 bytes in chunks of 2; 2 accepts, a reject, a pause, a resume, a loss, a restart, faults, short writes too; fairness | what both ends are told is a history of `Delivery`: what is reported as received is the file that was offered, or, after a short write, the beginning of it; an accepted or cancelled transfer ends on both sides |
| `remote_shell` | 2 sessions in either direction, limit 1, 2 answers, right or wrong and at any time, failing shells, a loss, a stop; fairness | no shell without session and password, none timed out in use; every end is reported; both nodes come to agree which sessions exist; an unused shell ends |
| `group_manager` | 1 group, 2 joins, 1 retry, 3 faults (1 for a user in haste): a request, a connection, a statement of the database, the end of the program (1); fairness | who finds `curl` set under `curlMutex` has an open handle; rows, connections and what is shown agree; no message missed; the server keeps no forgotten membership; leaving ends; a joined group comes online |
| `settings` | 2 threads, 3 setters, 3 ends of the program, 2 failures to open, write or read the file; 3 devices, 2 codes, 3 connections, a restart, a removal | identity and returned changes survive, but for what was unsure at an end; a code links one device; a secondary is on its primary's list; guesses at a code are bounded |
| `storage` | 1 peer, 3 messages, 1 of a group, pages of 1, 1 failing statement, 1 end of the program | a block stays; no message is shown as delivered that was not; paging misses nothing |
| `network_modes` | 2 nodes with 2 dials, a message, 2 losses of a link or of the relay's address, or overflows; or 2 runs of 2 attempts each; fairness | both ends of a connection know of it; a lost relay returns; who has gone is noticed; runs of the mapper report, once and in order |

`call_stale` (2 calls, timer thread between critical sections) does not hold: section 6.

Why the bounds are enough to be of interest: each hazard needs one unusual event (a loss,
a late timer, a crash) and one or two operations before and after it, and every run
allows at least that.  Two connections are needed for a mutual dial, and no more are alive
at once.  Three calls let a late answer of the first meet the third.  Five bytes in
chunks of two give a first, a middle and a short last chunk.  With `MaxReconnectAttempts`
1 the limit is met after one failure.  Two shell sessions with a limit of one let one be
refused, or ended, while the other runs, or cross it.  One group is enough, since
nothing but the user's thread is shared between groups, and tokens are never given twice.
The same holds of the peers of Storage, whose statements all name one peer, but for the
ids, which two messages of one peer compete for as well.  Two runs let one be superseded,
and two attempts let a search be repeated; handlers of one run never look at another's job.
Three devices let two of them compete for a code of the third.  Symmetry is used in safety
runs only.  Calls among three nodes and three sessions fit no run of a few minutes; the
theorems `KeepsAgreement`, `AcceptorTalks`, `NoOrphanShell`, `PasswordFirst` and
`FewShells` cover them.

Properties with a condition.  The runs of transfers, shells, groups, settings, pairing and
storage have the faults that section 3 names for their modules, and not every fault a
program can have.  A property that one of them is known to break names the fault, so that
everything else is still checked with the fault around; for the fault itself it then shows
nothing:

- `NodeIsConsistent` exempts the nodes in `meddled` until they make their next call.  There
  are none with `Preempt` FALSE, hence none in `call_pair`; `call_stale` shows the race.  That
  a callee stops ringing when its caller is gone is not stated, since no timer of the
  callee does it.
- `CallerSharesTheCall`, and `CancelEndsBoth` for transfers, rest on frames that keep their
  order: they are about links that are up.  An offer that waits in PeerLink's queue could
  be overtaken by its cancellation.
- `EndIsReported` exempts the receiver's window of a session in `silent`, and the dialog
  that shows the receiver the password: section 6.
- `SilentPathDetected` exempts the node whose socket an oversized record closed, and
  `EveryRecordIsRead` is checked without such records: section 6.
- `ShownIsSaved`, `MembershipIsSaved`, `OnlineMissesNothing` and the
  liveness of groups concern groups that were not joined twice and were left when their join
  was complete (`Patient`; `rejoined` and `leftEarly` record it).  A group whose row could
  not be saved (`unsaved`) may be shown without one, and its token is then the Conn's; one
  whose row could not be deleted or read (`undeleted`, `skipped`) may have a row and not be
  shown.  `MembershipIsSaved` exempts the tokens in `unknown`, as nothing asks again, and
  `OnlineMissesNothing` the messages in `missed`, until the group connects again.
- `BothOrNeither` is stated as long as no link was lost and no node stopped (`Calm`):
  neither side hears of either.
- That everything has been sent when a transfer completes is part of `Delivery` for transfers
  accepted once and not resumed (`Straight`), whatever else happens to them.
  `AcceptedEnds` and `CancelEndsBoth` are stated up to losses, restarts and failing files
  (`Disturbed`), after which the other side is told nothing, and for a file that is not
  empty (section 6).  That a received file is the offered one is part of `Delivery` for
  files whose writes and close did not fall short (`short`); one that did is its beginning.
- `SettingsSurvive` exempts what is in `lost`: changes, or the identity, that were `unsure`
  when the program ended, after a save that failed, was left half done or overlapped with
  another, or that no one could read.  What it says is that nothing else is lost, and
  that the next save that has the file to itself makes good what was unsure.
- The type invariants are there to be read and proved; no run spends its time on them.
- `PrimaryKnowsSecondary` is stated as long as nobody is taken off a list by hand.
- `BlockedStaysBlocked` exempts peers whose row of the block list could not be written
  (`unlisted`), and `DeliveredWasConfirmed` runs in which one insertion came between
  another and the question for its id (`crossed`): section 6.
- `BothAreTold` is stated for runs that lost no link, at the moments when no frame is on its
  way: what is lost with a link is not sent again.  `RelayReturns` exempts a link closed
  for an overflow and a relay without an address, `OfflineIsNoticed` a writer that is itself
  off the relay, and `RunReports` a run whose time limit found nothing to cancel, or
  cancelled one of several addresses only: section 6.

The hazards in `PROJECT.json` say in their notes which part of them a property leaves out;
those that only a condition is about have no property there.

Fairness.  Liveness is stated under weak fairness of what the program does by itself:
handlers that are posted or queued are run by the `io_context`; timers run out; a thread
that can go on does; a frame on a link that is not cut arrives, and a dial ends in one way
or the other (the operating system and the dial timer see to it), though a call's
waiting ends even if its frames never arrive; an HTTP request is
answered or times out.  No fairness is assumed of users, of failures or of a shell's exit.
Strong
fairness is used once: a node that dials the relay again and again reaches it in the end
(`Connects`), without which `RelayReturns` could not hold of any code.  The router need not do
anything for the mapper's runs to end.

## 5. Proofs

Every theorem is for all values of the constants that meet the module's named assumption:
any number of nodes, calls, sessions, groups or connections, and any bounds.

- `PeerLinkProofs`.  `TypeCorrect`: the type invariant in five parts (`LinkType`,
  `WireType`, `FlagType`, `RetryType`, `MessageType`), each inductive with the help of one
  or two others, so that an action is looked at only for the variables of that part.
  `OwnSocketOnly` and `NoLeak`: with `LinkType`, both are inductive as they stand, as every
  action that lets go of a record closes its socket or posts the close.
  `RecordsAreRead` adds the hypothesis that no peer overflows the read buffer.
  `AcceptedFirst` and `OneLinkOnly` need what the two nodes know of each other: who dialled
  a slot and which records can be about it (`SlotInv`), that frames wait only at an
  end that can still read them (`FramesAreReadable`), that an acceptance on the wire goes to the
  dialler and is true (`AcksAreTrue`), and that a dialler holds its open socket under the
  entry of the peer (`DiallerHolds`).
  `AttemptsGoOn` is `LostPeerIsRedialled`, inductive with the types, under the hypothesis
  MaxOrphans > 0: with no room for a timer that the map has lost, the model would forget
  it where the code does not.
  `NeverTwice` (`AtMostOnce`) follows a frame's one copy through all the places a frame can
  lie in (`CopyInv`): it lies in one of them (`OnePlace`), once (`OneCopy`), and in none
  before it is sent (`NotYet`).  Every step moves the copy on or lets it fade.
- `CallManagerProofs`.  `AcceptorTalks` is not inductive: a caller goes into the call on a
  frame, and between critical sections on what its thread remembers.  The invariant adds
  that frames are true (`FramesTrue`: an ACCEPT on its way was preceded by the callee's
  acceptance of that call, an INVITE by the caller's call), that what a thread is in the
  middle of concerns the call it was started for (`UiOfTheCall`), and that a node rings for
  another's call only (`RingsForAnother`).  What has been accepted or called only grows,
  hence frames stay true.
  `KeepsAgreement`: CallManager implements Agreement, for any number of nodes and calls and
  with the timer thread anywhere.  To the invariant above it adds that a call is accepted
  once (`OnceInv`): a call that has not been accepted is in one place only (about to be
  announced, in its one INVITE on the wire, ringing, or being answered: `WireInv`,
  `CallInv`), who is about to enter a call is in none (`NotYetIn`), and who calls does so in
  a call of its own (`CallsOwn`).  Then every step of a handler, a timer or a link is one of
  Agreement's `Make`, `Agree`, `Join` and `Leave`, or changes nothing Agreement speaks of.
  `CallerAndCalleeAgree`: `CallerSharesTheCall` needs the order of things.  Calls are
  numbered as they are made, a link keeps the order of its frames, and a callee that takes a
  later call has given up the earlier ones.  The invariant (`RaceInv`) compares, for
  two nodes, the last call one has made to the other (`LastMade`) with the last the other
  has taken (`LastTaken`), and with the INVITEs and ACCEPTs on the wire (`WireOrder`,
  `WireIsLater`): an acceptance that comes to a caller still waiting for it is of the last
  call the callee took.
  `NodesAreConsistent` is for the timer thread anywhere, in every node that is not `meddled`.
  Its invariant `AllCoherent` says for each of them what its call, peer, engine, timers and
  the thread in the middle of a handler know of each other (`PartyToTheCall`,
  `MediaOnlyInCall`, `TimersWait`, `UiInCall`); a call of one's own sets all of it anew, so
  that `InitiateCall` brings a node back.
- `FileTransferProofs`.  `TypeCorrect` is proved for the sender's, the receiver's and the
  frames' variables apart.  `KeepsDelivery`: FileTransfer
  implements Delivery, with writes that fall short.  That needs four facts: before `sendFile` there is nothing (`Fresh`);
  a transfer that was completed or cancelled left no entry and no state on disk that could
  revive it (`Ended`); there is one offer, and nothing at the receiver before it comes
  (`OfferedOnce`); and a transfer accepted once and not resumed has either not begun to
  stream or has sent the bytes up to where it stands, with no further acceptance on its way
  (`InOrder`).  The last is what makes `completed` mean that all was sent.
- `RemoteShellProofs`.  The invariant has a part for the tables (`Core`: a session's
  process is the one that runs, a running process has a session whose password was
  entered, the receivers' sessions are within the limit), one for the frames (`Known`: only
  sessions that were asked for are spoken of, by those who may), and types
  (`TypeCorrect`).  `NoOrphanShell`, `PasswordFirst` and `FewShells` follow.
  `EndsAreReported` and `TimeoutIsDue` need `AskInv`: a session is asked for once, so that of
  its request on the wire and a receiver that waits for the password (`Waits`) there is
  one at most (`OneAsk`), and neither when the shell has run (`Started`), however often the
  user answers; a session that is over therefore does not come back.  What a node shows is
  about a session it has, whoever ended what before, unless the session was ended without an
  event (`NodeTrue`; `silent` only grows); and a queued handler of a timer is of an
  earlier arming than the timer that runs (`TimersTrue`).
- `GroupManagerProofs`.  `HandleStaysOpen`: that `curl` under `curlMutex` is
  an open handle is inductive with the place of the Conn's thread in its loop.  `ShownAgrees`
  goes through the steps of joining and leaving, each of which may fail or be the last
  before a crash: a group has one join (`OneJoin`), whose row, event and Conn follow each
  other unless the row was not saved (`JoinSoFar`); without a join or a leave under way row,
  Conn and screen agree up to what is `unsaved`, `undeleted` or `skipped` (`Settled`); the
  row and the Conn have one token (`OneToken`); and messages go before their group
  (`Emptied`).
  `MembersAreKnown`: a token the server counts is held here by a row, a Conn, a join, a leave
  or a request, or is `unknown` (`Held`), for tokens are never given twice (`TokenInv`).
  `OnlineHasAll`: messages that were posted are saved, `missed`, or among those on the
  WebSocket since its history (`MissInv`).
- `SettingsProofs`.  `OneDevicePerCode`: a code is not given out twice, two devices
  never have the same one, and a code that has linked a device is no device's code
  any more (`CodeInv`).  `SecondaryIsKnown`: an acceptance on its way says that its sender
  has listed its receiver (`AcceptsAreTrue`).  `GuessesAreBounded`: as long as a code
  is good, the count of failures has all wrong guesses at it (`GuessInv`), which is where it
  matters that a ban outlasts a code.
  `SettingsAreKept`: what is not unsure is in the file (`FileInv`), what was not lost is in
  memory (`MemInv`), and the document of a save that has not overlapped with another has
  all that setters have returned from, so that writing it leaves nothing unsure (`SaveInv`);
  when the program is down nothing is under way (`DownInv`).
  `SettingsAreTyped` needs the count of identities against that of ends (`UuidsCounted`);
  `PairingIsTyped` needs `AcksFirst`: one acknowledgement at most is on a connection, and
  while it is there the connection still has its code to send.
- `StorageProofs`.  `BlockKept`: `BlockedStaysBlocked` becomes inductive with
  `DeletionListed`, that a deletion which has passed its first statement has the peer's row
  in the block list, so that the contact may go.  `MarksAreTrue`:
  ids are given out once (`RowsAreDistinct`), and the id a caller gets is its own message's
  unless two insertions crossed (`IdsAreOwn`), so that a mark lands on the message that was
  confirmed.  `PagingIsComplete`: the rows of a conversation are ranked by their ids without
  gaps (`RanksFill`), a page that is not the last is full (`PageIsFull`), and rows not yet
  seen are ahead of what was loaded (`RestIsAhead`).  `TypeCorrect` proves the types.
- `NetworkModesProofs`.  `ReportsOnce`: results of runs of the mapper come in the order of
  the runs and one from each, since a run that has reported has no job left, and a result
  has the generation of its run.
  `TellsBoth`: as long as no link to the relay was lost, a node that was heard of is
  registered for good and was told to be offline before, if at all (`HeardIsThere`), a
  link to the relay begins with it (`LinkIsTrue`), and who is told of a peer has one that is
  told, or that an acceptance is on its way to (`TellingIsTrue`).

Every type invariant (`TypeOK`) of a component is proved as well; the proofs about Relay and
Upnp have the types they need among the invariants.

Every safety property that a passing run checks, invariant or action property, is thus a
theorem, and so are the two refinements (`KeepsAgreement`, `KeepsDelivery`).  Left to TLC are
the liveness properties, since liveness under fairness and ENABLED are out of the prover's
reach, and the property that `call_stale` finds violated.

## 6. Where code and documents disagree

`call_stale` shows one as a counterexample, with the quoted line under "findings" in
`PROJECT.json`: the generation that is to drop stale timer callbacks is tested under the
lock, and the callback resets the call after it, so that it may reset the next call
(`callmanager.cpp:176`).

The models do what the code does in the following cases too.  Each was seen as a TLC
counterexample to a stronger property; the state machines keep the behaviour, but for
the processes and pipes of `shell/shellprocess.cpp` and the reader thread's last call, which
no property here speaks of.  They are the reasons for the conditions in section 4.

| where | what the code does |
|---|---|
| `net/network.cpp:1444` | the acceptor's left-over read swallows a PONG, and the timeout closes a live link as dead |
| `net/network.cpp:1437` | a mutual dial: one end refuses as a duplicate the connection that the other end's tie-break keeps |
| `net/network.cpp:387` | an oversized record closes the socket without handleDisconnect, and the entry stays Connected |
| `net/network.cpp:1568` | a cancelled reconnect timer's handler erases its successor: attempts exceed kMaxReconnectAttempts |
| `calls/callmanager.cpp:282` | Calling and Ringing go to Ended, which the state diagram of `callmanager.h:24` does not have |
| `calls/callmanager.cpp:176` | a reset in the middle of a handler leaves state, call and engine at odds, until the node makes its next call |
| `transfer/filetransfer.cpp:973` | a resume skips the chunk that was asked for, `last_chunk` being a count at one end and a number at the other |
| `transfer/filetransfer.cpp:283` | a resume before the accept completes a transfer with nothing sent |
| `transfer/filetransfer.cpp:556` | an empty file never completes at the receiver, which waits for a last chunk |
| `transfer/filetransfer.cpp:921` | a sender cannot resume its own pause: resumeTransfer looks at incoming transfers only |
| `transfer/filetransfer.cpp:693` | a write, or the close (`:720`), that fails is not noticed: the hash is of what was to be written, and the cut file is reported as received |
| `shell/remoteshellmanager.cpp:517` | a lost frame leaves the initiator a session for ever, as only the receiver has a timer |
| `shell/remoteshellmanager.cpp:251` | a wrong password ends the receiver's session without an event; so does a second answer, which meets the cleared password, for a session whose shell runs, and its window stays |
| `shell/remoteshellmanager.cpp:91` | a late rejectRequest ends a session whose shell runs in the same way |
| `shell/shellprocess.cpp:212` | a process is signalled after the reader thread has waited for it |
| `shell/shellprocess.cpp:200` | input that comes between the shell's exit and onExit is written to a pipe without a reader |
| `shell/remoteshellmanager.cpp:472` | the detached reader thread uses the manager before `m_destroyed` is looked at |
| `net/groupmanager.cpp:303` | connectGroup does not restart a thread that has given up |
| `net/groupmanager.cpp:311` | leaveGroup destroys a Conn whose thread is about to be assigned |
| `net/groupmanager.cpp:272` | leaveGroup does nothing between onGroupJoined and connectGroup |
| `net/groupmanager.cpp:255` | a group whose row could not be saved is reported as joined and connected, and is gone after a restart |
| `net/groupmanager.cpp:289` | a group whose row could not be deleted is reported as left, and comes back after a restart |
| `net/groupmanager.cpp:417` | a message that cannot be saved (`:433` too) or decrypted (`:409`, `:425`) is skipped without a word, until the history of the next connection |
| `net/groupmanager.cpp:475` | a group whose token or key cannot be read at the start is skipped, though its row stays |
| `storage/sessionmanager.cpp:229` | an end of the program inside a save loses the identity |
| `storage/sessionmanager.cpp:230` | a file that cannot be opened or written (`:234`) loses the change, or the identity, of a setter that returned |
| `storage/sessionmanager.cpp:70` | a file that cannot be read is taken for none, and replaced with a new identity |
| `storage/sessionmanager.cpp:253` | the saves of two threads leave the file behind memory, or garbled |
| `storage/storage.cpp:536` | "preserve UUID in blocked_list before deletion": the INSERT's result is ignored, and the contact is deleted without its block |
| `storage/storage.cpp:615` | two threads that save at once can both be given the id of the second message |
| `storage/storage.cpp:628` | a view that pages while messages come shows one of them twice |
| `net/network.cpp:735` | a frame for the relay is dropped without a word while the link is not registered, and what was queued is sent behind what is sent directly |
| `net/network.cpp:807` | a dial before the registration sends nothing, and later dials of the peer are skipped as it is Connecting |
| `net/network.cpp:712` | an acceptance that comes after RELAY_PEER_OFFLINE tells the user of a peer that has no record |
| `net/network.cpp:688` | an overflow closes the relay's socket for good, `m_relayRegistered` staying true |
| `net/network.cpp:621` | a relay without a valid address (`:637` too) ends the chain of reconnections |
| `net/upnp.cpp:387` | `upnp.h:18` says that the latest run reports exactly once: a limit that fires while a name is looked up, or while the answer's handler is queued, cancels nothing, and with several addresses cancels one only; the run may hang |
| `net/network.cpp:547` | the late result of a superseded run sets `m_upnpMapped` after `retryUpnp` has cleared it |

Seen in the code while reading it, and outside the models: the dialler's record in relay
mode, which two nodes that dial each other never get past Connecting; a name that stays in
`m_relayPeers` when the peer is later linked directly; the row of `blocked_list` that
unblocking a contact added again does not remove; `lastMessageText`, which takes either of
two messages of one millisecond; `scheduleRefresh`, a `shared_ptr` that holds itself
(`network.cpp:553`); and the search for a port, which counts in `uint16_t` and wraps to 0
(`network.cpp:319`).

## 7. Not modelled

- Cryptography (`e2e`, key exchange, group keys): a frame arrives as it was sent or not at
  all.  What the encryption layer refuses to send is as if it was lost.
- NetworkManager, direct links: refusals of a handshake for version, UUID or rate; reads of
  `m_peers` from other threads, which are data races whose outcomes are not states of the
  program; and `connectToDevice`'s own handshake, but for its request and answer
  (DevicePairing).
- NetworkManager, relay mode: `disconnectPeer` and the keepalive of virtual peers, direct
  connections that come in while the relay is used, and `relayToLinkedDevices`, of which
  nothing says what it promises to whom.
- NetworkManager, start-up: binding one of twenty-one ports, the detached thread that asks
  for the external address (it uses the manager without a test that it is still there), and
  `checkOpenPort`, one connection to oneself that reports and keeps nothing.
- StorageManager: the setters of single columns, the discovery account, the times of last
  messages, and the encryption of columns and of the file.  Each is one statement on a row
  that no other statement here decides by.
- Components with no state that two steps could disagree about.  DiscoveryClient sends
  requests, each on a thread of its own.  AudioRecorder has one capture thread, joined
  before the next is made, and the rest is the sound system's.  UpdateChecker has one
  detached thread, which reports once; its `m_alive` (`diag/updatechecker.cpp:336`, `:379`)
  is a member of the object whose end it is to tell of, so that a thread that outlives the
  checker reads freed memory, about which there is no more to say in a state machine; its
  date of the last check is one of the setters on another thread of SessionManager.
  Logger has files under one mutex.  SystemInfo, DemoMode, VersionUtils: pure functions
  and a switch.  Identity: copies of two settings, and the parsing of connection strings.
  App: construction and destruction in order.
- The capacity of a shell's input pipe, on which a write may block.
- `third_party` (SQLite) is vendored.
