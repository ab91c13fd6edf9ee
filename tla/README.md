# Verification of swift-msquic

TLA+ models of `SwiftMsQuicHelper`, the Swift wrapper of MsQuic, with TLC runs
on small instances and TLAPS proofs. All paths below are relative to
`src/Sources/SwiftMsQuicHelper/` unless they start with `src/`.

The library turns MsQuic's C callbacks into `async` calls. Almost everything
that is hard about it is the same in each wrapper: a Swift task stores a checked
continuation in a slot, calls MsQuic and suspends; a worker thread of MsQuic
runs a callback, takes the continuation and resumes it; and the object must stay
alive, by reference counting alone, for as long as MsQuic holds an unretained
pointer to it.

## 1. Inventory

| Part | State | Operations | Talks to |
|---|---|---|---|
| `QuicObject` (`Core/QuicObject.swift`), thunks (`Utilities/QuicCallbackThunks.swift`), `CInteropHandle` | `handle`, `retainedSelf` under a lock | retain/release self, unretained pointer to C and back | base of every wrapper |
| `QuicStream` (`Handlers/QuicStream.swift`) | stream state, start and shutdown slots, the receive continuation, contexts of sends | init (local, from a peer), `start`, `send`, `shutdown`, `receive`, priority, `handleEvent`, `deinit` | holds its `QuicConnection` when local |
| `QuicConnection` (`Handlers/QuicConnection.swift`) | connection state, connect and shutdown slots, three handlers, datagram tokens | init (client, server), `start`, `shutdown`, `openStream`, `sendDatagram`, tickets and parameters, handlers, `handleEvent`, `deinit` | holds its registration; makes streams; runs handlers in tasks |
| `QuicListener` (`Handlers/QuicListener.swift`) | stop slot, connection handler | init, `start`, `stop`, `onNewConnection`, `handleEvent`, `deinit` | hands raw connection handles to a handler |
| `QuicRegistration`, `QuicConfiguration` (`Configuration/`) | a handle | open, `shutdown`, close in `deinit` (blocks) | parents of all |
| `QuicSettings`, `QuicCredentialConfig` | values | conversion to C structures, secure buffers | `QuicConfiguration` |
| `QuicStatus`, `QuicError`, `QuicAddress`, `QuicBuffer`, flags | values | conversions | everywhere |
| `QuicEventConverter`, events | none | C unions to enums | `handleEvent` |
| `SwiftMsQuicAPI` | the API table | open, close | everywhere |
| `CertBridge.m`, example program | none | certificate conversion; an echo client and server | |

Where it is hard:

* **Interleavings.** A call is two locked sections and an MsQuic call; a callback
  may run between any two of them. Slots are single: overlapping calls share them.
* **Reference counting as a protocol.** The self-reference is taken in `init` and
  released at the last event or when a start is refused. Tasks in calls, loops,
  stream handlers and the running thunk hold the object too; whoever lets go
  last runs `deinit`, which closes the handle.
* **Failure paths.** Refused starts, refused shutdowns, canceled sends, refused
  connections each undo part of what was done.
* **Identity by address.** A datagram is known by the heap address of its context.

What makes each part correct: continuations are resumed exactly once (a second
resume traps the process, a missing one hangs a task); callbacks reach a live
object; the handle is closed once, never while callbacks are due or a handler
runs; states mean what their docs say; no data or context is lost.

## 2. Modules

| Module | Models | Extends / uses |
|---|---|---|
| `CallbackHandle` | abstract: what a wrapper promises about its C handle | |
| `QuicStream` | one stream, its callers, its reader and MsQuic's callbacks | implements `CallbackHandle` |
| `QuicConnection` | life cycle of a client or server connection | implements `CallbackHandle` |
| `QuicDatagram` | datagram sends of one connection and their tokens | |
| `QuicListener` | a listener, `stop()`, and connections offered in parallel | implements `CallbackHandle` |
| `QuicOwnership` | the library, a registration, configurations, listeners, connections and streams: who holds whom, which thread closes what | every object implements `CallbackHandle` |
| `QuicStatus` | status codes and the errors made from them, as pure operators | |
| `QuicConfiguration` | the buffers lent to MsQuic while a configuration is opened or a credential loaded | extends `QuicStatus` |
| `MC*` | task names and values for TLC | the module of that name |
| `…Proofs` (one for each of `CallbackHandle`, `QuicStream`, `QuicConnection`, `QuicDatagram`, `QuicListener`, `QuicOwnership`, `QuicConfiguration`) | theorems | the module, TLAPS |

`QuicStream`, `QuicConnection` and `QuicListener` look at one object with all its
locks and calls; `QuicOwnership` composes them one level up, with each object
reduced to what its own module shows of it: its references, the stages of its
handle and its last event. What the two levels agree on is `CallbackHandle`,
which each of them implements.

Conventions shared by the modules:

* A slot variable holds the name of the task whose continuation it is, or
  `NoTask`. `continuation[t]` is that task's checked continuation: `none`,
  `pending`, `ok`, `error`. `Resume` sets `trapped` if it was not pending.
* `pc[t]` is where the task is between the locked sections of its call; one
  action is one locked section or one MsQuic call, together with what follows it
  on the same thread without another lock. A task with `pc` other than `idle` and
  `done` holds the object, as a suspended `async` method does.
* `Alive` is reference counting: the object lives while `retainedSelf`, the
  application, a running callback, a loop or a task references it. `Deinit` is
  enabled when it does not, as a separate step, because the thread that released
  the last reference runs it after the release.
* `callback` is the strong reference `quic…Callback` gets from
  `fromCInteropHandle`; `CallbackReturn` drops it. MsQuic runs the callbacks of a
  stream or connection one at a time, those of a listener in parallel.
* `mq` is the handle as MsQuic sees it. `mqShut` (connection) says that
  SHUTDOWN_COMPLETE is due; a stream has two directions, `mqEnded` holds those
  that either side has ended, and SHUTDOWN_COMPLETE is due when both are
  (`ShutDue`).
* `Usage` names what an application may do beyond the documented sequence. Each
  property is checked where it holds; section 5 says what happens beyond.

`QuicStream`: `StartBegin/StartApi/StartFail` are the locked section, the MsQuic
call and the failure path of `start()`; `Shutdown…` likewise, `ShutdownFail`
restoring `previousState`; `Send` is one step, because its context is private
until MsQuic has it. The data are counted, not named. The reader loop either
keeps the stream (`holding`: `for try await data in stream.receive`) or only the
sequence (`detached`). `ShutdownApi` ends the directions its flags name: `.graceful`
and `.abortSend` the send direction, `.abortReceive` the other one, `.abort` both.
A send with `.fin` and PEER_RECEIVE_ABORTED end the send direction, the peer's FIN
or reset the receive direction, a start that fails with its flag set and a lost
connection (`MsQuicShuts`) both. So a graceful `shutdown()` waits until the peer
has ended its direction too.

`QuicConnection`: `StartCheck` and `StartStore` are two steps, as the code reads
the state in one locked section and writes it in another; so are `ShutdownMark`
and `ShutdownStore`. Each event has a parameter `vetoed`: the application's event
handler did not return success, and nothing else is done. The application may
change its handlers at any time (`SetStreamHandler`, `SetEventHandler`).

`QuicDatagram`: `address` maps a send to the address of its context; `Holds` says
the context is still in memory. The heap gives out any address that is not taken,
also one that was freed while MsQuic still follows the datagram that had it. Both
events have the parameter `vetoed`, as in `QuicConnection`: the event handler comes
before them too (`SetEventHandler` changes its answer). `mistaken` is a history
variable: the sends that a report about another datagram answered.

`QuicListener`: `running` is the set of NEW_CONNECTION callbacks in progress,
`Accept` and `Refuse` are the handler's verdicts; `wrapper` and `closedBy` follow
the handle of each offered connection to its end.

`QuicOwnership`: `refs[o]` is the set of strong references to an object, by their
holders: `app` (a variable, a suspended call, a stream handler's task), `self`
(`retainSelfForCallback`), `thunk` (the reference of a running callback) and the
children whose stored property it is. A configuration, a listener and a connection
hold the registration, a local stream its connection; a stream of the peer holds
nothing (`connection` is nil). `Release` removes references and notes in `deinitOn`
which thread dropped the last one; `Deinit` closes the handle and then releases the
stored properties on that same thread, so that one release can close a whole branch.
A handle is `absent`, `idle`, `running`, `ending` (its last event is due), `ended`,
`closed`, `vetoed` (a connection whose event handler kept its SHUTDOWN_COMPLETE from
the wrapper: MsQuic is done, the self-reference stays) or `refused` (a server
wrapper whose `ConnectionSetConfiguration` failed). `discipline` says when the
application lets go of a wrapper: a *patient* one after its last callback returned,
a *prompt* one when `shutdown()` or `stop()` returned, as the example does, an
*early* one at any time. It also decides which properties one may ask for, see
section 5.

`QuicConfiguration`: `init` and `loadCredential` nest one scope per buffer around
one C call. `Layout` lists the scopes of each call in the order the code enters
them; `EnterScope` and `LeaveScope` move `depth` along it; `MsQuicReturns` takes
any status and turns it into the error that is thrown (`QuicStatus`). `allocated`
and `plain` are the secure buffers on the heap and those not yet wiped.

`QuicStatus`: a status is written as the signed number with its 32 bits, because
`QuicError(status:)` compares bits as an unsigned number (`AtLeast`) while
`failed` compares signed ones. `StatusOf` is the reference definition: the status
an error stands for.

## 3. Runs

| Run | Instance | States | Shows |
|---|---|---|---|
| `StreamSafety` | 1 starter, 2 closers, 1 sender, 2 RECEIVEs, refused flags | 435,662 | `NoDoubleResume`, `PendingIsHeld`, `OpenMeansUsable`, `NothingLost`, `KeepsHandleSafe` |
| `StreamLiveness` | same, 1 RECEIVE, accepted flags | 79,282 | calls return (`shutdown()` and `send` once both directions have ended), handle reclaimed, detached loop ends, closed is final |
| `Connection` | 2 starters, 2 closers, 1 peer stream, handlers missing or vetoing | 51,320 | safety, liveness and refinement of the connection |
| `Datagram` | 3 sends, 2 addresses, an event handler that may veto | 830,252 | resumed once, no context leaks; buffers live and answers are a send's own except after a late report (`MistakenAfterReuse`); sends return unless vetoed |
| `Listener` | 2 stoppers, 2 connections | 1,816 | who closes, nothing accepted after `stop()`, refinement |
| `Ownership` | 1 configuration, listener, connection, local stream and peer's stream; vetoes; patient and early applications | 238,120 | handles closed bottom up and before the library is, everything let go of is closed, every object refines `CallbackHandle` |
| `Configuration` | up to 2 protocol names, 4 credential types, a status of each range | 1,075 | buffers outlive their use, secrets wiped on every path |
| `StreamReaderHangs`, `StreamRestart`, `ConnectionShutdownRace`, `OwnershipCallbackDeinit`, `DatagramAddressReuse` | smallest that shows it | | a violation each, see section 5 |

Why the bounds are enough. A slot is contended by at most two tasks of a kind and
one callback, so that two closers (one waits, one comes) and one starter plus the
implicit start of a send cover every order; a second starter is what `Usage`
"restart" adds. One send covers completion and cancellation, since contexts are
independent. Two RECEIVEs give data before and after a loop began, or before and
after a shutdown. Two peer streams differ from one only in a count. Three datagrams
give one queued, one sent and one lost at once; with two addresses one of them is
used twice. Two connections let one be decided while another one is offered.

In the tree, one object of each kind gives every edge of the reference graph and
its longest chain (stream, connection, registration); a second connection or
stream is another branch that shares only the registration or the connection, and
the theorems of section 4 do not bound their number. Two protocol names are the
least with which the array scope follows more than one buffer.

Deadlock is not checked where a system may stop, when its object is closed or when
the application never calls again. `Configuration` checks it: after every call the
next one can be made.

### Fairness

Fair: the steps of a task inside a call and its return (the Swift executor runs
tasks), the return of a callback, `deinit` after the last release, the reader's next
element, the listener's handler (synchronous). Strongly fair: START_COMPLETE after
an accepted start, the end of a handshake, SHUTDOWN_COMPLETE of a connection that is
shutting down and of a stream whose directions have both ended, SEND_COMPLETE then.
Strong, because the worker delivers one event at a time and others may come in
between. Nothing is fair that the application or the peer decides: calls, dropping
references, data, FIN, resets, streams, the return of an asynchronous stream
handler, the verdicts of the event handler. So `ShutdownReturns` and `SendReturns`
of a stream begin where both directions have ended, and `SendReturns` of a datagram
ends also in a handler that vetoes.

In `QuicOwnership` the last event that is due, the two halves of a thunk's return
and every `deinit` are fair; in `QuicConfiguration` nothing is, it has safety
properties only.

### What is assumed of MsQuic

It is a binary dependency; the models take from it, and from how the handlers use
it, that: StreamStart and ConnectionStart are accepted once; a connection that was
asked to shut down gets one SHUTDOWN_COMPLETE, and so does a stream when both its
directions have ended, also if it was never started; all sends of a stream complete
before it; a datagram is reported sent or canceled, then possibly lost or
acknowledged, with the same context, and nothing more after SHUTDOWN_COMPLETE; a
report whose handler failed is not repeated; a refused connection stays MsQuic's and
gets no further callbacks; STOP_COMPLETE follows the return of every NEW_CONNECTION
callback; ListenerStop of a listener that is not listening delivers nothing;
handshakes end; the streams of a connection get their last event before it does and
share its worker; RegistrationClose blocks until every child is closed and never
returns on a worker that has to close one (both are comments of the code,
`Configuration/QuicRegistration.swift:88`); the buffers given to ConfigurationOpen
and to a synchronous ConfigurationLoadCredential are copied before the call returns.

## 4. Proofs

TLAPS proves, for every value of the constants (tasks, objects, bounds):

| Module | For any use | Under an assumption |
|---|---|---|
| `CallbackHandleProofs` | `TypeCorrect`, `HandleIsSafe`, `ClosedOnce` | |
| `QuicStreamProofs` | `TypeCorrect`, `NothingIsLost` | `StartedOnce`: `ResumedOnce`, `ContextIsAlive`, `ImplementsCallbackHandle`, `StreamClosedOnce`. `NoRefusedFlags`: `ClosedStaysClosed`, `WaitersAreAnswered`. `WithinContract`: `WaitersAreHeld`, `OpenIsUsable` |
| `QuicConnectionProofs` | `TypeCorrect`, `SuccessIsEstablished` | `OneStartAtATime`: `ConnectionImplementsCallbackHandle`, `ConnectionClosedOnce`. `OneStartAtATime` and one more: `StartUndisturbed` for `ResumedOnce`, `OneShutdownAtATime` for `WaitersAreHeld`, `NoVeto` for `WaitersAreAnswered` |
| `QuicDatagramProofs` | `TypeCorrect`, `ResumedOnce`, `ContextsAreTracked`, `BufferOutlivesSend`, `AnswerIsOwn`, `MistakenByALateReport` | `NoVeto`: `WaitersAreAnswered` |
| `QuicListenerProofs` | `TypeCorrect`, `NoDoubleClose` | `StartedOnce`: `StopIsFinal`, `ListenerImplementsCallbackHandle`, `ListenerClosedOnce`. `StopsListening`: `StopIsAnswered` |
| `QuicOwnershipProofs` | `TypeCorrect`, `BottomUp`, `NothingOpenAtClose`, `TreeImplementsCallbackHandle`, `NothingForgotten`, `RefusedForEver` | `PatientClosesOffWorkers` (of the behaviours whose `discipline` is patient) |
| `QuicConfigurationProofs` | `BuffersLive`, `SecretsAlwaysWiped`, `ErrorFaithful`, `AlertKept` | |

Each assumption excludes some use of the object and nothing else. Section 5 names
what breaks the properties of the runs outside it.

| Assumption | Excludes | Still allows |
|---|---|---|
| stream `StartedOnce` | a second `start()` | `shutdown()` before or during `start()`, from any number of tasks; refused flags |
| stream `NoRefusedFlags` | a second `start()`, flags that StreamShutdown refuses | the early `shutdown()` |
| stream `WithinContract` | a second `start()`, a `shutdown()` before the first returned | refused flags |
| connection `OneStartAtATime` | a `start()` beside another | overlapping shutdowns, a `shutdown()` inside `start()`, vetoes, a missing stream handler |
| connection `StartUndisturbed` | a `shutdown()` between the first look of `start()` at the state and ConnectionStart's answer | the rest |
| connection `OneShutdownAtATime` | a `shutdown()` beside another | the rest |
| connection `NoVeto` | an event handler that fails | the rest |
| datagrams `NoVeto` | an event handler that fails | the rest, on any heap |
| listener `StartedOnce` | a second `start()` | any use of `stop()` |
| listener `StopsListening` | `stop()` of a listener that does not listen | a second `start()`; overlapping `stop()`s, whose loser the theorem leaves out |

The assumptions on constants say that task names are distinct from the empty slot
(`TasksAssumption`, `StoppersAssumption`, `DatagramAssumption`), that an object is
of one kind (`ObjectsAssumption`), and that error numbers are small, positive and
distinct (`CodeAssumption`).

### The abstract life cycle

`CallbackHandleProofs` says what an implementation of `CallbackHandle` is worth: a
callback finds its object alive, `deinit` finds a handle MsQuic is done with, no
handle outlives its object (`Safe`), and the handle is closed by `deinit` only and
is the end (`ClosedIsTheEnd`). `StreamClosedOnce`, `ConnectionClosedOnce` and
`ListenerClosedOnce` carry both over along the refinement (`Promise`): no use after
free and no double close. The objects of the tree implement it one by one.

### The stream

`IInv` says what the code relies on and never states. `StartSlot` and
`ShutdownSlot`: a slot holds exactly the continuation that is pending, and only
while the state says so; that is why whoever takes from a slot may resume.
`OneStart`: until StreamStart answers, the stream is idle or was shut down, and the
start slot is that call's. `SendContexts`: MsQuic owns the context of every pending
send and of no other.

The hard part is a `shutdown()` that overtakes `start()`. The state then says open
or closed for reasons that have nothing to do with the handle, so the invariant
speaks of who waits: a `shutdown()` beside another overwrites the slot, and the one
pushed out waits for ever (`PushedOut`), but it still holds the object. While nobody
was pushed out, the `shutdown()` that has still to hear from StreamShutdown is the
one in the slot, so that its roll back takes no one else's continuation
(`OneCloser`). So either somebody was pushed out, and the object lives for ever, or
the closer whose SHUTDOWN_COMPLETE is due is in the slot and holds the object
(`CloserWaits`, `ShutAsked`). That is why a callback finds the object even after a
refused start released the self-reference (`SelfReference`, `EndedByCloser`): before
a start is answered the receive direction can be ended only by a `shutdown()`, and
without it no SHUTDOWN_COMPLETE is due. `WithinContract` adds `NoOverlap`, which
removes the pushed-out task.

`ClosedStaysClosed` adds `ClosedIsShut`: a closed stream is one MsQuic is done
with, or whose start it refused, so that no START_COMPLETE is due.
`NothingIsLost` rests on an invariant of its own, `Delivery`: what was delivered is
buffered or consumed, and the sequence is finished only when nothing more can come.
Each conjunct has a lemma, with one step per group of actions. The refinement maps
(`ObjectStage`, `HandleStage`, `callback`) to `CallbackHandle`; `StageStep` shows
each action to be one of its steps or a stutter.

### The connection

The invariant is built in layers, so that each theorem assumes no more than it
needs. `HandleInv` asks for one start at a time only: `Calls` (a task waits only
inside its call), `OneStart` (until ConnectionStart answers MsQuic does not connect),
`SelfReference` (after a refused start the object lives because the `shutdown()`
whose SHUTDOWN_COMPLETE is due holds it, `CloserWaits`). `PendingInCall`,
`Undisturbed` and `Slots` add that a slot holds a pending continuation, for
`ResumedOnce`; `StartHeld` and `ShutdownHeld` that a pending one is in a slot.
`SuccessIsEstablished` needs none of them: the only event that reports success is
CONNECTED (`EventEffect` says once for all four events what they may take from the
slots).

### Datagrams

`HeapInv` ties the views of a send together whatever addresses the heap gives out:
it is pending exactly while its address is a token, the token is retained, and no
two contexts in memory share an address (`OneHolder`). This is enough for a send to be
resumed once. Whose answer it is needs more: `OwnAnswer` says that a send whose
datagram is queued, or not yet handed over, still waits, and one that returned was
sent, unless it is `mistaken`; and a send becomes mistaken only when an earlier
datagram had its address, was sent and is finished by that report, its context
freed long before (`EndedThere`). Nothing is assumed of the heap or of the event
handler. `DatagramAddressReuse` shows that a mistaken send exists.

`WaitersAreAnswered` does need `NoVeto`: a send whose SENT report was vetoed waits,
and neither its datagram nor SHUTDOWN_COMPLETE need come back to it.

### The listener

`Verdicts` says that who may close a connection follows from the verdict on it: its
wrapper is let go of only if it was accepted, MsQuic closes it only if it was
refused. `Stopped` says that handlers run only between `start()` and STOP_COMPLETE,
which is why a handler that was running when `stop()` was called cannot accept
after it returned. `SlotIsListening` says that nobody is in the slot of a listener
that does not listen.

### The tree

`Tree` says which holders an object must have in each stage: one that is absent or
closed has none (`Unheld`), only connections are refused or vetoed (`Kept`), a child
is among its parent's references exactly while it exists (`Held`), the
self-reference lasts until the last event or a refused start, and for ever if that
event was vetoed (`SelfReference`), the thunk's as long as
the callback runs (`ThunkReference`). Bottom-up closing follows, with
`RefusedIsAlone` (a refused connection has no streams): a parent with an open child
has a reference and is not deinitialized. `Patience` adds that a patient
application keeps a wrapper through its last callback, so that the thunk never
drops the last reference; then no close runs on a worker, and one that is pending
when the library is closed would have to be the application's own.

`NothingForgotten` looks at a state in which no fair step is possible any more
(`AtRest` negates the guards of the actions of `Fairness`) and the application holds
nothing. Then everything but the registration is closed, from the streams up: an
open object without open children has no holder, so its `deinit` could go on. The
peer's streams, which keep nothing, need `PeerWithin`: their last event came before
their connection's. The registration may remain for two reasons and no other: a
refused or vetoed connection holds it, or it is being closed on a worker, where
RegistrationClose does not return. `RefusedForEver` proves the first to be
permanent, and the same of a vetoed connection; the second is
`OwnershipCallbackDeinit`.

### The buffers

`Scopes` ties `depth` to the call's progress, `allocated` and `plain` to the open
scopes: a pointer MsQuic may read points into a scope that is open, because all
scopes are open while the call runs.

### What the proofs leave to TLC

Liveness under fairness is beyond the prover. Its safety core is not: the theorems
`WaitersAreAnswered` and `StopIsAnswered` say that whoever waits still has a call to
make or an event to come (they leave out the waiters known to be lost: a stream's
`shutdown()` replaced by another, a connection's that stored its continuation after
SHUTDOWN_COMPLETE; a stream's `shutdown()` may have the peer's direction to wait
for), and `NothingForgotten` that a state without fair steps has nothing left to
reclaim. What only TLC checks is that fairness leads there: the properties of the
runs that use `~>`, on the instances of section 3.

The modules write case distinctions that proofs depend on with `IF`, because the
prover's translation of equalities between `CASE` expressions of three arms and
more is not reliable.

## 5. What the models show

Violations, each a run with a finding in `PROJECT.json`:

* `StreamReaderHangs`. SHUTDOWN_COMPLETE does not finish the receive sequence;
  only the peer's FIN or reset, or `deinit`, does. A loop over `stream.receive`
  that keeps the stream keeps `deinit` away, and hangs when the connection is
  lost.
* `StreamRestart`. `start()` on a started stream fails and releases the
  self-reference of a stream that MsQuic still calls back.
* `ConnectionShutdownRace`. SHUTDOWN_COMPLETE between the two locked sections of
  `shutdown()` leaves the call waiting for ever.
* `OwnershipCallbackDeinit`. The comment at SHUTDOWN_COMPLETE and STOP_COMPLETE
  says that the caller holds a reference, so that `deinit` does not run on the
  callback thread. But the caller is resumed inside the callback, while the thunk
  still holds the object: a caller that lets go when `shutdown()` returned may be
  faster, and then ConnectionClose runs in the connection's own callback, and
  after it the registration's close if nobody else holds that, which never
  returns. `src/Sources/SwiftMsQuicExample/main.swift:188` lets go in a task of
  its own, which makes this less likely and does not exclude it.
* `DatagramAddressReuse`. A late acknowledgement completes a later send whose
  context got the same address.

Beyond the documented use (give `Usage` the value in the `.cfg` to see it):

* stream, "closeDuringStart": START_COMPLETE sets open over shuttingDown
  (`OpenMeansUsable`), and a second `shutdown()` then replaces the first
  (`PendingIsHeld`);
* stream, "rejectedFlags": the roll back takes a closed stream back to its old
  state (`ClosedIsFinal`);
* connection, "concurrentStart": both calls pass the check; one is lost, a
  continuation is resumed twice, and the loser releases the self-reference
  (`PendingIsHeld`, `NoDoubleResume`, `KeepsHandleSafe`);
* connection, "concurrentShutdown": the first `shutdown()` is lost
  (`PendingIsHeld`);
* connection, "closeDuringStart": SHUTDOWN_COMPLETE resumes the `start()` that
  the failure path of ConnectionStart resumes again (`NoDoubleResume`);
* listener, "concurrentStop" and "stopIdle": a `stop()` that never returns
  (`StopReturns`); "restart": a listener started again is not retained
  (`KeepsHandleSafe`);
* tree, a "prompt" or "early" application: the registration may be closed on a
  worker, where RegistrationClose does not return (the part of `AllReclaimed`
  about the registration is stated for a patient application). For the same
  reason `ApiClose` is given to patient applications only: another one has no way
  to know that a worker still has a handle to close.

Known from the models and stated by no property: an object that is opened and never
started or shut down is never released, because only its last event releases the
self-reference; a peer's stream without a stream handler is never closed; a server
connection says `connected` before the handshake; a vetoed SHUTDOWN_COMPLETE keeps
the connection and its callers for ever, and so does a failing
ConnectionSetConfiguration a server connection, both with their registration
(`Leaked`; `ClosesInLibrary` and `AllReclaimed` say what still holds then); a vetoed
datagram report leaves its send waiting; a graceful `shutdown()` of a stream waits
for the peer to end its direction, and a later `shutdown(flags: .abort)` returns at
once without aborting anything, because the state says shuttingDown
(`Handlers/QuicStream.swift:319`); StreamClose of a peer's stream may come after
ConnectionClose (`ClosedBottomUp` leaves those streams out); `QuicError(status:)`
never makes `.serverBusy`; a credential that asks for asynchronous loading is
refused, which `BuffersOutliveUse` needs.

## 6. Not modelled, and the plan

What was planned, by how much can go wrong and how little a test would see, and
where it stands:

1. Done: stream, connection, datagrams, listener; their proofs.
2. Done: `QuicOwnership`, with the registration, the configuration, and opening
   and closing the library; its proofs.
3. Done: `QuicStatus`, `QuicError(status:)`, `withQuicBufferArray`,
   `withSecureBuffer` and the scopes of every credential type, with proofs.
4. What a further step would take: liveness of the tree with two connections, and
   a composition in which `QuicOwnership`'s objects are the full modules rather
   than their promises (its state space is out of reach for one of each).

Left out, with the reason:

* `QuicSettings`: the table of fields and IsSet bits. The positions of the bits are
  those of `msquic.h`, which is not in the repository; the scope around the
  structure is in `QuicConfiguration`.
* `QuicAddress`: a sequential conversion to `sockaddr` structures of the platform;
  no other model tells addresses apart.
* `QuicEventConverter` and the event types: a total map of C unions to enums,
  without state. The models take the converted events.
* Resumption tickets, connection and stream parameters: synchronous calls on the
  handle that change no Swift state. `onPeerCertificateReceived` passes the
  application's verdict through.
* `CertBridge.m`: straight-line conversions between OpenSSL's and Apple's types,
  each object released where it was created or handed over; nothing concurrent.
* Flags, certificate values, descriptions, the example program: no state.
* `src/Sources/SwiftMsQuicOpenSSLUtils/openssl/`: the vendored headers of OpenSSL.
  They are most of the repository's C lines and hold declarations of a third
  party's library, of which only `CertBridge.m` uses a few; there is no behaviour
  of this program in them. The program is the Swift code under
  `src/Sources/SwiftMsQuicHelper/`, which the models follow.
* The contents of data, addresses, tickets and error codes (beyond `QuicStatus`),
  and the memory layout of contexts: no property depends on them.
