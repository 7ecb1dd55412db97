# Verification of webauthn4js

WebAuthn4JS is a Node module that runs the Go WebAuthn library, compiled to Web
Assembly, behind promises and events. This directory holds TLA+ modules that
model it, TLC configurations that check them on small instances, and TLAPS
proofs of the properties that matter most for every instance.

## Inventory

| Component | Where | State | Operations |
| --- | --- | --- | --- |
| Instance life cycle | `index.js`, `main`/`exit`/`initialize` of `webauthn4js.go`, `run`/`_resume`/`wasmExit`/timeouts of `wasm_exec.js` | what the start-up awaits, `webauthn.methods`, `init_err`, `exit_called`, the process's listeners, the Go program, its timeouts, the promises of calls | makeWebAuthn, `global[uid]`, the `init` callback, API calls, option functions, `exit()`, `'beforeExit'`, the next tick, `go.exit`, the events |
| Value table | `storeValue`, `loadValue`, `finalizeRef` of `wasm_exec.js` | `_values`, `_goRefCounts`, `_ids`, `_idPool` | storing a value for Go, loading one, finalizing a reference |
| Option functions | `beginRegistration`, `beginLogin` of `webauthn4js.go` | the options made so far, the loop variable, `ccoErr`/`croErr` | making, applying, checking, answering |
| Finish calls | `finishRegistration`, `finishLogin` | none | verify and answer |
| Argument conversion | `_user`, `_begin` of `index.js`, `user.go` | none | base64, JSON |
| Example server | `typescript/example.ts` (`test/example/example.mjs` is the same in JavaScript), `test/example/session.mjs` | users with credentials and sign counts, the session key | GET/PUT register, GET/POST login, sealing and opening session data |
| Browser client | `test/fixtures/example.js` | none | both ceremonies from the other end |
| JSON schemas | `reviver` of `index.js`, `genschema.go` | none | resolving `$ref` |
| Command line, clock, output | `run`, `walltime`, `wasmWrite`, the fs stub of `wasm_exec.js` | Go's memory, the pointers to its arguments, `outputBuf` | laying out argv, starting Go, telling the time, printing |
| Calls between Go and JavaScript | `_makeFuncWrapper`, `_resume`, `valueCall`, `valueInvoke`, `valueNew`, `resetMemoryDataView` | `_pendingEvent`, the view of Go's memory, Go's stack | entering Go with an event, calling JavaScript, storing its result |

How they interact. JavaScript and Go run on one thread and call each other
synchronously: an API call enters Go through `_resume`, the handler runs to its
end, and on the way Go invokes the application's option functions, which may
enter Go again. `wasmExit` happens inside such a call: it deletes the instance,
calls `go.exit`, which emits events to the application's listeners, and then
returns to a JavaScript stack whose Go frames are gone. The example server calls
an instance from asynchronous route handlers: a handler runs until it awaits a
promise, other handlers run until it is resumed, and what it read before may have
changed. It gives the session data of a ceremony, encrypted, to the browser, which
sends it back with the second request.

What is hard to test. What interleaves is nesting rather than threads: exit()
inside an option function, a call inside an event, a second exit from
`'beforeExit'` or the next tick, a fatal error of Go in the middle of a call, a
timeout of the Go runtime after it has exited, an `'error'` event that throws
because nobody listens, a result stored at the stack pointer of a stack that has
moved. In the server handlers do interleave, and requests come twice, late, with
the wrong session data or after a restart. The table of values is a long-running allocator whose
frees are the garbage collector's. `PROJECT.json` lists each hazard with its line
and the properties that cover it.

What makes each component correct. Life cycle: makeWebAuthn settles exactly once,
calls are answered exactly while the instance is open, an exit happens once and is
announced in order, the process survives. Table: a reference always loads the
value it was made for, values are neither freed early nor kept forever. Options:
every function is applied once and in order, and no failure is hidden. Server: one
owner per credential, sign counts go back and assertions are accepted twice only
where logins overlap, a session is good for one user, one kind of ceremony, one
process and one minute. Command line, clock and output: arguments are found whole
and do not reach Go's data, the time is exact, lines come whole and in order.
Calls: every entry into Go gets its own event and returns its own result, and
results reach Go.

## Modules

`Lifecycle` is one instance. The variable `stack` holds the calls in progress,
innermost last, as frames:

| Frame | The code that is on the stack |
| --- | --- |
| `run` | `go.run`, Go's `main` |
| `init` | Go's `initialize`, called by `global[uid]`, and its callback |
| `api` | a Go handler serving call `call`, with `n` option functions still to invoke |
| `opt` | an option function of the application |
| `goExit`, `exitEmit`, `exitDone` | `go.exit` at its start, before `emit('exit')`, and at its end; `n` is the code, `from` who had entered Go |
| `onError`, `onExit` | a listener of the application |

An empty stack is the idle event loop. Each action is a stretch of code up to the
next point where application code or Go may take over. `go` is `main` until Go
waits for an exit code, and `exited` from `wasmExit` on. `CheckedExit`,
`ReportError`, `Callback` and `Throw` are the functions `checked_exit`, `error`,
`cb` and an exception that unwinds Go; they are operators because several actions
call them. `events`, `requested`, `cbCalls`, `crashed` and `lateExit` are
histories that properties speak about.

`InstanceContract` is what an application may rely on, over three variables: the
promise of makeWebAuthn, the events, and the promises of calls. Lifecycle has the
same variables among its own, so the refinement is
`INSTANCE InstanceContract WITH ErrorCodes <- 1 .. (CodeModulus - 1)`.

`RefTable` is the value table. `held` is what Go holds, from each reference to how
often it is held; `StoreKnown` and `StoreNew` are the two ways through
`storeValue`, `Finalize` is `finalizeRef`. Go sets no finalizer for the values in
`Plain`. Numbers other than 0 and undefined travel in the reference, NaN has slot
0 and BigInts are never finalized: they are left out, and slots are numbered from 1
as the ids are.

`Handles` is what the Go program may rely on: a value has one handle, which is free to
choose but refers to that value alone from the first reference to the last; preset
handles stay. It knows nothing of the pool. `RefTable` implements it (`KeepsHandles`) with
the ids in `_ids` for handles, each with its value and with the references Go holds.

`Options` is one call of `beginRegistration` or `beginLogin`. An option captures
the number of its function, or `TheVariable` where the closure refers to the loop's
variable; `cxo` is the list of functions that have modified the options.

`Server` is the example server with everything that sends requests to it. A handler
is a member of `Requests`; its `pc` is the await it waits at, and each action is a
segment of a handler between two awaits:

| Route | Segments |
| --- | --- |
| GET /register | `RegisterGet` (to beginRegistration), `Seal` or `BeginRefused` |
| PUT /register | `Arrive`, `Verify` (after the box is opened), `FinishRegistration`, `CommitRegistration` |
| GET /login | `LoginGet`, `Seal` or `BeginRefused` |
| POST /login | `Arrive`, `Verify`, `FinishLogin`, `CommitLogin` or `RefuseLogin` |

A call of the library awaits a promise that is settled in the same turn, but its
handler goes on in a later one, and so does a handler that awaits the encryption;
`FinishRegistration` is the call, `CommitRegistration` what follows. Requests that are
answered in their first segment (a schema or a missing user) change nothing and are left
out. `BeginRefused` is a begin call that rejects: its ceremony never goes out, but a user
that GET /register created for it stays.
`ceremonies` is what went out to browsers and what they made of it: it outlives the
server, and `Arrive` takes any session data and any response from it, so requests
may be repeated, delayed, lost, reordered or mixed. `Create` and `Get` are the
authenticators; a credential has the challenge it was created for as its name. So
the 409 of PUT /register is reached by a second PUT of one registration, never by an id
that another user happens to have: of the loop over the users, that half is not shown.
`Matches`, `Owns` and `CloneWarning` are what the Go library verifies. `accepted`,
`replayed` and `raced` are histories.

`Registry` is what the server promises of credentials: one place each, which stays
until a restart, and logins by the user who has it. `Server` implements it with
`places` computed from `users` and `logins` from `accepted`.

`WasmExec` composes two modules about `wasm_exec.js`. `GoRuntime` lays out the command
line in Go's memory (`StrPtr`, `Table`, `Start`), tells the time and prints. What Go
writes are bytes, and `Decode` is `decoder.decode(buf)`, which takes each write for a
whole text: a character of two bytes of which one is missing is replaced, as is any
malformed byte, and a byte order mark in front is dropped (it is one byte here). The
history `intact` says that this has not happened because of where a write began. `Bridge`
is the stack of entries into Go and calls of JavaScript: `CallWrapper` and `Timeout`
enter Go, which takes the pending event, calls JavaScript, moves its stack or grows
its memory, and pauses; `JavaScriptReturns` and `JavaScriptThrows` store what Go
expects at the stack pointer, through the view. An entry knows the event it was made
for (`own`) and the one it took (`event`).

`CallOrder` is what JavaScript may rely on when it calls functions of Go, some of them
while others wait: each call is answered once, with its own answer, and calls that wait
for one another are answered in the reverse order. `Bridge` implements it
(`KeepsCallOrder`): the calls that wait are the events the frames of the stack are for,
and the answers are what the wrappers returned.

`Schemas` is the reviver that is to replace references in the exported schemas.

In each module a definition named for a mistake and placed before another is a
variant of it that a slip in the code would produce; `PROJECT.json` says which
property notices. Nothing else uses them.

## Runs

| Run | Shows |
| --- | --- |
| `lifecycle` | type invariant, five safety invariants, two action properties and the refinement of InstanceContract |
| `lifecycle_live` | the three liveness properties |
| `reftable` | type invariant and four invariants of the table, and the refinement of Handles |
| `options` | both begin calls with functions that succeed, fail or throw |
| `server_logins` | overlapping, repeated, mixed and late logins and registrations of two users with two authenticators: five invariants and an action property about credentials, logins and counts |
| `server_ceremonies` | two users, time and a restart: session data is good for its user, kind, process and time; `EveryRequestAnswered`; the refinement of Registry |
| `wasm_exec` | seven invariants of the layout, the clock, the output and the calls between Go and JavaScript, and the refinement of CallOrder |
| `doc_exit_fires`, `doc_nonzero_errs`, `doc_login_options`, `doc_login_failure`, `doc_schemas` | a statement of the documentation or of the code that the code refutes (`findings`) |

Bounds. `Calls`: two calls, so that one may be nested in the other or follow it;
with `MaxOptions = 2` a call goes on after an option has returned, and calls do not
interact in any way that takes a third. `CodeModulus = 4` is 2^32 made small;
`Codes` holds success, failure and the code that wraps to 0. `RefTable`: null and
one preset object, three others, up to two references to each value, which is
enough to free two ids and hand them out in either order while a third is held.
`MaxOptions = 3` in `options` gives a failure before and after a success. Calls and
objects are symmetric where only safety is checked.

`server_logins`: a registration and two logins, or two registrations and a login, and
two handlers are the least with which a login is repeated or overlaps another, and a
registration another; two users are the least that may be taken for each other; time
stands still there, but the server may restart, so that a login of an earlier process
comes to one that has registered its credential again. `server_ceremonies`: two users with a
ceremony each, of which one began before the restart or the timeout. `MaxNow`,
`MaxCeremonies` and `MaxRestarts` bound the counters. `wasm_exec`: strings whose length
is 6, 7 and 0 modulo 8, of which two fit below `Limit`, fit but for the table, or do
not; words of two bits, so that four bits hold the time and its high word comes near
the sign; four pieces of output, that end or go on in the middle of a line and of a
character, or start with a byte order mark, up to six bytes; three events and five frames nest two calls in a third, with one movement of
the stack and of the memory. `doc_schemas`: three schemas and two definitions.

Deadlock is checked for `reftable`. The other systems may stop: an instance whose
calls are made and whose Go program has exited, a call that is answered, and what has
reached the bounds of its counters.

Fairness. `FairSpec` asks weak fairness of `Internal` only: random bytes, the file
and the compilation answer or fail, a tick that is queued runs, code that is on the
stack runs on, and the application's callbacks return. `StartSettles`,
`CallsSettle` and `ExitReported` are about these steps alone. Nothing is assumed of
exit(), `'beforeExit'`, crashes, timeouts, or the application's wish to call. In
`Server` a handler that waits is resumed: its promises are those of sodium and of the
instance, which settle (`CallsSettle`) as long as the instance is open. Nothing is
assumed of browsers, of time or of the server's restarts.

Assumptions of Lifecycle. Listeners return normally and the application catches
what exit() throws; an option function may throw, which is a panic the handler
recovers and answers with. A crash of Go is a fatal error that reaches `wasmExit`
with code 2; traps of the Web Assembly engine are not modelled. A timeout that resumes
Go (`TimerFires`) has no frame of its own, so Go does not crash inside it, and the loop that
resumes Go again if it missed the event (wasm_exec.js:274-279) is left out. A handler that is
running has its options only from the call's arguments. The callback of
makeWebAuthn is the promise's, so it does not throw.

## What the properties say

- `CallbackOnce`, `StartSettles`: whichever of the catch, the `init` callback and
  `go.exit` gets to makeWebAuthn's callback, it is called once, and it is called.
- `NoLostCall`, `CallsSettle`: no call stays pending, unless a fatal error of Go
  took it, and then both events have told the application.
- `ExitEntersOnce`: `exit_called` does its work; only a crash can make
  `methods.exit` throw, and after `'exit'` neither exit() nor `'beforeExit'` does
  anything.
- `ExitCodeReported`, `EventOrder`, `ExitReported`: what is announced, with which
  code and in which order, and that it is announced.
- `AnsweredByLiveGo`: nothing is answered by a program that has exited.
- `ProcessSurvives`: the three ways in which the process can die of an uncaught
  exception, and no other: a timeout left behind by Go, a fatal error before the
  application had the instance, and one that nobody listened for.
- `KeepsContract`: all of it seen from the application.
- `CredentialOnce`, `CredentialsBelong`, `ImplementsRegistry`: although the server
  checks for a credential after an await, it stores it once and for the user it was
  made for. That the user ids are given out again after a restart does no harm: the
  key is new.
- `LoginsBelong`: an accepted login answers a ceremony that this process began for that
  user, with a credential the user has, and goes on having.
- `ExcludedStaysOut`: an authenticator gets a second credential of a user only if two
  registrations overlap, because what to exclude is read when a registration begins.
- `ReplayedOnlyIfRaced`, `CountGoesBackOnlyIfRaced`: session data may be used again;
  what makes the server refuse an assertion that comes twice is the sign count alone.
  `finishLogin` compares it with the count it was given, and the server writes it after
  the await: two logins that overlap both pass, and the older count may be written
  last. From then on, even a later copy of an assertion may be accepted. Both
  properties say that nothing else lowers a count or lets an assertion through twice,
  except that an authenticator which does not count never gives a warning.
- `ArrivedInTime`, `CredentialStillThere`, `EveryRequestAnswered`: what may be relied on
  after each await. `ArrivedInTime` takes a clock that does not go back.
- `OwnEventTaken`, `OwnResultReturned`, `ResultsReachGo`: one `_pendingEvent` is enough
  for any nesting, since Go takes it before it runs anything else; and `getsp()` after
  the call, with `resetMemoryDataView`, finds where the result belongs. `KeepsCallOrder`
  is the first two as the caller sees them: the right answer, once, in the right order.
- `LoadsRight`, `OneIdPerValue`, `PoolIsFree`, `KeptOnlyWhileHeld`: ids are used again and
  nothing is freed early, twice or never. `KeepsHandles` is what that comes to for Go, over
  the whole life of a handle; that preset handles stay (`PresetStay`) is part of it.
- `ArgumentsIntact`, `GoDataUntouched`, `WalltimeExact`: what Go gets from `run` and its
  services.
- `OutputInOrder`: what Go prints comes out once, in order and in full lines; a line that
  Go never ends is never printed. The characters are those of all the bytes together only
  as long as no write starts inside a character or with a byte order mark: then they are
  replaced or dropped. The number of lines is right all the same.

## Proofs

The modules named `..._proofs` prove, from the named assumptions on the constants
alone, what their theorems say of `Spec`, that is, for any number of calls, codes,
values, references, options, users, requests, ceremonies and so on. Only `ExitFires`
has a hypothesis besides, on who listens.

- `Lifecycle_proofs!Typing`: the type invariant, which is inductive as it stands.
  Lemmas give the types of pushing to and popping from the stack and of each kind of
  frame; the theorem has a step per action.
- `LifecycleStack_proofs`: the invariant `IInv` that the safety of Lifecycle rests on.
  None of its properties is inductive: that a call is never lost, say, needs to know
  which frame on the stack serves it, and that an exit below an option function will
  return into a handler that fails. `IInv` says what may lie where (`StackInv`: under an
  option its handler, under a listener `go.exit`, under a handler or an exit the
  application; what each frame knows of the promise, the events and its call), that
  `go.exit` has one frame and a call one server (`UniqueInv`), how the start-up and the
  exit go together (`StartInv`, `ExitInv`), and where the pending calls are
  (`PendingInv`). There is a lemma per action, `NextIInv` puts them together. A step
  after the start-up leaves the lower frames alone; `Keeps` says when, and
  `KeepFrames` that the invariant then holds of them.
- `LifecycleSafety_proofs`: from `IInv`, all the safety properties of Lifecycle
  (`CallsBackOnce`, `LosesNoCall`, `ExitsOnce`, `ReportsCode`), its action properties
  (`Survives`, `AnsweredLive`) and the refinement of InstanceContract (`Refinement`:
  each kind of step is an action of the contract, or none). `EventsInOrder` then
  follows from the contract. `ReportsCode` needs one more invariant, that the frame of
  `go.exit` carries the code that was asked for (`CodeInv`). `SettledIsFinal` says what no
  step changes any more: an outcome of makeWebAuthn, that of a call, and the events once
  'exit' is among them.
  `ExitFires` and `NonZeroReported` prove of the two statements of `index.d.ts` that
  `doc_exit_fires` and `doc_nonzero_errs` refute as much as the code keeps. 'exit' follows
  unless Go crashed, provided somebody listened to 'error' when the code asked for is not
  0 as an int32 (`Listened`); for this, what was asked for and has not been announced is
  in the frame of `go.exit` (`AskedInv`). And 'error' comes before 'exit' for every code
  that is not 0 as an int32.
- `RefTable_proofs`: `LoadsRight` is not inductive. That finalizing one reference
  leaves the others right needs to know that the count of a slot is the number of
  references to its present value (`CountInv`), that every reference is to a slot in
  use (`HeldInv`), that the ids are the inverse of the slots in use (`IdsInv`) and
  that the pool holds exactly the others (`PoolInv`). Their conjunction is `IInv`; the
  lemmas `StoreKnownIInv`, `StoreNewIInv`, `FinalizeSome` and `FinalizeLast` show that
  each operation keeps it, and the theorems `References`, `Presets`, `Identity`,
  `PoolFree`, `NoLeak` and `Typing` follow. `Refinement` takes each operation to a step of
  Handles: `StoreKnown` to a further reference, `StoreNew` to the first, since the id
  from the pool or past the end is not in use (`PoolInv`), and `Finalize` to the drop of
  one, since the count it goes by is what Go holds (`CountInv`).
- `Options_proofs`: each option of beginRegistration has captured its own function
  (`CaptureInv`), a failure is noted or was an exception (`FailureInv`), and the answer
  is given only after all options were applied (`PhaseInv`): `AllApplied`,
  `NoFailureHidden` and `Typing`. For beginLogin, `LastApplied` proves what happens instead of
  what is documented, the last function being applied once for each, and `OneApplied` that
  this is the same thing for one function or none. `HandlerEnds` proves that a number of
  steps left falls with each step: the part of liveness that needs no fairness.
- `Server_proofs`: the inductive invariant `IInv` says for each `pc` of a handler what
  it has established (`SealInv`, `WaitInv`, `VerifiedInv`, `CommitInv`), and of the data
  that ceremonies, users and accepted logins fit together (`DataInv`). What a handler
  has checked stays true while it waits, because ceremonies and users only grow
  (`Grows`): that is `WaitingStays`, on which each action's lemma relies. `Typing`,
  `StoredOnce`, `StoredRight`, `FoundAgain` and `NotTooLate` follow. `Refinement` maps
  each kind of step to one of Registry or to none; that a place is within the
  challenges is a pigeonhole argument on distinct credentials (`Fits`). `CountsForward`
  needs that a login that saw the stored count writes no less (`LoginWrites`). `UsersStay` is
  the reason why an await does no harm to anything but counts: within a process, users
  keep their ids and credentials, and ceremonies what was recorded of them. `LogsInAsThemselves`
  rests on it: what was checked at `FinishLogin` still holds of every accepted login.
  `StaysOut` and `NoReplay` have invariants of their own: every registration that began
  after a credential was stored excludes it (`ExcludeInv`), and the stored count of a
  credential that was not raced is the highest accepted (`ReplayInv`).
- `WasmExec_proofs`: only the innermost entry into Go may be without its event, which is
  then the pending one (`ResumedInv`), and the view is of the current buffer
  (`ViewInv`): `TakesOwnEvent`, `ReturnsOwnResult`, `FindsResults`, `BridgeTyping`. `AnswersInOrder`
  is the refinement of CallOrder; it needs that the events of the frames rise from the
  bottom of the stack to its top (`OrderInv`), so that the innermost entry, which is the
  one to return, is the latest call that waits. The
  layout's invariant says which strings and pointers have been written below `offset`,
  so that what is written next leaves them alone: `FindsArguments`, `LeavesGoData`.
  `ClockRight` is arithmetic of words: the high one is never taken for negative.
  `PrintsInOrder` needs that a text has a last newline, which is the least element of a
  well-founded order: no induction over its length. That texts which are `Apart` are decoded
  together as they are one by one (`CharactersConcat`) looks at each byte and its
  neighbours, and that decoding changes no newline (`DecodeFacts`) is about the set of
  their places.

Only model-checked: liveness (`StartSettles`, `CallsSettle`, `ExitReported`,
`EveryRequestAnswered`), which is out of the prover's reach. The invariants were checked
with TLC before they were proved.

## Not modelled

The cryptography and the data formats of WebAuthn, which are the Go library's: the
finish calls are modelled by which session, user, response and count they accept, not
by signatures, origins and attestation. Argument conversion (`_user`, `_begin`,
`user.go`) rewrites one value at a time and keeps no state: what it does is characters,
which no other part tells apart. Of `wasm_exec.js`: the fs and process stubs other than
`writeSync`, which answer ENOSYS, random data, `copyBytesToGo` and `copyBytesToJS`,
strings and the access to properties, which copy data without keeping any. Of the
server: requests that its schemas or the first lookup refuse, static files, TLS. Of the
browser: the page. `genschema.go` is a call of a generator; builds, tests and
declarations have no behaviour of the program, and what `index.d.ts` promises is
checked by the `doc_` runs.

## Plan

Done: `Lifecycle` with `InstanceContract`, `RefTable`, `Options`, `Server` with `Registry`
(browsers and lossy, repeated and reordered requests included), `WasmExec` from
`GoRuntime` and `Bridge`, `Schemas`, the abstract specifications `Handles` and `CallOrder`,
and the proofs above.

Left:

1. `Lifecycle` and `RefTable` together: what the finalizers of a program that has exited
   can still do to the table.

Liveness stays with TLC. Of its safety part, that internal steps cannot go on for ever,
`HandlerEnds` has what concerns `Options`; in `Lifecycle` the measure would be a sum over
the stack, which needs induction over data.
