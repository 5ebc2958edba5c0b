# A TLA+ model of bloop-client-framework

The framework is a Rust crate for clients of the Bloop protocol. This directory
holds a model of it in TLA+, the TLC configurations that check the model on
small instances, and TLAPS proofs of its main properties for all instances.
Line numbers refer to `src/src/`.

## The system

| part | source | model |
|---|---|---|
| connection task: select loop, commands, ticks, connection attempts, on-connect hook | `client.rs` 487-708 | `ClientTask` |
| client handle and command channel | `client.rs` 105-115, 314-485, 710-722 | `ClientHandle` |
| builder | `client.rs` 117-305 | initial state and constants |
| connection, session, handshake | `connection.rs` | `Connection`, steps in `ClientTask` |
| response decoding | `request.rs` | `DecodeResponse` in `Connection` |
| status watch | `client.rs` 43-78, 697-707 | `ConnectionLifecycle` (what it promises) |
| server and network | not in the repository | `Connection`, marked external |
| audio cache | `audio_cache.rs` | `AudioCache` |
| NFC reader channel | `nfc/mod.rs` | `NfcReader` |
| MFRC522 backend | `nfc/mfrc522.rs` | `Mfrc522`, `TagRead` |
| NDEF parsing | `nfc/ndef.rs` | `Ndef`, checked in `TagText` |
| audio playback | `audio.rs` | `Playback` |
| TLS set-up | `tls.rs` | not modelled: stateless set-up of a library |

An application builds a `BloopClient` and clones it. Each clone puts commands
(configure, request, shutdown) into one bounded channel. A background task takes
them out one at a time, and between commands a ticker makes it ping the server
or try to connect. The task owns the only connection, so exchanges never
overlap. What the application sees of the connection is a watch of
`ConnectionStatus`.

The other parts stand beside the client. An `NfcReader` is cloned like a client; a
thread of its own serves the requests one at a time and polls the chip for as long
as a wait lasts. The audio cache downloads through the client (or a session in the
hook) into a directory. A playback is a task of the runtime's blocking pool and a
handle that ends it when dropped. They share no state with each other, so they
are checked apart; reader, backend and parser are one model.

## Modules

```
Connection          stream to the server, frames, faults, the server
  ClientHandle      handles, calls, the command channel
    ClientTask      the background task
      BloopClient   composition, properties, fairness
        MCBloopClient      the symmetry set for TLC
        BloopClientProofs  type correctness
          LifecycleProofs    status watch, latch, refinement, handshake, shutdown
            ExchangeProofs     serialization, answers, order of commands
ConnectionLifecycle abstract specification of the status watch
AudioCache          ensure and sync over a directory
  MCAudioCache        the symmetry set for TLC
  AudioCacheProofs    types, files under final names, completeness of sync
Ndef                TLV parser and record parser, as operators
  TagRead             read_ndef_text, block by block
    NdefProofs          the parser, fed in one chunk or in blocks
    TagText             the read on tags, against the NDEF format
      MCTagText           the tags for TLC
      TagTextProofs       the text that is read (uses NdefProofs)
NfcReader           handles and the channel to the backend
  Mfrc522             backend thread, chip and cards (uses TagRead)
    MCMfrc522           two cards for TLC
    ReaderProofs        answers and failures (uses NdefProofs)
Playback            handles, blocking pool, playback tasks
  PlaybackProofs      cancelled and completed playbacks
```

**Connection.** `stream` is the Rust value `Connection` and what is in flight on
it: frames going `up`, replies coming `down`, whether the server end is `open`,
what the server knows of the client (`stage`), the payload `limit` and the
credentials it was opened with. `told` is history: the client has read a fatal
error on this connection. The client never holds two connections, so one
variable stands for the local of `try_connect` and for `self.connection`. A frame
carries who sent it and the number of the call, a reply carries the frame it
answers: this is what the properties about crossed replies need, and all the
payload there is. `DecodeResponse` follows `decode_response`: protocol errors
first, then the expected type, then everything else. Every misbehaviour of the
environment (a reset, a late or lost answer, a refusal, an unjustified rejection,
an error of the hook) takes one unit of `MaxFaults`. A read timeout on a stream
nobody will answer costs nothing, since the code always leaves that await.

**ClientHandle.** One clone of the handle per caller, one call at a time.
A call is `sending` while it waits for room and `awaiting` while it waits on its
oneshot. `Cancel` drops the future at either point; the command, once sent, stays
sent. `shutdown(self)` consumes the handle. All request methods share
`send_request` and differ only in message and response type, so they are one
action. `accepted`, and `want` and `late` in a command, are history variables:
the last configuration and any shutdown accepted before it.

**ClientTask.** Between two awaits the task runs alone, so an action is the code
from one await to the next and `pc` names the await: `select`, `request`, `ping`,
`connect`, `negotiate`, `authenticate`, `hook`, `hook_call`, `hook_failed` and the
four places where `quit().await` is called. Callers and the server move while the
task awaits. `connected` is `self.connection.is_some()`. The hook is application
code: it makes any number of exchanges and then does one of the things
`HookOutcomes` lists. A hook as the documentation wants it propagates a failed
exchange as an error; `tolerate` and `panic` are hooks that do not. A hook may also
have captured a clone of the handle, `HookHandle`: it makes requests and configures
through it (`HookUsesHandle`) and waits at `hook_waits` for the task it runs on. The
timeout around the hook drops the call it waits for, and a command already sent stays
in the channel. The clone lives as long as the task, which owns the hook. A shutdown
through it is left out: it would consume a further clone on every attempt.

**ConnectionLifecycle.** Which status may follow which, with no task, channel or
connection. `BloopClient` implements it with `status` and `config` mapped to
themselves.

**AudioCache.** `files` is the directory, a function from names to contents, and
all that survives a `Crash`; `counter` is `TEMP_COUNTER`, which restarts at zero.
A task is in one call of `ensure` or `sync`, at one of its awaits: `prune`,
`remove`, `lookup`, `retrieve`, `create`, `write` (the temporary file is open),
`rename`; `next` is the head of the loop over the records. A file is known by who
writes it and whether it is whole, audio by its hash, and the provider by its
outcomes: data, a refusal `sync` skips, any other error (`Abandon`).

`Abandon` is also a dropped future, as when the timeout of the hook strikes. tokio
runs file operations on its blocking pool and does not call them back: a removal,
creation or rename that was awaited stays in `late` and takes effect at any later
time (`LateOperation`), or never. `kept` (the files a sync failed to remove) and
`quiet` (nothing was outstanding in `late` when the call began) are history.

**NfcReader.** A call is `sending` while it waits for room, `awaiting` while it
waits on its oneshot, and can be abandoned at either point (the module
documentation promises that calls are cancel-safe). A oneshot is identified by the
number of its call: its response is closed once the caller is not in that call
any more.

**Mfrc522.** `pc` is where `serve` is: `recv`, the loop of the operation it
serves, `again` between the two `wupa` of `check_for_release`, `send`. One action is
at most one command to the chip, and cards come and go between any two. The
exception is `select_target`, whose `reqa` and `select` are one step: a card that
leaves between them makes `select` fail, which counts as no card, and one that comes
between them has not heard the `reqa`. `entry`
tells `spawn`, which returns a reader only after a successful `init`, from
`serve_blocking`, whose caller has the channel before. The chip is external: a
command may miss a card that is there, but not two in a row (225-229 describe this
flicker); of several cards it reports a collision, or one of them on selection; a
card keeps the selection until it is taken away or addressed anew. A UID of
unusable length panics (281) and ends the thread. `seen` is a history variable,
what lay on the reader during each call.

**Ndef, TagRead, TagText.** The parser and the record parser are operators on byte
sequences, with the states, the lengths and the order of checks of the code.
`TagRead` feeds them the blocks `read_ndef_text` reads; `Mfrc522` takes these steps
for the card selected, `TagText` for a whole set of tags. `TagText` also defines
what a tag with a given message looks like and which texts a message carries
(`Stream`, `Memory`, `Texts`). These are written from the NDEF format, as conditions
on the bytes. With the parser they share the test of a bit of the flags (`HasBit`)
and what well-formed UTF-8 is (`IsUtf8`, standing for `String::from_utf8`), nothing
else. `TakenForText` lists the two kinds of payload that carry no UTF-8 text by the
format and are read all the same (see below).

**Playback.** The task goes from check to check: `queued`, `opening`, `decoding`,
`starting`, `playing`, `sleeping`, `done`. The handle is held, dropped, detached or
resolved. The loads of the flag are `Relaxed`; a load is modelled as reading the
current value. A store that is seen late is like a drop that comes later, so
`NoStrayBlip` and `NoLateSound` count a handle as dropped from when the task can see
it.

## Runs

The `client_` and `_hook` runs and `shutdown_on_full_channel` use module
`MCBloopClient`, the `cache_` runs `MCAudioCache`, the `tag_` runs `MCTagText`,
`nfc_reader` uses `MCMfrc522`.

| run | question | states | result |
|---|---|---|---|
| `client_safety` | all safety properties, Latch policy | 1,985,441 | holds |
| `client_liveness` | do calls return, is shutdown published, does the client reconnect | 74,340 | holds |
| `client_retry` | status and reconnection under Retry; a hook that calls the client | 57,036 | holds |
| `shutdown_on_full_channel` | does every shutdown() end the client | | violated |
| `tolerant_hook` | replies stay matched when a hook hides a failed exchange | | violated |
| `panicking_hook` | does Disconnected mean that somebody retries | | violated |
| `cache_sync` | what a call that returns Ok leaves in the directory | 1,727,027 | holds |
| `cache_shared` | final names with two tasks, faults and a restart | 511,552 | holds |
| `nfc_reader` | are answers true, are calls held up | 390,063 | holds |
| `tag_text` | does a read return the text on the tag | 22,928 | holds |
| `tag_control_blocks` | also behind a lock control block | | violated |
| `playback` | do drop, detach and await do what they promise | 56,007 | holds |

The safety properties in `BloopClient.tla`:

- `StatusTruthful`: back in the select loop, the watch agrees with the connection
  held, its capabilities, the configuration, the last attempt and the shutdown flag.
- `LatchHolds`: rejected credentials are not presented again under Latch.
- `StrictlySerialized`: what is in flight belongs to the one exchange awaited.
- `NoCrossedReplies`: a call returns with the reply to its own request.
- `ServedUnderLatestConfig`: a request behind a configure is never served over a
  connection opened with older credentials.
- `LateRequestsRefused`: a request behind a shutdown fails as `Shutdown`.
- `HandshakeGate`: limit, credentials and requests wait for their handshake step.
- `FatalEndsConnection`: a connection on which a fatal error was read is never held
  as connected again, and nothing but the farewell is sent over it.
- `ShutdownIsFinal`: after Shutdown is published nothing is connected or written.
- `ImplementsLifecycle`: the abstract specification.

And its liveness properties:

- `EveryCallReturns`: no call waits forever, whatever server, hook and other callers
  do. `client_liveness` checks it with callers that drop their calls, `client_retry`
  with a hook that waits for the client it runs in.
- `ShutdownPublished`: an accepted shutdown, or the loss of the last handle, ends in
  the status Shutdown.
- `StaysConnected`: a client with good credentials ends up connected, unless these
  very credentials were rejected under Latch. A rejection from before the last
  configure is no excuse: the latch must not outlive its configuration.

And in `AudioCache.tla`:

- `CachedFilesWhole`: a file under a final name is whole, since the existence check
  would keep a bad one forever.
- `SyncSettles`: after an Ok every record's file is there or its id is reported, and
  after a `sync` nothing else is there but files that this very sync failed to
  remove. Earlier failures, dropped calls and crashes are no excuse for leftovers.
  This is claimed for a cache used by a single task, as 146-148 asks, and for a call
  that began with nothing outstanding of a dropped one (see below).

In `Mfrc522.tla`:

- `AnswersAreTrue`: a card that is reported was on the reader during the call, and
  at some time of a call that reports a removal there was not exactly one card.
- `TextIsOneCards`: a text is the text of one card that was there during the call.
- `DisconnectedMeansGone`: `Disconnected` is returned only if the thread has ended.
- `OnlyLiveWaitsBlock` (liveness): in the end every call has returned, and the thread
  has ended if its handles are gone, unless it waits for a card on behalf of a
  caller that still wants to know.

In `TagText.tla`:

- `ReadsExactlyTheText`: of a tag with null bytes before its message the text is
  returned if the message is a text record in reach, and nothing else ever is. One
  case is excepted, and two kinds of payload count as text (see below).
- `AddressInRange`: block addresses fit a byte and lie inside the tag's memory.

In `Playback.tla`:

- `NoStrayBlip`: a playback dropped before the pool took it up never gets the device.
- `NoLateSound`: one dropped while the device is opened or the source decoded is never
  heard.
- `OkMeansPlayed`: one that was not dropped returns Ok only when played to the end.
- `DroppedFallsSilent`, `PlaybacksEnd` (liveness): a dropped playback that runs ends;
  every playback with an end ends, unless endless ones occupy the whole pool.

Bounds. Two callers are needed for everything that needs another clone (a
configure or shutdown racing a request). Two calls per caller give a cancelled or
failed call a successor that could receive its answer. A channel of two makes
commands overtake nothing but pile up; the liveness runs use one, so that senders
wait. One fault is enough for a late answer, a lost connection or an unjustified
rejection at any point. In the Retry run the bad configuration is rejected without a
fault, so that one fault gives the rejection followed by a failure that the stale
status needs. One good and one bad configuration tell right from wrong credentials
and old from new. The liveness runs share the questions: `client_liveness` has two
free callers, who drop their calls, and a hook that hangs; in `client_retry` one of
the two clones is the one the hook has captured, so that a free caller, the full
channel and a hook that waits for the task meet. One call per handle is enough there,
since a call that returns leaves the handle as it found it. `CallerSymmetry` is
sound: callers appear in no property by name, and it is used only with safety
properties. `client_liveness` and `client_retry` use no symmetry.

The cache runs: two achievements and two hashes give `sync` a record to skip and one
to fetch, and a file to become stale. Three calls allow one to be interrupted, one
to meet its leftovers and one to follow. Two tasks share one achievement, the only
way their files can meet, and its one hash (versions of the audio are the other
run's subject); with four calls both can be in a download before and after the crash,
and two faults leave two late operations. The symmetry of tasks, achievements and
hashes is sound: no property names one.

The reader run: two callers make one wait behind the other, a channel of one (four
in the code) makes the second wait for room, and three calls let an abandoned one
have a successor. Two moves place a card and take it away, or exchange two; the
texts lie in two blocks, so a card can go in the middle of a read. One card has a
UID that ends the thread. The tags: each kind of text record, each of its prefixes
and changes of each of its bytes, at offsets that put the boundaries of blocks
into header, length and payload; texts with characters of one to four bytes, texts
that are nearly UTF-8, and texts marked as UTF-16; messages of 254, 255 and 300 bytes
at nine offsets,
for the two forms of the length; tags larger than the 63 blocks that can be
addressed. The playbacks: three on two threads, so that one waits, two of them
endless.

`client_safety` has a hook that may return, fail, hang or panic. Deadlock is checked in the runs of the client and the cache, whose only final
states are named (`Terminated`). The reader, a single read and the playbacks may stop:
callers need not call, and calls, moves and playbacks are bounded.

Fairness (`Fairness`). tokio's `select!` polls its ready branches in random order,
so neither commands nor ticks starve the other: strong fairness for both. Every
await inside a handler is bounded by `io_timeout` or `request_timeout`
(`connection.rs` 188-214, `client.rs` 559, 605, 634, 655), so handlers go on: weak
fairness, and strong for the end of the hook, which may make exchanges again and
again until its timeout. The channel admits its waiting senders in order: strong
fairness of `Enqueue`. `SendTimesOut` has no fairness. The server reads what it can
read, or loses it. Nothing is assumed of callers. Reconnection is claimed only once
faults stop, which the fault budget ensures.

Of the reader (`Fairness` in `Mfrc522`): the thread runs, the channel hands out its
permits in the order of the senders (strong fairness of `Send`), and a sender learns
that the channel is closed. Cards and callers need not move. Of the playbacks
(`FairSpec`): a task that has a thread goes on, the pool takes up its queue in order,
and a source that ends is played to its end by the device. Owners need not
act.

Every property of a passing run is also run against a mutated definition
(operators marked `Mutant` beside the original: a status that is not
published, a connection that is kept after a timeout, a latch under the wrong
policy and so on), and fails there.

## Where documentation and code differ

- `shutdown()` puts its five seconds around the send as well (451). If the
  channel stays full that long, the command is never enqueued and the client runs
  on for the other clones; the documentation (439-443) has the task wind down
  after draining the channel.
- A hook that hides a failed or abandoned exchange hands over a connection that is
  out of step, and the next request reads the late reply (651-675).
- A hook that panics ends the task; the watch keeps saying Disconnected (50,
  517-519), although calls fail with `Shutdown`.
- `add_data` looks for the message byte by byte (`ndef.rs` 68-76). A lock control
  block `01 03 A0 ..` has a 3 as its length, which is taken for the start of the
  message: the text behind it is not read. The type is documented (42) to extract the
  message from a tag's TLV stream.

Met while modelling, without a run of their own:

- Calling a captured handle in the hook is said to deadlock the client (`client.rs`
  215-217, `audio_cache.rs` 22-24, `README.md` 82-84). It does not: the wait for the
  response is dropped by the `request_timeout` around the hook (655), and a request
  that finds the channel full gives up by itself (467-476). The attempt fails and the
  next one begins, so a hook that does this every time keeps the client from ever
  connecting, but between attempts the commands are served and every call returns:
  `EveryCallReturns` holds in `client_retry`. What such a hook does prevent is the end
  by dropping the client (311-313): the task owns the hook and with it a clone, so
  the channel never closes. Only `shutdown()` disconnects such a client, and its task
  stays.
- `sync` is said to remove all that no record refers to (`audio_cache.rs` 138-144). An
  operation of an earlier, dropped call may take effect behind it: a creation adds a
  leftover, a removal takes away a file the sync has found. `SyncSettles` therefore
  asks that nothing was outstanding when the call began (`quiet`); without this TLC
  finds it violated.
- `text()` is said to fail with `InvalidUtf8` if the payload is not UTF-8 (`ndef.rs`
  142). It masks bit 7 of the status byte, which marks UTF-16, out of the length and
  does not look at it otherwise (148-154): bytes of UTF-16 that happen to be UTF-8,
  as those of an ASCII text are, are returned with null characters in them. A payload
  without even a status byte is an empty text (144-146).
- `is_done` (`ndef.rs` 116) compares lengths also while the length is half read. A
  message of exactly 255 bytes has the length `FF 00 FF`; if the block ends behind the
  00, it counts as a complete message of length 0, and the read fails as
  `Truncated`. `ReadsExactlyTheText` states this exception (`LengthSplitAtZero`).
- A message of length 0 in the middle of a block is never done: the parser goes on
  to collect bytes. The read fails either way. An odd capability byte leaves the
  last eight bytes of the tag unread (248-253), and of a tag with more than 63 blocks
  the rest. `InReach` says what can be read.
- With two cards on the reader, a collision followed by silence is reported as
  removal (`mfrc522.rs` 234-237); `AnswersAreTrue` claims nothing then.
- `configure()` on a surviving clone returns `Ok(())` after a shutdown (342, 532);
  the documentation of `shutdown` (445-447) says every operation fails. The
  documentation of `configure` (336-337) has it right.
- The cache downloads by achievement id and stores what comes under the hash of the
  record (`audio_cache.rs` 119-131). Audio updated in between gets the name of the
  old audio, although the names are said to follow the updates (62-64).

## Proofs

The theorems hold for all values of the constants that satisfy the assumptions named
in the modules: any number of callers and configurations, any bounds on calls,
faults and channel, both policies, every kind of hook, with or without a captured
handle (three theorems exclude one kind), any cards and their contents, any tags, any pool. The assumptions on data say
that bytes are bytes (`CardAssumption`, `TagAssumption`), that a block has the 16
bytes `mf_read` returns (`BlockAssumption`), that a tag holds the memory its
capability byte announces, and that a message has less than 2^16 bytes, which is
what its length field can say.

Lemmas that only one proof needs are steps of that proof, labelled with a name
(`<1>StageStep`).

`BloopClientProofs.TypeCorrect`: `Spec => []TypeOK`. `TypeOK` is not inductive:
the steps after a `quit().await` or an exchange use the command that
`current` holds, so `TypeInv` adds `CurrentHeld`, which says at which awaits there
is one. The lemmas type the operators first (frames, streams, answers), then the
groups of actions.

`LifecycleProofs` has one inductive invariant, `StatusInv`, for three theorems.
`StatusTruthful` and `LatchHolds` speak of the select loop or of ends; to be
inductive, what the watch says must be known at every await. `HeldInv`: a held
connection is announced and belongs to the configuration. `WhereInv`: what holds
at the awaits of an attempt and of a teardown. `WatchInv`: the watch elsewhere.
`LatchInv`: how `credentials_invalid`, the rejections seen and the watch relate.
From it follow:

- `WatchIsTruthful`: `Spec => []StatusTruthful`
- `LatchIsKept`: `Spec => []LatchHolds`
- `Refinement`: `Spec => ImplementsLifecycle`. Initial states map to initial states,
  and each action maps to a step of the abstract specification or a stutter; the
  invariant supplies the guards (a task that connects is in a state that
  `MayConnect`).

The rest of `LifecycleProofs`, and `ExchangeProofs`, build on it:

- `HandshakeIsGated`: `Spec => []HandshakeGate`. `StageInv` says at every await how far
  the server can be, given the frames and replies in flight; `ServerMoves` and
  `ClientMoves` are its two halves.
- `ShutdownStays`: `Spec => ShutdownIsFinal`. That the status stays comes from the
  refinement, since the abstract specification has no step out of Shutdown. The
  task and the connection come from `StatusInv` and `StageInv` after the step:
  where the watch says Shutdown, no connection is held and no attempt is under way.
- `Serialized` and `RepliesReachTheirCall`: `StrictlySerialized` and `NoCrossedReplies`,
  assuming `"tolerate" \notin HookOutcomes`; the run `tolerant_hook` shows that the
  assumption is needed. With `StatusInv`, `StrictlySerialized` is inductive: the
  connection of an exchange that was given up is dropped before the next one begins.
  `AnswersGiven` lists the ways in which a step can answer a call, and only one of
  them is a reply: the first in the stream, which is then the one awaited.
- `FatalIsTheEnd`: `Spec => []FatalEndsConnection`, under the same assumption: a
  tolerant hook hands over a connection that the server has given up. After a fatal
  error on a request the connection is gone; after one in the hook the task is at
  `hook_failed`, from where an attempt can only fail, and `StrictlySerialized` says
  what is still in flight.
- `ServedAsConfigured` and `LateAreRefused`: `ServedUnderLatestConfig` and
  `LateRequestsRefused`. What the task has applied and what the channel accepted last
  differ by the commands in the channel. `ChannelInv` says these form a chain: each
  command was accepted under what its predecessor left, the first under what
  the task has applied.

`AudioCacheProofs`, for any number of tasks, achievements, calls, faults and crashes:

- `CacheTypeCorrect`: `Spec => []TypeOK`; `Held` adds that inside `ensure_inner` the
  record has audio, and that a removal has a target.
- `CacheIsWhole`: `Spec => []CachedFilesWhole`. The strengthening `WholeInv` says
  that a temporary file belongs to the one download that took its number: numbers
  in use are below the counter and differ (`NumbersUnique`), a file is written by
  its own task only and whole once it may be renamed (`TempFiles`), and a late
  creation or rename holds a number that no task and no other late operation has
  (`LateOperations`). A crash resets the counter, but leaves nobody with a number.
- `SyncIsComplete`: `Spec => SyncSettles`. `Settling` follows one call over its
  directory. Every record is still to come, without audio, refused, in work, or
  there (`Covered`). Every file no record refers to could not be removed by this
  sync, is still to be pruned, is being removed, or is the temporary file of the
  download in progress (`Clean`). Both hold while no operation of a dropped call is
  outstanding (`Progress`): with one task none can come up while a call runs, so
  that it is enough to ask when the call begins.

`ReaderProofs`, for any number of callers, cards and calls:

- `DisconnectedIsGone`: `Spec => []DisconnectedMeansGone`. `ReaderInv`: the channel is
  closed only by the end of the thread, and a request in the channel or in service
  comes from a call that is past sending it, so a response that is closed stays
  closed and letting go of it fails nobody.
- `ReaderTellsTheTruth`: `Spec => []AnswersAreTrue`. The invariant follows
  `check_for_release` from its first `wupa` to its second: what the first one left
  behind (`missed`), together with what was seen during the call, is enough to
  believe the second.

- `ReaderTypeCorrect`: `Spec => []TypeOK`, from `ReaderInv`.
- `TextOfOneCard`: `Spec => []TextIsOneCards`. While a read is under way and its card
  is still selected, the parser is where the blocks read so far of that card bring
  it; once the selection is lost, the read can only fail (`TextInv`).

`NdefProofs` and `TagTextProofs`, for any tag:

- `ReadsTheText`: `Spec => []ReadsExactlyTheText`. The argument has three parts. First,
  feeding the parser block by block is feeding it the memory in one chunk
  (`FeedSplit`, `ReadSteps`), up to the byte at which it returns (`FeedStops`). Second,
  the parser is followed over the bytes of a tag: null bytes, tag byte, length in
  one byte or three, message (`Layout`, `MessageFound`), and what it makes of the
  message agrees with the format, in both directions (`LeadBytes`, `Records`,
  `TheText`). Third, the inductive invariant `ReadInv` says that the loop has seen no
  complete message before the block it is at, and the start of one within the
  first two blocks. Wherever the loop ends, its result is then right.
- `AddressesInRange`: `Spec => []AddressInRange`, and `TagTypeCorrect`: `Spec =>
  []TypeOK`, from the same invariant and `FeedShape`.

The parser is a recursive function of the bytes. The induction theorems of the
library cannot be used, since they take an operator; `UpTo` states induction for a
set instead (a set that holds 0, and with `i - 1` also `i` up to `n`, holds `0..n`),
and the lemmas about `Feed` are proved with it.

`PlaybackProofs`, for any number of playbacks and threads:

- `OkIsPlayed`: `Spec => []OkMeansPlayed`. `FlagInv`: the flag is set only by a
  handle that was dropped, or resolved after its task was done.
- `DroppedInTime`: `Spec => NoStrayBlip`. A dropped handle keeps its flag, and a task
  that finds it set when it starts is done.
- `DroppedBeforeSound`: `Spec => NoLateSound`. The same for a handle dropped up to
  the second look at the flag: from there the task goes to `done` without passing
  `starting`.

Only model-checked: the liveness properties `EveryCallReturns`, `ShutdownPublished`,
`StaysConnected`, `OnlyLiveWaitsBlock`, `DroppedFallsSilent` and `PlaybacksEnd`, since
fairness is out of the prover's reach. Every invariant and every action property
that a passing run checks has a theorem.

## Not modelled

Durations (a timeout may fire at any time its await lasts; the 50 ms and polling
intervals are single steps), encoding of messages, DNS, TCP and TLS beyond success and
failure, notifications a slow watcher of the status misses, a shutdown called by the
hook, two processes on one cache directory.

`tls.rs` builds a connector of the TLS library from a choice of root certificates: it
has no state and takes no step. `lib.rs` declares modules. The setters of the builder
and of `Mfrc522Config` only store values. `init` of the MFRC522 configures SPI and GPIO,
which is I/O with the device: one step that succeeds or fails. Audio decoding and
output belong to rodio; the model has a source that ends or does not, and a device
that opens or fails. Other backends that an application may write for `NfcReader` are
not modelled.
