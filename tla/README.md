# Giganto's administrative control plane: TLA+ models

This directory holds the formal models of the two source files of this
repository:

- `src/graphql/status.rs`: the administrative GraphQL API, that is, the
  status and config queries and the set_config, stop, reboot and shutdown
  mutations, plus the TOML document helpers;
- `src/settings.rs`: the `Config` and `Settings` types, the defaults, the
  custom deserializers and the TOML rendering.

The main loop that consumes reload drafts and the signals is not under
`src/`. Its behaviour is modelled from `spec.md` (sections 4.3, 4.4 and 9)
and is marked `spec_modelled` in `PROJECT.json`.

## 1. Inventory

### Components and how they interact

| Component | Source | State | Operations |
|---|---|---|---|
| Administrative API gate | status.rs 157-213 | `is_local` flag and the `Settings` snapshot in the request context | `config` and `set_config` refuse in local mode |
| Reconfiguration coordinator | status.rs 178-213 | one spawned task per accepted draft, plus the bounded `mpsc` reload channel | `set_config`: parse, compare, spawn (sleep 100 ms, then `send`) |
| Lifecycle signal dispatcher | status.rs 215-240 | three `Notify` objects, each with one stored permit | `stop`, `reboot`, `shutdown` (`notify_one`) |
| Configuration model | settings.rs 11-226 | `Config` and `Settings` values | `from_file`, `from_server`, `to_toml_string`, `deserialize_socket_addr`, `deserialize_peer_addr`, `default_config_builder` |
| Document editor | status.rs 243-292 | a `toml_edit` document and the config file | `settings_to_doc`, `write_toml_file`, `parse_toml_element_to_string`, `insert_toml_peers` |
| Main loop / reload consumer / supervisor (spec only) | spec 4.3, 4.4, 9 | the running `Settings`, the receiver end of the channel | select between a draft (apply it with `Settings::from_server`) and a signal (end the loop, drop the receiver) |
| Read-only resolvers | status.rs 124-155, 170-173, 14-117 | none | `status`, `ping`, `properties_cf` (debug), field formatting |
| CLI `Args` | settings.rs 22-50 | none | clap parsing at start-up |

The components interact as follows:

1. A remote caller proposes a TOML draft with `set_config`.
2. `set_config` validates the draft with `toml::from_str::<Config>` and
   compares it with the snapshot of the running configuration.
3. If the draft differs, `set_config` spawns a task and answers `true`.
4. The task sleeps 100 ms and then sends the draft text on the bounded
   reload channel. The send waits for a free slot.
5. The main loop receives the draft and rebuilds `Settings::from_server`,
   layering the draft over the defaults.
6. Signals take another path. `stop`, `reboot` and `shutdown` store a permit
   in a `Notify`. The main loop consumes it, leaves its loop, and drops the
   receiver. Every later or still-waiting `send` then fails and is only
   logged.

### The behaviours that make this hard

- **Timing-only ordering.** The `Ok(true)` response and the reload are
  ordered only by a sleep (status.rs:204).
- **Concurrent proposals.** Several drafts can be accepted against the same
  stale snapshot (status.rs:191). They then queue for permits of a bounded
  channel that is handed out FIFO (status.rs:205).
- **Signals racing reloads.** A signal can race drafts that were accepted
  but not yet delivered. The signal drops the receiver, and those sends fail
  silently (status.rs:205-208).
- **Signals while busy.** A `notify_one` fired while the loop is busy
  applying a draft must be remembered (status.rs:219, 228, 237).
- **Two parsers.** Validation uses `toml::from_str`, without defaults.
  Application uses `from_server`, over the defaults. The two must agree
  (status.rs:187, settings.rs:129-134).
- **The peer-address sentinel.** The sentinel `254.254.254.254:38383` and
  the empty string mean "no clustering", even though the sentinel is itself
  a valid address (settings.rs:219).
- **Rendering drops absent fields.** `to_toml_string` omits `None` fields.
  A document rendered from a non-clustered config therefore has no `peers`
  key, and `insert_toml_peers` fails on it (status.rs:243-246, 271).
- **Non-atomic file write.** `write_toml_file` truncates the file before it
  writes (status.rs:251-252). A crash in between, or a failed `writeln!`
  returned with `?`, leaves an empty or partial file. Spec 5 accepts this
  window; a later completed write must repair the file.

`PROJECT.json` lists each of these under `hazards`, at its line, together
with the properties that cover it.

### Properties per component

- **Coordinator and consumer:**
  - only accepted drafts are delivered, each at most once;
  - an accepted draft is lost only after a signal dropped the receiver;
  - an accepted draft is eventually received unless the loop has stopped;
  - the process only runs its initial configuration or an accepted draft;
  - the caller sees the acceptance before the reload. This is the claim of
    spec 4.3, and the code does not meet it (see section 3).
- **Signals:** a signal eventually ends the loop.
- **Configuration model:**
  - both parsers read an accepted draft as the same `Config`;
  - the live configuration renders to a text that parses back to itself;
  - the sentinel, the empty string and a missing key all mean "no peer
    address".
- **Document editor:**
  - unless the last write was cut short, the file reloads to the
    configuration the last completed write was meant to store, and a
    completed write repairs a file that was cut short;
  - a rendered document can always receive peers (spec 4.2 and 6). The
    code does not meet this (see section 3).

## 2. Plan

The modules, in the order they were built:

1. **`Reconfig.tla`**. This is the core: the coordinator, the signal
   dispatcher, the API gate and the spec-modelled main loop, composed in one
   module. They share the channel, the permits and the running settings.
2. **`MCReconfig.tla`** and its cfgs: the remote, local, response-order and
   refinement runs.
3. **`ReconfigProofs.tla`**: the inductive invariant, type correctness,
   provenance, and `DraftLostOnlyBySignal`.
4. **`ConfigCodec.tla`** and **`ConfigModel.tla`**. The first holds the
   deserializers, the layering over the defaults and the rendering, as pure
   operators. The second follows a draft through both parsers.
5. **`DocEditor.tla`**: the document editor, the config file and crashes.
6. **`ReconfigAbstract.tla`**, **`ReconfigRefinement.tla`** and
   **`ReconfigRefinementProofs.tla`**: the promise of spec 4.3, 4.4 and 5,
   the mapping of `Reconfig` onto it, and the proof that it is implemented.
7. **`ReconfigDeliveryProofs.tla`**, **`ConfigCodecProofs.tla`**,
   **`ConfigModelProofs.tla`** and **`DocEditorProofs.tla`**: the proofs of
   the remaining safety invariants.

Still open:

- **Composition.** The opaque `Parse` of `Reconfig` could be instantiated
  with `ConfigCodec`'s `FromStr`, and `Apply` with `FromServer`, so that
  `ParsersAgree` carries into the protocol.
- **A refinement for the document editor.** There is no atomic abstract
  store for `DocEditor` to implement. Spec 5 says the write is a truncate
  and rewrite, not an atomic replacement, and the model has that window.

## 3. Modules, runs and what they show

### `Reconfig.tla`

The module's constants:

- `Configs` and `Drafts` are opaque configurations and draft texts.
- `Parse` maps each draft to a `Config` or to `ParseError`; it stands for
  `toml::from_str`.
- `InitConfig` is the configuration the process starts with.
- `IsLocal` is the `--config` local mode.
- `ChanCap` is the capacity of the reload channel.
- `MaxRequests` is the bound on API calls.

The variables and what they stand for in the code:

| Variable | Code |
|---|---|
| `settings` | the running `Settings.config` |
| `nreq`, `opOf`, `draftOf`, `result` | the requests handled so far and their return values (`"true"`, `"false"`, `"ParseError"`, `"NoChanges"`, `"ConfigIsLocal"`, or a `Config` for the query) |
| `responded` | the requests whose response has reached the caller |
| `task[i]` | the task spawned by request `i`: `sleeping`, then `waiting` for a permit, then `sent`; or `failed` on `SendError`; or `aborted` when the runtime exits |
| `sendq` | the FIFO of senders waiting for a channel permit (tokio's semaphore queue) |
| `chan` | the channel buffer |
| `main`, `held`, `received` | the main loop's state (`select`, `reload`, `stopped`, `exited`), the draft it is applying, and the history of receives |
| `permit[s]` | the stored permit of each `Notify` |

The actions:

- **`set_config(d)`** is the whole resolver, as one step per branch:
  - local mode: `false`;
  - parse error;
  - `No changes` when the draft parses to the running configuration;
  - otherwise: spawn and `true`.
- **`config`** is the query.
- **`stop`, `reboot` and `shutdown`** are `NotifyOne`.
- **`SleepDone`, `Send` and `SendError`** are the spawned task. The task
  joins the FIFO when its sleep ends. It sends when it is at the head of the
  FIFO and the buffer has room. It fails at once if the receiver is gone.
- **`Receive`, `Apply`, `HandleSignal`, `Exit` and `Respond`** are the
  spec-modelled main loop and response transport. `HandleSignal` drops the
  receiver, and with it the FIFO of waiting senders (tokio closes the
  semaphore). `Exit` aborts the tasks that are still sleeping or waiting.

**Fairness.** `FairSpec` assumes weak fairness of each task's steps and of
the main loop. The tokio runtime keeps polling a spawned task whose timer
expired or whose permit became available, and the main loop is a task of the
same runtime. The API callers, and the delivery of responses, get no
fairness: nothing obliges a client to call, or a network to deliver.

**Runs** (in `MCReconfig.tla`). There are two configurations, a valid draft
for each, and a malformed draft. The runs use `MaxRequests = 3` and
`ChanCap = 1`.

- **`reconfig_remote`** (`MCReconfigRemote.cfg`, remote mode, `FairSpec`,
  29,027 states) checks:
  - `ReconfigInv`, the inductive invariant:
    - requests not yet made are blank;
    - a spawned task belongs to an accepted `set_config` whose draft parses;
    - every queued, buffered or held draft has a spawned task;
    - the running configuration is the initial one or an accepted draft.
  - `ReloadAtMostOnce`: a request's draft appears at most once in the buffer
    and the receive history together, and only if it was accepted.
  - `DraftLostOnlyBySignal`: a spawned task fails or is aborted only once
    the receiver is dropped, and only after some stop, reboot or shutdown
    returned true. This is the other side of
    `AcceptedEventuallyReceived`, whose "unless the receiver is dropped"
    would otherwise excuse a send that fails for another reason.
  - `AcceptedEventuallyReceived`: an accepted draft is received, unless the
    receiver is dropped first.
  - `SignalTakesEffect`: every stop, reboot or shutdown ends the main loop.

  Three requests with a one-slot channel are enough for the interesting
  cases:
  - two accepted drafts, so one sender waits in the FIFO while the other
    fills the buffer;
  - a signal that arrives while the loop is applying a draft, or while drafts
    are still queued.

  `MaxRequests = 4` gives no new interleaving kind and takes about five
  minutes.
- **`reconfig_local`** (`MCReconfigLocal.cfg`, local mode) checks
  `ReloadProvenance`: the running configuration never leaves the initial
  one.
- **`reconfig_response_order`** (`MCReconfigOrder.cfg`, expected violation)
  checks `ResponseBeforeReload`, which is spec 4.3's "the caller always
  observes accepted before any observable effect". TLC's trace is an
  accepting `set_config`, the end of its task's sleep, `Send` and
  `Receive`, all while the response is still in flight. Depending on the
  order the workers explore, the trace may begin with unrelated requests,
  such as a "No changes" `set_config`. In the code only the 100 ms
  sleep (status.rs:204) separates them; nothing waits for the response.
  This is recorded as a spec/code divergence.

Deadlock checking is off in these cfgs: after a signal the loop ends and the
process really stops.

### `ConfigCodec.tla` and `ConfigModel.tla`

`ConfigCodec` holds the pure operators that `ConfigModel` and `DocEditor`
share. One representative key stands for each kind of field:

| Key | Stands for |
|---|---|
| `ingest_srv_addr` | the `deserialize_socket_addr` fields |
| `retention` | the fields serde reads natively |
| `addr_to_peers` | itself: `deserialize_peer_addr`, with `#[serde(default)]` |
| `peers` | itself: optional, no default |

A raw value is a token for a class of strings:

- a valid address;
- the sentinel;
- the empty string;
- a malformed value;
- a missing key.

The operators `deserialize_socket_addr`, `deserialize_peer_addr`,
`Deserialize`, `Layered` (the defaults of `default_config_builder` under the
source), `FromServer` and `ToToml` (with `None` left out) translate the
corresponding Rust.

`ConfigModel`'s actions follow a draft through set_config's parser (`ParseDraft`) and
the consumer's (`LoadFromServer`). `Resubmit` renders the result and submits
it again. `NewDraft` submits any other draft.

Run **`config_parsing`** (1,944 states) covers every combination of raw
values. It checks:

- `ParsersAgree`;
- `RenderRoundTrip`;
- `PeerAddrAbsent`.

### `DocEditor.tla`

This module models the document editor of status.rs 243-292 and the config
file it writes, across crashes. A peer update is sequenced by a caller
outside `src/`, so its order is taken from spec 4.2:

1. render the live `Settings` (`Render`, calling `settings_to_doc`);
2. read fields (`ReadField`, calling `parse_toml_element_to_string`);
3. replace the peers (`InsertPeers`, calling `insert_toml_peers`). On an
   error the update is abandoned;
4. write the document back with `write_toml_file`. This is `Truncate` (the
   `truncate(true)` open), or `WriteOpenError` when the open fails, followed
   by `WriteOut` (the `writeln!`).

`Crash` may happen at any point. After `Truncate`, it leaves the file with
the keys written so far (`Torn`), in the order `toml` serializes them
(`KeyOrder`). `Restart` loads the file with `Settings::from_file`, which
layers it over the defaults. A file that does not load keeps the process
down.

Documents and files are `ConfigCodec` texts. Two things are not modelled:

- the comments and key layout that `toml_edit` preserves, since no property
  is about them;
- a write cut in the middle of a line, which would give a parse error, so
  that the process stays down rather than restarting on defaults.

`WriteError` is the other way `writeln!` can end: it fails after the
truncating open, the error goes back to the caller with `?`, the process
runs on, and the file keeps the keys written before the failure.

The history variables `expected`, `pending` and `torn` record what the last
completed write and the write in progress stand for, and whether the last
write was cut short by a crash or by a failed `writeln!`. A completed write
clears `torn`. `Init` is every file that loads; there are 180 of them.

- **`doc_editor`** (`DocEditor.cfg`, 72,794 states) checks `Durable`:
  unless the last write was cut short, the file loads to the configuration
  the last completed update meant. That is the live one, with its peers
  replaced, or kept when the input was `None`. Because a completed write
  clears `torn`, this also checks that the next completed write repairs a
  file that a crash or a failed write left empty or partial.

  The window itself is not a property. Spec 4.2 says `writeDocument`
  "atomically overwrites" the file, but spec 5 describes it as a truncate
  and rewrite and calls the missing atomic replacement "an accepted
  limitation, not a guarantee". So a file that, after `Truncate`, loads to
  the defaults is documented behaviour, not a finding.
- **`doc_render_peers`** (`DocEditorRender.cfg`, expected violation) checks
  `PeersReplaceable`. TLC starts from a file without peers, renders it, and
  `insert_toml_peers` fails with "peers option not found". This is because
  `to_toml_string` drops the `None` field, while spec 4.2 and 6 say every
  field appears.

This violation is recorded as a spec/code divergence in `PROJECT.json`.
Spec 6 says only "the peers key, if present", which is weaker than 4.2's
"every field always appears".

### `ReconfigAbstract.tla` and `ReconfigRefinement.tla`

`ReconfigAbstract` is what the reconfiguration protocol promises, without
the tasks, the channel and the main loop. Its state is:

- `live`, the configuration in force;
- `cfgOf`, the accepted proposals;
- `pending`, the proposals neither installed nor discarded;
- `open`, whether the service is open.

It has three actions:

- `Propose` a configuration different from the live one, while open;
- `Install` a pending proposal;
- `Close`, which discards what is pending.

`ReconfigRefinement` maps `Reconfig` onto it:

- `live` is `settings`;
- a proposal exists once its task was spawned;
- it is pending while its task sleeps or waits, its draft is in the
  channel, or the main loop holds it, as long as the receiver lives;
- `open` is "the receiver is not dropped".

Each step of `Reconfig` maps to an abstract step as follows:

- an accepting `set_config` is a `Propose`;
- `Apply` is an `Install` of the held draft;
- `HandleSignal` is `Close`;
- every other step is a stutter.

Run **`reconfig_refinement`** (`MCReconfigRefine.cfg`, with `ChanCap = 2` so
that the channel holds two drafts) checks `Refinement`, the abstract
specification, as a `PROPERTY`. The proof of it rests on `RefinementInv`,
which says a draft is in at most one place on its way:

- queued once, and then its task is waiting;
- in the channel once, and then its task has sent;
- held by the main loop and in neither of the above.

### Seeded faults

Each property of a passing run is paired in `PROJECT.json` with a plausible
bug in the code it is about. TLC finds each of these mutants:

| Property | Mutant |
|---|---|
| `ReconfigInv` | "No changes" still spawns |
| `ReloadAtMostOnce` | a sender that stays in the FIFO after sending |
| `DraftLostOnlyBySignal` | `try_send`, which also fails on a full channel |
| `AcceptedEventuallyReceived` | a task that gives up after the sleep |
| `SignalTakesEffect` | `notify_waiters` instead of `notify_one` |
| `ReloadProvenance` | a local-mode branch that does not return |
| `ParsersAgree` | defaults registered as overrides |
| `RenderRoundTrip` | `addr_to_peers` without `serde(default)` |
| `PeerAddrAbsent` | no sentinel check |
| `Durable` | `insert_toml_peers(None)` clearing the peers array |
| `Refinement` | a reload that rebuilds `Settings` but does not swap them in |

## 4. What is proved

`ReconfigProofs.tla` proves the following with TLAPS. It assumes only
`ReconfigAssumption`:

- `ParseError` is not a configuration;
- `Parse` maps drafts to configurations or `ParseError`;
- `InitConfig` is a configuration;
- `ChanCap` is positive;
- `MaxRequests` is a natural number.

So the theorems hold for any sets of configurations and drafts, any channel
capacity and any request bound.

- **`InvariantHolds`:** `Spec => []ReconfigInv`.
- **`TypeCorrect`:** `Spec => []TypeOK`.
- **`Provenance`:** `Spec => []ReloadProvenance`.
- **`DraftLostOnlyBySignalHolds`:** `Spec => []DraftLostOnlyBySignal`.
  It is not inductive alone: a task fails when the receiver is gone, and
  the proof must know why the receiver is gone. `LostInv` adds that a
  stored permit or a dropped receiver goes back to a signal request that
  returned true (`SignalFired`), and that only a dropped receiver lets a
  task fail. `RequestKeepsFired` shows that a new request, written at the
  blank entry `nreq + 1`, cannot erase that signal request. TLC checked
  `LostInv` on the remote instance (29,027 states) before the proof.

`ReloadProvenance` alone is not inductive. `Apply` installs
`Parse[draftOf[held]]`, so the proof must know that:

- `held` is the draft of an accepted request;
- every queued or buffered draft has a spawned task, and so was accepted;
- requests not yet made are blank, so that the next `set_config` cannot
  disturb an old one.

`ReconfigInv` adds exactly these facts, and TLC checks it in the remote run.

The proof has one lemma per group of actions: `HandledInv` for the requests,
`TasksInv`, `MainLoopInv` and `NextInv`. Each lemma has a step per conjunct
that its actions can disturb. The theorems follow by `PTL`.

`ReconfigRefinementProofs.tla` proves two more theorems, from the same
assumption.

- **`RefinementInvHolds`:** `Spec => []RefinementInv`. `RefinementInv` is
  inductive once `ReconfigInv` is added. The proof rests on two lemmas on
  sequences:
  - `AppendNoDup`: appending a new element keeps a sequence free of
    duplicates;
  - `TailNoDup`: the tail of such a sequence holds every element but the
    head.

  It has one lemma per action group: `RefRequests`, `RefTasks` and
  `RefMainLoop`.
- **`Implements`:** `Spec => Refinement`. The proof follows the usual
  pattern:
  - `RefInitMap`: the initial state maps to `AbsInit`;
  - `RefStep`: under `RefinementInv`, each step is an abstract step or a
    stutter. `RefStepRequests`, `RefStepTasks` and `RefStepMainLoop` each
    name the abstract action their steps map to.

  `PTL` combines them. `RefinementInv` is needed because:
  - `Apply` is an `Install` only if the held draft is no longer in the
    channel and its task has sent. Otherwise it would stay pending;
  - `Receive` keeps the pending set only if the channel has no duplicate.

`ReconfigDeliveryProofs.tla` proves **`ReloadAtMostOnceHolds`**:
`Spec => []ReloadAtMostOnce`. `RefinementInv` says the channel has no
duplicate, but the property also counts `received`, the main loop's
history. So the inductive invariant `DeliveryInv` adds three facts:

- `received` has no duplicate;
- every received draft's task has sent;
- no draft is both in the channel and received.

TLC checked `DeliveryInv` on the refinement instance (29,851 states) before
the proof. `Receive` is the one step that needs work (`DeliveryReceive`).
It moves the head of the channel to `received`, and `RefinementInv` says
that head occurs nowhere else in the channel. Every other step keeps
`received` and leaves a sent task sent (`KeepReceived`). The counting is the
lemma `OccurrencesNoDup`: in a sequence without duplicates, the positions
holding `x` number one if `x` occurs and none otherwise. It is proved from
`FS_Singleton` and `FS_EmptySet`. So `Deliveries(i)` is 0 or 1. When it is
1, `i` is in the channel or received, so its task was spawned, and
`Spawned` says it was accepted.

`ConfigCodecProofs.tla` holds the lemmas on the codec's operators:

- the type of `Layered`, `Deserialize`, `FromServer` and `ToToml`;
- `DeserializeOk`: the `Config` of a text whose required keys are well
  formed;
- `RoundTrip`: for a `Config` whose peer address is not the sentinel,
  `FromStr(ToToml(c)) = c` and `FromServer(ToToml(c)) = c`;
- `ParsersAgreeLemma` and `PeerAddrAbsentLemma`;
- `FromServerPeers`: replacing the peers of a loadable text replaces the
  peers of its `Config`.

They assume `CodecAssumption`, stated in `ConfigCodec.tla` and evaluated by
TLC on every codec run. It says that `Missing`, `None` and `Err` are three
distinct values, none of them a raw key value, and that neither `Missing`
nor `Err` is a `Config`. This is what the code's `Option` and `Result`
types guarantee.

The hypothesis of `RoundTrip` is needed: a `Config` holding the sentinel
would render it, and parse back with no peer address. Loaded `Configs` never
hold it, by `DeserializeType`.

`ConfigModelProofs.tla` proves **`ModelTypeOK`**, **`ParsersAgreeHolds`**,
**`RenderRoundTripHolds`** and **`PeerAddrAbsentHolds`**, for every set of
raw values. The inductive invariant `ModelInv` records three things:

- each parse result is absent or the parse of the current draft;
- a draft rendered from a source is `ToToml(source)`;
- the source is a loaded `Config` without the sentinel.

With these, each property is one of the codec lemmas. TLC checked
`ModelInv` on the `config_parsing` instance (1,944 states).

`DocEditorProofs.tla` proves **`DurableHolds`**. `Durable` is not
inductive: a `WriteOut` step makes the file the document and clears
`torn`, so the proof must know what the document loads to. `DocInv` adds:

- the running `Config` does not hold the sentinel, so that `Render`'s
  document round-trips (`RoundTrip`);
- while an update is in progress, the document is a text that
  `FromServer` loads to `pending`.

`DocNext` has one step per action. `WriteError`, and `Crash` during a
write, set `torn` and leave a `Torn` text (`TornType`); any other crash
leaves the file alone. TLC checked `DocInv` on the `doc_editor` instance
(72,794 states).

One proof attempt found a fault in the model, now fixed. It first wrote
`parse_toml_element_to_string` and `insert_toml_peers` as `CASE` with
overlapping arms, for instance `None` input with no peers array. In TLA+ such
a `CASE` picks an arm arbitrarily, while TLC always takes the first, so
`Durable` was not provable. The code checks its conditions in order, and the
model now says so with nested `IF`.

## 5. Only model-checked

Every safety invariant and action property of a passing run is proved for
every value of the constants. These remain with TLC alone:

- **The liveness properties** (`AcceptedEventuallyReceived`,
  `SignalTakesEffect`). TLAPS does not reason about fairness or `ENABLED`.
- **The two expected violations** (`ResponseBeforeReload`,
  `PeersReplaceable`). They are false of the code, and TLC's
  counterexamples are the evidence.

## 6. Not modelled

- **`status`, `ping` and `properties_cf`.** These are read-only calls into
  `roxy` and the storage layer; they have no state of this component.
- **The field resolvers of `Config` and the peer types.** These only format
  values.
- **`Args` and the discovery of the default config path in
  `Settings::new`.** These are process bootstrap, which the spec leaves out.
- **Logging.** No property is about it.
- **How `toml` renders a non-empty peer set.** The model treats the
  rendered `peers` as an array that `insert_toml_peers` can replace. Recent
  `toml` versions may write an array of tables (`[[peers]]`) instead. Then
  `as_array_mut()` would return nothing, and `insert_toml_peers` would fail
  for a clustered configuration too. This could not be checked here, and no
  verdict of the project rests on it.
- **Integer fields in `parse_toml_element_to_string`.** `retention` stands
  for every field serde reads natively, and `ReadField` returns its raw
  value. For an integer field the code answers with a type mismatch. No
  property reads these fields.
- **Concurrent peer updates.** Two peer updates at the same time would
  interleave on the file. The caller is outside `src/`, and the spec does
  not say whether updates may overlap, so one update runs at a time.
- **Which of two concurrently accepted drafts wins.** The channel's FIFO
  fixes the order of delivery, but which sender reaches the FIFO first is a
  race that spec 5 explicitly leaves to the consumer. No property constrains
  it.
