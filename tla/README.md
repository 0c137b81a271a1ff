# A verification project for the Remappr client

TLA+ models of the keyboard clients under `src/src/` (the TypeScript library that
talks to Remappr, ZMK Studio, QMK, VIA, Vial and Keychron firmware), the TLC runs
that check them on small instances, and TLAPS proofs for every value of their
constants. Paths below are relative to the repository; `rpc.ts`, `service.ts`,
`auth.ts` and `discovery.ts` without a directory are those of
`src/src/clients/remappr/`.

Contents: [the system](#the-system) · [modules](#the-modules) ·
[runs](#the-runs) · [bounds](#bounds-and-why-they-are-enough) ·
[fairness](#fairness) · [proofs](#what-is-proved) ·
[divergences](#where-the-code-and-its-documents-disagree) ·
[not modelled](#what-is-not-modelled) · [plan](#plan)

## The system

A caller (an editor) asks the **registry** to connect a transport. Each registered
**adapter** probes the device and, when it recognises it, builds a **keyboard
service**: one common interface (`src/src/service.ts`) over four firmware
families. A service keeps a picture of the keymap and talks to the device through
one of three **channels**: the remappr control RPC, the raw-HID client, or the ZMK
Studio RPC (a library). Everything runs on one JavaScript thread: what interleaves
are the stretches of code between two `await`s, the timers, and the arrival of
frames.

    editor ── KeyboardService ─┬─ RemapprKeyboardService ── session (auth) ── RemapprRpcClient ─┐
                │              ├─ ZmkKeyboardService ────── zmk-studio-ts-client (external) ────┼─ Transport ─ device
      registry ─┴─ adapters    └─ Qmk / QmkVial / Keychron services ─── HidClient ──────────────┘
                               config: JSON ⇄ normalised config ⇄ blob / keymap text (pure)

### Components

| Component | State it keeps | Operations | What is hard | What makes it correct |
|---|---|---|---|---|
| **Control RPC** `rpc.ts` | promise chain, one waiter, frame buffer, sequence and request counters, closed flag, listeners | callPlain, callSealed, callUniversalPlain (with retries), callSealedRelay, subscribeInput/Role, close | replies that are late, lost, fragmented or for somebody else; timers racing frames; a close at any await | a call settles once, with its own complete reply or an error; one exchange at a time; nothing is sent after close |
| **Remappr service** `service.ts`, `configBridge.ts`, `dynamicBridge.ts` | decoded config, its version, layer buffer with ids, edit maps, pending flag | the editing calls, commit, discardChanges, resetSettings | a commit is 3 + n awaited commands, and edits, discards and other commits run between them; the editor shows less than the config holds, and the rest must survive | the service's config is the device's; a push is atomic; what is staged lands or is visibly pending; what was not edited is kept |
| **Raw HID client** `hid/rawHidClient.ts` | send chain, reader, pump flag, one pending command, listeners | send, subscribe, close | two read paths; reads that lost their race remain in the stream; pushed reports | a send gets its own reply or an error, and always settles |
| **Session / auth** `auth.ts`, `identity.ts` | AEAD keys, seal and open counters; the host's identity, in memory and in its store | handshake, seal, open, warm-up, write-through | a store that answers late or fails; a restart before the write landed | a board that bonded with this host knows it again |
| **Adapter, discovery** `adapter.ts`, `discovery.ts` | probed-session cache | legacy probe, universal fallback, probe, connect | time-boxed probes whose answers come later; abort while connecting | one probe per transport; failure releases the streams |
| **Roster, views, config read** `nodes.ts`, `nodeView.ts`, `configRead.ts` ... | the roster between reads | list nodes, read node config, rate, feedback | relayed reads that time out; chunked reads | a config read is of one version |
| **Registry** `src/src/registry.ts` | the adapters | register, pick, connect | a transport's streams can be locked once only | adapters are tried in order, losers leave the streams free |
| **ZMK service** `clients/zmk/service.ts` | cached keymap, behaviours, in-flight reads, pending flag | key and layer edits, save, discard, physical layout | index looked up, awaited, used; partial behaviour load; stale in-flight read | the cache is the device's keymap after every call |
| **QMK / VIA / Vial services** `clients/qmk*`, `clients/via` | mirror of keymap and encoders, definition, lock state, pending flag | setKey, setEncoder, macros, dynamic entries, applyLayout, reset | mirror updated after an echo; reload beside a write; lock state cached; a shared macro buffer rewritten whole | the mirror is the keyboard's keymap; a guarded write lands or throws |
| **Vial unlock** `clients/qmk-vial/unlock.ts` | poll counter, deadline | unlock | poll against a hold timer, an abort and a deadline | it ends, and `lockState` is honest |
| **Keychron** `clients/keychron` | facades over QMK | probe of optional features | a firmware that does not answer optional queries | absent features do not fail the probe |
| **Mock** `clients/mock` | an in-memory keymap over a document | the whole interface, and raising to a document | two pictures of one configuration: keys and settings are kept apart until it is saved | what is saved can be opened again and means what was shown |
| **Config schema, migration, normalisation** `src/src/config` | none (pure) | parse, migrate, normalise | two spellings of one document, friendly names, cross-references | reading what was written gives it back |
| **Serialisation and bundle** `src/src/config` | none (pure) | write a configuration as a document | defaults left out, the author's spelling kept where it still holds | as above |
| **Blob compiler and decoder** `src/src/config/compilers/remappr` | none (pure) | compile, decode | pools shared across bindings, offsets and strides, a trie | a blob read, kept and written again does what it did |
| **Exports** `config/matrix.ts`, `firmwareConf.ts`, `bundle.ts`, `config/compilers/zmk`, `qmk*.ts`, `viaJson.ts`, `vialJson.ts` | none (pure) | emit a ZMK keymap and shield, a QMK keyboard, VIA and Vial definitions | nodes, labels, options, matrices and files that refer to each other and are made in different places; what cannot be said must be said to be lost | what is referred to is there; each key has its cell, its pin and its half; what is built has its files and its options |
| **Byte protocols, keycodes, labels** | none (pure) | print, encode, look up | – | not modelled: wording, layout and tables |

`PROJECT.json` lists each with its sources and status, and lists the hazards, line
by line, together with the property that covers each or the reason none does yet.

### How components interact

* A service calls its channel and awaits. The channel serialises **exchanges** (one
  request, one reply); it does not serialise **operations** made of several
  exchanges. That gap is what `RemapprService` is about.
* The editor's picture of a keymap is a *projection* of the configuration: it is
  lowered when a keymap is loaded and raised, with the configuration it came from,
  when it is saved. What the projection leaves out has to come back from there.
  That is what `KeymapLife` (over blobs) and `MockService` (over documents) are about.
* The channel's read pump runs independently of callers and hands frames over
  through shared variables (`respWaiter`/`respBuffer`, `pending`). That hand-over is
  what `RemapprRpc` and `RawHidClient` are about.
* Closing (by the caller, an abort signal, end of stream or a read error) can fall
  between any two awaits of either.

## The modules

| Module | Models | Kind |
|---|---|---|
| `CallContract` | what any asynchronous request promises its caller | abstract specification |
| `RemapprRpc` | `rpc.ts`: callers, exchange chain, waiter and buffer, retries, reassembly, pump, close, and the device as environment | detailed specification |
| `RemapprRpc_proofs` | theorems about `RemapprRpc`: the exchange and its owner; whole answers, closing, the contract | proofs |
| `ConfigPush` | what a configuration push promises: atomic replacement | abstract specification |
| `RemapprService` | the edit buffer and the commit / discard / reset operations of `service.ts`, command by command, over a serialising channel | detailed specification |
| `RawHidClient` | `hid/rawHidClient.ts`: idle and pumped read paths, the stream's line of reads, subscribe, abort, end of stream | detailed specification |
| `ZmkService` | `clients/zmk/service.ts`: the cached keymap, the shared reads, the editing operations and the pending flag, over the ZMK Studio RPC | detailed specification |
| `QmkService` | `clients/qmk/service.ts`, `clients/qmk-vial/service.ts`, `unlock.ts`, `macros.ts`: mirror, lock state, unlock flow, over the raw-HID channel | detailed specification |
| `Connect` | `registry.ts`, the five adapters' probes and connects, discovery, handshake and `identity.ts`, over single-use streams | detailed specification, composing the parts of a connect |
| `KeyCatalog`, `KeyNames` | the vocabulary: keys, their HID usages, how a document spells them | operators |
| `BlobWriter`, `Autocorrect`, `BlobEncode`, `BlobDecode` | the blob: writer and table builder, the dictionary's trie, the compiler, the decoder | operators |
| `ConfigBridge` | `clients/remappr/configBridge.ts`, `dynamicBridge.ts`: configuration ⇄ what the editor shows | operators |
| `KeymapLife` | the life of a Remappr keymap: blob → config → editor → edits → config → blob | state machine, composing the row above |
| `Migrate`, `SurfaceSchema`, `Normalize`, `Serialize` | the document: both versions and their translation, what is refused, normalisation, writing | operators |
| `KeyMatrix`, `BoardWiring` | `matrix.ts`, `controller.ts`, `pinmaps.ts`: the wiring derived from where the keys are, the wiring in force, pins | operators |
| `ExportNames`, `ZmkExport`, `ZmkOverlay` | `compilers/zmk`: the keymap with its nodes, the board's devicetree files | operators |
| `QmkExport`, `KleBoard` | `compilers/qmk*.ts`, `viaJson.ts`, `vialJson.ts`, `kle/parser.ts`: keycodes, features, encoder maps, matrix pins, definitions and their reading | operators |
| `Exports` | `bundle.ts`, `firmwareConf.ts`, and what must be true of an export | operators and invariants, composing the three rows above |
| `MockBridge`, `MockService` | `clients/mock`: configuration ⇄ demo keys, and the demo keyboard, opened on documents, saved as documents and exported | operators, and a state machine composing the documents and the exports |
| `LineLemmas` | lines of calls: what leaves at the front and comes at the end | lemmas |
| `RemapprService_proofs`, `RawHidClient_proofs`, `ZmkService_proofs`, `QmkService_proofs`, `Connect_proofs`, `Exports_proofs` | theorems about the module of that name | proofs |
| `MC...` | the instances TLC checks | – |

A definition whose comment calls it a mutant is a deliberately broken variant of
the one that follows it (a dropped guard, a forgotten reset). It is used by no
specification: substituted for its neighbour, it makes the property named beside it
in `PROJECT.json` fail, which shows that the property can.

### RemapprRpc

State and code: `queue` is the `queue` promise chain (the running exchange first),
`closed`, `respWaiter` and `respBuffer` are the fields of those names, `seq` and
`rids` the two counters, and `asm[c]` the locals `assembled`, `inChain`, `expIdx`,
`chainCnt` of `universalRoundTrip`. `pc[c]` is the await a call stands at:

    idle ─Issue→ queued ─Start→ writing ─Written→ waiting ─RouteFrame→ got ─Take…→ done
                   ↑                       │ a frame is buffered ────────↑ │
                   └── Backoff ── backoff ←┴── Timeout, GapFound, ERR_STATE┘

An action runs from one await to the next, as the event loop does. `NextFrame` is
`nextFrame()`: buffer first, closed check second, waiter last, in that order.
`RouteFrame` is one turn of the pump with `routeFrame`. `FireClosed` is
`fireClosed()` on all of its occasions; it leaves the pump running or not, as
`close()` and a lost stream differ in that.

What is abstract. A frame is a record of the fields the client looks at; `req`
names the exchange that caused it and is not on the wire: no guard reads it, only
properties do. A chunk from the transport is one frame, so the byte accumulator is
empty between reads. Events are routed to listeners and change nothing else. After
the pump has stopped, frames reach nobody and are left out. `write()` settles, one
way or the other. Keys and seals are a choice between "opens" and "does not".

The device answers each request frame by frame, in any order among requests, may
refuse it (`ERR_STATE`, `ERR_AUTH`), may lose any frame, and may do all of it after
the client has timed out.

### RemapprService

`layers`, `nextLayerId`, `config`, `configVersion`, `pendingChanges` are the fields
of those names. A layer's name and bindings are one value. The edit maps (macros,
tap dances, defaults, hold-taps, mod-morphs, conditional layers, autocorrect, node)
behave alike, so each is a *knob* in `edited`; what they hold and where it goes is in `KeymapLife`. `cmd[o]` is the command operation
`o` awaits; `line` is the RPC chain seen from here, which admits one exchange at a
time. `Resume` is the straight-line code after each await of `commit()` and
`discardChanges()`, its failures included: only a refused VALIDATE rolls back.

The device stages chunks, validates and activates as the firmware specification
(§3.4) describes; it may lose a command, or carry it out and lose the reply.
`restoreLayer(id, …)` takes any id it is given, so the model offers every id below
`nextLayerId`, whether a layer has it or not. Two history variables serve
`LayerIdsUnique`: `removed`, the ids taken out of the buffer since it was last seeded,
and `astray`, that an id not among them was restored: a removal undone that a discard
or a reset had undone already.
A `commit()` that throws while it compiles the blob has sent nothing and changed
nothing, and is not an action. A client closed in the middle of a commit looks to
it like a command that failed, which `Timeout` covers.

### RawHidClient

`reads` is the line of outstanding `reader.read()` promises, which the stream
answers in the order they were made. A send that times out on the idle path leaves
its read in that line: this is the state a unit test does not see. `Subscribe`
starts the pump and puts its read last. `EndStream` and `ReadFailsClosed` are the
ends of the stream on a client that is still open and on one closed already, where
the pump returns without rejecting the pending send. A read error is seen only by a
read that is outstanding.

### ZmkService

`cached` is `cachedKeymap`, `behaviors` the number of entries in `behaviors`,
`layouts` the index in `layouts`. The three in-flight promises are processes of
their own (`BJob`, `LJob`, `KJob`): one is "off" when its field is null. `loop.pc`
is the await a process stands at and `loop.line` the calls inside the library's
`call_rpc()`, which lets one request out at a time. The library is external; that it
is a mutex is what the comments at `clients/zmk/service.ts:132` and `:670` rely on,
and that it serves its callers in order is assumed.

When a promise settles, whatever awaits it runs before any reply, notification or
new call. `loop.wake` marks those that are to run, and the guard `~Micro` on every
other action keeps them first. `Replied` joins the delivery of a reply with the code
after the `await this.call(...)`, which is its direct continuation. `Keyboard`
stands for the firmware: it carries a request out, or refuses it because its
arguments make no sense or the keyboard is locked, and answers with a snapshot of
itself. Which index means which layer is decided by the keyboard, at the time it
gets the request.

A layer's name and bindings are one value, so `renameLayer` is `setKey`; `setKeys`
is a sequence of `setKey`. Lock state, listeners, exports and closing are left out.

### QmkService

`keys`, `enc`, `def`, `lockState` and `pending` are the service's keys and encoders,
definition, cached lock state and pending flag; `dev` is the keyboard. An operation `o` is a
series of sends: `op[o].cmd` is the one it awaits, `line` the raw-HID client's send
chain, and `op[o].seen` what it has read so far. Each action from `Written` to
`PollAgain` is the code from the reply to the next send. `Settled` gives the
continuation of a settled promise its turn before any frame or call, as the
microtask queue does. `races` records which operations crossed which, and only the
properties read it.

`ReplyTo` is the firmware: it carries a command out, echoes it, and on a locked
Vial keyboard skips a guarded write silently, echo included, which is what
`service.ts` says of vial.c. A send may be carried out and its reply lost, or be
lost itself (`SendFailed`). One layer stands for all, and one send for a chunk.

### Connect

A probe or a connect is a **script** (`Script`): named steps, each an exchange with
the step that follows a good answer and the one that follows any other outcome
(`Parts` puts the scripts together). `Refuses` and `Candidates` are `hidRank`, the
hint test and the sort of `registry.ts`, which orders the adapters that are asked at
all (`Asked`). `cli` is
the client that holds the streams: by which adapter, for which caller, open or
closed; `stale` is the reply nobody has read yet, which a successor will read.
`aborted` is the transport. `ident` is `identity.ts`: what the store holds, what is cached,
what was minted and with which identity the board has bonded. `Reopen` is a new
transport, in the same run of the application or after a restart.

Reading a keyboard's configuration or definition is one exchange here, since
`RemapprService` and `KeymapLife` look inside. A board is the set of verbs it
answers; a QMK board answers every frame, if only with "unhandled", a Remappr or
ZMK board is silent to what it does not know.

### The blob pipeline

`BlobEncode` lowers each action to a record and a set of diagnostics, through the
pools of macros and sub-behaviours that all bindings share, and writes the tables
of the blob byte by byte; `BlobDecode` reads them by offset. Numbers have their
width: a field is written modulo 2^8 or 2^16, as `DataView` does. The catalog is a
small part of the real one, with one key for each case the code tells apart: a
keyboard key, a consumer key, a system key, a modifier, a key without a usage, a
page without a behaviour. `ConfigBridge` has `lowerConfig` and `raiseConfig` and
the compact entries of the macro and tap-dance editors.

`KeymapLife` has the state of the service between a load and the next: `config`,
`layers` and `edited` as in the code, `device` the blob. `typed` and `ownForm`
(which keys the user set, and which of them to the very form they had), `reshaped`
and `degraded` are history for the properties. `Commit` is one step, the push being
`RemapprService`'s business. As in the code an id may be restored that a layer has, so
`TypeOK` does not ask for distinct ids here.

### The documents

A document is a record as `JSON.parse` gives it, of either version. A text with a
grammar of its own (`layer:nav`, `mt(LSHIFT, A)`) is the record of its parts. `Readable` is the schema with its cross-checks, `ParseKeymap` migration and
normalisation, `SerializeKeymap` the writer, `MigrateToV2` the way back to the
compact version. `KeyNames` has the spellings of a key in the folded form they are
compared in, with the order that decides between two keys that claim one, and the
modifiers a spelling may have in front. Hints (`src`, `psrc`, `preset`) are kept,
as the writer prefers the author's word.

`MockService` opens a demo on a document, edits keys, knobs, layers, settings and
definitions, moves to another board, saves in each of four formats, and opens the
result again. `MockBridge` is `lowerConfigToMock` and `raiseMockToConfig`.

### The exports

An export is modelled by what its parts refer to, not by its text: a ZMK behaviour is
a label with its parameters, a node a label with the number of cells it takes and its
own references, a devicetree file the labels it defines and uses and the files it
includes, a QMK key a code with the targets that have it, a KLE row the steps from key
to key. What an export says it could not write (`says`) is part of its value, as losing
an action without a word is what `NothingLostSilently` is about. Places are whole
multiples of `1/Unit` of a key.

Labels are flat and of one namespace, as in the file: `<<"ht", 0>>` is `ht_0` whether
the compiler made it (`bindings.ts:58`, numbered by first use in the order of the file),
an encoder `sr_0_1` (`behaviors.ts:101`), a definition's name after `sanitize()`
(`behaviors.ts:59`) or a behaviour of ZMK's. So the author's `ht_0` or `kp` meets the
generated one, and two names can be spelled alike. `NamesApart` says of a configuration
that no definition's label is another's, that of a node made on the way or of ZMK;
nothing in the code makes sure of it, so where it fails `LabelsApart` claims nothing.
Where it holds there remains to show that the made nodes differ from each other and from
ZMK's: one number per pair of timings, one place per encoder. `Sanitize`, `Slug` and
`WithoutSide` are constants: any functions in the proofs.

`saved` is the configuration that was last saved, in `MockService`; exporting changes no
state, so the invariants of `Exports` speak of what exporting `saved` gives. They look at
two of the four formats: the configuration kept (`source`), which still has the knobs that are
keys, and the configuration raised from the demo (`v1`), which the other two only spell
differently.

## The runs

| Run | Asks | Properties |
|---|---|---|
| `rpc` | a retried, three-fragment universal read beside a call of any other kind, with events, loss, refusal, late answers and close; is it what `CallContract` asks | `WaiterServed`, `OneExchange`, `UniversalOwnReply`, `SequencedComplete`, `ClosedSendsNothing`, `ContractKept` |
| `rpc_stale` | does a plain call get its own reply | `PlainOwnReply` (violated) |
| `service` | two commits, a discard and two edits in every interleaving, commands and replies lost | `TypeOK`, `Truth`, `LayerIdsUnique`, `UnpendingIsClean`, `DiscardUnstages`, `PushAtomic` |
| `service_version` | is a commit ever refused for its version | `VersionAlwaysNewer` (violated) |
| `service_edits` | does a staged edit survive a commit that does not contain it | `StagedEditsLand` (violated) |
| `rawhid` | three sends, two with one command byte, a subscriber, a pushed report with that byte or another, abort and end of stream | `OneAwaiting`, `IdleOwnReply`, `PumpedOwnReply`, `AllSettle` |
| `rawhid_mute` | does an unanswered optional query leave the later sends alone | `OnlyMuteTimesOut` (violated) |
| `zmk` | three callers edit, reshape, read, save and drop at once, on a keyboard that may refuse | `CacheFaithful`, `FreshRead`, `PendingHonest`, `RemoveAimed` |
| `qmk` | a writer, a loader and a locker at once on a VIA and a Vial keyboard, sends that fail, a client that closes | `MirrorTrue`, `LockHonest`, `GuardedLands`, `MacroLands`, `OpsEnd` |
| `connect` | two callers pick and connect, on every kind of board and transport, with missing and late replies, aborts, store failures and restarts | `OwnerWins`, `RightService`, `LocksReleased`, `BondKept`, `AbortEnds` |
| `keymap` | five keyboards read, edited twice, saved twice, discarded and read again in any order | `TypeOK`, `UntouchedKept`, `SavedAsShown` |
| `document` | documents in both spellings opened, edited twice, saved in every format, opened again and exported | `SavedTyped`, `KeymapWhole`, `BoardWired`, `BoardReadBack`, `ProjectBuilds`, `SavedReads`, `SavedMeans` |

What the passing runs show:

* **`UniversalOwnReply`, `SequencedComplete`.** Request ids and fragment numbers do
  their work: whatever the air loses or delays, a universal call returns its own
  answer whole, or fails. Two details make it true: a non-first fragment outside a
  chain is skipped, and a gap is detected both at each fragment and at the end.
* **`WaiterServed`, `OneExchange`.** The single waiter is sound because exchanges
  are serialised, retries rejoin the chain at its end, and `nextFrame()` looks at the
  buffer before it arms.
* **`ContractKept`.** `RemapprRpc` implements `CallContract`: a call settles once,
  stays settled, and does settle.
* **`Truth`.** The service never believes it is ahead of the device, and where the
  versions agree the configurations do, also when two commits built blobs of one
  version: the device's staging check makes one of them fail. With more commits than
  `Chunks` + 1 in flight this is no longer so (see [limits](#limits-met-while-modelling)).
* **`LayerIdsUnique`.** A layer's id names one layer through any adding, moving,
  removing and undoing of removals, with the exception the property names: a discard or
  a reset numbers the layers anew from 0 (`service.ts:455-463`), and a removal undone only
  after that puts an id in twice (`service.ts:628-640`), so that `setKey` and
  `removeLayer` meet the first of the two until the next seeding.
* **`PushAtomic`.** `RemapprService` implements `ConfigPush`: the device runs one
  commit's configuration whole, and a commit reports success only when its own blob
  has been activated.
* **`PumpedOwnReply`.** The pump matches by command byte, and the property states
  exactly what that can give: a wrong reply has the same command byte. It is a pushed
  report, if the keyboard pushes that byte, or the reply to an earlier send of the
  command, after one of them timed out or took a pushed report for its reply.

* **`CacheFaithful`, `FreshRead`.** The cache repeats each operation instead of
  reading it back, several callers use it at once, and it is still the keyboard's
  keymap. This rests on the order of `call_rpc`: replies arrive in the order in which
  the keyboard carried the requests out, and each is applied before the next. A read
  in flight can store its keymap into a cache dropped or edited meanwhile only in
  that order too, and a caller that joins one sees its own earlier writes.
* **`PendingHonest`.** Replies and notifications both write the pending flag; once
  both have arrived it is what the keyboard would say.
* **`RemoveAimed`.** `removeLayer(id)` removes another layer only if the layers
  changed between its look-up and its request. The converse is not claimed: with two
  callers the wrong layer can go, on the keyboard and in the cache alike.
* **`MirrorTrue`.** The mirror of a VIA or Vial keymap is the keyboard's once
  nothing is in flight, as each operation stores its value after the echo and a new
  definition replaces keys and encoders together. The comment of the property lists
  what the code leaves open: a failed write that landed, a write amid a reload, and
  a keyboard that locked between the guard and the write. Where a definition draws a
  matrix cell twice, one of the two keys shows it (`Shown`): `setKey` updates the
  other only at the next reload.
* **`LockHonest`, `GuardedLands`.** The guards read a cached lock state instead of
  asking. It is right, and no guarded write is skipped in silence, except beside or
  after a `lock()` that has not been answered.
* **`MacroLands`, `OpsEnd`.** A macro write, which rewrites a shared buffer, changes
  its own macro only, with two exceptions: two macro writes at once, and a keyboard that
  was locked amid the write and skipped a guarded part of it (`dev.skipped`, which
  `GuardedLands` traces to a `lock()`); there too success is reported. Every
  operation ends, the unlock flow by its deadline though nobody holds the keys.
* **`OwnerWins`, `RightService`.** Over HID with a vendor id, registration order does
  not matter, and what one probe leaves in the streams does not mislead the next,
  up to the exceptions the comments name.
* **`LocksReleased`, `AbortEnds`, `BondKept`.** A refused probe, a failed and an
  aborted connect give the streams back; a connect told to stop ends, without a
  service; a bonded board knows its host after a restart, unless the store failed or
  was not waited for.
* **`UntouchedKept`.** The editor shows a fraction of a configuration, and a commit
  compiles all of it anew, through pools whose numbering changes. Every key nobody
  set, every combo, encoder, leader sequence and section does afterwards what it did.
* **`SavedAsShown`.** Read back from the device, a key that was set is what the
  editor shows, and one set to transparent nothing else.
* **`SavedReads`.** A saved document can be opened again *exactly* when the
  configuration holds together (its sections name layers that exist and keys the
  board has, its keys have readable spellings). The property is an equivalence, so
  the schema and the writer are held against each other in both directions.
* **`SavedMeans`.** Opened again, in whatever format it was saved, the document shows
  what the demo showed and compiles to the same blob, the keys whose spelling means
  another key, the timings left out as the target's default (`TimingsWritten`) and what
  the compact form cannot say excepted.
* **`KeymapWhole`.** After any edits, the keymap exported from what is saved refers only
  to behaviours of ZMK's and nodes it has, but for macros called with another number of
  parameters than they take and definitions that are not there (`Misfits`). Its labels
  are apart where `NamesApart` holds. What ZMK has no behaviour for is written as none
  with a word; what is written as *another* behaviour (an underglow action outside the
  table, a tap-hold without its tap's modifiers) is not counted. Knobs keep their places
  on every layer where the board has one kind of them (`OneKindOfKnob`).
* **`BoardWired`, `ProjectBuilds`.** Derived cells are apart, halves have their columns,
  pins are at their keys' cells; every label a file uses is given, every shield has its
  file *exactly* when the board is whole or falls into two halves, and the options of the
  behaviours are on, those the author has set excepted. `SavedTyped` says what the three
  rely on.
* **`BoardReadBack`.** The VIA definition, read by the repository's own parser, has each
  key with its cell; with its place *exactly* when the rows are a key apart.

The type invariants of the five runs without one are theorems, and are no longer run.

`CHECK_DEADLOCK FALSE` is set in all runs but `keymap`: all calls settled and a
silent device, or every edit used up, is an ordinary end of a session.

### Bounds, and why they are enough

| Bound | Value | Why |
|---|---|---|
| `Calls` (rpc) | 2 | interference needs one call whose answer is late and one that meets it; serialisation makes a third call meet the same state |
| `Retries` | 1 | one abandoned attempt and one that succeeds or fails |
| `Frags` | 3 | a first, a middle and a last fragment, each of which can be lost |
| `MaxRids`, `RidMod` | 4, 8 | the ids used in a run are distinct modulo the counter's width (255 in the code). A full turn of the counter while an answer is under way is outside the model; `RidAssumption` says so |
| `MaxFlight` | 1 | frames under way; more only lengthens a queue that is drained in order, since the device's answers wait in `pending` |
| `Chunks` | 2 | one chunk of each of two commits can be mixed with the other's |
| `MaxLayers`, `MaxEdits` | 3, 2 | adding, removing and restoring, also around a discard, and an edit during a push |
| `LateReplies` | `FALSE` | with late replies a status is taken for the next command's, the cause shown by `rpc_stale`; the run isolates what the service itself guarantees |
| `Overlap` | `TRUE`, `FALSE` in `service_version` | the version divergence needs no overlap, so it is shown without |
| `Commits` symmetric | – | the two commits are interchangeable in the model and in all properties of `service`, which are safety properties |
| `MaxPushes`, `PushCmds` | 1, 2 | one report that can be mistaken for a reply, with a send's command byte or with another |
| `Ops`, `Offers` (zmk) | 3 | one caller per group: edits, reshaping, and reading, saving or dropping; a read in flight, an operation that overtakes nothing, and one that drops |
| `MaxLayers` (zmk) | 3, two at connect | one layer can be added, so the limit is reached, and an index can shift |
| `BehaviorCount`, `Refuses` | 1, `TRUE` | one read of a behaviour beside the shared reads; any request may be refused |
| `Ops`, `Offers` (qmk) | 3 | a writer (keys, encoders, macros), a loader (definition, reset, a macro) and one that works the lock: each pair that shares state |
| `Layouts`, `Macros`, `Cells` (qmk) | 2, 2, few | two definitions that place keys differently, draw a cell twice or leave it out; a macro written beside its neighbour |
| `Callers` (connect) | 2 | two callers on one transport, the second of whom meets the first one's client or cache |
| `Setups`, `Orders` (connect) | some twenty, 2 | every kind of board on each transport it has, with and without a vendor id, the order of `builtins.ts` and its reverse, as chunks load in any order |
| `MaxMissed`, `MaxFaults`, `MaxRounds` (connect) | 1, 1, 2 | one reply missing or late, one failure of the store or abort, one transport after another |
| `Keyboards` (keymap) | 5 | between them they use every table of the blob and every type of action |
| `MaxEdits`, `MaxSaves` (keymap) | 2, 2 | an edit that builds on a saved edit, two that meet in one commit |
| `MaxLayers`, `MaxPosition` (keymap, document) | 3, 2 | one layer more than there is; two keys to edit, the others stand for the ones nobody touches |
| `Unit` (document) | 2 | places in half keys: staggered rows, a thumb key between rows, a gap between halves |
| `Allowance` (document) | by document | the edits each document gets, of `MaxEdits`; those that are only there for their board or their names get fewer or none |
| `Documents` (document) | 10 | both versions, each kind of definition, a split board with peripherals, a pad with its own pins and with knobs and a slider among its keys, two that are refused, and tap-holds of three timings beside a macro of any name or named `ht_0` |
| `Formats`, `MaxEdits` (document) | 4, 2 | the source, both versions and the preferred one; a setting and a key, or two of a kind, before and after a save |
| `Prompt`, `Mute` | `FALSE`; `TRUE` in `rawhid_mute` | the passing run lets any answer be late; the divergence is shown with a keyboard that answers all it implements in time |

### Fairness

`FairSpec` in `RemapprRpc` and `RawHidClient` is weak fairness of `ClientStep(c)`
for each call. It stands for three facts of the runtime: a timer that is armed
fires (`setTimeout` in `nextFrame`, `readFrameIdle` and `sendPumped`), a promise
chain whose head has settled runs its next link, and `write()` settles. Nothing is
assumed of the device, the transport, the subscribers or the callers: no fairness
of `RouteFrame`, `DeliverIdle`, `DeliverPump`, `Device` or `Issue`. So progress is
owed to timeouts alone, which is what the code relies on. The one assumption the
code cannot enforce, that `write()` settles, is listed as a hazard (`rpc.ts:267`).

`FairSpec` in `QmkService` is weak fairness of `Progress` (some operation's
continuation, its place in the send chain or its next poll) and of `Deadline`, the
timer of the unlock flow. Sends settle because the raw-HID client times each out,
which is what `AllSettle` checks. Nobody is assumed to hold the unlock keys.
`Connect` has weak fairness of `TryNext` and `Exchange` of each caller: every exchange
is answered or times out, and the loops run on by themselves. When to pick, connect,
abort or reopen is the application's choice and is owed nothing. `KeymapLife` and
`MockService` assume no fairness.

## What is proved

Every safety property that a passing run checks on `RemapprRpc`, `RemapprService`,
`RawHidClient`, `ZmkService`, `QmkService` and `Connect` is also a theorem: for any
number of calls, operations, layers, keys, boards and adapters' orders, not for the
instance of the run. So are three of the invariants of the exports, for any
configuration. Where a theorem needs a hypothesis, the last column names it.

| Theorem | Statement | Hypotheses |
|---|---|---|
| **`RemapprRpc_proofs`** | | |
| `ChannelInvariant`, `TypeTheorem`, `OneExchangeTheorem` | `Spec => [](TypeOK /\ WaiterServed /\ OneExchange)` | |
| `OwnReplyTheorem` | `Spec => []UniversalOwnReply` | |
| `SequencedCompleteTheorem` | `Spec => []SequencedComplete` | |
| `ClosedTheorem` | `Spec => ClosedSendsNothing` | |
| `ContractSafety` | `Spec => Contract!Spec`, the refinement of `CallContract` without its progress | |
| **`RemapprService_proofs`** | | |
| `TypeTheorem`, `LayerIdsTheorem`, `CleanTheorem` | `[]TypeOK`, `[]LayerIdsUnique` (no late undo), `[]UnpendingIsClean` | |
| `UnstageTheorem` | `DiscardUnstages` | `~LateReplies` |
| `TruthTheorem`, `PushTheorem` | `[]Truth` and `PushAtomic`, the refinement of `ConfigPush` | `~LateReplies`, `[]FewCommits` |
| `TruthOneAtATime`, `PushOneAtATime` | the same | `~LateReplies`, `~Overlap` |
| `TruthOfFewCommits`, `PushOfFewCommits` | the same | `~LateReplies`, at most `Chunks` + 1 commits |
| **`RawHidClient_proofs`** | | |
| `TypeTheorem`, `OneAwaitingTheorem` | `[]TypeOK`, `[]OneAwaiting` | |
| `IdleOwnReplyTheorem`, `PumpedOwnReplyTheorem` | `[]IdleOwnReply`, `[]PumpedOwnReply` | |
| **`ZmkService_proofs`** | | |
| `TypeTheorem`, `CacheTheorem`, `FreshTheorem`, `PendingTheorem` | `[]TypeOK`, `[]CacheFaithful`, `[]FreshRead`, `[]PendingHonest` | |
| `AimTheorem` | `RemoveAimed` | |
| **`QmkService_proofs`** | | |
| `TypeTheorem`, `MirrorTheorem` | `[]TypeOK`, `[]MirrorTrue` | |
| `HonestTheorem`, `LandsTheorem` | `[]LockHonest`, `[]GuardedLands` | |
| `MacroTheorem` | `MacroLands`, with the two exceptions it names | |
| **`Connect_proofs`** | | |
| `TypeTheorem`, `LocksTheorem`, `BondTheorem` | `[]TypeOK`, `[]LocksReleased`, `[]BondKept` | |
| `OwnerTheorem`, `ServiceTheorem` | `[]OwnerWins`, `[]RightService` | |
| **`Exports_proofs`** | | |
| `KeymapWholeTheorem` | `[]KeymapWhole`, its labels where `NamesApart` and its knobs where `OneKindOfKnob` | `[]SavedTyped` |
| `BoardWiredTheorem` | `[]BoardWired` | `[]SavedTyped` |
| `ProjectBuildsTheorem` | `[]ProjectBuilds`: files for all shields iff the board is whole or falls in two halves | `[]SavedTyped` |

### What the theorems assume

The named assumptions of the modules say of the constants what the code says of
their originals, and TLC evaluates them in every run. The ones to know of:

* `RidAssumption` (rpc): the request ids given out in one run do not wrap.
* `SetupsAssumption`, `OrdersAssumption` (connect): the boards that are sold, on the
  transports they have; `builtins.ts` registers every adapter.
* `NoneAssumption` and `KeyboardAssumption` (zmk) only separate "none" from values
  and give the keyboard ids enough for its layers. That `call_rpc` serves one request
  at a time in order is not an assumption on constants but part of the module.

Others bind the kind of call to its shape (retries and fragments belong to universal
calls), or keep names apart. The hypotheses in the table are these:

* `~LateReplies`: with late replies the service can take a status for the next
  command's (`rpc_stale`), and nothing here would hold. It is the assumption of the
  run too.
* `SavedTyped`: what is saved is a configuration with its parts: lists are lists, layers
  bind all of the board's knobs or none, cells are pairs of numbers, layer actions have a
  mode and lighting actions a target of `types.ts`. Run `document` checks it on every
  configuration it saves; that the normaliser always gives one is beyond the prover, as
  that recurses.
* `FewCommits`: at most `Chunks` + 1 commits are in flight in any state. The bound is
  needed, see [limits](#limits-met-while-modelling). It is met by an application that
  runs one operation at a time (`~Overlap`), and by any two commits at all.

### The arguments

**RPC.** `OneExchange` alone is not inductive: a step of a call pops the chain, so one
must know that the call that takes it is at the head, that no call is in the chain
twice, and that exactly the queued and busy calls are in it. `Channel` says this, and
ties the armed waiter to the head of the chain, a live client and an empty buffer.
`Ownership` adds what makes request ids worth something: the id on every frame, in the
air, in the buffer or in hand, and on every pending request, is the one its exchange
was given; exchanges of framed kinds are numbered by `rids`, below `RidMod`; and what a
call has assembled so far belongs to its present exchange. A frame that passes the
filter `Mine` therefore has the call's own `req`. `Numbering` adds that each frame is
numbered as its place in the answer and that a call has assembled a *prefix* of it; so
a last frame that passes the gap check completes it. `ContractSafety` maps each action
to a step of the contract or a stutter.

**Service.** `Base` holds types, the order of the operations in line and the buffer:
ids below `nextLayerId`, and, while nothing is `astray`, distinct and apart from the
`removed` ones (`Named`), which every edit, reload and reset preserves: without the second
half an undo could not be shown to bring a new id.
`Alone` says that a commit which shared its time with nothing pushes what the buffer
shows, so that the clean flag it leaves is right. `Talk` says that without late
replies there is one command *or* one answer under way and it is that of the first in
line; `Settling` that a commit that took effect awaits nothing but its answer.
`Reserved` is the core: what is staged when
`o` sends VALIDATE or COMMIT is nothing, or contains `o`'s last chunk and so is `o`'s
blob, or is so short that the commits which can still send before `o` cannot fill it.
The last disjunct is where the number of commits is counted. With `Activated` (a COMMIT
answered OK has activated its own blob), `Truth` and the refinement follow.

**Raw HID.** `LinedUp` and `ReadsOK` count, while sends read for themselves: the read a
reply is meant for is no nearer to the front of the reads than the reply to the front
of the replies, and behind the read of the send that waits there is only the pump's.
So no send gets a reply older than itself. `IdleAlone` says that such a send started
before the pump and all pumped sends. `Blamed` is the accounting of the pumped path:
each reply still to come is the running send's, or a send of its command byte timed
out, or the connection is over.

**ZMK.** `IInv` has a conjunct for each shared piece of state. `LoopOK` places the
calls and jobs in the event loop (a settled promise wakes those that await it before
anything else happens). `CacheOK` says that the cache is the keymap at `hist[seen]`,
where `hist` is the history of the keyboard and `seen` the last state the client has
been told of; that the cache's repetition and the keyboard do the same to a keymap is
a lemma per method. `CallOK` dates what each call was told and what it awaits.
`PendingOK` joins flag and notifications: the last one under way, or else the flag, is
the keyboard's.

**QMK.** A settled send's continuation runs before anything else, so at most one
operation is `Ready`, and its reply is fresh. For the mirror: `Reloading` says that a
write beside a reload was in line before it, so that each slot the reload has read is
still the keyboard's; `Placed` that a write's position and cell agree under the
definition in force; `Echoed` that an echo tells the truth; `Mirrored` is the property
itself in the middle of things, with the slots whose echo has come but is not handled
as exceptions. For macros, `Buffered` says of each moment of a macro write which parts
of the keyboard's buffer are as before and which as intended. For the lock, `Guarding`
says that a guarded write under way knows an unlocked keyboard, unless a `lock()` runs
beside it.

**Connect.** `Held` says, of every step of every script, who holds the streams, and in
which state a caller may stand without holding them. `Bond` says that as long as nothing
slipped there is one identity, in the store or on its way there, known to every board
that knows any. `OwnInv` says of every probe step what the board can have answered so far,
hence who can have refused or accepted, and that the owner comes first: for this the
sort's result, which the model describes by CHOOSE, is shown to exist and to hold every
adapter asked, in order of rank (`CandidatesSorted`). `RightInv` continues with the
service that is built.

**Exports.** Here there is no induction over steps: each theorem says of every
configuration what an export of it is. The matrix rests on counting. `Numbered` says that
in a finite set with a strict order each element is known by how many come before it, and
that every number below the size is some element's. With it `LocalCells` gives each key of
a half a cell of its own, `HalvesApart` puts the columns of the halves one after the
other, and `CellsApart` joins the two; `CellsResolved` and `MatrixCovers` carry this to
wirings that are given, wholly or for some keys. The taps of a dance are put in order by
the same lemma (`TapIsOfDance`). For the keymap, `BindingByType` splits the emitter by the
type of an action, once; `WrittenResolves`, `SaidWhenLost` and `OptionNeeded` each go
through its cases, and `RefsOfNodes` shows that nodes refer to what was written.
`KnobsListed` and `KnobsFrom` say which knobs a layer has and where they come from: from
the first follows that sensors keep their places, from the second that a knob's actions
are among those the options are derived from (`WrittenAreScanned`). For the labels the
places of the file are counted: they are finitely many (`FewPlaces`) and strictly ordered
(`PlacesOrdered`), so each pair of timings has a first place (`FirstOf`), and by `Numbered`
different pairs have different numbers (`NumbersApart`); `PlacesTell` does the same for
the place in a knob's label, and `LabelsApartOf` joins them with `NamesApart`.

### What is only model-checked

* Liveness: `AllSettle`, `OpsEnd`, `AbortEnds` and the progress half of
  `ContractKept`. Fairness and `ENABLED` are out of the proof system's reach.
* `KeymapLife` and `MockService` with the operators of the blob and of the documents, the
  type invariant of `KeymapLife` among them. The compiler, the
  decoder, the trie and the document grammar recurse over nested actions, with
  RECURSIVE operators that cost the prover its SMT backend; and induction over data, by
  which one would show what they compute for every input, needs theorems with operator
  parameters, which the provers cannot instantiate.
* `BoardReadBack`: the parser walks over a row with a fold, and rows are sorted. And
  `SavedTyped`, which is the hypothesis above.
* The four properties that are violated.

## Where the code and its documents disagree

Four runs end in a counterexample; `PROJECT.json` quotes the lines.

1. **A plain call takes any frame for its reply** (`rpc_stale`). The specification
   document says the frame whose `(cmd, seq)` matches. `GET_DEVICE_INFO` times out
   after 400 ms; its late answer settles the call that follows.
2. **A lost COMMIT reply leaves the version behind** (`service_version`). The device
   activated version n + 1, the service stays at n and pushes n + 1 again, which the
   device refuses until the service is reconnected.
3. **An edit staged during a commit is dropped** (`service_edits`). The blob is built
   before the awaits, the edit maps are cleared after them, and the pending flag
   with them.
4. **An unanswered query starves the idle read path** (`rawhid_mute`). The read that
   lost its race swallows the next reply, so each later send times out in its turn,
   where the Keychron adapter expects only the optional query to fail.

### Limits met while modelling

No run ends in these; the properties name the ones that concern them as exceptions,
so a passing run says that nothing *else* goes wrong.

*Connecting.*
- The Remappr probe, when it refuses, aborts the transport: a VIA or Vial board that
  shares its vendor id (0x1209) can never be reached. Over BLE the wrong adapter asked
  first does the same.
- HID without a vendor id falls back to registration order, and VIA may take a Vial
  board without a notice. After a silent definition read Vial's own fallback is not
  reached either, as an un-pumped raw-HID client stays deaf after a missing reply.
- The registry does not await `prepare`, though `identity.ts:19` says so; a failed
  `host.get` counts as nothing stored, and the identity then minted overwrites the
  stored one; the save is not awaited.
- A failing create of the VIA, Vial and Keychron services, and ZMK's uncached probe,
  leave the streams locked. Two picks at once on one transport can hand a Vial board
  to VIA.
- `loadBehaviors()` of the ZMK service asks whether any behaviour is known before it
  looks for a read in flight: who calls during that read takes a part for all of them.

*Saving a Remappr keymap.*
- The merge goes by layer index: moved, removed or restored layers leave rich bindings
  and encoders at the index. A renamed layer leaves its old name behind in combos and
  conditional layers; a combo limited to a name no longer known holds on every layer,
  one limited to several layers is widened. `addLayer` can give a name twice.
- A short read of the configuration loads a default one, and a commit then overwrites
  the keyboard.
- `setMacro` drops the steps and flags the compact form has no word for; a consumer
  usage comes back as the keyboard key of the same number. `setTapDance` with both
  slots empty makes the commit throw.
- Retyping a rich key to the form it is shown in is dropped. Layer masks above 16
  layers, an all-black per-key colour, a positional hold inside a composite and
  unreferenced definitions are lost on the way through a blob; an absent encoder
  direction is written as none.
- `setAutocorrect` and `setConditionalLayers` are documented to make `commit()` throw
  on bad entries; the compiler's diagnostics are not looked at.
- `encodeMacro` of the Vial codec emits bytes 0x00 that its header rules out.

*Pushing it.*
- `BEGIN` empties what another commit has staged, and with replies lost the commits in
  flight can mix: between the last chunk of one commit and its VALIDATE a second
  commit's BEGIN and a third's chunk arrive, and where that one chunk is as long as a
  blob the first commit reports success for a configuration that is not its own.
  This takes more commits at once than `Chunks` + 1, so with the code's chunks of 32
  bytes (`protocol.ts:40`) it takes a tiny blob or a great many commits. TLC finds it
  with three commits and `Chunks` = 1; the proofs carry the bound.

*Raw HID.*
- The pump tells replies from pushed reports by the first byte (`rawHidClient.ts:195`).
  Keychron boards push reports that begin like the replies to the default-layer query
  and to the whole MISC group (`src/src/clients/keychron/protocol.ts:760-777`), so one
  that arrives while such a send is pending settles it, and the reply goes to the
  listeners.

*QMK definitions.*
- The KLE parser keeps every variant of a layout option
  (`src/src/kle/parser.ts:170-211`), so a matrix cell can be drawn by
  several keys. `setKey` writes the cell and updates the mirror at the position it was
  given; the twin shows the old action until the keymap is read again.

*Documents and the demo.*
- Some friendly names mean another key when read: "←" of Left Arrow is Backspace, and
  "Shift++" is refused. In v2 a key spelled "Reset" or "Repeat" is the behaviour.
- The compact tap-hold loses `holdTriggerKeyPositions` and `holdTriggerOnRelease`
  (`migrate.ts:495-507`), where `docs/json-config.md:14-16` and `migrate.ts:404-410` say
  lossless and byte-identical.
- Also in v2: macro tokens such as "Pause", trimmed text, layer names that end in
  ":toggle", renamed combos, ids that look like integers change order, equal ids
  merge, tap dances are ordered by count, mod_tap and layer_tap become tap_hold.
- Saving leaves out a timing equal to the default of the target, in every format
  (`serialize.ts:67-75`), where `defaults.ts:6-8` says behaviour is preserved: with
  `defaults.tappingTermMs` 150 in the document, a key that asked for 200 has 150 when
  opened again.
- Nothing stops a save of a document that cannot be read back.
- The demo's header (`mock/configBridge.ts:9-13`) says config-only features are kept at
  positions nobody changed; its list has nine types, so modified presses, mod-morphs,
  hold-taps and others are lost on a raise, as are the knobs and sliders of layers.
  `getConfigSource` serves the configuration without the keys set, its setters store
  lists unvalidated, and `restoreLayer` has no limit; nor has the one of the Remappr
  service (`service.ts:628`), where the device then refuses the commit. None of them looks
  whether a layer has the id already. A raise also drops
  the bindings of knobs and sliders that are keys.

*Exports.*
- `viaJson.ts:171` writes a row's `y` as the distance from its number; the reader
  (`kle/parser.ts:161`) adds it to where the row before ended. Rows that are not a key
  apart come back at other heights. Vial has one knob per matrix row: knob keys of one row
  fall into one.
- A split board whose keys do not fall into two groups is built as two shields, and the
  one overlay made for it is not shipped (`bundle.ts:290`).
- `firmwareConf.ts:15` says it walks every action: those of tap dances, mod-morphs and
  sliders are not among them, so an option or a feature needed only there is off.
- A board with knobs in its list and knobs that are keys: a layer that binds one kind only
  has fewer sensors than the next, and ZMK counts them by place.
- Derived transforms of the ZMK overlay round places to whole keys, so two keys can share
  a cell; the cells given in `keys[].matrix` are not looked at. A split board's files do
  not use the key scan and the transform that were given, and `applyLayout` leaves a
  transform behind that is another board's.
- Outputs on a Keychron, and USB on QMK, become `KC_NO` without a word; a ZMK tap-hold
  loses the modifiers of its tap.
- An id of the author's may equal a generated label or a behaviour of ZMK's, and two may
  be one label after `sanitize()` ("a-b", "a_b"): nothing looks.

## What is not modelled

Beside the parts marked `not_modelled` in `PROJECT.json`:

* of the channels, the listener sets and their disposers and the byte accumulator
  with its limits; of the services, labels, exports, RGB and cluster facades, node
  views, and `disconnect()` where no property needs it. The counters that seal frames
  need a model of their own (see the plan); the cryptography itself is external;
* of the documents, meta data, descriptions,
  array-form definitions of v2 and macro steps in a combo's spelling. Of the bundles,
  manifests, workflows, READMEs and the author's own lines; the Remappr shield. Only the keys of layers, tap-dance and mod-morph definitions and combos go
  through the v2 grammar; encoders, leaders and key overrides stay as they are. The
  order of modifiers is not kept, and absent and empty lists are not told apart;
* of the decoder, which fault of a header is named; of the compiler, the text of
  diagnostics;
* of the demo, dynamic entries, macros, lights, the progress of the 'actions' lock and
  physical layouts; of the KLE parser, decals, rotation and variants;
* byte layouts of the QMK, Vial and ZMK protocols, keycode tables, labels and the layout
  of the text the compilers print: data or pure formatting, where a table-driven unit test says as much as a model. Transports are external.

## Plan

The theorems planned for the six state machines of the channels, the services and the
connect, and for the exports, are proved. What would come next:

1. `RoleEvents`, the listener set of `subscribeRole`, whose SUBSCRIBE and UNSUBSCRIBE
   are exchanges on the chain of `RemapprRpc` (hazards at `rpc.ts:478` and `:484`).
2. `Session`, the seal and open counters over lossy exchanges (`auth.ts:283`), with
   "each nonce is used once" as its abstract specification.
3. Lemmas on those pure operators that do not recurse: the order of spellings of a key
   in `KeyNames`, the merge by layer index in `ConfigBridge`.
4. `SavedTyped` from the document grammar, with its recursion written as folds over the
   depth of an action.
5. The configuration read over changing versions, chunk by chunk, and the roster.
