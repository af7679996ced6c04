# TLA+ models of mcpdef

mcpdef stands between MCP clients (agents) and MCP servers ("upstreams"): it lists the servers'
tools, resources and prompts as one server's, judges every request against a policy, sends it on,
inspects what comes back and writes a record of it. This directory models the parts of it that keep
state and run concurrently, and the algorithms they decide by; checks both with TLC on small
instances; and proves with TLAPS, for every value of the constants, what the runs check of the
handle, the ledger and its readers, the pins, the keeper, the calls, the links, what is followed, and
the fronts; and of the algorithms, what the two listeners' doors, the verifier of tokens and the guard
of what is dialled decide.

    tlc -config UpstreamMux.cfg UpstreamMux     # one run; PROJECT.json lists all of them
    tlapm UpstreamMuxProofs.tla                 # one module's proofs

1. [Inventory](#1-inventory): the system's parts, their state, how they interact, what is hard.
2. [Modules](#2-modules): which models which part, and how.
3. [Runs](#3-runs): what each shows, at which bounds, under which fairness.
4. [Proofs](#4-proofs): what is proved, and by which argument.
5. [Where the code and its text part](#5-where-the-code-and-its-text-part).
6. [What is not modelled](#6-what-is-not-modelled).
7. [Plan](#7-plan).

Paths are relative to the repository; `gateway.rs` and other bare names are in
`src/crates/mcpdef/src/`, `mux.rs`, `http.rs` and `oauth.rs` in `src/crates/mcpdef-transport/src/`,
and `lib.rs` in the crate the sentence is about.

## 1. Inventory

Parts that keep state:

| Part | State it keeps | Operations | What makes it correct |
|---|---|---|---|
| Upstream handle, `mux.rs` | next private id, permits of a semaphore, command queue, waiters by private id, down signal, failure count | `call` with its timeout and its cancellation, the actor's loop, the down signal | a reply reaches the call it answers and no other; a slot is held exactly while its call is out; every timed call ends, and a lost connection ends all |
| Openings, `gateway.rs` `open_upstream` | the binding chosen, the era, the session | probe, initialize, list pages | one handshake, in the era agreed on; the list is current or word of a change is out |
| Event stream of the 2024-11-05 transport, `http.rs` | the last event id, how often it reconnected | read, break, resume | each message once, in order |
| A stdio child, `mcpdef-transport/lib.rs` | two pipes, a reader, a bounded queue | send, receive | lines whole and in order; a send ends when the child reads |
| Upstream credentials, `oauth.rs` | a token, when it ends, one fetch at a time | fetch once for many, refresh when refused | a fetch only where the token at hand is refused or due; every request ends |
| Audit ledger, `mcpdef-audit` | the file, head and next number in memory, the head published | open and replay, append under a lock, verify | the file is a chain; a record whose append returned is on it; verify accepts exactly what was written |
| Audit readers, `read.rs`, `admin/audit.rs` | offsets into the file, what a browser saw last | follow, resume after an id, verify a file that grows, page backward, export | each record once, in order, none missed; no false alarm |
| Tool pins, `mcpdef-pin`, `gateway/relist.rs`, `gateway/actions.rs` | the pin store in memory and on file, each slot's list and verdict | pin on first use, judge, approve, list anew, read the store again | a definition is served only if it was taken as a pin; a verdict goes with the list it judged; an approval lasts |
| Upstream supervision, `gateway/supervise.rs`, `gateway/reconfigure.rs` | a slot and its tenure, one keeper task per tenure, `starting`, `kick` | watch, tell, wait, open, install, retire | what serves is watched; the records are true; it comes back |
| A call's way, `gateway.rs`, `listener.rs`, `gateway/lists.rs`, `gateway/resources.rs` | the governance in force, permits, route memory, rate limiter | every MCP method, reload, opening | what is sent was allowed by one version of the governance; its record is true; nothing flagged passes |
| Rate limiter, `mcpdef-ratelimit` | token buckets | spend | no stretch of time lets by more than a bucket holds and gains |
| Metrics, `metrics.rs` | counts, buckets, minutes | record a call, render | the three views agree, and say what was counted |
| Keys of an identity provider, `mcpdef-auth`, `listener.rs`, `admin/signin.rs` | the keys, a reserved slot for a fetch, the provider looked up | verify with rotation, look again | a rotated key comes in; keys never go back; the provider is found once it is there |
| Reload, `reload.rs` | what is in force, the watcher's snapshot, the queue of asks | asked for, read, refused, built, applied | taken whole or not at all; what the watch refused it refuses once; the file on disk ends up in force |
| Console sessions, `admin/signin.rs`, `admin/session.rs` | keys, sign-outs, finished sign-ins; cookies in the browser | sign in, renew, end | a session is of the browser's own sign-in, and ends for good |
| Clients' certificates, `tls/issued.rs`, `tls/client_auth.rs` | the list of what was issued and revoked, the check in force, a connection's verdict | issue, revoke, rebuild, check again | none revoked gets in once the gateway has read so; no revocation is lost |
| The listeners' certificate, `tls.rs`, `tls/local_ca.rs` | a CA and a leaf on file, the pair served | make, renew, new CA, read again | what is served is in time; the files are a pair |

Parts that only compute: the policy with its roles, rules, globs and transforms
(`mcpdef-policy`), URIs (`mcpdef-policy/uri.rs`), the wire (`mcpdef-core/wire.rs`), inspection
(`mcpdef-inspect`), the egress guard and the TLS of upstreams (`mcpdef-transport`), the checks of a
token and of a forwarded certificate, the guard of the admin listener, and configuration
(`config.rs`). Each is correct when it computes what its module defines without the code's shortcuts.

Every component, with its status and what of it is left out, is in `PROJECT.json`.

**How they interact.** A request comes over HTTP or stdio; over HTTP the listener asks who it is
from, by its connection, its proxy's header and its token, and takes a permit. It loads the
governance (`ArcSwap`) once: policy, slots with their lists and verdicts, and routes. Its tool name
is routed to a slot; the policy, roles and rules judge it; a token is spent; the slot's handle sends
it. The handle's caller talks to an actor task by a queue and a oneshot channel, and holds a
semaphore permit that travels with the command; over HTTP each call is an exchange of its own, which
may first wait for a credential. The result is transformed and inspected, the record appended under
the ledger's lock, and the answer goes out. Beside the calls, one keeper task per upstream watches
its connection and opens another; a watch task lists a server's tools again when it says they
changed; a reload reads the config and the files it names, replaces the governance, the certificates
and the verifiers, retires keepers and reads the pins again; an operator approves definitions or asks
for a restart; the admin API follows and verifies the ledger while it is written. The command line
writes some of the same files (pins, the list of issued certificates, the CA) while the gateway runs.

**What is hard here.** Interleavings: state read, awaited past, then used (verdicts, slots, the pin
store, a TLS build begun before a revocation); permits that change hands on six paths; commands,
timeouts and replies that cross; answers to a browser that overtake each other. Failures: half a line
written, a process that ends between two renames, a save that fails after memory changed, a
connection that dies while another opens, a client that leaves in the middle of its call. Ordering:
wake-ups and events, records and answers, transforms and the rules that judge them. Liveness: an
upstream that stops reading, a keeper that hands over, word that tools changed while they are read,
keys that rotate. Algorithms with more cases than a test lists: glob overlap, URIs, address ranges,
an edit's effect on what an output schema asks. `PROJECT.json` "hazards" lists each at its line with
the properties that watch it.

## 2. Modules

| Module | Models | Kind |
|---|---|---|
| `UpstreamMux` | `mux.rs`: callers, the actor, the upstream | state machine |
| `CallContract` | what a handle promises its callers | abstract specification |
| `UpstreamMuxProofs` | | theorems |
| `UpstreamToken` | `oauth.rs`, and `send_authorized` of `http.rs` | state machine |
| `UpstreamOpening` | from a setting to an open upstream and its list | state machine |
| `UpstreamPipes` | the event stream, the pipes of a child | two state machines |
| `MCUpstreamLinksProofs` | about the three above, and `UpstreamDial` | theorems |
| `LedgerChain` | hashes, verify of `mcpdef-audit` | operators |
| `AuditLedger` | the ledger's file, its writers, deaths and restarts | state machine |
| `AppendLog` | what an append promises | abstract specification |
| `AuditReaders` | the stream and the verify, beside `AuditLedger` (EXTENDS it) | composition |
| `AuditLedgerProofs` | | theorems |
| `LedgerPages`, `LedgerRecords` | pages, filters, exports; records, their lines for a SIEM, metrics | operators |
| `ToolPins` | one server's definitions, judged by five tasks | state machine |
| `ToolPinsProofs` | | theorems |
| `UpstreamKeeper` | one upstream's keepers, asks and reloads | state machine |
| `UpstreamKeeperProofs` | | theorems |
| `GatewayPolicy` | routing, policy, roles, rules, transforms, inspection | operators |
| `GatewayCall` | requests through the gateway, and its token buckets (EXTENDS `GatewayPolicy`) | composition |
| `GatewayCallProofs` | | theorems |
| `GlobsAndUris`, `WireHeaders`, `ValueEdits`, `SecretSpans` | the algorithms of the policy, the wire and inspection | operators |
| `BearerToken`, `FrontDoor`, `ConsoleDoor` | who a request is from, and whether a listener serves it | operators |
| `UpstreamDial`, `UpstreamReads` | which upstream is dialled and how; certificates, exchanges and secrets as they are read | operators |
| `ConfigRules` | what a configuration is refused for, and what the gateway makes of one | operators |
| `ProviderKeys`, `ConfigReload` | keys and provider; the reload task | state machines |
| `ConsoleSessions`, `ClientCertificates`, `ListenerCertificate` | sessions; issued certificates; the served pair | state machines |
| `MCFollowedProofs` | about `ProviderKeys`, `ConfigReload`, `BearerToken` | theorems |
| `MCFrontsProofs` | about the three above, `FrontDoor`, `ConsoleDoor` | theorems |

`MC*` modules give the constants of a run their values and, where several state machines or
algorithms share a run, compose them. `MCUpstreamLinks`, `MCFollowed` and `MCFronts` have a variable
`part` that says which machine a behaviour is of: the parts share no state in the code, so their
product would only add states. `MCTexts` (with `MCDoors`, `MCConfig` and `MCReadings`) has no code of
its own: see [the algorithms](#the-algorithms-mctexts) below.

Definitions commented *Mutant* are changes a bug might make to the definition that follows them;
nothing uses them, and each of the properties is known to fail under one.

The `map` of `PROJECT.json` says which lines of the code a definition stands for. A small helper has
no entry of its own when the lines are those of the operator that uses it.

### UpstreamMux

One variable per piece of state: `Shared` (`nextId`, `failures`, `down`), the semaphore (`holding`:
whose permit exists), the oneshot channels (`answer`), the command queue, the actor's map `waiting`
and the call it writes (`sending`), the callers' program counters, and the connection (`peer`,
`served`, `inbox`). A handle's `route` is fixed: *actor* (stdio, one reader and writer), *inline* (a
sandbox, one call at a time) or *direct* (Streamable HTTP, an exchange per call).

| Code | Actions |
|---|---|
| `call`, `begin` | `BeginDown`, `Begin`, `Acquire`, `Submit`, `SubmitLate`, `StartExchange` |
| its end | `Receive`, `Timeout`, `Drop` (its future is dropped), `Tally` (breaker) |
| the actor's loop | `TakeAbandoned`, `TakeDown`, `TakeCall`, `TakeForget`, `WriteDone`, `WriteLost`, `WriteFailed`, `RouteReply`, `DropUnreadable`, `ReadEnd`, `StopUnused`, `Exit` |
| inline, direct | `InlineRun`, `InlineLost`, `ExchangeAnswered`, `ExchangeLost`, `ExchangeFailed` |
| the upstream (external) | `UpstreamAnswers` (any order, twice, never), `UpstreamGoes` |

A message is `[id, of]`: the private id it carries and the call it truly answers, so that routing by
id can be wrong. The inbox may hold strays that answer the opening's own requests. `CallContract`
knows no ids, queues or actors: a call is open, takes one of `Limit` slots, is transmitted at most
once and only with a slot, ends once, and a reply only comes to what was transmitted. `KeepsContract`
is the refinement.

### The upstream's links: UpstreamToken, UpstreamOpening, UpstreamPipes

| Module | Code | Actions |
|---|---|---|
| `UpstreamToken` | `send_authorized`, `TokenAuth`, `StaticAuth` | `RequestStep` (look, lock, fetch, send, refused, send again), `Dropped`; the server and time: `Issue`, `Revoke`, `ComesDue` |
| `UpstreamOpening` | `open_upstream` and both handshakes | `OpeningStep`, `TimesOut`; the server: `Serve`, `ToolsChange`, `Breaks` |
| `UpstreamPipes` | `legacy_sse_loop` | `Get`, `GetFails`, `Read`, `StreamBreaks`; the server: `Says`, `Write` |
| `UpstreamPipes` | `StdioChild::send`, its reader | `StartSend`, `SendStep`, `Receive`; the child: `ChildStep`, `ChildEnds` |

A credential is a number, the upstream takes those from `floor` on, and `line` is the lock of a
fetch with those who wait for it, so that a request dropped in the line or while it fetches leaves it
to the next. An opening's server has an era, a kind and pages, and may change its tools between two
of them; `server.hellos` counts the handshakes it got. The event stream knows every message by its
place, and resumes from an id that is a number or not.

### LedgerChain, AuditLedger, AuditReaders, LedgerPages, LedgerRecords

A hash is the list of all that went into it: two hashes are equal only if everything before is,
which is what SHA-256 is used for. In the machines a record's other fields are one opaque entry.
`LedgerChain` has `verify_chain`, `verify_against` and `verify_marked`, which the kind `ledger` of
`MCTexts` applies to files that may not be the one written.

In `AuditLedger` a line is two halves and a newline. `Ask` and `GiveUp` are a caller that waits for
the lock and may be dropped; `WriteSome`, `Write`, `WriteFails` are `write_all`; `Publish` returns
the record; `Die`, `Open`, `Refuse` are a process that ends at any point and one that replays the
file, whatever is at its end. What follows a half line on the same line does not parse (`Garbled`).
`AppendLog` is the abstraction: a log that only grows by entries whose callers wait.

`AuditReaders` adds the admin stream (`Subscribe`, `Locate`, `Read`, `SendNext`, `BatchDone`,
`Wake`, `Receive`, `Cut`) and the verify, which notes how far the ledger is written (`Note`), then
reads the file (`Answer`).

`LedgerPages` has what reads the file once: lines as bytes, pages backward under a budget of bytes
scanned, filters, one record by its number, exports. `LedgerRecords` has what one record says: its
members and the text its hash is of, what `append` refuses, the CEF, syslog and OCSF lines with their
escapes and dates, and the metrics kept beside it (a call's bucket, the sliding minutes, quantiles,
the top tools).

### ToolPins

One server, a few tools, and definitions that are their hashes. Five tasks change or use the same
store and slot, each action one stretch of code between two awaits:

| Task | Code | Actions |
|---|---|---|
| keeper | `supervise.rs`, `Gateway::admit` | `WaitDown`, `Retired`, `Reach`, `Admit`, `Install`, `InstallRefused`, `Settle` |
| watch | `relist.rs` | `Relist`, `ListTools`, `ListFails`, `JudgeTools`, `LeaveTools`, `PutTools`, `Unlock` |
| operator | `actions.rs` approve | `Check`, `RecordApproved`, `SaveApproved`, `ServeApproved` |
| reload | `reload.rs` plan, `reconfigure.rs` | `Plan`, `SaveOld`, `SwapStore`, `OpenChanged`, `OpenFails`, `JudgeReloaded`, `PutReloaded`, `Finish` |
| `mcpdef pin` | `main.rs` | `LoadPins`, `PinOffered` |

`ServerChanges`, `ServerSaysAgain` and `ServerChangesSilently` are the server; `Crash` the process.
`approved` and `slipped` are history: definitions taken by an operator or on a tool's first use, and
definitions taken as a first use of a tool that had one before.

### UpstreamKeeper

A slot with the tenure that holds it, a keeper per tenure, `Health::starting` and `Health::kick`,
the connections that live, and the reload. Every await of a keeper's loop ends an action, since
`select!` takes any branch that is ready: `Retired(k)`, `Asked(k)` and the end of a wait are
separate, and may all be enabled. `told` is the last record about the upstream.

### GatewayPolicy, GatewayCall

A glob is the set of the names it matches, and an edit a function of the value, so `GatewayPolicy`
has the *order* of decisions: which of several denials is named, which rule decides, what a failed
transform does, which server a name goes to (`Reroute`), what is shown (`Listed`). An `Option` is a
set of at most one element. A bucket of `GatewayCall` counts tokens in units of `1/Cost`.

`GatewayCall` takes each request through the steps of its handler:

| Step | Code | Action |
|---|---|---|
| a permit, or refused | `listener.rs` `handle_post` | `Enter`, `Refuse` |
| the client leaves | `RunToEnd` | `Leave` |
| the governance is loaded | `handle_from` | `Arrive` |
| routing, transforms, policy, roles, rules | `handle_tools_call`, `gate`, `resources.rs` | `CallTool`, `Read`, `GetPrompt`, `Complete` |
| no such method, or answered here | `handle_method` | `RefuseMethod`, `AnswerAlone` |
| limiter, then the send | `gateway.rs:1690`-`1760` | `Dispatch` |
| the upstream fails, or answers; result transforms and inspection | | `Fails`, `Answered` |
| the record, and the permit back | `audit`, `handle_post` | `Record` |
| lists over all servers | `lists.rs` | `AskLists`, `Gather` |
| `Reload`, then the limiter; an opening or a new list; time | `reconfigure.rs`, `install` | `Reload`, `StoreLimiter`, `Opened`, `Tick` |

A version of the governance is a record, and every request keeps the one it loaded.

### What is followed from outside: ProviderKeys, ConfigReload

| Module | Code | Actions |
|---|---|---|
| `ProviderKeys` | `verify_with_rotation`, `refresh_jwks` | `Present`, `Served`, `Refreshed`, `FetchFails`, `TriesAgain`; the provider and time: `Rotate`, `ComesUp`, `Tick` |
| `ProviderKeys` | `SignIn::provider` | `Ask`, `Finds`, `FindsNot`, `LookDropped`, `AsksAgain` |
| `ConfigReload` | `run`, the watch, `Reloader::apply` | `TakeSignal`, `TakeAsk`, `TakeTick`, `LoopStep`; the keeper of a changed server: `Reopens` |
| `ConfigReload` | `Reloads::reload` (the admin API) | `AskFor`, `Send`, `GivesUp` |
| `ConfigReload` | an operator (external) | `Edit`, `PairCompleted`, `Signal` |

A document of keys is a number, and a token names the key of one document, or none there is. A
config is its edition, whether it reads, whether it needs a restart, and how it reaches its upstream;
files beside it (a sandboxed module, the listener's certificate and key) have editions of their own
and change between the reads of one reload. `inForce` has the edition of each part of the gateway, so
that "half in force" can be said.

### What the listeners keep: ConsoleSessions, ClientCertificates, ListenerCertificate

| Module | Code | Actions |
|---|---|---|
| `ConsoleSessions` | `/login`, `/callback`, a request, `/logout`, a start | `Login`, `CallbackBegins`, `CallbackRefused`, `CallbackEnds`, `UseBegins`, `Answered`, `LogoutBegins`, `Lost`, `Restart`, `TimePasses` |
| `ClientCertificates` | `tls issue`, `tls revoke` | `Command…` actions, one per file read or renamed |
| `ClientCertificates` | a reload's check; a connection's | `BuildReadsCa`, `BuildReadsCrl`, `BuildEnds`, `GatewayRestarts`; `Handshake…`, `ProxyConnects`, `Request…`, `Disconnects`; time: `Ages` |
| `ListenerCertificate` | the gateway: `prepare`, `renew_if_due`, `install` | `Starts`, `Reloads`, `Ticks`, `Installs`, `BuildRefused` |
| `ListenerCertificate` | the command: `tls init`, and `--new-ca` | `Inits`, `NewCaMade`, `LoadsAgain` |
| `ListenerCertificate` | either, at an `ensure` or a `write_pair`; time | `Looks`, `Writes` (`SetsAside`, `PutsCertificate`, `PutsKey`), `WriteFails`, `RollbackFails`, `Dies`; `DayEnds` |

A session is sealed into its cookie, so the browser's jar is where it is: a request carries the
cookies of when it began, and its answer sets those of when it was made, in any order with others'.
A pair is two files, each renamed over the other on its own, with the certificate put aside first; a
process may die, or a rename fail, at each, and so may the rename that puts the certificate back. The
gateway and a command are two processes with a job each (`jobs`), and no lock keeps them apart: their
steps interleave as they may, between any two renames, so that both may be at one pair at once, or one
may issue by a CA it read before the other put a new one there. `crossed` and `spoilt` only keep a history:
which writes met, and which pairs may be in halves for it, or for a death or a failed rollback.

### The algorithms: MCTexts

A behaviour of `MCTexts` picks a `kind`, then grows two inputs of that kind up to its bounds; each
state is an input, and an invariant compares what the code's algorithm says with a definition of what
it is to compute, which is written without the code's shortcuts (a glob by the texts it matches, a
hash by what it is of, an address by its range, a configuration by whom its listeners then serve).

| Property | Kinds | Compared |
|---|---|---|
| `RulesHold` | `names` `overlap` `paths` `pathsOverlap` `globs` `uri` `host` `args` `edits` `scan` | matching and overlap with some reading of the stars; a normal URI with what any number of decodings reads; edits with what they keep, and with the output schema; matches of a secret with all there are |
| `WireHolds` | `header` `request` `schema` `params` | a header with what it decodes to; what is relayed with what a server checks; an interim result with what the client declared; parameters in headers with the body |
| `LedgersHold` | `ledger` `file` `record` `written` `year` `figures` | which files verify; pages, filters and exports with the records there are; a record's text with what its hash pins; dates; three views of the metrics with the calls made |
| `DialsHold` | `address` `dial` `profile` `certificate` `der` `stream` `table` `talk` `secret` `command` | ranges; what is dialled with what was checked; roots, pins and identity; fields of a certificate; a session and its answers; a secret with its source |
| `CallersHold` | `token` `cidr` `xfcc` `forwarded` `clientCert` `spiffe` `mcp` `page` `console` | a token's claims; a proxy's header with the certificate it says; both listeners' answers with the credentials a request has |
| `ConfigsHold` | `admin` `auth` `rule` `rate` `servers` `tls` `sso` `client` `entry` `resource` `grant` | a configuration that is not refused with what the other modules make of it |

In `ConfigsHold`, a configuration that `validate` does not refuse is given to `FrontDoor`,
`ConsoleDoor`, `BearerToken`, `GatewayPolicy` and `GatewayCall`: it serves someone, it serves nobody
without a credential it names, a rule is about what it says, a token of one listener is none of the
other, what `sso init` merges names those the provider is set up for and changes no caller of the MCP
listener; the entry `mcpdef connect` makes for a client is served by that gateway, and is merged
into the client's own file with nothing of it lost.

## 3. Runs

| Run | Module | Properties | Bounds |
|---|---|---|---|
| `mux` | `UpstreamMux` | `OwnReply` `SlotHasOwner` `KeepsContract` `CallsEnd` | 2 calls, one of them timed, 1 slot, breaker after 2, every route |
| `upstream_links` | `MCUpstreamLinks` | `OpeningsHold` `MessagesInOrder` `FetchesAreNeeded` `LinksEnd` | 3 requests, 2 credentials, a failed fetch; 3 pages, 2 changes; 5 events, 4 reconnects; pipes of 1 line |
| `ledger_torn` | `AuditReaders` | `ChainVerifies` `StreamIsExact` | 1 gateway, 3 entries, the filter takes 2, batches of 2, torn writes |
| `ledger_whole` | `AuditReaders` | `RecordedIsOnFile` `NoFalseAlarm` `KeepsLog` `StreamCatchesUp` | the same, writes whole; deadlock checked |
| `ledger_lost` | `AuditLedger` | refutes `RecordedIsOnFile` | torn writes |
| `texts` | `MCTexts` | `RulesHold` `WireHolds` `LedgersHold` `DialsHold` `CallersHold` `ConfigsHold` | every input of each kind up to its size in `Pieces` |
| `pins_races` | `ToolPins` | `ServedWasTaken` `FirstUseIsOnce` `ApprovedIsOnFile` `NewsArrives` | 1 tool, 2 definitions, 2 connections, a change, a reload, an approval, a mishap; saves may fail |
| `pins_reload` | `ToolPins` | refutes `UnapprovedIsRefused` | a change, a reload |
| `keeper_kept` | `UpstreamKeeper` | `ServingIsWatched` `RecordsAreTrue` `ComesBack` | an outage, a failed opening, an ask, 2 reloads; 7 connections |
| `gateway_calls` | `MCGatewayCall` | `SentWasAllowed` `NameKeepsItsServer` `ShownIsServed` `RecordTellsTheTruth` `NothingFlaggedPasses` `PermitsAreHeld` `RateHolds` | 2 requests of every method, 2 servers with a name in common, 2 configurations, one change, one event |
| `followed` | `MCFollowed` | `ReloadsHold` `KeysMoveForward` `OutsideIsFollowed` | 2 requests, 2 rotations; 2 sign-ins; 2 edits, 1 asker, a queue of 1; one mishap |
| `fronts` | `MCFronts` | `SessionsHold` `ClientsHold` `ServedHolds` | 2 browsers, 2 sign-ins, 2 answers at once; 2 certificates, 2 CAs, 3 commands; a CA of 4 days, a leaf of 3, 2 reloads or commands, a death |

**What they show.**

- `mux`: no reply goes astray; every slot in use has one owner, in the caller, the queue or a waiter;
  the handle keeps `CallContract`; and `CallsEnd`: a timed call ends, a lost connection ends every
  call, and with an upstream that reads its input every slot comes back.
- `upstream_links`: a server gets one `initialize`, is opened in an era it speaks, and its list is
  current or word of a change is with the gateway; what a server says is handed up once and in order,
  over a stream that breaks and over pipes that fill; a token is fetched only when the one at hand
  is of no use, and a credential revoked once costs no request; every request, opening and send ends.
- `ledger_torn`, `ledger_whole`: while every line parses the file is a chain, whatever was torn; a
  browser has each wanted record once; with whole writes nothing that was returned is missing, a
  verify beside the writes raises no false alarm, and the ledger keeps `AppendLog`.
- `texts`: section 2.
- `pins_races`: what is served was taken as a pin, verdicts never part from their lists, a first use
  is one, an approval that was answered is on file, and the last list announced ends up in force.
- `keeper_kept`: what serves is watched; records and health are true; the upstream comes back.
- `gateway_calls`: what is sent was allowed by one version of the governance; a name goes to the
  server that owns it, and what is shown is what is served; the record says what happened; nothing
  flagged passes; permits and tokens are neither lost nor made.
- `followed`: `ReloadsHold` is that between reloads every part runs one config, which needed no
  restart (`WholeOrNot`), and that the watch refuses a thing once (`WatchActsOnce`). `OutsideIsFollowed`
  is what comes to be once what is outside stands still: a rotated key is held, the provider found,
  the config on disk in force, whoever asks answered.
- `fronts`: `SessionsHold`: a session is of its browser's own sign-in, opens no more once signed out
  of, a sign-in finishes once, and a session in use is not lost. `ClientsHold`: whose revocation was
  answered gets in no more once a reload has begun since, nor does one that expired, and no list
  loses a revocation. `ServedHolds`: while its CA is the one there, no certificate is served past its
  end, and files that are no pair are left by a death, a failed rollback or a meeting of two writes,
  never by a write that fails.

**Why these bounds.** In the handle, one slot less than calls makes a caller wait for the slot of
another, whose reply may still be on its way; `TripAfter` 2 lets the breaker count, reset and trip.
`FirstId` 1 and `LastOpeningId` 0 keep the code's one fact about 100 and `MAX_PAGES`: opening ids come
before. Three requests are one that fetches, one in its line and one that is dropped or refused
meanwhile; two credentials are one revoked and its successor. One more reconnect than events lets the
stream end by its limit. A pipe of one line fills at once, and `ReadAhead` 5 is more than is sent. In
the ledger, three entries allow a record before, at and after a torn line; batches of two fill and do
not fill, and the entry the filter leaves out makes an id with no data. For pins, one tool suffices
since tools do not share anything but the store's file, which is saved whole; the bounded events each
once give every order of a change, a reload, an approval and a mishap. Seven connections in
`keeper_kept` are more than its events can use up, so that `ComesBack` cannot hold merely because they
ran out. In `gateway_calls` two requests are what can be judged by two versions, compete for two
permits (others, `Elsewhere`, may hold one) and spend from one bucket; the requests cover tools by
both names, resources, prompts, every list, callers with and without a role, arguments a transform
makes deniable, and answers that are clean, secret, injected, interim, or that cannot be redacted.
`MaxEvents` 1 is one tick, lost append or client that left. Two edits are one that comes while the
other is read. In `fronts` the time goes past the end of a session and of a leaf, and to that of its CA, and
writes fail on fewer days than a renewal is early (more would let any certificate end). The listeners'
pair is run in two parts: one reload, command or failed write, with a death or a failed rollback anywhere
(`OneChange`); and two reloads or commands with a failed write, for one name and with no death
(`OneName`), where a command's every write meets the gateway's. The proof has neither restriction. In `texts` each
size is the least at which every branch of its algorithm is taken: constants such as `MAX_BYTES`,
`SPIFFE_ID_MAX` or the leeway of a token are small numbers there, so that both sides of each are met.

**Fairness.** `mux`: each step of a started caller and of the actor is fair, as Tokio polls every task
that is woken, its semaphore is first come first served, and timers fire. Nothing makes an upstream
answer, or read what is written to it; the last part of `CallsEnd` has that as its premise
(`WritesEnd`), and does not hold without it. `upstream_links`: the steps of a request and an opening,
for the same reason, and a server or a child that goes on reading, answering and writing, without
which only a timeout ends an opening. `ledger_whole`: the holder of the lock is polled, a write ends,
the stream's task is polled and a connected browser receives. `pins_races` and `keeper_kept`: the
steps of a task that has begun are fair, since a listing and an opening end within a timeout one way
or the other; nothing makes a server change, an operator act or a connection fail. `followed`: time,
answers and the steps of a begun reload are weakly fair. Strongly fair are clients that come with a
token of the key in use, since who has one keeps coming while the provider is slow; those who sign in;
and the branches of `select!`, which is random and so takes a branch that is ready again and again. An
operator who writes half a pair writes the rest (`PairCompleted`). `GatewayCall` and `fronts` have no
fairness: that calls end is the handle's property, and nothing else there waits.

**Deadlock** is checked in `ledger_whole`, where a gateway can always start, die or follow. The
others may stop: every call made, every event used up, a gateway refused its start.

## 4. Proofs

TLAPS proves these for every value of the constants allowed by the modules' assumptions, with any
bounds on how often things happen; so nothing here rests on a run being long enough. Each proof module
has an inductive invariant per question, which TLC checked on the run first; a lemma per action, or
per group of actions alike in what they touch; and the theorems at its end.

| Theorem | States | Beyond the assumptions in the modules |
|---|---|---|
| **`UpstreamMuxProofs`** | | |
| `RepliesReachTheirCall` | `[]OwnReply` | |
| `SlotsNeverLeak` | `[]SlotHasOwner` | |
| `ContractKept` | `KeepsContract` | |
| `TypeCorrect`, `CapHolds` | types; never more out than slots | |
| **`MCUpstreamLinksProofs`** | | |
| `LinksInOrder` | `[]MessagesInOrder` | |
| `OpeningsSound` | `[]OpeningsHold` | |
| `FetchesNeeded` | `FetchesAreNeeded` | |
| `DialledIsChecked` | any URLs one after another are dialled only where the policy admits | |
| **`AuditLedgerProofs`** | | |
| `ChainHolds`, `NumbersAlwaysGrow`, `TypeCorrect` | `[]ChainVerifies`, `[]NumbersGrow`, types | one gateway |
| `RecordsAreKept` | `[]RecordedIsOnFile` | whole writes |
| `TheLedgerIsALog` | `KeepsLog` | whole writes |
| `VerifyNeverCriesWolf` | `[]NoFalseAlarm` | whole writes, one gateway, fewer entries than numbers |
| `TheStreamIsExact` | `[]StreamIsExact` | one gateway |
| `ReadersOnlyRead` | `RSpec => Spec` | |
| `SealFixesTheFile` | only the sealed file verifies against its head and number | no two records with one hash |
| `NoAlterationPasses` | a file that verifies has all that was published when asked, as it was written | the same; whole writes, one gateway, fewer entries than numbers |
| **`GatewayCallProofs`** | | |
| `WhatIsSentWasAllowed` | `[]SentWasAllowed` | |
| `RecordsTellTheTruth` | `[]RecordTellsTheTruth` | |
| `FlaggedResultsStay` | `[]NothingFlaggedPasses` | |
| `CallsGoToTheOwner` | `[]NameKeepsItsServer` | |
| `ListsShowWhatIsServed` | `[]ShownIsServed` | |
| `RatesAreKept` | `[]RateHolds` | |
| `PermitsFollowCalls` | `[]PermitsAreHeld` | |
| **`ToolPinsProofs`** | | |
| `WhatIsServedWasTaken` | `[]ServedWasTaken` | |
| `FirstUseIsTheOnlyUse` | `[]FirstUseIsOnce` | |
| `WhatIsApprovedIsOnFile` | `[]ApprovedIsOnFile` | |
| **`UpstreamKeeperProofs`** | | |
| `WhatServesIsWatched` | `[]ServingIsWatched` | |
| `TheLedgerTellsTheTruth` | `[]RecordsAreTrue` | |
| **`MCFollowedProofs`** | | |
| `ReloadsAreWhole` | `[]ReloadsHold` | |
| `KeysOnlyMoveForward` | `KeysMoveForward` | |
| `TokensAreSound` | which tokens `verify_claims` takes, and whom they are about | |
| `IdTokensAnswer` | which of them a sign-in takes | |
| **`MCFrontsProofs`** | | |
| `ClientsAreHeld` | `[]ClientsHold` | commands one at a time |
| `SessionsAreKept` | `[]SessionsHold` | |
| `ServedIsKept` | `[]ServedHolds` | |
| `RolesAreGiven` | which requests a route of the admin listener runs for | |
| `ChangesAreItsOwn` | which browser's pages may ask for a change | |
| `McpServesWhomItKnows` | which requests the MCP listener hands on, and as whose | |
| `OnlyTheProxyForwards` | forwarded headers count on the proxy's connection only, and alone there | |

The hypotheses in the last column are not for the prover's sake. Two gateways on one file break its
chain, torn writes lose a record, and two commands at once lose a revocation: section 5 has each.
That entries are fewer than numbers is what a 64-bit counter gives. That no two records have one
hash is what is expected of SHA-256 (`LedgerChain` has the record as its hash).

**The handle.** A reply reaches its own call because private ids are distinct (`IdsUnique`) and each
reply on its way carries the id of the call it answers, or one of the opening (`RepliesTraced`); so
the waiter found under an id is the right one. Slots need to know which tasks may still know of a
call: a waiter and a queued command belong to a call with an id that was submitted, and a `forget` to
one that stopped waiting (`TasksAgree`); and that a call without an answer that waits has its slot
(`SlotsHeld`), from which the cap follows by counting. `MuxInv` is the conjunction. `ContractKept`
maps a caller's place and outcome to the contract's stage and result, and shows each action to be a
step of `CallContract` or a stutter. For that a call has to be in one place at most, queue or waiters,
and with its slot (`OnePlace`), or a slot would go back twice; and its request must go out once, and
before any reply to it (`SentOnce`). The direct route has no actor, so what keeps the order there
is stated apart (`DirectInv`).

**The links.** *Messages.* What is in flight on an event stream is a row without gaps (`InRow`), which
starts at most one past the cursor, since the server resumes after the id it is given; an id that is
not a number is never passed over, so there the row may not start earlier than the cursor either
(`WireInv`). What was handed up is then as many as lie between the endpoint and the last (`ReaderInv`).
Of a child's lines, those read, ahead and in the pipe are, end to end, all it wrote (`PipeInv`).
*Openings.* Until a binding is settled the server has nothing and has said nothing (`SettlingInv`), so
the handshake of the binding found is the first; its replies say truly what it speaks (`RepliesTrue`),
and the era follows from the reply read (`EraInv`). Every page on its way lists the tools of now, or a
word of change is behind it, and so of what was got (`ToldInv`). *Credentials.* `LockInv`, by which who
fetches is first in line, makes fetches one at a time. Who waits has a reason to fetch, unless another
has fetched since (`WaitInv`); so the fetch that starts is of use (`Reason`). That one revocation costs
no request is the longer story: a request goes again only after the credential it was refused was
replaced (`AgainInv`), and what replaces it must not be the refused one once more. A fetch begun
before the revocation could give that, and does of tokens that expire; of those that do not, such a
fetch is the first of all, since nobody fetches a second without a refusal, and while it runs nothing was
sent that could be refused (`FirstInv`).

**The ledger.** With one writer the invariant is `LedgerInv`: while every line parses, the lines are a
chain (`ChainSoFar`); a gateway that runs stands at the end of that chain, or else more is out after
the last newline than its own part of a line, so that the next line will not parse (`AtEnd`); and
every number that can be read is below the gateway's next (`Passed`). The second case of `AtEnd` is
the torn write: it is why the chain cannot be continued wrongly past it. `WholeInv` is what whole
writes give several gateways: a recorded entry's line went in before its caller was answered, and
lines only get more. For the refinement of `AppendLog`, whose log is the entries of the lines, an
entry waits in one place only, and is on file while it waits only if it is at the head of the lock's
line with its newline out (`LogInv`); a death there records an entry nobody was told of, which
`AppendLog` allows.

**Its readers.** A verify compares what it reads with the head it noted before. `VerifyInv` says that
a head that was shown or noted stays a point of the file: its line has that number and hash, and
lines are never changed. That numbers do not run out follows from `LogInv`, by which the lines are as
many as the entries on them. `StreamInv` follows a record from the file into a batch (`BatchInv`),
onto the wire (`WireInv`) and to the browser (`PlaceInv`): what has been passed on and not yet
arrived is on the wire, in order, with an id past the last that arrived. Torn lines have no number,
and the browser's next start is found by the last id, so the proof needs the numbers to grow down the
file, past lines that do not parse too: that is `Passed` again, from the writers' side.

**Altered files.** `NoFalseAlarm` is half of what verify is for; that a changed file does not pass is
the other half, and no run can try every file. A record's hash covers the hash before it, and so
every record before it with its place (`HashCovers`): two chains that have the same hash at one place
are the same up to there (`SameBefore`). What verify finds no break in is such a chain
(`VerifiedIsChain`; its numbers go up by one from 0, because verify passes no record with the last
number there is, which the next would have to repeat), and a mark that it is found to pass fixes what lies before the mark (`MarkFixesThePrefix`).
With `VerifyInv`, by which marks are points of what was written, this gives `NoAlterationPasses`. A file
that is cut off after the last mark and continued with other records does pass: nothing but the mark
tells it from the one written.

**The calls.** `CallsInv` says for each stage of a request what is known by then (`GoodCall`): the
governance it keeps is routed by its own slots (`Version`); past its gates, it is permitted as it
would be sent and is for its name's owner, or its server never opened, and only `Dispatch`, which
sends nothing to a server that is down, turns that into `SentWell`; once answered, what it got is
unflagged. The route of a name is found with `CHOOSE` of a least place; `OfferedIsRouted` shows it to be
the owner that `Owner` defines without routes. Transforms run over the rules one after the other, as
a function of the number of rules done: that there is one is proved by its least counterexample
(`PassExists`), and what holds after each rule in the same way. Arguments are transformed before they
are judged, and what was judged is what is sent. `RecordsInv` adds that a
request is recorded exactly when it ends, or its append is among the `losses`. Permits are a count
of the requests whose stage holds one. Of rates, `BucketKeeps` says what a bucket has left together
with what it let by since any time; that bounds every stretch of time, those that ended before it was
last touched too. A limiter that a reload has not yet put in place was asked for nothing (`Fresh`),
and a request spends from one limiter, that it names.

**The pins.** A verdict is good if what it does not call drifted was taken as a pin (`GoodVerdict`).
Nothing is ever taken back from `approved` and `slipped` (`Grows`), so a good verdict stays one
however old it is when installed, with the list it is about: `TakenInv` says so of every task's. The one
case that is not local is a kept server, which a reload judges by the list it read earlier: its list
is still the place's, if its serial is (`Kept`), since whoever lists again takes the lock that the
reload holds (`LockHeld`). `FirstInv` and `FiledInv` are about a gateway that alone writes its store;
a store that could not be saved is `dirty`, and an approval is on file from when its save returned.

**The keeper.** Between reloads the keeper of the slot's tenure watches the slot's connection, or
replaces it (`WatchedInv`). While a reload hands the place over nobody does; `HandoverInv` says that
what serves then is what the next keeper will be given. `TenureInv` makes that keeper the only one:
those before it are retired, those after it not begun. `ToldInv` ties the record told last to the
keeper's place.

**What is followed.** Snapshots are read in an order (`Precedes`): of one text, no file in a later one
is older. `OrderInv` says that of the watch's snapshots and the reload's, while each of a reload's
reads may be of later files than the one before. `ForceInv` says what runs at each step: the edition
in force is that of the config applied, or past `govern` of the one being applied. For
`KeysOnlyMoveForward` a fetch is as old as its slot and its limit is shorter than the slot's
(`FetchInv`), so there is one at a time, and what it has read is no older than what is held.

**The fronts.** *Clients.* A connection counts as checked by a check's generation, and the check of
that generation did not cover its certificate (`CheckedInv`); generations are told apart among
all checks that may still judge: the one in force, the one being built, and those a handshake or
request loaded (`ChecksInv`). What was revoked is on the list and in the CRL, and on what a command
under way will write (`RevokedInv`). *Sessions.* A session has one end, whichever of its cookies says
so, in the jar or in an answer on its way (`EndsInv`), so a sign-out kept until that end outlasts
every cookie; a key is let go only once the last session it sealed ended (`SealsInv`); a cookie says
when its session was used, but for `Slack`, the longer of a renewal's interval and an answer's delay
(`UsesInv`); and a finished sign-in is remembered, or too old, or as many as are remembered have
finished since (`FinishedInv`, by an injection from those into the remembered ones). *The served
pair.* A write that fails puts back the certificate it set aside, so `PairsInv` is about what would then
be there (`There`). Who writes a pair is alone at it, and finds there what it put there, unless the pair is
known to be spoilt (`WritesInv`); a CA that is being put there is of a key nobody else knows (`NewInv`,
from `NewKeyIsNew`: of n keys around, one of the first n + 1 is not); so a CA that loads is the one there
(`LoadedIsThere`). A certificate of a CA is for names it vouches for (`CertsInv`), hence a tick that holds
the CA of what is served can always issue (`TickInv`). `DueInv` then counts: each day since a renewal was
due, but this one, has had a failure. `ServedIsKept` is about `LeafSpec`, without the run's restrictions,
and says that the run's behaviours are among its own.

**What decides.** Six theorems are about operators without a state, of any arguments. They state which
requests are served as conditions on a request, side by side, where the code has early returns, options
and results in an order. *Tokens* (`TokensAreSound`, `IdTokensAnswer`): jsonwebtoken passes over a claim
whose type it cannot read and the claims are then read into types of the gateway's own, so no one check
decides; `ClaimsCheckOut` has what the three steps come to together. *The doors* (`RolesAreGiven`,
`ChangesAreItsOwn`, `McpServesWhomItKnows`, `OnlyTheProxyForwards`): the highest role of a set is found
with `CHOOSE`, and `HighestIsReached` says that a set reaches a need exactly if one of its roles does;
then one lemma for each credential. *Where a client dials* (`DialledIsChecked`): the client of each visit is
the one of the visit before with another pin or none. What is pinned to a name passed the policy, and
of the configured host it is the address set (`PinsGood`); that this holds after any number of visits is
proved by the least visit at which it would not.

**Only model-checked.**
- Liveness (`CallsEnd`, `LinksEnd`, `StreamCatchesUp`, `NewsArrives`, `ComesBack`,
  `OutsideIsFollowed`): TLAPS 1.4.5 does not reason about fairness and `ENABLED`.
- The six properties of `texts`, each a conjunction over kinds of input. Most of its algorithms recurse
  over texts, lists and trees: their modules declare `RECURSIVE` operators, which leave the SMT back end out
  of the modules that reach them, and the library's induction theorems take an operator as a
  parameter, which none of the back ends can instantiate. No module with a theorem reaches one. (A
  least counterexample over the natural numbers gets by without: `PassExists`, `DialledIsChecked`.) Of
  the algorithms that do not recurse, the guard of what is dialled, the verifier and the two doors have the
  theorems above; for the edges of address ranges, CIDRs, SPIFFE ids, the texts of headers, TLS
  settings and configurations, which are tables and limits, the bounds of the run reach every case.

## 5. Where the code and its text part

Two runs end in a counterexample to what a comment or a document says.

- **`ledger_lost`** (`mcpdef-audit/src/lib.rs:650`). `write_all` fails part way, on a full disk for
  instance. What it wrote stays at the end of the file, and the next append, which returns its
  record, ends that same line. No reader parses it, and the next start refuses the file. `append`
  "resolves once the record is written" (`lib.rs:667`).
- **`pins_reload`** (`reload.rs:598`). A reload reads the pin store's file before it awaits its TLS
  files and takes the lock. It then saves the store in memory over that file and replaces the store
  in memory with what it read before, so a pin recorded in between is forgotten, and the next
  definition counts as a first use. `docs/OPERATIONS.md:172-174` and `:297-298` say it is refused.

These were seen with variants of the modules, and have no run of their own:

- A keeper whose wait ends just as a reload retires it may take either branch of its `select!`; when
  it takes the wait's end it marks the shared health `starting`, after the reload settled it
  (`gateway/supervise.rs:816`), and the upstream serves and stays `starting`.
  `gateway/reconfigure.rs:306-309` says the reload settles it.
- The record of a call is appended when the answer was judged (`gateway.rs:1966`). `README.md:33-35`
  and `:152-153` say a call is written to the ledger before it reaches a server.
- The direct route looks at the down signal before it waits for a slot, and not after (`mux.rs:405`
  beside `mux.rs:126`); with an upstream that stops reading, the slot of a caller that left stays
  taken while the actor's write hangs (`mux.rs:639` beside `mux.rs:125`).
- Two processes on one ledger file each keep their own head, and the chain breaks (`lib.rs:652`).
- An approval that could not be saved is refused to the operator and stays in memory, where it counts
  at the next listing. A verdict made before an approval or a reload may be installed after it. A
  server whose new settings do not open keeps its connection with its old verdict. A crash between
  install and save loses a first-use pin. `mcpdef pin` and a gateway overwrite each other's store.
- An old connection that dies while its replacement opens leaves neither `down` nor `up` in the
  ledger. With reloads the order of these records may not be that of what they tell, so
  `RecordsAreTrue` is about runs without one. A second ask is accepted while the first opens.
- A later list whose first server failed hands a name of a resource to the next (`lists.rs:4-5`).
  Recording a known name again does not make it the last to be forgotten. Between a reload's swap and
  the new limiter, calls judged by the new policy spend from the old one. A call shed by its tool's
  bucket has spent a global token. An append that fails is logged only; `RecordTellsTheTruth`
  therefore counts `losses`. `a` with `b__x` and `a__b` with `x` list by the same name.
- A URI whose authority ends in more than one port (`h::`, `a:80:80`) has a normal form whose normal
  form is another, since one port is dropped (`uri.rs`: "Normal form is a fixed point"). The kind
  `host` is of hosts with one colon at most. An edit of a result beside a union in its output schema
  forgets the constraints beside the union (`result.rs:18-23`); `edits` has no such schema.
- A token fetch begun for another reason before a revocation may give the refused token again
  (`oauth.rs`: refused, it "is fetched afresh"); `RevokedOnceCostsNothing` is therefore about
  credentials that do not expire. A refresh after a fetch that failed says there is another credential
  without fetching one (`http.rs:116-119`).
- The slot a dropped or early fetch of keys reserved blocks new keys for up to 60 s, where
  `listener.rs:279-283` says a blip "self-heals in milliseconds". A slow look for the provider may
  put an older one over a newer; it heals itself.
- Sign-outs and finished sign-ins are forgotten at a restart (`docs/CONFIG.md:937`). Two tabs that
  sign in at once clear each other's cookie. A late answer that renews an old session may overwrite a
  newer one's cookie. A `/logout` dropped while its record is appended signs out unrecorded.
- With two commands at once, `tls issue` beside `tls revoke` writes back an old list and loses the
  revocation (`tls/issued.rs`: "nothing revoked is ever lost from it"); `RevokedIsKept` is about
  commands one at a time. A first start that dies between the CA's two renames leaves a pair that is
  none, and the gateway refuses to start until `--new-ca`. Nothing keeps `tls init` from a pair the
  gateway is writing: their renames may leave the certificate of one with the key of the other (of a leaf,
  the next start or renewal mends it; of a CA, `--new-ca` does), and a renewal under way may
  issue by the old CA once a new one is there. A rollback whose own rename fails is not reported, where
  `write_pair` says that "after any failure, the old pair is as it was" (`local_ca.rs:760-761`); a reload
  refused after its `ensure` leaves the new names' certificate on disk. `ServedIsInTime` and `PairsHold`
  except these by `spoilt`, or by which CA is there. A renewal reads client certificates and
  file pairs too, so that a broken CRL delays it (`tls.rs:137`).
- `validate` takes a blank `jwks` for a missing one, and the start takes it as set (`config.rs:3342`
  beside `main.rs:2462`). `resource_of` keeps the user info of a URL that has no `://`
  (`config.rs:2119`). A verifier whose `subject_claim` is `sub` takes an empty `sub`.
- The event stream's parser ends an event early when a chunk ends between `\r` and `\n`, reads a
  character split over two chunks lossily, and drops a first `data:` line that is empty (`http.rs`,
  "Line endings are normalized"). A second URL on a pinned host is dialled where the first was pinned
  (`http.rs:607`). An ask of the server that cannot be answered fails the whole exchange.
- A clock that steps back makes a second entry for the same minute in the metrics, and the trend
  finds only one of them. A header's integer past 2^53 is compared with a body's number as a double.
- `mcpdef connect` warns of less than can be missing: a `mcpdef bridge` entry with no certificate for
  a listener that requires one, and one with a certificate and no token for a listener that wants a
  token, are made without a warning (`clients.rs:191`). It says of any gateway with
  `auth.enabled` that the client signs in, though by keys or certificates alone nobody can. In a
  Codex file whose `mcp_servers` is no table of its own (`mcp_servers = {}`), nothing is added, and
  `--write` says the file already has the entry (`clients.rs:598` beside `clients.rs:468-470`).

## 6. What is not modelled

- **In `UpstreamMux`**: the notification channel; the three atomics of one tally, which is one step.
- **In the links**: how a token or a header is written; `connect_legacy`'s bound; DELETE of a session.
- **In the ledger**: the fixed wording of its exports, the caps on streams. Sync to disk: the code
  does not ask for one, and a crash is one of the process.
- **In `ToolPins`**: pages of a list, servers added or removed, pinning turned on or off by a reload,
  the scanner's verdict (which travels with the drift verdict).
- **In `UpstreamKeeper`**: a fail-fast start, upstreams added and removed, how long waits are, the
  restart count, the last error, the credentials' health.
- **In `GatewayCall`**: the stdio loop, which takes no permits; members of a record other than
  server, target, decision and rule; how long a call takes. Detectors are pattern matching: a
  content is clean, has a secret that can or cannot be redacted, or an injection. A slot that a
  reload keeps may open or be judged again in the reload's step, which adds states the code reaches
  in two. The clock goes forward only. A crash is `AuditLedger`'s. `mirror.rs` is its outcome, a
  refusal; it reads another version of the governance than the call does.
- **In `ConfigReload`**: contents never come back to an earlier one; the listener's pair is read at one
  instant. **In `ConsoleSessions`**: seals, which are taken to hold. **In the certificates**: parsing,
  chains and signatures, which are libraries'; a second gateway or command at a time; a process that takes
  a day over a pair; a tick refused because a command is at the CA, since the watch ticks again. A pair is
  read in one step: with one other writer, two files read apart are refused, or what was there meanwhile.
- **In the configuration**: TOML; warnings about readable secrets; environment names; sandboxes;
  inspection's settings; the state directory.
- Signatures, TLS, DNS, HTTP and WebAssembly are what the libraries make of them: an outcome each.
- The components with status `not_modelled` in `PROJECT.json`: assembly, the console's browser code,
  deployment, benchmarks and test support.

## 7. Plan

Written, in this order: the handle, the ledger and its readers, the pins, the keeper, the calls; then
the algorithms, the links, what is followed, the fronts, and configuration; then the proofs of all the
runs' safety and action properties but those of the algorithms (`texts`); then, of these, what the doors,
the verifier, the dial guard and verify decide, for any input. What could follow:

1. The globs, the reader of pages and the edits as recursive functions, with proofs about one step of each.
2. The health of an upstream as its keeper, its calls and the breaker of the handle write it, in one module.
