# TLA+ models of the repust standalone proxy

This directory holds TLA+ specifications of the request path of repust, the
Redis/memcached proxy whose source is in `src/`. They are checked with TLC.
`PROJECT.json` lists the components, runs, mutants, findings and hazards,
and maps every TLA+ definition to the lines of source it translates.

## The system

Standalone mode (`src/proxy/standalone.rs`) has these parts:

- **StandaloneCluster / RingKeeper.** `init` builds a ketama ring over the
  configured servers. `connect` creates one bounded crossbeam channel
  (capacity 8192) per server. It also spawns a task that connects over TCP.
  On success that task spawns a **Back** task for the connection. On failure
  it spawns a **BlackHole**. `get_sender` maps a key hash to the Sender of
  that node's channel. `run` accepts client connections and spawns one
  **Front** task for each.
- **Front** (`standalone/front.rs`). Each poll does two things in order:
  1. It pops the head of `sent_queue`.
     - If the head is not done, it pushes it back to the front.
     - If it is done, it writes the reply. The sink's `poll_ready` may be Ok,
       Pending or Err. Errors are counted, and more than 10 end the task.
  2. It reads one request from the client stream. It builds the `Cmd`,
     registers its own waker on it, and hashes the key. A command that is
     not answered locally goes out with `send_timeout`, which may fail with
     Timeout → `CmdTimeout` or Disconnected → `ClusterFailDispatch`. The
     command is then pushed onto `sent_queue` and the Front wakes itself.
     End of stream ends the task.
- **Back** (`standalone/back.rs`). It has a single-slot `store`, a stack
  `sub_cmds` for the subs of a fan-out command, and a counter `delayed` of
  late replies to skip. Each poll runs up to three phases:
  1. refill the store from the sub stack or the channel;
  2. fail a sent command whose `resp_timeout` has elapsed (and count its
     reply as delayed), or send an unsent one (`poll_ready` Ok or Err, with
     the `cycle` retry);
  3. read one reply. It is skipped if delayed, stored otherwise; a read
     error fails the command and end of stream ends the task.

  The Back always wakes itself.
- **BlackHole.** It fails every command it receives with
  `BackendClosedError`.
- **Cmd / Command** (`protocol/redis.rs`) is shared by Front and Back through
  `Arc<RwLock>`. It holds the DONE flag, the reply, the remote tracker (the
  send time), `cycle` and `subs`. `set_reply` wakes the registered waker,
  while `set_error` does not. `is_done` of a command with subs is "all subs
  are done". `From<MessageMut>` classifies a request:
  - MGET, DEL and EXISTS are split into one sub per key (`mk_subs`);
  - PING and COMMAND are answered locally;
  - unsupported commands are answered by `check_valid`.

- **mc Cmd / Command** (`protocol/mc.rs`) has the same shape, with three
  differences that matter:
  - its `Drop` fails a Command that is not done yet with `ProxyFail`;
  - its `is_done` clones the subs and drops the clones;
  - its `set_reply` does not wake.
  `BackCodec::encode` takes the Cmd by value, so it drops a handle of every
  request it sends.

The parts interact only through the channels, the shared Cmd objects and
the waker. The hazards are therefore in interleavings across tasks, in which
task gets woken, and in what each task drops when it gives up.

## Module `Proxy.tla`

It models the data path of both protocols. The constant `Protocol`
chooses the Cmd semantics: `"redis"` or `"memcache"`. It models Fronts, Backs, BlackHoles, channels, the
shared Cmd state, and the backend servers with their TCP links. Commands are
identified as `<<client, request, sub>>`: sub 0 is the command itself, and
j > 0 is the j-th sub of an MGET. A backend reply is the value
`Val(id)`, naming the command it answers. This is how the properties tell
a right reply from a wrong one.

| Code | Model |
|---|---|
| `Command.flags & DONE`, `reply`, `remote_tracker`, `cycle` | `done`, `reply`, `sent`, `cycle` |
| `Cmd::is_done`, `Command::set_reply`, `Cmd::set_reply` (redis wakes, mc does not), `Cmd::wakeup`, `Cmd::set_error` (no wake) | `IsDone`, `UpdateCmds`/`Complete`, `SetReply`, `Wakeup`, `SetError` |
| `Cmd::get_sent_time`, `Command::can_cycle` | `GetSentTime`, `CanCycle` |
| `Drop for mc::Cmd`, mc `Cmd::is_done` | `DropFailed`, `DoneCheckFailed` (both `{}` for redis) |
| Front: `sent_queue`, `upstream_poll_error`, pending wake-up | `queue`, `upErr`, `woken`; `fpc` is the phase inside a poll |
| Front::poll drain half | `FrontDrain` (uses `HeadDone`, `Requeue`, `Encode`) |
| Front::poll read half, `From<MessageMut>`/`check_valid`, `send_timeout` | `FrontRead`, `Decode`, `Dispatch` |
| Back: `store`, `sub_cmds`, `delayed`, `downstream_poll_error` | `store`, `subStack`, `delayed`, `downErr`; `bpc` is the phase |
| Back::poll phase 1 | `BackRefill` |
| Back::poll phase 2 | `BackSend` = `BackTimeout` ∨ `BackAwait` ∨ `BackWrite` ∨ `BackSinkPending` ∨ `BackWriteErr` |
| Back::poll phase 3 | `BackRecv` = `BackReply` ∨ `BackPending` ∨ `BackReadErr` ∨ `BackEof` |
| returning `Poll::Ready` | `Exit` (the receiver is dropped: later sends see Disconnected) |
| BlackHole::poll | `BlackHoleRecv` |
| ring lookup (`RingKeeper::get_sender` over ketama/fnv) | `GetSender`, through the constant map `NodeOf`. Its `None` arms are unreachable: `connect` always returns a sender, so `init` gives every ring node a connection |
| a failed TCP connect | the constant set `BlackHoles`. Until the connect task resolves, the channel buffers what the Fronts send. The model covers that window by letting `BackRefill` wait |
| the AUTH `connect` sends when a password is configured | `AuthCmd(n)`, first in every channel when `Auth` is TRUE |
| the waker check of Back::poll phase 1 | `HasWaker`; a Command without one is dropped by `BackRefill` |

The environment actions get no fairness:
- `ClientWrite` writes the next request of a fixed pipeline `Requests[c]`.
- `ClientClose` half-closes the connection.
- `ClientBreak` makes writes to the client fail.
- `Serve` is the backend answering in FIFO order; unlike the other
  environment actions it gets weak fairness (see Fairness).
- `LinkReset` resets the connection: writes then fail and the next read
  errors.
- `BackendClose` closes the connection from the backend side (end of
  stream).

Every step that drops a handle passes the dropped Commands to
`DropFailed`. These steps are: the encoder in `BackWrite`, a parent after
its subs are stacked in `BackRefill`, a retried command in `BackWriteErr`,
and everything a task holds when it returns `Poll::Ready`. Under
`"memcache"` those Commands become done with ProxyFail, exactly as the
mc `Drop` does.

We assume the crossbeam channel drops the messages it buffers once its
receiver is gone (`Exit`). The crossbeam version is not pinned in the
repository, so this is an assumption.

On a working link, `poll_ready` is Pending once `WIRE_CAP` requests are
unanswered (`BackSinkPending`). On a reset link, `poll_ready` of a Framed sink usually still returns Ok: it
only flushes once the buffer passes its limit, and the `poll_flush` error is
ignored. So `BackWrite` may "send" into a dead buffer, and `BackWriteErr` is
the other outcome.

Each poll is split at its phases. Other tasks run on other worker threads,
so they interleave between phases. A Front phase starts only when `woken`
is set, which is the tokio rule that a task is polled only after a wake.

### Fairness

Weak fairness on every step of `FrontDrain`, `FrontRead`, `BackRefill`,
`BackSend`, `BackRecv` and `BlackHoleRecv`:
- a woken task is polled;
- a Back and a BlackHole call `wake_by_ref` at the end of every poll, so
  they keep being polled.

`Serve` is also weakly fair: a live backend answers.

Clients and faults get no fairness. An empty-channel `recv_timeout` is a
stuttering step. A state where every task waits on a socket or has ended is
a normal end of the system, so the runs set `CHECK_DEADLOCK FALSE`. Hangs
that matter are stated as liveness properties instead.

### Properties

- `TypeOK`: the types. The Back's phase agrees with its store.
- `ReplyBelongsToCommand`: a value stored in a command is the backend's
  answer to that command. This is what the `delayed` skipping protects
  across timeouts.
- `ReplyOrder`: the k-th reply on a client connection answers request k, and
  each MGET element answers its own key.
- `DelayedAccounting`: this is property 4 of spec section 8, on a working
  link.
  The replies a backend still owes are the requests on the wire plus the
  replies not yet read. Their number equals `delayed` plus one if the
  stored Command has been sent. It is the invariant that makes the
  positional matching of replies work.
- `BackCompletes` (liveness): a command in a Back or BlackHole channel is
  eventually done.
- `FrontEventuallyReplies` (liveness): every request read is eventually
  answered.
- `FanOutErrorVisible`: a fan-out parent that was failed as a whole reads as
  done.
- `SubsOnOwnNode`: each command a Back handles belongs to its node.
- `NoOrphan`: a dispatched leaf command is done or held by a live Back.
- `NoSpuriousProxyFail`: with working links no client is answered ProxyFail.
  No run checks it now (see the memcached note below).
- `AuthSent` (action property): on a cluster with a password, a running
  Back takes the AUTH Command out of its channel only into its store, to
  send it first (spec 4.8).
- `FifoRefinement`: the Fronts and Backs implement the abstract
  `BackendFifo` specification (below).

### The abstract specification `BackendFifo.tla` and the refinement

`BackendFifo` states what the proxy promises about the Commands it reads,
with no tasks, channels or sockets. It follows spec 4.6, 4.7 and the
ordering guarantees of section 5: replies are matched positionally, and a
timed-out Command's late reply is discarded.
- Its state is three variables:
  - `issued`: the Commands read so far.
  - `pending[n]`: the Commands handed to backend n and not yet completed,
    in hand-over order.
  - `res`: the reply slots.
- `Answer(id)`: a new Command is answered without a backend, locally or
  with an error.
- `Accept(id, n)`: a new Command is handed to n, as itself or as its subs.
- `Finish(n)`: the oldest pending Command of n is completed, once. It gets
  n's answer to it or an error.
- Fairness is weak fairness of `Finish(n)`: everything handed over is
  completed.

`Proxy` instantiates it as `Fifo == INSTANCE BackendFifo WITH ...`. The
refinement mapping is:
- `issued` is the Commands the Fronts have decoded.
- `res` is the Commands' `reply` slots.
- `pending[n]` is `PendingAt(n)`: the store, then the stacked subs from the
  top, then the channel, with each channel entry expanded to its subs.

Under this mapping:
- a `BackRefill` that splits an MGET is a stuttering step;
- a timeout, a reply or a BlackHole error is a `Finish`;
- a late reply skipped through `delayed` is a stuttering step;
- a dispatch is an `Accept`;
- a local answer or a failed dispatch is an `Answer`.

`FifoRefinement == Fifo!Spec` is checked in `back_liveness`. It does not
hold under link faults:
- a reset drops the stored Command (`backend_retry`);
- an exiting Back abandons what it holds.

Both are findings or hazards already.

## Runs (one .cfg each; `MC_Proxy.tla`, `MC_HashTag.tla`, `MC_Reply.tla`)

The keys and nodes are model values `k1 ↦ n1` and `k2 ↦ n2`. All runs use
`CHAN_CAP = 1`, so a full channel is reachable, and `MAX_CYCLE = 1` as in
the code.

| run | expect | what it shows |
|---|---|---|
| `proxy_safety` | pass (≈1.05M states, ~25s) | See below. |
| `back_liveness` | pass (≈106k states, ~2.5min) | See below. |
| `front_wakeup` | violation | Finding: `GET k1` and `GET k2` are pipelined and k2 answers first. After k1's reply is written, nothing wakes the Front for k2's reply. |
| `sink_backpressure` | violation | Finding: a reply popped while the client socket is not writable is lost, and the next one takes its place. |
| `backend_retry` | violation | Finding: after a link reset, the command whose send fails is dropped without completion. |
| `fanout_error` | violation | Finding: an MGET to a BlackHole never completes. |
| `mget_routing` | violation | Finding: the subs of an MGET go to the first key's node. |
| `auth_dropped` | violation | Finding: the AUTH Command `connect` puts first in each channel has no waker, so `Back::poll` drops it (back.rs:128) and no backend is ever authenticated. TLC shows it in one `BackRefill` step. |
| `mc_resend` | violation | Finding: the mc encoder's drop fails the sent Command and clears its sent time, so the Back sends it again. The duplicate reply lands in the next Command. |
| `trim_spec` (`MC_HashTag`) | pass (3906 states) | `trim_hash_tag` agrees with the spec rule for the `{}` tag. |
| `reply_fanout` (`MC_Reply`) | pass (≈15k initial states) | MGET, DEL, EXISTS and MSET replies agree with the spec. |
| `forwarded_reply` (`MC_Reply`) | violation | Finding: KEYS, DBSIZE, SCAN and CLIENT get a constant reply, not the backend's. |

The memcached runs use `RespTimeouts = FALSE` (no backend is slow) and no
faults, so every ProxyFail they reach comes from a dropped handle. With
`MCSingle` under `"memcache"`, `FrontEventuallyReplies` is also violated,
because mc `set_reply` does not wake. That is the `front_wakeup` mechanism
by another route, so it has no run of its own. Likewise, a client that
half-closes loses its pending replies: on end of stream the Front returns at
once and drops `sent_queue` (front.rs:208), where the spec has it drain
first. This is recorded as a hazard.

The same model, with `Protocol = "memcache"`, `Requests <- MCSplitMget`
and no faults, violates `NoSpuriousProxyFail`. mc `Cmd::is_done` clones
the subs and drops the clones, and each clone's `Drop` sets ProxyFail on a
sub that is not done yet. So the Front's `is_done` check fails every
multi-key get. This has the same cause as `mc_resend`: the ProxyFail in
`Drop for Cmd`. It is recorded as a hazard (mc.rs:28) and has no run of its
own, which left a run for `auth_dropped`.

`proxy_safety` has one client pipelining GET k1, MGET k1 k2, PING and
GET k2. Both backends may reset or close, and the client may close or break.
Error caps are set to 1, so a Front and a Back can give up. `WIRE_CAP = 1`
makes the backend's write buffer fill up. `Auth = TRUE` puts the AUTH
Command in each channel first. It takes the only slot, so the first
dispatch to a node can time out. `TypeOK`,
`ReplyOrder`, `ReplyBelongsToCommand` and `DelayedAccounting` hold.

`back_liveness` has two clients (GET k1, GET k2 / MGET k1 k2, NOTSUP).
n2 is a BlackHole, links do not fail, and the client sink may block.
`BackCompletes` and `FifoRefinement` hold. The MGET's two subs both go to
n1, because of the `mget_routing` finding, so n1's sub stack is exercised.
The run takes about 2.5 minutes.

Why these bounds are enough:
- Two nodes give out-of-order completion.
- One-slot channels give the Timeout path.
- A pipeline of four requests on one client gives every combination of
  local, single-key and fan-out commands ahead of each other.
- Caps of 1 reach each give-up path in two errors.

The passing runs fire every action. The one branch they cannot reach is the
`ProxyFail` arm of `BackWriteErr`. That is dead code: with MAX_CYCLE = 1
the command is dropped on its first failure, so it is never seen with its
cycle used up.

Each property of a passing run has a mutant in PROJECT.json:
- a not-done head requeued at the back of `sent_queue`;
- a timeout that does not count the late reply;
- an exit that keeps its store;
- a Back that forgets a sent command while it waits;
- a skipped late reply that is not taken off `delayed`.

The timeout that does not count the late reply also breaks
`FifoRefinement`: the late reply is stored in the next Command, which is
not a `Finish` step of `BackendFifo`.

## What is not modelled, and the plan for later work

These parts are not modelled, for the reasons given:
- The RESP parser (`resp.rs`), ketama and fnv are missing from the
  repository.
- Config loading (`config.rs`), metrics (`metrics.rs`, `metrics/*`), the
  CLI (`main.rs`) and the runtime setup (`lib.rs`, `proxy.rs`) run once at
  start or only read and format counters. They have no concurrent state and
  no property of the proxy depends on them, so nothing of them is worth a
  TLC run. The one exception is `meta.rs`: `TLS_META` is never set, because
  nothing calls `meta_init`. `Reply` models this as `MetaInit` (see below).
  `spawn_worker` also passes `listen_addr` (`host:port`) as the ip to
  `load_meta`, so the advertised address would repeat the port. That is
  string formatting, so it is noted here only.
- Byte-level encoding is abstracted to which reply answers which request.

## Module `HashTag.tla` (run `trim_spec`)

`TrimHashTag` translates `trim_hash_tag` (`utils/helper.rs`). It is checked
against `SpecTrim`, the spec's rule written with sets, on every key of up to
5 bytes over the ASCII codes of `` ` ``, `a`, `z`, `{` and `}`. `TrimMatchesSpec` holds for the `{}` tag.
With equal open and close bytes it fails, because the close byte is searched
from the open byte itself. That case is not reachable from the proxy: the
Front always passes an empty hash tag (`front.rs:152`), so the configured
tag is never used and keys that share a tag need not share a node.

`Upper` translates `upper`, which `From<MessageMut>` applies to every
command name and `check_valid` to a CLUSTER sub-command. No property checks
it: it is one range guard on two constants, which the repository's unit
tests already exercise.

## Module `Reply.tla` (runs `reply_fanout`, `forwarded_reply`)

It models what a redis client reads back for one request, given the answers
the backend gives. The request is a verb and up to `MAX_ARGS` arguments.
`Init` enumerates every request over `MCVerbs` and two argument values (`a`, and `SLOTS` for CLUSTER). For each
one it enumerates every outcome of each request the proxy sends: a backend
answer from `MCAnswers`, or an error the proxy sets itself (`CmdTimeout`,
`ProxyFail`). There are no steps.

| Code | Model |
|---|---|
| `init_cmds`, `CmdType::get_cmd_type` | `CmdTypeOf` (the verbs used) |
| `From<MessageMut>`, `check_valid` (local answers) | `FromMessage` |
| `check_valid`'s CLUSTER branch | `IsClusterInfo` |
| `build_cluster_slots_reply`, `build_cluster_nodes_reply` | `ClusterAnswer` |
| `TLS_META`, `meta_init`, `get_port` | `MetaInit` (FALSE: nothing calls `meta_init`) |
| `Command::mk_subs`, `mk_mset`, `send_req` | `MkSubs`, `MkMset` (what each sub is sent as) |
| `Command::reply_cmd`, `reply_raw`, the `btoi(...).unwrap_or(0)` sum | `ReplyCmd`, `IntOf`, `SumOf` |
| `RedisHandleCodec::encode` | `ClientReply` |

`reply_fanout` checks `FanOutReplyMatchesSpec`. For an MGET, DEL or EXISTS
of n ≥ 1 keys, there are exactly n subs, each sent for its own key with the
right verb. The reply is `*n` with the keys' replies in order, or the sum of
the integer replies (spec 4.1). The spec is written with `FoldSeq`; the code
is written as the loop it is. Its mutant builds the subs from `array[0..]`,
so the verb is taken as a key. It also covers MSET
(`MsetFanOut`), with up to four arguments so that two pairs occur. An MSET
of n pairs has n subs, each setting its own pair in order. When every sub
answered `+OK`, the reply is `+OK`. Each sub goes out as `MSET k v`
(`send_req`), which a redis server executes as `SET k v`; `SetsPair`
accepts either verb.

`forwarded_reply` is a finding. `reply_cmd` answers KEYS and SCAN with
`*-1`, DBSIZE with `:0` and CLIENT with `+OK` unless the Command has subs.
Standalone mode never builds those subs (nothing calls `mk_read_all_subs`),
so the backend's reply is thrown away.

These are recorded as hazards without a run:
- MSET is answered `+OK` even when a sub failed.
- MSET with an odd number of arguments panics the Front (`chunk[1]`,
  redis.rs:859).
- A DEL sub that failed counts as 0.
- QUIT is answered, but the connection is not closed (redis.rs:231).
- CLUSTER SLOTS and CLUSTER NODES panic the Front task (redis.rs:1249).
  `get_port` expects the thread-local Meta, and nothing calls `meta_init`.
  So a cluster-aware client never gets the synthesized layout of spec 4.1
  (scenario 6). `FromMessage` gives these requests the panic outcome;
  `MCArgs` holds `SLOTS` so `reply_fanout` enumerates them.
- On a decode error the Front neither wakes itself nor is woken by the
  socket (front.rs:195). With an empty `sent_queue` it is never polled again.
  The parsers are missing, so this is not modelled.
- mc `Drop` checks `is_done` and sets ProxyFail under two separate lock
  acquisitions. A reply stored in between is overwritten (mc.rs:28).

Left for later:
1. The memcached parser (`mc/msg.rs`), which is missing; `noreply` and
   `try_save_ends`.
2. The remaining Redis classes in `Proxy`: MSET (local OK plus subs),
   DEL/EXISTS fan-out and QUIT. They are in `Reply` only.
3. What a password-protected backend answers once AUTH is dropped
   (`auth_dropped`): NOAUTH to every Command. The backend's answers are
   modelled as values only.
4. A refinement that also covers link faults. This needs the abstract
   spec to say what an exiting Back owes the Commands it holds. Spec 5
   says a dropped Command gets ProxyFail; the redis Cmd has no such Drop.
