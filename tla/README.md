# TLA+ models of rotox

rotox is an HTTP forward proxy split in two. The **hub** accepts HTTP proxy
requests, picks a **probe** round-robin and asks it over a bidirectional gRPC
stream to dial the target. It then splices the client's hijacked socket to
that stream. The **probe** dials the target and splices the stream to the
target socket. The hub publishes telemetry (a ConnectionEvent when a
connection opens and when it closes, and a TransferEvent per read or write)
through a broadcaster to gRPC telemetry subscribers.

This directory holds TLA+ modules that model those parts from the Go source
under `src/`, with TLC configurations that check them. `PROJECT.json` lists
the components, the runs, the mutants that show each property can fail, the
mapping from every definition to the lines it translates, the findings and
the hazards.

## Parts of the system and how they interact

| Part | Source | State | Operations |
|---|---|---|---|
| HTTP front end | `hub/http_api.go` | hijacked socket | ServeHTTP, handleConnect / handlePlain (accept closures), handleForwardError |
| Hub core | `hub/core.go`, `hub/telemetry.go` | `next` (1-slot cursor channel), probe pool, multi-publisher | forward: select probe, Dial, accept, open event, Duplex, deferred close event and closes |
| Forward client/server | `grpc_transport/forward_client.go`, `forward_server.go`, `stream.go` | one gRPC bidi stream per connection | Dial/DialResponse handshake, error-code translation |
| Stream-as-Conn | `grpc_transport/conn.go` | buffered message, offset, `closed` | Write, ReadFrom, Read, WriteTo |
| Probe service | `probe/probe.go` | target TCP conn | Forward (dial, accept, Duplex, deferred close), interpretDialError |
| Duplex | `common/forward.go` | child context, two goroutines | Duplex, simplex |
| Telemetry conn | `telemetry/conn.go` | none of its own; on the client-to-target path it fills grpcConn.ReadFrom's reused buffer | an emit per 32 KiB batch of every read/write; emitReader's batch loop under ReadFrom |
| Broadcaster | `broadcast/*.go` | `isRunning` mutex, publish/subscribe/unsubscribe channels (cap 10), subscriber map, per-subscriber channels (cap 10) | Start, Publish, Subscribe, Receive, Close, fan-out loop |
| Telemetry server/client | `grpc_transport/telemetry_server.go`, `telemetry_client.go` | subscription per stream; client-side event cache | subscribe handlers; client Receive |
| Authentication | `grpc_transport/authentication.go` | none | client interceptor (adds `bearer <secret>`), server interceptor (checks it) |
| Entry points | `cmd/hub/main.go`, `cmd/probe/main.go` | config | startup order; the secrets and interceptors each binary wires |
| Fault codes | `fault/fault.go`, `common/forward.go` | none (errors as wrap chains) | New, Wrap, Code, RawCode |

The parts that run concurrently are these:
- every HTTP request runs in its own goroutine, and they share the round-robin cursor;
- on each side, the connection's two simplex goroutines run beside the goroutine waiting in Duplex;
- the probe's stream handler runs concurrently with the hub;
- the broadcaster's fan-out goroutine serves every connection goroutine that publishes and every telemetry handler that subscribes.

## Modules

| Module | Models | Kind |
|---|---|---|
| `RoundRobinCursor` | the promise of spec 8.1: selections are s, s+1, ... mod P | abstract |
| `RoundRobin` | `Core.forward` lines 73-79 and `NewCore`: requests take the token from the 1-slot channel and put back its successor | detailed, refines `RoundRobinCursor` |
| `LossyMulticast` | the promise of spec 4.6/8.6: each subscriber receives an ordered subsequence of the published events | abstract |
| `Broadcast` | `Broadcaster` (Start, Publish, ensureIsRunning, Subscribe, fan-out loop), `subscription` and the telemetry server's subscribe handlers, and cmd/hub's startup order | detailed, refines `LossyMulticast` |
| `Forward` | one connection end to end: ServeHTTP + Core.forward + forwardClient.Dial on the hub; ForwardServer.Forward + Service.Forward on the probe; the four simplex goroutines through grpcConn and the telemetry Conns; the stream's authentication, from the hub's and the probe's configured secrets through both interceptors; client and target as environment | detailed |
| `ByteStream` | the promise of spec 4.1 and 8: an ordered, reliable byte stream whose end the reader sees only after every byte written, unless the RPC is aborted | abstract |
| `StreamConn` | grpcConn over one stream direction, byte by byte: Write, CloseSend and cancellation on the sending side; Read (with fillSlice), WriteTo and the constructors on the receiving side | detailed, refines `ByteStream` |
| `TelemetryConn` | the hub's client-to-target copy: emitReaderFrom.ReadFrom, emitReader.Read's batch loop with `chunk`, and grpcConn.ReadFrom's reused buffer and `Write(buf[:n])`, with the client socket as a TCP socket | detailed |
| `TelemetrySubscription` | the telemetry server's subscribe handler sending responses, and the client's grpcServerStreamSubscription (Subscribe, Receive, its cache and the receive loop) | detailed |
| `Fault` | internal/fault: errors as Unwrap chains of typed faults; New, Wrap, Code and RawCode (recursive), with reference definitions. `Forward` extends it | operators |
| `MCRoundRobin`, `MCBroadcast`, `MCForward` | model values and bounds for TLC (StreamConn, TelemetryConn and TelemetrySubscription take integer constants straight from their cfgs) | MC |

### RoundRobin
- `next` is the channel `core.next`, a sequence of length at most 1.
- `Take(r)` is `probeIdx := <-core.next`. It is enabled only when the slot is full, so a request that has taken the token blocks the others.
- `Put(r)` is the if/else at lines 74-78, using `Successor`.
- The refinement mapping `cursorBar` is the slot's content or, while a request holds the token, the successor of the index it holds.

### Broadcast
- Each publisher process goes `idle → (TryLock) → unlock | send → idle`. This follows `ensureIsRunning`: a TryLock that fails is read as "running".
- Each subscriber process goes `idle → register → receive → close → done`. That is the subscribe handler: Subscribe, `p.subscribe <- ch`, the Receive/Send loop, then the deferred `sub.Close()`.
- The fan-out loop is one action per select case.
- `LoopPublish` delivers with drop-on-full, the `select { case ch <- v: default: }`.
- A publish to a channel that is already closed is `LoopPublishToClosed`. It panics, which is modelled as the absorbing `crashed`.
- `enabled` says whether telemetry is configured. cmd/hub starts the broadcaster only then, but always registers it with the core.

### Forward
- `hpc` is the hub request goroutine. It moves through `dial → await → accept → duplex → closeClient → closeTarget → done`, or goes to `fail → done`.
- `ppc` is the probe handler. It moves through `auth → recv → dial → accept → duplex → return → done`, or from `auth` straight to `done`.
- `auth` is the server interceptor cmd/probe installs for its SECRET, run once the hub has opened the stream. `creds` holds the hub's secret for the probe's group and the probe's SECRET, chosen once in `Init` from `Credentials`:
  - the hub's secret is the value of the variable `secret_env` names, which the `envexists` validation requires to be non-empty (`EnvVarExists`);
  - `ClientMetadata` is what setupProbeClient and NewClientInterceptor attach: `bearer <secret>`, kept as its two words, which is what `strings.Cut` at the first space returns for it;
  - `Admits` is NewServerInterceptor's chain of checks. `ProbeAdmit` runs the handler; `ProbeReject` ends the stream with Unauthenticated before it. The hub then sees a status without a fault code, so it answers 500.
- `half[h]` and `hand[h]` are the four simplex goroutines. `hand` means a chunk has been read but not yet written.
- The stream is modelled as follows:
  - `h2p` and `p2h` are FIFO frame sequences;
  - `h2pClosed` is the hub's CloseSend;
  - `p2hEnd` is the status the probe handler returned;
  - `reqCancelled` is the hub request context, cancelled when ServeHTTP returns, which gRPC propagates to the probe.
- Duplex's child contexts are the derived predicates `HubDuplexDone`, `ProbeDuplexDone` and `ServerCtxDone`.
- A blocked read or Recv does not watch the context, as in the code. Only a close, an EOF or a cancelled stream unblocks it.
- gRPC may still deliver a buffered frame after cancellation, so Recv of a pending frame is not guarded by the context.
- Every read made through the emitReader and every write made through the emitWriter publishes a transfer event, failed ones included (`EmitTransfer`).
- Each event carries its timestamp as a logical clock (`Now`, one tick per publication): `at` is opened_at for the opening event, finished_at for a transfer, and closed_at for the closing one. `ClosedAt` is the value of `time.Now()` in `defer Publish(ConnectionEvent{... ClosedAt: time.Now()})`. Go evaluates a deferred call's arguments when the defer statement runs, right after the opening event in `HubAccept`, so ClosedAt is the opening event's time.
- The dial error classes are named in `Traits` by the Go interfaces they satisfy: DNS error, DNS timeout, connect timeout, refused, other.
- Every fault code is computed as the code does it: `InterpretDialError` wraps the dial error with `Fault!Wrap` (the UNKNOWN case as a `*fault[string]`, because `common.ForwardUnknown` is an untyped constant), `FaultOf` builds the hub's `fault.New`, and `ForwardCode` is `fault.Code[ForwardErrorCode]`.

### Broadcast shutdown
- `CancelCtx` and `LoopDone` (the `case <-ctx.Done()` of the loop) and `LoopUnsubscribeClosed` are outside `Next`, because cmd/hub starts the broadcaster with `context.Background()`. `SpecShutdown` adds them, for a Broadcaster started with a context its owner cancels.
- The shutdown path double-closes the subscriber channels (the ctx.Done case neither returns nor clears the map). The shipped hub never cancels that context, so no run checks it.

### StreamConn
- Bytes are numbered in write order; `sent` counts them, `frames` are the frames in flight, and `got` is what the reader's caller has been given.
- `buf` and `offset` are the conn's fields. `part` is `dst[:m]` of the Read in progress, handed to the caller only when Read returns.
- `rpc` is the reader's call: `fill` is the top of Read's loop (`fillSlice` and the isFull return), `recv` its `stream.Recv()`; `writeTo` is the Recv loop of WriteTo.
- `RecvFails`: Recv fails with EOF once CloseSend's frames are all received, and with Canceled at any time after a cancellation, even while frames are buffered (gRPC's receive select may take the cancellation first, and frames not yet arrived are lost).
- The refinement mapping to `ByteStream`: `sent` is what was written, `got` what was delivered, and the stream's state is aborted once cancelled, closed after CloseSend, open before. The reader has finished when its call has returned the end (`rpc = "done"`).
- A Read that has copied a byte still waits in Recv until dst is full (the TODO at conn.go:126). Spec 4.1 says Read returns instead. No run checks this, because io.Copy in hub and probe always takes grpcConn's WriteTo, so Read is never called.
- The conn's `closed` field is never set, so the closed checks of Write, Read and WriteTo are dead code and have no action.

### TelemetryConn
- On the hub, io.Copy runs from the client's telemetry Conn to the target's. The client Conn is hijack's `customConn`, which embeds only Reader, Writer and Closer, so it offers no WriteTo. The target Conn offers ReadFrom, because grpcConn has one. io.Copy therefore calls `emitReaderFrom.ReadFrom`, which wraps the client Conn in an `emitReader` and calls `grpcConn.ReadFrom`.
- The client Conn reads through `io.MultiReader`: first the bytes the HTTP server had buffered (or, for a plain request, the request head), then the socket. That reader returns short reads as a matter of course.
- Bytes are numbered in the order the client writes them, and 0 is the zero byte of a fresh buffer. `buf` is ReadFrom's buffer, which is reused across calls. `i` and `m` are emitReader.Read's loop variables. `sent` holds the bytes of the frames sent, concatenated.
- `ChunkRead(k)` is one socket read of k bytes into `chunk(dst, i, i+batchSize)`. The loop then moves on a whole batch, as the code does. `ChunkEOF` and `ChunkFails` are the socket's `0, io.EOF` and `0, err`. ReadFrom writes `buf[:m]` after EOF and drops it after an error.
- `Write` is `conn.Write(buf[:n])`: no frame for n = 0, one Send otherwise. `SendFails` is a failed Send.
- `emitted` is the sum of the counts emitReader passes to emit after each read, which become the TransferEvents' `bytes_count`. The events themselves, and their order against the ConnectionEvents, are modelled in `Forward`, and so is emitWriter's write path.

### TelemetrySubscription
- Events are numbered in the order the handler takes them from its broadcaster subscription. `stream` holds the responses in flight, each a sequence of events, and `ended` is the handler's return.
- `ReceiveCached` and `RecvResponse` pop the cache from its end, as Receive does (`cache[len(cache)-1]`).
- `ServerSend(k)` puts k events in a response. The shipped handler always puts 1. BatchSizes widens this to what the protocol's repeated field allows, including empty responses. That over-approximates the handler, which is sound for the safety property checked. A response of several events would come out reversed, because Receive pops the cache from its end. The shipped server never sends one, so no run reports it.

## Runs

| Run | Result | What it shows |
|---|---|---|
| `broadcast` (MCBroadcast.cfg) | pass | With 2 publishers and 2 subscribers, and with telemetry on or off, `ReceivesInPublicationOrder` holds: the refinement of LossyMulticast. `PublishReturnsWhenStarted` also holds: once the broadcaster runs, every Publish returns. |
| `broadcast_subscribe_race` (MCBroadcastRace.cfg) | violation of `NoCrash` | A subscriber that closes at once can have its unsubscribe served before its subscribe. The closed channel stays in the map and the next publish panics. |
| `broadcast_disabled_hang` (MCBroadcastOff.cfg) | violation of `PublishReturns` | With telemetry off, two racing Publish calls see each other's TryLock as "running" and fill the never-drained publish channel. A connection goroutine then blocks forever. |
| `round_robin` (MCRoundRobin.cfg) | pass | With 4 requests over 3 probes, every index is within the pool (`TypeOK`), selections refine the abstract cursor (`SelectionIsRoundRobin`), and every request gets a probe (`EveryRequestGetsProbe`). |
| `forward` (MCForward.cfg) | pass | For CONNECT and plain requests and every dial error class, the client reads 200 only after a successful dial, and on failure reads exactly the status the spec's table gives (`ClientSeesProxyResponse`). With the hub's and the probe's secrets equal, different or the probe's empty, a refused hub answers 500. MCForward also assumes `CodeMatchesReference`, which TLC evaluates before the search: fault.Code and RawCode agree with their reference definitions on every chain of up to three links (a Code that matches a fault of any code type fails it). Once the client or the target closes, the dial fails or the probe refuses the credentials, every goroutine on hub and probe ends and every socket is closed (`ConnectionReleased`). |
| `forward_telemetry_order` (MCForwardTelemetry.cfg) | violation of `TelemetryBracketed` | Duplex returns after the first half, so a TransferEvent is published after the closing ConnectionEvent. |
| `stream_conn` (MCStreamConn.cfg) | pass | For any chunking of Writes into 1 or 2 bytes, Reads of 0, 1 or 2 bytes and WriteTo mixed in any order, grpcConn implements `ByteStream` (`ImplementsByteStream`). The caller gets the bytes in order without repeats or gaps, and sees the end before the last byte written only after a cancellation. Once the writer half-closes or the RPC is cancelled, a Read or WriteTo in progress returns (`CallReturnsAfterStreamEnds`). `TypeOK` keeps the offset within the held frame. |
| `stream_conn_cancel` (MCStreamConnCancel.cfg) | violation of `HalfCloseDeliversAll` | A cancellation after CloseSend lets WriteTo end "normally" with frames unread. The hub does exactly this (deferred CloseSend, then net/http cancels the request context), so the last bytes a client sends may never reach the target. |
| `telemetry_subscription` (MCTelemetrySubscription.cfg) | pass | With up to 3 responses of 0, 1 or 2 events, the client returns each event exactly once, and all of them before the end status (`ReceivesEachOnce`). |
| `telemetry_conn` (MCTelemetryConn.cfg) | pass | With the shipped sizes (ReadFrom's buffer is one telemetry batch), every split of the client's bytes into socket reads gives the same result. The frames ReadFrom sends carry exactly the client's bytes, in order (`SentIsClientData`). Between two reads and at EOF, the byte counts of the TransferEvents add up to the bytes sent, as spec 8 item 3 requires (`TransferCountsMatchSent`). Every byte read out of the socket is sent without waiting for more input (`ForwardsWithoutWaiting`). |
| `forward_closed_at` (MCForwardClosedAt.cfg) | violation of `TransferWithinConnectionTimes` | The opening event is stamped 1, then the read that sees the client's EOF emits a transfer stamped 2. The closing event is published with the ClosedAt evaluated when its defer statement ran, which is 1. So finished_at > closed_at, against spec 8 item 2, in an ordinary connection. |

Each property of a passing run has a mutant in `PROJECT.json`: a plausible
bug in the mapped code for which TLC finds that property violated.

## Bounds and why they are enough
- **Broadcast.** 2 publishers, 2 subscribers, at most 2 publishes each, and every channel capacity 1.
  - Capacity 1 makes "full" reachable in one step, and full is the case the drop-on-full and blocking-send paths need. The real capacity of 10 changes only how many steps it takes.
  - Two of each actor is the least that lets Publish calls race each other and lets a subscriber see a gap while the other does not.
- **RoundRobin.** 4 requests over 3 probes, so the cursor wraps at least once with requests interleaved.
- **StreamConn.** 3 bytes in chunks of 1 or 2, and reads of 0, 1 or 2. That is enough for a frame to outlast a Read, for a Read to span two frames, for a zero-length Read, and for a Read that ends a frame exactly.
- **TelemetrySubscription.** Up to 3 responses and 4 events, with responses of 0, 1 or 2 events. So an empty response, a cached event and a fresh response all meet.
- **TelemetryConn.** A batch of 2 bytes and up to 5 client bytes. With a buffer of one batch, a read can be short or full, and EOF can come after a full or a short frame. The module also takes a buffer of several batches, as SetReadFromBufSize allows. With one, a short read leaves a gap in the frame that ReadFrom sends. Only a test calls SetReadFromBufSize (util_test.go, with 10 bytes), so no run reports this.
- **Fault.** Chains of up to three links over the five kinds of link the repository builds, so every order of two fault types and a plain wrapper occurs.
- **Forward.** One connection, both request kinds, all five dial error classes, and 2 chunks each way.
  - The hub's secret ranges over `""` (which validation refuses) and `s1`. The probe's SECRET ranges over `s1`, `s2` and `""`: `required` refuses an unset variable, not an empty one. So a matching, a different and an empty secret all occur.
  - With two chunks, a chunk can be in flight in each direction at the moment either end closes.
  - Connections share nothing but the cursor and the broadcaster, and those are modelled on their own.

## Fairness
- Goroutines the Go scheduler runs get weak fairness: the fan-out loop, each simplex goroutine, the hub request goroutine and the probe handler.
- A goroutine blocked on a channel send gets strong fairness (`PublishSend`, `SubscribeSend`, `Close`). The Go runtime queues blocked senders FIFO, so a send that is enabled again and again is eventually taken.
- The probe's dial ends because net.Dialer has a 2 s timeout (cmd/probe).
- StreamConn's reader gets weak fairness on the steps of a call it has started. Starting a call, and everything the writer does, are the peer's choice and get none. This is why a Read that is waiting for a silent writer can wait forever.
- `CallReturnsAfterStreamEnds` rests on the same weak fairness: the reader's goroutine runs, and the only waiting in a call is on Recv.
- TelemetryConn's copy goroutine gets weak fairness on its own steps. The client's writes and close, and the failures of socket and stream, get none, so the copy may wait forever for a client that never writes. `ForwardsWithoutWaiting` is about bytes already read, and the client plays no part in forwarding them.
- TelemetrySubscription checks only safety, so it assumes no fairness.
- Telemetry clients, HTTP clients and targets get no fairness. They may stall forever, so liveness is stated under the premise that an end closes.

## Not modelled, and why
- **Host normalisation** in handlePlain is a string operation whose result only names what the probe dials. Forward does not model addresses, so an operator for it would be unchecked. Reading it shows one defect: the URL host of `http://[::1]/` is `[::1]`, `net.SplitHostPort` fails on it for the missing port, and `net.JoinHostPort` brackets it again, giving `[[::1]]:80`.
- **A probe group without `secret_env`.** cmd/hub's setupProbes dereferences `probe.SecretEnv` unconditionally (main.go:140), but the validation tag `omitempty` and spec section 6 make the field optional. Such a configuration panics at startup, before any state the models hold exists, so it is recorded here rather than checked.
- **Telemetry batching in Forward.** Forward keeps one emit per read, the shipped sizes' behaviour. TelemetryConn models the batch loop itself.
- **emitWriter's batch loop.** The frames it writes are at most readFromBufSize bytes, one batch with the shipped sizes, and a TCP write that returns short also returns an error. So the loop writes what it is given or fails, and Forward's `HubT2CWrite` covers that.
- **Subscription.Close on the telemetry client** is CloseSend on a server-streaming RPC and changes nothing the hub sees. It is listed as a hazard: no consumer under `src/` says when the caller cancels.
- **Byte accounting in Forward** (spec 8.3). Forward counts chunks, not bytes. StreamConn shows the byte-level loss on cancellation.
- **Timestamps of ConnectionEvents.** The opening event carries `ClosedAt: time.Unix(0, 0)` (core.go:126). On the wire that is `closed_at = 0`, as the spec asks (events, and step 5 of 4.3). The comment on `telemetry.ConnectionEvent` says instead that the zero `time.Time` means still open, and `time.Unix(0, 0)` is not that value (`IsZero` is false). So a Go consumer that follows the comment, whether of the broadcaster or of the telemetry client (which converts with `time.Unix(0, n)`), reads an open connection as closed in 1970. This is a conversion on a single value, with no interleaving behind it, so it is recorded here rather than modelled.
- **fault.Error** formats the message only.
- **Entry points**, apart from the hub's startup order, are configuration and wiring.
- **Not to be modelled:** tracing, configuration, generated protobuf code and logging. They hold no state a property depends on, or they are pure I/O.

## Plan for later work
1. Add byte counts to `Forward`, so that spec 8.3 is checked end to end: client bytes are sent, delivered or lost on cancellation.
2. Compose StreamConn with Forward's halves, so that the hub's ReadFrom and the probe's WriteTo run over the byte-level stream.
