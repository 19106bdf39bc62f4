# Verification of sing-easyconnect

TLA+ models of the EasyConnect client in `src/`, TLC configurations that check
them on small instances, and TLAPS proofs of every safety property and every
refinement the passing runs check, for every instance. `PROJECT.json` lists the
components, the runs, the hazards, the findings, the theorems and, for every
definition that models code, the lines it models.

    tlc -workers 2 -config DataPacketQueue.cfg DataPacketQueue
    tlapm DataPacketQueueProofs.tla

## 1. The system

A `Client` logs in to the gateway over HTTPS, opens four TLS connections as the
channels of a tunnel, and carries IP packets over two of them. It keeps the
tunnel up until it is closed.

| component | source | state | operations |
|---|---|---|---|
| packet queue | `data_packet_queue.go` | ring, head, length, closed, two wake-up channels | Push, TryPushBatch, Pop(Into), Wake, Drain, Close |
| client | `client.go` | lifecycle flags, current and published session, terminal error, configuration, event queue | Start, Close, Suspend, Resume, RestartSession, WaitReady, read and write of packets |
| supervisor | `client_supervisor.go` | login, reconnect state | one goroutine: authenticate, connect, run, retry |
| authentication | `auth.go`, `http_client.go`, `xml_document.go`, `conf.go`, `material.go` | the web session | login_auth, login_psw, conf, rclist, logout |
| tunnel session | `session.go`, `data_packet_writer.go` | ready, failure, channels, outgoing queue, goroutines | Start, Fail, Close, enqueue, write, receive |
| keepalive channel | `keepalive_channel.go`, `keepalive_sequence.go` | sequence, deadlines | request, answer, answer the gateway's requests |
| data channel keepalive | `data_channel_keepalive.go` | last write, last inbound | echo probe when idle, fail when silent |
| channel handshake | `l3_channel.go`, `camouflage.go`, `tls_config.go` | - | dial, camouflaged hello, request and reply |
| framing | `protocol.go`, `payload_encoding*.go`, `packet_buffer.go` | - | frames, encodings |
| routes and filter | `resource.go`, `resource_filter.go`, `tunnel_config.go` | - | ranges to prefixes, DNS hosts, what may be sent |
| options, errors | `options.go`, `errors.go` | - | defaults, terminal errors |

How they interact:

* The supervisor makes a login (`authenticate`), makes a session over it
  (`connectTunnel`), starts it, publishes it under `lifecycleAccess`, and waits on
  the session's `Done` channel or on its context. Afterwards it closes the
  session, logs out, and retries at once or after a backoff.
* Callers reach the session through the client's `currentSession` and
  `publishedSession`: `Suspend`, `RestartSession` and a failing callback call
  `Fail` on it *after* they have released the lock; `Close` closes it.
* A session runs four or five goroutines. The writer drains the session's
  outgoing queue; the receiver fills the client's incoming queue, which outlives
  the session. Any of them may call `Fail`, of which only the first counts.
* Tunnel events go through a queue and a one-token wake-up channel to a
  dispatcher goroutine that calls `OnTunnelEvent`.

What is hard: every one of these hand-overs releases a lock and uses what it
read afterwards; two goroutines may close the same session, in the middle of its
`Start`; wake-up channels are replaced at each signal; retries are metered by
what remains of a budget; each exit path has to give back buffers, sockets and
the login exactly once. `PROJECT.json` lists these hazards at their lines.

What makes each component correct:

* queue: bounded FIFO, no leaked slot, no lost wake-up, Close ends every wait;
* client and supervisor: a tunnel lives inside a login, Close leaves nothing and
  returns, a suspension reaches the tunnel, waiters and the dispatcher are always
  woken, events tell what happened, the reconnect budget is exact;
* session: every buffer has one owner, Close terminates with all goroutines
  gone, the first failure is the one reported;
* connecting: whatever fails, no connection is left open, and a mute gateway does
  not hold `connectTunnel` for ever;
* keepalive channel: an answer matches its request, and a dead gateway, an ended
  session and a cancelled context are noticed in bounded time;
* data channel keepalive: as far as the connection takes its write deadlines, the
  upload channel is never idle for long, silence is noticed, a gateway that answers
  is kept;
* data paths: packets are delivered in order over reconnections and owned once;
  frames are read as they were written, and a torn frame does bounded harm;
* routes and filter: ranges are covered exactly, the filter permits what the
  documents publish, and the routes attract what the filter permits.

## 2. Modules

    BoundedQueue  <== refined by ==  DataPacketQueue  -- proofs: DataPacketQueueProofs
    ClientSession <== refined by ==  TunnelSession    -- proofs: TunnelSessionProofs
    ClientLifecycle = ClientSession (what the client relies on) + supervisor,
                      dispatcher and callers          -- proofs: ClientLifecycleProofs
    IncomingDataPath = the sessions of a client + its incoming queue + readers + Close
                                                      -- proofs: IncomingDataPathProofs
    UploadStream     = writer and probe on one upload channel + the other end
                                                      -- proofs: UploadStreamProofs
    ConnectTunnel         -- proofs: the last part of TunnelSessionProofs
    KeepaliveChannel      -- proofs: KeepaliveChannelProofs
    DataChannelKeepalive  -- proofs: DataChannelKeepaliveProofs
    Resources = AddressRange (on Prefixes, the netip.Prefix of Width-bit addresses)
                + documents, filter, routes           -- proofs: ResourcesProofs

**`BoundedQueue`** is the abstract FIFO. **`DataPacketQueue`** is the ring. A
method that holds the mutex throughout is one action (`TryPushBatch`, `PopSome`,
`Wake`, `Close`); `Push` is split where it unlocks (`PushChecks`, `PushAccepted`,
`PushParks`, `PushWakes`, `PushGivesUp`), and so is the loop of a consumer
(`Pop`, `Wake`, `ConsumerWakes`). A `queueSignal` channel is the set of callers
that hold it unclosed. `Cancel` is the end of a session's context, `NextContext`
the receiver of the next session, because the incoming queue outlives both.

**`ClientSession`** is the `clientSession` interface as a specification: `Start`
makes ready, the first `Fail` counts, `Close` begins and ends.

**`ClientLifecycle`** is `client.go` and `client_supervisor.go`. `sup` is the
place in `runSupervisor`/`runSession`, `disp` in the dispatcher, `closer` in
`Client.Close`. A section under `lifecycleAccess` or `tunnelEventAccess` is one
action, e.g. `SetCurrentSession`, `PublishCurrentSession`, `DispatcherLooks`,
`CloseLocks`; the `Fail` of `Suspend` and `RestartSession` is in flight in
`calls` until `FailCall`. `web` is the login, `reconnect` the `reconnectState`,
`waited` the time the timers took since the tunnel was lost, and `spent` whether
the present login has met a `Suspend`; the last two are history for the
properties. `authenticate` is two steps, since its failure after `login_psw.csp`
forgets a login without logging it out. Each request may fail with a transient
or a terminal error.

**`TunnelSession`** is one session from `connectTunnel`'s return on. `Start` and
`Close` are taken step by step because `Client.Close` runs in another goroutine
than `Start`; what it reads of `stopRunning` then is either value (a data race).
`pc` holds the goroutines, `released` counts the releases of every packet buffer.
The outgoing queue is used as `BoundedQueue` promises. `WriteFilters` chooses how
many datagrams the resource filter refuses.

**`ConnectTunnel`** is `connectTunnel` with the four dials it makes. `step` is the
place in one dial: `Dial`, `Camouflage`, `Watch` (the second `AfterFunc` the
keepalive channel arms for its opening), `Announce`, and `Checked` once the
channel is kept. `ctx` is the dial's own context, `armed` its `AfterFunc`, and
`closing` the functions that have started and not yet closed: `Disarm` stops one
that has not started, and cannot stop one that has.

**`KeepaliveChannel`** is `keepalive_channel.go` from dial to the end of `run`, in
ticks. `BeginExchange` takes the sequence number, `WriteTIMQ` ends the write,
`ReadACKQ` reads one message of the inbox and does what `handleACKQ` does with
it. A sequence number is the age of the client in seconds, computed as the code
does; the gateway (external) echoes the number of some request, late or twice,
or speaks unasked.

**`DataChannelKeepalive`** is the `run` loop of `data_channel_keepalive.go` with
`lastWrite`, `lastInbound` and the mutex of the upload channel. A write holds it
for at most `DataChannelTimeout`, or without a bound when the connection refuses
the deadline (`SetWriteDeadline`: the code warns and goes on). A probe in or
behind such a write is stuck (`ProbeStuck`), and the bounds are promised outside
of it only; `lastPostponed` is when the last write ended that put the judgement of
the silence off, the application's or one without a deadline. There is one clock.
In the code the two marks are wall-clock times (`UnixNano`) and the timer is
monotonic, so the properties are about a host whose wall clock is not stepped.
`prompt` is whether the gateway answers every probe within `Delay`; it is chosen
in `Init` and is an assumption of `PromptGatewayKept` only.

**`IncomingDataPath`** follows received datagrams from `runReceiveChannel` through
the client's incoming queue to `readDataPackets`, over the end of sessions, a
terminal error and `Client.Close`. `changes` counts the `stateChanged` channels;
a reader remembers in `seen` the one it took.

**`UploadStream`** is `WriteDataPacketBuffers` on the byte stream. The writer and
the probe check `ready`, wait for the mutex, filter, frame in place or into a copy
(`frameDataPacket`), and write; `WriteFails` leaves any proper part behind. `framed`
is history: the datagrams that were framed, of which those without headroom have a
copy that must be released exactly once, and no other has. A batch
is of one or two datagrams; the code's may be longer, but two are enough for a tear
inside, between and behind frames.
The other end reads with `readIPCPHeader` and `readDataPacket`, which is the only
description of the format the repository has. A header is two cells and a
payload byte one, so that a frame can be torn at every boundary.

**`AddressRange`** is the loop of `addressRangePrefixes` in `Width`-bit words that
wrap, as a function of its rounds. **`Resources`** is the rest of `resource.go`,
with `buildTunnelConfiguration`, `newResourceFilter`, `permits` and the choice of
the probe's destination. The gateway (external) composes the documents in any
way; `AuthenticateReadsList`, `AuthenticateWithoutList` and `ConnectTunnel` are what
the client makes of them. A loop of the code is a closed form over the positions
of its input where one says what it does (`Where`, `mergeAddresses`), and a
recursive function of its rounds where one element meets what the earlier ones
left (`Loop`, `ApplyRecords`, `MergeSorted`). The order of `slices.SortFunc` is
given by how many elements come up to each (`Sorted`).

The modules contain a few operators that no action uses, named as slips: each is
a plausible mistake in one definition, and replacing the definition by it breaks
the property `PROJECT.json` pairs it with under "mutants".

## 3. Runs

| run | instance | shows |
|---|---|---|
| `queue` | capacity 2, batches to 3, 2 packets, 2 pushers, 1 consumer | no lost wake-up, no leaked slot, FIFO refinement; every wait ends |
| `lifecycle_events` | 2 sessions, 1 restart, a callback, the context may end | events, waiters, what Close leaves |
| `lifecycle_suspend` | 2 sessions, 2 suspends, backoff 1..2, timeout 2, the context may end | login, budget; the end is reached, a lasting suspension releases the login |
| `session` | 2 packets, queue of 1, with the probe | buffer ownership, contract; Close ends with every goroutine |
| `incoming_data_path` | 2 sessions, 3 packets, queue of 2, 2 readers | one owner, delivery in order, nothing left by Close; readers and receive goroutines end |
| `upload_stream` | 5 datagrams: empty, of the greatest length, refused, without headroom (framed or refused) | frames read as written, bounded harm of a torn one, buffers released once |
| `connect_tunnel` | the four channels, no bound | no leaked connection, a whole session; `connectTunnel` returns |
| `keepalive_channel` | interval 2, timeout 1, a second of 2 ticks, 9 ticks, 2 unread messages | dead gateway, end and cancellation noticed in time; no reply taken for another's |
| `data_channel_keepalive` | interval 2, timeout 6, writes of 1 or without a deadline, answers within 3, 17 ticks | upload warm, silence noticed, prompt gateway kept |
| `resources` | 2 resources of 2 hosts, 2 records, 1 name server, 4-bit addresses and one of IPv6, 2 ports; every range of 4-bit addresses | ranges covered, filter = publication, routes = filter, probe found |
| `suspension_takes_login`, `refused_list_carries` | as above | the disagreements below |

Liveness and safety share a run, so that both are shown of the same instance;
`lifecycle_events` has the callback and its queue of events, which multiply the
states, and checks safety only; so liveness is shown of a client without a
callback. `TypeOK` is a theorem of every state machine with proofs (`Documents`,
in `ResourcesInv`, is that of `Resources`); the runs of the larger ones check it
too.

Bounds. A capacity of two makes head and tail wrap, and batches of three overflow
it; two pushers contend for every free slot. More consumers are left to the
proofs, which hold for any number, and to the two readers of `incoming_data_path`.
Two sessions give a tunnel its successor, which is where stale references could be
used; two suspends let the second fall behind the first's `Resume`. A timeout of
two with backoffs of one and two cuts the last wait short of its backoff. Nine
ticks hold an opening handshake and three exchanges of the keepalive channel, with
a late reply from each to the next; seventeen hold a busy spell longer than the
timeout, the silence after it and the drop. Answers that take longer than the
probe's interval are those a refused deadline can cost the tunnel
(`PromptGatewayKept`); the proof covers faster ones too. An interval equal to a
second is the shortest for which sequence numbers are distinct, and the start of
the client within a second is chosen in `Init`. A queue of two that three packets
overflow leaves the receive goroutine of the old session with a packet in its hand
while the client reconnects. Four-bit ranges contain every combination of
alignment, length and wrap at both ends.

`MaxSessions`, `MaxSuspends`, `MaxRestarts`, `MaxBatch`, `Horizon`, `InboxBound`,
`LastSession`, `LastPacket`, `MaxRcs`, `MaxHosts`, `MaxRecords` and `MaxServers` are
bounds the code does not have. When `MaxSessions` is reached, `connectTunnel`
can only fail. No run uses symmetry, which liveness would not allow. Deadlock is
checked for the queue; the others may stop (a closed client, a tunnel that has ended, a horizon that is
reached, an algorithm that has returned), so their runs do not check it.

Fairness. A goroutine that can step does (weak fairness of `SupervisorStep`,
`DispatcherStep`, `PusherStep`, ...), and a call that has begun goes on
(`CloserStep`, `FailCall`, `CloseStep`, `StartStep`). Nothing is assumed of the
callers, the callback or the gateway: `authenticate` may hang for ever unless it
is cancelled, a tunnel may stay up for ever, and a write or read ends for sure
only once its channel is closed. `connectTunnel`, the logout and the backoff have
deadlines in the code and therefore end. `SessionCloses` is fair in
`ClientLifecycle` because `TunnelSession` shows `CloseEndsSession`.

In `ConnectTunnel` the gateway may be mute at every step: what is fair is the
client's own steps, the timeout of a dial's context, the `AfterFunc` goroutine it
starts, and that an operation on a connection that is closed, or a dial whose
context has ended, fails. In `IncomingDataPath` a push ends once its context or
the queue has ended, and a read once its channel is closed; a client that is over
closes its session (`SupervisorStep` of `ClientLifecycle`). No reader need ever
come back, and the receive channel need never bring a packet.

The timed modules have no fairness. A tick may pass only when no timer or
deadline is due and no message is there to be read, so "within three ticks" is a
safety property; it abstracts from how long the scheduler takes.

### Disagreements between code and comments

Eight properties state what a comment says and the code does not do. Two of them
are runs of `PROJECT.json`, the others have configurations of their own:

    tlc -config DropsOnlyWhileProbing.cfg DataChannelKeepalive


* `suspension_takes_login`: a `Suspend` and `Resume` while the tunnel is being
  connected pass unnoticed; the comment at `client_supervisor.go:140` says a
  suspension takes the session "whether or not the client has been resumed again".
* `MCLastEventIsDown.cfg`: `Client.Close` stops the events first, so the last event
  of a callback may be "up"; `tunnel_config.go:37-41` says the caller "has to hear
  about the tunnel going down as well".
* `MCConfigurationGoesWithSession.cfg`: a session that fails between `Start` and its
  publication leaves its configuration in place while the client reconnects.
* `CommandChannelReports.cfg`: an orderly close of the command channel ends
  `runCommandChannel` without failing the session.
* `ExchangeWithinTimeout.cfg`: the write and the reads of an exchange have a
  deadline each, so it may take two timeouts; `keepalive_channel.go:26` says
  "timeout bounds both one TIMQ/ACKQ exchange and [...] the whole opening
  handshake". `DeadGatewayNoticed` therefore promises an interval and two timeouts.
* `DropsOnlyWhileProbing.cfg`: a tunnel on which the application only wrote, for
  longer than the timeout, is dropped at its first idle interval, before a probe
  was sent; `options.go:73-74` says it is dropped when the receive channel is silent
  "while probes are being sent".
* `refused_list_carries`: when `rclist.csp` fails the filter is still built, from
  an empty list, and drops everything but name server traffic; `auth.go:88-89`
  says "a gateway that refuses it still carries traffic".
* `OnlyAssignedPrefixLeft.cfg`: name servers of `conf.csp` are routed even with
  `ResourceRoutesDisabled`; `options.go:81-82` says "leaving only the assigned
  address prefix".

Other things the models make visible, where no document says otherwise:

* The filter reads IPv4 only, so a route to an IPv6 resource attracts datagrams
  the filter drops; `RoutesMatchFilter` speaks of IPv4.
* `permits` does not look at the ports of a datagram that has none (ICMP): it
  is permitted wherever one port of the address is.
* With a `KeepAliveInterval` below a second two requests share a sequence number
  and a late reply passes for the answer to the next; `AnswerIsOwn` and `EndIsHeard`
  assume an interval of at least a second.
* A connection that refuses the write deadline is written to without one
  (`session.go:253-259`), under the mutex: for as long as that write lasts the upload
  channel may be idle and a silent receive channel is not judged. `UploadStaysWarm`,
  `SilenceIsNoticed` and `PromptGatewayKept` are violated without their conditions
  on it.
* `WriteDataPacketBuffers` looks at `ready` before it waits for the mutex: one
  caller may still write behind a frame another has torn. `TearIsContained`
  bounds what the other end may make of it, one datagram.

### Hazards without a property

`client_supervisor.go:155` (a gateway that drops each tunnel at once is logged in
to without a wait) and `auth.go:74` (a login is forgotten when `conf.csp` fails) are
behaviours of the models that no document of the repository forbids or bounds.
`session.go:168` is the wall clock, which `DataChannelKeepalive` does not have.
`client_supervisor.go:259` decides in one section under the lock what may be
published, and a property that says so would repeat its condition.
`session.go:153` is a window inside `sync.WaitGroup`, which is atomic here: `Start`
may call `running.Go` while `running.Wait` is returning. Suspensions that no one
sees, `client_supervisor.go:188`, `client.go:392`, `session.go:190` and
`data_channel_keepalive.go:114` are the disagreements above.

## 4. Proofs

`DataPacketQueueProofs` proves, for every capacity, every set of packets and any
number of goroutines (assuming `QueueAssumption`: the capacity is positive and
the zero value is no packet):

* `TypeCorrect`, `OnlyLiveSlots`, `WakeupsArrive`: `TypeOK`, `OnlyLiveSlotsHeld`
  and `NoLostWakeup` are invariants;
* `RingIsFifo`: `Spec => FifoSpec`, the ring implements `BoundedQueue`.

The inductive invariant is `RingInv`. `TypeOK` alone is not inductive: that a
popped batch holds packets needs `OnlyLiveSlotsHeld` (live slots are filled), and
that a slot is filled with a packet needs `ArgumentHeld` (a `Push` under way has
one). The arithmetic of the ring is confined to a few lemmas: `Wrap` and
`WrapSum` remove the modulus, `OffsetIs`, `OffsetOfSlot` and `OffsetMoves` make
`Offset` the inverse of `Slot` and say how it moves with the head, and
`PushAppends` and `PopTakesPrefix` say what a push and a pop do to the contents.
`WakeupsArrive` is inductive relative to `RingInv`, and the refinement uses it in
both states of a step.

`KeepaliveChannelProofs` proves all five properties of the channel for every
interval, timeout, length of a second, age of the client, horizon and inbox
(`KeepaliveAssumption`: the first three are positive). `ChannelInv` is needed since

* the bounds compare the time with the last answer, while the code compares it
  with a timer and deadlines: `TimerInv` and `CancelInv` relate the two, one bound
  for each place in an exchange;
* `AnswerIsOwn` needs requests an interval apart (`RequestInv`), whose sequence
  numbers then differ (lemma `SecondsDiffer`);
* `EndIsHeard` needs that the gateway's word lies in the inbox ahead of every
  answer to a request made after it (`WordInv`), so that the exchange cannot
  succeed before it is read (`EndInv`).

`DataChannelKeepaliveProofs` proves the four properties of the probe for every
interval, write timeout, silence timeout and delay (`DataKeepaliveAssumption`).
`KeepaliveInv` adds `TimerInv` (the timer is due within an interval of the last
write, and a write that began in time ends by its deadline, if it took one),
`SilenceInv` (a probe is written only while silence is acceptable or another write
has put the judgement off, so with a deadline it postpones the next one by at most
its own duration) and `AnswerInv` (between a probe and its answer an answer is due:
within an interval, a write and the delay of the last datagram as long as no
deadline was refused, and before the next look at the channel if the delay is
shorter than the interval).

The theorems of the two keepalives hold for every `Horizon`: the bound on time
keeps TLC's state space finite and no proof uses it.

`ClientLifecycleProofs` proves all seven invariants of the client, for every number
of sessions, suspends and restarts and every backoff and timeout
(`LifecycleAssumption`: backoffs and timeout are positive and ordered).
`LifecycleInv` is inductive where the properties are not:

* `TunnelsStayInsideLogin` needs the login tied to the supervisor's place
  (`LoginInv`): it is held from `authenticate` to the logout and nowhere else;
* `ReturnedCloseLeavesNothing` needs that every session but the latest is closed,
  and the latest too outside of `runSession` (`ClosedInv`), that the two pointers
  `Close` and `Suspend` read are to the latest session (`PointerInv`: what is
  published is current), and that `Close` waits for a supervisor that was started
  (`EndInv`: one that was not never runs);
* `ReconnectBudgetIsExact` is inductive with the types: what is left of the timeout
  and what was waited add up over every path of the supervisor (`BackoffStep`);
* `WaitersAreSignalled`, `EventWakeIsNeverLost` and `EventsAlternate` are inductive
  relative to `LifecycleInv`, action by action.

The proof has one lemma per group of actions that share what they leave alone, so
that `FailCall`, `Suspend` and the like are dealt with once.

`TunnelSessionProofs` proves `TypeOK`, `BuffersOwnedOnce` and the refinement
`ImplementsClientSession`, for every set of packets and length of the queue
(`SessionAssumption`). `WriterInv` is the point: `Start` may launch the writer after
`Close` has waited for the goroutines, and what saves the buffers is that such a
writer finds the queue closed and releases its batch. `OwnerInv` counts the owners
of a buffer with sets (fresh, queued, in the batch, released add up to one), which
needs no induction over the sequences. The refinement maps `ready`, `failure`, the
life of the session; a step of `Start` or `Close` is a step of the contract or a
stutter, and a goroutine's failure is the contract's `Fail` or, when it is not the
first, a stutter.

Its last part is about `connectTunnel`, which makes the session (the module
extends both components; definitions that both would have carry the prefix
`Connect` in `ConnectTunnel`). It proves `NoConnectionLeaks` and
`SessionIsWhole` with no assumption. The invariant `ConnectInv` adds to
`ConnectTypeOK` where the function is (`PlaceInv`), that the session holds
exactly the channels before the present one (`HeldInv`), that an open connection
belongs to the session or to the dial under way (`OpenInv`, which makes the leak
inductive), and that without an ended context nothing has been closed or is
about to be (`UndisturbedInv`).

`IncomingDataPathProofs` proves `TypeOK`, `DeliveredInOrder` and `IncomingOwnedOnce`
for any number of sessions, packets and readers (`DataPathAssumption`).
`GoroutineInv` says that only the current session has a receive goroutine, and so a
packet in its hand; `OrderInv` that what is delivered, what is queued and that
packet form one increasing sequence; `OwnerInv` counts the owners of a packet.

`UploadStreamProofs` proves `TypeOK`, `ReadsWhatWasSent`, `TearIsContained` and
`FramedBuffersReleasedOnce`, for every set of datagrams, their lengths up to the
maximum, any filter, any set of buffers without headroom, with and without an
encoding (`StreamAssumption`). `StreamInv` has three parts.

* `ControlInv`: one caller writes, and once a write has failed the ready flag is
  gone, so that one caller at most is still past the check and none when that one
  has written. This bounds the batches behind a tear.
* `BufferInv`: a packet is in one slot of one caller; what has been released of it
  follows from whether it is new, in a slot or done, and from whether it was framed
  without headroom (`HasCopy`).
* `WireInv`: the stream can be parsed. There are frames `pk` and offsets `off` such
  that the k-th part of the stream is the first cells of the frame of `pk[k]`
  (`Framed`); witnesses in an existential stand in for the recursion over the stream
  that the prover could not do. While no write has failed every part is whole and
  the other end is in step with `sent` (`InStep`). After it one part, the c-th, is
  cut, and perhaps the last, with at most two behind it (`Cut`). The other end
  is then at a boundary, in front of a payload, or inside a part behind the cut.
  There no cell looks like the magic (`MagicIsFirst`), so it refuses the next
  header; and a magic whose length was cut off is followed by the next frame's
  magic, which is no length (`CutHeader`). It misreads only by filling the cut payload up from what
  follows, and has then passed the cut for good (`CutPayload`).

The proof rests on what a write appends (`WrittenAre`: part of the first frame, or
all of it and part of the second), on one lemma for an appended part (`FrameAdded`),
and on the payload of a whole part being the datagram, with the key applied twice
(`PayloadIs`). It assumes, as the model does, batches of one or two datagrams and
payloads in which nothing looks like the magic.

`LocksAndFrames` of `UploadStream` picks the permitted datagrams by their positions
and joins them with `FlattenSeq`, because the prover knows nothing of `SelectSeq`.

`ResourcesProofs` proves the four properties of `Resources`, for documents of any
number of resources, hosts, records and name servers, addresses of any width and
any number of ports. `WidthAssumption` and `ResourcesAssumption` say of which kind
the elements of a document are; that no two resources of a list have one number is
part of what the gateway composes (`AddRc`). The bounds `MaxRcs` to `MaxServers`
are used nowhere.

* `ResourcesInv` says that the session holds what the functions make of the
  documents (`WebIsRead`) and the tunnel what they make of the session
  (`TunnelIsBuilt`), and of which type the documents are (`Documents`). That it is
  inductive is simple; the work lies in what the functions return.
* `Induction` is induction over the naturals for a set, which the prover can
  instantiate where it cannot instantiate the library's rule for a predicate. It
  follows from the pigeonhole principle for finite sets. With it, `LoopIs`,
  `ApplyRecordsIs`, `MergeSortedIs` and `FlattenIs` show that the recursive functions
  of the model exist and obey their equations, and the lemmas below what they
  compute for every input. Powers of two are counted as subsets (`PowerStep`).
* `RangeIsCoveredAlways`: `RoundInv` holds after every round. A block the loop
  appends is a largest one because no block that contains `first` and begins before
  it fits into the range (`Fresh`); the blocks grow to a greatest one and then
  shrink, so `Measure` falls and two rounds per bit are enough. `StepIs` deals with
  the wrap of `first` and `blockSize`.
* `MergePrefixesIs`: of the prefixes sorted by address and length
  (`SortedPlacesIs`), each one that overlaps an earlier one overlaps the last one
  kept and lies within it, so one comparison is enough; nothing is lost.
* `ApplyDNSHostsIs`: which entries a record names, and their ports, do not depend
  on the records before it, though these may have added the very entry it names:
  such an entry allows every port, as its own would have done.
* `ParsedHost`, `ParsedPorts`, `ParsedEntries`, `ParsedList`, `ParsedRecords` and
  `MergeAddressesIs` say what is read; `Permits` and `RoutesAre` put them together.

Only model-checked: liveness, which is out of the prover's reach.

## 5. Not modelled, and what is left

Not modelled, and why:

* HTTP, XML, `conf.csp` and the `sslctx` blob (`http_client.go`, `xml_document.go`,
  `conf.go`, `material.go`), the TLS configuration: straight-line I/O and decoding
  without state. `ClientLifecycle` sees their outcomes, `Resources` their elements.
* The bytes of the camouflage and the offsets of message fields: constants of a
  protocol of which the repository is the only description.
* The trimming of host texts, and the bytes by which `ownsEchoReply` tells the
  answer to a probe from a datagram: string and byte work; both outcomes are there.
* A probe that is switched off (an interval of 0, the default): such a session has no
  `DataChannelKeepalive`. `Resources` is about an enabled one.
* `options.go` and `errors.go`: defaults and values, constants of the models.
* Logging.

Left to prove: batches of any number of datagrams in `UploadStream`, which needs
an induction over the batch, as `ResourcesProofs` does it over documents.
