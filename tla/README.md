# Formal model of AgentService

TLA+ modules for the EdgeBox VPN agent: a daemon that registers with a control
plane, learns from it which other agents exist, and keeps a WireGuard device
and its routes in step with that list.  The modules are translated from the
sources under `src/` and `control_plane_mock/`.  TLC checks them on small
instances, and TLAPS proves the central properties for all values of the
constants.

Paths below are relative to the repository; source files of the agent are named
without their directory.

## 1. The system

| Part | State | Operations |
|---|---|---|
| Tunnel manager (`tunnel_manager_base.cpp`, `platform/linux/tunnel_manager_impl.cpp`) | `private_key_`, `vpn_ip_`, `peers_`, `is_active_` | `generate_keys`, `create_interface`, `update_peers` (with `remove_peer`, `add_peer`), `start_tunnel`, `stop_tunnel`, destructor |
| Kernel (WireGuard link `wg0`, cryptokey routing, routes), through `third_party/wireguard` and rtnetlink | link, private key, addresses, peers with allowed IPs, routes | add and delete link, set device, set and remove peer, add and delete route |
| REST client (`rest_client.cpp`) | `registered_public_key_`, `last_hash_` | `register_peer`, `ping` |
| Registration (`registration_peers.cpp`) | `self_peer_` | `vpn_up`, `heartbeat`, `re_register` |
| Agent service (`agent_service.cpp`, `main.cpp`) | `running_`, the thread | `start`, `stop`, destructor |
| Control plane (`control_plane_mock/mock_server.py`) | `_agents_by_key`, `_vpn_by_key`, `_next_host_octet`, one handler thread per request | `register`, `ping`, `compare_hash`, `touch`, eviction |
| macOS tunnel manager (`tunnel_manager_base.cpp`, `platform/macos/tunnel_manager_impl.cpp`) | the same members, and the file `wg0.conf` | the same operations, through `wg`, `wg-quick` and `route` |
| Facade, configuration file of the agent, logging, platform utilities | see section 8 | |

How they interact:

* `agent_service::start` runs one background thread: `vpn_up`, then `heartbeat`
  until `running_` is cleared.  Both call the REST client, which blocks on HTTP,
  and the tunnel manager, which blocks on netlink.  Nothing else touches their
  state; `running_` is the only variable two threads of the agent share.
* The agent is answered with a view (its own address, its peers, a TTL, a hash).
  A ping carries the hash of the last view; 304 means "nothing changed", 404
  "not registered", 200 brings a new view.
* The control plane serves requests of many agents at once.  Its store has one
  lock, taken once by a registration and twice by a ping.
* The kernel outlives the process: what a dead agent left on `wg0` is still
  there when the next one starts.

What is hard about it:

* a call of `update_peers` is a long sequence of system calls, each of which may
  fail or be the last thing the process does;
* the same fact is kept in several places: the peer list, the device and the
  routes; `last_hash_` and what is applied; the registered key, the key pair and
  the key of the device; `is_active_` and the link;
* replies are lost after the server has acted, and hashes are stored before the
  view they stand for is applied;
* the interval of the heartbeat is derived from the TTL that the server evicts
  by, with one second to spare;
* handlers of the control plane interleave between `compare_hash` and
  `touch`/`ping`, and a restarted server hands out its addresses anew;
* an address in a peer record is parsed twice, by two parsers, once for the
  device and once for the routes;
* on macOS the link is made from a file, so what a process left on disk and what
  it left in the kernel both meet the next process.

What makes each part correct:

* tunnel manager: list, device and routes agree at every step; a peer that stays
  is never interrupted; success means applied; `update_peers` removes before it
  adds;
* agent: one key end to end; the hash stands for what is applied; it converges
  to the control plane's view when the world is quiet; a stop takes effect; it
  calls the tunnel manager in the order that needs;
* control plane: addresses are unique and stay with their keys; views list only
  agents that are alive;
* peer records: what the device gives a peer is what is routed to it, and a
  withdrawn peer leaves nothing behind, whatever text throws;
* all together: an agent in time is never evicted, an arrival and a departure
  reach every device within a known time, the living agents know each other and
  nobody else a known time after whatever has happened to them, and their devices
  have the addresses that the store keeps.

`PROJECT.json` lists the hazards one by one, each at its line.

## 2. The modules

```
WireGuardDevice        the kernel as the agent drives it (external)
   ^
TunnelManager    - - - - implements - - - ->  PeerSync
   ^   ^                                        ^
   |   MacTunnelManager   - - - implements - - -+
 Agent  - - - - - - - - - implements - - - ->  TunnelManager!Spec
   ^
 AgentRounds           Agent with a clock that counts rounds

 ControlPlane     - - - - implements - - - ->  PeerRegistry
   ^
 Mesh             - - - - implements - - - ->  ControlPlane!PlaneSpec
   ^
 MeshTiming            Mesh with a clock per agent, counting since it came or went
 MeshHealing           Mesh with one clock, counting since the last disturbance

 PeerRecord            the text of a peer record, by itself
```

An arrow up reads "extends".  The proofs about a module `M` are in `M_proofs`,
which extends `M` and the proofs of what `M` extends.  `MCTunnelManager`,
`MCMacTunnelManager`, `MCAgent`, `MCAgentRounds`, `MCPeerRecord`, `MCMesh` (of
MeshTiming) and `MCMeshHealing` add the instances for TLC.

**WireGuardDevice** has one operator per netlink request.  Cryptokey routing
(an allowed IP belongs to one peer) is the function `owner`.  Addresses are
model values; two subsets tell apart what the code's parsers tell apart:
`PlainIPs` (no `/prefix`: the route parser takes it, the allowed-IP parser
rejects it) and `BadIPs` (`std::stoi` throws).

**TunnelManager** is the object and its calls.  A call is a sequence of steps
and `pc` names the next one; a step is one change of the peer list or one system
call that may fail, with all the assignments up to the next one.

| pc | code | actions |
|---|---|---|
| `get` `make` `setkey` `addr` `up` | `create_interface`, `tunnel_manager_impl.cpp` 537-730 | `CleanOldDevice` `MakeDevice` `ConfigureDevice` `AssignAddress` `BringUp` |
| `remove` | `update_peers` loop over `peers_to_remove`, first half of `remove_peer` | `RemoveFromList` `RemovalsDone` |
| `config` | `create_config_file` in `remove_peer` | `WriteConfig` |
| `unset` `unroute` | `wg_remove_peer_dynamic` | `UnsetPeer` `UnroutePeer` |
| `add` | loop over `peers_to_add`, first half of `add_peer` | `AddToList` `UpdateDone` |
| `set` `route` | `wg_add_peer_dynamic` | `SetPeer` `RoutePeer` |

`start_tunnel` and `stop_tunnel` are one step each.  `Faults` says which calls
may fail, so that a run can ask what survives which failure.  `Restart` ends the
process at any step and starts another on the same device.  `Call` is the owner:
it makes the calls in the order of `vpn_up` and `heartbeat`; `Agent` shows
(`CallsInOrder`) that the real owner does.  Peer lists are sets, so every order
of removals and additions is explored.

**PeerSync** is what `update_peers` promises, with no list, no device and no
routes: the agent has a goal, drops what is not in it, then connects what is
missing, and is synced only when the two are equal.  `TunnelManager` implements
it with `goal <- KeysOf(want), connected <- kpeers`; `MacTunnelManager` does as
long as the tunnel is active and nothing has failed.

**MacTunnelManager** is the macOS implementation.  `add_peer`, `remove_peer`,
`update_peers` and `compute_peer_diff` are in the base class, so their steps are
those of `TunnelManager`; the virtual functions they call differ.  Each runs an
external program, which works or fails as a whole.  `create_interface` makes no
link: it writes `wg0.conf`, in two steps, since opening the file empties it and
the state of the stream is not looked at afterwards (`OpenConfig`,
`WriteConfigFile`).  `start_tunnel` runs `wg-quick up`, which makes the link out
of that file and refuses when there is one.  `generate_keys` may fail between
the private and the public half.  `failed` records what has gone wrong since the
object was made, so that each property can say which failures it survives.
The model knows the link by one name.  On a Mac `wg-quick` makes a `utun` device
and keeps its name in a file of its own, while the code goes on passing `wg0` to
`wg` and `route`: whether these find the device is a matter of the external
programs.

**PeerRecord** opens what TunnelManager takes for a name: the text of an allowed
IP and of an endpoint.  An address is a set of bits with a prefix length.
`parse_allowed_ip` cuts the length to eight bits (`EightBits`), leaves out an
entry without one, and the kernel clears host bits; `parse_cidr_address` takes a
missing length for the full one, refuses one outside the family, masks IPv4 with
a shift (`WordMask`) and IPv6 byte by byte (`ByteMask`), and the kernel refuses
an IPv4 route that has host bits.  The shift by 32 for the length 0 is undefined
in C++; `build` chooses once, for the whole behaviour, whether the processor
wraps it or yields zero.  `parse_endpoint` reads the port with `stoul`, which
wraps a negative number (`Unsigned`).  The tunnel is active: `CallsInOrder` of
Agent says that nothing is removed before.

`AddPeer` is `add_peer` with `wg_add_peer_dynamic`, `RemovePeer` is `remove_peer`
with `wg_remove_peer_dynamic`, each with all that follows from the text,
including the text that throws in the middle.  `AddFails` and `AddRefused` are
the additions of which the kernel takes nothing, or a part; `RemoveFails` is the
removal that returns early, because the file could not be written or the kernel
refused, when the peer is off the list already.  A list that names a key twice
gets past `compute_peer_diff` twice, and `add_peer` overwrites the first record
with the second (`Listed`); `fresh` says when this may be, namely among the
additions of one `update_peers`.  What an overwritten record, or one whose
removal failed, leaves on the device and in the routes is found in `former` and
`astray`, which no step depends on: the properties name it as their exception.

**Agent** composes the tunnel manager with the thread of `agent_service`,
`registration_peers` and `rest_client`.  `apc` is where the thread is; while a
call of the tunnel manager runs, the thread waits for `pc = "idle"` and looks at
`status`.  An HTTP exchange is one step of the thread, because the agent does
nothing else meanwhile and the server acts at one moment of it.  A reply that is
lost on the way back is a step in which the server acts and the agent does not.
The control plane is reduced to what this agent sees of it: the view it would be
sent and the keys of this host that are registered.  Time is left out: an
eviction may happen at any moment.  `stop()` is in the class and `main.cpp`
never calls it, so it is modelled as something a program may do.  Replies may
lack their hash, have one that is no string, break off behind it, or lack the
peers (`PingWithoutPeers`: the list is emptied and the hash hides it).

**AgentRounds** adds a history variable to Agent that no step looks at:
`current`, the last request that mattered was answered and the server has
nothing new since.  It is there to say how soon an agent is up to date.

**ControlPlane** is `PeerStore` and its handler threads.  A registration is one
step under the lock; a ping is `CompareHash`, then `Touch` or `Ping`, and other
handlers and seconds come between them.  `age` is the time since
`last_seen_epoch`, not counted beyond `Ttl + 1`, where nothing changes any more.
A hash is the view it is the hash of, without the times in it
(`_build_peer_response_locked` leaves them out of the hash as well).  All of it
is in memory: a restart forgets every key and breaks off every request.

**PeerRegistry** is what the control plane promises: no locks, no eviction, no
counter.  An agent is off the register in the second in which it has been silent
too long, and a request is answered in one step from the register as it is then,
with any address that nobody else was given.  ControlPlane implements it with
`registered <- Evicted`, the records that an eviction would leave: that eviction
waits for the next request cannot be seen.  One thing could not be hidden, and
is in the abstract module: the answer 304 takes two steps, between which the
time of the agent may run out.  `touch` then brings an overdue record back to
life, or, when a request of somebody else came first, does nothing.

**Mesh** puts several agents around ControlPlane, with the timing that Agent
leaves out: `Interval` is `max(1, ttl - 1)`, an agent pings at once after
`vpn_up`, sleeps after every round, and registers again in the round in which it
was told that it is unknown.  `known` is what an agent was sent last
(`self_peer_`, `last_hash_`); `link` is what its device has, which follows
`known` only by keys, as `compute_peer_diff` compares only those and nothing
reassigns the own address.  `lag` is the time a round takes besides the sleep.

**MeshTiming** adds a history variable to Mesh: `since[a]`, the seconds since `a`
was registered or, once it is dead, since it died or its last request was
served.  It is there to say, in seconds, how long the devices may be out of step
with who lives: `RoundTrip` is one sleep and three lags, `Longest` one TTL more.

**MeshHealing** adds another one, `calm`: the seconds since something disturbed
the mesh last.  A disturbance is an agent that starts, dies or gives up, a
request of a dead agent that is served all the same, a restart of the server,
and every second by which a round is late.  MeshTiming stops where the first
delay or restart comes; MeshHealing counts from the last one.  An agent that the
store has lost finds out and is back after `Rejoin` (one sleep and two lags),
and a dead one is off the store after a TTL; the longer of the two is `Settle`,
and `HealTime` is `RoundTrip` more.

## 3. What the runs show

| Run | Result | Shows |
|---|---|---|
| `TunnelManager_reliable` | pass | With a contract-keeping control plane and failures of creation and start only: nothing is left over, nothing is missing, every listed address is carried at every step, no route is orphaned, success means applied, PeerSync is implemented; the process may die anywhere. |
| `TunnelManager_lost_addition` | violation | After one failed `wg_add_peer_dynamic` the next `update_peers` returns success without the peer: the list had it before the device refused it. |
| `MacTunnelManager_faults` | pass | With every command failing at will and the process dying anywhere: one key, no withdrawn peer on the device as long as no removal failed, none in a file that could be opened, every listed peer reached as long as its own kind of command worked, PeerSync until something fails. |
| `MacTunnelManager_first_peers` | violation | `vpn_up` gives its first peers to a link that `start_tunnel` makes only afterwards: on macOS it fails whenever another agent is registered. |
| `PeerRecord_text` | pass | The two address parsers agree but for three kinds of text; a peer has the networks and the endpoint of its record; what is left of an earlier record is that of an overwritten one or of a removal that failed, and nothing else outlives its record, whatever throws or is refused. |
| `Agent_faults` | pass | With every call failing at will, records that change, keys named twice, keys that do not decode and addresses that do not parse: one key end to end, the calls of the tunnel manager in the assumed order, one record per key, and no wanted peer is interrupted. |
| `Agent_live` | pass | Through lost replies, replies without hash, evictions, changes, outages and restarts the hash stands for what is applied, and one answered round brings the agent up to date; then it converges; a stop finishes. |
| `Agent_retry` | violation | A `re_register` that fails in `update_peers` is not retried: the key is stored by then. |
| `Agent_view` | violation | A new address of the agent itself is stored and not assigned, and a new address of a known peer is never given to the device; one trace shows both. |
| `Agent_fail_close` | violation | Without answers the tunnel stays up. |
| `Mesh_heartbeats` | pass | In every interleaving of handlers, time and a restart of the server: addresses are unique and kept, no view lists a silent agent, an agent whose rounds are in time is never evicted, every device has the addresses of the store as long as the server lives, as long as rounds are in time a new agent is on every device after `RoundTrip` and a dead one off it after `Longest`, the store implements PeerRegistry, and after deaths, delays, evictions and the restart all living agents end up knowing each other and no one else. |
| `Mesh_healing` | pass | How long that takes: whatever came before, `Settle` seconds after the last disturbance the store has exactly the living agents, and `HealTime` seconds after it every one of them knows and connects all others and nobody else, each by the address that one was told last. |

Each violation is a finding in `PROJECT.json`, with the document or comment of
the repository that says otherwise.

Some results are worth reading together.

* `SuccessMeansApplied` holds in `TunnelManager_reliable` and fails as soon as
  `setpeer` may fail.  `HashIsApplied` and `Converges` hold in `Agent_live`,
  where replies are lost but the tunnel does not fail behind the start: a failing
  tunnel breaks them, because a failed update is never retried (`Agent_retry`).
* `Agent_view` says that an agent looks at nothing but keys; `LinksMatchStore`
  of Mesh says why this does no harm while one server lives, since that server
  never changes an address.  It says nothing behind a restart, after which two
  agents may swap addresses: `MeshConverges` is about what the agents know, not
  about what their links have.
* The three kinds of text in `RoutedAsOwned`: an address without a prefix is
  routed and not owned; a length that eight bits do not hold (`/264`) is owned as
  what is left of it (`/8`) and not routed; and where the shift by 32 wraps,
  `x.y.z.w/0` with host bits is owned and not routed.  The pattern in
  `openapi.yaml` (line 139) allows a missing prefix and `/0` and has no room for
  `/264`; the agent checks none of it.
* A key that a list names twice leaves routes behind: those of the first record
  that the second does not name (`tunnel_manager_base.cpp` lines 38-42), which no
  later removal deletes.  `NoStrayRoutes` fails without `astray`.  The first
  endpoint stays too when the second does not parse.  The networks the peer owns
  are those of the second record, since `WGPEER_REPLACE_ALLOWEDIPS` is set
  (`DeviceAsListed`).
* On macOS `remove_peer` changes the list before it opens the file.  When that
  fails the file still names the withdrawn peer, the exception of
  `FileForgetsPeers`.
* `ArrivalsInTime` needs three lags, not one: the hash may be compared just
  before the change, the 304 may be on its way for a lag, the next comparison may
  come a sleep and a lag later, and its answer takes one more to the device.
* An agent evicted between `compare_hash` and `touch` is answered 304 and is not
  registered.  This heals at its next ping, which is answered 404 and followed by
  a registration in the same round: why `Rejoin` has one sleep and two lags, and
  `StoreSettles` fails if the registration waits for the next round.
* `HealsInTime` is about whom a device connects and about the addresses agents
  know.  The addresses that a device has are `LinksMatchStore`, which a restart of
  the server ends (`Agent_view`).
* On macOS a link left by a process that died makes `wg-quick up` fail, so
  `vpn_up` fails until the link is taken down by hand: `MacKeysAgree` holds
  because the agent does not become active on somebody else's link.

Seen while modelling and not made into runs: `manage_interface_route` returns
the opposite of what its comments say (line 402 against 305 and 310), which only
chooses a log message; on macOS a failed addition is logged with "configuration
updated for next restart" (line 287), and `add_peer` does not write the file.

## 4. Bounds

* TunnelManager: three keys and two addresses.  Two of the keys have the same
  address and are never listed together: the smallest instance in which an
  address moves between peers while a third one must not notice.  Two key pairs
  of the own host tell the process that died from the one that runs.
* MacTunnelManager: the same lists; the address of the third peer is one that no
  command takes, so that a file that does not parse occurs.
* PeerRecord: addresses of full width, 32 and 128 bits, and prefix lengths and
  ports at every limit of either parser (-1, 0, the width and its neighbours,
  128, lengths that eight bits fold back into the range, ports of 0, of more than
  16 bits and negative ones that wrap), alone and behind another entry.  What
  lies between the limits is covered by the proof.  `ULongs`, the number of
  values of an unsigned long, is 2^20 in place of 2^64, which is beyond the
  integers of TLC: more than 16 bits is all that the code, and the proof, need.
  Two of three peers contend for a network.  `MaxTroubles` = 1: one record is
  overwritten or one removal fails, at any point of the sequence.
* Agent: two peers; `Agent_faults` has a third one, whose key does not decode,
  lists that name a key twice, and addresses that do not parse.  `MaxEvents`
  bounds what comes from outside (changes of view, evictions, outages, kills):
  three in `Agent_live` are enough for an eviction and a change during an outage,
  or a kill between them; lost replies and fault points are not counted.
* Mesh: two agents, a TTL of 2, so an interval of 1 and a `MaxLag` of 1: sleep
  and lag just fit into the TTL, and one second of delay evicts.  `MaxDelays`
  and `MaxRestarts` are 1: one late round and one restart, in any order and
  during any request.  Two agents suffice for the interference of two handlers;
  the proofs cover any number.  `since` stops one second behind `Longest`, where
  no property tells more apart, and is 0 once somebody was late or the server
  restarted.  The two bounds are tight: with one second less, TLC finds each of
  `ArrivalsInTime` and `DeparturesInTime` violated in this instance.
* MeshHealing: the same.  `calm` stops one second behind `HealTime`.  The bound is
  tight as well: with one second less TLC finds `HealsInTime` violated for a TTL
  and a `MaxLag` of (1, 0), (2, 0), (2, 1), (3, 0), (3, 1) and (4, 1), that is,
  both where rejoining takes longer than the TTL and where it does not.

`CHECK_DEADLOCK FALSE` in the runs of Agent: a terminated or stopped agent that
has used up its outside events really stops.

## 5. Fairness

* `FairSpec`: weak fairness of the thread.  The operating system schedules it
  and every netlink call returns.  An HTTP exchange need not: `cpr` is called
  without a timeout.  The fault point `hang` models that; `Agent_faults` has it,
  the liveness properties of `Agent_live` hold only without it.
* `RoundsLiveSpec`, for `Converges` only: besides, outages end (`WF(Recover)`),
  and of infinitely many requests some are answered (`SF` of `Answers` and of
  `ReRegisters`).  This assumes a network that loses messages but not all of
  them; nothing assumes that a particular request gets through.
* `TimedLiveSpec` (`MeshFairness`): time passes, handlers run, agents take their
  steps.  Nobody has to start or to die, and the server need not be restarted.
* `FailClose` is refuted under `FairSpec`, where nothing makes the server come
  back and the thread goes on pinging.

## 6. What is proved

All theorems hold for every set of keys, addresses, peer lists, records, views
and faults, every TTL and any number of agents.  The assumptions are those the
modules declare: fault sets, lists and records are of their types, `None` is no
key, numbers are naturals, the set of agents is finite.

**Tunnel manager** (`TunnelManager_proofs`).  `TypeCorrect`; `PeerKeysAreUnique`
and `WantedPeersStay` whatever fails; `NothingLeftOver` if removals do not fail;
`NothingMissing` if additions do not; `NoRouteOrphaned` if removals and route
changes do not; `PeersAreCarried` under the contract of the control plane;
`SuccessIsApplied` and `Refinement` (of PeerSync) if all hold.  None of these is
inductive.  The invariant `IInv` says in addition where the call is (`PhaseInv`:
nothing is removed before the tunnel is active, which is why `remove_peer` never
skips the device), what an absent link holds (`DeviceInv`), what a running
update has done and still has to do (`UpdateInv`: after the removals the list
holds no key that is not wanted, so that an empty `toAdd` means that the list is
the argument), that the contract passes from the lists to `peers_`
(`ContractInv`) and which addresses of the current peer are routed already
(`RoutingInv`).  `NoRouteOrphaned` needs one more, `OrphanInv`: a peer whose key
does not decode never gets a route, so that its failing removal leaves none, and
an addition overwrites no record.  The proof has one step per action and part.

**Agent** (`Agent_proofs`).  `AgentTypeCorrect`; `OneKey`; `AgentImplementsTunnel`
(every behaviour of the agent is one of the tunnel manager's specification) and
with it `AgentInheritsTunnel`, which carries the theorems above over.  The
invariant `AgentInv` ties the place of the thread to the call that ran last and
the key of the device to the pair of this process.  `HashOfWhatIsApplied`: an
answer 304 hides no change.  It joins two invariants, `AppliedInv` of the tunnel
manager (between two calls the device has exactly the last argument, where
"exactly" for the routes is `NoRouteOrphaned`) and `HashInv` (the argument is
the list of the hash, from the reply until the next one).

**Rounds** (`Agent_proofs`, too).  `OneRoundIsEnough`, the safety half of
`Converges`: at the top of the loop an agent whose last ping was answered, even
by 404, is registered and has the server's present peers on device and routes,
if nothing changed there meanwhile.  The invariant `CurrentInv` follows the
answer through the round: a 304 relies on `HashInv` (what was compared is what
was applied), a 404 on the registration in the same round, and `AppliedInv`
carries the argument of `update_peers` to the device.  What Converges adds is
that exchanges do get answered, which is fairness.  `RoundsAreAgent`: `current`
only watches.

**macOS** (`MacTunnelManager_proofs`).  `MacTypeCorrect`, `MacOneKey`,
`MacNothingLeftOver`, `MacPeersAreCarried`, `MacFileForgets`, `MacRefinement`.
The invariant `MacIInv` is built like `IInv`; what is new in it is `MacFileInv`
(the file that `wg-quick` will read is of this object and names no peer) and
`MacIdleLinkInv` (an update that runs without a link gets no peer past `wg set`,
so that a link can only be made by a tunnel manager without peers).

**Peer records** (`PeerRecord_proofs`).  `RecordTypeCorrect`, `NoRouteAstray`,
`EndpointsAsWritten`, `PeersAsListed` and `ParsersAgree`, for all addresses,
lengths and endpoints and any number of records overwritten and removals that
fail.  The arithmetic is in lemmas about one entry: `EightBits`
keeps every length that the family allows, the byte-wise and the shifted mask
are the mask of the kernel, so that what one parser makes of an entry the other
makes too.  The invariant `RecordInv` adds that a route is named by a record
that does not throw (only such a record adds routes, so its removal deletes
them all) unless it is `astray`, and that device and routes have all of a record that was added.

**Control plane** (`ControlPlane_proofs`).  `PlaneTypeCorrect`, `UniqueAddresses`,
`AddressesKept`, `FreshPeersSent`, `OctetsBounded`.  The invariant `PlaneInv`
adds that every address lies below the next one, and that the addresses handed
out are as many as the keys that have one, by which `OctetsBounded` counts.
`StoreIsRegistry`: the store implements PeerRegistry, one lemma per handler step;
a comparison that finds a difference and the eviction in it are stutters, and
`SignOfLife` shows that a record once seen is in the register whether or not it
was evicted in the same step.

**Mesh** (`Mesh_proofs`).  `HeartbeatKeepsAlive`: `Interval + MaxLag <= Ttl` and
no delay so far imply that an agent in its heartbeat is registered, for any
number of agents.  The invariant `HeartInv` is a bound on ages: the store last
heard of an agent no longer ago than it has slept and lagged.  It needs
`RequestInv`, that the request under way is the one the agent waits for.
`LinksStayRight`: `LinksMatchStore`, from `ViewInv`, which says that every view
under way is still of the addresses in the store.  `MeshUsesPlane`: the agents
use the store as `PlaneSpec` allows, so the theorems about the store hold among
them; `MeshUsesRegistry` draws the conclusion, that to its agents the server is
PeerRegistry with unique addresses, kept, and fresh views.

**Timing** (`MeshTiming_proofs`).  `ArrivalsAreSeen` and `DeparturesAreSeen`, for
any number of agents, TTL and lag: the safety half of `MeshConverges`, in
seconds.  `Wrong(p, view)` says that a view lacks an agent that is present or
names one that is gone.  The invariant `TimingInv` bounds how long `p` may have
moved while what `a` knows is wrong about it, by the place of `a` in its round
(`Window`) and its lag there; a view that was sent and not looked at yet has a
bound of its own, since the store built it from members that are wrong for at
most the TTL (`SilenceInv`: the record of a dead agent is at least as old as
`since` says) or, for arrivals, not at all.  It stands on `MeshInv`.
`TimedIsMesh`: `since` only watches.

**Healing** (`MeshHealing_proofs`).  `StoreIsSettled` and `MeshHeals`, for any
number of agents, of delays and of restarts, every TTL and every lag such that a
round in time fits into the TTL (`Fits`, as in KeepAlive): the safety half of
`MeshConverges`.  The invariant `HealingInv` says that every debt is younger than
`calm` allows.  An agent is `Kept` when the store has it, it waits for no
registration, and the store heard of it in time; one that is not kept has been
disturbed no longer ago than its place in the round admits (`Slack`), and what is
kept stays so until the next disturbance.  This is an induction on `calm` in
disguise: behind `Settle` nobody is left with so much slack, so that all are kept,
the dead have timed out (`SilenceInv`), the store is right (`SettledStore`), and
from then on whatever is sent is right.  `KnownInv` then bounds what an agent
knows by `Settle` and the `Window` of MeshTiming.  Two parts are there for the
gap in a ping: `HeardInv` lets a record be older than its agent's round only
after a late second, and `TouchInv` says that the agent whose hash was right is
still in the store when it is touched, which is what makes an answer 304 a sign
of life.  `LinkInv` carries the result from what is known to the device.
`HealIsMesh`: `calm` only watches.

Only model-checked: the liveness properties (`Converges`, `StopFinishes`,
`MeshConverges`), which are out of the prover's reach; of two of them the safety
half is proved, as above.  What `MeshHeals` leaves to `MeshConverges` is that
time goes on at all.  Every invariant, action property and refinement that a
passing run checks is also proved.

## 7. Possible next steps

Done: WireGuardDevice, TunnelManager, PeerSync, Agent, ControlPlane, Mesh with
the restart of the server, PeerRegistry, PeerRecord, MacTunnelManager, the
clocks of AgentRounds, MeshTiming and MeshHealing, and the proofs of each.
What would add most next:

1. An abstract specification of the agent (a replica of the control plane's
   view) with the refinement from Agent, and Mesh rebuilt on it instead of on
   its own account of an agent.
2. Agent on top of MacTunnelManager, which needs its own `Call` since the order
   of `vpn_up` does not suit it.

## 8. Not modelled

* The text of requests, replies and the configuration file, formatting and
  logging: no property is about them.
* `hostname` and the times of a peer record: the agent logs them and no decision
  depends on them.  `compute_peer_diff` ignores a changed endpoint exactly as it
  ignores a changed address.
* `tunnel_manager.cpp` forwards every call to the platform's implementation.
* `config.cpp` is loaded by the constructor and read by nobody.
* `platform_utils.cpp`: only that `get_hostname` may throw is in Agent.
* A way out of a failed `vpn_up`: the link stays up and `start()` sleeps for
  ever.  Agent has the state (`failed`), and the code has no step that leaves it;
  a stop leaves the link, since `is_active_` is not set.
* CI, packaging and the integration tests; the tests were read as documentation
  of what agents promise.
