# Pyretic: a TLA+ model of the runtime

Pyretic is an OpenFlow controller: a program is a *policy*, the runtime
evaluates it on packets, compiles it to rules for the switches, and recompiles
when a policy or the network changes.  This directory specifies the parts of
`src/` that carry that logic, model-checks them with TLC and proves the central
invariants with TLAPS.

## 1. Inventory

| Part (source) | State it keeps | Operations | Interacts with | Module |
|---|---|---|---|---|
| Topology discovery: `ConcreteNetwork` (`core/runtime.py:950`) | `next_topo`, `topology`, `update_no`, sleeping timer threads | six handlers of switch, port and link events; `queue_update` | called by the channel; calls `handle_network_change`; sends discovery packets | `ConcreteNetwork` |
| Topology graph: `Topology`, `Port` (`core/network.py`) | nodes with ports, edges with port numbers, `linked_to` | add, remove, compare; spanning tree, `reconcile_attributes` | written by discovery, read by policies and by the installation | `ConcreteNetwork`, `Learning` |
| Runtime dynamics: `Runtime` (`core/runtime.py:94-193`) | policy, `dynamic_sub_pols`, `in_update_network`, `policy_lock`, `network_lock` | `handle_packet_in`, `handle_policy_change`, `handle_network_change` | policies call it when reassigned; timers call it; it forks installations | `RuntimeUpdate` |
| Classifier installation (`core/runtime.py:285-724`) | `switch_lock`, `old_rules`, the tables of the switches | transformations, `nuclear_install`, `install_diff_rules` | runs in a forked process; sends through the channel | `Transforms`, `FlowTables`, `TableStore` |
| Counting queries: `CountBucket` (`core/language.py:579`), `core/runtime.py:731-763, 874-910` | matches, `outstanding_switches`, counters, `in_update_cv`; `global_outstanding_queries` | `pull_stats`, replies, the update of buckets | user threads, asyncore thread, installation | `StatsQueries` |
| Policy algebra and classifiers (`core/language.py`) | none | `eval`, `compile`, `+`, `>>`, removal of shadowed rules | used by the runtime | `Matches`, `Policies` |
| Packet queries (`lib/query.py`, `FwdBucket`) | `LimitFilter`'s counts, packets in a bucket | `apply`, callbacks | runtime, `mac_learner` | `Policies`, `Learning` |
| Dynamic policies: `flood` (`core/language.py:1208`) | the last spanning tree | `set_network` | topology graph, runtime | `Learning` |
| Modules `modules/mac_learner.py`, `hub.py` | learned ports | callback, `set_network` | packet queries, `flood` | `Learning` |
| Backend channel (`backend/backend.py`, `comm.py`, `patch/asynchat.py`) | received data, output queue, `channel_lock` | framing, sends, dispatch | everything above | `BackendChannel` |
| Traceback (`traceback/policy_traceback.py`, `simplify_tb` in `core/language.py`) | none | `back_policy`, `link`, `backlink`, `simplify_tb` | policy algebra | `Inverses`, `Traceback` |
| `modules/arp.py`, virtual header numbers, aggregates, `lib/virt.py`, utilities, examples, tests | - | - | - | section 7 |

**Threads and processes.**  The asyncore thread reads the single connection to
the OpenFlow client and runs every handler; one timer thread per topology edit
sleeps 0.25 s and publishes; threads of the program (a command line, a query
thread) reassign policies and pull statistics; each installation is a forked
process.  What is hard: which of them holds which lock when it reads a flag,
compiles, forks or waits; events of two switches that are not ordered among
each other; bursts that are debounced; updates made of many messages while
switches come and go; and rewriting rules, where the position of a rule decides.

**What makes each part correct.**  Discovery: the graph is consistent after
every handler, equals the network when everything is handled, and is
published.  Dynamics: the tables end with the latest policy on the latest
topology.  Installation: the tables are what the runtime believes, an update is
atomic as seen from its two ends, and rules that stay are not touched.  Queries:
an awaited answer comes and nobody deadlocks.  Algebra: a classifier and the flow
table made of it treat every packet as `eval` does.  Learning: learned ports lead
home and floods have no loops.  Channel: no message is handled twice, and none is
lost while sends are whole and messages fit a block.  Traceback: the inverse leads
back to where packets came from.  The line at which each of these can go wrong is in `PROJECT.json` under
`hazards`.

## 2. Modules

```
Matches <- Policies <- Transforms <- MCPolicies, PolicyProofs    TableStore <= FlowTables
              ^---- Inverses <- Traceback <- MCTraceback         FlowTables <- MCFlowTables, FlowTablesProofs
                                       PolicyProofs, Inverses <- InverseProofs
ConcreteNetwork <- MCConcreteNetwork, ConcreteNetworkProofs      RuntimeUpdate <- RuntimeUpdateProofs
StatsQueries <- MCStatsQueries, StatsQueriesProofs
BackendChannel <- MCBackendChannel, BackendChannelProofs         Learning <- MCLearning, LearningProofs
```
(`<-` is extended by, `<=` is implemented by.)  An `MC` module only defines
values for constants that a configuration file cannot write down.  The operators
marked `Mutant` in a module model a plausible error of the code (a dropped guard,
a missing reset, a wrong order); no specification uses them, and `PROJECT.json`
names the property that each of them breaks.

### ConcreteNetwork

Models `ConcreteNetwork` over the graph of `Topology`, one action per handler.

* `nextTopo.ports[s][p]` is `next_topo.node[s]["ports"][p]`, a `Port`; an edge
  is a function from its two switches to port numbers, as in networkx: two
  switches share one edge.  `updateNo` is `update_no`.
* A timer thread of `queue_update` is named by its number and moves through
  the sets `sleeping`, `checked`, `copied`, `notifying`: it compares
  (`Discard`, `PassCheck`), copies (`CopyTopo`), assigns (`Assign`) and calls
  `handle_network_change` (`Notify`).
* `seen` is the topology the policies were last given by `set_network`.
* `unqueued` is a history variable: the last edit of `next_topo`, or the last
  number taken, was not followed by `queue_update`.  The code does this when a
  switch joins and when a port joins down.
* The OpenFlow client and the switches are not in the repository.  From the
  messages `found_terminator` accepts they are modelled as: cables, plugged and
  unplugged; ports configured up and down, removed and added; one FIFO of
  messages per switch; a discovery packet that returns as a link message at the
  far end of a working cable.  Switches in `UserSwitches` report LINK_DOWN
  whatever the carrier is, as the comment of `Port.possibly_up` says.
* `handle_network_change` tests `topology != prev_network.topology`.  `Topology`
  defines `__eq__` and not `__ne__`, so in Python 2 the test compares identities
  and is always true: `Notify` has no such guard.

Left out: a timer's `next_topo.copy()` is one step, although the asyncore thread
may edit the graph during it; a cable joins two switches; a switch that joins
again has parted before.

### RuntimeUpdate

Models how a change reaches the tables: `handle_policy_change`,
`handle_network_change`, `handle_packet_in`, `update_switches` and the forked
processes.

* The policy (with its dynamic sub-policies) and the topology are numbers,
  increased when replaced; a classifier is the pair it was compiled from.
  `installed` is what the tables of all switches hold.
* `asyncore`, `timer[n]` and `user[u]` say where each thread is and what it
  compiled.  `policy_lock`, `network_lock` and `channel_lock` are held where
  the thread is inside the `with`; `installing` is the holder of `switch_lock`.
* A callback of a packet reassigns a policy inside `policy_lock` (it is
  reentrant); a thread of the program holds nothing when it does.
* `compiled` and `forked` are histories: the last pair compiled inside
  `policy_lock` and the last handed to a process.  `ignored` says that
  `handle_policy_change` has returned at once since the last compilation.
* `channel_lock` is held by the asyncore thread while it reads or sends a message,
  and by a thread of the program while it sends one (`UserPush`, a pull of
  statistics).  A process inherits the state of the lock: it is `stuck` if another
  thread held it at the fork, and waits for its copy for ever, with `switch_lock`.
* `Mode` is `proactive0` (with `proactive1`, which differs in what the process
  sends, see `FlowTables`) or `reactive0`, where the process clears the tables
  and the packet handler installs microflows.

### FlowTables and TableStore

`FlowTables` opens up the process that `RuntimeUpdate` treats as one step: the
messages of `nuclear_install` and `install_diff_rules`, one action each.

* A rule is a key (match and priority at a switch) with actions; adding a rule
  replaces the one with its key, as a switch does.  A classifier is what reaches
  `install_classifier`: keys and actions for each switch.
* `jobs` are the forked processes that wait for `switch_lock`, each with the
  classifier and the topology of its fork; `proc` is the one that holds it, with
  the messages it has still to send.  Lists whose order the code leaves to a
  dictionary are sets; the order of the lists (clear, add, delete, modify) is kept.
  A modified rule is deleted and then added (`SendModify`, `SendReplace`).
* `ToAdd`, `ToDelete`, `ToModify` are the differences as `find_same_rule` sees
  them: an `IPPrefix` equals no other object, so a rule for a network is never the
  same (`Networks`).
* `Die` is the process whose `OF_inportize` raises: nothing is sent, `old_rules`
  stays.
* A switch starts with an empty table and may leave; messages to a switch
  without connection are lost.  `astray` is a history variable: the switches whose
  table the runtime has lost track of, because they left and came back between
  two topologies, or were forgotten with rules in them.  An update that gives the
  switch the rules it should have takes it off again.
* `TableStore` is what an installation promises, without messages: rules are
  asked for, one step replaces the tables of all tracked switches by rules asked
  for later than those in place, and switches may be lost track of.
  `Store == INSTANCE TableStore WITH ...` maps `asked`, `installed` and, for
  `shown`, the tables when no process is at work and `old_rules` while one is: an
  update takes effect, as the abstract specification sees it, when it ends.

In mode `proactive0` the code keeps no `old_rules`; there the variable is history
only (no action reads it).

### StatsQueries

Models `CountBucket` and the runtime's list of outstanding queries per switch.

* `cv[b]` is the user inside `in_update_cv` of bucket `b` across calls,
  `waitSet[b]` the threads in `wait()`, `globalLocked` the asyncore thread
  inside `global_outstanding_queries_lock`.  A lock that is taken and released
  within one step is a guard of that step.
* `outstanding[b]` is the list `outstanding_switches`, `globalQueries[s]` the
  runtime's list.  The counters are the set of switches whose counts they hold.
* `Install`, `StartUpdate`, `HookBuckets`, `FinishUpdate` are `bookkeep_buckets`.
* A pull that finds no query function leaves `in_update_cv` first and reports after
  it (`Report`), so that an update may begin in between; a query is put on the
  runtime's list (`AddGlobalQuery`) before the switch is asked (`Request`).
* `lost` are the switches whose request was lost: their lists stay for ever.
* `Circles` are the sets of threads in which each waits for others of the set.
* A user may pull again before its callback came.

Left out: the contents of counters.  `CountBucket.apply` never has anything to
do, because `eval` of a `CountBucket` keeps no packet.

### Matches, Policies, Transforms

`Matches` is the algebra of packets, matches and modifications: a pattern is the
set of values it accepts (an address, a network, or "no such header"), a match a
function from fields to patterns.  `Policies` has the policy classes as records,
`Eval` and `Compile` with one operator per class, the classifier's `__add__` and
`__rshift__` rule by rule, `remove_shadowed_cover_single`, and `queries_in_eval`.
Its specification builds policies with the operators of the language
(`Compose`, `Combine`, `Negate`, `Branch`), so that each reachable state is a
policy a program may write.  `Reached` says which queries an evaluation runs into.

A policy is a leaf or a combination of policies, nested up to `MaxDepth`
(`Policy`).  `Eval`, `Reached`, `QueriesInEval` and `Compile` are functions on
policies, defined by the nesting of these (`Levels`): `EvalOf`, `CompileOf` and their like say what a
class makes of the values of its `Subs`, the policies in it.  An `if_` carries the
policy it is derived to as its fourth part.  `Optimize` compares a rule with all
the rules before it, where the code compares it with those it has kept: the same
rules go, because covering is transitive.

`Transforms` has the chain of `install_classifier` before the rules are sent:
drops, identities and buckets removed, `controllerify`, `layer_3_specialize`,
`vlan_specialize`, `switchify`, `concretize`, `OF_inportize`, `prioritize`; the
rule that `reactive0_install` makes of a packet and its outputs (`Microflow`); the
conversion of packets between the controller, where they have virtual headers, and
the network, where a tag stands for them (`Pyretic`, `Concrete`, with `Vlan` for the
tags given out); and a switch that acts on rules (`Forwarded`), which does
not rewrite an ARP packet in two fields, as a comment of the code says of OVS.

Left out: `ast_fold`, which only collects names; `difference`, whose
`Filter.__sub__` raises.  OpenFlow switches apply a rule's actions one after the
other to the same packet; here each action gets the packet as it came, as the
transformations assume.

### Inverses, Traceback

`Inverses` has `back_policy`: `BackOf` says, for each class, what the inverse is,
given the inverses of the policies in it, and `BackPolicy` applies it from the leaves
up.  A `sum_modify` sets fields to any value their policies accept; its `eval` raises,
so `RelateOf` gives it the meaning of its docstring and everything else its own `eval`.
`Relate` is the result for a whole policy with sums (`Traces`).

`Traceback` has the policies `link` and `backlink` over a topology and `simplify_tb`,
over the policies of `Policies`.  `simplify_tb` works on the objects of the policy it is
given: each match of it has an identity (`Objects`), and `edits` says which of them have
been given another map (`GiveMaps`).  `if_` has one object in both its branches.  A
policy of such objects means what its matches hold in the end (`Meaning`).  `Broken` is
a `modify` whose map has become `None` (the result of `dict.update`).

### BackendChannel

Messages as sequences of units that end in a terminator; `push` cuts them into
blocks and, with `channel_lock`, runs `initiate_send` until the queue is empty; the
asyncore thread does the same in `handle_write` without a lock.  A forked process
has copies of lock and queue, and shares the socket (`wire`).  The other end takes
unit by unit from the socket (nobody looks at it inside `handle_read`); at a
terminator it takes what it has collected piece by piece, until the pieces so far
parse (`TakeMessage`) or are used up (`TakeNothing`): what comes after a message
stays for the next terminator.  A message of more than `Block` units is cut in two or
more, and others may get between its parts; `FitsBlock` says that none is.  `PopEmpty` is the
`IndexError` of the thread that finds the queue emptied by another between its
test and its `popleft`; `Send` is the patched `initiate_send`, which puts back what
the socket did not take, and loses the block if it took nothing.

### Learning

`mac_learner` (which forwards to the port learned for a host, or floods), its
query (`packets(1, ['srcmac', 'switch'])`, a `LimitFilter`), and `flood` on the
spanning tree of the topology, in a network with redundant cables where a host moves.
Every packet is handled by the controller, one at a time, in any order that the
cables allow.  `calm` are the packets sent since the network last changed and was
seen; `tainted` says that an older packet has been handled since.  What is reached
over some cables (`Reachable`) is the least set of switches that none of them leads
out of, a form that can be reasoned about without recursion.  A cable joins
two different switches, and at a port there is one cable, one host or nothing
(`WiringsAssumption`).  The topology is a networkx `Graph`: `edges` are the cables it
has an edge for, one for two switches whatever the cables between them (`Graphs`); a
cable that is no edge keeps its ports in the nodes, and `flood` sends to them
(`FloodPorts`).  `OneCable` says that no two cables join the same switches.

## 3. Runs

`stats_deadlock` is a violation run: TLC finds the deadlock that a docstring warns of.
All configurations set `CHECK_DEADLOCK FALSE`: the environment is bounded, so a
behaviour stops when nothing more happens to the network, or no larger policy is
built.

| Run | Question | Bounds | States |
|---|---|---|---|
| `network_discovery` | Do ports and links end exact, and does no handler raise? | one cable, both its ends configurable and removable, 5 operations: a connection of both switches and three changes | 204 514 |
| `network_twins` | Two cables share the one edge of two switches: do the edge and its two ends agree after every handler? | two cables, one user switch, 4 operations | 158 289 |
| `network_live` | Does debouncing publish every queued edit, and do the policies come to see the network? | one cable, 3 operations: both switches and a change while timers of both are asleep | 554 579 |
| `update_users` | Is the latest policy and topology taken up, whoever changes it? Are outdated microflows cleared? | reactive mode; 2 users, 2 changes, 1 topology, 2 packets | 1 754 085 |
| `update_callbacks` | Is it forked and installed, if only callbacks change policies, unless a process inherits a held lock? | proactive mode; 2 changes, 2 topologies, 3 packets | 141 280 |
| `stats_queries` | Will awaited answers come, and callbacks? Which switches keep a list? Does an update keep everyone out? Where can threads deadlock? | 2 users of one bucket, 2 switches, 3 pulls, 2 updates, 1 lost request | 167 469 |
| `stats_deadlock` | violation: do threads wait in a circle? | 1 user, one bucket on two switches, no update | - |
| `policies` | Do classifiers, flow tables and queries agree with `eval`? | all policies of up to 3 atoms over a network, addresses, ports, a bucket, a counter and a virtual header; two switches | 21 123 |
| `traceback` | Does a traced packet lead back to where it came from? | all policies of up to 3 atoms over switch and ports; three switches in a line | 8 909 |
| `install` | Are the tables what the runtime believes? Is an update atomic at its ends, and gentle in between? | both modes; 3 updates, 2 switches that join, 1 that leaves, two exact keys and one of a network | 110 227 |
| `channel` | Is every message handled once, and whole? | a thread, the asyncore thread and a forked process; 2 messages each, of two to four units with the terminator, blocks of 3, a socket of 5: the last of the process is cut | 238 305 |
| `learning` | Do learned ports lead home, without loops and without losing packets? | a ring of three switches, a host with two places; 3 packets and changes in all, every spanning tree | 79 779 |

The bounds make each race happen: the mutants listed in `PROJECT.json` are each
found within the same bounds.  Three atoms are the smallest number at which two
combinators nest, with a test behind an action that is behind a test, and
`MaxDepth = 5` cuts none of their policies off; two messages
a thread are what one can overtake; three updates are an update, its successor,
and one queued behind it.

**Assumptions named by constants.**  `Prompt`: a timer copies and assigns within
`wait_period` of its comparison; with `FALSE`, `PublishedUnlessUnqueued` fails,
because an older copy may be assigned last (`core/runtime.py:977`).  `FifoLock`:
`switch_lock` is granted in the order of forks; with `FALSE`,
`EventuallyInstalled` fails (`FlowTables` assumes the same order throughout).
The code guarantees neither; the properties checked under them say what it does
guarantee when they are met.

**Fairness.**  Weak fairness of every thread and process that can run, of the
answers of switches and of discovery packets.  Nothing makes an operator, a user
or a packet act.  In `FlowTables` the process that holds `switch_lock` goes on
(`Begin`, `Die`, its messages, `End`); in `Learning` some packet that waits is
handled, whichever.  `BackendChannel` has strong fairness of `Push`, because a
thread that waits for `channel_lock` finds it free again and again rather than for
good: Python's lock lets one that waits have it at last.  Elsewhere the bounded
environment lets each lock become free for good.

## 4. What the runs show

**Discovery.**  The handlers keep the two records of a link (`edge` and
`linked_to`) in agreement, whatever the order of the messages of different
switches, while no port is cabled to a third switch (see 1 below); once all is
handled, switches and ports are exact, and so are the links of the one cable of
`network_discovery`; and debouncing is correct except where no update is queued.
`network_live` needs switches that report the carrier: with a user switch, a link
message sent before the cable was pulled is accepted after it, and the link stays.

**Dynamics.**  The latest pair of policy and topology is compiled, whoever
changes it, unless `handle_policy_change` returned at once; without user threads it
is also forked last, and installed in the end unless a process was forked while another
thread held `channel_lock` (4 below): that process keeps `switch_lock` for ever.

**Installation.**  In both modes the tables of tracked switches are, between
updates, the classifier written last; an incremental update never takes away a rule
that stays; and the process, with all its messages lost or delivered around joins and
departures, implements the one-step update of `TableStore`.

**Queries.**  A bucket stands on the runtime's list of a switch at least as often as it
waits for it; a switch has a list exactly while it is about to be asked, is asked, its
answer is handled, and for ever after a request to it was lost; during an update no
query of a bucket is issued and no answer counted, only a pull that found nothing to ask
before the update may still reset the counters.  Threads may deadlock, in one way only
(5 below); if they do not, and no request is lost, a user that pulled gets its callback,
however many pulls and updates come in between.

**Algebra.**  For every policy of the bound and every sample packet, the
classifier does what `eval` does, sends to the controller exactly what fills a
bucket or sets a virtual header, and the flow tables with the controller behind
them forward what `eval` forwards: those of the classifier, and the microflows of
the reactive mode once every sample packet has been seen.

**Channel.**  While sends are whole, no thread lost the race for the last block, and
every message fits a block, several processes share the socket safely and every message
is handled.  One cut in two may be torn with whole sends: a block of another process
gets between.  Whatever happens, cut messages included, nothing is handled twice and a
child's messages keep their order.

**Learning.**  Ports learned on the tree lead home, no host gets a packet twice,
a packet to a host that the sender has had one from is seen by that host alone
(already the reply, when it is sent after the first packet came), and packets arrive,
in a network that does not change under them and has no two cables between the same
switches (13 below).

**Traceback.**  `back_policy` is the exact inverse; simplifying it invents no packet,
unless it gives a new map to a match that a negation tests (14 below); the trace over a
link contains the packet that was forwarded.

### Where the code differs from what it says, or from what one may expect

The properties that hold exclude these by a condition, a constant or a bound,
named in each case.

1. `handle_link_update` takes away the link its two ports were in, but not the
   record at the far end of that link when it is overwritten
   (`core/runtime.py:1106-1118`).  With three switches and two cables that share a
   port, five operations (the port is recabled to the third switch) leave a switch
   `linked_to` a port that is no longer in a link with it, and a sixth reaches the
   exception for a link that is known over a port that is down
   (`core/runtime.py:1102`); asyncore then closes the only channel.  The runs have
   two switches, and the theorems say `OneNeighbour`.
2. A port that joins down takes an update number, so the timer of the previous edit
   gives up, and queues none (`core/runtime.py:1026`): `unqueued`.
3. `in_update_network` is reset after `policy_lock` is released; a policy change
   in between is ignored for good (`core/runtime.py:132, 163`): `ignored`.
   `handle_policy_change` forks after it released `policy_lock`: with a user
   thread in `update_callbacks`, `ForkedUnlessIgnored` fails.
4. A process is forked with whatever state `channel_lock` is in (`core/runtime.py:722`),
   and takes it to send its first message: if the asyncore thread or a pulling user held it, the
   process waits for ever, with `switch_lock`, and no classifier after it is installed: `stuck`.
   `EventuallyInstalled` excludes it by a disjunct; without that TLC finds such a run.
5. `in_update_cv` and `global_outstanding_queries_lock` are taken in both orders
   (`core/language.py:683`, `core/runtime.py:906`), against the docstring of
   `start_update` (`core/language.py:636`), and the asyncore thread deadlocks with a
   user.  One user and one bucket that counts on two switches are enough: the reply of the
   first comes before the second is asked (`stats_deadlock`).  So are a bucket pulled
   again before its answers came, and two buckets that share a switch, of which one asks
   several or an update of both comes in between.  Every deadlock crosses these two locks:
   `CirclesCrossLocks`.
6. Each reply resets the counters (`core/language.py:714`), so that the callback of
   a pull of several switches gets those of the last one; and whether a pull is
   complete is read outside `in_update_cv` (`core/language.py:724`).
7. `_commute_test` compares an address with an `IPPrefix` by equality, where its
   comment (`core/language.py:1464`) promises a test of membership: a packet
   whose new address is inside the prefix is dropped.  With `Tests <- NetTests`
   in `policies.cfg`, `CompileAgrees` fails.  `MCTests` keeps prefixes to a field
   that no `modify` sets (`MCModsExact`, without which TLC stops at the `ASSUME`).
   `ModsExact` is the condition in general, on the atoms a program uses: the
   theorems on compilation have it as their hypothesis.
8. `IPPrefix` equals no other object.  `install_diff_rules` therefore adds the
   rules of networks that stay, and then deletes them (`core/runtime.py:640-692`);
   `TablesTrusted`, `StayingRulesUntouched` and `EventuallyLatest` are about exact
   keys only.
   `simplify_tb` takes two tests of the same network for a clash.
9. `OF_inportize` raises for an action that sets no output port, and then nothing is
   installed at all: `Raises`, `Unforwardable`.
10. A switch that leaves and rejoins within `wait_period` keeps `old_rules`, and an
    incremental update leaves its table without the rules that stay: `astray`.
11. `initiate_send` loses a block of which the socket takes nothing
    (`backend/patch/asynchat.py:234`), a torn message swallows the ones after it,
    and an empty line raises in `deserialize`: `short`.  `handle_write` races with
    `push`: the next message of a thread may overtake the one `handle_write` holds,
    and the loser of the last block raises, closing the channel if it is the
    asyncore thread: `closed`.
12. `push` cuts a message of more than 12288 bytes into blocks
    (`backend/patch/asynchat.py:183`), and only `channel_lock`, of which each process has
    its own, keeps these together: without `Cut`, `WholeUnlessShort` fails in `channel`,
    though every send is whole.
13. A topology has one edge for two switches, whatever the cables between them
    (`core/network.py:342`), and only the ports of edges that the tree leaves out are taken
    out of the nodes (`core/network.py:407-428`).  `flood` (`core/language.py:1210`: "on a
    minimum spanning tree") sends to both ends of the other cable as well, and a packet goes
    round between two switches: `FloodsOnce` fails with `Wirings <- MCTwins`, `Talks <-
    MCTwinTalks` and their two hosts and switches.  The run `learning` and the theorems
    have `OneCable`.
14. `simplify_seq_pair` merges two matches by giving the first of them the merged map
    (`core/language.py:1713`); the object is the one that `if_` has negated in its other
    branch (`core/language.py:1051`), and a comment some lines on copies a match for just
    this reason (`core/language.py:1740`).  `if_(match(switch=1), match(inport=1))`,
    simplified, passes packets of port 2: `SimplifySound` fails without `Spoilt`.
15. `simplify_tb` further: a parallel with an identity in it loses the rest (`HasIdle`), two
    modifies in a row leave a `modify` without a map (`Broken`), and a step that
    unsets the output port is left out even if a match looks at it later
    (`ForwardsAgain`).
16. `mac_learner` keeps the port of a packet from before a change until the next
    change: `tainted`.
17. A microflow does not test the fields that its packet lacks, so that one made of
    an untagged packet also takes tagged ones (`core/runtime.py:218`): right only
    while policies test no virtual header, as in `policies`.  It does not use
    `OFPP_IN_PORT` either: a packet that the policy sends back where it came from
    is sent by the controller and then dropped by the microflow (`ReactiveForward`
    is about the others).
18. `layer_3_specialize` takes care of ARP packets only in rules that test an
    address (`core/runtime.py:382`): `ProactiveForward` leaves out ARP packets that
    meet another rule.
19. `modifymany` takes a value that is the name of a field for that field of the packet
    (`core/network.py:226`), and `back_policy` takes it for a constant: it tests the
    field for the name (`traceback/policy_traceback.py:35`) and finds nothing.  Only
    `tag` in `traceback/dt.py`, which its `main` no longer uses, copies fields.
    `NoCopies` excludes it.
20. `report_count` of the aggregates is given the aggregate when its thread starts:
    an integer never changes for it (`lib/query.py:113`).

## 5. Proofs

For every value of the constants, by induction over `Next`:

* `ConcreteNetworkProofs`: `DebounceInvariance` and `Published`, from `Prompt`;
  `SeenInvariance` without it.  `PublishedUnlessUnqueued` is not inductive: it
  says nothing while a timer is at work.  `DebounceInv` adds that the newest
  number sleeps, or one thread is past its comparison, or a copy equal to
  `next_topo` is about to be assigned, and that one thread at a time is there.
  A handler is summarised once (`HandlerQueues`): it changes nothing that
  debouncing looks at, or sets `unqueued`, or leaves the newest number asleep.
  In the same module, from the lemmas about the graph's operations:
  `TypeCorrect`; `PortsExactWhenQuiet` (`QuietPortsExact`), for any
  switches, cables, operations and order of the messages of different switches.
  `QuietPortsExact` says nothing while a message is on the way, so `NetInv` adds
  `Streams`: the messages of a switch, one after the other, lead (`Leads`) from what
  `next_topo` shows of the switch to what the switch is, and each is legal where it
  comes: a port that joins is not there, one that changes or parts is.  An operation
  appends the messages of what it does (`OperateLeads`), a handler does to the graph
  what its message says (`HandleShows`), and touches no other switch.
  `LinksSymmetric` (`LinkSymmetry`) and `HandlersDoNotRaise` (`HandlersNeverRaise`)
  hold if `OneNeighbour`: cables that share a port join the same two switches.
  `LinksInv` adds to `LinkSymmetry` that a port in a link is up and is linked along
  a cable, so that the exception of `handle_link_update` is out of reach, and
  `NetInv` that every message finds its switch and its port.
* `RuntimeUpdateProofs`: `TypeCorrect` (types, `in_update_network` is TRUE
  exactly inside `network_lock`, one holder of `switch_lock`) with
  `OneNetworkChange` as its strengthening; `CompiledInvariance` and `Compiled`
  for any number of user threads, timers and packets; `ForkedInvariance` and
  `Forked` if there are no user threads.  `CompiledInv` says where a change that
  is not compiled yet is: a timer before its compilation, a thread between its
  assignment and its compilation, or ignored.  `ForkedInv` says that the thread
  that compiled last is inside `policy_lock` until it has forked.
  `MicroflowsStayCurrent` (`MicroflowsCurrent`, which is silent while anything is at
  work): `MicroflowsInv` adds that for a microflow out of date a clear is due
  (`ClearDue`): a process that clears is waiting, or the thread that made the change
  has yet to fork it, or the change was ignored.
* `StatsQueriesProofs`: `TypeCorrect`, `ListsAreAsked` (`ListedIffAsked`),
  `AnswersAreComing` (`AnswersWillCome`), `CirclesNeedBothLocks` (`CirclesCrossLocks`)
  and `UpdatesAreQuiet` (`QuietInUpdate`), for any users and buckets. `Inside`, needed
  even for the types: a user in `pull_stats` holds `in_update_cv` of its bucket, so
  that nobody empties `outstanding_switches` between its two steps, and a bucket in an
  update is held by nobody. `Asked` strengthens `ListedIffAsked`: the lock of the
  lists is held exactly while an answer is handled, and a switch is asked by one user
  at a time, has one request on the way, or one answer being handled, or its request
  was lost (`Apart`). `AnswersWillCome` is not inductive, because the list of a switch
  stays whole until the last of its buckets is served: `Expected` counts what is
  `Due`, the part of it still to do. An answer takes one off what is due to a bucket
  and one off what it waits for; the lemmas on `Times` say how `append`, `remove` and
  the head of a list change such counts. For circles, `Holders` adds who may hold
  `in_update_cv`: a user that issues a query, puts it on a list or sends the request;
  and `Updating` that a bucket is in an update exactly while the installation has
  marked it, and that who sleeps on it is woken by the end of one. Of the threads of a
  circle, a user can then only wait for the lock of the lists, which leads to the
  asyncore thread, or for a bucket, whose holder waits for that lock; so does the
  installation; and the asyncore thread waits for a bucket of the circle or for the
  installation. `Updating` is also what keeps `StartUpdate` from emptying the list of
  a bucket that is in an update (`QuietStep`).
* `FlowTablesProofs`: `TypeCorrect`, `TablesKept` (`TablesTrusted`), `Untouched`
  (`StayingRulesUntouched`) and `Implements` (`StoreSpec`), for any switches, keys,
  classifiers, updates and disconnections.  `TablesTrusted` is silent while a process
  works, so `TablesInv` adds three parts.  `JobsGiven`: a process has no rules for
  switches outside its topology.  `NewSwitches`: a switch without connection that is
  not `astray` has never had one, so no process names it and its table is empty.
  `WorkLeft`: for each place of a tracked switch, `Pending` relates the messages
  still to send there to what the table holds: a rule to add is not there yet, a rule
  to modify is there as it was, and where nothing is left the table holds the new
  rule, or an old one of a switch that left the topology.  Each message does its part
  at one place (`PendingMessage`) and disturbs no other; `End` finds nothing left, so
  the table is the new classifier.  `Untouched` follows because a place whose rule
  stays is on no list.  For `Implements`, `InOrder` says that the waiting jobs are the
  last of the rules asked for; then `Fork` is `Ask`, `Part` is `Lose`, `End` is
  `Update`, and everything else stutters (`StepRefines`).
* `BackendChannelProofs`: `TypeCorrect`, `OnceInOrderHolds` (`OnceInOrder`) and
  `WholeUnlessShortHolds` (`WholeUnlessShort`), for any threads, forked processes,
  sockets and messages that fit a block (`FitsBlock`), both read off
  `ChannelInvariant`. The two properties are about the messages handled; the invariant
  follows a message from `push` on. `Holding`: who is in `push` holds the lock of its
  process, and a child whose lock was copied while a thread held it, or whose channel
  was copied closed, never sends (the others are `Live`). `Drained`: while the lock is
  free the queue has no message to begin, so that a live child is forked without one;
  else a message would be begun twice. `Once`: the beginning of a message is in one
  place, a queue, a hand or the wire, and only if it was pushed. `InOrder`: those of a
  child are begun in their order, first the wire, then its hand, then its queue. A
  thread of the runtime has no such invariant: the asyncore thread may hold an earlier
  block of its. `Follows`: what is handled, and what is ahead of the other end, comes
  in the order in which it was begun; a message is handled because its first unit is
  the first of the line. For `WholeUnlessShort`, while no send was short: `Intact`,
  every block is a whole message; `Kept`, a message pushed is in a queue, in a hand or
  begun; `Whence`, the stream is made of the messages begun and not handled, end to
  end, so that what stands before a terminator is one of them and parses as it.
* `PolicyProofs`, first the operators on classifiers, for any fields, values and
  patterns that nest.  `DisjointExact` (`intersect` gives drop exactly when no
  packet is in both; `DisjointApart` makes one that is) and `MeetExact` (`intersect` is exact),
  `CoversSound` (a rule removed as shadowed is never reached), `CommuteExact` (a test
  moved in front of an action decides the same packets, if no prefix contains the
  new value), `MergedExact` (two modifications merge).  On these rest the theorems
  on whole classifiers, all about `Decided`, which says what the first rule that
  takes a packet has it do: `OptimizeExact` (the removal of shadowed rules),
  `AddExact` (`__add__`), `SequenceActionExact` and `SequenceExact` (`__rshift__`,
  for one action and for a classifier), `NegateExact`.  Classifiers are built as
  blocks put one behind the other, so the lemmas that all of them use are
  `ConcatDecides` and `FlattenDecides`: the first block with a rule for the packet
  decides.
* `PolicyProofs`, then whole policies: `PoliciesCompile`, that `compile` does what
  `eval` does, for every policy and packet; hence `CompileAgreesHolds` and `BucketsAreFedHolds`.
  `QueriesFound`, that `queries_in_eval` finds exactly the queries an evaluation runs
  into, by any way through the policy; hence `QueriesAppliedHolds`.  `RshiftExact` and
  `IfExact`: `p >> q` evaluates `q` on what `p` leaves, however their lists were merged,
  and `if_` does what its derived policy does.  `CompileAgrees` itself cannot be carried
  through `>>`, whose right-hand classifier meets packets that the left one has
  changed.  `Compiles` is therefore about every packet: a rule takes it, and the
  actions of that rule, as a set, send it up or do what the evaluation does
  (`Right`).  The tests and actions of a classifier are made of the program's
  (`Mixed`), so that `ModsExact` speaks of them too.  There is one
  lemma for each class (`LeafCompiles`, `ParallelCompiles`, `SequentialCompiles`,
  `NegateCompiles`, `IfCompiles`).  The induction over policies is over their levels:
  `PolicyInduction` is about a *set* of policies that has the leaves and every
  combination of its members, so it needs no operator as a parameter, and
  `PolicyRecursion` gives a function defined by levels its equation.
* `PolicyProofs`, last the tables: `ProactiveForwardHolds`, that the tables
  `install_classifier` makes of any program, with the controller behind them, forward
  every arriving packet as its `eval` does.  There is one lemma for each
  transformation (`RemoveActionsExact`, `ControllerifyExact`, `Layer3Exact`,
  `VlanExact`, `SwitchifyExact`, `ConcretizeExact`, `OFInportizeExact`,
  `PrioritizeExact`), which says of a packet that no rule takes (`Silent`) or that
  some actions are decided for (`Decided`) what the rules made of these do with it:
  every rule gives way to a list of its own, and the first list with a rule for the
  packet decides (`BlocksDecide`).  Along the way the invariant of rules grows:
  `Placed` (ports and switches are tested by their numbers) is what keeps the copies
  of `OF_inportize` apart, `PerSwitch` (every rule names its switch) what makes
  priorities, which are counted per switch, agree with positions
  (`PrioritizeExact`).  `Reduced` is what becomes of the actions: they are the
  controller's alone, or those of the classifier that do something.  `ReturnedSent`
  then shows that OFPP_IN_PORT and the rule's port give the same packet, and
  `OutputExact` that the controller would have sent the same (`PoliciesCompile`).
* `InverseProofs`: `BackIsInverse`, that `back_policy` of every policy, of any size, is
  its inverse on every packet, if no modify copies a field; hence `BackInvertsHolds`.
  `BackInverts` is about the packets of the run, which `>>` leaves: `Inverts` asks of
  both policies that they turn packets into packets, and that `y` is made of `x` by the
  one exactly when `x` is made of `y` by the other.  There is one lemma for each class
  (`LeafInverts`, with `ModifyInverts` for a test followed by a sum;
  `ParallelInverts`, `NegateInverts`, `IfInverts`, `SequentialInverts`), under
  `PolicyInduction`.  For a sequence, `Undone` says that the packets after the last
  policies lead back through the inverses in reverse order; it goes by the length of
  the sequence, over the inverses that are kept, because identities are left out.
  Before any of it `BackExact` has to show that `BackPolicy` obeys its equation and that
  an inverse is a policy with sums at all: it is nested once more than its policy,
  because a modify becomes a sequence.
* `LearningProofs`: `LearnedLeadsHomeHolds`, `FloodsOnceHolds` and
  `SecondPingUnseenHolds`, for any hosts, switches, packets and networks in which no
  two cables join the same switches (`OneCable`), read off `LearningInvariant`. Under
  `OneCable` the topology has every cable as an edge (`OneGraph`); that is where it is
  needed, and with two cables the properties are false (13 in section 4). The first
  part is about trees: `Side` of a place is what the tree connects with its switch
  without the cable at it, and `TreeCuts`, `SidesApart`, `SideWithin`, `SiblingsApart`
  say that the sides that the cables of a switch lead to have nothing in common (a
  spanning tree is one that no cable can be taken out of, so this is proved of closed
  sets of switches, without paths). `Toward` is the way to a host; there is one at
  each switch (`OneWay`), and it leads back over the cable a packet of the host came
  by (`WayBack`). The properties are about tables and hosts; `LearningInv` is about
  the packets on their way, while none from before is handled (`Trusted`). `Homeward`:
  what is learned, and where packets wait, leads to their source. `Ahead`: the sides
  that the copies of a packet have yet to see are apart, and no host there has got it;
  with it no host gets it twice, or its own. `SecondPingUnseen` needs that a learned
  port never floods on: `WayLearned`, the switch before one that has learned a host,
  or is about to, has learned it too. `Onward`: no packet is sent back over the cable
  it came by, where a learned port, unlike a flood, could send it (`fwd` takes no
  account of the port that a packet came by); it is the order of each cable that
  excludes it, so `Onward` is about the packets ahead in a queue. `MovesFacts` to
  `MovesAnew` say what handling a packet does to all of these, and there is one lemma
  for each part of the invariant.

The assumptions are those the modules declare (`ASSUME`), evaluated by TLC in
runs of the modules that extend them: `FlowTablesAssumption` and `NoneAssumption`
(classifiers are typed, there is an action, `None` is neither an action nor a
process), `PatternsAssumption` (patterns nest or are disjoint), `PoliciesAssumption`
(the atoms have the types of matches and modifications), `BackendChannelAssumption`
(threads and processes are different things, and sizes are numbers),
`WiringsAssumption` (a cable joins two different switches, and a port has one cable, one
host or nothing),
and those of the other modules.  The hypothesis `ModsExact` of the theorems on compilation is evaluated
for the values of its run by `MCPolicies` (`MCModsExact`), and so is `Installable`
(`MCInstallable`), which that on tables has besides: programs test switches and ports
by their numbers, and addresses by addresses, leave the tag to the runtime and set no
port that OpenFlow reserves; packets come from switches of the topology, have no
virtual header outside their tag, and addresses only if they are IP or ARP;
and `NoCopies` of those on `back_policy` by `MCTraceback` (`MCNoCopies`).

## 6. What is only model-checked

Liveness (under fairness), which the prover does not handle; `ReactiveForward`, which
needs more of the packets than the code makes sure of: a microflow made of a packet
without a virtual header also takes packets that have one (17 in section 4), and gives them
the tag of the former, so that with two virtual headers of which a program sets one it may
be false; the properties of
`simplify_tb`, `SimplifySound` and `HopTracedBack`, whose operators
are recursive (a pass over a sequence starts again after every change), out of the
prover's reach; `OnceInOrder` for messages that `push` cuts, whose blocks the invariant
of the proof does not follow;
and `QuietLinksExact` (false with two cables between user switches, where an old link
message is taken for the new link).

## 7. Not modelled

* `modules/arp.py`: two dictionaries, used one packet at a time under `policy_lock`.
* The numbers of extended values (`core/runtime.py:917-947`): a counter and two
  dictionaries behind one lock.  The VLAN id is zero again after 4095 values.
* The aggregates of `lib/query.py`: a thread that sleeps and reports.
* `ingress_network`, `egress_network`, the disjoint trees and `difference` of the
  graph: no caller in the controller.
* A torn copy: `next_topo.copy()` runs beside the handlers (`core/runtime.py:977`);
  what it holds depends on the order of Python's dictionaries, and the next edit
  queues another copy.
* `lib/virt.py` refers to names the language no longer has, and cannot be imported.
* `traceback/dt.py`, `intradomain_traceback.py` (a demonstration and a printer),
  `core/util.py`, `lib/std.py`, examples, tutorial, tests and topologies.

## 8. Further work

A composition of `ConcreteNetwork`'s timers with `RuntimeUpdate` (its
`AssignTopology` is `Assign`) and of `RuntimeUpdate`'s forks with `FlowTables`, with
"the tables follow policy and topology" as what it implements; the rules of
`FlowTables` taken from `Transforms`.
