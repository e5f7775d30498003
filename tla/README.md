# A verification project for nvme-dem

nvme-dem is a distributed manager of NVMe over Fabrics endpoints. `dem` is a
discovery controller: hosts connect to it, read the discovery log (which
subsystem is where) and are told when it changes. An administrator configures
it over HTTP (`dem-cli` or a browser); `dem` passes the configuration on to the
endpoint managers (`dem-em`) of the storage targets. `dem-ac` and `dem-dm` run on
hosts: they follow the log of a discovery controller, and connect the subsystems
it lists, or display them.

Paths below are relative to `src/src/`.

## 1. Inventory

| Component | State it keeps | Operations | Interacts with | What is hard |
|---|---|---|---|---|
| pseudo target, accepting (`dem/pseudo_target.c`, copy in `endpoint/pseudo_target.c`) | a ring of accepted endpoints, `head`, `tail` | `interface_thread`, `add_host_to_queue`, `add_new_host_conn`, `get_new_host_conn` | two threads share the ring without a lock | interleaving, stop at any time, malloc failures |
| pseudo target, serving (`dem/pseudo_target.c`) | `host_list`, per host `kato`, `countdown` | `host_thread`, `handle_request` and one handler per command | hosts (messages), the lists of the main thread (shared, unlocked) | time-outs, one busy host, partial failure |
| main thread (`dem/daemon.c`) | `stopped`, `num_interfaces`, threads, discovery queues, countdowns of the targets | `main`, `init_interface_threads`, `poll_loop`, `periodic_work`, `cleanup_threads` | interface threads (shared counter), HTTP server | shutdown races, signals, unlocked counter |
| notifications (`dem/config.c`, `dem/pseudo_target.c`) | `aen_req_list` | `handle_async_event`, `create_event_host_list_for_*`, `send_notifications` | filled by host threads, emptied by the main thread | freed endpoints on the list, missed changes, inverted filters |
| discovery log (`dem/logpages.c`, `dem/pseudo_target.c`) | log pages of the subsystems, valid or not; unattached pages | `fetch_log_pages`, `save_log_pages`, `refresh_log_pages`, `del_unattached_logpages`, `handle_get_log_page*` | upstream targets, host threads | pages shared between threads, partial refresh |
| configuration (`dem/config.c`, `dem/interfaces.c`) | targets, subsystems, namespaces, ports, allowed hosts, discovery queues | `set_*`, `del_*`, `link_*`, `unlink_*`, `add_*`, `update_*`, `get_config`, `config_target` | JSON store, endpoint managers in band or out of band, notifications | several copies of one fact, partial failure, a command sent twice |
| groups (`dem/config.c`) | groups, their hosts and targets, `group_member` | `add_group`, `update_group`, `set_group_member`, `del_group_member`, `del_group`, `shared_group` | visibility of the log, notifications | long sequences of calls, renames |
| JSON store (`dem/json.c`) | the configuration file | `add_json_*`, `update_json_*`, `set_json_*`, `del_json_*` | every configuration call | renames and deletions across lists |
| REST interface (`dem/restful.c`) | none | one handler per method and resource | configuration, groups | order of store, lists and target |
| endpoint manager (`endpoint/*.c`) | the kernel target's configfs tree | management commands, `create_*`, `delete_*`, `link_*`, `reset_config` | `dem` | a command repeated, objects in use |
| host daemons (`monitor/daemon.c`, `auto_connect/daemon.c`, `common/logpages.c`, `common/nvmeof.c`) | the connection, the pages they show, `cnt` | `connect_ctrl`, `enable_aens`, `get_logpages`, `report_updates` / `process_updates`, keep-alives | `dem` (messages) | answers not matched with commands, time-outs, reconnects |
| transports (`common/rdma.c`, `common/tcp.c`) | queue pairs, sockets | connect, send, poll, remote read and write | kernel | broken connections |
| `dem-cli` (`cli/cli.c`) | none | one request to `dem` for each command | REST interface | bodies that leave tags out |
| web interface, SPDK back end, Redfish prototype, curl and parse helpers | none | formatting, parsing, I/O | | |

What would make each component correct, and where it may go wrong, is the list
"hazards" of PROJECT.json, each with the line where it bites. In short: no
accepted connection is lost, served twice or used after it was freed; a host is
dropped when its time-out says so; a stop ends everything in order; a host that
follows the log sees every change and nothing else; the lists, the JSON file and
the endpoint managers agree; a host sees the subsystems it may see.

## 2. Modules

| Module | Models | Depends on |
|---|---|---|
| `Fifo` | what the host queue promises: a bounded FIFO queue | |
| `HostQueue` | `interface_thread`, the ring and the life of `host_thread` | `Fifo` (refinement) |
| `Shutdown` | `main`, the interface threads, `num_interfaces`, SIGTERM | |
| `HostService` | the passes of `host_thread` over its hosts, keep-alive time-outs | |
| `DiscoveryClient` | `dem-dm`/`dem-ac` composed with `handle_request` and the notifications of `dem` | |
| `EventList` | the list of event requests and the buffer of an endpoint, which threads share | |
| `HostPages` | the pages that `dem-dm` and `dem-ac` keep, and what a fetch makes of them | |
| `DiscoveryMonitor` | what `dem-dm` tells its user | `HostPages` |
| `AutoConnect` | the devices of a host and the connections that `dem-ac` asks for | `HostPages` |
| `DiscoveryQueues` | the discovery queues of `dem`, its log pages, refresh and retry | |
| `JsonStore` | `json.c`: the document and every change of it | |
| `Config` | `config.c` and `interfaces.c`: lists, messages to the machine, notifications, start | `JsonStore`, `Endpoint` |
| `Cli` | `cli.c`: the request of each command | |
| `Restful` | `restful.c`: dispatch, when the document is stored; the properties of the whole | `Config`, `Cli` |
| `Configfs` | the operations on the nvmet tree of the kernel, each as one step | |
| `Endpoint` | the management commands of `dem-em`, in band and over REST | `Configfs` |
| `EndpointManager` | the operations on configfs as their system calls | `Configfs` |
| `*Proofs` | theorems about the module of that name; `HostPagesProofs` also has those about `DiscoveryMonitor` and `AutoConnect` | |
| `MC*` | the instances for TLC that need definitions | |

`Config`, `JsonStore`, `Cli`, `Restful`, `Endpoint` and `Configfs` are composed: one
step of `Restful` is a request of `dem-cli`, the change of the document, of the lists,
the messages that follow with what may happen to them, what the machine does, the
notifications, and the file. `EndpointManager` shows that the steps of `Configfs`
may stand for the system calls they are made of. `AutoConnect` takes from
`DiscoveryClient` that a change of the log is fetched in the end.

Definitions whose comment begins with "Mutated" are deliberately wrong versions of
the definition that follows them. No specification uses them: each is there so
that a property can be seen to fail when the code is changed in that way.

### HostQueue

State: the ring (`slot`, `head`, `tail`), the program counters of both threads with
the locals that live across a step, `hosts` (the `host_list`) and `live`, the
endpoints that are allocated. Every load or store of shared state is a step of its
own. `add_new_host_conn` stores the endpoint and then `head`, `get_new_host_conn`
stores NULL and then `tail`; the two stores of either are plain stores to different
addresses, so both orders of becoming visible are modelled. `get_new_host_conn`'s test for
NULL is what makes the reordering of the first pair harmless; that of the second is
harmless because a full ring still has a free cell.

Actions follow the statements of the two functions: `Accept`, `WaitForRoom`,
`AddRefused`/`AddAllowed`, `StoreSlot`, `StoreHead`, `LeaveLoop`, `Join` for
`interface_thread`; `OuterLoop`, `GetEmpty`, `GetNotYet`, `GetOne`, `ClearSlot`,
`StoreTail`, `AddHost`/`AddHostFails`, `Service`, `CloseHosts`, `DrainOne` for
`host_thread`. `Service(gone)` drops any set of hosts; `HostService` says which.

### Shutdown

`num_interfaces` is the size of the array of interfaces, the bound of the loops
of `main`, and the number of threads not finished; every thread decrements it with
a load and a store. A thread also calls `signal(SIGTERM, SIG_IGN)`, which changes
the disposition of the process (`ignored`). The program is modelled from where signals
are handled on; `Ready` is `main` after it has asked the targets, where it clears
`stopped`. `KillThread` and `JoinThread` are the loops of `cleanup_threads`; where they come to a
thread that was never created they use the zero that `calloc` left (`NullHandle`), and
the process ends there (`crash`). `EndWait` may end at any time: the wait is 100 naps of
100 us, and a thread may need 100 ms to see `stopped`.

### HostService

`todo` is what a pass has still to visit (the order of `host_list` is left open).
A request is abstracted to its effect: it succeeds, it fails (any handler that
returns a status), or it sets the time-out. `asked` and `idle` are history
variables: the silent visits a host asked for and those it has had.
`ToInt` keeps the width of an int, so that time-outs that overflow are modelled;
`Granted` is what the conversion leaves of a time-out, and at least one visit.

### DiscoveryClient

The connection is an RDMA queue pair: `c2s` and `s2c` are sequences. A command
is sent, then waited for; `process_nvme_rsp` takes the next message, whatever it
is. A Get Log Page's data is written into `buf`, and a command whose key was
deallocated becomes `"stale"`: serving it breaks the connection (`WriteFault`). The
log is a version number, and `NumRec` gives the records of a version, which is all
that `get_logpages` compares (`genctr` is always 1). `aenlist` holds, for every
event request, the connection it came from; `alloc` the connections whose endpoint
is allocated. A change (`Change`) and its notification (`send_notifications`) are
two steps of the main thread. `del_subsys` is the one operation of `config.c` that has
them the other way round: it notifies, and then takes the subsystem off the lists
(`RemoveSubsys`). `noted` is the version at the last notification. Changes stand for
those whose notification list includes this host. `connect_ctrl` either succeeds or leaves the host where it was.
A stop of the host daemon, the TCP transport and the connection of a controller
that rejects the keep-alive time-out (`failed_kato`, which `dem` never does) are not
modelled.

### EventList

`aen_req_list` with its pointers (`next`, `prev`), the memory of its entries (`live`) and
the buffer in which both threads build what they send to a host. A step is a C
statement that loads or stores something shared, and stores take effect in program
order: `list_add` is four steps, `list_del` two, the last one with the free.
Nothing keeps the threads apart: requests are handled, and events sent, at any moment,
by any number of threads. The ghost `raced` remembers whether two threads met where it
does harm: on the list, two additions at once, or a removal while another entry is added
in front of the one that goes (`ListRace`); in a buffer, an event built for a host while a
request of that host is handled (`BufferRace`). The properties say that only these
meetings lose or mix up anything; that the meetings happen is in section 5. A thread
that follows NULL ends the process (`NullDeref`). Memory that was freed keeps its
contents until it is allocated again.

### HostPages, DiscoveryMonitor, AutoConnect

A page is found again by its key (subsystem and way to it); the rest of a log entry
is its `data`. The lists of subsystems with lists of pages are one set. A fetch may fail,
which leaves everything as it was, or succeed with an empty log: `get_logpages` returns
no records if the answer it took did not fill its buffer (`Results`). `DiscoveryMonitor` keeps what the user was `told`;
the ghost `forgotten` has the keys that `cleanup_dq` dropped after they were
told. `AutoConnect` keeps the devices of the host; one page is connected in each turn
of the main loop; the kernel may refuse, or lose a device later (ghost `failed`). Where
the directory of devices cannot be read, the marks stay as they were in the pages'
memory (`mark_blindly`); a page whose device file cannot be opened is passed over.
Failures of malloc while pages are saved are not modelled.

### DiscoveryQueues

One target under local management, as `dem` collects its log: the queues in the order
of their list, with subsystem, port and host nqn, the pages with the port of the queue
they came over (`del_portid` frees them by it), `log_page_retry_count` and
`refresh_countdown`. Lists that are walked while they change keep their order. A
connection is opened again for every fetch, because nothing sets `dq->connected`;
`eps` counts the endpoints that were not closed. `OpSets` says which kinds of
requests take place together. A subsystem that is set again may get a second queue;
`stale` is set when a subsystem with several queues is deleted, of which only the first
is freed: from there on nothing is said (`Undefined`). `create_discovery_queue` has no
failure: without memory, or for a transport that is not built in, there is simply no
queue. `odd` flips with every turn of `periodic_work`, so that
"it is done again and again" can be stated.

### JsonStore, Config, Restful, Cli, Endpoint, Configfs

The document is a record of three sequences; `json.c`'s functions are operators from
document to document and a status, with the tests in the order of the code and the
changes made before a test fails included. `Config` has the lists (`target_list`,
`group_list`), the machine's tree, the reply, and the hosts that are `notified`.
A request sends messages one after the other (`Exchange`); a fault hits one of them:
lost on the way there, lost on the way back (`"unanswered"`), sent twice because
`_send_set_config` reconnects, or everything from that message on (`"down"`).
Targets have addresses, because the links of a group are pointers; `Placements`
gives a new target any free address. A variable that a body leaves unset holds any
of `Leftover` or `StalePortIds`. `Restart` frees the lists and builds them from the
`file` (`build_lists`, `init_targets`). `life` ends with a list that loops or a null
pointer that is followed.

Left out: listing and showing (they only read; `show_json_host` is there for
`ViewAgrees`), `set_interface`, the refusals of the kernel other than those of a missing or used
object or an enabled namespace, and more than one managed machine. A `POST` of a port
without an id makes `dem-em` convert a null pointer (`endpoint/restful.c:200`); it is modelled
as a request that gets no answer, and `dem` never sends one.

### EndpointManager

Every operation of `configfs.c` is a sequence of system calls that threads carry out
one by one: `getcwd`, `chdir`, `mkdir`, `rmdir`, `symlink`, `remove`, `opendir`, writes and
reads. A directory that was opened is read one entry at a time (`ReadDir`, the loop
`for_each_dir`), in any order. The working directory belongs to the process. The five
attribute files of a port are one. A namespace is enabled when its device is written,
after which the kernel refuses another device; `create_ns` does not look. Two
assumptions say what the program's names have: the directory `dem-em` runs in is not one
of configfs (`HomeAssumption`), and operations are those of its table with arguments
from the sets of names (`OpsAssumption`).

## 3. Runs

| Run | Bounds | States | Shows |
|---|---|---|---|
| `host_queue` | 4 endpoints, the real ring of 3 slots, malloc may fail | 109 884 | `RingInv`, `OneOwner`, `NoneForgotten`, `RoomStays`, `NoOverwrite`, `RingIsFifo` (refinement of `Fifo`), `AcceptedIsServed`, `StopTerminates` |
| `shutdown` | 5 interfaces, any thread may fail to start or to be created | 680 107 | `CountInv`, `StopTerminates` |
| `host_service` | 2 hosts, 3 requests, time-outs of 0, 5, 10 and 20 visits (10 and 20 overflow an int of at most 7) | 82 124 | `CountdownInv`, `DroppedWhenDue`, `SilentIsDropped`, `RequestServed`, `StopCloses` |
| `discovery_client` | 2 changes, each a change or a deletion, 2 waits that are too short, 1 broken connection | 1 429 327 | `CaughtUp`, `AlwaysNotified`, `RequestsBounded`, `EventuallyFresh` |
| `config` | eight scenarios, see below | 70 425 | `ViewAgrees`, `MachineAgrees`, `DocumentFound`, `RefusedUnchanged`, `NotifiedOnChange`, `OkMeansDone`, `ReconfigDelivers` |
| `queues` | 2 subsystems, 2 ports, 3 host nqns, five sets of operations | 65 010 | `PagesComplete`, `QueuesValid`, `EventuallyComplete` |
| `events` | 2 host threads with a host each, 2 requests each, 4 entries; states in which the list was broken have no successors | 402 958 | `TouchesLive`, `WalkSeesAll`, `NoneLost`, `AnswersOwn` |
| `monitor` | 3 keys, 2 values of the rest | 20 612 | `ToldAgrees` |
| `auto_connect` | 3 keys, 2 changes, 2 needless, failing or empty fetches, 2 failures, 1 lost connection | 546 385 | `PagesFetched`, `ConnectsListed`, `EventuallyConnected` |
| `manager` | 1 thread, 7 operations on 2 subsystems, 1 host, 1 port with 2 addresses, 2 devices | 427 042 | `AsIfAlone` |
| `shutdown_threads_cleaned_up` | 2 interfaces | | violated, see 5 |
| `discovery_client_false_deletion` | 2 changes | | violated, see 5 |

The scenarios of `config` (`AllScenarios` in `MCConfig`): `members` (groups, links and
allowed hosts of two targets under local management), `build` and `build_oob`
(subsystems, namespaces and ports of one managed target, in band with commands sent
twice, and out of band), `access` (allowed hosts), `few` and `few_oob` (messages lost or
unanswered, the machine down), `reconfig` (any of six messages lost), `lifecycle`
(targets and hosts added, renamed, changed, deleted). `dem` may be restarted between any two
requests of each. The commands of section 5 are left out of the scenarios: each one
makes a property fail by itself.

Why the bounds are enough: the ring has 3 slots in the code, so 4 endpoints make it
full with one more waiting and one being served, and let an address be reused. Two
changes in a row are what puts two events on the wire, and leaves no request for
another; two short waits let a late answer be mistaken while
another is late. `KEEP_ALIVE_COUNTER` is 1 instead of 4: it only repeats silent polls.
With fewer than five interfaces `cleanup_threads` never meets a thread that was not
created: three that fail to start end the creating loop at the third, and a fourth is
left over only if there is one more. In `queues` the set that changes the access of a
subsystem links two of the three hosts, enough for a first, a next and a last host.
In `config` every function of `config.c` treats the elements of a list one by one, so
two of a kind give every case (first, last, other); the address of a deleted target is
reused with two addresses. Three keys give a log in which one page is new, one kept and one
deleted. Seven operations build a subsystem with a namespace, host and port and take
it down again.

Fairness. The threads of a process are scheduled, and none of the modelled steps
blocks (the waits that do are guards): weak fairness of each thread. In
`DiscoveryClient` the same for the host's loop, `dem`'s host thread, and the
notification that follows a change in the main thread. In `DiscoveryQueues`
`periodic_work` is done again and again, because `poll_loop` polls mongoose for at most
`IDLE_TIMEOUT`. In `AutoConnect` the main loop reconnects and connects one page in
each turn, and the event that follows a change comes (`EventuallyFresh`). Nothing is
assumed of the environment: connections, requests, changes and stops need not happen.
`RequestServed` and `StopCloses` hold because `MaxReq` makes requests finite in
number: `goto loop` serves one host for as long as it has requests.

What the passing runs show that a reader of the code may doubt:

- The unlocked ring is correct, even with the stores of either thread reordered.
- `add_host_to_queue` may ignore the result of `add_new_host_conn`: the room that
  ended its wait cannot go away, unless the program is stopped.
- A host fetches the log and only then asks for the next event. That would lose a
  change in between, but `enable_aens` has asked for one event more than is needed:
  `AlwaysNotified` is the invariant behind it. Dropping that request breaks
  `CaughtUp`.
- A swallowed or late answer is not lost either: each later message is taken for an
  event, so it makes the host read the log again. `EventuallyFresh` holds under all
  of this, also when `result` of Get Features was never set.
- `_send_set_config` may send a command a second time: every command leaves the tree,
  and is answered, as if it had been carried out once (`MachineAgrees`, `ResendSame`).
- An in-band reconfiguration is complete or reports an error, whichever message is lost.
- The main thread may walk along `aen_req_list`, and take requests off it, while a host
  thread adds to it, but for one case: it takes off the request in front of which
  another is being added.
- A restricted subsystem keeps its log pages while its hosts come and go: its one
  queue moves to another host in time.

## 4. Proofs

All proofs are for every value of the constants, under the hypotheses named here.

- `HostQueueProofs` (any set of endpoints, any ring of at least 2 slots).
  `TypeCorrect`, then `RingCorrect`: `RingInv` is inductive together with the types. It
  says which cells are filled, given where each thread is between its two stores, and
  that the threads never work on the same cell. `NoOverwriteCorrect` follows from it.
  `OneOwnerCorrect` and `NoneForgottenCorrect` rest on it as well: ownership can only
  be followed through the ring when it is known what a cell holds. `RoomStaysCorrect`
  says why `add_host_to_queue` may ignore the result of `add_new_host_conn`.
  `RingImplementsFifo` is the refinement of `Fifo`: the abstract queue is read off the
  cells from `tail` on (`Place`), an endpoint is in it from the store that comes last of
  the two of `add_new_host_conn`, and leaves it with the first of `get_new_host_conn`;
  every other step of either thread is a stutter. The lemmas say how the cells between
  `tail` and `head` move when an index wraps.
  The comment at `dem/pseudo_target.c:437` asks for at least 3 slots; 2 are enough.
- `ShutdownProofs` (any number of interfaces). `CountCorrect`: the lower bound of the
  counter needs the same bound for the value that a thread has loaded and not yet
  stored, and the types need the upper bound, since the loops of `main` run up to the
  counter; the two invariants are proved together.
- `HostServiceProofs` (any hosts, time-outs and width of int). `CountdownCorrect`:
  the countdown is the time-out as an int minus the idle visits. `DroppedWhenDueCorrect`
  follows: a host is dropped for silence after exactly the visits that this grants it, for
  every time-out, and so at the first one for 0 and for what overflows to less than 1.
- `DiscoveryClientProofs` (any number of changes, short waits and broken connections).
  `NotifiedAlways`, `RequestsAreBounded` and `RestIsCaughtUp` come from one inductive
  invariant with five parts besides the types: a host that waits for an answer has one
  coming (`Waits`); the event requests of dead connections are behind those of the
  living one (`NewestFirst`), so a notification reaches the host; requests and stray
  messages stay between the bounds of `AlwaysNotified` and `RequestsBounded` (`Budget`);
  what a fetch in progress will bring is known (`Fetching`); and a host that is not
  current with the last notified version has a message, or a pending notification, that
  will make it fetch (`Fresh`). The
  requests are counted with `Count`, the cardinality of a set of positions; its lemmas
  say what appending to a sequence and taking its head do to the count.
- `HostPagesProofs` (any pages and log). `FetchSorts`: after a fetch the pages are the
  new, the kept and the deleted ones, which is the reference definition of what
  `invalidate_log_pages` and `save_log_pages` do together; `FetchOnePerKey`. On these rest
  the proofs about both users of the pages.
  `ToldIsLog` (`DiscoveryMonitor`): the inductive invariant adds to `ToldAgrees`
  that what was told is what is kept or what was forgotten, never both, that no kept
  page is marked deleted, and that once current the kept pages are of the log and the
  whole log was told.
  `PagesAreFetched` and `OnlyListedConnect` (`AutoConnect`): the invariant adds that
  no page is left marked deleted, which `mark_connected_subsystems` and
  `cleanup_log_pages` share between them (lemma `TidyKeeps`).
- `EndpointProofs` (any tree, any command). `ResendSame`: a command carried out twice
  leaves the tree, and the answer, as if carried out once. `TreeStaysSound`: no
  command leaves a subsystem open, a namespace, a link or a second address of a port
  where its directory is gone.

  `OneAtATime` and `OneThread` justify that the models of the configuration take each
  operation as one step: its system calls, on every path and in every order in which
  directories are read, leave the tree, the status and the working directory as the
  atomic operation of `Configfs` does (`AsIfAlone`), for any names, operations and
  number of threads. The inductive invariant (`IInv`) says of each thread at which call
  of its operation it is (`Point`), and that what is left to do from there gives on the
  present tree what the whole operation gives on the tree it was called with; the cases
  of the operations are `Begins`, `Entered`, `Working`, `Leaves`, `Over` and, for the loops
  of a reset, `InReset`. `OneAtATime` has the hypothesis `[]Serial`, that at most one
  thread is inside an operation, which is what a lock around them would give;
  `dem-em` has none, and with two threads the property fails without it (section 5,
  `configfs.c:255`). With a single thread, as with one interface, `Serial` is proved
  (`OneThread`).
  The proof attempt showed that some arms of the model's `CASE`s overlapped; they were
  made disjoint.
- `EventListProofs` (any number of interfaces, hosts, requests and entries; notifications
  at any moment). No hypothesis keeps the threads apart; the ghost `raced` says what the
  properties exempt. Two results:
  1. `AnswersAreOwn`: pointers lead only to entries that were requests at some time, and
     who fills a buffer finds its own message in it until two fill it at once.
  2. `NoRequestLost`, `WalkMissesNone` and `ListIsSafe`: until two requests are added at
     once, or one is taken off while another is added in front of it, the list is one ring on
     which no two entries lead to the same one (`Full`, `Injective`); the invariant also
     says how far an addition is (`AddInv`), where `prev` does not lead back meanwhile
     (`BackInv`), that the main thread's own list has requests of different hosts
     (`OwnList`), and that what the walk has to see is ahead of it or was seen (`WalkInv`).

  That all complete entries are reached from the head is stated over sets that are
  closed under `next`, so that it needs no induction.

- `DiscoveryQueuesProofs` shows `PagesComplete` and `QueuesValid` for any lists of
  subsystems, ports and hosts. The invariant (`IInv`) says how every operation leaves
  the target, until a subsystem with several queues is deleted (`stale`): names and port
  ids are apart (`Shape`); queues point to what is listed (`Points`), which a deletion
  keeps because the subsystem had one queue; an open subsystem has no hosts (`OpenToAll`);
  and while the machine is in reach and its ports stay, all queues of subsystems are on the
  first port (`FirstPort`), there is a shared queue and the first queue of a restricted
  subsystem is under the nqn of one of its hosts (`Covered`), and the pages are there
  (`AllPages`). `PagesComplete` needs `Covered`, because a refresh marks all pages as not
  valid and reads them again over these queues; `Covered` needs `FirstPort`, because
  `dq_exists` passes over queues of the same port: a queue elsewhere that one of the
  subsystem's hosts has would keep the subsystem from getting its own. Neither
  theorem has a hypothesis. That subsystems with several queues are deleted is in
  section 5 (`daemon.c:412`); a queue that points to what was freed is beyond the model.

  The operations go along lists (`CreateOnPorts`, `init_discovery_queue`, `Started`,
  `update_host`, `Only`), so their lemmas are inductions over the lengths. An induction
  theorem with an operator as parameter cannot be used here; `Induct` states it of a set
  instead, from `WFMin` of the library, and `Iterate` gives the existence that unfolds
  a recursive function.

The assumptions are the named `ASSUME`s of the modules: NULL is not an endpoint, the
ring has at least 2 slots, there is at least one interface, constants that count are
natural numbers, the head of a list is not an entry, the two of `EndpointManager`, the lists that `dem` starts with
name each subsystem and each port once and give open subsystems no hosts. TLC evaluates them in every run.

Only model-checked: all liveness properties (TLAPS does not reason about fairness);
and the properties of `Restful`, which hold for the sets of requests of its runs and not for
any (section 5 lists the requests that break them), and whose operators fold over nested
lists.

## 5. Disagreements

Where a doc, a comment or a message says one thing and the code does another. The
first two are runs of the project. Each of the others was seen with TLC: the second
column says what to change in the passing instance (for `config`: a scenario of the
boot document and the commands named), the third what then fails.

| Code | Instance | Fails | What happens; what is said of it |
|---|---|---|---|
| `dem/daemon.c:368` | run `shutdown_threads_cleaned_up` | `ThreadsCleanedUp` | the wait is shorter than the time a thread needs, and the bound of the join loop is decremented by the threads: interfaces are freed while in use. `daemon.c:355` "wait for threads to cleanup before exiting" |
| `common/nvmeof.c:225` | run `discovery_client_false_deletion` | `NoFalseDeletion` | an event is taken for the answer to Get Log Page: all subsystems are shown as deleted, until the next fetch. `dem-dm.1:19` |
| `dem/daemon.c:369` | `shutdown` | `OnlyCreated` | null handle: threads that fail to start end the loop that creates them, a stale store raises the counter again, and `pthread_kill` or `pthread_join` gets the handle of a thread that was never created. `daemon.c:363` "the threads are finished" |
| `dem/config.c:1820` | `discovery_client` | `ShowsCurrent` | early notification: `del_subsys` notifies before it takes the subsystem off the lists: a host that reads the log in between goes on showing it. `html/index.html:64` "Notifies Hosts of resource changes" |
| `dem/pseudo_target.c:171` | `events` without `Intact` | `NothingLost` | lost request: two threads that add at once lose a request: its host is never notified. `html/index.html:64` |
| `dem/daemon.c:650` | `shutdown` | `StopHeeded` | early stop: a signal that comes while the targets are asked is forgotten. `daemon.c:622` |
| `dem/pseudo_target.c:144` | `host_service` | `NeverEarly` | early drop: a time-out of 0 or one that overflows drops the host at its first silent pass or too soon. `pseudo_target.c:47` "ms per spec" |
| `dem/daemon.c:368` | `shutdown` | `AllJoined` | threads that finished in time are not joined. `daemon.c:363` "need to call join" |
| `dem/pseudo_target.c:638` | `shutdown` | `TermStops` | SIGTERM is ignored by the process once an interface thread runs. `daemon.c:622` installs a handler to stop on it |
| `dem/config.c:151` | `discovery_client` | `NotifiesExisting` | freed endpoint: event requests outlive their endpoint, and the next change follows the pointer. `config.c:162` tests the state of endpoints that are meant to exist |
| `dem/pseudo_target.c:313` | `discovery_client` | `RecordsFit` | growing log: more records are copied than the host asked for. `logpages.c:103` knows that the log may change in between |
| `dem/config.c:166` | `events` without `Intact` | `TouchesLive` for `"list" \in raced` too | a request is freed while another is added in front of it: the list leads to freed memory |
| `dem/config.c:154` | `events` | `AnswersOwn` without `raced = {}` | buffer: a notification overwrites the answer that is being built. `pseudo_target.c:376` "resp->command_id = c->command_id;" |
| `dem/config.c:633` | `config`, `del_group` | `ViewAgrees` | targets of a deleted group are hidden from every host until a restart. `cli.c:1158` "delete group(s) and all associated links" |
| `dem/config.c:495` | `config`, `rename_group`, `unlink_target` | `ViewAgrees` | the new name is a second group, the old one keeps its links. `cli.c:1160` |
| `dem/config.c:131` | `config`, `unlink_host` | `ViewAgrees` | the nqn of a link is compared with an alias: the host stays in the group. `cli.c:1257` |
| `dem/config.c:528` | `config`, `MayRepeat = TRUE` | `ViewAgrees` | a member linked twice is still linked after it is unlinked. `cli.c:1194` |
| `dem/config.c:1433` | `config`, `rename_host` | `ViewAgrees` | the body has no nqn, and what the stack holds becomes the host's nqn on the lists. `cli.c:1253` |
| `dem/config.c:1517` | `config`, `edit_subsys` to and fro, `set_acl` | `ViewAgrees` | a host allowed on an open subsystem is or is not let in once it is restricted, depending on a restart. `cli.c:1226` |
| `dem/config.c:2618` | `config`, `del_target`, `add_target` of a group's member | `ViewAgrees` | links to the freed target make a new target at its address a member. `cli.c:1172` |
| `dem/json.c:1270` | `config`, `rename_subsys` | `ViewAgrees` | the document loses the allowed hosts, the lists keep them. `cli.c:1210` |
| `dem/config.c:1576` | the same and `set_acl` | `StaysUp` | a node is appended to the list it is on: the list loops |
| `dem/json.c:2160` | `config`, out of band, `set_refresh` | `StaysUp` | the interface is dropped from the document, and the next start follows a null pointer. `cli.c:1182` |
| `dem/config.c:2129` | `config`, `edit_portid` | `DocumentFound` | the body has no id, and what the stack holds becomes the id of the port. `cli.c:1218` |
| `dem/config.c:1568` | `config`, `set_acl` of a first host | `MachineAgrees` with the links of restricted subsystems | the ports are linked before the host is on the list, so they are not linked. `cli.c:1226` |
| `dem/config.c:1955` | `config`, `edit_subsys`, in band | `MachineAgrees` | the subsystem is sent again without its namespaces. `cli.c:1204` |
| `dem/config.c:1831` | `config`, `reconfig_target` out of band, messages lost | `ReconfigDelivers` for every target | the outcome of the first message only is returned. `cli.c:1188` |
| `dem/config.c:1584` | `config`, `del_acl`, messages lost | `OkMeansDone` | success although the machine still lets the host in. `cli.c:1229` |
| `dem/config.c:1974`, `2194` | `config` | `OkMeansLinked` | links: what `_link_portid` returns is not looked at: success although the subsystem is on no port. `cli.c:1201` |
| `endpoint/configfs.c:301` | `config`, two devices, `set_ns` of another device | `MachineAgrees`, `OkMeansDone` | second device: the kernel keeps the device of an enabled namespace, and success is reported. `cli.c:1235` |
| `dem/config.c:2262` | `config`, `set_ns` with an unknown device | `RefusedUnchanged` | refused, and in the document all the same. `config.c:49` "invalid ns device" |
| `dem/json.c:387` | `config`, `del_host` of an allowed host | `DelHostKeepsSubsystems` | a subsystem is deleted in place of an entry of its hosts. `json.c:362` |
| `dem/config.c:241` | `config`, `del_subsys` of a restricted one | `NotifiedOnChange` for all subsystems | `strcmp` the wrong way round: the only host of the subsystem is not told |
| `dem/restful.c:737` | `config`, `add_subsys`, messages lost | `AlertDurable` | the alert says "DEM config updated" (`config.c:46`), but the document is not stored |
| `dem/config.c:2035` | `queues`, `OpSets = {{"port"}}` | `Complete` | the pages of a restricted subsystem go with the port of its only queue. `cli.c:1221` |
| `dem/daemon.c:412` | `queues` | `NeverStale` | second queue: `dq_exists` passes over queues of the same port, so a subsystem that is set again has two; when it is deleted the second keeps a pointer to it. `cli.c:1207` |
| `dem/logpages.c:191` | `queues`, `KatoOk = TRUE` | `ConnectedOnce` | nothing sets `connected`: every refresh opens another endpoint |
| `dem/daemon.c:157` | `queues`, `Refresh = 0` | `EventuallyComplete` | without a refresh rate a failed connection is not retried, although `logpages.c:195` sets the retry count |
| `monitor/daemon.c:183` | `monitor` | `ToldAgrees` without `forgotten` | a subsystem that goes while the connection is lost is never said to be deleted. `dem-dm.1:19` |
| `monitor/daemon.c:312` | `monitor` | `ModifiedShown` | modified page: an entry that changes otherwise than in its key is not shown. `dem-dm.1:18` "new or modified pages" |
| `auto_connect/daemon.c:540` | `auto_connect` | `NoSecondConnect` | second connection: after a reconnect every connection is asked for again. `daemon.c:542` "already" |
| `auto_connect/daemon.c:578` | `auto_connect` | `EventuallyConnected` without `failed` | a connection that fails or is lost is not tried again until the log changes. `dem-ac.8:19` "persistent connection" |
| `endpoint/configfs.c:255` | `manager`, two threads (two interfaces) | `HostsAsked` | the other interface moves the working directory: a subsystem is made among the hosts. `configfs.c:238` |
| `endpoint/configfs.c:263` | `manager`, two threads (two interfaces) | `OpenAsAsked` | `attr_allow_any_host` of another subsystem is written. `configfs.c:241` |

## 6. Plan

Done: all modules of section 2. What would come next, in this order:

1. `FabricConnect`: `connect_ctrl`, `send_fabric_connect` and the time-out retry.
2. The lists of targets and subsystems as host threads read them without a lock while
   the main thread changes them, in the manner of `EventList`.
3. `EventList` with weaker orders of the stores.
4. Proofs: `ViewAgrees`, over the requests that section 5 does not list.

## 7. Not modelled

- `set_interface` (`config.c:2656`, `json.c:1921`): no client sends it. Requests that list
  or show only read.
- The contents of Identify, of properties and of a log page's fields; signatures.
- The SPDK back end, the Redfish prototype, `curl.c`, `parse.c`, the web interface: they
  keep no state of their own, but format, parse and pass on. mongoose is vendored.
- The enumeration of devices and interfaces by `dem-em`; descriptors
  (`unlink_all_ports` leaves a directory open for each port).
- Transports below what their users rely on: an ordered queue pair, remote writes,
  broken connections.
- Reads of the lists of targets by host threads while the main thread changes them:
  operations on these lists are atomic in `Config` and `DiscoveryQueues`.
