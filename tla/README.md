# A verification of tcp-ip-layer in TLA+

This directory models the user-space TCP/IP stack in `src/src/` with TLA+,
checks small instances of the models with TLC and proves the central results
for every size with TLAPS. `PROJECT.json` lists the components, the runs, the
source lines behind every definition, the hazards and the theorems.

## 1. The system

`main()` opens a TAP device with `TUN_QUEUES` = 10 queues, initialises the
network interface and the ARP cache, and starts `THREADS` = 10 threads. Each
thread runs `process_io`: take a queue, read a frame into the thread's own
buffer, hand it to a protocol handler, which may answer, and start again. An
`exit(1)` in any thread runs `destroy()`, which frees everything while the
other threads go on.

| Part | Source | Shared state | Modules |
|---|---|---|---|
| TUN queues | `tun_device.c` | `busy_status`, under `mut_status` | `TunDevice`, `TunSetup` |
| Network interface | `net_interface.c`, `protocols/ethernet.*` | `buffers`, `buffers_size`, partly under `mut_buffer` | `NetInterface` |
| Threads, exit | `main.c` | the process | `NetInterface`, `ArpCache`, `IpStack` |
| Hash table | `collections/hashmap.c` | none of its own | `Hashmap`, `Dictionary`, `HashmapIterator` |
| ARP cache | `protocols/arp.c` | `arp_cache` and the address cells, partly under `cache_mutex` | `ArpCache` |
| Handlers | `protocols/{arp,ip,icmp,tcp,udp}.*` | the thread's buffer | `IpStack` |
| Checksums | `utils/protocols.*` | none | `InternetChecksum` |
| Linked list | `collections/linked_list.*` | none | `LinkedList`, `Deque`; not linked into the program |
| Logging, commands | `utils/log.*`, `utils/runtime_utils.*` | none | not modelled: pure I/O |

How they interact: the handlers (`IpStack`) look up and change the cache
(`ArpCache`), which is a table (`Hashmap`), and send through the interface
(`NetInterface`), which uses the queues (`TunDevice`). `NetInterface` extends
`TunDevice`, and `ArpCache` and `HashmapIterator` extend `Hashmap`, so those
compositions are checked as they stand. `IpStack`, `ArpCache` and
`NetInterface` are three views of the same threads. `IpStack` has one thread
and every byte of the frames. `ArpCache` has several threads and every access
to the cache. `NetInterface` has several threads and every access to queues
and send buffers; to it a handler is the set `Requests` of the sends it makes,
or exits without one (`HandleExits`: `hashmap_get` missed an address that is in
the cache).

## 2. The modules

### TunDevice, NetInterface

One step is what another thread can see done at once: a critical section, or
one access to shared memory. `available` and `set_busy` hold `mut_status`
throughout and are one step each; choosing a queue and flagging it are two
steps, as in the code. `pc[t]` names the place in `net_interface_read`,
`net_interface_send` or `net_interface_destroy`; `fi`, `req`, `ptr` are the
locals `fi`, the arguments and `eth_header`.

`ensure_has_size` is two steps under `mut_buffer`. `EnsureHasSize` returns from
`calloc` or `realloc` (`realloc` extends a block in place or moves it and frees
the old one, at the allocator's choice); `StoreBuffer` stores address and size
and unlocks. `LoadBuffer`, `CopyType`, `CopyMac`, `CopyPayload` and `Hton` then
work on the block without the mutex. A heap block is named by its queue and
the size it was allocated for; since a buffer is only replaced by a larger one,
no name is used twice. `shared[t]` is a history variable: some other sender was
in the same queue's buffer during t's send.

`exit()` is `Exit`, one `Destroy` step per buffer while other threads run, and
`Destroyed`. A `realloc` of a freed block is undefined; the model lets it go
unnoticed or end the process (`ReallocOfFreed`).

The kernel (external) delivers frames to any queue, up to `Backlog` each.
`TunReadFails` is a `read()` that returns -1.

### TunSetup

`tun_init` and `tun_alloc`, one system call per step, each of which may fail.
`err` is a variable that may be read before anything was assigned to it
(`Unset`); what is then returned is any value.

### Dictionary, Hashmap

`Hashmap` is the open-addressing table with `Hash` a constant function, so every
pattern of collisions is an instance. `hashmap_indexof(k, j)` says that the
probing loop ends at `j`; no `j` satisfies it when the loop does not end. An
expansion is done slot by slot (`BeginExpand`, `ExpandMoves`, `ExpandSkips`,
`ExpandEnds`): `old`, `i` are the locals of `hashmap_expand`, and `todo` the entry
of the `hashmap_put` that called it. There are two specifications, for callers
that do not remove (`Spec`; the ARP cache is one) and that remove keys that are
present (`RemovingPresentSpec`; `test_hashmap.c` is one). `HashmapIterator` has a
third kind of caller, which also removes keys that are absent:
`hashmap_remove` decrements the size all the same.

`Dictionary` is what a caller who does not remove relies on: a set of entries, one
per key, from which nothing disappears but by clearing it. `Hashmap` implements it
under the mapping `entries <- Entries`, where `Entries` are the used slots and,
during an expansion, the old slots not moved yet. `ImplementsDictionary` also says
which call does what (`CallsTakeEffect`): a put changes the entry it is given, at
once or when the table has grown, and a step of growing changes none.

### HashmapIterator

The calls of the iterator on a table that its owner may change between calls.
`seen` and `returned` record what a pass over an unchanged table returned, and
`missed` how many removals of absent keys the size has not recovered from
(growing and clearing count anew). The iterator does not read the size, so to
save states absent keys are only removed while no iterator is set, and one is
only set when `missed` is 0.
`hashmap_it_next` and `hashmap_it_has_next` evaluate `array[index]` at
`index = capacity`, one past the end; the value has no influence on the result
and does not appear in the model.

### ArpCache

The table of `Hashmap` with several threads. `is_in_arp_cache` and `hashmap_put`
run under `cache_mutex` and are one step each, or several with the mutex held
when the table grows. `hashmap_get` is called without the mutex and is one step
per memory access: the capacity, the address of a slot, the slot, the address
again, the value. A slot can lie in the array in use, in the array being moved
or in one that is freed, where a read returns anything (`Element`). The stores
with which `hashmap_expand` installs the new array and then the new capacity are
taken in that order and as one step: a reader that comes between them sees the new
array with the old capacity, like one that had read the capacity just before. A MAC
address is two words, which `memcpy` writes and reads one after the other.
`owner` and `overlap` are history: whose cell it is, and whether the table grew
under a thread that was using it without the mutex.

`arp_destroy` frees one entry per step, without the mutex, while other threads
go on. Their first use of what it has freed (`UsesFreed`: a key that is
compared, a cell that is read or written) has no defined outcome, and takes the
process to `status = "undefined"`, where the model ends.

### Deque, LinkedList

`LinkedList` is the heap of nodes with their pointers, a set of `struct
linked_list` and one iterator; `malloc` may return any address that is free.
`Deque` is what a caller relies on: a sequence per list, with pushes and pops at
both ends, concatenation and the removal of an element. `LinkedList` implements
it, a list being mapped to the contents met from its head, and `ImplementsDeque`
ties every call to its own list and end. Two functions leave
a list of which only a part works, and the caller in the model keeps to it:
`linked_list_concat` sets no `prev` pointer across the join (`joined`), and
`linked_list_it_remove` neither lowers the size nor corrects the next node's
`prev` (`removed`). A cursor whose node was freed is `Free`, and the iterator can
then only be reset or given another list. After the removal of the first element
the cursor is NULL and the pass is over (`FirstRemoved`).

### InternetChecksum, IpStack

Memory is 16-bit words as a little-endian machine loads them; every field of a
header is its word in memory, so a missing or doubled byte swap shows. The
handlers of one thread run to completion on its buffer and change it in place.
A read that fails (`ReadFails`) leaves in the buffer what the last handler left,
which is then converted and handled again. `net_interface_init` is `mac`: it
copies characters of the text. `ip_send` is called between frames with one of
the arguments in `Sends`; it composes a datagram with `ip_header_alloc` and
hands it to `ip_send_packet`, which broadcasts a request and exits when the
destination is not in the cache. `own` keeps what was asked for.

`ArpHeader`, `IpHeader`, `IcmpMessage`, `TcpSegment` and `EthHeader` are the
structs of the protocol headers, with the fields' widths. A frame is as long as
its headers say (`WellFormed`), and the datagrams of `ip_send` fit the length
field.

The module's own definitions of checksums (`sum16`, `internet_checksum`) are
compared with the definition of RFC 1071 (`OnesComplementSum`, `Intact`), which
is the one the frames of `MCIpStack` are composed with.

## 3. The runs

Passing runs:

| Run | Instance | Shows |
|---|---|---|
| `net_interface` | 2 threads, 2 queues, an echo reply and a smaller ARP request whose sender exits, exits without a request, fair | no busy flag is left behind; `available()` always finds a queue; the threads never all wait on queues other than the first; the recorded size of a send buffer is real and stays what `ensure_has_size` promised, also while buffers are being freed; a frame is sent as composed unless another sender was in the same buffer; every `net_interface_send` returns or the process ends |
| `hashmap_dictionary` | 5 keys, 2 values, capacities 4 to 16 | the table is a dictionary, call by call; lookups agree with the entries; the size is exact and every probe ends; the capacity stays a power of two |
| `hashmap_iterator` | 3 colliding keys, removals of present keys and one of an absent key, skips up to 2 | probes end while the entries the size misses leave a slot; growth never nests; a pass of the iterator over an unchanged table returns every entry once, whatever the order of calls |
| `arp_cache` | 2 threads, 7 frames of 3 hosts, one growth, exits | what is merged or answered is in the cache; the unlocked get never reads past the end of an array; unless the table grew under a reader, an unlocked get returns a cell of its own key, an echo reply goes to its own host, and no cell is freed twice |
| `arp_liveness` | 2 threads, 6 frames, two of them echo requests, fair | every frame is dealt with: `cache_mutex` is always released |
| `stack` | 1 thread, ARP, ICMP, TCP, UDP, other frames, valid and corrupted, and calls of `ip_send` | replies have both checksums right, answer the request and are sent once; a datagram of `ip_send` is what was asked for; `sum16` is the RFC 1071 sum |
| `tun_setup` | 24 queues, every call failing or not | a failed `tun_alloc` leaves no queue open; `main` goes on with all queues only |
| `linked_list` | 2 lists, 4 nodes, 2 contents, skips up to 2 | each call changes its own end of its list, as a sequence; back links mirror the list unless it was joined or removed from; the size is the length, or one more after a removal; no node leaks or is shared; a pass of the iterator is in order, also when elements are appended before it is at the end, or one other than the first is removed on the way; removing the first ends it |

Runs in which TLC finds a counterexample, each a disagreement between the code
and what an assertion, a message or a test says of it (quoted under "findings"
in `PROJECT.json`):

| Run | Counterexample |
|---|---|
| `hashmap_lost_key` | removing a key hides another one that had collided with it |
| `hashmap_size` | removing an absent key lowers the size, which is then not the number of elements in use |
| `arp_assert` | the unlocked `hashmap_get` misses a cached key while the table grows, and the `assert` after it fails |
| `stack_tcp_checksum` | a correct TCP segment from 10.0.0.253 is dropped: the 32-bit sum overflows |

Some limits of the code show in how the properties that do hold are stated:

* Two senders can get one queue, so `IntactUnlessShared` excludes a sender whose
  buffer was shared; it may send a mixture, or write to a block another sender's
  `realloc` has freed.
* Two readers can block on one queue while a frame waits on another, so there is
  no property that every frame is read; `FirstQueueHasReader` is what is left.
* `hashmap_get` without the mutex can read an array that is being replaced, so
  `GetsOwnCell`, `SentToHost` and `FreedOnce` exclude runs in which the table
  grew under a reader (`overlap`). `arp_assert` shows one that they exclude.
* The size of a table falls behind with every removal of an absent key, so
  `ProbesEndDespiteMisses` has a condition on how many there were.
* `linked_list_it_remove` of the first element leaves the iterator with no node, so
  the rest of the list is not returned; `PassInOrder` states this case apart.
* Joined lists and lists with a removal are excluded from `BackLinksMirror`, and
  `SizeIsLength` allows for one element after a removal.
* A MAC address can be rewritten while it is copied, so `SentToHost` speaks of
  its words and not of the whole.
* `tun_alloc` can return 0 after a failed `open()`, as `ReturnErr` models. That
  `main` still only goes on with all queues (`RunsWithAllQueues`) is because the
  name of the device is then missing and bringing the interface up fails.
* `net_interface_init` copies characters of the MAC address's text (`mac` in
  `IpStack`), and `tcp_receive` takes its control bits from a field in network
  order (`control_bits`). Both are modelled so; no property is about them.

### Bounds

* Two threads are enough for every pairwise race (a buffer, a cell, a table
  shared by two). The code has as many threads as queues, and so have the
  instances. The argument for `available()` counts threads against queues; that it
  holds for any number of them is proved (section 4), where there is no such bound.
* `Backlog` = 1: one waiting frame is enough to enable or block a `read()`.
* Two sizes of request let a buffer be allocated, kept, and grown by either thread.
* `MCHash` makes keys collide at capacity 4 and, some of them, at 8. In
  `hashmap_dictionary` one key sits at the end of the array, so that probing wraps
  around; in `hashmap_iterator` the keys gather at its start, so that growth has
  moved all of them before its loop ends.
* `InitialSizes` covers a request below `MinCapacity`, one below and one above a
  power of two. `MaxCapacity` bounds explicit calls of `hashmap_expand`;
  `hashmap_put` grows the table whenever it must. `MinCapacity` is 4 where the
  code has 16, so that growth needs few keys.
* `arp_cache`: three hosts fill a table of 4 to 75 per cent, so the next
  `hashmap_put` grows it, while other frames are being handled. The hosts
  announce different addresses, and one frame is not supported. One host that is
  heard again moves to the upper half of the grown table, so that an index of the
  larger array would be out of the smaller one. Each frame
  arrives once. The five cells of `Values` are as many as such a run can need.
  `arp_assert` leaves out the echo request and the unsupported frame;
  `arp_liveness` has one host heard again and echo requests from two hosts.
* `hashmap_iterator`: `MaxMissed` = 1. At capacity 8, which the table reaches by
  growing, one miss is the most that the condition of `ProbesEndDespiteMisses`
  allows; at capacity 4 it allows none. Removals cut probe sequences, so a key can
  be stored twice and three keys can load the table beyond three slots. With
  absent keys removed under a set iterator too, the instance has 1.2 million
  states and also passes, but takes longer than a run should.
* `linked_list`: four nodes are enough for two lists of two to be joined, and for
  a node with neighbours on both sides to be removed and its address reused.
* `stack`: the identifiers, sequence numbers and data of echo requests are chosen
  at the edges of the carry (0, 1, 255, 256, 32768, 65527, 65535). Some have one
  byte of data, so that `sum16` adds a left-over byte.
* `tun_setup` has more queues than the build (10); the number of states grows
  linearly with it.
* Symmetry is used in the safety runs only: on threads, and in `linked_list` on
  nodes and contents. No definition tells them apart.

### Fairness

`FairSpec` and `ArpFairSpec` assume weak fairness of each thread's step: the
scheduler runs a thread that can run. A thread blocked on a mutex or in `read()`
is not enabled, and nothing makes frames arrive or reads fail. Weak fairness is
enough for a mutex in `net_interface` and `arp_liveness` because a thread uses it
a bounded number of times before it waits for a frame again and the frames of
`arp_liveness` are finitely many. In `net_interface` a thread can only be overtaken
at `mut_buffer` while a buffer is still too small, which happens finitely often.

Deadlock is checked in every run. The steps `Terminated`, `Stopped`, `Exited`
and `SetUp` are the stuttering of a process that has ended, or whose threads all
wait for frames that will not come.

## 4. The proofs

All theorems hold for every value of the constants that satisfies the named
assumptions: `TunAssumption` (at least one queue, at most what an `int8_t`
counts), `ThreadsAssumption` (finitely many threads, no more than queues),
`DataAssumption` (requests are well-typed, the placeholders are distinct),
`HashmapAssumption` (the least capacity is a power of two, at least 4),
`ArpAssumption` (frames are well-typed, the placeholders are distinct),
`SetupAssumption`, `StackAssumption` and `StaleAssumption` (see StackProofs
below). The runs evaluate them.

**NetInterfaceProofs**

* `TypeCorrect`: `[]TypeOK`. `TypeOK` alone is not inductive: what is written to a
  frame is only a frame if the sender has arguments. `TypeInv` adds `LocalsOK`.
* `BusyFlagsAreHeld`: `[]BusyIsHeld`. Two threads may hold one queue, and the
  first to finish clears the flag for both, so the proof rests on `QueueInv`:
  whoever is between `set_busy(true)` and `set_busy(false)` has a queue.
* `AvailableSucceeds`: `[]AvailableNeverFails`. If all queues were flagged, each
  would have a holder; a thread that calls `available()` holds none, so fewer
  threads than queues would hold them all. This is a counting argument with
  an injection from queues to holders.
* `FirstQueueIsServed`: `[]FirstQueueHasReader`. A thread that is given a later
  queue found the first one flagged, so by `BusyIsHeld` some thread holds it; if
  all threads wait for frames, so does that one, on the first queue.

**NetBufferProofs**

`BufferInv` is the inductive invariant, in four parts. `TypeInv`. `GrowthInv`:
`mut_buffer` is held exactly between `realloc` and the store (`MutexInv`), a
queue's block is named for at most its recorded size (`BlockInv`), and what is
about to be stored is a live block of the new size (`StoreInv`); with these go
`EnsuredSize` and `SizeIsReal`. `CopyInv`: a sender writes to blocks of its own
queue (`LoadedInv`), two senders in one buffer both know it (`SharedInv`), and a
sender that is alone works on the queue's present block, which holds what it has
copied so far (`FrameInv`). `ExitInv`: buffers are only freed once the process is
exiting. The steps that leave the blocks where they are come first, then the two
halves of `ensure_has_size`, and from the invariant

* `SizeStaysEnsured`: `[]EnsuredSize`,
* `RecordedSizeIsReal`: `[]SizeIsReal`,
* `UnsharedFramesAreIntact`: `[]IntactUnlessShared`. Sharing a queue is the
  only way a frame can be spoiled.

**HashmapProofs**

`LookupInv` = `TypeOK`, `Reach` (the probe for the key of a used slot ends at
that slot) and `OldInv` (during an expansion no key is in the old array twice,
and the new one only holds entries already passed). From it:

* `HashmapTypeCorrect`: `[]TypeOK`, in the middle of an expansion too,
* `LookupsFindEntries`: `[]LookupsAgree`,
* `HashmapImplementsDictionary`: `Spec => ImplementsDictionary`, for every hash
  function, key set and capacity, call by call (`StepsTakeEffect`): no step of
  `hashmap_expand` loses or changes an entry.

**HashmapUseProofs**, first for callers that remove present keys only

* `SizeIsExact`: `[]SizeCountsUsed`,
* `TableIsNeverFull`: a slot is unused in every state,
* `GrowthNeverNests`: `[]ExpansionNeverNests`,
* `ProbingEnds`: `[]ProbesEnd`. A probe sequence goes through the whole table
  (`ProbeReaches`), so it meets the unused slot; the first index at which it does
  not collide exists because the natural numbers are well-founded.
* `AddingProbesEnd`: the same for callers that never remove (`Spec`).

The invariant `SizeInv` adds to the size that the table is below its capacity
and that, in the loop of `hashmap_expand`, at most one entry was stored per
iteration (`LoopInv`).

* `CapacityStaysPowerOfTwo`: `[]CapacityIsPowerOfTwo`, for every initial size. The
  loop of `highest_bit` ends because `pow2[e]` exceeds `e`.

Then for a table with an iterator whose owner also removes absent keys. `ItInv` is
`ItTypeOK`, `EveryEntryOnce`, the bounds of the size without its being exact, and
that the used slots exceed the size by `missed`. `EveryEntryOnce` is inductive once
the table's type is known: what was returned is what lies behind the iterator, and
each call moves over one used slot and any number of unused ones.

* `IteratorTypeCorrect`: `[]ItTypeOK`.
* `PassReturnsEveryEntryOnce`: `[]EveryEntryOnce`, on which `arp_destroy` relies.
* `ProbingEndsDespiteMisses`: `[]ProbesEndDespiteMisses`; what the size misses fits
  into the part of the table that the load factor leaves unused.
* `GrowthNeverNestsDespiteMisses`: `[]ExpansionNeverNests`.

**ArpCacheProofs**, for any number of threads and any frames

The inductive invariant `ArpInv` is `LookupInv` and, per thread, `HasData` (a
thread past `read` has a frame, one that writes or puts has a cell), `InBounds`
(the unlocked `hashmap_get` stays inside the array it looks at, through any
number of expansions), `Expanding` (a thread that grows the table holds the mutex
and puts the key it handles), `KeyCached`; and `LockInv`: while the mutex is free,
nobody is growing the table, and its holder is. Steps that leave the table alone (`Quiet`) are
separate from those under the mutex (`Advances`).

* `CacheTypeCorrect`: `[]ArpTypeOK`.
* `MergesWhatIsCached`: `[]MergedIsCached`.
* `UnlockedGetStaysInBounds`: `[]ReadsInBounds`, from `InBounds`. It rests on the
  order of accesses: `hashmap_expand` installs the larger array before the larger
  capacity, and `hashmap_indexof` loads the capacity before the array.
* `CacheIsHashmap`: `ArpSpec => Spec`. The mutex makes the shared cache the table
  of `Hashmap` used by one caller. Hence `CacheImplementsDictionary` and
  `CacheLookupsAgree`, by the theorems of `HashmapProofs`; and by
  `AddingProbesEnd` every lookup under `cache_mutex` ends.

**ArpCellProofs**, for the same system

`CleanInv` says that one thread at most is in `arp_destroy` and, unless the table
grew under a reader, `CellInv`. Its parts are: the unlocked `hashmap_get` has only
passed slots that hold other keys (`OnTrack`); threads and entries have cells of
their own key (`HoldsOwn`, `EntriesOwned`); cells hold words their owner announced
(`CellsFilled`); what `arp_destroy` has freed lies behind its iterator
(`Behind`). The argument for `OnTrack` is that slots in use keep their keys while
the table does not grow (`Stability`), and that the key, being in the cache, is at
the end of its probe sequence.

* `UnlockedGetFindsCell`: `[]GetsOwnCell`.
* `RepliesGoToHost`: `[]SentToHost`.
* `CellsAreFreedOnce`: `[]FreedOnce`.

**TunSetupProofs**, for any number of queues

* `SetupTypeCorrect`, `AllocLeavesAllOrNone`, `MainHasAllQueues`: `[]TypeOK`,
  `[]AllOrNothing`, `[]RunsWithAllQueues`. `FilesInv` says for every place of the
  two loops of `tun_alloc` which queues are open: those below the index while
  they are opened, those up to it while they are closed again.

**StackProofs**, for any frames and any calls of `ip_send`

The checksum first. `Total` and `fold` are recursive functions; that they exist and
satisfy their equations is proved in the module (`RecursionExists`), and facts about
all their values by induction in the form of a set of natural numbers that contains
0 and is closed under successor (`InductiveSet`).

* `Sum16IsOnesComplementSum`: `sum16` is the sum of RFC 1071 for every sequence of
  words. One step of the carry loop keeps the value modulo 65535 and makes it
  smaller, so the loop ends with the one representative that fits 16 bits.
* `SumFitsRegister`: the `uint32_t` that `sum16` adds up in does not overflow for up
  to 32768 words.
* `ChecksumAccepts`: `internet_checksum` is 0 exactly for what a receiver accepts.
* `ChecksumSeals`: with the result stored in the field that was 0, it is accepted.

Then the handlers. The inductive invariant `StackInv` adds to the properties below
what the buffer holds at every place of the program (`BufferType`, `Stage`). Between
two frames it holds a frame as it arrived, or converted once or twice, or a reply that
was sent; `IcmpStage` and its companions relate each of these to `request`. It is
needed because a failed read converts the buffer again: only what the last handler
left there tells that a second round cannot answer once more.

* `StackTypeCorrect`: `[]TypeOK`.
* `AnsweredAtMostOnce`: `[]AtMostOneAnswer`. Once it was answered the buffer
  holds a reply, which no handler takes for a request in either byte order.
* `EchoRepliesAnswer`: `[]EchoAnswersRequest`.
* `EchoRepliesAreIntact`: `[]RepliesAreIntact`, from `ChecksumSeals`.
* `SendsWhatIsAsked`: `[]SentAsAsked`, for payloads of any length that fits.
* `CheckedSumsAgree`: `[]SumsAgree`, from `Sum16IsOnesComplementSum`.

They rest on `StackAssumption` (types; frames are `WellFormed`; lengths given to
`ip_send` fit 16 bits, which the code leaves to its caller) and on `StaleAssumption`.
An echo request with a wrong ICMP checksum stays in the buffer in host order. If the
next read fails, `ip_receive` checks that header. Its checksum is right in this order
too when the sum of the swapped words (the addresses and the length) is divisible by
257, which is the case for about one combination of addresses and length in 257. The
length is then converted a second time, and `icmp_check` goes by a length that is not
the message's. What it reads there is outside the model, so the assumption is that no
corrupted echo request has such a header. It is a real restriction: the theorems say
nothing of hosts and lengths for which it fails.

Only model-checked: liveness (`SendReturns`, `FramesAreHandled`), which is out of
the prover's reach; and `LinkedList` with its refinement of `Deque`, whose lists
are walks along pointers. A proof about them needs the walk of every list as a
sequence that the steps change at its ends, and is the next one to do.

## 5. What is not modelled

* Logging, and the formatting of commands and addresses: pure I/O.
* `free_linked_list`, which calls `linked_list_pop`; there is no such function, so
  it would not link.
* Popping a joined list at its tail or removing from it, until it was emptied; and
  popping, joining or removing again from a list from which the iterator removed
  an element. These rely on `prev` pointers and a size that are no longer right.
* What happens after the first use of memory `arp_destroy` has freed, which is
  undefined. `NetInterface` does go on after `free`.
* Frames longer than the buffer of `process_io`, and IP length fields below 20,
  for which the checksum code reads outside the frame.
* A `calloc`, `malloc` or `realloc` that fails; the code never tests for it.
* Signals: SIGINT ends the process.

## 6. Plan

In this order:

1. Proofs of `LinkedList`: the inductive invariant is that each list has a sequence of
   nodes, disjoint from the others', that the `next` pointers follow.
2. A composition of `ArpCache` with `NetInterface`: an echo reply whose address
   is changed in the cache while the frame is composed in a shared buffer.
