# A TLA+ verification project for Kextgizmos

Kextgizmos is a collection of small pieces of C and C++ for macOS kernel
extensions. They have no common runtime: a kext copies the files it needs.
"The system" here is therefore each gizmo together with what calls it: threads
that run through it concurrently, a user-space client that calls into the
kernel, a device that answers configuration reads. Each gizmo with logic of
its own has a module; what it uses of IOKit and libkern (reference counts, IOLock,
`createMappingInTask`, the checks of `IOUserClient::externalMethod`) is
modelled by its effect, as far as the code relies on it.

## 1. Inventory

| Component | Source | State it keeps | Operations | What is hard about it |
|---|---|---|---|---|
| Profiling probes | `profiling.h`, `profiling.cpp` | `dj_profile_probe`: two sample counters, a sum, a 128-bit sum of squares in two words, minimum, maximum | `dj_profile_sample` (any thread, no lock), `dj_profile_iouc_export` (copies an array of probes to user space) | Seven separate atomic updates per call; two compare-and-swap loops; a carry between words; a reader that retries |
| Reference-counted lock | `DJTLock.hpp`, `DJTLock.cpp` | an `IOLock *`, the `OSObject` retain count | `init`, `free`, guards (constructor and destructor), `sleepWithDeadline`, `wakeupSleepingThread` | The lock must outlive guards while its owner lets go; a guard's thread gives the lock up inside the guard's scope |
| User client external methods | `userclient.hpp` | compile time: the argument templates' accumulators; run time: one call's arguments and two mappings | counting templates, `arg_seq_accum`, `djt_dispatch_methods`, `external_method`, `map_struct_arguments`, `apply_fn` | Six templates have to agree on every signature; no index is checked at run time; a mapping may fail |
| PCI interrupt scan | `iopcidevice_helpers.*` | two ranges and four flags | `djt_iopcidevice_find_interrupt_ranges` | Interleaved kinds of interrupt, malformed devices |
| PCI capabilities, BARs | `iopcidevice_helpers.*` | none (the device's configuration space) | first and next capability, `djt_iopcidevice_memory_range_type`, `djt_iopcidevice_register_for_range_index` | Pointers and register values are the device's, which may be removed between two reads; 64-bit registers take two slots |
| Dictionary utilities | `osdictionary_util.*` | the dictionaries passed in | number, string and boolean setters, merge, logging | Who owns the object a setter creates; unchecked allocations, a dropped result; a fixed buffer |
| Code signing of a process | `security.*` | none | `djt_task_check_security`: the text vnode of a process, its code-signing blob | The process execs or exits and vnodes are recycled meanwhile; two version switches that must agree |
| DriverKit method queue | `dext_external_method_queue.*` | a queue registered with a user client | `DJTUserClientExternalMethodQueueFixup`: registers the default queue a second time | The order of registration that the header explains; references when a call fails |
| DriverKit user client helpers | `dext_userclient.*` | a CoreFoundation dictionary | `djt_user_service_matching` | Which keys match |
| Retain count tracing | `osobject_retaincount.h` | none | `taggedRetain`, `taggedRelease` with a log line | The count that is logged may be stale |
| USB matching | `iokit-matching-usb.*` | a CoreFoundation dictionary | builds matching dictionaries | Which combinations of fields match; ownership |
| Registry property readers | `ioreg_property_util.*`, `DJTRegistryEntryProperties.*` | none | copy or read one property | Ownership, type checks |
| Mach port conversion | `iokit_mach_ports.*` | none | one private IOKit call | nothing to model |
| IOReturn names | `ioreturn_strings.*` | none | code to string | nothing to model: wording only |

Interactions: `dj_profile_iouc_export` is an external method, reads probes other
threads update and may itself be wrapped by `userclient_method`; the lock is used
by any number of threads of a kext through guards; `djt_dispatch_methods` hands a
call to `IOUserClient::externalMethod`, which calls back the wrapper of the table
entry. No gizmo calls another one, logging aside.

What makes each correct: a probe's statistics are exact once its calls have
returned, and its export is worth what the caller takes it for; a lock is freed
once, after its last guard; a method reads only what was checked and mapped, and
mappings are released on every path; an interrupt index is reported once and in
the right range; a walk over capabilities sees the device's list and ends; a
reference is held for exactly as long as somebody uses it, whichever call of a
sequence fails; what is read of a process, a registry entry or a device belongs
together although it changes meanwhile. `PROJECT.json` lists the hazards line by line, each with the
properties that would show it going wrong or the reason why none does yet.

## 2. Modules

| Module | Models | Composes |
|---|---|---|
| `SampleStatistics` | What the five statistics of a set of samples are, in words of size `W` | |
| `ProbePromise` | Abstract probe: calls begin and end, the statistics are exact when none is in progress | `SampleStatistics` |
| `ProfileProbe` | `dj_profile_sample`, one action per atomic access | `SampleStatistics`, implements `ProbePromise` |
| `ProfileExport` | `dj_profile_iouc_export` racing with the calls | extends `ProfileProbe` |
| `LockPromise` | Abstract counted lock: users join, enter one at a time and leave; it is destroyed without users | |
| `DJTLock` | The lock, its guards, sleeping and waking | implements `LockPromise` |
| `PCIInterruptRanges` | The interrupt scan, one action per branch of the loop body | |
| `PCIConfiguration` | The capability walk and the classification of base address registers, one action per configuration read, with a device that may be removed | `MCPCIDevice` composes it with the scan |
| `MethodArguments` | The argument templates, one action per partial specialisation | |
| `TypeListArguments` | The same for compilers without variadic templates | extends and implements `MethodArguments` |
| `UserClientCall` | One call of a wrapped method, from the selector to the return | extends `MethodArguments` |
| `ProcessCodeSigning` | The code-signing lookup, racing with exec, exit and the recycling of vnodes | |
| `DictionaryUtilities` | Setters, merge and logger of dictionaries, with retain counts and failing allocations | `MCSmallGizmos` |
| `PropertyReaders` | The three readers of registry properties, while a driver publishes others | `MCSmallGizmos` |
| `ExternalMethodQueue` | The queue fixup within the start of a user client, to its last method | `MCSmallGizmos` |
| `RetainTracing` | `taggedRetain` and `taggedRelease` by several threads | `MCSmallGizmos` |
| `MatchingDictionaries` | The USB and DriverKit matching dictionaries, and what they match | `MCSmallGizmos` |
| `DictionaryEntries` | A dictionary of one entry, and adding entries to one | |
| `*Proofs` | Theorems and proofs about the modules they extend: one per component, and one for all small gizmos | |
| `MC*` | Definitions for model checking only | |

Definitions keep the source's names where they have one. `PROJECT.json` maps
every definition to the lines it stands for. Definitions introduced by "Mutated
form of" are not part of any specification: each is a plausible bug of the
definition that follows it, and substituting it makes the property named in
`PROJECT.json` fail.

### Profiling (`ProfileProbe`, `ProfileExport`)

A variable per field of `dj_profile_probe`, and per call a program counter and
the locals `delta`, `seen` (the value a compare-and-swap expects) and
`delta_sq_hi`. `Enter` takes the duration (the difference of two clock readings,
modulo `W`) and increments `num_samples_1`; each further step is one atomic
access; `Finish` increments `num_samples_2`. A compare-and-swap loop is a load
(`MinIsLow`, `MinIsHigh`) and then `SwapMin` or `RetryMin`. The two words of the
sum of squares are updated by two steps with the carry in a local.

`ProfileExport` adds the exporting thread: the checks of the caller's buffer, the
number of probes that fit, the passes over the fields (the two words of the
squares may be read in either order), and the retry loop. Only one probe of the
array is tracked, the others are copied in one step: probes share nothing. The
variables `before` and `after` record which calls had returned when a pass began
and which had started when it ended; they exist for the properties.

### Lock (`DJTLock`)

`pc` follows the owner from `new` to its release and each thread through a
guard: retain, lock, the scope, unlock, release. `IOLockSleepDeadline` gives the
lock up and falls asleep in one step; a sleep ends by a deadline, an interrupt or
`wakeupSleepingThread`, in any order, and the thread must lock again. A guard is
only constructed while the owner has its reference, as the caller of
`DJTLockGuard` has to see to. After a release to zero, `free` is a separate step.

### Interrupt scan (`PCIInterruptRanges`)

The device is a function from indices to kinds, chosen at the start. The pairs
of flags `pin_started`, `pin_done` and `msi_started`, `msi_done` are one value
each. `warned` stands for the warnings, which are the only trace of an interrupt
that ends up in no range.

### User client (`MethodArguments`, `TypeListArguments`, `UserClientCall`)

A parameter type is what partial specialisation can see of it: `T`, `T*` or
`const T*`, with the name of `T`. `consumed` says how many parameters each
template is past; the templates are instantiated one after the other. An action
is a specialisation: its pattern is the guard, with the patterns that are more
specialised excluded, and what it contributes is the update. Templates that
compute `1 + rest` from the end of the list are modelled as adding from the front,
which commutes. A failing `static_assert` stops the instantiation; a type that
`sizeof` does not accept (the incomplete `struct ipc_port` behind a lone
`mach_port_t`) has size zero, so that the same check rejects it.

`TypeListArguments` differs where the code for old compilers does: selectors are
prepended to a list, a list is reversed item by item, and `apply_fn` picks by
index. Everything else is shared, and a refinement mapping turns the two half
lists into the selector sequence of `MethodArguments`.

`UserClientCall` starts when a class compiles. `Arrive` chooses the caller's
arguments freely: counts, sizes, descriptors (both at once, too), which async
members are set, whether the target has the right class. IOKit's comparison of
counts and sizes with the dispatch entry is external. Each direction of
`map_struct_arguments` may map, fail, or have nothing to map. `live` counts the
mappings in the kernel independently of the pointers `in_map` and `out_map`, so
that a leak or a double release shows. The state of a call is all on its stack:
calls do not interact, and one is enough.

### PCI configuration space (`PCIConfiguration`, `MCPCIDevice`)

A device supplies the status bit, the capabilities pointer, 256 bytes and the
low bits of six registers; `chain` and `roles` say what it means by them, and are
only read by the properties. `SurpriseRemoval` may come between any two reads;
afterwards every read returns all ones. The driver walks the list to its end and
then classifies registers, in any order and without end: `RegisterForRangeIndex`
or a register number of its own. Bits 1 and 2 of a register are kept in place
(`MaskedType`) and shifted (`ShiftedType`), since the difference between the two
is what decides. `MCPCIDevice` runs it beside the interrupt scan on one device;
each device is interesting in one respect only, because the helpers share no state.

### Code signing (`ProcessCodeSigning`)

A vnode stands for a file until nobody uses it; then it is recycled. `Exec`, `Exit`
and `Recycle` come at any time. `ReadTextvp` copies `p_textvp` without a reference,
`vnode_get` takes one, `ubc_cs_blob_get` finds the signature of whatever file the
vnode stands for by then, and each field is copied in a step of its own, from
memory that is something else should the vnode have been recycled. The kernel's
version is chosen at the start: both switches and the fall-through between their
cases are kept. Kernel structures are external; an unsigned executable ends in a
fault because the code reads through the null pointer.

### Small gizmos (`MCSmallGizmos`)

*Dictionaries:* a dictionary is a function with a capacity; retain counts are kept
next to it, and every allocation (a value, a copy, an entry, an iterator) may
fail. Where the code does not test the result, the model ends in a fault, and
where it drops it (`merge`), the state goes on. The logger is reduced to its
arithmetic: rows of sixteen bytes and a last line in a buffer of a hundred.
*Property readers:* the driver publishes while the reader runs; without a
reference, the memory of its copy may be anything. A number that does not fit
into an int is stored mutilated and reported as a failure, as `CFNumberGetValue`
does. *Queue:* the start of a user client whose class may replace its default
queue before the fixup, as the header demands, or after it. *Retain tracing:* the
count is read in one step and changed in a later one. *Matching:* the six
constructors are operators from arguments to dictionaries; `Matches` is IOKit's
comparison with a service, including the combinations of keys it accepts, and
`Describes` what the caller meant.

## 3. Runs

| Run | Question | Instance |
|---|---|---|
| `probe` | Is anything lost when calls interleave? Do the loops end? Does the code implement the abstract probe? | 3 calls, `W` = 8, clock readings 0, 2 |
| `export` | What is an exported copy worth? Does the export end although the calls need not? | 2 calls, 2 probes, 3 buffer sizes, 2 tries; fairness for the exporter only |
| `export_accepted_copy` | (violated) Is an accepted copy a snapshot? | as `export`, without fairness |
| `lock` | Can a guard lose its lock? Is the lock freed in the end? Does it implement the abstract lock? | 3 threads, 2 events |
| `pci_device` | Does the walk see what is there and end? Does a range get its type? Are the interrupt ranges right? | lists of up to 4 capabilities, 4 bytes of malformed ones, every layout of 3 neighbouring registers, up to 7 sources |
| `base_address_halves` | (violated) Is the upper half of a register refused? | the same devices |
| `interrupt_range_counts` | (violated) Is a range's length a count? | up to 7 sources |
| `method_arguments` | Do the templates agree on every signature? | up to 4 parameters of 11 types |
| `type_list_arguments` | Do the old templates equal the new ones? | up to 4 parameters of 8 types, and two signatures of each length up to 8 |
| `user_client_call` | Does a method only read what is there, and is everything released? | 7 signatures, `Word` = 4 |
| `process_code_signing` | Is what a lookup returns complete, and of one file? | 2 vnodes, 3 files, 7 kernel versions |
| `small_gizmos` | Are references balanced when calls fail? Do the readers return what was there, the methods have a queue, the dictionaries match? | 2 keys and 3 objects; 4 numbers; 2 queues; 3 threads; words of 2 values |

Why the bounds suffice. *Probe:* three calls are needed for one to fail a swap,
reload and fail again; with `W` = 8 the clock readings 0 and 2 give the durations
0, 2 and 6 (0 - 2 wraps around), the squares 4 and 36 wrap the low word together,
and 36 needs both words. *Export:* the same readings with two calls; 2 tries make
"accepted at once", "accepted after a retry" and "given up" different. The buffer sizes are none,
one slot and a half, and exactly two. *Lock:* one thread inside, one waiting and one
asleep at once; two events tell a wakeup from one for somebody else. *Interrupts:* seven sources
allow every sequence of up to seven alternations, more than the scan has states.
*Templates:* the longest pattern is three parameters, so that four cover a
pattern with a neighbour on either side, two pairs in a row, and every prefix of
a pattern cut off by the end of the list. Eight parameters are the most the old templates take, and the reversal and the
selection by index are what a longer list could upset. *Call:* mapped lengths below, at and
above `Word`, so that a size is exact, zero and truncated; inline sizes right,
wrong and absent; all of each direction's cases with all of the other's.

*PCI:* a chain of four has a first, a last and two neighbours, in every order,
one of them at the last legal offset; malformed pointers lead into the header,
to the end of the space, out of alignment and in circles. One register's type
depends on itself and on the one before it. *Code signing:* versions below, at and above each
case of the switches; a second vnode to exec, a third file to recycle a vnode
for. *Dictionaries:* two keys make a merge replace one and add one; data lengths
around one and two rows and the longest last line. *Readers:* numbers below, at
and above what an int can hold. *Tracing:* three threads with two references
each.

Deadlock is checked in `pci_device`, where the driver goes on for ever. It is
off elsewhere because the jobs are finite: calls return, a template
instantiation ends, an unchecked allocation ends in a fault.

The run of a proved module leaves out what the theorems of section 4 give
for every instance: the type invariants of the probe, the lock, the interrupt
scan, the templates and the call, the inductive invariants of the last three, and
the parts of `IInv` of the first two (`SumOfSquaresConserved`, `ExtremesOfPassedCalls`, `InsideHolds`).

### Fairness

* `ProfileProbe`: weak fairness for every step of a call that has entered; the
  kernel keeps scheduling a preempted thread. `Enter` has none: nothing makes
  code call a probe. `EveryCallReturns` is then a statement about the loops.
* `ProfileExport`: weak fairness for the exporting thread only. A call in
  `dj_profile_sample` may be preempted for ever, which is the case the retry
  bound exists for.
* `DJTLock`: weak fairness for each thread's own steps and for the end of a
  sleep, since a deadline passes; strong fairness for `unlock`, since a scope
  that sleeps repeatedly still ends, although each sleep disables the step. None
  for constructing guards, sleeping, waking or dropping the owner's reference,
  and no fairness among the waiters of an `IOLock`.
* `PCIConfiguration`: weak fairness for the driver, which is one sequential
  program; none for the removal of the device. `WalkEnds` is about devices that
  stay: a removed one reads 0xff for ever, an offset the walk takes for a
  capability, and a malformed list may be circular, as the code's comment says.

### What is violated

* `AcceptedCopyConsistent`. `profiling.h:83` speaks of an attempt at a consistent
  snapshot. The export loads `num_samples_1` first and `num_samples_2` last, in
  the order in which a call increments them. A call that was in flight at the
  first load and returned before the last makes them equal: the copy passes the
  test while its sum or an extreme is from before that call's update. What does
  hold is checked beside it: `QuietPassIsExact` and `CopyIsBracketed`.
* `RangeCountsItsKind`. `iopcidevice_helpers.hpp:64` says that the number of
  interrupts is the difference of a range's ends. On a device that lists pin,
  msi, pin, msi the scan warns about the second pin source, leaves the msi range
  open and extends it over that index. `ContiguousIsExact` says when the comment
  is right.
* `UpperHalfRefused`. The comment at `iopcidevice_helpers.cpp:108` says that the
  code checks that a register is not the second half of a 64-bit one. The test
  compares the type bits of the register before with the value they would have
  after the shift of line 119, which is that of the obsolete below-1M type: an upper half
  is given a type read off address bits, and the register after a below-1M
  range is refused. `RangeStartsRight` says what holds for all others.

Beside these, three things hold only in a weaker form than one might expect, and
the properties' comments say so: a code-signing result is of one file, which
need not be the one the process runs; a merge may not have begun and the caller
cannot tell; a device release of 1.00 or more cannot be matched by the
USB functions, whose parameter has eight bits.

## 4. Proofs

Each theorem below holds for all values of the constants under the assumptions
its module names; the runs show the same formulas on the instances above. Every
safety property and every refinement a passing run checks is a theorem here.

**Probe** (`ProfilingProofs`). Assumptions: `Calls` finite, `W`
a natural number of at least 2, clock readings any words. The safety properties are not inductive:
that the statistics are exact at rest says nothing about calls in between. `IInv` says,
for every intermediate state, which calls each statistic already covers: the
counters count the calls that started and that are done (`CountersCountCalls`),
the sum covers the calls past their addition, the squares are short by what
calls still owe to the high word (`SumOfSquaresConserved`), the extremes are
those of the calls past their loops, and a swap about to be tried expects a value
its call improves on (`SwapsWouldImprove`). Equal counters leave no call in
between, so that all the sets coincide. Proved: `ProbeInvariant`,
`ProbeTypeCorrect`, `CarriesAreConserved`, `ExtremesAreReal`, `ProbeExactAtRest`,
`ProbeExtremesOnlyWiden`, and the refinement `ProbeKeepsPromise`. The lemmas
on `SampleStatistics` give the sum over a finite set (the number of units,
so that facts about sums are facts about cardinalities and need no induction),
its step when an element is added, and the arithmetic of the carry.

**Export** (`ProfilingProofs`). For any numbers of calls, probes and tries and any buffer
sizes; assumed are at least one probe, a positive slot size and at least one try. What
a copy is worth depends on everything that happened during its pass, so `ExportInv` keeps
`IInv` of the probe under it (an export changes no field of a probe) and says of every
intermediate point of a pass which fields are loaded and that each lies between
the calls that had returned when the pass began and those that have started
by now (`CountsBracketed`, `ExtremesBracketed`, `SumBracketed`); the upper end moves
with every call that enters, and is fixed with the last load. `QuietSoFar` says the same of
a pass no call has disturbed: what was loaded is still there, and at the last load the probe's
`ExactAtRest` applies. `SlotsInOrder` ties the buffer to the loop's index. Proved:
`ExportInvariant`, `ExportTypeCorrect`, `ExportWritesWhatFits`, `QuietPassesAreExact`,
`CopiesAreBracketed`.

**Lock** (`DJTLockProofs`). Assumption: finitely many threads. The invariant adds
that the retain count is the number of processes with a reference to drop, and
that one in `free` is alone. Proved: `LockInvariant`, `LockTypeCorrect`,
`InsideAlwaysHolds`, `LockAlwaysOutlivesGuards`, and the refinement `LockKeepsPromise`.

**Interrupt scan** (`PCIDeviceProofs`). For any number of sources. The
invariant is a disjunction of five phases (nothing seen, one kind only, one kind
after the other), each of which says what the ranges and the warnings are so
far. Proved: `ScanInvariant`, `RangesAlwaysDisjoint`, `NoneEverDroppedSilently`,
`ContiguousAlwaysExact`.

**Configuration space** (`PCIDeviceProofs`). For any devices whose registers are laid out as
the PCI specification has it (`DevicesAssumption`: an upper half is what follows a 64-bit
register, and the last register is not one) and any registers a driver may ask about, with a
removal between any two reads. That a walk follows the chain is not inductive: how far it has
got is not in the state, and after a removal it reads 0xff. `SeenFirst(n)` says that the first n
capabilities are visited and where the offset then is, `SeenPart` that there is such an n, and
`OffsetInChain` what remains of it once the device is gone. Proved: `ConfigInvariant`,
`OffsetsAlwaysLegal`, `WalkAlwaysFollowsChain`, `RangeAlwaysStartsRight`.

**User client** (`MethodArgumentsProofs`). For parameter lists of any length over any
types; assumed are only the five type names the patterns mention and that sizes
are natural numbers. That a selector's index is below a count is not inductive:
`IInv` says for every template which parameters it is past and what it has made
of them, against one definition of what a parameter is (`ScalarInputs`,
`ScalarOutputs`, `StructInputs`, `StructOutputs`), and that it never stands in
the middle of a group that another template keeps together (`Aligned`); the
scalars are numbered by the scalars before them (`Count`). The heart is in `GroupStep` and
`OneStep`: the three patterns cannot overlap, so that a template that matches
all three and one that only matches the async triple agree on every parameter
they both count. Proved: `ArgumentsInvariant`, `ArgumentsType`,
`LimitsAlwaysCoverReads`, `LimitsAlwaysTight`, `EveryElementAlwaysReadOnce`,
`ParametersAlwaysInOrder`.

**Type lists** (`TypeListArgumentsProofs`). For any signatures of at most eight parameters, the
code's own limit. The specification maps to `MethodArguments` by `Reverse(seq) \o reversed`:
a selector prepended to one list or moved to the other leaves this sequence as
`Append` makes it or unchanged. `Reverse` is a definition by index, so that its laws
(`ReverseConcat`, `ReverseMove`) need no induction. `ListInv` is the variadic
invariant under the mapping, and that nothing is turned round before
every parameter is described; with it each specialisation for old compilers is a step of
its variadic twin and each move is a stutter (`ListNextImplements`). The theorems of
`MethodArguments` then hold for the old dialect by instantiation: `ListLimitsCoverReads`
carries one over, and `ArgumentsAlwaysInPlace` adds the index arithmetic of `apply_fn`. Proved:
`ListInvariant`, `TypeListsImplementVariadic`, `ArgumentsAlwaysInPlace`, `ListLimitsCoverReads`.

**A call** (`UserClientCallProofs`). For any signatures, callers and lengths; assumed is that
every type is smaller than 2^32. The behaviours of a call are behaviours of the
templates (`CallImplementsTemplates`), so that the invariant above holds here too.
`CallIInv` adds, by stage, that a mapping exists exactly as long as `in_map` or
`out_map` says so (`MappingsInv`), that the pointer and size the method will be given
belong to each other (`BackedInv`), that the limits were compared (`CheckedInv`) and
that a struct of fixed size stays as it was checked through mapping, failing
to map and having nothing to map (`StructsInv`). A selector's index is below a
limit by `ReadsAreCovered`, and the limit is the caller's count by `CheckedInv`: this is
where the templates meet the run-time check. Proved: `CallInvariant`,
`CallTypeCorrect`, `NoMappingEverLeaks`, `StructSizesAlwaysBacked`,
`AlwaysReadsWhatWasGiven`, `FixedStructsAlwaysWhole`.

**Code signing** (`ProcessCodeSigningProofs`). For any vnodes, files and kernel versions;
assumed is that some file is signed and that the marks for "unset" and
"something else" are no files. The invariant says that the call's iocount is the
only one and on its vnode (`IocountInv`), so that a recycling cannot touch it,
and which fields each stage has copied (`FieldsInv`); `KernelsAgree` is the lemma that the two
switches know the same kernels. Proved: `CheckInvariant`, `InfoIsAlwaysOfOneFile`,
`TrueAlwaysMeansInformed`.

**Small gizmos** (`SmallGizmosProofs`), each for itself:

* *Retain tracing*, for finitely many threads with any numbers of references
  (`TraceAssumption`). `TraceInv` says that the retain count is the number of references,
  counted as pairs of a thread and one of its numbers so that a sum becomes a
  cardinality, and that a thread inside a call still has its reference: whoever logged a count of
  one has the only one, and nobody else can change it. Proved: `TraceInvariant`,
  `LastReleaseAlwaysLogged`.
* *Method queue*, for any queues (`QueuesAssumption`). `QueueInv` says at which statements
  each of the three references exists and that no override comes between the fixup's
  copy and its registration, which are within one start. Proved: `MethodsAlwaysHaveQueue`.
* *Property readers*, for any numbers and any range of an int (`NumbersAssumption`).
  `ReadInv` says what each statement of a reader can rely on: that its copy was published at
  some time, and that it has a reference as long as it looks at it. Proved:
  `AlwaysReadsWhatWasPublished`.
* *Dictionaries*, for finitely many keys, any objects and data of any length
  (`HeapAssumption`). `DictInv` adds to the counts which object a call has in hand (`InHand`),
  which part of a merge is done and that there is room for the rest (`MergeGoesOn`), and
  that each byte of the last line has six characters and the bracket four
  (`LastLineHasRoom`). One lemma says how the occurrences of an object change when an
  entry is set; the rest is the arithmetic of holders. Proved: `DictInvariant`,
  `CountsAreAlwaysHolders`, `AlwaysMergedAllOrNothing`, `LastLineAlwaysFits`.
* *Matching*, for any words and names (`WordsAssumption`: bytes fit into a byte). `MatchInv` says
  that the dictionary is that of the function called; the proof compares, for each
  constructor, its keys with the accepted patterns and its values with the description.
  Proved: `DictionariesAlwaysMatch`.

The inductive invariants of the export, the configuration space, the type lists and the small
gizmos were checked by TLC on the instances of section 3 before they were proved; no run lists
them, since the theorems say more.

Only model-checked: liveness (`EveryCallReturns`, `ExportReturns`, `FreedInTheEnd`, `WalkEnds`),
which the proof system does not reach. The three properties that are violated are, of course,
no theorems.

## 5. Not modelled, and the plan

Not modelled: `ioreturn_strings` and `djt_kprint_pci_config_space` (wording),
`iokit_mach_ports` (one conversion by a private interface), the clock behind
`dj_absolute_nanoseconds`, the build without `DJ_PROFILE_ENABLE`, the
`array_length` macro of old compilers (`userclient.hpp:1129`, whose quotient is upside
down: a constant, not a behaviour), `dj_iouserclient_map_input_struct` (declared,
not defined), what CoreFoundation does with null values, the offsets into kernel structures.

What is left:

1. carrying the remaining theorems about `MethodArguments` over to the type lists
   and to a call of either dialect;
2. statements between components that no single run composes: the export as the method
   of a `UserClientCall`, whose output structure is then of the size the wrapper was
   told of;
3. stronger statements of what is proved for one pass or one call, about several in a row.
