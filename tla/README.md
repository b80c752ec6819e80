# FBPCF in TLA+

This is a formal model of FBPCF (Facebook's Private Computation Framework), kept
beside its code. FBPCF lets two or more parties compute on secrets that none of
them may see: every secret is the sum (XOR) of *shares*, one per party; local
operations work on the shares alone, and products cost an exchange of messages
and a *multiplication tuple* that was generated beforehand.

The code paths below are relative to `src/fbpcf/`.

- Section 1 is the inventory: every part of the system, what it keeps and does,
  what is hard about it.
- Section 2 is the plan, and what of it is done.
- Section 3 describes the modules and how they correspond to the code.
- Section 4 describes the runs of TLC: what each shows, with which bounds.
- Section 5 describes what TLAPS proves.
- Section 6 lists what the model says against the code's own comments.
- Section 7 says what is not modelled and why.

`PROJECT.json` holds the same as data: components, runs, the source lines of
every definition (`map`), the mutants that show each property can fail, the
hazards and the theorems.

To run: `tlc -config X.cfg M` for a module `M` and its configuration, and
`tlapm M_proofs.tla` for the proofs.

---------------------------------------------------------------------------

## 1. Inventory

### The layers

    applications (src/example, mpc_std_lib)
        | operators on Bit, Int, BitString
    frontend            owns references to wires
        | IScheduler: one call per operation, WireIds in and out
    scheduler           lazy or eager; gate keeper, wire keeper, allocators
        | ISecretShareEngine: schedule..., executeScheduledOperations
    engine              shares, Beaver multiplication, opening
        |                                   |
    tuple generator                     engine communication
        | RCOT (oblivious transfer)         |
        +-------------------+---------------+
                            |
    party communication agents (in memory, sockets, TLS)

`io/` (files and cloud storage) stands beside these layers: applications read
their inputs and write their outputs with it.

### The parts

**Frontend** (`frontend/`). `Bit`, `BitString` and `Int` own one reference to
each of their wires: constructors and destructors call
`increaseReferenceCount` / `decreaseReferenceCount` of the scheduler. State: the
wire ids. Hard: copies, moves and self-assignment must neither lose nor double a
reference. Correct when the references held are those the wire keeper counts.

**Lazy scheduler** (`scheduler/LazyScheduler.cpp`). A call of the API only
records a gate; `maybeExecuteGates` then executes levels while the keeper holds
too many gates, and `executeTillLevel` executes them up to the level of a wire
somebody asks for. State: the keepers, the engine, statistics. Operations: every
call of `IScheduler` and `IArithmeticScheduler`. `executeOneLevel` runs all gates
of a level: `compute`, one exchange of messages for all of them, then
`collectScheduledResult`. Hard: values exist long after the call that asked for
them; each gate must find its own result among those of its level. Correct when
a caller cannot tell it from an eager scheduler.

**Gate keeper** (`scheduler/gate_keeper/GateKeeper.cpp`). State: a deque of levels
(`gatesByLevelOffset_`), the number of the first one (`firstUnexecutedLevel_`)
and a counter of gates (`numUnexecutedGates_`). Free (local) gates are on even
levels and gates that need the other parties on odd ones. Operations: the four
gate-creating calls, `batchingUp`, `unbatching`, `popFirstUnexecutedLevel`,
`hasReachedBatchingLimit`. Correct when each gate is on a level of its kind, after
those its operands come from, and the counter is exact.

**Gates** (`scheduler/gate_keeper/*Gate.h`). One class per kind: normal,
composite, arithmetic, their batches, and the (un)batching gate. State: type,
operands, outputs, and the index of the result in the engine
(`scheduledResultIndex_`). A gate holds a reference to every wire it names, from
its constructor to its destructor.

**Wire keeper** (`scheduler/WireKeeper.cpp`). Reference-counted records of wires:
value, first available level, count, and for batches the expected size. Four
kinds of wires in four allocators. Correct when a record lives exactly as long as
somebody holds a reference.

**Allocators** (`scheduler/VectorArenaAllocator.h`, `UnorderedMapAllocator.h`).
Ids for items. The arena reuses ids from a stack; the map never does. Correct when
an id in use gives the item last stored under it, and none is given out twice.

**Eager scheduler** (`scheduler/EagerScheduler.cpp`). Computes every gate at once.

**Plaintext schedulers** (`scheduler/PlaintextScheduler.cpp`,
`NetworkPlaintextScheduler.cpp`). No secrecy, for tests. The network one sends
inputs and outputs in the clear; its parties must make the same calls.

**Scheduler construction** (`scheduler/SchedulerHelper.h` and the factories). Wires
the objects together.

**Secret share engine** (`engine/SecretShareEngine.cpp`). State: queues of
scheduled AND, batch AND, composite AND, batch composite AND, mult and batch mult
operations, and the results of the last execution. Local operations on shares;
`executeScheduledOperations` takes tuples, exchanges masked operands and computes
the products. Hard: all parties must open the same things in the same order, and
each operation must get tuples whose other halves the peer uses for the same
operation. Correct when the shares of a product sum to the product.

**Engine communication** (`engine/communication/SecretShareEngineCommunicationAgent.cpp`).
Opens secrets: sends its shares to every peer and adds those it receives.

**Tuple generation for two parties**
(`engine/tuple_generator/TwoPartyTupleGenerator.cpp`, `engine/util/AsyncBuffer.h`).
A buffer of tuples for each of two kinds, refilled by a task in the background
while the main thread consumes. The tasks share the party's two RCOTs and take
turns in the order of a queue (`toGenerate_`, `scheduleMutex_`, `cv_`). Hard:
three threads per party, and both parties must generate in the same order or
every later tuple is wrong, silently. Correct when what the two parties are
handed are the two halves of one tuple, none is handed out twice, and nobody
waits for ever.

**Tuple generation for more parties, and of integers** (`TupleGenerator.cpp`,
`ArithmeticTupleGenerator.cpp`, `ProductShareGenerator.cpp`). Product shares with
every peer, summed to tuples, in the same `AsyncBuffer`.

**Oblivious transfer** (`engine/tuple_generator/oblivious_transfer/`). Base OT,
the IKNP and Ferret extensions, and the RCOT built on them, which buffers the
extender's output and extends again when it runs out. Correct when both ends hold
correlated blocks and the extender never runs out of the blocks it needs itself.

**In-memory communication agents**
(`engine/communication/InMemoryPartyCommunicationAgentHost.cpp`). A queue of
messages in each direction between two threads; `receive` collects its bytes
message by message, one lock per message. Correct when it is a byte stream.

**Socket communication agents** (`SocketPartyCommunicationAgent.cpp`,
`SocketPartyCommunicationAgentFactory.cpp`). Sockets with or without TLS; the
first connection agrees on the ports of the others. Hard: ports taken, retries,
partial reads.

**Engine utilities** (`engine/util/`). AES pseudo-random generators (one fills its
buffer in the background), maskers, bit arithmetic.

**Standard library** (`mpc_std_lib/`). Oblivious algorithms on frontend types.
*Permuter, shuffler, compactor*: an AS-Waksman network whose conditions one party
knows; both parties recurse on their own and must make the same inputs. *ORAM*: the
write-only one expands a tree of keys that are the same for both parties except on the
secret path; the linear one swaps a value through all places; an encoder gives tuples
consecutive indices and a decoder takes them back. *AES circuit*: AES on secret bits.
*Unified data process*: an adapter finds the rows two parties have in common, a data
processor encrypts all rows, picks and decrypts those, a row structure lays columns out
in bytes. *Matrix multiplication*: a product with secret labels by oblivious transfer.

**Input and output** (`io/`). Buffered readers and writers over local or cloud
files; multipart uploads to S3 and GCS with retries and abort; file managers.
Hard: chunk boundaries, failures half-way through an upload.

**EMP applications** (`mpc/`), **metrics, exceptions, common** (`util/`,
`exception/`, `common/`). Thin layers and helpers.

**Examples** (`src/example/`). The edit distance of secret words and guesses, and which
message it allows the guesser to read; the millionaires.

### The hard behaviours

`PROJECT.json` lists each at its line, under `hazards`, with the properties that
watch it. In summary:

- *Deferred execution*: reference counts held by callers, pending gates and
  executing gates together; levels, parity and the batching limit; indices noted
  before an exchange and used after it; sizes read from values not yet computed.
- *Reused ids*: the arena's stack.
- *Threads*: the turns and wake-ups of the background tasks, destructors that
  wait for them, the receiver that releases its lock between messages.
- *Two parties that must stay in step* without telling each other.
- *Failures*: parts of an upload that fail or whose answers are lost, reads that
  fail, exceptions that leave through destructors; ports that are taken, parties
  that give up or leave during the set-up; calls that throw half-way and leave
  wires behind. An RCOT or an engine that throws is listed and not modelled.
- *Boundaries*: widths of one bit, values at the end of a range, chunks and
  extensions that end inside a request, sizes that are not powers of two.

---------------------------------------------------------------------------

## 2. Plan

Done (in the order it was built):

| modules | model | against |
|---|---|---|
| `WireKeeper`, `Gates`, `GateKeeper`, `LazyScheduler` | the lazy scheduler and all it is made of | `EagerScheduler` |
| `EagerScheduler` | the eager scheduler | |
| `VectorArenaAllocator` | the arena | `Allocator` |
| `TwoPartyTupleGenerator` | background tuple generation by two parties | |
| `InMemoryPartyCommunicationAgentHost` | the in-memory agents | `PartyCommunicationAgent` |
| `SecretShareEngine`, `Tuples` | the engines of all parties, their messages and tuples | the meaning of a program on the secrets |
| `FileReaders`, `Files` | buffered files, transfers, uploads | the file's contents |
| `SocketAgents` | the set-up of agents over sockets | |
| `Frontend`, `PlaintextScheduler`, `Circuits` | values that own wires, over the plaintext scheduler | the values of the variables |
| `Adapters`, `Permuter`, `Oram`, `OramEncoder`, `Aes`, `AesCircuit`, `Transfers`, `UnifiedDataProcess`, `EditDistance`, in `Algorithms` | the algorithms of the library and an example | what each is to compute |

Left, in this order:

1. *Proofs*: the product theorem of `ProductShares`, for all shares and tuples.
2. *Failures of an engine or an RCOT* under a scheduler or a task that goes on.
3. *The network plaintext scheduler*, the calls of the plaintext scheduler on integer
   wires, `mpc/QueueIO`, the background buffer of `AesPrg`.

---------------------------------------------------------------------------

## 3. The modules

### The lazy scheduler: WireKeeper, Gates, GateKeeper, LazyScheduler

`WireKeeper` has no state of its own: it defines the operations of the class as
operators on a store, a function from the wires in use to records with the fields
of `WireKeeper.h`. A wire is any free id, which is the contract of `IAllocator`
that the allocators are shown to keep; the four allocators of the class never mix
ids, so one set `Wire` serves.

`Gates` has what each gate computes. A wire carries the *secret*, the sum of the
shares, in place of one party's share: the modules see one scheduler, and the
other parties are in the exchange (`Execute`). A value is a sequence, of length 1
when the wire is not a batch. A public operand is a secret too; that an operand is
public only shows in the type of the gate (`FreeAnd`), and the caller may choose
any. `RevealedTo` gives the party that asked the secret and the others zeros,
as the engine does.

`GateKeeper` has the deque of levels and its operators: how a level is chosen, how
levels are appended until it exists, how the gate takes references to its wires
and the counter goes up.

`LazyScheduler` composes them. Its actions:

| action | code |
|---|---|
| `Input`, `Open`, `And`, `CompositeAnd`, `Xor`, `Not` | the calls of the API that create a gate, up to their call of `maybeExecuteGates`; several functions of the API that differ only in types are one action |
| `forceWire` | `getBooleanValue`, `extract...SecretShare` and their siblings, up to the loop of `executeTillLevel` |
| `IncreaseReferenceCount`, `DecreaseReferenceCount` | the calls of the same names |
| `BatchingUp`, `Unbatching` | the calls; `batchingUp` executes levels first and creates its gate when it returns |
| `PopLevel` | one iteration of either loop: its condition and `popFirstUnexecutedLevel` |
| `ComputeGate` | `compute` of the next gate: a free gate sets its outputs, another one schedules its operation and notes the index, or adds its secrets to those to open |
| `Execute` | the engine's `executeScheduledOperations` and the `revealToParty` calls |
| `CollectGate` | `collectScheduledResult` of the next gate |
| `DestroyGates` | the end of `executeOneLevel`: the gates' destructors give their references back |
| `Return` | the call returns |

An exception ends the program (`phase = "thrown"`, no action is enabled). An index
that the code leaves uninitialised is any member of `UnsetIndex`. Two variables
belong to the caller: `handles`, the references it holds, and `ideal`, a history
variable with the values the caller's expressions have. The results of the engine
(`executionResults`) stay until the next execution, as they do in the code. The
engine is the one that generates composite tuples too
(`supportsCompositeTupleGeneration`), which is what two parties get.

### EagerScheduler

Both the model of the eager class and the abstract specification of a scheduler:
every call is one step on a store of values. The lazy scheduler's `ImplementsEager`
maps the store to `ideal` with the caller's references; what a get call
*returned* must then be what the eager scheduler returns, while the lazy one takes
it from its own wires.

### Allocator, VectorArenaAllocator

`Allocator` is what `IAllocator.h` promises. The arena has the class's three
fields, and `contents`, a history of what the caller stored. The template parameter
`unsafe` is a constant. The unsafe arena does not check its argument, so its caller
passes ids in use only, as the wire keeper does.

### TwoPartyTupleGenerator

Two parties with a main thread and the tasks of two buffers each.

| action | code |
|---|---|
| `Construct` | the constructors of the two `AsyncBuffer`s, which start a task each |
| `Begin` | the caller's next call; both parties run the same program (`requests`), made up as they go |
| `GetData` | one iteration of `AsyncBuffer::getData`: refill from the future and start the next task, or copy what there is |
| `Destroy` | the destructors, which wait for the task under way |
| `CheckTurn` | the task takes `scheduleMutex_` and looks at the front of `toGenerate_`, or sleeps |
| `WakeSpuriously` | a condition variable may |
| `BeginRcot`, `EndRcot` | the two RCOT calls of a task, in two threads |
| `EndTurn` | the task pops the queue and calls `notify_one` |

RCOT is seen from outside: the *i*-th run of a party's sender pairs with the *i*-th
run of the other's receiver. A sender waits for its peer; a receiver may wait or
not (the extensions differ), so the model lets it return at any time and only
counts on its return when the peer has run. A tuple is a place in a chunk, and a
chunk is known by the runs it was made in: two halves belong together when these
agree. Appending to the queue and starting the task are one step, because nothing
another thread does can come between them and matter: the new task may take its
first step at any later time, and the code appends before it starts.

`std::async` without a policy is taken to start a thread, as libstdc++ and libc++ do.

### SecretShareEngine, Tuples

Here the parties hold *shares*. All of them run one program, a sequence of calls of the
engine, each at its own pace. A call without messages is one step; the others go through
their exchange one send and one receive at a time.

| action | code |
|---|---|
| `Send`, `Receive`, `Constructed` | `exchangeKeys` in the constructor; the loops of `openSecretsToAll` and `openSecretsToParty` |
| `Input` | `setInput` and its siblings: masks drawn from a generator per peer |
| `Compute` | the local operations, symmetric and asymmetric |
| `Schedule` | `scheduleAND` and its siblings |
| `Execute`, `OpenIntegers`, `FinishExecution` | `computeAllScheduledOperations` and the `...Immediately` calls: bits are opened first, then integers |
| `Reveal`, `FinishReveal` | `revealToParty` |

The engine treats AND, batch AND, composite AND and batch composite AND in four loops,
before the exchange and after it. The module has the *elements* they all come to, in the
order of the loops: a left operand, the right operands of its tuple, and the stream the
tuple is taken from (`Elements`, `TuplesFor`, `OpenedAt`). Bits are integers modulo 2, so
that XOR is the sum and one set of formulas serves. A channel has room for `BufferSize`
values: a longer send blocks until the peer takes them.

`Tuples` says what a generator computes from the results of its transfers, for two
parties and for more. `Random(tape, place)` is the randomness; what is at one place is
the same whoever looks.

### FileReaders, Files

`FileReaders` has `BufferedReader` over a local or a cloud reader as operators on a
record, one chunk at a time. In `Files` a thread reads lines and blocks
(`readFile`, or a caller of its own), or transfers a file (`transferFileInParts`) into a
`BufferedWriter` over a local file, an S3 multipart upload or a GCS stream. Each request to
the store is a step; it succeeds, fails without effect, or takes effect and its answer is
lost. `Abort` may fail too. An exception goes through the destructors
(`pc = "destroy"`), which close what is open; a second one there ends the program.

### SocketAgents

Each party has a list of steps it goes through in order (`Program`): the sockets it binds,
the initial connections, and the agents `SecretShareEngineFactory::create` asks for. The
list is what the factories' code says, and which argument of a call is evaluated first
is a parameter (`rightToLeft`). The server of a connection binds the next port, or any
free one, and sends the number over the initial connection; the client waits for it. A
connection exists once a socket listens, before it is accepted. Constructors time out or
fail at any time unless the setup is `patient`. A party that reads from one that has left
fails an assertion, or, under TLS, reads for ever (`recvFromNobody`).

### Frontend, PlaintextScheduler, Circuits

The variables of a program and the wires they name. A statement is a step; its temporaries
are given back before it ends. `CopyAssign` and `MoveAssign` give the old reference back
before they take the new one, as the code does, so that a self-assignment may leave a
variable with a wire that has been freed (`selfAssigned`). `PlaintextScheduler` is
the scheduler under it, with the wires that a call leaves behind when it throws
half-way. `Circuits` has the gates of `Int` and `Bit`, on bits.

### Algorithms and the modules it runs

`Algorithms` has one step: it runs one algorithm on one input. The algorithms are operators
in modules of their own: `Adapters` (`Intp` and the conversions of `mpc_std_lib/util`),
`Permuter`, `Oram`, `OramEncoder`, `Aes` and `AesCircuit`, `Transfers`,
`UnifiedDataProcess`, `EditDistance`. Both parties are modelled together: an operator of
one party takes what the other sends. Where they compute the same thing separately, both
are there, each from its own code, and have to agree (`inputsOfOther` is what the party
that does not know the order of a permutation inputs).

### PartyCommunicationAgent, InMemoryPartyCommunicationAgentHost

`PartyCommunicationAgent` is the byte stream `IPartyCommunicationAgent.h` promises.
The host has the queue of messages of each direction and the receive under way at
each end: `Iterate` is one iteration of its loop under the lock, or the wait on the
condition variable; `Send` notifies. `takePart` does to a message what the code does
(see section 6). Each end is used by one thread: either sending or receiving.

---------------------------------------------------------------------------

## 4. The runs

Every property of a passing run has a mutant in `PROJECT.json`: a plausible slip in
one definition, under which TLC finds the property violated in the same run. The
mutated forms are defined next to the originals.

Deadlock is checked in `Sockets`. In the others the system may stop: a caller stops, a
program ends, an algorithm has given its answer.

### Lazy scheduler

| run | properties | what it shows |
|---|---|---|
| `Lazy` | `TypeOK` `RefCountExact` `TopologicalOrder` `ForceFindsLevel` `LimitFindsLevel` `LevelPurity` `BatchingLimit` `ExecutedValue` `OnlyEmptyAndThrows` `ImplementsEager` `CallsReturn` | bits, integers and batches of both on the same levels |
| `LazyEmptyAnd` | `ResultsStored`, violated | section 6 |

- `RefCountExact`: a wire's count is the number of references the caller and the
  gates hold, and the wire is in use exactly while there is one. A gate may name a
  wire twice; the caller may drop its reference while gates still need the wire;
  counts change when gates are created, destroyed, copied.
- `TopologicalOrder`: of two gates, the one that reads the other's output runs
  later; only free gates may be on one level with what they read, behind it.
- `LevelPurity`: free gates are on free levels and no others.
- `ExecutedValue`: a wire no gate has still to compute holds what the caller's
  expression says.
- `BatchingLimit`, `LimitFindsLevel`, `ForceFindsLevel`: the limit holds between calls,
  and neither loop takes a level from an empty deque.
- `OnlyEmptyAndThrows`: the AND of two empty batches is the only operation that
  throws. `BatchNormalGate::compute` returns early for it (`BatchNormalGate.h:128`) and
  leaves the index of its result unset: it is any member of `UnsetIndex`. In `Lazy` this
  is an index no result has (`UnsetHasNoResult`: a level has at most `MaxUnexecutedGates` + 2
  gates, and no more results than gates), and the engine throws. With an index that may be a result's, the wire receives the
  result of another gate: `LazyEmptyAnd` (section 6).
- `ImplementsEager`: the caller cannot tell.
- `CallsReturn`: a call always has a step to take, and every step brings it nearer to its
  end (`Remaining` decreases lexicographically), at every limit and for empty levels.

*Bounds.* `MaxUnexecutedGates` is 1 in place of 100000, so that the limit is met
all the time: by gates of one level and, as calls add several levels at once, of several.
Three wires are enough for a gate with two operands and an output, for an output that is
an operand of the next gate, and for a wire that is freed and reused meanwhile.
`MaxLevel` stops the creation of gates once that level has been executed; it does not
stop other calls, nor bound the levels ahead, which the number of gates does. One
stands for a free level and one with exchange, executed in one call or in several,
before gates are created that may go up to three levels further. Levels only ever
compare with each other, so later ones bring nothing new. `MaxRights = 2` is a composite
gate that is not a simple one. `MaxReferences = 2` and `Copied`, the integers: the caller
copies a reference to an integer wire and gives either back first; the counts
are the same code for every kind of wire.
`IntModulus = 4` stands for 2^64. Inputs are one or two values per kind, such that
AND, XOR and NOT have distinguishable results (integers 3 and 2; batches of two
different bits; the empty batch). `Wire` is a symmetry set: ids are only compared, every
`CHOOSE` is over indices, and both properties are of single steps.

### Allocators

| run | properties | what it shows |
|---|---|---|
| `Arena` | `TypeOK` `FreePartition` `GetReturnsItem` `SafeDetectsFreed` `ImplementsAllocator` | no block lost, none given out twice, items kept through growth and reuse, nothing found under an id that is not in use |

`Allocator` has what the last call answered as a variable of its own: an id given
out while in use would else look like a write to it.

*Bounds.* Chunks of two blocks (1024 in the code) and four blocks: the arena grows
while it is full, and frees in any order before and after growing. The run is of
the safe version, which does more when it frees; the proofs are of both. Two items.

### Tuple generator

| run | properties | what it shows |
|---|---|---|
| `TupleGenerator` | `TypeOK` `QueueExact` `Exclusive` `NoLostWakeup` `SameOrder` `Correlated` `UsedOnce` `RequestsAnswered` | the turns, the wake-ups and the tuples |

- `QueueExact`: the front of the queue exists whenever a task looks at it.
- `Exclusive`: the tasks of a party never use its RCOTs at once.
- `NoLostWakeup`: no task sleeps while it is its turn.
- `SameOrder`: paired runs are for the same kind of tuples, at both parties.
- `Correlated`: what the parties are handed are two halves of one tuple.
- `UsedOnce`: no tuple is handed out twice.
- `RequestsAnswered`: requests are answered and the destructors end.

*Bounds.* Buffers of two tuples and two requests for three, each of either kind: the
first request for a kind goes over from one chunk to the next and ends within it, a
second one starts within a chunk and ends at the end of one. The program may end at
any time: the chunks of the two kinds are queued in either order, and a buffer is
refilled up to three times.

*Fairness.* The threads get to run (`Main`, `Task`, `BeginRcot`), messages arrive
(`EndRcot` when the peer has made its run), and both parties carry on with the
program (`Begin`): a party whose peer stops between two requests may wait for the
peer's share of a run, so this assumption is needed. Spurious wake-ups have none,
so no answer depends on them. Deadlock is not checked: the program ends.

### In-memory agents

| run | properties | what it shows |
|---|---|---|
| `InMemoryAgent` | `ImplementsAgent` `ReceiveReturns` | a byte stream until a receive ends inside a message; a receive returns once enough was sent, also when it ends inside a message |
| `InMemoryAgentPart` | `ReceivesNextBytes`, violated | section 6 |

`ImplementsAgent` is about the steps before a receive ends inside a message (the history
variable `split`): section 6 says why.

*Bounds.* Three bytes in each direction, in messages of one or two and receives of up
to two (of zero too): messages that come before, during and after the receive that
takes them, several for one receive, and several receives.
*Fairness.* The thread in `receive` runs; nobody needs to send. `ReceiveReturns`
asks for an answer only when enough was sent.

### Engine

| run | properties | what it shows |
|---|---|---|
| `Engine` | `SharesSumToSecret` `RevealedIsSecret` `ProgramsEnd` | two and three parties, over channels that block |

- `SharesSumToSecret`: whenever all parties have a result their shares add up to what
  the program means: masks agree with the peers', the parties use halves of one tuple
  for one operation, and opened values and results are where both look for them.
- `RevealedIsSecret`: what is opened to a party is the secret, and the others get zeros.
- `ProgramsEnd`: the parties never all wait for each other, and leave no message behind.

*Bounds.* Three programs that between them use every call of the engine: composite
operations of two sizes between simple ones, so that tuples of several streams are taken
out of the order of the operations; batches next to single values; an operation computed
at once while others are scheduled; a second execution; asymmetric local operations.
`IntBits = 2` for 64. Three tapes of random numbers for two parties and one for three;
the formulas are the same for all, and a wrong place shows on any tape that tells the
places apart. `BufferSize = 1`: every exchange of more than one value blocks a sender that
nobody reads from.
*Fairness.* As long as some party's thread can run, one does.

### Files

| run | properties | what it shows |
|---|---|---|
| `Files` | `AnswersFollowFile` `StoredIsWritten` | reads in chunks, transfers with failures |
| `FilesUpload` | `UploadsEntireFile`, violated | section 6 |

- `AnswersFollowFile`: lines and blocks are the file's next characters, and the end is
  reported where it is, whatever the sizes of chunks and calls.
- `StoredIsWritten`: the object in the store is a prefix of what was written, whichever
  part failed or was sent twice; all of it when the caller's close reported success.

*Bounds.* All files of up to four characters over a letter and a new line: empty files,
empty lines, lines that end where a chunk does, last lines with and without a new line.
Chunks of one to three characters, reads of 1, 2 and 4; buffers of the writer of one to
three. `MAX_RETRY_COUNT = 3`, as in the code: two failed parts, each after several attempts.

### Sockets

| run | properties | what it shows |
|---|---|---|
| `Sockets` | `AgentsPaired` `SetupEnds` | the set-up of two and three parties |

- `AgentsPaired`: the two ends of a connection are for each other's party and for
  matching purposes: a sender of oblivious transfers never talks to a sender or an engine.
- `SetupEnds`: nobody waits for ever; without TLS nobody reads for ever; and when nothing
  fails every party gets its engine.

*Bounds.* Two and three parties; ports that are taken, ports of neighbouring connections
that run into each other, one host or several; with and without TLS; both generators,
one, or none; both orders of evaluation.
*Assumptions.* The ports agreed for the initial connections are not held by another
process (`InitialPortsFree`; section 7), and those served on one host differ
(`SocketsAssumption`). `AgentsPaired` further takes that no party on a shared host has left
(`PortsKept`; section 7). Such a process does not listen. Assertions are
compiled in. The parties run the same build.
*Fairness.* Every party's next step, when it has one, is taken: processes run and calls
return or time out.

### Frontend

| run | properties | what it shows |
|---|---|---|
| `Frontend` | `WiresHeld` `ValuesKept` | programs of two variables |

- `WiresHeld`: every wire is counted as often as variables name it, and no variable names
  a freed wire; the exceptions are the wires a call left behind when it threw (`lost`), and
  the state after a self-assignment of an only reference.
- `ValuesKept`: the wires of a variable hold the value it was given.

*Bounds.* Six kinds of programs: two Bits, a Bit with an Int, Ints of one width and of two
(signed and not: a cast repeats the sign or adds zeros), a Bit with a BitString. Batches of
one or two; an `Int` is given whole numbers, so the batches of its bits are of one size (those
of an `ExtractedInt` can be overwritten one by one: left out). A wire is named at most four
times (`MaxAliases`); six wires in all.

### Algorithms

| run | properties | what it shows |
|---|---|---|
| `Algorithms` | `CircuitsExact` `PermutationsExact` `MemoryExact` `TransfersCorrect` `RowsMatched` | each algorithm against what it is to compute |

- `CircuitsExact`: the circuits of `Int` are the operations on numbers modulo 2^width, for
  all operands of up to three bits; `Intp` is, or throws, at the ends of ranges that fill
  their native type or not; the S-box circuit is AES's for all bytes, and the AES circuit and
  its counter mode are AES; the edit distance is the cheapest order-preserving matching of
  letters, for all words of up to two letters out of three and many of up to four.
- `PermutationsExact`: all orders of up to five values, and both parties' inputs; shuffles
  permute, compactions keep what is labelled, and throw when nothing is: an exception is
  told from an empty result.
- `MemoryExact`: after two additions at any two places of memories of two to five, every way
  of reading gives the sum; encoded tuples get consecutive indices, those that pass the
  filters one each, and decode to themselves.
- `TransfersCorrect`: base, IKNP and Ferret transfers keep their correlation, the buffer
  hands out every result once, chosen transfers give the chosen message, the matrix product
  is right up to its rounding.
- `RowsMatched`: the adapter gives both parties the common rows in one order; the processor
  returns these rows after sessions in any order of batches; columns survive their layout.
  A session may lack a batch: its other rows are right and in their places. The session
  after it is left out, since the code leaves the missing rows in its map (section 6).
  Every call out of turn, and rows of another width than announced, are refused.

The references (`Right...`, `CheapestMatch`, `HeldAfter`) are written independently of the
code. Widths, keys and trees are small: eight bits for `uint64_t`, four for the keys of
the ORAM, words of three letters for fifteen; AES has its real sizes.

---------------------------------------------------------------------------

## 5. The proofs

The proofs hold for every value of the constants under the named assumptions of the
modules (`GatesAssumption`, `GateKeeperAssumption`, `LazySchedulerAssumption`,
`ArenaAssumption`, `TupleAssumption`, `HostAssumption`, `FilesAssumption`, `SocketsAssumption`,
`FrontendAssumption`): any
number of wires, gates, levels, operands and parties, any limits, any sizes. TLC evaluates the assumptions in the runs.

### LazyScheduler_proofs

`Invariance`: `Spec => []IInv`, and from it `TypeCorrect`, `ReferencesCounted`
(`RefCountExact`), `GatesCounted` (`GateCount`: the counter is the number of pending
gates), `ForceIsSafe`, `LimitIsSafe`.

The types alone are not inductive: `wires'` is in its type after `ComputeGate` or
`Return` only if the wires a gate or a call names have a record. They have one because
somebody holds a reference and the counts are exact; so `RefCountExact` is in `IInv`,
with what it needs: the sets of references are finite (their cardinality is what the
counts are compared with), and the wires of a call under way are held by the caller.
That the loops find a level needs `LevelsExist`: no wire waits for a level the keeper
has not created. For the gate counter the invariant includes that the set of pending
gates is finite.

The argument goes by places: a gate is known by its level and index, a reference by a
place and the operand's number. Creating a gate adds one place (`AddPlace`) and the
references it names (`AddReferences`); popping a level maps places one to one
(`PopMovesPlaces`, `PopReferences`); destroying gates removes the places of the running
level. Each operation changes the counts by the cardinality of what it adds or removes.
`Creation` covers all calls that create a gate, `QuietStep` the steps that touch neither
gates nor counts.

*The levels.* `OrderInvariance`, and from it `LevelsArePure` (`LevelPurity`) and `OperandsComeFirst`
(`TopologicalOrder`). A place is a level offset and an index, and offsets change whenever a
level is taken away; so the invariant `OrderInv` is about absolute levels
(`AbsoluteLevel`): a wire is available at the level of the gate that writes it
(`OutputsHere`), a gate is on a level at which its operands are available
(`OperandsBefore`) and of its own kind (`KindsApart`). `TopologicalOrder` is part of it:
two free gates on one level are ordered by when they were created, which no other part
remembers. `CreationPlace` says what creating a gate does, for all calls at once
(`CreatesGate`; a lemma per call shows that it is one of these), and `GatesStay` covers
every step that moves no gate.

`LimitKept` (`BatchingLimit`) needs its own small invariant `LimitInv`: only the call that
has just created a gate can be more than one over the limit.

*The values.* `ValuesAreRight` (`ExecutedValue`) and `ThrowsAreEmptyAnds` (`OnlyEmptyAndThrows`), under
`UnsetHasNoResult`: section 6 has what happens without it. The inductive invariant
`ValuesInv` follows a value through the gate that computes it. `PlacesCompute` says of
every pending gate that it has the shape its constructor gives it, and that what its
outputs are to hold is what the gate makes of what its operands are to hold. While its level is
executed, its request is at the index it noted in the engine's queue, or its secret in the
slice it noted of those to open; once the engine has run, the results are there
(`Underway`). That a gate reads right values when its turn comes is
`OperandsComeFirst`. `QueuesFit` and `GatesFit` bound the number of results, which is
what makes an unset index above that bound one without a result. The bound is the limit and
two: `batchingUp` looks at the limit before it adds its gate and may leave one too many, and
the next call looks after it has added another.

The values are sequences only because the operators of `Gates` make sequences of
sequences (`SequenceValues`), and two of those are folds of the community modules. `Total`
and `Concatenation` are shown to be recursive functions on finite domains, and those
to exist, by induction over numbers; so the proof knows that lengths add up and slices are where
the gate looks, for batches of any size and number.

*The refinement.* `LazyIsEager` (`ImplementsEager`): to its caller, a lazy scheduler is an eager one, for
every limit, program and interleaving of levels and calls. The mapping keeps of the state
what the caller holds: the wires it has references to, the values its expressions have, and
its own counts. A call that creates a gate is the eager call at once; `Unseen` is every step
of the loops, destructors included: they take wires away, but none the caller holds
(`NextHeldIsStored`, from exact counts). A get call is the eager one when it returns.
`ForcedValue` is the heart of it: by then every level up to the wire's has been executed
(`CallInv`), so no pending gate writes the wire (`OutputsHere`), so it holds what it should
(`ValuesInv`). `batchingUp` is eager when it creates its gate, with the operands it was
given before the levels ran.

### Induction

The library's theorems on induction over the natural numbers take an operator, which the
provers cannot instantiate, but a set can be a parameter: `NatInduct` gets induction from the
well-foundedness of finite sets under inclusion, applied to the intervals 1..n. The proofs
about values, about both parties' tuples and about parts of files rest on it. `Joins` shows
that the sequences of a finite sequence can be joined, and what is where in the result.

### VectorArenaAllocator_proofs

`IInv` is `TypeOK`, `FreePartition`, `GetReturnsItem` and the depth of the stack;
`TypeCorrect`, `SpecFreePartition` and `SpecGetReturnsItem` follow. `FreedDetected`
(`SafeDetectsFreed`) is by induction on it, from `IInv`. `Refinement` is
`Spec => ImplementsAllocator`: every step of the arena is one of `IAllocator` (the id
`allocate` answers with is free because of `FreePartition`).

### TwoPartyTupleGenerator_proofs

`IInv` is `TypeOK`, `Sound` (`QueueExact`, `Exclusive` and `NoLostWakeup` of one party,
which need each other: popping the front wakes the only task that can be next because
the queue holds each kind once) and `NotStarted` (which tasks exist during
construction). From it `TypeCorrect`, `QueueIsExact`, `RcotsExclusive`, `WakeupsKept`.
The proof is about one party's queue and tasks as functions of their own (`PushKeeps`,
`TurnKeeps`, `WakeKeeps`, `PopKeeps`), so that no step reasons about both.

`RunsCorrespond` (`SameOrder`): the i-th runs of the two parties' RCOTs are for tuples of
the same kind, for every size of buffer, every program of requests and every schedule of
the threads. Nothing is exchanged about the order; it is the same because both parties are
asked for the same tuples. The invariant says of each party alone what it has queued so
far (`Queued`: the runs that ended, then the queue): the chunk that comes next after the
i-th is of the kind of the first request that asks for more than the chunks so far hold
(`Due`, `InOrder`). `RunsInOrder` ties the RCOTs' logs to the queue, `Progress` what was
handed out to the requests. That both parties' sequences agree as far as both go
(`SameChunks`) is then an induction over their length.

`TuplesCorrelate` (`Correlated`) and `TuplesUsedOnce` (`UsedOnce`) follow from it. `PairInv`
follows a tuple from the run that makes it: the number of a tuple among those handed out
tells which chunk of its kind it is from and at which place (`FromChunk`), and the n-th
chunk of a kind is made in the runs for that kind's n-th place in the queue (`Made`). With
`RunsCorrespond`, equal numbers are the same run at both parties.

### InMemoryPartyCommunicationAgentHost_proofs

`HostIsStream` (`ImplementsAgent`): until a receive ends inside a message, the agents of the
host are a stream of bytes in each direction, for messages and receives of all sizes, however
the threads alternate between messages and however often a waiting one wakes for nothing. A
return is the step of the stream's `receive`; it has as many bytes as it was asked for, the
next ones, and the partner had sent them. For this the invariant must know what waits in
between: what a party has received, what its call has taken so far and the messages in the
buffer are, in this order, all that its partner has sent (`Streams`). `Covers` says it of the
buffer by the places at which the stream is cut into messages; sending adds a cut at the end
(`CoversAppend`), taking a message drops the first (`CoversTail`). Nothing is claimed after
`split`: section 6 has what happens then.

### Files_proofs

`AnswersFollow` (`AnswersFollowFile`): every line and block a caller reads is what the file
has where the calls have come to, for files, buffers, chunks and calls of all sizes. The
inductive invariant `ReadingInv` says where a reader is: what its buffer holds is the part
of the file between two places (`ReaderOk`, `ReadTo`), and the answer put together so far is
the part from where the call began to where the reader is. A chunk extends it by what it
took (`LineChunkIs`, `ReadChunkIs`; `PartJoin`: neighbouring parts make one). That an answer
is complete compares two ways to find the end of a line: the reader finds it chunk by
chunk, the property in the rest of the file (`ExpectedLine`); so the invariant remembers
that there is no new line in what was taken so far. `FilesAssumption` has the types of a
setup; buffers may have any size.

`StoredWritten` (`StoredIsWritten`): the invariant `WriterInv` splits all that was given to
the writer. While nothing has failed it is, in this order, what the store has of the upload,
what the buffer or the part under way holds, and what the caller's line has left
(`WholeInv`); after a failure, what was uploaded and is held is a beginning of it
(`PrefixInv`), and stays one because nothing is added. A request whose answer is lost has
left its part in the store: it is sent again under the same number and replaces it
(`partsWith`), and only the numbers in `completedParts` are put together. `ContentInv` says
that what was given is the lines of the source up to where `ReadingInv` has the reader, so
the two invariants are used together; `ClosedInv` what a successful close means.

### SocketAgents_proofs

`AgentsArePaired` (`AgentsPaired`): the two ends of every connection belong to two parties, as
agents for each other and for matching purposes, for any number of parties, any ports and any
order in which they arrive, under the two conditions of the property: the agreed ports are
free (`InitialPortsFree`) and nobody has left a shared host (`PortsKept`). Nothing in a
connection says whom it is for: a client connects to a port, and whoever accepts there is its
partner. So the proof is about ports and orders.

`ProgramPlanned` says that the two parties of a pair create corresponding agents in the same
order (`rank` numbers a party's agents of one partner); the invariant then compares numbers.
`Local` is about a party alone. `Pair` relates a server and a client: the connections each has
for the other (`Served`, `Met`), the one socket the server listens on and who has reached it
(`Listens`, `Heard`), the port the client was told (`Told`, `Post`), and that the server is never
ahead of its client (`Ahead`). `SocketsOk` is about a host: its ports are of one socket each, and
a port agreed on beforehand goes to nobody else; for the latter, whoever creates agents on a
shared host must know that all first sockets there are bound (`AllBound`). From these,
`ClientFinds`: the socket a client finds at a port is its server's, for it. A step concerns one pair
(`StepKeeps`), and the others keep theirs because what they look at is unchanged. The whole is
assumed only while the conditions hold; that suffices since who has left stays away, so that
`PortsKept` after a step implies it before.

### Frontend_proofs

`HeldWires` (`WiresHeld`) and `KeptValues` (`ValuesKept`), for programs with any number of
variables of any widths, any inputs, any number of wires and of aliases of one. The two need
each other: that a variable keeps its value rests on its wires not being freed, thus on the
counts, and what a statement allocates, and whether it throws, depends on the values. The
invariant `Good` says that every wire in the store is counted as often as Bits of variables
hold it (`Held`), and once more if a call that threw left it; that a variable that is set
names wires that carry its value (`Named`, `Carried`); and that the batches of an `Int`'s bits
are of one size (`Square`). The last is in neither property, but the circuits compute element
by element and take the number of elements from the first bit: without it, what a sum or a
cast stores need not be what it should be. `FrontendAssumption` asks it of the inputs, and
every statement keeps it. Since counts are positive as long as a wire is in the store, an id
is reused only when no variable holds it.

A statement is one of few changes, each proved once: a variable takes over wires that are
counted, and gives back what it had (`Takes`), a variable gives its wires back and is no longer
set (`GivesBack`), several change places (`Settles`), or a call that threw leaves wires behind
(`Loses`). `PerformedIs` says what the calls of one statement allocate, for any number of
outcomes, and where they stop; a lemma per statement shows which change it is and that the
wires carry the values. `FlattenSeq` and the places at which `unbatching` cuts are recursive
functions, shown to exist by induction over numbers.

### Only model-checked

`ReceiveReturns` of the in-memory agents; all of `Engine` and `Algorithms`.
Section 2 names the candidates.
Out of the prover's reach are liveness under fairness (`RequestsAnswered`,
`ReceiveReturns`, `ProgramsEnd`, `SetupEnds`), anything with `ENABLED` (`CallsReturn`), and
whatever reaches a RECURSIVE operator (all of `Algorithms`).

---------------------------------------------------------------------------

## 6. Where code and comments disagree

1. **The AND of two empty batches** (`LazyEmptyAnd`). `IGate.h:48-49` says that
   `collectScheduledResult` gets the result that was scheduled and stores it on the gate's
   wire. `BatchNormalGate::compute` schedules nothing for a non-free AND of empty batches
   and leaves `scheduledResultIndex_`, which no constructor sets, as it is
   (`BatchNormalGate.h:128`); line 144 asks for the result at this index all the same. Most
   values make the engine throw; a small one, when the level has another batch AND, gives
   the empty batch the other gate's result. So `ExecutedValue` and `ImplementsEager` hold
   where `UnsetHasNoResult` does (and for programs without such an AND).
2. **A receive that ends inside a message** (`InMemoryAgentPart`).
   `IPartyCommunicationAgent.h:74-78` promises the partner's bytes.
   `InMemoryPartyCommunicationAgentHost.cpp:69` computes how much of the message to erase
   after the result has been filled, so nothing is erased: the next receive gets the same
   bytes again. `InMemoryAgent` shows the rest of the agent right.
3. **A transfer whose end failed** (`FilesUpload`). `FileIOWrappers.h:17-19` says that the
   wrappers "do common operations like upload an entire file". `transferFileInParts` ignores
   what `close` answers (`FileIOWrappers.cpp:63`): when the upload cannot be completed, the
   function returns as it does after a success. `StoredIsWritten` shows that a caller that
   looks at `close` is told.

Smaller ones, without a run of their own: `getBatchSize` is to give the batch size of a
wire (`IScheduler.h:376-379`), but `GateKeeper::batchingUp` records for its output the sizes
of the *values* its operands have now (`GateKeeper.cpp:345`), and an operand still to be
computed has an empty vector; `ICloser.h` says that `close` returns -1 on an
error, and `GCSFileUploader::complete` returns 1; a comment in `DummyPermuter.h:17` says that
it outputs its input, and it permutes; `Int` of one bit adds as OR and subtracts as AND-NOT
(`Int_impl.h:121`, `:182`); unsigned `Intp` throws for the negation of 0 and for some negative
differences (`Intp_impl.h:65`), and converting a negative value of a width that does not fill
its native type writes past the end of a vector (`Intp_impl.h:160`); a session of
`UdpEncryption` that ends before all its rows came leaves them in `indexToOrderMap_`, which
`prepareToProcessPeerData` does not clear (`UdpEncryption.cpp:65`): the next session may put
a row where the last one wanted it, or throw. `DataProcessor` always takes all rows.

---------------------------------------------------------------------------

## 7. What is not modelled

- Statistics (gate counts, traffic, free and non-free counters), logging and metrics:
  no behaviour depends on them.
- `deleteEngine` and everything after it; an engine or an RCOT that throws under a caller
  that goes on.
- `UnorderedMapAllocator`: a counter and a map.
- An initial port that is held by another process: the server falls back to any free port
  and the client is not told (`SocketPartyCommunicationAgentFactory.cpp:139`). The run has
  such setups, but `AgentsPaired` leaves them out: a client may then find another party's server.
- A port that is given back: a party that throws closes its sockets, and on the same host
  another party's server may get that port before a client that was told it connects. The
  two then believe they are connected to somebody else. The run reaches such states (three
  parties on one host, with a time-out); `AgentsPaired` leaves them out (`PortsKept`).
- Bytes after the set-up of sockets, beyond the order of sends and receives in `Engine`;
  certificates and handshakes beyond success and failure; RCOT constructors' own messages.
- What cryptography guarantees: secrecy, randomness, hardness. Hashes and generators are
  functions; the elliptic curve of the base transfer and the AES instructions are external.
- The network plaintext scheduler, and the plaintext scheduler's calls on integer wires.
- Conversions of registers to bytes; widths of indexes and counters above the small ones used.
- The inputs that callers or comments exclude: a union element neither party has
  (`Adapter_impl.h:37`), a matrix without features (`OTBasedMatrixMultiplication_impl.h:38`),
  rows encrypted in several calls (`UdpUtil.cpp:36` ignores the offset), 2^31 rows of a session
  (`UdpEncryption.h:87`), a width announced to one party only (`UdpEncryption.cpp:88`), a batch of extracted strings (`AsciiString.h:50` reads letter and row
  the wrong way round, and nothing calls it), and a `std::async` that defers its task
  (`TwoPartyTupleGenerator.cpp:36` leaves the policy open; the C++ libraries in use start a thread).
- File managers, cloud SDKs, EMP applications, the millionaires, command lines.

`PROJECT.json` has the reason for each part, and, under `hazards`, what no property covers.
