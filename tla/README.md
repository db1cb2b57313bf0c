# nodel in TLA+

nodel is a small interpreter in C. Programs, their local variables and all data are nodes of one
directed graph; processes walk the graph's instruction nodes, sleep on a clock and wait for nodes to
be modified. This directory models the parts of it that keep state in ways a unit test hardly
exercises, checks them with TLC, and proves what matters most with TLAPS.

Paths below are relative to the source directory of the repository (`src/`), lines as in
`PROJECT.json`, whose `map` names the code behind every definition.

## 1. The system

Everything runs in one thread. There are no locks and no messages between threads. Concurrency is
the interleaving of processes, of the embedding program between two passes of the scheduler, and of
the clock; pointers, pids and graph addresses that outlive what they name take the place of races.

| component | state | operations | used by |
|---|---|---|---|
| clock heap `container/heap.c` | vector of events, compare and swap callbacks | put, peek, pop, del, readj | processes, runtime |
| processes `runtime/proc.c` | per process: pid, state, hooked or not, position in the heap, list links, period, union of duration/node/cause | suspend, resume, cancel, wait, sleep, die, setperiod, run (step, checkmod) | runtime, embedding program |
| runtime `runtime/runtime.c` | table of processes, clock heap, table of wait lists, next pid | proc_init, proc_kill, run_ready, run_sleep, run_for | tools |
| node graph `core/graph.c` | node pool, sweep number | alloc, salloc, mark, unmark, set, del, clean, save, load, copy | evaluator, assembler, runtime |
| node pool `core/nodepool.c` | table address → table of pairs, last address given | alloc, free, put, get, del | graph |
| hash tables `container/hashtable.c`, `rehashtable.c` | buckets with markers, count | put, get, del, iterate, grow, shrink | pool, runtime, opcodes |
| vector `container/vector.c` | storage, capacity, count | push, pop, insert, delete, grow, shrink | heap |
| time `runtime/ndltime.c` | – | add, sub, cmp, conversions | runtime |
| evaluator `core/eval.c`, `opcodes.c` | shared table of opcodes with a count of users | run one instruction | processes |
| assembler `core/asm.c` | graph under construction, labels | parse | tools |
| slab `container/slab.c` | blocks and a free list | alloc, free, scan | slab heap, tests |
| slab heap `container/slabheap.c` | a tree in a slab | put, head, del | nothing |
| tools `nodelasm.c`, `nodelrun.c`, `nodeldump.c` | files and buffers | assemble and save, load and run, load and print | |
| node values, byte order, external calls | – | formatting, conversion, a symbol table | |

How they interact.

* A process that runs or sleeps is *hooked* by an event in the clock heap and remembers a pointer to
  it (`proc->head`). The heap moves elements; the callback `ndl_runtime_clockevent_swap` corrects the
  pointers of the owners. Anything that moves an element without the callback makes a pointer stale.
* A process that waits is hooked into a doubly linked list of pids, whose first pid is in the
  runtime's table of waits under the node waited on. The links are pids, not pointers: a process that
  was removed is found missing, not dereferenced. An event may be that of a process in such a list: its
  own, which it kept when it was unhooked through a position out of date and took another one's.
* A pass (`run_ready`) takes the top event while it is earlier than the clock, moves it one period on,
  and runs an instruction of each process of the event. An instruction may fork, wait, sleep or exit,
  and names up to three nodes it modified; `checkmod` then wakes each process waiting on them.
* The graph counts, in every node, the references from every other node (hidden pairs), and keeps in
  every node the number of the sweep that last reached it. Both are data in the same table as the
  program's own pairs and are saved and loaded with them.
* Iterators over tables are pointers into the buckets and die with any modification.

The hard behaviours, and what makes the components right:

| component | what is hard | what must hold |
|---|---|---|
| heap | delete from the middle; moves the callback does not see; positions out of date | ordered at all times; no event lost or doubled; positions of live events current; delete never called when empty |
| processes | states changed by others; lists changed while they are walked; failing halfway | hooks match states; the diagram in `proc.h`; pids are never reused under a reference |
| runtime | events added, moved and removed by the processes they run; time passing anywhere in a pass | nothing ready is overlooked; a pass ends or reads the clock again |
| graph | collection over cycles; references overwritten; sweep numbers kept across save and load | only unreachable nodes are freed, and all of them; counts exact; no dangling references |
| graph copy, file | cycles and shared nodes while the copy is made; files cut off, room guessed too small | the copy is the subgraph, whatever the order; a file is all of a graph or is refused |
| hash tables | deleted buckets on probe paths; resizing; the count that decides on it; pointers and walks that last over several calls | a map; pairs stay within reach and in place; never full; a walk sees every pair once |
| vector, slab | moves counted in elements or bytes; capacity against storage; the list of free items over blocks | the list of the elements; room for them; no item given twice |
| time, run_for | carries, two ways to write an instant, relative against absolute, sleeps that are interrupted | exact; no event slept through; no return before time |
| opcode table | shared by runtimes, counted, also made by who does not count | there while a runtime is left |
| evaluator | instructions that fail halfway; frames replaced by calls; values of the wrong type | every modification reported; no reference made up; the frame in use never collected; the caller goes on where it called |
| assembler | labels used before they are defined; texts that turn out wrong at the end | the program the text says; nothing left over |

`PROJECT.json` lists the hazards at the lines where they bite.

## 2. Modules

```
PriorityQueue <--refines-- Heap <--refines-- HeapLoop        Graph --refines--> NodeGraph    NodeStore
                              \                 |             /     \                         |     |
                               HeapOps ---------/     SavedGraph   GraphCopy                Eval   Asm
                                  |                          \     /
        NdlTime                  Proc <- Runtime              MCGraph
              \                             |
               \--------- RunFor -----------/               HashTable --refines--> KeyValue
                                                                |
HeapOps_proofs   <- HeapLoop_proofs, Runtime_proofs          TableUse  Vector  Slab  OpcodeTable  SavedFile
NodeStore_proofs <- Eval_proofs, Asm_proofs                        \_______\____|_______/__________/
NodeStore_proofs <- Containers_proofs, Graph_proofs                     MCContainers
```

**HeapOps** – the array heap as operators on a record `[slot, size, head]`. `head` is the owners'
remembered positions, which only the swap callback keeps. The loops are in closed form: the set of
slots the moving element goes through (`Climb`, `Fall`) and the storage after the trip. `Popped` is
the `memmove` of `ndl_heap_delete`: it tells no owner.

**Heap** – one heap and clients, an operation a step: `Put`, `Pop`, `Del`, `Readj`. With `Careless`,
clients delete through positions that are out of date, as the runtime does. **PriorityQueue** is the
abstract promise: a bag of events, pop takes an earliest one.

**HeapLoop** – the same with `ndl_heap_bubble` and `ndl_heap_sink` one iteration per step. `pre` is the
heap when the operation was called; it changes when the loops end, so that a run of the loops is one step
of `Heap` and of `PriorityQueue`. It justifies the closed forms.

**Proc** – each function of `proc.c` as an operator from a runtime and a process to the runtime it
leaves, with the return value in `err`. The functions call each other as in the code (`Enter` is the
suspend–change–resume that cancel, wait and sleep share), failures included: `WaitSuspend` relinks
the neighbours before it finds out that it fails. The union of `ndl_proc` is one field, `data`.
Nodes and pids are both integers because the code uses one where the other belongs.

**Runtime** – the passes. `pc` is the loop that is running: `api` (the embedding program's turn),
`pass` (`run_cready`), `list` (the loop of `run_event` over an event's processes), `mods` (the nodes an
instruction modified), `wake` (`checkmod`'s loop over a list). `run` holds the locals, read when the
code reads them: `next` before the process runs. `Tick` lets time pass at any step. What an
instruction does to the graph is free choice; what it asks of the runtime is modelled whole. `program` says
what the embedding program calls, how many processes there will be, and which periods and sleeping times.

**NdlTime** – `ndltime.c`: seconds and nanoseconds with carries and borrows as the code has them. A sum of
exactly a second is not carried, so `Time` has nanoseconds up to a whole second. The units are constants.

**RunFor** – `run_for` around the passes of `Runtime`: `loop` says whether a pass runs or the thread naps and
holds the locals. A tick of the runtime's clock is a nanosecond, of which a second has few, so that carries
happen all the time. A nap ends at its time or later, or is interrupted.

**NodeGraph** – the abstract graph: nodes, roots, pairs; a collection may drop nodes that no root
reaches, at any time. **Graph** – the pool with its hidden pairs (`gcsweep`, `back`), the
functions of `graph.h`, and `ndl_graph_clean` step by step: `gc.todo` is what the current loop over
the table has not come to, `gc.stack` the calls of the recursive `clean_mark` with the keys still to
come. The order of iteration over tables is free. Reachability is stated by closed sets, without
recursion. **SavedGraph** adds saving and loading: the nodes come back with their marks, the sweep
number and the last address do not. **GraphCopy** is `ndl_graph_dcopy`: a copy under way is a record of the
graph that is made, the table of what became of what, and the stack of the calls of the recursion that runs. `Step`
is a call, a pair or a return. `DCopy` runs each recursion for as many steps as there are calls, pairs, returns
and roots at most (`Work`); `CopiesReached` compares the result, in every state of `Graph`, with a copy stated
by closed sets.

**SavedFile** – the file between `to_mem` and `from_mem`, in bytes: how `nodelasm` finds room for it, how
`nodeldump` and `nodelrun` read it, writer and reader chunk by chunk with their tests of what is left. A try
that has no room leaves in the vector what it wrote. Positions are relative to the whole file; the code counts
from the start of each node.

**KeyValue** – a map. **HashTable** – open addressing with markers (unused, used, deleted), the hash
function as it is for 8-byte keys (three times the key), growth at 3/4, shrinking at 3/16, copying in
bucket order. **TableUse** adds the clients that keep a pointer into a table: the collector's sweep, which
deletes on its way, and a step of a process, which goes on after FORK has put another. Resizing frees what
the pointer points into; what happens then is undefined, and the behaviour ends there.

**Vector** – `vector.c` byte by byte, beside the list of elements it should be. **Slab** – `slab.c`, the items'
links as one function. **OpcodeTable** – the tables of `eval.c` with their count. **MCContainers** puts these,
`TableUse` and `SavedFile` side by side in one run, in which one of them is used: they share no state.

**NodeStore** – the graph as its users see it: get, set, del, salloc, a collection. It stands on what
`Graph` shows about the hidden pairs and the collector. **Eval** – `ndl_eval`, every instruction of
`opcodes.c` and what `ndl_proc_step` does next. The macros of `opcodes.c` are operators on a result
(`Store`, `Drop`, `Advance`): an instruction fails at its first load, store or advance that fails, and
what it stored before stays. Which number a computation gives is free choice. The states of `Proc` are
reduced to alive and dead: a process that waits or sleeps may go on at any time.

**Asm** – `ndl_asm_parse`, one line or one patch per step. A text is a sequence of lines told apart by what
the parser does with them (`IsLine`): what tokens, columns and line numbers are is left out, what is stored
is not. References that wait are nodes of the graph, as in the code. A user brings a graph with its last
address, which may be one that was freed, and names (`Names`) among which are those the assembler writes.

`MC*` modules hold the instances: sets of calls, symmetries and views. `*_proofs` modules hold the
theorems.

## 3. Runs

Passing runs.

| run | question | bounds, and why they are enough |
|---|---|---|
| `HeapLoop` | Do the loops compute the closed forms of `HeapOps`, and what holds in between? Is the heap a priority queue, and which positions stay current? | 6 slots, 6 owners, 2 times: a third level with two parents above it, so that a delete in one subtree can send the last element, which comes from the other, up or down; ties |
| `RuntimeWaits` | Do hooks match states through every call and step, and does a pass end? | processes that wait on node 1, which is also a pid; 3 instants, the clock read after every event; three programs: 2 processes and all nine calls, 3 processes and four calls (`proc_init`, `proc_kill`, `resume`, `wait`), both with times of a tick, and 2 processes that may have no period: lists of two and three, found and not found, under a pid, run along by an event, revived processes, links to processes that were removed |
| `RuntimeClock` | Is a ready event ever overlooked or slept through? Does `run_for` keep its time? | 3 processes, periods and sleeps 0 and 2, instants to 5, timeouts none and 2, a second of 3 nanoseconds, naps of at least 2, the clock read again in the middle of passes: deletes through stale positions in a heap of three, sleepers that come due, instants written in two ways, naps that are interrupted or end late |
| `Graph` | Does the collector free exactly the garbage, whatever came before? Are the counts right, also halfway? Does the marker's recursion end? Is a copy a copy? | 3 nodes; clients with one key, two collections and `salloc` over references, or with two keys and one collection: chains and cycles of three, addresses freed, marks left by the sweep before, two references between the same nodes, the order of freeing; copies of any one or two roots, pairs in any order |
| `Containers` | Are pairs within reach, the count right, room left; is the table a map; what do walks and pointers see? Is a vector a list? Does a slab give an item twice? Are the opcodes there? Does a file keep a graph? | tables: 5 keys, four of which collide in a table of four, 2 to 8 buckets: growing twice and shrinking back, under walks; vectors: elements of 1 and 3 bytes, ranges of 0, 2 and 5, up to 10 elements of two values: growing past four and eight, by more than twice; slabs: 3 blocks of two; 3 runtimes; files: pools of up to two nodes with up to as many pairs as a count can say, and more, cut off anywhere |
| `Eval` | What may an instruction do to the graph? | every program of three instructions, two of them from forms of all that move nodes, slots and frames, in a loop; frames that refer to themselves and to each other; 2 processes, one new node, a collection between any two instructions |
| `Asm` | Does a text become the program it says, and what is left in the graph? | every text of up to four lines of 12 forms: labels before and after up to three references to them in a line, labels defined twice or never, pairs over arguments and over `next`, errors anywhere; into an empty graph and one with garbage |

What they show. With live positions the heap refines `PriorityQueue`, and an operation makes stale the
position of one event at most, the last of the vector. With stale positions it stays ordered
nevertheless (`RuntimeClock`, and the theorem `StaysOrdered`), so a pass that succeeds leaves nothing ready
(`PassesDrain`) and a nap ends in time for every event (`NapsAreInTime`), although the events may be the
wrong ones, as below. `run_for` does not return before its time, which `RunForWaits` proves for every timeout. Hooked processes
and events are equal in number, whoever's event was deleted, so `ndl_heap_delete` is never called on an
empty heap, where it would read element -1. The collector implements `NodeGraph` and leaves no garbage.
As long as its table is not resized, the collector's walk judges every node once, and a process that
forks keeps its own record. The moves of ranges in a vector are right for any width of elements, those of
single elements for one byte only, which `ListLike` allows for. A file that is cut off is refused,
wherever the cut is. No program makes up a reference: a process reaches what its frame reached, and new nodes
(`Confined`), although the members of a value share their storage.

Violations: what a comment says and the code does not do. The property quotes the comment.

| run | what happens |
|---|---|
| `RuntimeLostEvent` | `desched` deletes through a position that an earlier `memmove` made stale and takes another process off the clock; that process is hooked, running, and has no event |
| `GraphReloadKept` | `from_mem` starts with sweep 0 while the nodes bring their marks: `clean_mark` stops at a node marked before the save and `clean` frees a node that a root reaches |
| `HashDelete` | `put` takes the first deleted bucket without looking further for the key; the key is then in the table twice, and `del` removes one |
| `VectorCut` | `ndl_vector_shrink` reallocates to as many bytes as there should be elements; the clock heap, which has held nine events and shrinks to two, reads and writes past its storage from then on |
| `EvalCall` | `push` stores the place to return to under "instrpntr", of which eight characters count; the frame that called is left pointing to the call |

Every run reaches its interesting cases: each property of a passing run has a mutant (the definition
as a plausible bug would make it, beside it in the module) under which TLC finds it violated
(`PROJECT.json`, "mutants").

Other disagreements met while modelling, which the models contain but no run is kept for:

* `wait_resume` (`runtime/proc.c:51`) creates a missing list under the address of `pid`, not of `waiting`:
  the process waits where no modification looks, and `die` (`proc.c:325`) fails on it, against
  `proc.h:143`. Both are in `Proc` (`WaitResume`, `Die`).
* `wait_resume` (`proc.c:58-62`) sets no `event_prev` in the process it pushes aside, so leaving the middle
  of a list cuts it wrongly, and a process that died may still be linked; `checkmod` (`proc.c:394`) sets
  whatever it meets running, dead processes too, against the diagram of `proc.h:26-36`. `StateDiagram`
  leaves this step out.
* `setperiod` (`proc.c:521`) writes `duration`, a member of the union, and not `period`, against
  `proc.h:166` (`SetPeriod`).
* the loop of `run_cready` (`runtime/runtime.c:293`) reads the timeout nowhere (against `runtime.h:137-140`): a pass
  that has come to a process with no period ("unlimited", `proc.h:90`) goes on until the process sleeps,
  waits or dies. `PassEnds` makes an exception of it (`NoPeriod`), without which TLC finds it violated.
* the links that an event is run along (`runtime.c:260-273`) may be those of a wait list: a process that is
  unhooked through a position out of date takes another one's event off the clock and keeps its own, then waits in
  a list. If a process of the list is removed, whose neighbour is not told (`proc.c:58-62` again), the pass finds it
  missing and fails, with other events left ready (`LinkToNobody`). And the list may lead back into itself: then
  `run_event` does not end. `PassEnds` makes an exception of it (`InCircle`). The programs of `RuntimeWaits` do
  not get there; three processes and `proc_init`, `resume`, `wait` and `cancel` do, in about twenty steps (a
  million states, too many for a run that is kept): there TLC finds that `PassEnds` holds with the exception and
  fails without.
* `salloc` (`core/graph.c:115`) over a reference does not discount it: for clients that overwrite
  references `BackrefsExact` would fail (against `graph.h:87`), and is stated for the others.
* after a load the collector also keeps garbage: under `SavedSpec`, `CleanComplete` fails (against
  `graph.h:31`).
* resizing a table that holds a key twice, bucket after bucket (`container/hashtable.c:37`), may bring the
  older value back, by a put of another key.
* the sweep loop of the collector (`graph.c:263`) steps an iterator over a table it has just deleted
  from; a graph that once held 96 nodes has grown its table (`nodepool.c`, least size 128), and a
  collection that leaves few shrinks it, which frees the buckets under the iterator (against
  `rehashtable.h:68`). Likewise `ndl_proc_step` uses its pointer after the put of FORK (`proc.c:431`) has
  grown the table of processes (against `rehashtable.h:52`). `TableUse` ends there.
* the processes' positions are pointers into the vector of the clock heap, and `ndl_vector_grow`
  (`container/vector.c:107`) moves it when a fifth process is scheduled: suspending one of the first four
  then writes into freed memory. `heap.h:46` warns of it, and the swap callback tells of moves within
  the vector only. In `HeapOps` the vector has room from the start.
* single insertions and deletions in a vector (`vector.c:166`, `185`) move as many bytes as there are elements,
  against `vector.h`. Programs use them for bytes only.
* `ndl_slab_scan` (`container/slab.c:207-212`) reads the block after the last before it finds that there is none.
* the slab heap makes a node its own parent (`container/slabheap.c:269`, `272`): elements never move up, and
  the fifth put does not end. It is used nowhere.
* `csleep` (`runtime/runtime.c:347-356`) compares the time to the next event with an instant, so `run_for` sleeps to
  the next event past its end (against `runtime.h`, "ends before"); no time remaining means no limit;
  `usleep` gets 32 bits. `run_ready` reads its timeout nowhere, as above.
* a sum of exactly a second (`ndltime.c:15`) is written as a whole second's nanoseconds, and compares as less
  than the same instant written with a carry: an event may be taken for ready at its very instant.
* `ndl_graph_copy` (`core/graph.c:716-780`) uses an inner `mapping` that it never sets, and looks at the pointer to
  an address instead of the address; nothing calls it. `ndl_graph_dcopy` returns 0 and not the
  number of roots (against `graph.h:125`).
* the file is "entirely in big endian" (`graph.c:418`) as long as `ndlendian.h` is included before any header
  that defines `LITTLE_ENDIAN`, which the C library does on every machine: after it, nothing would be
  swapped; and a big-endian machine swaps as well.
* `to_mem` writes the number of pairs of a node in 16 bits (`graph.c:485`), hidden pairs included: a node
  that 65,536 others refer to spoils the file. `nodelrun` reads 2,048 bytes (`nodelrun.c:92`) and calls a
  longer program a bad file.
* the tables of opcodes are stored although they were freed when preparing them fails (`core/eval.c:101-108`).
* an opcode without arguments eats the end of its line (`core/asm.c:300-301`) and takes what follows for the
  rest of itself, so that another statement in the next line is an error, against the grammar in
  `asm.h:39`. It is in `Asm` (`Bare`), and `Assembled` says nothing of texts that fail.
* a pair that overwrites an argument that waits for its label (`asm.h:20` allows it) is overwritten in
  turn when the label is patched in (`asm.c:655`); `Assembled` excludes such texts (`Careful`).
* `ndl_excall_get` (`core/excall.c:46-48`) reads through the null pointer it gets for a name that is not
  registered; `proc.c:364` expects null from it. In `ExCall` the interpreter ends.
* `FORK` (`proc.c:431`) marks no frame: a collection by the embedding program may take the frame of a
  forked process, which then dies of a bad instruction. `FrameRooted` is about a single process for this
  reason.

`CHECK_DEADLOCK FALSE` is set where the model may stop: the runtime's configurations stop at their
clock bound when the embedding program calls nothing more, the graph's when addresses and sweeps are
used up, the evaluator's when every process is dead, the assembler's when it has parsed its text.

**Clients.** Constants say how a component is used: `Careless` (heap: deletes through positions out
of date), `Programs` (runtime: the calls, processes and times of an embedding program), `Clients` (graph: the keys a program uses, whether it sallocs over references) and `Overwrites`
(hash table: keys are put that are behind a deleted bucket). `Graph` takes the tables under a
node for maps. `HashTable` shows when they are: as long as no key is put that is present behind a
deleted bucket. The runtime is such a client in its table of processes (every pid is new). Programs that
delete pairs and overwrite others in the same node are not, and `HashDelete` applies to their nodes.

**Fairness.** `FairSpec` of `Runtime` asks for weak fairness of `Advance`, the steps of a pass: the one
thread does not stop in the middle of a function. Nothing is assumed of the embedding program or of
the clock. A pass that reads the clock again and again (`MinCycles`) may go on as long as instructions
take longer than the periods of their processes. So `PassEnds` says that passes end or keep reading the
clock at later instants, and does not lean on the bound of the clock: between two readings neither
instructions nor lists, wakes, forks and failures keep a pass going. It makes two exceptions, for what does in the
code: a process that is ready and has no period, and links that go round in a circle. Its mutant leaves an event
where it is; and it fails as well if a link to a process that was removed does not end the pass.

## 4. Proofs

For every value of the constants; the assumptions are the named ASSUMEs of the modules, which say what kinds
of things the constants are and little else. Those that say more: an element fits in the vector
(`CapAssumption`) and there is room for every process (`MaxPid <= Cap`; section 5); keys are finitely many
(`GraphAssumption`), as counts are cardinalities; tables begin no larger than the largest (`HashAssumption`);
programs and the graphs that users bring hold no reference to a node they do not have (`EvalAssumption`,
`AsmAssumption`), which is what `Graph` shows of every graph that was made by its calls.

**HeapOps_proofs** – lemmas: what lines, climbs and falls are made of; that an operation leaves a heap
whose fields have their types and whose positions are within the vector; and the order. The line of a slot (the
slot and its ancestors) is what every set closed under parents holds if it holds the slot, and lines are linear
(`LineLinear`). A heap that is ordered but for one element (`Misplaced`) is ordered after the element's climb and fall,
wherever the element is (`ReadjustOrders`), so put, delete and readjust keep the order
whatever position they are given, and in an ordered heap the top is the earliest (`TopEarliest`).

**HeapLoop_proofs** – the loops of `ndl_heap_bubble` and `ndl_heap_sink`.

* `LoopsKeepOrder`: while a loop runs, the heap is ordered but for the element on the move; when none runs it
  is ordered. The invariant is inductive together with `TypeOK`: for a bubbling element it also says that its
  children are no earlier than its parent, without which one swap could break what the next iteration does not
  look at. Deletes through any position are included (`Careless`): what `StaysOrdered` says of the runtime, this
  says of its loops.
* `LoopsRefine`: the loops implement the operations in closed form, for any client. A running loop has carried its
  element along a part of the path that the closed form gives it, and has told the owners on that part
  (`LoopInv`); a swap makes the part a slot longer, and the loop ends when it is the whole path.
* `LoopsServe`: for clients that delete only what is there, the loops implement `PriorityQueue`. The contents
  are already those of the queue when a loop begins, and a loop only permutes them.
* `LoopsKeepPositions`: the positions, which relate the heap at the call and now. A swap tells both owners, the
  `memmove` of a delete tells nobody, so that one event at most is lost, the last of the vector.

**Runtime_proofs** – the processes and the runtime, the times and `run_for`.

* `RuntimeTypes` and `EventsMatchProcesses`: `TypeOK` and `ClockedCount`. The count is not inductive: a new process
  might take the place of a hooked one, or an event be deleted from a heap of size zero. The invariant `Sound`
  adds that the pids of processes and those that links, lists and events hold are below `next_pid`, that
  exactly the processes have positions, and that the heap is ordered. Each function of `Proc` keeps `Sound` (one
  lemma each, composed as the functions call each other), then each action does; the locals in `run` follow. From
  the same invariant come `StaysOrdered` (`HeapOrdered`), `PidsStayOld` (`PidsAreOld`) and `PassesDrain`
  (`PassDrains`: the loop of a pass ends when the top is not due, and then nothing is).
* `StatesFollowDiagram`: hooking and unhooking leave every state alone, and a call turns the state of one process,
  along the diagram of `proc.h`. The step of `checkmod` that breaks it (section 3) is left out in the property.
* Times: on those that the runtime computes (`Time`), sums and differences are those of the
  instants (`AddIsExact`, `SubIsExact`), the order is that of time but for instants written in two ways
  (`CmpIsOrder`), the sign of the seconds, which `run_for` looks at alone, tells past from future
  (`PastIsNegative`), and microseconds convert exactly (`UsecIsExact`). The products with the unit need
  lemmas of their own (`Distributes`, `ProductDivided`), as they are not linear.
* `RunForWaits`: `ForSpec => ForRunsOut`. Its invariant says that `until` is the time the caller asked for,
  that `curr` never runs ahead of the clock, and that both are in `Time`, so that the lemmas about times apply. For no
  timeout it says that `until` is beyond any time of the clock. `NapsAreInTime`: `ForSpec => NapsEndInTime`. A pass
  may start with the time the loop has in mind and not the clock's; that is still a time not negative, so that
  `Sound` holds under `run_for` as well. Then the top is the earliest event, what `csleep` asks for is at most the
  time to it, and the conversion to microseconds rounds down.

**Graph_proofs** – every property of `Graph`, for any finite set of keys, any number of nodes and
any clients. `KeepsPromise`, `Spec => ImplementsNodeGraph`, is the collector's safety: each step is one of
`NodeGraph` or none, so it frees nothing that a root reaches. `CleansAll` is its completeness,
`NothingDangles`, `MarkerEnds` and `GraphTypes` are other invariants. None of these is inductive. `Traced` adds:

* no node carries the mark of a sweep to come (`Within`), or the marker would pass over it, and between
  collections and while marking no pair dangles (`Whole`);
* while marking (`Marking`), each pair of a node that was visited is null, leads to a node that is kept, or is
  still to come in a call of the marker (`Settled`); marks of this sweep are on reachable nodes only;
* while sweeping (`Sweeping`), the kept nodes are closed under pairs, all are reachable, and the others are
  yet to be judged.

Reachability is the intersection of the closed sets that hold the roots (`ReachOf`), so that the argument needs no
induction over paths: what is kept is closed, hence holds what is reachable (`KeptClosed`), and freeing a node
that is not reachable leaves the reachable set as it is (`ReachLess`).

`CountsCover` and `CountsAreExact` are about the hidden pairs. `ndl_graph_rm_backref`
takes one off the count it finds and passes over a missing one, so it is right only if every reference was
counted before; and a node that is freed must take its references out of the counts of the nodes that stay, some of
which may be freed after it in the same sweep. `Counted` is inductive together with `Traced`. That an overwritten
pair counts one less and a new one more is a lemma about sets of keys.

`CopiesAreWhole` is about dcopy, for any graph, any roots and any order of the keys. `Walk` is what both recursions
keep: what was seen is reached from the roots, no two calls are for the same node, and a pair of a node that was seen
leads to a node that was seen, unless a call has still to come to the pair. So when no call is left, what was seen is
closed and is what the roots reach. Each step takes something out of a finite set, what is still to do (`ToDo`,
`Shrinks`), hence a recursion ends within its bound (`FirstRun`, `SecondRun`). In the first (`Adding`) the table
numbers what was seen from 1 without gaps, the first root as 1, so new addresses are different and within reach. In
the second (`Fixing`) the table is complete, which is why a count finds its new address; a node has what is claimed of
it (`NodeFixed`) as far as its call has come, and a node seen and left all of it.

**NodeStore_proofs** – lemmas that `Graph_proofs` and the next three modules rest on. A loop is a recursive function
in the models. That such a function exists and what holds of it in every round is shown from the least element of a
set of numbers (`LeastNumber`, `SetInduction`, `LoopExists`), the property given as the set of rounds that have it.
With it, what `NodeStore` computes round by round is the least set of nodes closed under references (`ReachStarts`,
`ReachCloses`, `ReachLeast`), and only that is used afterwards.

**Eval_proofs** – the invariants and action properties of `Eval`, for any programs. Each instruction is composed of
loads, stores, drops and advances, any of which may end it, so each of them is shown to keep what is claimed of the
result so far (`Effect`), and the instructions follow by composition.

* `EvalTypeOK`: no value names a node that is gone, and no instruction reports more than three nodes, the room
  `ndl_eval_result` has.
* `EvalModsCover`: what an instruction changed or made it reports, also if it fails halfway.
* `EvalConfined`: it writes only what its process could reach or made, and what a frame reaches afterwards it or
  the process reached before, or is new: a reference that is stored was loaded from something in reach.
* `EvalFrameRooted`: the frame of a single process stays a node and a root. Its hypothesis is that the first frame
  is a root when the process starts, as the programs of the run have it. So is that of `nodelrun`: it allocates
  the frame with `ndl_graph_alloc` (`nodelrun.c:105`), which makes it a root (`graph.c:68-69`).

**Containers_proofs** – hash tables and their clients, slabs, vectors, the table of opcodes, the saved file.

* For any client of the tables `TableTyped`, `TableCounted` (a put finds a bucket: the count, which decides on
  resizing, is exact) and `TableHeld` (a pointer is good until the table is resized).
* For clients that do not put a key that lies behind a deleted bucket (`~Overwrites`, section 3):
  `TableReachable`, `WalkCovers` and `TableIsMap`. The invariant: every used bucket is at the end of a path of
  probes none of which has ended before it. Deletions keep it as they leave a mark; resizing rebuilds it bucket by
  bucket, in a loop whose invariant is the same plus that the pairs so far are those of the buckets passed. The
  walk adds that it is at a pair or at the end, and that every pair was seen or is ahead, none both (`WalkAt`).
* `SlabExact`: the free list is given with its order, as a numbering of the free items (`Order`): it goes once
  through those that no client has. Blocks are added and freed items put in front, and the first is taken.
* `VectorListLike`: an operation moves the bytes of the elements behind its place, all of them as long as nothing is
  torn, so that the bytes read as the list with a piece replaced (`ShuffledWhole`), which is what the operation on the
  list gives (`Spliced`). Growing finds a capacity that is large enough (`TwiceFacts`).
* `OpcodesHeld`: the count is the number of runtimes that live, and the tables are there when it is not zero.
* `FileKept`: `FileKeepsGraph` for any pools, guess and buffers, and a byte of any width. The invariant (`DiskInv`)
  says where in the file every node and pair is (`EndOf`, which sums sizes, and `PairStart`), that the position of
  writer and reader is the one their two counters stand for (`Cursor`), that what the writer has passed is there
  (`WrittenSoFar`), and that what the reader has passed it has, and nothing else (`TakenIn`). Bytes that are there
  are only claimed as far as the memory goes (`HeldAt`), so that the claim outlives the cut at nodelrun's
  buffer, and a reader that still trusts it finds the end before it finds a byte that is not there. A number comes back
  from its bytes if it is not wider than they are (`DigitFacts`, `NumberFacts`: nested quotients). It assumes of the
  pools that ids are different, keys in a node are, and keys, values and types have their width, as the tables of the
  pool give them; that ids and counts fit is no assumption but `FitsFile` in the property, as the code lets them be cut.

**Asm_proofs** – for any texts, of any length, and any graphs they are assembled into.

* `AsmTypeOK`, `AsmFailureFrees`, `AsmDelayedFreed` and `AsmGetsOn` follow from `AsmInv`: the nodes the
  assembler made are its root, its table of labels, instructions, and references that wait; those are listed
  newest first, so that the list has no cycle. A text that is refused takes away the root's mark and collects, and what is
  left is the least closed set from the user's roots, which holds none of them (`Killed`); the patched
  references are freed the same way (`ListFreed`).
* `AsmAssembled` follows from `AsmSays`: every instruction has what its line says, but for what waits to be
  patched, and the table of labels says for each label the first instruction from its line on. That a patch overwrites
  nothing is where `Careful` is needed (section 3).

Every invariant and action property that a passing run checks is stated by a theorem. Out of the prover's
reach: `PassEnds` (liveness under fairness), and induction that does not have the form above, a property given as
a set of numbers.

## 5. What is not modelled

* Failing allocation. The code's reactions to it are mostly "return NULL".
* Storage that moves under the positions of processes (section 3): what is done through them then is
  undefined.
* The evaluator's frames and the scheduler's states together: `Eval` and `Runtime` each leave to the other
  what is its business (planned). Overflow in arithmetic; the order of symbols.
* In the assembler: indented lines and the line numbers of messages, a line of pairs alone after an opcode
  without arguments, instructions of more than 26 arguments.
* The time left in a sleep that is suspended (`ndl_proc_sleeping`).
* Programs that set the hidden keys themselves.
* `ndl_graph_copy` (section 3), the slab heap (section 3), the pool's unused counter functions.
* Formatting, printing, parsing text; files that cannot be read or written; what is in a file that
  `to_mem` did not write; arguments of the command line.
* Iteration order over tables is any order, which covers the code's.

## 6. Plan

Done, in this order: heap (operators, clients, loops), processes, runtime, graph, hash tables, evaluator,
assembler; proofs about the first three; times and `run_for` with their proofs, copies and files of graphs,
clients of tables, vectors, slabs, the table of opcodes; proofs of the graph and its collector, and of the
order of the runtime's heap and what rests on it; proofs of the evaluator, the hash tables and their clients,
slabs, vectors, the table of opcodes, the refinement of the heap by its loops, the diagram of states, the assembler,
the saved file, copies of graphs.

Next, the most important first:

1. **Composition** – `Eval` as the instructions of `Runtime`, so that `Mods` is not free any more, and the
   nodes waited on exist in a graph.
