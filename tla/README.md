# BLAKE4 in TLA+

TLA+ models of this repository's C library, configurations that check them
with TLC on small instances, and theorems about them checked by TLAPS for every
value of the constants. Paths below are relative to the repository root.

- [1. The system](#1-the-system)
- [2. Modules](#2-modules)
- [3. How the models correspond to the code](#3-how-the-models-correspond-to-the-code)
- [4. Runs](#4-runs)
- [5. Disagreements found](#5-disagreements-found)
- [6. Theorems](#6-theorems)
- [7. What is not modelled](#7-what-is-not-modelled)
- [8. Plan](#8-plan)

## 1. The system

BLAKE4 is a tree hash in C: 128-byte blocks, 2048-byte chunks, a binary tree
of 64-byte chaining values (CVs), 8 words of 64 bits. A digest may be of any
length and be read from any offset.

| Component | State it keeps | Operations | Hard behaviour | What makes it correct |
|---|---|---|---|---|
| Sequential hasher (`src/blake4.c`, `include/blake4.h`) | key words, flags, chunk counter, chunk buffer, stack of CVs with a `uint8_t` length | init (plain, keyed, derive-key), update, finalize, finalize_seek, reset, serialize, deserialize | updates cut anywhere; unchecked stack index; windows of output; restores that are refused half way, and restores from buffers no serialize filled | digest = reference tree hash of exactly the bytes appended, under the mode asked for; the stack of a hasher that was initialised, or restored from its own save, stays inside its array |
| Dispatch (`src/blake4_dispatch.c`) | cached CPU features, registered function pointers, chosen function and name, three flags; all global | compress, get_compress, impl_name, cpu_features, has_feature, set_impl | any number of threads, no lock, publication order of plain and atomic stores | never a NULL or unusable function; never a partial feature set; the best function unless one was forced |
| Parallel hasher (`src/blake4_parallel.c`, `src/blake4_thread.h`) | per worker: mutex, two condition variables, work pointer, done and shutdown flags; CV array, total chunks, a serial hasher | new, free, init, init_keyed, update, finalize, reset; one-shot calls | lost and spurious wakeups, stale flags, memory freed under a running thread, failing thread creation and allocation | calls look atomic and return; no thread outlives its memory; the digest depends on the data |
| Stream (`src/blake4_stream.c`) | encoder buffer; decoder position, buffer and tree | encoder, decoder, Merkle proofs, slices, one-shot encode, verify and hash | odd nodes promoted more than once, stale or mismatched proofs, short buffers, an output buffer that is the input, allocations that fail half way | tree = left-full tree of the data; a chunk is accepted exactly if with it the file has the expected root |
| CPU feature detection (`src/blake4_dispatch.c` 58-152) | none | detect, once per process | masked CPUID bits, leaves that do not exist, register state the OS does not save | exactly the features that can be used |
| Mixing and its SIMD forms (portable in `src/blake4_dispatch.c`; `src/blake4_simd.c`, `src/blake4_avx2.c`, `src/blake4_avx512.c`, `src/blake4_neon.c`) | none between calls | compress | lane order, row rotations, three ways to build row 3, emulated 64-bit rotations; each form runs on some machines only | equal to the portable rounds |
| Assembly kernels (`src/blake4_avx2_x86-64.S`, `src/blake4_avx512_x86-64.S`, `src/blake4_neon_arm64.S`) | none between calls | compress | the same, with selectors as numbers | equal to the portable rounds |
| Constant-time utilities (`src/blake4_ct.c`) | none | memcmp, memzero, memcpy_if, select, eq, lt | borrow of an unsigned subtraction, masks made of any non-zero condition | equal to their branching definitions |
| One-shot calls and HBS tweakable hashes (`src/blake4.c` 526-690) | none | hash, hash_xof, hash_keyed, derive_key, 256/384/512; PRF, PRFmsg, H, F, T, Hmsg | operands concatenated without lengths, context prefixes | the tree hash of the documented input; domain separation |
| Bindings, tests, fuzzers, tools, CMake | - | - | - | - |

Interaction. The hasher calls the dispatcher for each block it compresses. The
parallel hasher runs one sequential hasher per worker and one of its own for
small inputs, and hashes the workers' CVs with further sequential hashers. The
stream calls hash chunks and parents with sequential hashers. The
SIMD files register themselves with the dispatcher through their
`blake4_init_*` functions, and the dispatcher asks the CPU which of them it may
use. The one-shot calls and the tweakable hashes make a hasher for each call.

## 2. Modules

| Module | Contents |
|---|---|
| `Compression` | the compression function as an ideal one, nodes, root blocks |
| `TreeHash` | reference: the hash of a complete message, top-down on the tree of chunks |
| `HashSpec` | abstract specification of a hasher: a mode and an accumulated message |
| `HasherOps` | the operations of the `blake4_hasher` struct as operators |
| `Hasher` | one hasher and its caller; `update` turn by turn of its loops; the refinement `Hasher` -> `HashSpec` |
| `MCHasher` | TLC instances of `Hasher` |
| `BitCount` | powers of two, the largest below a number, division that rounds up; number of one bits, used to say how long the CV stack is |
| `Dispatch` | the run-time choice of the compression function, any number of threads |
| `MCDispatch` | TLC instances of `Dispatch`, for `MCCalls` and for two runs of its own |
| `ParallelOps` | work distribution, a worker's computation, merging of CVs |
| `ParallelBatch` | abstract specification of the parallel hasher: every call is atomic |
| `ParallelHasher` | the caller and the worker threads, lock by lock; the refinement `ParallelHasher` -> `ParallelBatch` |
| `MCParallel`, `MCBatch` | TLC instances of both |
| `StreamOps` | the Merkle tree, paths, proofs and their verification, as operators |
| `StreamDecoder` | the decoder, one update with its whole loop per step |
| `Stream` | a caller with encoder, tree, root, proof and decoder; properties |
| `MCStream` | TLC instances of `Stream` |
| `MixingOps` | words of the compression function: G, schedule, the halves of a round, initial state, output |
| `Mixing` | abstract specification of a compression: the portable rounds, half a round per step |
| `Kernels` | nine vector forms of the compression function; the refinement `Kernels` -> `Mixing` |
| `Words` | 64-bit words for TLC |
| `CpuFeatures` | detection of CPU features, leaf by leaf |
| `CtUtils` | the constant-time utilities, byte by byte |
| `HashCalls` | one-shot and tweakable hashes, two calls at a time |
| `MCCalls` | TLC instance of `Dispatch` (through `MCDispatch`), `Kernels`, `CpuFeatures`, `CtUtils` and `HashCalls` |
| `Recursion` | theorems: induction over the naturals; what a recursive function computes, for any step of recursion |
| `BasicProofs` | theorems about numbers, powers of two, one bits, and sequences cut and joined |
| `TreeProofs` | theorems: the operators of `HasherOps` compute those of `TreeHash` |
| `HasherProofs`, `CallProofs` | theorems about `Hasher` and about `HashCalls` |
| `ImplementationProofs` | theorems about `Dispatch`, `CpuFeatures`, `Kernels` and `CtUtils` |
| `ParallelProofs` | theorems about `ParallelHasher` |
| `StreamProofs` | theorems about `Stream` and the operators of `StreamOps` |

`HasherOps` extends `Compression`; `Hasher` and `ParallelOps` extend
`HasherOps`. `TreeHash` shares nothing with `HasherOps` but `Compression`: it
has no buffer and no stack. `Stream` extends `StreamDecoder`, which extends
`StreamOps`; they share nothing with the hasher's modules, because the stream
code uses the hasher only as a plain hash. `HashCalls` extends `HasherOps` and
`TreeHash`. `Mixing` and `Kernels` extend `MixingOps`, whose words are
constants, so that `Words` can be given to TLC and nothing to the proofs.
Loops and trees are recursive functions (`turn` in `HasherPushCV` and
`OutputRootBytes`, `ChunkChain` and `Subtree` in `TreeHash`), never recursive
operators, so that section 6 can speak of them.

## 3. How the models correspond to the code

### Compression is ideal

`Compress` returns the term that names its inputs, so outputs are equal exactly
when inputs are. A CV, a key and the IV are terms as well, and byte `i` of an
output is the pair of the term and `i`. A byte that is lost, repeated, out of
place, or compressed under another flag, counter or length makes another
digest. This holds in the modules about trees and hashers; the rounds
themselves are in `Mixing` and `Kernels` (below), which know no trees.
The lengths 128, 2048 and 54 are the constants `BlockLen`, `ChunkLen` and
`MaxDepth`.

### The sequential hasher

`hasher` is the struct. `chunk_buf` is the sequence of its first
`chunk_buf_len` bytes; `cv_stack` is the whole array with its stale slots,
`cv_stack_len` wraps at 256 like its `uint8_t`. `buf` and `buf_len` are left
out: nothing but init and the serializer touches them.

| Action | Code (`src/blake4.c`) |
|---|---|
| `Start` | init 223, init_keyed 234, init_derive_key 246 |
| `BeginUpdate`, `FlushChunk`, `FillBuffer`, `EndUpdate` | `blake4_hasher_update` 295 |
| `MergeCV`, `EndPush` | `hasher_push_cv` 275, one turn of its loop per step |
| `Finalize` | finalize and finalize_seek 326 |
| `Reset` | 372 |
| `Serialize`, `Deserialize` | 403, 459 |
| `DeserializeOther` | 459, a buffer that no serialize filled and that is accepted all the same |
| `DeserializeNoState`, `DeserializeDamaged` | the refusals of 461-470 and of 496, 507, 517 |

A hasher touched by a refused restore is in `pc = "refused"`: callers may
initialise or restore it, and, where `ResetRefused` is TRUE, reset it.
`mode`, `message` and `savedAs` are history: what the caller asked for.

`blake4_hasher_deserialize` looks at the magic and the ranges of three lengths
(`Accepts`), and returns 1 for any other content: there is no checksum, and
nothing relates `cv_stack_len` to `chunk_counter`. A hasher restored from a
buffer of another origin has `mode = None`, and keeps it until it is initialised
or restored from a save made of a hasher that had a mode; a save of it carries
`None` along. Every call can be made on it. What they do is in the model: a pop
of an empty stack wraps the length to 255 (`PopTop`); a push on a full one
overwrites `cv_stack_len` and `flags`, which lie behind the array, with bytes of
a CV (`Pushed`; which bytes is the constant `Overruns`); a slot further behind is
outside the struct, where the model does not follow. So the bounds of the stack,
its agreement with the counter, the count of bytes and the digest are *not*
properties of every hasher `deserialize` accepts, and `StackInBounds`,
`StackMatchesCounter`, `BytesAccounted`, `DigestSeparates`, `KeepsMode` and
`ImplementsHashSpec` are stated under `Own`: the hasher was initialised, or
restored from a state that serialize wrote of such a hasher. Callers must not
restore a buffer they do not trust. `SavesRestore` is about the other direction:
the lengths that are checked never refuse a save of such a hasher. The fuzzer
expects this of hashers of other origin as well, after one more update
(`fuzz/fuzz_deserialize.c:44`, "Re-deserialization should work"); it is so unless
that update makes a push that leaves the stack, after which a length
above `MaxDepth` is saved and refused. Only what is promised for a hasher's own
saves is a property here.

### Dispatch

Each thread has its own `pc` and locals, and each load or store of a global is
a step. The order of the two plain stores before the store of
`g_impl_selected` is free (`WriteFn` and `WriteName` in either order), since
nothing orders them; the store of the flag itself is sequentially consistent.
The plain pointers are raced on by the code; the model reads and writes them as
whole words, as the compilers the project names do.

| Actions | Code (`src/blake4_dispatch.c`) |
|---|---|
| `Detect`, `LoadFeatures`, `StoreFeatures`, `FlagFeatures` | `get_cpu_features` 160 |
| `EnterInit`, `Register` | `init_simd_implementations` 370 |
| `EnterSelect`, `Look`, `WriteFn`, `WriteName`, `Publish` | `select_implementation` 394; with `job = "force"`, the cases of `set_impl` |
| `CallSetImpl`, `ForgetSelection` | `blake4_dispatch_set_impl` 504 |
| `CallDispatch`, `CheckSelected`, `Use` | compress, get_compress, impl_name 467-497 |
| `CallFeatures`, `GiveFeatures` | cpu_features, has_feature 586 |

### Parallel hasher

One caller, `NumThreads` workers. A thread takes a mutex in one step
(`WorkerLock`, `CallerLock`) and makes the critical section in the next.
`cond_wait` releases and sleeps in one step; a sleeper wakes by a signal or
spuriously and locks again before it looks. A signal with nobody asleep has no
effect.

| Actions | Code (`src/blake4_parallel.c`) |
|---|---|
| `WorkerCheck`, `WorkerProcess`, `WorkerFinish` | `worker_thread_func` 70 |
| `BeginNew`, `CreateWorker`, `CreateFails`, `AbortShutdown`, `AbortJoin`, `EndAbort`, `EndNew` | new 143 |
| `BeginFree`, `FreeShutdown`, `FreeJoin`, `EndFree` | free 217 |
| `BeginUpdate`, `Post`, `Await`, `EndUpdate` | update 291 |
| `LocalCall` | init, init_keyed, the serial path of update, finalize, reset |

The units' outcome (`results`) is zero until a worker fills it, as `calloc`
leaves it. An allocation that fails before anything has changed (`calloc` in
`new`) is a step that changes nothing; `calloc` failing in `update` is the
serial path; `realloc` failing while CVs are collected keeps fewer of them
(`Collect`). `init` writes the workers' copies of the key without their lock,
while all of them are idle, so hasher and workers share one variable `key`.
The one-shot calls (480-531) are sequences of these actions.

A worker that pops an empty CV stack (section 5) writes outside its hasher.
The passing run stays with inputs on which this does not happen: two workers
and whole chunks, where the second worker's first chunk is aligned for what
it pushes.

### Stream

A 64-byte hash is the term of what was hashed; `hash_chunk` and `hash_parent`
are both plain hashes, as in the code (their index and root arguments are
unused; the comment at `src/blake4_stream.c:90` speaks of a PARENT flag). File
bytes are never hash bytes in the instance, so whether a chunk could be taken
for a parent is not examined. Magic and version bytes are the field `format`.

| Definition | Code (`src/blake4_stream.c`) |
|---|---|
| `Levels`, `BuildTree` | `build_tree` 111 |
| `MerklePath`, `PathRoot` | `extract_merkle_path` 447, `verify_merkle_path` 546 |
| `ExtractStatus`, `ExtractedProof`, `ExtractSlice` | `extract_slice` 590 |
| `SliceStatus`, `FileStatus` | `verify_slice` 663, `verify` 776 |
| `NewEncoder`, `EncoderUpdate`, `EncoderFinalize`, `EncoderRootHash`, `EncoderFree` | encoder 206-291 |
| `Encode`, `StreamHash` | one-shot calls 762, 808 |
| `DecoderNew`, `DecoderUpdate` (`UpdateLoop`, `Turn`), `DecoderFinalize`, `DecoderFree` | decoder 295-422 |

`verify_slice` and `verify` change nothing, so they are operators, and the
properties put every question to them in every state. Failing allocations:
`encoder_update` drops its piece; `build_tree` leaves root and tree size unset,
after which `finalize` returns an error, or a bare header with the caller's old
root (`OutOfMemory`), or crashes, which ends the behaviour; an output that
cannot be allocated leaves the new root with the old tree (`Built`). The decoder
keeps the tree's nodes and never reads them; the model leaves them out.
`din`, `dout`, `ample`, `apart` and `origin` are history.

A decoder's output buffer may be its input (`include/blake4_stream.h:162`).
`Turn` then writes each chunk it puts out over the input (`Patched`), so a later
turn of the same call reads what is left of it. With nothing held this is
harmless, since a chunk comes from where it goes; with a partial chunk held, the
chunk is longer than what was taken from the input and goes over bytes not
yet read (line 397 before 382). `apart` says that no call began like that;
`DecoderDelivers` and `DecoderOKMeansVerified` are stated under it, and the run
`stream_in_place` shows what happens otherwise (section 5). Buffers that overlap
in another way are not modelled.

### The compression function and its forms

`Mixing` is `blake4_compress_portable`: the 16 words `v`, half a round per
step. `Kernels` is a call of one of nine forms: `avx2`, `avx512`, `neon`
(intrinsics), `avx2_asm`, `avx512_asm`, `neon_asm` (the `.S` files) and
`simd_avx2`, `simd_avx512`, `simd_neon` (`src/blake4_simd.c`, which stores its
vectors and goes on with scalars). The state is `row[r][l]`, lane `l` of row
`r`. A register of two lanes on ARM is half a row.

| Definition | Code |
|---|---|
| `Row3Set`, `Row3Array`, `Row3Tweaked` | the three ways to build row 3: lanes named from the highest, an array, changed lanes of the loaded IV |
| `G_AVX2`, `G_AVX512`, `G_NEON`, `G_NEONAsm` | G on the lanes of vectors; two of them rotate by 32 by exchanging halves |
| `Avx2Selectors`, ..., `PermuteRows` | the immediates of `permute4x64` and `vpermq`, decoded two bits per lane |
| `NeonShuffle`, `NeonUnshuffle` | lanes moved one by one |
| `Columns`, `Shuffle`, `Diagonal`, `Unshuffle`, `SimdDiagonal`, `Return` | the loop of ten rounds and the output |

The message is given as 16 words: every form loads them little-endian, and its
lookups by `SIGMA` are `Schedule`. All copies of `SIGMA` and `IV` in the sources
are the same table. `Portable` says how a state of `Kernels` is read as one of
`Mixing`: rows in diagonal position are read rotated back, and `HalvesDone`
counts half rounds.

### Detection, utilities, one-shot calls

`CpuFeatures`: a machine is what each CPUID leaf and XCR0 would answer,
including masked features and leaves above the highest one, or an ARM
capability word. `Leaf0`, `Leaf1`, `Xgetbv`, `Leaf7` and `Hwcap` are the reads in
order. `found` is what `Dispatch` takes as `Supported`.

`CtUtils`: a function on memory visits one byte per step, with its index and
accumulator; a function on words is one step. `Mask` is
`-(condition != 0)` converted to an unsigned type, at 8 or `Bits` bits. `&` is a
recursive function on binary digits (`AndBits`), `|` and `^` follow from it and
the sum. `MCCalls` compares all three with the community module `Bitwise`
(`BitwiseAssumption`, all pairs below 64), which no module with a proof can use.

`HashCalls`: every call is `OneShot`, init, updates with each operand, finalize.
A behaviour makes two calls, so that an invariant can compare any two.
`MaxCallLen` bounds the bytes one call hashes, `MaxBlocks` the blocks of a
`blake4_hbs_t`. The string that all contexts start with is one byte.

## 4. Runs

Counts are of distinct states.

| Run | Instance | Shows |
|---|---|---|
| `hasher` | 2-byte blocks, 4-byte chunks, up to 21 bytes (6 chunks) in pieces of 0, 1, 4, 9; plain, one key, a short and a three-chunk context; three structs of other origin; 23 645 states | `TypeOK`, `StackInBounds`, `StackMatchesCounter`, `BytesAccounted`, `SavesRestore`; every behaviour is one of `HashSpec` |
| `hasher_separates` | every message over {0, 1} of up to 5 bytes (3 chunks), three modes (plain, one key, one derive-key context) against the current one; 307 542 states | `DigestSeparates` |
| `parallel` | two workers, one-block chunks, inputs of 3 bytes (serial) and 8 (parallel), up to 19 bytes, CV array of initial capacity 1; 86 924 states | `TypeOK`, `MemoryOutlivesWorkers`, `NoLostWakeup`, `ImplementsBatch`, `CallsReturn` |
| `stream` | two editions of a file that differ in the first chunk, 2-byte chunks, up to 5 chunks (lengths 0, 3, 5, 6, 8, 10), every whole-chunk slice and three others, decoders fed 1 or 4 bytes into buffers of 3, 4 or 5; in place and apart; 221 879 states | `TypeOK`, `TreeIsLeftFull`, `ProofFitsBuffer`, `SliceVerdict`, `FileAgreesWithSlices`, `DecoderDelivers` |
| `calls` | three compressions in each form on 64-bit words; every combination of CPUID bits and saved registers; 4-bit words (all pairs) and up to two bytes of memory in the utilities; 8-byte blocks, 4-byte addresses, every two one-shot or tweakable calls; three threads that may hash, ask for features, force AVX2 or ask for AUTO, in an x86-64 build on an AVX2 CPU, with thread symmetry; 641 823 states | `TypeOK`, `FeaturesComplete`, `OnlyUsable`, `UsedWasChosen` (of `Dispatch`), `ComputesPortable`, `DetectionExact`, `CtAgrees`, `CallsHashTheirInput`, `SeparatedButForHMsg` |
| `hasher_reset`, `dispatch_force`, `dispatch_early`, `parallel_stack`, `parallel_data`, `stream_decoder`, `stream_in_place` | see section 5 | a violation each |

Why the bounds are enough.

- `hasher`: six chunks need every shape of merge with stacks of up to three
  CVs: chunk 1 (none), 2 (one merge), 4 (two merges), and the right edges of
  3, 5 and 6 chunks. Pieces end inside a block, at the end of a block, at the
  end of a chunk and across chunks. Saves happen at 6 and 17 bytes, with an
  empty and a non-empty stack. Seeks 0 and 3 with lengths 1 and 5 cross
  output blocks of two bytes. The structs of other origin (`OtherStructs`) are
  one whose next push pops an empty stack, one whose next push finds it full,
  and one that only looks like a hasher. `OtherBound`, a CONSTRAINT, follows
  hashers for six bytes while one of these is in the hasher or in the saved
  buffer, enough for the push that leaves the stack, a save, and a restore of
  it; behaviours without them are not cut.
- `hasher_separates`: 0 is also the padding byte, so messages that differ in
  trailing zeros only are among those compared.
- `calls`, dispatch: three threads allow one to be preempted in the middle of
  registration or selection while two others interact; the theorems of section
  6 hold for any number.
- `parallel`: two parallel updates in one message, and resets between them, so
  that flags of an earlier update are there in the next; the array starts with
  room for one CV so that growing it, and failing to, happens at each length.

- `stream`: trees of 1 to 5 chunks have every way of promoting an odd node up to
  twice in a row. Editions share all chunks but the first, so a proof made for
  one edition has slices that do and do not fit the other. Bounds that keep the
  parts from multiplying are in the guards: an encoder lives before the first
  tree; while a proof is held files are hashed but not encoded (`SliceVerdict`
  depends on root and proof only); proofs come from trees that have their nodes;
  decoders are made when root and tree match. A decoder is fed the start of
  either edition, up to and beyond the announced length. An output buffer of 4
  is too small for 4 bytes and a held one, one of 5 never is, and one of 3 cuts
  a chunk in two without an error. Each of these calls is also made in place.
  Proofs are those the code made, not forged ones, and slices are whole chunks
  of full length or ranges that are refused; the final partial chunk is checked
  through `FileAgreesWithSlices`, not by a slice of its own.
- `calls`, the rest: the forms do not branch on data, so one input with 16 different
  message words and all other words different shows a wrong lane; the other two
  are the root of the empty message and all ones, for carries. Section 6 has
  the same for all words and inputs. The outputs for the three inputs were also
  compared once with those of the compiled `blake4_compress_portable`. Four bits
  give the borrow and the masks every case a wider word has: both
  operands with and without the top bit. Values in the tweakable hashes are all
  ones or start with "msg", so that H and Hmsg can meet; operands straddle
  blocks of 8 and chunks of 16 bytes. The threads of `Dispatch` and the four
  kinds of call share one run because they share no state: the initial state
  says of which kind (`kind`) a behaviour is, and it stays with it.

Fairness (`FairPSpec`, for `CallsReturn` only). Weak fairness of each thread's
step: the scheduler runs a thread that can run. Strong fairness of taking a
mutex: the other party holds it for a few instructions at a time, and a thread
that finds it free again and again obtains it. Nothing is assumed about the
caller starting a call, about spurious wakeups, or about failures.
`CallsReturn` therefore says that no wakeup is needed beyond those the code
sends.

Deadlock is checked in every run but `calls`, where detection, a utility and the
two hash calls come to an end. The threads of `Dispatch` in that run wait for
nothing: every action but a call of the caller is enabled by the thread's own label.

`ImplementsBatch` is `BatchSpec` with the stutter named as a first disjunct, so
that TLC does not compute digests for steps that change none.
Since a worker's CV does not depend on its data (section 5), this refinement
speaks of how many CVs are collected, of the counters, the key, the array and
the digest computed from them, and of a CV not yet written (all zero), but not
of one worker's data reaching another's slot.

Each property has a mutant: a variant of one definition with a plausible bug
(`...OffByOne`, `...Eager`, `...KeepStack`, `...FlagFirst`, `...KeepDone`, and
so on, each with a comment), under which TLC finds it violated.

## 5. Disagreements found

| Run | Property | What the code does |
|---|---|---|
| `hasher_reset` | `KeepsMode` | `blake4_hasher_deserialize` stores fields before it can refuse the buffer; a reset afterwards keeps the foreign key under the old flags. `include/blake4.h:92`: "preserving key if keyed". |
| `dispatch_force` | `ForcedStays` | A thread inside `select_implementation` overwrites the function another thread has just forced, after `set_impl` has returned 1 (`include/blake4_dispatch.h:103-104`). |
| `dispatch_early` | `RefusedMeansUnavailable` | `set_impl` before the first hash finds no SIMD function registered and returns 0 for functions that are in the build and supported (`include/blake4_dispatch.h:107`). |
| `parallel_stack` | `WorkersKeepStack` | A worker's hasher starts with an absolute chunk counter and an empty stack; a push then merges CVs it never pushed (`src/blake4_parallel.c:110`, 125). |
| `parallel_data` | `DigestBindsMessage` | A worker returns `h.cv`, which update never changes; two messages of one length that go through the workers share a digest (`src/blake4_parallel.c:5-6`, 135). |
| `stream_decoder` | `DecoderOKMeansVerified` | The decoder copies chunks through without hashing them and compares lengths at the end: it returns OK for another file of the same length (`include/blake4_stream.h:174`). |
| `stream_in_place` | `InPlaceDelivers` | A decoder that holds part of a chunk and writes to its own input puts the chunk over bytes it has not read and delivers them instead of the input (`src/blake4_stream.c:397`), in a buffer that is large enough; `include/blake4_stream.h:162`: "can be same as data". |

Differences from comments for which there is no run: nodes are stored bottom-up,
not in pre-order (`include/blake4_stream.h:75`); a stream root equals the plain
hash only for one chunk (`include/blake4_stream.h:262`); the comment at
`src/blake4.c:562-565`, "Each function uses a unique context prefix to ensure
domain separation", does not hold for H and Hmsg: "BLAKE4-HBS-H" is a prefix of
"BLAKE4-HBS-Hmsg", so `blake4_hbs_h` with a public seed that starts with "msg"
hashes the same bytes as `blake4_hbs_h_msg` on a message of 29 bytes.
`SeparatedButForHMsg` states what separation there is, with exactly this
exception; the compiled library gives the same digest for such a pair. The
vectors in `docs/test_vectors.md`, `docs/test_vectors.json` and
`docs/design/spec_portable.md:368` are not those of this code: the portable
rounds, which the model reproduces bit for bit, give other values.

## 6. Theorems

Everything here holds for every value of the constants that satisfies the
assumptions named in the modules:

- `LengthAssumption` (lengths are positive), `DepthAssumption` (`MaxDepth` in
  1..254), `ParallelAssumption`, `CapAssumption` (there is a worker, and room
  for a CV);
- `InputAssumption`, `ArgumentAssumption` (inputs and contexts are byte
  sequences, positions and lengths are naturals);
- `OthersAssumption` (what is in a buffer of another origin is a struct, with
  fields of any value in their ranges, whether `deserialize` accepts it or not);
- `DepthCoversMaxLen` (the stack has a slot for every one bit of each chunk
  count reached; 54 slots cover 2^54 - 1 chunks);
- `CallAssumption`, `CallLenAssumption`, `DepthCoversCalls` (operands have the
  lengths their names say, an output has at least 3 bytes and is at least as
  long as an address, `MaxCallLen` covers the longest input, and the stack has
  slots for it);
- `StreamAssumption`, `CallerAssumption` (a chunk has bytes; bounds, pieces and
  buffer sizes are naturals, an encoder's first capacity is not 0);
- `NoneAssumption`, in `Hasher` and in `ParallelHasher` (the model value for
  "nothing" is no mode, saved state or work unit);
- `SelectionAssumption` and `BuildAssumption` (arguments of `set_impl`,
  functions linked, features of the CPU are among those the code names);
- `WidthAssumption`, `BytesAssumption` (a word's width is a power of two; bytes are
  0..255).

### Induction

**`Recursion`**: `RecursionRuns`, `FoldRuns`, `StrongRecursion`. Library
induction theorems that take a predicate are not usable with the installed
provers, so induction is restated for sets (`SetInduction`,
derived from the well-foundedness of < on the naturals),
and the module proves, for a step that is a constant operator of the module, that
the function defined by recursion on it exists and satisfies its equation: on
0..n (`RecursionRuns`), along a sequence (`FoldRuns`), and on all naturals when
the step looks only at smaller arguments (`StrongRecursion`). Each loop of the
code is then an instance (`Powers`, `Trees`, `Blocks`, `Absorb`, `Folding`,
`Emitting`, `Pushing_`, `Updating` in `TreeProofs`; `Growth`, `Count`, `Merge` in
`ParallelProofs`; `Looping`, `Halving`, `Leveling`, `Refs`, `Pathing`
in `StreamProofs`; `Flattening` in `BasicProofs`; `Pieces_` in `CallProofs`;
`Anding`, `Folded` in `ImplementationProofs`), whose turns can be followed by
set induction. `OnesFacts` in
**`BasicProofs`** is the same for the number of one bits.

### The hasher computes the tree hash

**`TreeProofs`** relates two definitions that share nothing but `Compression`:
`HasherOps`, with a buffer, a stack and one chunk at a time, and `TreeHash`,
top-down on a complete message. In the order of the argument:

- `ChunkAgrees`: absorbing the bytes of a chunk block by block, holding the last
  block back, leaves the node `ChunkNode` defines.
- `Tower(stack, mode, m, level, t)`: for each one bit of `t` the stack holds the
  CV of one complete subtree, the largest lowest. `Settled` says this of a
  hasher between pushes, with `t` its chunk counter; `Climbing` says it in
  the middle of a push, where the CV in hand is the last of `t` subtrees of
  2^level chunks. A merge goes up one level (`ParentOfTwo`: a complete tree is
  the parent of its two halves), and the end of the push is `Settled` for one
  more chunk (`PushSettles`).
- `Reading(h, mode, m, p)`: `h` is settled and its buffer holds what follows the
  pushed chunks, up to position `p` of `m`. `UpdateReads`: `blake4_hasher_update`
  takes a hasher that has read `m` to one that has read `m \o x`.
- `RootNodeIs`: folding the stack down over the last chunk, as finalize does, gives
  the root of the reference tree, because the subtrees that `LeftSize` splits
  off from the left are those of the one bits of the chunk count. `OutputIs`: the
  loop of `output_root_bytes` gives the window of the output stream.
- `HasherHashesMessage` puts them together: init, update, finalize_seek is
  `XOF`, for every message that fits the stack, any mode, offset and length.
  `DeriveKeyIs` is the same for the key of derive-key mode.
- `RootsSeparate`: the tree hash is one to one. A chain of blocks is followed from
  its last block down; CHUNK_START says where it begins, so chains of equal ends
  have equal blocks throughout (`ChunksSeparate`). PARENT tells a parent from a
  leaf, so equal CVs come from subtrees of the same shape, place (a leaf's
  counter) and chunks (`SubtreesSeparate`, by strong induction on the number of
  chunks). A message is its pieces (`PiecesSeparate`). It assumes of the modes that
  their flags are not the marks of a node's place (`IsMode`).

**`HasherProofs`**: `TypeCorrect`, `StackSafe`, `StackCounts`, `NoByteLost`, `SavedIsAccepted`,
`HasherKeepsPromise`, `ModeKept`, `DigestsSeparate`. They are about
hashers that were initialised, or restored from saves of such hashers (`Own`), in
programs that may restore any other buffer as well; of hashers with other
contents there is nothing to prove but their type (section 3). The invariant
`IInv` is therefore `Typed`, for every hasher; `Own => Counted`; and
`SavedCounted`, for a save of a hasher that had a mode. `Counted` adds to the
properties what a push is in the middle of: before a merge, stack length = one
bits of `total - 1`, where `total` is the chunk count shifted so far
(`Pushing`). Dropping a trailing zero of `total` drops one trailing one of
`total - 1`, so each merge pops a CV that is there; when `total` is odd, the CV
pushed makes the length the number of one bits of the new chunk count. The
serialized copy obeys the same facts (`Consistent`, `Held`), hence a restore
re-establishes `Counted` when, and only when, a mode was saved with it.
`SavedIsAccepted` follows: a stack of `Ones[chunk_counter]` CVs is no longer than
`MaxDepth`.

`HasherKeepsPromise` is the refinement `Hasher` -> `HashSpec` that the run
`hasher` checks. Its invariant is `Follows`: between the turns of its loops the
hasher has read a prefix of the message and `input` is the rest; during a push
it climbs the tree; the serialized state has read the message saved with it.
`HashSpec` knows none of this, so without `Follows` nothing would relate the
stack to the message. One lemma per action shows that the step keeps `Follows`;
then each step is one of `HashSpec` or a stutter (`StepPromises`): a step of
`update`'s loops shows nothing, and a digest is `XOF` by `RootNodeIs` and
`OutputIs`. `DigestsSeparate` follows from `Follows` and `RootsSeparate`. These three
theorems assume `~ResetRefused`: the caller does not reset a
hasher after a restore was refused. That hypothesis cannot be dropped, as the run
`hasher_reset` shows; the run `hasher` makes it too, and initialises or restores
refused hashers.

### One-shot and tweakable calls

**`CallProofs`**: `CallsHashInputs` and `TweakablesSeparate`, for any
operands, messages, numbers of blocks and output lengths. The invariant
`CallsRight` says of both calls made that their output is the tree hash of their
input under their mode, and that a tweakable one had operands of its kind.

- `OneShotIs`: a hasher updated with any number of pieces gives the tree hash of
  all of them joined, from `UpdateReads` by induction over the pieces. Each call
  is an instance (`PrfIsRight` and so on, with what is hashed and how long it is
  in `PrfShape` and so on); the shorter modes are `PrefixOfOutput`.
- `TweakablesSeparate`: outputs that agree in one byte have the same root block
  (`FirstByte`), hence the same mode and input (`RootsSeparate`). The second byte
  of the input is the letter of its context (`Letters`) and leaves PRF with
  PRFmsg, H with Hmsg, and F and T by themselves. Inputs of the same function and
  length are cut at the same places, so their operands are equal
  (`PartsSeparate`; the number of T's blocks follows from the length).
  PRFmsg is longer than PRF because an address is no longer than a value
  (`PrfIsNoPrfMsg`). What is left is `HReadsAsHMsg`: lengths agree exactly for
  messages of `AddrLen - 3` bytes, and the seed then spells "msg".

### Dispatch

**`ImplementationProofs`** begins with `TypeCorrect`, `NoPartialFeatures`, `InstalledIsUsable`,
`UseIsChosen`, for any number of threads, any build and any CPU. The invariant
`Safe` has a part about the globals (`SharedSafe`: a flag that is set vouches
for what it guards, a pointer that is not NULL is a choice) and a part per
thread (what it knows at each label). `Stable` is what any step leaves standing
for the other threads; `Others` shows once that a thread that does not move
keeps its part under `Stable`, and then each action has one lemma about the
thread that takes it.

`DetectionIsExact` is about `CpuFeatures`, on every machine. `Learnt` says, for
each register that is to be read, which leaves are known to exist and which
features have been found: none is set before what it depends on has been read.

### The parallel hasher

**`ParallelProofs`**: `TypeCorrect`, `MemorySafe`, `WakeupsArrive`,
`ThreadsImplementBatch`, `ThreadsImplementBatchSpec`, for any number of workers,
any inputs and any pattern of failures and spurious wakeups. `TypeOK`,
`MemoryOutlivesWorkers` and `NoLostWakeup` are not inductive: they do not say
which workers may be in which state. The invariant says it for each place of
the caller. A worker is `Up` (waits for work), `Down` (told to shut down), `Gone`
(no thread), `Destroyed` (and its mutex destroyed) or `Posted`: it has a
unit and is at one of four places, taken or not, finished or not, and when it
is finished its result is the answer to the unit it was given.

| Part | At | Says |
|---|---|---|
| `IdleInv` | between calls | every worker `Up`, or all `Destroyed` |
| `CreateInv` | `new` | those before `next` are `Up`, the rest `Destroyed` |
| `AbortInv`, `AbortJoinInv` | `new` after a failed creation | some worker `f` failed; from `next` up to it they still run, one may be `Down`, all others are `Gone` |
| `StopInv`, `JoinInv` | `free` | first the workers before `next` are `Down`; then they are `Destroyed` one by one |
| `ServeInv` | parallel update | `units` are the units of this input; workers with a unit posted are `Posted`, others `Up` |
| `DoneInv`, `UnitsInv` | waiting | units before `next` are done; none exist outside an update |
| `LockInv` | always | who can hold a mutex, and where |
| `ThreadTypes`, `BatchTypes` | always | types; the collected CVs fit the array |

Steps of a worker change the worker's kind at most from one place of `Posted` to
the next, or not at all (`KindsKeepIInv`), so each of them needs only its own
worker's case; each step of the caller has a lemma of its own. The
work units cut the input without gap or overlap (`UnitPlace`,
`UnitsOfUpdate`), the doubling loop reaches a sufficient capacity
(`CapForCovers`), and merging in place never lengthens the array
(`MergeShrinks`). With the invariant,
`EndUpdate` is the batch's parallel update, because at that point all units are
done and each result is the answer; every other step is a call of the batch or
changes nothing it sees.

### The stream code

**`StreamProofs`**: `StreamInvariant`, `StreamTypes`, `DecoderKeepsPromise`,
`TreeIsBuilt`, `ProofsFit`, `SlicesVouch`, `FileIsItsSlices`: all six invariants the
run `stream` checks, for any chunk length, files, pieces and buffers. The
inductive invariant `StreamInv` has a part for each thing a caller may hold:

| Part | Says |
|---|---|
| `EncoderInv` | the buffered data are file bytes within the capacity, no more than was fed |
| `TreeInv` | what kind of tree file the caller has, and that its length is a number |
| `ProofInv` | a held proof is of the data it came from: range, chunk, siblings, depth |
| `DecoderInv` | an open decoder is `Open` and, with ample buffers that are `apart`, `Lossless`; a closed one has kept `Delivery` |

`TypeOK` and `DecoderDelivers` are not inductive: they do not say that what was
let through ends at the end of a chunk (`Aligned`) nor that delivered and held
bytes are together the bytes fed (`Lossless`). One `decoder_update` is a loop with
three ways to end; `TurnKeeps` shows what a turn keeps (`TurnInv`: sizes, counts,
and bytes delivered \o held = bytes taken; in place with nothing held, also that what
is still to be read is as the caller gave it) and `LoopKeeps` carries it to the end
by set induction.

Trees are compared with two independent definitions, of the code level by level
and of `RefNode` from the root down:

- `LevelsAre`: each level is `Above` the one before (pairs merged, an odd last node
  as it is), and there are `TreeDepth` of them, because halving n - 1 and merging
  n nodes end together (`MergedHalves`). With it the number of siblings is known
  (`PathIs`), hence `ProofsFit`.
- `LevelIsLeftFull`: node i of a level of width w is the reference node over chunks
  i w up to (i + 1) w or the end. `LeftFullRises` takes it one level up: where two
  nodes merge, `LeftSize` of what they cover is w (`Paired`), where one is promoted
  it covers the same as before. At the top this is the root (`TopIsRoot`);
  `NodesAre` counts the parents.
- `PathFollows`: two trees that differ in one chunk differ on each level in the
  node above it at most (`Twins`), so a path taken from one leads, started at
  the other's chunk, along the other's nodes to its root (`StepUpIs`). The
  siblings are hashes, so none of them is the zeros that stand for a
  promoted node (`AllHashes`).
- `SliceOK`: replacing the bytes of one chunk changes that leaf and no other
  (`PatchedChunks`). `SlicesVouch` follows. For `FileIsItsSlices` the slice is the
  file's own (`PatchedBack`); it holds whatever tree the caller holds.

### The compression function

`KernelsInv`, `KernelsAgree` (in `ImplementationProofs`). The nine forms implement
`Mixing`, step for step, for any set `W` of words and any inputs made of them.
The assumption `WordLaws(W)`: `W` holds the IV and is closed under the operators,
and exchanging the halves of a word is `RotR` by 32. Nothing else about
addition, shifts or exclusive-or is used, because the forms differ in where a
word stands and not in what is done to it. The argument goes from lanes to
states: one lane of a vector G is G on four words, with either rotation
(`MixLaneAgrees`); a vector G, in one piece or in two halves, is four such lanes
(`LaneWiseQuarters`, `VectorGQuarters`), and four applications of the portable
G, which touch disjoint words, are the same (`ColumnWords`, `DiagonalWords`);
every selector list and both ARM programs rotate row r by r lanes and back
(`ShufflesRotate`, `NeonRotates`, `RotatedRows`), so a rotated row read back
stands where the diagonal needs it (`ColumnsAgree`, `DiagonalsAgree`); the three
row-3 constructions and the four output vectors agree with the portable state
(`LoadAgrees`, `OutputAgrees`). `CompressIInv` is the shape of the rows and the labels
at which each family of forms can be.

### The constant-time utilities

`UtilitiesAgree` (in `ImplementationProofs`), for words of any
width that is a power of two (`WidthAssumption`), memory of any length and every
condition. What `&`, `|` and `^` do is shown digit by digit (`DigitsOfWords`),
from the equation of `AndBits` (`AndEquation`); it does not depend on the digits
above or below (`DigitsAbove`, `DigitsBelow`), so words of n bits stay words of n bits
(`WordsClosed`).

- Selection: `x & ~mask` is x or 0, as the mask has no ones or only ones
  (`AndOnes`, `ZeroWords`, `SelectIs`).
- `blake4_ct_memcmp`: the accumulator is 0 exactly if all bytes visited agree
  (`Compared`), and one of its 8 bits is 1 exactly if it is not 0 (`AnyBitIs`).
- `blake4_ct_eq64`: after folding `diff` down to Pow2[k] bits, these bits are all
  zero exactly if `diff` was (`OrFolds`, `BothHalvesZero`); at one bit that is
  the answer (`FoldedLast`). The width is halved exactly as often as it is a power
  of 2, which is where `WidthAssumption` is needed.
- `blake4_ct_lt64`: the difference wraps exactly if a < b (`Wraps`); the highest bit
  of `|` and `^` is that of the operands' highest bits (`HighBit`), so with a and b
  split into highest bit and rest the borrow is a table of one-bit cases
  (`BitTable`).
- `UtilityIInv` is the invariant: `Progress` says, for each function on memory,
  what it has done with the first `i` bytes (`Compared`, `Cleared`, `Copied`). The
  properties alone are not inductive, since they say nothing before the return.

### Checked by TLC only

Liveness (`CallsReturn`): fairness and ENABLED are out of the prover's reach. That
the words of `Words` and the digits of `AndBits` are those of the machine is
checked by value, not proved.

## 7. What is not modelled

- Registers, stack frames and calling conventions of the assembly: the model has
  what is computed, row for row. The two Windows files
  (`src/blake4_avx2_x86-64_windows.asm`, `src/blake4_avx512_x86-64_windows.asm`)
  are not built by `CMakeLists.txt` and their symbols are declared nowhere. On
  reading, their stack offsets do not fit their prologues (eight pushes place
  the fifth and sixth argument 8 bytes below where they are read, and the
  AVX-512 file stores the message beyond its frame), so they are no source
  for a model of working code.
- Timing of the constant-time utilities: the model has what they compute.
- The 64-bit wrap of `chunk_counter`. A buffer of another origin could hold
  2^64 - 1, after which `total_chunks` is 0 and the loop at `src/blake4.c:281`
  has no end; no structs with such counters are among `Others`.
- What is behind the struct when the stack of a hasher restored from such a
  buffer leaves it.
- Cryptographic strength: the modules about trees take the compression function
  as ideal.
- The Windows thread layer is covered as far as it gives the same guarantees as
  pthreads. A build without threads is the sequential hasher.
- Bindings, tests, fuzzers, tools, benchmarks, build files: clients of the
  library. CMake's choice of sources is the constant `Linked`.

## 8. Plan

In order of importance; all are done.

1. Sequential hasher: `Compression`, `TreeHash`, `HashSpec`, `HasherOps`,
   `Hasher`, with proofs.
2. Dispatch: `Dispatch`, with proofs.
3. Parallel hasher: `ParallelOps`, `ParallelBatch`, `ParallelHasher`, with
   proofs.
4. Stream: `StreamOps`, `StreamDecoder`, `Stream`.
5. Compression: `MixingOps`, `Mixing`, `Kernels`, with the refinement proved.
6. Calls without state: `CpuFeatures`, `CtUtils`, `HashCalls`.
7. `Recursion`, `TreeProofs`: the hasher implements `HashSpec`.
8. `DigestSeparates` as a theorem: the map from mode and message to the root
   block is one to one.
9. `StreamProofs`: what a decoder delivers, the shape of the tree, the size of
   proofs, the verdict on slices and files.
10. `DetectionExact` for every machine; `CallsHashTheirInput` and
    `SeparatedButForHMsg` for all operands.
11. `CtAgrees` for words of any width and memory of any length.
