# Encodecrypt in TLA+

Encodecrypt is a C program that compresses files with Huffman codes into `.huf`
archives, encrypts files with AES-128 in ECB mode, and chains the two. This
directory models its components, model-checks them with TLC and proves theorems
about them with TLAPS. The modules are written from the source; a definition and
the code it stands for are paired in `PROJECT.json` under `map`.

## 1. The system

| Part | Source | State it keeps | Operations |
|---|---|---|---|
| Thread pool | `compress/utils/threadpool.c` | linked list of jobs, `count`, `working`, `shutdown`, a mutex, two condition variables, an array of threads | `threadPoolCreate`, `AddJob`, `Wait`, `Destroy`, `workerThread` |
| Archive creation | `compress/src/archive/archive.c` | archive file, table of entries, one `CompressionJob` and one temporary file per input | `createArchive`, `compressFileWorker`, `compressToFile` |
| Archive extraction | same file, `compress/src/core/decompress.c` | temporary files in `/tmp`, output files | `extractArchive`, `extractFile`, `decompressFile` |
| Archive listing | same file | none | `listArchive` |
| Huffman coding | `compress/src/huffman/huffman.c`, `core/compress.c`, `utils/decompress_utils.c`, `utils/bit*.c` | tree, code table, bit buffers | `huffmanAlgorithm`, `buildCanonicalCodes`, `compressFile`, `reconstructCanonicalCodes`, `prepareCanonicalRows` |
| File encryption | `encrypt/src/file_ops.c` | file image in memory, a pool for its blocks | `process_file_syscalls` |
| Directory encryption | same file | a pool for its files, an error counter, the directory | `process_directory`, `directory_file_task` |
| AES-128, key | `encrypt/src/aes.c`, `key.c` | 4x4 state, key schedule | `encrypt`, `decrypt`, `derive_key_from_password` |
| Input collection | `compress/utils/file_utils.c` | growing list of paths | `expandPaths`, `collectFilesRecursive`, `readEntireFile`, `ensureDirectoryExists` |
| Command line, pipeline | `main.c`, `compress/main.c`, `encrypt/main.c` | intermediate archive | `handle_compress`, `handle_encrypt`, `handle_pipeline` |

How they interact. `createArchive`, `process_file_syscalls` and
`process_directory` each own one thread pool: they create it, submit jobs, wait
and destroy it, all from one thread; the jobs run on the pool's workers and share
only their own argument with the submitter. `process_directory` nests: a worker of
the directory's pool runs `process_file_syscalls`, which makes a pool of its own for
large files. Everything else is passed through files: jobs leave temporary files
that `createArchive` appends, extraction cuts a member into a temporary file that
`decompressFile` reads by name, and the pipeline passes an archive from one
stage to the next.

Hard behaviours, and what correctness means for each part:

* **Thread pool**: lost wake-ups, shutdown racing submission, a crash in a
  half-built pool. Correct: a FIFO executor that runs each accepted job once and
  whose `Wait` and `Destroy` return exactly when all have run.
* **createArchive**: partial failure of any of N jobs, of the merge, of the table
  write; jobs and a mutex on the stack used by workers. Correct: every entry on disk
  names its own member, or says there is none.
* **Extraction**: damaged archives; temporary names shared between processes.
  Correct: a member comes out under its own name or is reported.
* **Huffman coding**: integer widths, ties, degenerate inputs. Correct: the
  decoder rebuilds the encoder's table and inverts it.
* **Encryption**: padding at block boundaries, a file that changes between `fstat`
  and `read`, parallel blocks, a directory that changes while it is read. Correct:
  decryption inverts encryption, file by file and directory by directory.
* **AES**: tables, key schedule and inverse layers. Correct: AES-128, and a decryption that
  retraces it; a password decides what comes out.
* **Input collection**: links that lead back up, failures while a list grows. Correct: every file
  below the inputs once, or given up.
* **Pipeline**: stages that truncate, overwrite and remove each other's files, any of which may fail
  or be killed. Correct: a sealed archive is never lost, and what unpack restores is what was packed.

## 2. Modules

| Module | Role |
|---|---|
| `JobPool` | what callers rely on: the abstract job pool |
| `JobPool_proof` | TLAPS proof of its invariant, from which the proofs about callers take their facts |
| `ThreadPool` | `threadpool.c` |
| `ThreadPoolInv`, `MCThreadPool` | its properties, inductive invariant and refinement mapping; its instances |
| `ThreadPool_proof` | TLAPS proofs of the safety properties and of the refinement |
| `ArchiveFormat` | blocks, entries and tables of a `.huf` file |
| `CreateArchive` | `createArchive` and its workers, on an instance of `JobPool` |
| `CreateArchiveInv`, `MCCreateArchive` | its properties and instances |
| `CreateArchive_proof` | TLAPS proofs of its safety properties |
| `ExtractArchive` | `extractArchive`, `extractFile` and `listArchive`, several processes |
| `ExtractArchiveInv`, `MCExtractArchive` | its properties, `ConsistentScenarios`, its instances |
| `ExtractArchive_proof` | TLAPS proofs of its safety properties |
| `CanonicalCodes` | canonical codes from their lengths, as the encoder and as the decoder compute them |
| `Huffman` | a file through `huffmanAlgorithm`, `compressFile` and `decompressFile` |
| `HuffmanInv`, `MCHuffman` | its properties and instances |
| `Huffman_proof` | TLAPS proofs of its safety properties: optimal codes, a decoder that finds them, restored inputs |
| `PaddedBlocks` | PKCS#7 padding and the cipher, block by block, as pure operators |
| `FileCrypt` | `process_file_syscalls`, on an instance of `JobPool` |
| `FileCryptInv`, `MCFileCrypt` | its properties and instances |
| `FileCrypt_proof` | TLAPS proofs that `decrypt` goes the way of `encrypt` back for every block and password, that unpadding and decryption of files are inverses, and of the safety and action properties of `FileCryptInv`; extends `AESFacts` too |
| `CryptNames` | the name of the output of an encryption or decryption |
| `DirCrypt` | `process_directory`, on an instance of `JobPool`, and its tasks on one directory |
| `DirCryptInv`, `MCDirCrypt` | its properties, `TwoCalls`, its instances |
| `DirCrypt_proof` | TLAPS proofs of its safety properties |
| `AES` | `aes.c`, `key.c` and `derive_key_from_password`, one layer per step |
| `AESInv`, `MCAES` | its properties, published vectors and passwords |
| `AESFacts` | what the tables and the arithmetic of single bytes come to, as closed formulas that TLC evaluates for all bytes |
| `FileList` | `expandPaths` and `collectFilesRecursive` |
| `Pipeline` | the commands of `main.c` on one archive; extends `FileList` and `CryptNames` |
| `FileListInv`, `PipelineInv`, `MCPipeline` | their properties, `DistinctInputs`, their instances |
| `Pipeline_proof` | TLAPS proofs of the safety properties of both |

An operator whose comment begins with "Variant:" is not part of a model: it is a
plausible slip in the code, kept beside the definition it would replace, that shows
that a property of the runs can fail.

### Thread pool

One variable per field of `JobQueue`, with `next` for the list; `pc[w]` and `cur[w]`
for each worker; `client`, `created`, `joined` for the one thread that owns the pool.
A critical section is one action, as all shared data is under the one mutex and a
thread that waits on a condition variable re-tests its loop condition. Signals wake
an arbitrary sleeping thread; both waits may also wake spuriously. `accepted`,
`refused`, `started` and `runs` are history: what was called and executed.

`JobPool` keeps only that history and the phase of the owner. `ThreadPool` implements
it under the mapping `PoolPhase`; `CreateArchive` is built on it, so what is shown of
`createArchive` does not depend on how the pool works inside.

### createArchive

Files are sequences of *blocks*, the 8192-byte pieces that the copy loops move; a
member of n blocks is `<<i, 1>> .. <<i, n>>`, and `Torn` is a piece of a block. The
main thread is `pc`, each statement that can fail has both outcomes, and `work[i]` is
how far the worker has come with job i. What a compression writes may lack any number of
blocks at its end, as `bitWriterWrite` ignores the result of `write`. `Kill` ends the process
at any moment; the archive stays as it is on disk.

`outcome` records, for the properties, how the merge loop left each input.

### Extraction

Every process has its call and its archive, and all share the names
`/tmp/huf_extract_<i>.huf`. An inode keeps its content when its name is removed; a
writer keeps its position, so that truncation by another process leaves a hole; the
mapping of `bitreader.c` shows the file as it is at the time of decoding, and touching
what was cut off ends the process. Decoding blocks that are no member's may fail or
produce something else (`Garbled`). Archives are those that `createArchive` can leave:
complete, with a skipped input, a torn or a short member, killed before the table was
rewritten, without a table, without a header.

Two steps are coarser than the code. `OpenInput` is all that `decompressFile` does before it decodes
(`decompress.c:11-59`): it opens the temporary file, reads and tests the header, truncates the output and maps what is there, in
one step, so no other process comes between these calls. `CopyFails` leaves no torn piece behind: a torn tail
decodes no better than one that is missing.

`listArchive` goes through the table entry by entry and needs no temporary name. The call that a
process makes is `call[p].mode`: `all`, `one` or `list`.

### Huffman coding

`CanonicalCodes` keeps the integers at their widths: `first_code` is `uint32_t`
(`CodeWidth`), every other code `uint64_t` (`WideWidth`). A shift by the width or more
is undefined, and `ReadHeader` then takes any table of codes.

In `Huffman` a node without a parent is a record of its weight, its order and the depth
of its leaves: all that the comparison and `assignCodes` look at. `codes` after an
input with one symbol is any function to `Garbage`, as nothing was assigned. The bit
writer's chunks arrive in part when a write is cut short (`lost`); the bit reader goes
through the stream bit by bit, with `current_code` and `current_length`. The end
`rejected` stands for data at fault, `failed` for a failed call: the code returns -1
for both. A decoding may also start from a file that no encoder wrote. The number of
trailing bits is written and read, and used by nobody; the model leaves it out.

### File encryption

`process_file_syscalls` is `pc`, with `padded` and `total` for `padded_size` and
`total_bytes` and `buf` for `file_content`; what lies behind an overrun buffer
is part of `buf` too. The pool of a large file is an instance of `JobPool`, whose jobs are
the indices of blocks; without memory for a task, or refused by the pool, a block is
transformed by the main thread. `Edit` is another process that rewrites the input
while it is read. Names are sequences of units of four characters, so that `.enc` and
`.dec` are one unit, and `Cut` is the truncation by `snprintf`.

### Directory encryption

The main thread of `process_directory` is `pc`; `seen` is what `readdir` has returned, `inline`
the file that the main thread processes itself, `stage[n]` how far the call of
`process_file_syscalls` for file n has come, in whatever thread. `readdir` returns each file that was
there at `opendir` once, and may or may not return a file that was created since. A task measures
its input, reads it, creates its output and writes it, in four steps, so that tasks on
`f`, `f.enc` and `f.enc.enc` interfere as they do in the code: a file that is being written may be read
in part (`Torn`), one that has grown since `fstat` overruns the buffer or leaves no room for the
padding. The contents of a file are what it was in the beginning and the layers of encryption on it:
that a decryption takes one layer off is `RoundTrip` of `FileCrypt_proof`. What a content began and ended
with tells its size as far as the code asks for it: one that ends with a mark of `Ragged` has no whole blocks,
so that its decryption goes beyond the buffer and produces anything (`Images`) or ends the process (`BlockOverruns`);
one that begins with a mark of `Large` has `MIN_BLOCKS_FOR_PARALLEL` blocks, and the pool that its task makes for them may
end the process when its creation fails half-way (`BlockPoolAborts`). Names are those of `FileCrypt`, without
the path of the directory, and `Target` is the name that `output_filename` has room for: the task writes there
with success, be it the file it has just read or some other one of the directory. A directory
whose own path takes 255 characters, so that every output has its name, is left out. `NextCall` is the
user, who deletes the plain files that were encrypted and decrypts the directory.

### AES

A block is encrypted under the key of one password and decrypted under the key of another. The key
schedule makes one word per step, `encrypt` and `decrypt` apply one layer per step; `trace` remembers
the states that `encrypt` went through. Bytes are numbers, and exclusive or and the product in GF(2^8) are
computed as in `gf_mul`, bit by bit. The tables are the program's.

### Input collection

A file system object is a node and a path a sequence of nodes, so a link to a directory above is a
node with that directory's entries and the recursion (`stack`) ends only at `MaxPath`, the room in
`full_path`. The capacity of the array is the length of `paths`; a slot that was allocated and not
filled is `Unset`. `missed` records what was given up, with a warning or, when `strdup` or `realloc`
fail below a directory, without.

### Commands and pipeline

A command of `main.c` is a sequence of stages, each with its failures: `expand` (the steps of
`FileList`), `create`, `read`, `output` and `write` (the parts of `process_file_syscalls` between
which something is on disk), `derive`, `extract`, `list` and `cleanup`. `fs` holds the archive and its encrypted
file; an archive is the number of the command that made it, the files it can restore and
the passwords it is encrypted with. `createArchive` may return 0 and leave out members, as it does when
an input cannot be read or a copy fails; `write` may store less than asked, without an error; `Kill`
ends the command at any moment. Commands follow one another: pack and unpack with and without
`--cleanup`, `-c`, `-x`, `-l`, `-e` and `-d`, under two passwords. The separate programs in
`compress/main.c` and `encrypt/main.c` are the same commands.

`lastPack` is history: which pack sealed the archive, and which paths it had given up. It is forgotten
when the user replaces the files on purpose with `-c` or `-e`, and when a pack fails in the last write.

## 3. Runs

| Run | Instance | Shows |
|---|---|---|
| `ThreadPool` | 3 workers, 3 jobs, `FairSpec` | no lost wake-up (`NoLostCompletion`, `NoIdleBacklog`), no freed node used (`NoDanglingNode`), a crash only after a failed creation, the inductive invariant `IInv`; `threadpool.c` implements `JobPool`; accepted jobs run, `threadPoolWait` and `threadPoolDestroy` return (`OwnerCallsReturn`) |
| `CreateArchive` | 3 inputs, 2 CPUs, `FairSpec` | entries read back what was copied, jobs and the stack mutex outlive their users (`JobsUseLiveMemory`), `createArchive` ends |
| `ExtractArchive` | 2 processes; every call on 7 archives of 2 members, an extraction beside single extractions and listings, and every pair of calls on 1 member; `FairSpec` | no member with another's contents; one bad member does not stop the others, also beside calls that extract one file or list; nothing is left in `/tmp` when all succeed; every call ends |
| `ExtractArchive_nodata` | 1 process on an archive with an entry that has no data | *violated*: the entry is extracted with the next member's contents |
| `Huffman` | 4 symbols, every text up to 5 and every frequency up to 3, 36 damaged files, `FairSpec` | codes are prefix-free and optimal, the decoder rebuilds them and restores the text; it ends and stays in its tables whatever file it reads |
| `Huffman_single` | inputs of one distinct symbol | *violated*: the text is not restored |
| `FileCrypt` | every content up to 2 bytes and some longer, 4 kinds of names, one rewriting of the input, `FairSpec` | the output is the image of what was read, decryption inverts encryption, the input is kept; the heap is only overrun after an edit or for a broken file; the call ends |
| `FileCrypt_write` | 2 names, 6 contents | *violated*: a short write counts as success |
| `DirCrypt` | `f`, encrypted and decrypted; a small `f` with an unrelated large `f.enc`, each way; two names that leave no room for `.enc`, encrypted; 2 workers, `FairSpec` | a call that returns 0 has processed every file, save those that tasks share; the counter on the stack has no user left; the process only dies when tasks share a file, a file of no whole blocks is decrypted, or a pool, nested ones included, is not created; a round trip gives the files back unless names clash, are too long, or an image was encrypted once more; the call ends although it fills the directory that it reads |
| `DirCrypt_roundtrip` | `f`, encrypted and decrypted | *violated*: both calls succeed and `f` is not what it was |
| `AES` | 4 published vectors, 2 blocks under 7 pairs of passwords | `encrypt` is AES-128; `decrypt` goes back through the same states; passwords are the same exactly when their first 16 bytes are |
| `Pipeline` | 3 commands, 3 archive names, 2 passwords, a directory with a file, a fifo and a link to itself, one failure per collection and archive, `FairSpec` | the list has no empty slot and every file once; a sealed archive is on disk at every moment; unpack opens exactly what its password sealed, and restores the files below the inputs of the pack; commands end |

Bounds. Three workers and three jobs let a queue build up behind busy workers, leave
workers asleep while others run, and let the list empty and refill; two of each already
give every race between a signal and a sleep, and the proofs cover every number. Two
CPUs for three inputs make a worker take a second job; three members put one between
two others in the data area. Two processes are enough to interfere on a name, and
with one member they interfere on both kinds of name (`0` and `1`). Four symbols give
every shape of tree up to depth three, with ties among leaves and between leaves and inner
nodes; bytes of four bits and chunks of two bytes put codes across the borders of both.
Blocks of two bytes with values 0..2 hold every padding, and contents that
look like it; two blocks are enough for a pool, and five let it work beside the main thread.
One plain file becomes up to three in its directory, which is enough for a task to
write what another one reads and for two tasks to write one file; two workers and the main thread let all
of them run at once. `NameLimit` 3 has room for all that a round trip makes of `f`; a name of three units is cut off to itself and one of
four to that name, so that a task writes over its own input while another one writes there too. `MaxNew` lets `readdir`
return one new file per call, which is what `DirCrypt_roundtrip` needs; the proofs hold for any number.
Each AES instance is 40 words and 80 layers; the vectors reach every entry of `round_constants`, and the
passwords are empty, short, full and longer than the key, or differ in one bit or in length alone.
Three commands are a pack, whatever follows it, and an unpack (`MaxCommands`). `MaxPath` is 2 nodes, so that the
link is entered once and what is behind it is too long; `FirstCapacity` 1 makes the array grow for the second
path; `MaxFailures` allows one failure in each collection and creation, `NameLimit` 2 units. The names of
the archive fit, are cut off to the archive itself, or to a third name.

Fairness. `ThreadPool!Fairness` is weak fairness of every worker and of the owner inside
a call: threads are scheduled, mutexes are eventually granted and job functions return.
The owner need not make another call, and spurious wake-ups are never needed for progress:
they have no fairness. `CreateArchive` and `ExtractArchive` assume the same of their
threads and processes, and that system calls return. In `FileCrypt` and `Huffman` the
failures and the edits are left out of the fair actions: the ends are reached without
them. `DirCrypt` needs only that some thread of the call goes on (`WF_vars(Progress)`), as there is an end to
what each can do; a file that is passed over is not part of it. `Pipeline` needs that a stage goes on once it
has begun; nobody has to give a command.

Deadlock is checked in every run; the ends of a program are explicit self-loops
(`Terminated`).

## 4. Proofs

Each `_proof` module extends the module with the properties of its component. Its invariant is a conjunction of
named parts, with one lemma per kind of step; TLC had checked every invariant on the runs' instances (section 3) before it
was proved, but for those of AES, which speaks of some key schedule, and of Huffman coding, whose sums range over all sets and
levels: there TLC checks what follows from it. The assumptions on the constants are those of the component's own module, which TLC evaluates in its run.

**The pool.** `ThreadPool_proof`, for every non-empty number of threads and every set of jobs
(`NumThreadsAssumption`, `NULLAssumption`):

* `Invariant`: `Spec => []IInv`. `IInv` is the conjunction of `TypeOK`, `HistoryInv`
  (what was started is a prefix of what was accepted), `ListInv` (the linked list holds the
  rest, in order), `RunInv` (a started job has run, or one worker has it in hand),
  `WorkInv` (`working` counts the workers between taking a job and accounting for it),
  `PhaseInv` (which phases of the owner go with which thread states),
  `NoLostCompletion` and `NoIdleBacklog`. The last two need the others: that a signal is
  not lost depends on `working` counting exactly the busy workers, and `NoDanglingNode` on the
  list holding exactly the jobs not started.
* `CompletionNotLost`, `BacklogNotIdle`, `NodesLive`, `CrashConfined`: the safety properties of the
  run, from `Invariant`; and `TypeCorrect` and `DestroyDrains`, which the run has as parts of `IInv` and of
  `ImplementsJobPool`.
* `Refinement`: `Spec => ImplementsJobPool`, step by step under `PoolPhase`. The bound on
  jobs in progress comes from an injection of those jobs into the workers that run them.

`JobPool_proof` proves `PoolInvariant` of the abstract pool: jobs are started in the order in which they were accepted, run
at most once, and a closed pool has run all of them. The three callers instantiate it (`PoolFacts`) and carry `PoolInv`
in their own invariants: what they rely on is this, and `Refinement` says that `threadpool.c` provides it.

**Encryption of a file.** `FileCrypt_proof`, for every block size from 1 to `MaxByte` and every pair of
functions on blocks with `Dec[Enc[b]] = b` (`BlockSizeAssumption`, `CipherAssumption`):

* `UnpadInvertsPad`: the padding that `Pad` appends is valid and is what `Unpad` removes. The
  length of the padding fits in a byte because the block size does.
* `DecryptInvertsEncrypt`: on full blocks; block i of the image is the image of block i, as every
  position belongs to exactly one block (lemmas on `BlocksOf`).
* `RoundTrip`: `Decrypted(Encrypted(s)) = s`, from both and from the fact that padding leads to
  full blocks.

Then, for every content, name, number of threads and sequence of edits (`FileAssumption`): `IInv` says
how much of the input is in `buf` while it is read (`ReadInv`); that each block of `buf` is the image of that block of
the padded source if the main thread or a job has transformed it, and that block itself otherwise (`BlocksInv`, the heart of it);
and that the pool has exactly the blocks before `index` which the main thread did not take (`SubmitInv`). When the pool
is closed every accepted job has run, so all blocks are images, and `OutputCorrect` (`OutputIsTheImage`) follows;
with `RoundTrip`, so does `Decrypts` (`DecryptsWhatWasEncrypted`). `CrashExplained` and the action property
`InputUntouched` (`InputKept`) are about the same steps. That the cipher has an inverse, `CipherAssumption`, is what
`CipherIsAsAssumed` shows of AES.

**AES.** The first part of `FileCrypt_proof`, for every block and all passwords (`CasesAssumption`, which says that they are bytes, and characters
other than 0). What the tables and the product in GF(2^8) come to is computed, not derived: `AESFacts` states it as closed
formulas without constants, `inv_sbox` inverts `sbox`, exclusive or works bit by bit, a product with a coefficient of the inverse matrix adds up when the
other factor has one bit, the product of the two matrices takes a byte to itself, and the lists of layers mirror each other;
each ranges over at most 65536 cases, and TLC evaluates all of them whenever it checks `MCAES`. From these the proof derives what
TLC cannot enumerate:

* exclusive or is associative, commutative and its own inverse (`XorAssociates`, `XorUndoes`), and products add up for any two bytes, one bit
  more at a time (`OneMoreBit`, `ProductsAreLinear`);
* so `inv_mix_columns` undoes `mix_columns` on every state (`ColumnsComeBack`, by exchanging rows and columns of 16 terms), and the other
  inverse layers undo theirs (`RowsComeBack`, `BytesComeBack`, `KeysComeOff`): `LayerComesOff`;
* `CipherInvariant`: the words are the schedule of the password in use, however far it is made; `trace` leads from the block to the ciphertext
  by the layers of `encrypt`; and under the same key `decrypt` is where `encrypt` was (`DecryptInv`). From it
  `Retraces` (`DecryptionRetraces`) and `Opens`: passwords that agree on their first 16 characters open what each other
  encrypts, which is one half of `PasswordsDecide`. The other half, that any other password fails, is no theorem: whether two
  keys map one block to the same ciphertext is a matter of computation;
* `AESIsACipher`: for every password there is a key schedule, and under it the 40 layers of `encrypt` and of `decrypt`, one after
  another, are functions on blocks of which the second inverts the first. `CipherIsAsAssumed` says it of the blocks of `PaddedBlocks`
  with `MaxByte` 255 and `BlockSize` 16: the assumption under which files are proved to come back holds of the
  program's cipher.

**Huffman coding.** `Huffman_proof`, for every finite alphabet of numbers, every input, garbage and damaged file, and all widths
with `CodeWidth <= WideWidth` and `CodeWidth < LengthLimit` (`CodeAssumption`, `HuffmanAssumption`; they are 32, 64 and 256 in the
code, and a length in a file is a byte). What the tree, the codes and the decoder compute are recursive functions and folds of data of any size. The
induction theorems of the library cannot be instantiated, so the module starts with its own: a set of
numbers that holds 0 and successors is `Nat` (`Induct`), the same for finite sets (`InductSet`), and from them that a function which is
defined step by step exists (`Recursion`). A sum over a set is the cardinality of a set of pairs (`SumOf`), which needs no recursion; at the end
the folds of `HuffmanInv` are shown to be such sums (`FoldIsSum`, `CostIsSum`, `RoomIsKraft`).

* Codes. `Taken(lens, n, S)` is the room that codes of the symbols S take on level n. A table of lengths `Fits` if no
  level is overfull (Kraft's inequality), and the canonical code of a symbol is the room that the symbols before it, in the order of `compareEntries`, take on its level
  (`CodeOf`). From this alone: no code begins another one (`NoPrefix`), what `buildCanonicalCodes` computes level by level are these
  codes as long as none is longer than `CodeWidth`, and so is what `reconstructCanonicalCodes` computes entry by entry.
* Tree. `Forest`: the nodes without a parent have disjoint leaves, together all used symbols, and the depths below each of them
  are a full tree (`Full`). Joining two nodes preserves it, and at the end the depths are lengths that fit.
* Decoder. The codes of one row are consecutive numbers (`RowCodes`), a whole code is found at the place of its symbol (`CodeHits`), and a
  proper beginning of a longer code is found in no row (`BeginningMisses`).
* `IInv`: `Building`, `Coding` (from `Forest` to the codes), `Header`, `Streamed` (the stream begins with
  the codes of the input), `Tables`, and `Reading`, the heart of it: some number m of symbols is put out, and the bits read since are a
  proper beginning of the code of symbol m + 1. `Invariance` proves it; `RowsAlwaysThere` (`RowsAreThere`, for damaged files as well),
  `DecoderCodesAreRebuilt` (`DecoderRebuildsCodes`) and `OrdinaryInputIsRestored` (`RestoresOrdinaryInput`) follow.
* `CodesAreOptimal` (`OptimalPrefixCode`) needs one more invariant, about what the input can still cost (`Best`, `Optimal`): whatever
  lengths satisfy Kraft's inequality for the used symbols, the nodes that there are now can be put on levels that do no worse (`Reach`). The step is Huffman's exchange
  argument: the lightest node, which `huffmanAlgorithm` takes first, may change places with the deepest one and the second lightest with the deepest of
  the others (`Swap`); if the first is then the only one on its level it can come up to the other (`Lift`); so both may as well be children of
  one parent (`Siblings`), which takes their place one level up.

**createArchive.** `CreateArchive_proof`, for any number of inputs, processors, blocks and failures (`SizeAssumption`): `OwnerInv`
(which phase of the pool goes with which statement), `ResultInv` (a job that reports success has left its member's blocks in
its temporary file), `WorkInv`, `MergeInv` (inputs before `index` are merged, the others have zero entries), `CopyInv` (the member being
copied ends where the archive ends), `TableInv` (until the table is rewritten the archive is empty to a reader). From
them `TypeCorrect`, `LiveMemory` (`JobsUseLiveMemory`) and `ReadsBack` (`OnDiskEntriesReadBack`), the last in
every state that a kill may leave.

**Extraction.** `ExtractArchive_proof`, for any number of processes, archives and calls (`ArchiveAssumption`):

* `NothingIsLeft` (`NoTempLeft`), without further hypotheses: every temporary name belongs to a process that is going to remove it, or
  that has failed (`NamesInv`).
* `RestoresNoOther` (`OutputIsTheMember`) under `ConsistentScenarios`: the archives have no entry that points at another member's
  data, and calls that share a temporary name mean the same member by it. Both are needed: section 5 shows what happens without
  each. `MemberInv` says that a file which begins with the header of a member has a name through which some process extracts that
  member (`FirstInv`), so that truncation and interleaved writing by others can only damage it.
* `RestoresTheOthers` (`OthersRestored`) under the same hypothesis: while no other process extracts a whole archive, those beside it
  only touch slot 0, and the temporary file of the entry at hand is exactly the prefix that was copied (`RestoreInv`, `NowRestored`).

TLC evaluates the hypothesis on all scenarios of the run (`RacesAreConsistent`).

**Directories.** `DirCrypt_proof`, for every set of names, directory and number of threads (`DirAssumption`): `OwnerInv`, `TaskInv` (a file
that was returned has a task that has ended, or is worked on, or is accepted and has not run), `CountInv` (the error counter is the
number of tasks that have failed), `FilesInv` (a file is what it was unless a task writes it, which may be its own, `WroteItself`; what
is new has been written by one) and `ImageInv` (the way of an undisturbed file to an image of it). `TasksEndFirst` (`NoTaskOutlivesCall`), `CrashExplained`
(`CrashHasACause`) and `SuccessExplained` (`SuccessMeansProcessed`) follow. `DirectoryComesBack` (`RoundTrip`) is about an
encryption followed by at most one decryption (`TwoCalls`, which TLC evaluates on the run's plans): every file is carried
from one call to the other as itself or as its image (`HistoryInv`, `Carried`). That needs names that are not cut off: if there is
room for two more endings on every name of the beginning, there is for every name that tasks make of them, as long
as no image was encrypted once more (`NamesStayShort`, `NamesFit`).

The proof corrected the property. Its first version excused a directory only for a file beside its own `.enc`; the step that a
decrypted image is not overwritten failed for the files `f` and `f.dec`, as a plain `f` that is still there is decrypted into `f.dec`.
TLC confirms the counterexample on such a directory, and `RoundTrip` now names the case.

**Input collection and commands.** `Pipeline_proof`, for every tree of files, list of inputs, archive name and sequence of
commands (`FileListAssumption`, `PipelineAssumption`):

* `ListIsThere` (`ListedPathsExist`): the types and the property are inductive together.
* `FindsEveryFile` (`ExpandFindsEveryFile`), if no input is given twice (`DistinctInputs`, without which a file is listed
  twice; TLC evaluates it): `ExpandInv` says that every wanted path is exactly one of: listed; below a path that was given up;
  below something still to come on the stack or among the inputs (`Covered`, `Apart`, `Counted`).
* `Invariant`: `CommandInv` adds, for each stage, where it can be (`ControlInv`), which file it writes (`UncutInv`), that the sealed
  file holds the archive of the last pack (`SealInv`), that a pack that writes it still has the plain one
  (`PackInv`), and that an unpack works on the decryption of the sealed one (`UnpackInv`). From it `Recoverable`
  (`AlwaysRecoverable`), `UnpackOpens` (`UnpackOpensWhatWasSealed`) and, for distinct inputs, `UnpackRestores`
  (`UnpackRestoresThePack`).

**Only model-checked.**

* Liveness: `AcceptedJobsRun`, `OwnerCallsReturn`, `CreateEnds`, `ExtractEnds`, `CallEnds`, `WorkEnds`, `DirectoryEnds`, `CommandEnds`.
  They need fairness and `ENABLED`, which the prover does not have.
* AES: that it is AES (`EncryptsAsAES`), which is a matter of published vectors, and that other passwords do not open a block (the
  other half of `PasswordsDecide`).

## 5. Disagreements found

Each is a run that TLC refutes; `PROJECT.json` quotes the lines.

* An entry is entered before its data exists (`archive.c:215`): extraction yields another
  file's contents and reports success (`ExtractArchive_nodata`).
* An input with one distinct byte is compressed with codes that nobody wrote (`huffman.c:112`,
  `Huffman_single`).
* A write of an encrypted file that is cut short counts as a success (`file_ops.c:254`,
  `FileCrypt_write`).
* Reading a directory while tasks add files to it (`file_ops.c:298`): `readdir` returns `f.enc` while it is
  written, its image `f.enc.enc` is decrypted over the real one, and `f` is lost with two successes
  (`DirCrypt_roundtrip`).

The models also contain, without a run of their own:

* Decrypting a file whose size is no multiple of 16 reads and writes beyond the buffer (`file_ops.c:178`): the
  warning says that it may fail, and the process may end (`NoPadding`, `BlockOverruns`).
* `first_code` is 32 bits wide in the encoder and 64 in the decoder (`huffman.c:75`, `decompress_utils.c:32`): a code of 33 bits,
  which takes a file of 9.2 million bytes with frequencies like Fibonacci's, loses its first bit. `Ordinary` leaves such
  codes out; without that, and with `CodeWidth` 2, TLC refutes the properties of the run `Huffman`, whose longest codes
  are of exactly `CodeWidth` bits.
* An archive path of 252 characters or more loses `.enc` (`file_ops.c:212`): pack names a file that it did not
  write, the encrypted archive may take the place of the plain one, and `--cleanup` (`main.c:361`) then removes it.
  `AlwaysRecoverable` leaves out the name that is cut off to itself, `UnpackOpensWhatWasSealed` every name that is cut off.
* The pool that a task of `process_directory` makes for the blocks of a large file may fail half-way in its creation and end
  the process with all other tasks (`file_ops.c:171`, `BlockPoolAborts`).
* A directory whose files have paths of 252 characters or more is encrypted with success into files of other names, which may
  be files that were there (`Target`): `SuccessMeansProcessed` speaks of the name that fits, `RoundTrip` leaves such names out.
* Temporary names of extractions depend on the entry's number alone (`archive.c:390`): two that extract whole
  archives at a time destroy each other's files and still return 0. `OthersRestored` therefore speaks of a process
  beside which nobody else does (`OnlyAllCall`); without that conjunct TLC refutes it.
* A write of the encrypted archive that is cut short counts as a success, and a pack with `--cleanup` then removes the
  whole archive: `lastPack` forgets in that case.
* A skipped input leaves a zero entry in an archive that is reported as created (`archive.c:210`), the count of
  compressed files includes failed ones (`archive.c:238`), the bit writer ignores the result of `write`
  (`bitwriter.c:22`), and `-f` without `-o` looks for a directory with the member's name (`archive.c:536`).

## 6. Plan

All modules of the plan are written, and every safety and action property of the runs is proved except `EncryptsAsAES` and the
half of `PasswordsDecide` that is a matter of computation. What could still be added: action properties of the merge loop of
`CreateArchive` and of the temporary names of `ExtractArchive`, and the races on the output directories of extractions, which have no model.

## 7. Not modelled

* Messages, the parsing of options, field widths and byte order of the archive, the ratios that are printed.
* `num_threads <= 0`, `NULL` arguments of the pool, and the overflow of its `int` counters: no caller gets there.
* The overflow of `int` frequencies (2 GiB of one byte) and of the number of blocks (files of 32 GiB).
* `ensureDirectoryExists` and `readEntireFile` have no module: they are the outcomes of the steps of `ExtractArchive` and
  `CreateArchive` that call them. Races on the output directories of extractions are left out: names of output files are
  private to a process.
* In `Pipeline` a directory that is given to `-e` or `-d` is left to `DirCrypt`, `-f` is an `extract`, and the temporary
  files of `extractArchive` to `ExtractArchive`. The input files do not change while commands run.
* In `DirCrypt` a directory whose own path fills `output_filename`, and the bytes of files: `Images` stands for anything that a
  decryption beyond the buffer may produce.
* `DirCrypt` follows no call after a write that was cut short: `FileCrypt_write` shows what that does.
* The shell scripts, makefiles and sample data.
