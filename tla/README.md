# BtcK: specifications

TLA+ specifications of BtcK, the C API around the Bitcoin Core kernel library, and of the C++ wrapper, the Python binding and the Swift binding that are built on it. TLC checks small instances of every module; the modules whose name ends in `Proofs` prove the central invariants for every value of the constants.

Paths below are relative to the repository, the one of `include/`, `src/`, `bindings/`, `doc/` and `test/`.

## 1. The system and its parts

### The library (C++ behind a C API)

| Part | State it keeps | Operations |
| --- | --- | --- |
| Object lifetimes: `src/util/api.hpp`, `type_mapping.hpp`, `btck_block.cpp`, `btck_transaction.cpp`, `btck_transaction_output.cpp`, `btck_script_pubkey.cpp` | heap objects behind opaque pointers. A `BtcK_Block` is a `CBlock` whose `vtx` holds shared pointers, a `BtcK_Transaction` is such a shared pointer, so `CTransaction` objects are shared and reference counted; outputs and scripts hold their data | `_New` (parses bytes, may fail), `_Copy`, `_Free`, `_ToBytes`, `_ToString`; `GetTransaction`, `GetOutput`, `GetScriptPubkey` lend a pointer into the object |
| Errors: `src/util/error.{c,cpp,hpp}`, `btck_error.cpp`, `verification_error.c` | `BtcK_Error` objects of three allocations, and one static `OOM_ERROR` | `WrapFn` catches what a call throws, `TranslateException` describes it, `BtcK_Error_New`, `_Free` |
| Text: `verification_flags.c`, the `ToString` functions | none; the caller's buffer | writes up to the size of the buffer, returns the full length |
| Verification: `btck_script_pubkey.cpp` | none | checks its arguments, copies the spent outputs, runs `VerifyScript` |
| Chain: `chain.{hpp,cpp}` | the active chain of the kernel | `CountBlocks`, `GetBlock`, `FindBlock` |

### What is built on it

| Part | State it keeps | Operations |
| --- | --- | --- |
| C++ wrapper, calls: `include/btck/btck.hpp`, `src/btck.cpp` | the error of a call, the closure around the vector that collects bytes | `invoke`, `out_ptr`, `translate_error`, `to_string_`, `to_bytes_` |
| C++ wrapper, ownership: `btck.hpp` | a pointer per variable, owned or not | construct, copy, convert, move, assign, destroy; members that lend |
| C++ wrapper, ranges: `btck.hpp` | an unsigned index per iterator | move, compare, subtract, dereference, find |
| Python binding: `bindings/python/src/` | objects with a reference count, each with a pointer into the library or a value of its own; slices with a reference on what they are a slice of; a writer of bytes | constructors, getters, items, slices, `str`, `bytes`, `verify`, destructors |
| Swift binding: `bindings/swift/` | classes that own a pointer, `...Ref` classes that view one, an error that owns the library's | initialisers that throw, items, `copy`, `data`, `description`, `deinit` |
| Rust, Java, Go, Julia, Lua bindings | - | switched off in the build (Rust), or written against an older C API: they call functions such as `BtcK_Block_AsBytes` that `btck.h` no longer has |

### How they interact

Calls go down by value and pointer; what comes up are new objects, which the caller owns, and lent pointers, which live as long as what they point into. `ToBytes` calls back: it hands pieces to the caller's function in the middle of the call. Errors travel through a `struct BtcK_Error**` and become exceptions again on the other side. Threads of the client share no lock; objects that look independent share transactions through reference counts. Python runs everything under its interpreter lock, but destructors run inside whatever statement drops the last reference.

### What is hard, and what makes each part correct

- *Objects.* Any thread may copy or free at any time, next to others that share the same transaction, and construction may fail half way. Correct: counts are exact, lent pointers stay valid, everything is freed once, nothing leaks, and to the client objects are independent values.
- *Errors.* Three allocations fail one by one while an exception is being reported; one static object is handed to everybody and must never be released. Correct: the exception that goes in comes out where an `err` is passed, failure shows in the result where none is, and nothing leaks.
- *Text.* A length is asked for first, and the text is written by a second call; the flags are printed piece by piece and any piece may hit the end of the buffer. Correct: no byte outside of the buffer, cut off where `snprintf` cuts, the right length, the whole text.
- *Bytes.* A buffer inside the writer gives way to an object that grows ahead of demand, near the largest size too; failures in the callback must not become exceptions below the C API. Correct: all bytes in order or an exception, no copy beyond a buffer, nothing left.
- *Slices.* Indices go through a chain of slices with starts and steps of either sign, of which each checks only its own length. Correct: the item a Python list would give, and no index out of the range of the object below.
- *Python objects.* Reference counts through chains of slices, and constructors that fail after the library has made something. Correct: exact counts, one owner for each object of the library, a base that outlives its slices, and nothing out of reach but what the views of constructors keep.
- *Verification.* The checks must leave nothing to the assertions of `VerifyScript`, and the conversion of a Python sequence may fail anywhere. Correct: errors say what is wrong, counts come out even, nothing but the array of pointers stays, what is read is alive.
- *Ownership in C++ and Swift.* Long sequences of moves, conversions and assignments; views of views; constructors that throw. Correct: one owner each, independent values.
- *Chain.* Unsigned indices, signed differences, a narrowing to `int`, and an index entry that may be null. Correct: iterators are where they were moved to, loops see the blocks in order, nothing null is read of a chain that has a tip.

The hazards are listed with their lines in `PROJECT.json`.

## 2. The modules

| Module | Models | Extended by |
| --- | --- | --- |
| `Objects` | object lifetimes and reference counts, several threads | `MCObjects`, `ObjectsProofs` |
| `ObjectValues` | the abstract specification that `Objects` implements | instance in `Objects` |
| `ErrorApi` | errors from exception to exception, several threads | `MCErrorApi`, `ErrorApiProofs` |
| `ToString` | printing into a buffer and the two-call protocol | `MCToString`, `ToStringProofs` |
| `BytesWriter` | `ToBytes`, its callback, and the two ways to collect bytes | `MCBytesWriter`, `BytesWriterProofs` |
| `Slices` | index arithmetic of Python slices | `MCSlices`, `PythonProofs` |
| `PyObjects` | ownership and reference counts in Python | `MCPyObjects`, `PythonProofs` |
| `Verify` | arguments and checks of script verification | `MCVerify`, `VerifyProofs` |
| `CppWrapper` | owned and unowned wrappers of C++ | `MCCppWrapper`, `CppProofs` |
| `SwiftObjects` | owning classes, views and errors of Swift | `MCSwiftObjects`, `SwiftObjectsProofs` |
| `OwnedValues` | the abstract specification that `CppWrapper` and `SwiftObjects` implement | instance in both |
| `Chain` | chains, ranges, iterators, the Python view of blocks | `MCChain`, `CppProofs` |

An `MC` module defines values of constants and the symmetry; the `.cfg` of the same name does the rest. A definition whose name ends in `Fault` is a faulty variant of the one that follows it; no specification uses it. It is there to show that a property would notice that mistake.

`Chain` and `Slices` each share a module of proofs with another component. What such a module extends must not define a name twice, so their specifications are `ChainSpec` and `SliceSpec`, with `ChainInit`, `SliceTypeOK` and so on.

### Objects

A *handle* is the heap cell of an API object, a *slot* a member of it that refers to a *body*, which for blocks and transactions is a shared `CTransaction` with its count in `use`. A call takes several steps, so that calls interleave at every allocation and at every change of a count, as atomic counters without a lock do. `NewBlock`, `NewTransaction`, ... begin a construction, `Deserialize` and `CopyRef`/`CopyData` fill one slot each, `Return` publishes the object, `Throw` unwinds it (at any slot: allocations and parses fail). `Free` and `Release` drop the slots one by one; the thread that brings a count to zero destroys the body in a step of its own. `ToBytes` calls back between pieces. A program keeps to the rules of C pointers: it passes live objects and does not free what another of its calls still reads; nothing else is assumed.

`ObjectValues` has none of this: values appear, are copied whole or in part, and disappear. The refinement maps an object that is being built or destroyed to no object. What a callback of `ToBytes` does to other objects is what another thread may do meanwhile.

### ErrorApi

Each thread's call ends by returning or by throwing one of the exceptions that `TranslateException` tells apart. `Catch` is `WrapFn`; `Malloc`, `DupDomain`, `DupMessage` and `Check` are the four steps of `BtcK_Error_New`; `TranslateError` is `invoke` and `translate_error` of C++, `SetError` the Python function, `Inspect` what a C program does; `Release` frees the error. A caller passes an `err` or not: a C program as it likes, the wrappers always, except for the constructors of Python's `Block` and `Transaction`, which never do. `live` is a set of allocated parts, in which `OOM_ERROR` is for ever.

### ToString

The characters of a text are its positions, so that memory that holds position *j* at *j* holds the text. `ctx` is the `struct Context` of `verification_flags.c`. Modes tell who calls: C with any buffer, the wrappers of C++ and Python for the length and then for the text, and Swift. A `ToString` function that is out of memory throws through the C API (`Throws`).

### BytesWriter

`alloc`, `size`, `obj` and `writer` are the fields of `PyBytesWriter`; `mem` is the memory behind `byteswriter_data`; bytes are again positions. `WriteFits`, `WriteGrows`, `WriteFails` and `ResizeFails` are the outcomes of `PyBytesWriter_WriteBytes`, `Insert` and `InsertFails` those of the C++ callback, `AppendData` that of Swift's, which cannot fail.

### Slices and PyObjects

The same C code seen twice, because index arithmetic and ownership do not depend on each other. `Slices` has a stack of slices of one object next to what the same slicing makes of a Python list (`views`), and follows a look-up down the stack. `PyObjects` has cells with counts and looks at who refers to what; destructors run before anything else does, as they do in CPython. Values (`bytes`, `BlockHash`, `VerificationFlags`) are cells without a pointer; `pinned` counts the views of their bytes that constructors take and never release; they keep the bytes and hashes that they are of, and `OnlyViewedStay` says that nothing else stays out of the program's reach. `item` of a slice of a slice is never assigned (`_slice.c`), so what is there is a choice: null, or junk. In `Slices` a call through junk ends the behaviour (`CallJunk`); `PyObjects` takes the null branch, the one that looks the item up.

### Verify

One call after another, each with any combination of arguments: the conversion of the spent outputs (Python) or the array (C++), the copy that the library makes, its checks in the order of the source, and the call of `VerifyScript`. `count` has the reference counts of the outputs; a cell with none is read as `Garbage`. `array` says whether the array of pointers that `convert_tx_outputs` allocates is there: `CollectFails` frees it, nothing else does, and the next call cannot reach it any more.

### CppWrapper and SwiftObjects

In `CppWrapper` a variable has a class, a policy, a pointer and a position in its life; a pointer knows the object it points into and what is there. The class template's members are the actions, and ranges are variables that view. Copy assignment and `rbegin()` do not compile for any type (they swap with a temporary, and convert explicitly), so no program has them. A program does not assign a variable to itself, and keeps what a view points into.

In `SwiftObjects` an instance has a class, a pointer and the references that the program holds; `Release` of the last one runs `deinit`. An initialiser makes an instance or throws a `BtcKError`, which is an instance too.

Both implement `OwnedValues`, which has names and values and nothing else. What a name owns is what it stands for; a name that views stands for nothing.

### Chain

The active chain is fixed in `Init`, with any number of blocks from none up: no function of the repository creates or changes one. A null index entry that is dereferenced ends the process. `it` is the `idx_` of an iterator, `pos` where the program has moved it, in mathematical integers. The widths of `size_t` and `int` are constants, given as half of the numbers that a type has: `SizeHalf` is 2^63 and `IntHalf` 2^31 in the program. `front()` and `back()` are used on ranges that are not empty.

## 3. The runs

| Run | Properties | Instance |
| --- | --- | --- |
| `objects` | `RefCount`, `NoDangling`, `DestroyedOnce`, `NoLeak`, `Serialized`, `CopyOfPart`, `ImplementsValues`, `CallsBounded`, `CallsReturn` | 2 threads, 2 handles, 3 bodies, 2 contents, blocks of up to 2 transactions, no symmetry |
| `errors` | `StaticAlive`, `ErrorsReleased`, `ExceptionsCross`, `ReadsLive` | 2 threads, 2 codes |
| `to_string` | `NoOverrun`, `LikeSnprintf`, `LengthIsTotal`, `WholeText` | the real table of names, every set of flags, every size of buffer up to beyond the longest text |
| `bytes_writer` | `WithinBuffer`, `LargerThanSmall`, `NotWasteful`, `Delivered`, `NothingLeft` | small buffer 6, sizes up to 40, pieces of 0, 1, 4, 5, 13, 40 |
| `slices` | `ItemsAsOfList`, `RangeChecked` | up to 3 items, slices of slices, starts and stops -4..4, steps -2, -1, 1, 2 |
| `slices_junk` | `CallsAssigned`, violated | the same |
| `py_objects` | `Counts`, `OneOwner`, `KeepsAlive`, `OnlyViewedStay` | 5 Python objects, 2 of the library, 2 references each |
| `verify` | `ScriptCanRun`, `ErrorsAreTrue`, `OnlyArrayStays`, `HeldAreRead` | 2 outputs, up to 2 inputs, 4 flags (one of them unknown to the API) |
| `verify_lazy` | `SequencesAreRead`, violated | the same |
| `cpp_wrapper` | `OneOwner`, `ImplementsOwnedValues` | 4 variables, 3 objects, a block, two transactions, two outputs and a script |
| `swift_objects` | `OneOwner`, `ImplementsOwnedValues` | 4 instances, 3 objects, a transaction, two outputs and a script, 2 references each |
| `chain` | `InPlace`, `NullMeansEmpty`, `LoopInOrder`, `Differences` | chains of 0 to 4 of 4 blocks, 4-bit sizes (`SizeHalf` 8), 3-bit ints (`IntHalf` 4), 2 iterators |

What each property says is written above its definition. The type invariants document the variables, and are proved instead; the runs leave them out and spend their time on properties that relate one thing to another.

### Why the bounds are enough

- *Objects.* Two threads race for one count, and two handles can share it; two transactions are needed for a block to fail in the middle and for a neighbour to be confused with what was lent. Proofs remove the bounds for every property of the run but `CallsReturn`; what is bounded there for that one is only whether a call can go on.
- *Errors.* Threads share `OOM_ERROR` only, so a third adds nothing; the proofs are for any number.
- *Text.* Exhaustive for the table in the source; the proofs are for any table, buffer and lengths of texts.
- *Bytes.* The sizes let a writer fill its small buffer exactly, outgrow it at once, grow its object several times, and run into the largest size; the proofs are for any size.
- *Slices.* Bounds go one beyond the items on either side; every sign and a step that skips are there; two levels let an index go through an intermediate slice. The proofs are for any lengths, depths, bounds and steps.
- *Python objects.* Bytes, a block made of them, a slice, a slice of that, and one more object; destruction cascades over three. The proofs are for any number of objects.
- *Verify.* Two inputs tell none, all and too few outputs apart, and an index in, at and behind the end. The proofs are for any number.
- *CppWrapper, SwiftObjects.* An owner, a view, a view of a view's part and what is copied out of it; a script that two outputs have, so that equal values of different objects occur. The proofs, for both, are for any variables or instances, objects and values.
- *Chain.* Four blocks are as many as a 3-bit `int` can index (0..3), so the widths are used to their limit; sizes wrap around within 16. The empty chain is there, whose height of -1 is the largest size. The proofs are for any chain that an `int` can index and any widths, as long as `int` is the narrower type.

### Fairness

Only `CallsReturn` needs any: weak fairness of `Continue(t)`, for every thread, in `FairSpec` of `Objects`, the specification of the run `objects`. It says that the operating system goes on running a thread that is inside of a call. Calls hold no lock and wait for nothing, so a step of theirs stays enabled until it is taken. Nothing says that a thread ever makes a call. All other properties are safety properties and are checked without fairness.

Deadlock is checked except where the model ends with the process: a null writer (`bytes_writer`), a null pointer given to the library (`py_objects`), a null index entry (`chain`), and a call through junk (`slices`, `slices_junk`).

## 4. Where the code and what is written about it differ

Two are shown by runs:

- `slices_junk`: `btck.pyi` declares that a slice of a slice has items. `subscript()` of `_slice.c` does not assign `item` of the slice it makes, and `PyObject_New` does not clear memory, so `item()` may call junk.
- `verify_lazy`: `btck.pyi` declares `spent_outputs` as any `Sequence`. For one that is neither a list nor a tuple (`Transaction.outputs` is one), `convert_tx_outputs` drops the only reference to its items and the library reads freed memory.

More were met while modelling. The models contain the steps, unless said otherwise, but no run is spent on them:

- `doc/design/error_handling.rst` says that without an `err` success or failure is still signaled. `BtcK_ScriptPubkey_Verify` returns 0 for both a failed call and a script that does not verify (`WrapFn` returns `Ret{}`).
- The constructors of Python's `Block` and `Transaction` pass no `err` and do not look at the result: the exception of a failed parse is lost, and they wrap a null pointer (`GotNull`), which the next method dereferences (`Crash`). `ExceptionsCross` says of a function that makes an object that it returns null exactly when it threw, which is all that these constructors could go by.
- `description` of a transaction in Swift reads up to a terminator, which `BtcK_Transaction_ToString` does not write.
- `BtcK_Chain_CountBlocks` returns the height of the tip, one less than the number of blocks. `index()` of the tip succeeds with an index that is not in `blocks`, C++ `find` of it equals `end()`, and a loop does not see it. `LoopInOrder` states what loops do see: all blocks but the last.
- For an active chain without a tip, the height of -1 makes `BtcK_Chain_CountBlocks` return the largest size. The range is not `empty()`, and a loop, `front()`, `back()` or `*begin()` dereferences a null index entry. `NullMeansEmpty` states that this happens to the empty chain only, and that nothing else can come of reading it. In Python `blocks` then has a length of -1: `len()` of it fails, and every index is out of range.
- `BtcK_Block_ToString` and its kin make a `std::string` outside of any `try`: for want of memory an exception passes through the C API (`Throws`).
- The constructors of Python's `Block`, `Transaction`, `ScriptPubkey` and `BlockHash` never release the view of the bytes they are given (`View`), so that these are never reclaimed. `OnlyViewedStay` states that they are all that is left.
- `verify` of Python does not free the array that `convert_tx_outputs` allocates, nor does anybody when a later argument does not parse. `OnlyArrayStays` states that every call whose conversion succeeded leaves its array behind, and no other call does.
- `btck.pyi` declares `__eq__` of `BlockHash`; the type has no comparison, so that two equal hashes compare by identity. Not modelled.
- `btck.c` keeps a borrowed reference on `VerificationError` in a global, which dangles when the module is taken apart. Not modelled.

## 5. What is proved

`tlapm` checks all proofs. They follow one pattern: an inductive invariant `IInv`, defined next to the specification; a lemma that `Init` implies it; one lemma for each action, or for a few alike, that it is preserved; `NextInv`, which puts them together; `Invariance`, the temporal step; and theorems that derive what matters.

| Module | Theorems | `IInv` adds |
| --- | --- | --- |
| `ObjectsProofs` | `TypeCorrect`, `CountsAreExact`, `NoDanglingReference`, `NoDoubleFree`, `NothingLeaks`, `ToBytesIsSerialized`, `CopiesThePart`, `CallsAreBounded`, `Refinement` | which object a thread may be building or destroying (`CallShape`, `OneOwner`), which slots of an object are filled at what stage (`SlotShape`), and that memory is allocated as long as it is counted, and then until its destroyer is done (`BodyShape`). The last four theorems add, in the module of proofs, that each piece a callback has got is what the object holds at its place (`Pieces`), and that only blocks have any number of bodies (`OneBody`) |
| `ErrorApiProofs` | `TypeCorrect`, `OomErrorSurvives`, `NoErrorLeaks`, `ErrorsCrossTheApi`, `ErrorsAreReadable` | for every point of a call, what is allocated for its error and what has become of the exception (`Progress`); for `ErrorsCrossTheApi` also, beside `IInv`, that the result is null exactly when the function threw (`NullTells`) |
| `ToStringProofs` | `StaysInBuffer`, `PrintsLikeSnprintf`, `LengthsAreTotal`, `StringsAreWhole`, `TypeCorrect` | that the context is where printing has come to, with the rest of the buffer or zero (`Context`), and after how many characters of which names (`Counted`); that the buffer holds what one `snprintf` of the text so far would have left (`Prefix`); that the length a wrapper was told is the length of its text (`Asked`), and its string as long (`Sized`) |
| `BytesWriterProofs` | `TypeCorrect`, `WritesStayInside`, `ObjectsAreLarger`, `GrowthIsBounded`, `BytesAreDelivered`, `NothingStays` | that a writer holds the stream so far (`Holding`, `Collecting`), and that a failure has left an exception (`Failing`) |
| `VerifyProofs` | `ScriptRunsAsAsserted`, `ErrorsNameWhatIsWrong`, `ErrorsComeInOrder`, `OnlyTheArrayIsLeft`, `KeptOutputsAreRead`, `TypeCorrect` | that a check leaves nothing wrong that an earlier one would have complained about (`Passed`, `VerdictShape`), that a count is the caller's references and those of the list made for the call, while it exists (`ListShape`), and that pointers and copies are the first items (`DataShape`, `CopyShape`); beside `IInv`, at which steps the array is allocated (`ArrayShape`) |
| `CppProofs`, of `CppWrapper` | `ObjectsHaveOneOwner`, `Refinement`, `TypeCorrect` | that two owners never have one object and every allocated object has one (`OwnerShape`), and that what a variable stands for is inside of what the owner of its object stands for, as deep as its class says (`ViewShape`) |
| `CppProofs`, of `Chain` | `IteratorsInPlace`, `NullReadMeansEmpty`, `LoopsInOrder`, `LoopsEnd`, `DifferencesSigned`, `FoundLeadsBack`, `ChainTypeCorrect` | in `ChainIInv`, that the index of a loop counts the blocks it has seen, its end is what `CountBlocks` says, and it has not gone beyond the tip (`InLoop`) |
| `PythonProofs`, of `PyObjects` | `CountsAreExact`, `WrappersOwn`, `BasesStay`, `ObjectsStay`, `OnlyViewedIsLeft`, `TypeCorrect` | that free cells are empty and slices have a base with items (`CellShape`, `SliceShape`), that destructors have run when a call looks something up or wraps something (`CallShape`), and that what is allocated is exactly what is wrapped or has just been got (`OwnerShape`) |
| `PythonProofs`, of `Slices` | `SlicesAreLists`, `IndicesInRange`, `SliceTypeCorrect` | in `SliceIInv`, that a slice is as long as the list it stands for (`Shapes`), that each of its indices leads to the same item in the slice below (`Linked`), and that the item which is looked up stays the one asked for (`LookUp`) |
| `SwiftObjectsProofs` | `ObjectsHaveOneOwner`, `Refinement`, `TypeCorrect` | the counterparts of those of `CppWrapper`, with `PointerShape`: an instance has a pointer as long as it is there, and it points at a value unless it is an error |

The invariants they prove are not inductive by themselves. `RefCount`, for one, would not survive a thread that drops a slot of an object which another thread builds: `OneOwner` excludes that. `NoDoubleFree` needs that a body with a count of zero has exactly one thread about to destroy it. `ScriptCanRun` needs the checks in their order: that `VERIFY_WITNESS` comes with `VERIFY_P2SH` is all that is left of the second condition once the first check has excluded `VERIFY_CLEANSTACK`.

The `Refinement` of `ObjectsProofs` is `ImplementsValues` for any number of threads, handles, bodies and contents. Its core is the lemma `Kept`: a reference in an object that is not being destroyed stays through any step, and what it refers to keeps its content, because other threads write only into bodies that nothing refers to. So `Return` maps to the step that makes a value, `Free` to the one that drops it, and all others to a stutter. For the abstract specification a value may always be new; that a copy has the value of its source is `CopiesThePart`, from the same lemma. The `Refinement` of `CppProofs` has one lemma for each way to change what variables own (`MakeIsMake`, `MovedIsMove`, `DestroyIsForget`) and one for views, which change nothing (`ViewIsNothing`); that what is copied is there to be copied (`UsablePresent`) is what `ViewShape` is for. That of `SwiftObjectsProofs` goes the same way.

`CallsAreBounded` is the part of `CallsReturn` that needs no fairness. `Work(t)` is how much a call has left to do at most: two steps for each member that it has to release, one for each that it has to make or to write, and enough to give up a construction and release what was built. Each step of the thread makes it less (`OwnWork`, one case for each action of `Continue`), and no step of another thread changes it (`OthersWork`): that other threads count, drop and destroy the same bodies does not matter, because a step writes only into the object of its own thread (`OwnSlots`), which `OneOwner` says is nobody else's. So a call takes at most 3 `MaxTxs` + 2 steps of its own. What is left to TLC is that one of them can always be taken.

`OnlyViewedIsLeft` needs more than exact counts: objects that refer to each other in a circle have counts and would stay. `Founded` says that there is none: whichever set of objects one takes, one of them has no slice in it. A new slice refers to what was there before, so the set without it is still founded, and of the objects that nobody holds or views the one without slices would have a count of zero; only bytes and hashes are viewed (`OnlyExportersViewed`), and no slice is one of those. `OneCell`, which says that a step fills one free cell or frees one that nothing refers to, is behind that and `ObjectsStay`.

`SlicesAreLists` rests on arithmetic that has nothing to do with the stack. `Sliced` defines slicing as Python's list does, by a set of positions put in order; `Count` and the product of index and step are what C computes. `StepsUpTo` counts the multiples of a number below a bound, `ChosenPositions` shows that the positions chosen are the first ones of an arithmetic progression, for steps of both signs and bounds beyond both ends, and `Progression` that putting them in order gives them back one by one. That an index leads to the same item below (`Linked`) follows, and then an index that the topmost slice accepts is in range all the way down, where nobody looks again.

`ErrorsComeInOrder` says more than `ErrorsAreTrue`: with several things wrong, the error is the first in the order of the checks, and so a function of the arguments. It follows from what a check can rely on (`Passed`), which is why `IInv` keeps that.

`Chain` needs arithmetic with remainders only: `StepsAdd` and `StepsSubtract` show that adding and subtracting unsigned numbers that wrap around is what it should be while both ends are within an `int`; `EmptyDifferences` does it for the empty chain, whose end is the largest size and one before its beginning. `FoundLeadsBack` takes an index from `FindBlock` through both conversions to the block again; `LoopsEnd` gives the loop, which compares with `!=`, a number that gets less. `LengthsAreTotal` does without induction because the table is printed in its order: how many characters have been printed is a cardinality, of the characters of the names that were met.

Assumed are only the named assumptions on constants: finite sets of handles and of Python objects (a count is a cardinality), null values outside of the sets, `MaxTxs` and `MaxHeld` positive, the static error's address different from all others, flags that are distinct and of which `ALL` has all but `VERIFY_CLEANSTACK`, a table with at least one name and memory with room for every text (`RoomAssumption`: a caller's buffer and a wrapper's string are as long as they say), a small buffer that is smaller than the largest size, a growth factor of 2 or 4 as in the source, an `int` that is narrower than `size_t`, a hash that is no known block's, and bounds and steps that are integers.

Model-checked only: `CallsReturn` (liveness under fairness is out of this prover's reach, and so is `ENABLED`; `CallsAreBounded` is its safety part). `SequencesAreRead` and `CallsAssigned` are violated, so there is nothing to prove. Every other property of a run is a theorem.

## 6. What is not modelled

- Bitcoin Core itself: parsing, hashing, script execution, the block index. It appears by what the library relies on: parses that may fail, shared pointers, `VerifyScript` with its assertions.
- Lengths below zero in `Slices`: the one that `blocks` of an empty chain has is not among its lengths.
- Values: hashes, amounts, the bytes of a script, the wording of messages. `Equal`, `GetHash` and `GetAmount` read and change nothing.
- The Rust, Java, Go, Julia and Lua bindings, for the reason given in section 1, and `btck.swift` and `btck+.swift`, which are not built; declarations in `btck.hpp` without a definition (log and validation callbacks, options of a chain).
- In Python: module initialisation, and comparisons, which read and change nothing. `verify` runs code of the program's own while it parses its arguments (`__index__` of the index, say), which could change the list of outputs after it was converted; `Verify` leaves that out.
- C++ iterators that outlive the range they came from, self move assignment, and Swift views that outlive the owner: all are left to the program, which the models take at its word.

## 7. Plan

What is left:

1. `Chain` with a writer, when the library gets a function that changes a chain: the length is read before the block, and a reorganisation in between makes the index stale.
2. The import of the Python module, with the exception class that a global only borrows.
