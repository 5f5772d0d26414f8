----------------------------- MODULE GuestHeap -----------------------------
(***************************************************************************)
(* The heap of the guest: one arena, a pointer that only moves up          *)
(* (heap_bump_), and every allocator of AndroidRuntime (malloc, calloc,    *)
(* realloc, posix_memalign, mmap, strdup and the others, operator new,     *)
(* thread stacks, bitmaps, binder's arrays) moving it in its own way.      *)
(* Sizes and addresses are of the machine's width, 2^w here as Width: the  *)
(* sums that round and compare them wrap.  free() keeps everything.        *)
(* AndroidRuntime declares its own heap_base_ and heap_bump_, which hide   *)
(* those that GpuBridge::install() sets, and leaves them at 0: the arena   *)
(* starts at guest address 0 and a block there reads as a null pointer.    *)
(***************************************************************************)
EXTENDS Integers, Sequences

CONSTANTS Width,         \* 2^64
          HeapBase,      \* heap_base_ (0)
          HeapSize,      \* HEAP_SIZE
          Unit,          \* 16
          Page,          \* 4096
          StackSize,     \* kGuestThreadStackSize
          BitmapBytes,   \* BITMAP_BYTES, less than Unit
          Requests,      \* the sizes the guest asks for
          MaxBlocks      \* bound: blocks

VARIABLES heapBump,   \* heap_bump_
          cells,      \* the arena's contents
          blocks,     \* blocks given out: [at, expect], expect what the owner may rely on
          died        \* the host process ended in an allocator

vars == <<heapBump, cells, blocks, died>>

End == HeapBase + HeapSize
Any == -1      \* a cell its owner has not written
Values == {1}
Zeros(n) == [i \in 1 .. n |-> 0]
Anything(n) == [i \in 1 .. n |-> Any]

TypeOK ==
    /\ heapBump \in HeapBase .. End
    /\ cells \in [HeapBase .. End - 1 -> Values \cup {0}]
    /\ died \in BOOLEAN

Init ==
    /\ heapBump = HeapBase
    /\ cells = [c \in HeapBase .. End - 1 |-> 0]
    /\ blocks = <<>> /\ died = FALSE

----
\* Mutant: the size is cut down to whole units.
RoundDown(x, unit) == x - (x % unit)
\* (x + unit - 1) & ~(unit - 1), in the machine's width.
RoundUp(x, unit) == LET sum == (x + unit - 1) % Width IN sum - (sum % unit)

\* heap_bump_ + size > heap_base_ + HEAP_SIZE, in the machine's width.
Fits(ptr, size) == (ptr + size) % Width <= End

\* Cells from ptr on that take the given contents.
Written(ptr, contents) ==
    [c \in DOMAIN cells |->
        IF c >= ptr /\ c < ptr + Len(contents) THEN contents[c - ptr + 1] ELSE cells[c]]

\* ptr and size are taken and the contents written; expect is what the
\* caller may rely on; for a block at 0 it sees a failure.  A size that is only small because the sum wrapped is
\* more than the host's std::vector can hold, and the exception ends it.
Give(ptr, size, contents, expect) ==
    /\ ~died /\ Len(blocks) < MaxBlocks
    /\ IF size > HeapSize
       THEN died' = TRUE /\ UNCHANGED <<heapBump, cells, blocks>>
       ELSE /\ heapBump' = ptr + size
            /\ cells' = Written(ptr, contents)
            /\ blocks' = Append(blocks, [at |-> ptr, expect |-> IF ptr = 0 THEN <<>> ELSE expect])
            /\ UNCHANGED died

\* A request the arena could hold; what wraps is larger.
Sane(n) == n <= HeapSize
Expected(n, seq) == IF Sane(n) THEN seq ELSE <<>>

\* malloc(), and operator new without exceptions.
Malloc(n) ==
    LET size == RoundUp(n, Unit)
    IN  /\ n # 0 /\ Fits(heapBump, size)
        /\ Give(heapBump, size, Zeros(size), Expected(n, Anything(n)))

\* operator new and new[]: no memory ends the process.
OperatorNew(n) ==
    LET size == RoundUp(n, Unit)
    IN  \/ Malloc(n)
        \/ /\ ~died /\ (n = 0 \/ ~Fits(heapBump, size))
           /\ died' = TRUE
           /\ UNCHANGED <<heapBump, cells, blocks>>

\* calloc(): the product has the machine's width too.
Calloc(count, each) ==
    LET total == RoundUp((count * each) % Width, Unit)
    IN  /\ total # 0 /\ Fits(heapBump, total)
        /\ Give(heapBump, total, Zeros(total), Expected(count * each, Zeros(count * each)))

\* realloc(): always a new block, with the cells from the old one's start on
\* as far as they go.
Realloc(old, n) ==
    LET size == RoundUp(n, Unit)
        from == blocks[old].at
        copy == IF size < heapBump - from THEN size ELSE heapBump - from
        was == blocks[old].expect
    IN  /\ size # 0 /\ Fits(heapBump, size)
        /\ Give(heapBump, size,
                [i \in 1 .. size |-> IF i <= copy THEN cells[from + i - 1] ELSE 0],
                Expected(n, [i \in 1 .. n |-> IF i <= Len(was) THEN was[i] ELSE Any]))

\* posix_memalign(), for an alignment that is a power of two.
PosixMemalign(align, n) ==
    LET ptr == RoundUp(heapBump, IF align < Unit THEN Unit ELSE align)
        size == RoundUp(n, Unit)
    IN  /\ Fits(ptr, size)
        /\ Give(ptr, size, Zeros(size), Expected(n, Anything(n)))

\* mmap(): whole pages.
Mmap(n) ==
    LET size == RoundUp(n, Page)
        ptr == RoundUp(heapBump, Page)
    IN  /\ size # 0 /\ Fits(heapBump, size) /\ Fits(ptr, size)
        /\ Give(ptr, size, Zeros(size), Expected(n, Zeros(n)))

\* strdup() and strerror(): the text and its end are written, the rest of
\* the block is not.
CopyText(length) ==
    LET size == RoundUp(length + 1, Unit)
        text == [i \in 1 .. length + 1 |-> IF i = length + 1 THEN 0 ELSE 1]
    IN  Fits(heapBump, size) /\ Give(heapBump, size, text, text)

\* vasprintf(), which hands the pointer out through its first argument, and
\* AStatus_getMessage() allocate the same way.
Vasprintf(length) == CopyText(length)
StatusGetMessage(length) == CopyText(length)

\* alloc_guest() of the binder library: aligned, and not cleared.
AllocGuest(n) ==
    LET ptr == RoundUp(heapBump, Unit)
        size == RoundUp(n, Unit)
    IN  Fits(ptr, size) /\ Give(ptr, size, <<>>, Anything(n))

\* A thread's stack.
ThreadStack ==
    LET ptr == RoundUp(heapBump, Unit)
    IN  Fits(ptr, StackSize) /\ Give(ptr, StackSize, Zeros(StackSize), Zeros(StackSize))

\* AndroidBitmap_lockPixels(): one pixel, which leaves heap_bump_ unaligned.
AllocPixels ==
    LET ptr == RoundUp(heapBump, Unit)
    IN  Fits(ptr, BitmapBytes) /\ Give(ptr, BitmapBytes, Zeros(BitmapBytes), Zeros(BitmapBytes))

\* memset(): the owner fills its block.
Memset(b, value) ==
    LET n == Len(blocks[b].expect)
    IN  /\ ~died
        /\ cells' = Written(blocks[b].at, [i \in 1 .. n |-> value])
        /\ blocks' = [blocks EXCEPT ![b].expect = [i \in 1 .. n |-> value]]
        /\ UNCHANGED <<heapBump, died>>

\* memcpy() and memmove(): the shorter of two blocks, by way of a buffer.
Memcpy(to, from) ==
    LET short == IF Len(blocks[to].expect) < Len(blocks[from].expect)
                 THEN Len(blocks[to].expect) ELSE Len(blocks[from].expect)
    IN  /\ ~died /\ to # from
        /\ cells' = Written(blocks[to].at, [i \in 1 .. short |-> cells[blocks[from].at + i - 1]])
        /\ blocks' = [blocks EXCEPT ![to].expect =
                [i \in DOMAIN @ |-> IF i <= short THEN blocks[from].expect[i] ELSE @[i]]]
        /\ UNCHANGED <<heapBump, died>>

Next ==
    \/ \E n \in Requests : Malloc(n) \/ OperatorNew(n) \/ Mmap(n)
    \/ \E n \in Requests, align \in {1, Page} : PosixMemalign(align, n)
    \/ \E count, each \in Requests : Calloc(count, each)
    \/ \E n \in Requests, b \in DOMAIN blocks : Realloc(b, n)
    \/ \E n \in {r \in Requests : Sane(r)} : CopyText(n) \/ Vasprintf(n) \/ StatusGetMessage(n) \/ AllocGuest(n)
    \/ ThreadStack \/ AllocPixels
    \/ \E b \in DOMAIN blocks, value \in Values : Memset(b, value)
    \/ \E to, from \in DOMAIN blocks : Memcpy(to, from)

Spec == Init /\ [][Next]_vars

----
\* Every block that was given for a request the arena could hold lies in the
\* arena and reads back what its owner wrote (zeros where calloc() and mmap()
\* promise them, the old contents where realloc() does): no allocator, with
\* its own rounding and its own check against the end, ever gives a cell to
\* two owners, whatever sizes have wrapped before.
BlocksKeepTheirContents ==
    ~died => \A b \in DOMAIN blocks : \A i \in DOMAIN blocks[b].expect :
                /\ blocks[b].at + i - 1 < End
                /\ blocks[b].expect[i] \in {Any, cells[blocks[b].at + i - 1]}
=============================================================================
