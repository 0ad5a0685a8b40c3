-------------------------------- MODULE Heap --------------------------------
(***************************************************************************)
(* The memory allocator of tb-utils.c: a list of chunks in the order of    *)
(* their addresses, each with a header of two words in front of the memory *)
(* it gives out, extended by brk; and the threads that use the memory.     *)
(*                                                                         *)
(* malloc and free work under memory_lock, so each is one action.  calloc  *)
(* and realloc hold it only for the malloc and the free inside them, and   *)
(* tb_heap_state not at all: their steps interleave with everything.       *)
(* Sizes and addresses stay far below 2^64, which the model does not have. *)
(***************************************************************************)
EXTENDS Integers, Sequences, FiniteSets

CONSTANTS
  Threads,
  Align,      \* 8 bytes
  Header,     \* sizeof(memchunk_t), 16 bytes
  MinAlloc,   \* the smallest chunk given out, 16 bytes
  Page,       \* EXEC_PAGESIZE
  Base,       \* the heap limit before the first malloc
  Top,        \* bound: the kernel never moves the heap limit past it
  Requests,   \* the sizes programs ask for
  MaxBlocks,  \* bound: blocks of a thread at a time
  Zero, Meta, Junk, \* what a cell of memory may hold: 0, part of a header,
                    \* something nobody relies on, or the mark of a thread
  NoBlock

ASSUME ConstantsAssumption ==
  /\ Align \in Nat \ {0} /\ Header \in Nat \ {0} /\ MinAlloc \in Nat
  /\ Page \in Nat \ {0} /\ Base \in Nat \ {0} /\ Top \in Nat
  /\ Page % Align = 0 /\ Header % Align = 0 /\ MinAlloc + Header <= Page
  /\ Requests \subseteq Nat
  /\ Cardinality({Zero, Meta, Junk}) = 3 /\ {Zero, Meta, Junk} \cap Threads = {}

VARIABLES
  heap,         (* the chunks, in the order of the list                       *)
  heap_limit,   (* 0 until the first malloc that finds no chunk               *)
  mem,          (* what each cell of the heap's memory holds                  *)
  blocks,       (* what the program has been given and has not returned       *)
  pc,           (* where each thread is in calloc or realloc                  *)
  ptr, asked,   (* there: the new pointer, the size                           *)
  old,          (* there: the block given to realloc                          *)
  walk          (* the tb_heap_state in progress, if any                      *)

call == <<pc, ptr, asked, old>>
vars == <<heap, heap_limit, mem, blocks, call, walk>>

Cells == Base .. Top - 1

\* A block: the first `known` cells hold the mark `mark` as far as its owner knows.
Block(t, addr, size, mark, known) ==
  [owner |-> t, addr |-> addr, size |-> size, mark |-> mark, known |-> known]

PC == {"idle", "zero", "copy", "free", "killed"}

NoWalk == [at |-> "none"]

Init ==
  /\ heap = <<>>
  /\ heap_limit = 0
  /\ mem = [a \in Cells |-> Junk]
  /\ blocks = {}
  /\ pc = [t \in Threads |-> "idle"]
  /\ ptr = [t \in Threads |-> 0]
  /\ asked = [t \in Threads |-> 0]
  /\ old = [t \in Threads |-> NoBlock]
  /\ walk = NoWalk

Write(m, addr, size, mark) ==
  [a \in DOMAIN m |-> IF a \in addr .. addr + size - 1 THEN mark ELSE m[a]]

-----------------------------------------------------------------------------
(* malloc and free                                                         *)

\* The size rounded up to the alignment, and never less than MinAlloc.
AllocSize(size) ==
  LET rounded == ((size - 1) \div Align) * Align + Align
  IN  IF rounded < MinAlloc THEN MinAlloc ELSE rounded

\* How much malloc asks the kernel for.
ChunkSize(size) == ((size + Header - 1) \div Page) * Page + Page

Fits(chunk, size) == ~ chunk.used /\ chunk.size >= size

\* The first chunk of the list that will do.
FirstFit(h, size) ==
  {i \in DOMAIN h : Fits(h[i], size) /\ \A j \in 1 .. i - 1 : ~ Fits(h[j], size)}

Splits(chunk, size) == chunk.size > size + Header + MinAlloc

\* Mutant of Rest: the second header is not taken off.
RestLonger(chunk, size) == chunk.size - size

\* The size of the second chunk.
Rest(chunk, size) == chunk.size - size - Header

\* Chunk i is given out: all of it, or its first `size` bytes and the rest becomes
\* the chunk behind it.
Place(h, i, size) ==
  IF Splits(h[i], size)
  THEN [j \in 1 .. Len(h) + 1 |->
          IF j < i THEN h[j]
          ELSE IF j = i THEN [addr |-> h[i].addr, size |-> size, used |-> TRUE]
          ELSE IF j = i + 1
            THEN [addr |-> h[i].addr + Header + size,
                  size |-> Rest(h[i], size), used |-> FALSE]
          ELSE h[j - 1]]
  ELSE [h EXCEPT ![i].used = TRUE]

\* What Place writes to the memory.
Headers(h, i, size) ==
  LET first == Write(mem, h[i].addr, Header, Meta)
  IN  IF Splits(h[i], size)
      THEN Write(first, h[i].addr + Header + size, Header, Meta)
      ELSE first

\* The heap limit, asked for with brk(0) the first time.
Limit == IF heap_limit = 0 THEN Base ELSE heap_limit

\* What malloc leaves behind when it gives out chunk i of h, and the pointer p.
Given(h, i, size, limit) ==
  [heap |-> Place(h, i, AllocSize(size)), mem |-> Headers(h, i, AllocSize(size)),
   limit |-> limit, p |-> h[i].addr + Header]

\* The list after the heap limit has been moved.
Extended(size) ==
  Append(heap, [addr |-> Limit, size |-> ChunkSize(size) - Header, used |-> FALSE])

\* The ways malloc(size) may end: with the first chunk that fits; without one, with a
\* new chunk at the end, or with a null pointer when brk moves nothing.
Malloc(size) ==
  LET fit == FirstFit(heap, AllocSize(size))
  IN  IF fit # {}
      THEN {Given(heap, i, size, heap_limit) : i \in fit}
      ELSE {[heap |-> heap, mem |-> mem, limit |-> Limit, p |-> 0]}
             \cup (IF Limit + ChunkSize(size) > Top THEN {}
                   ELSE {Given(Extended(size), Len(heap) + 1, size,
                               Limit + ChunkSize(size))})

Becomes(r) == heap' = r.heap /\ mem' = r.mem /\ heap_limit' = r.limit

\* The chunk of a pointer that malloc returned.
ChunkAt(p) == {i \in DOMAIN heap : heap[i].addr + Header = p}

\* free(p): the chunk is marked, and stays as it is, but for what it is worth to
\* anybody.
FreeChunk(p) ==
  \E i \in ChunkAt(p) :
    /\ heap' = [heap EXCEPT ![i].used = FALSE]
    /\ mem' = Write(mem, p, heap[i].size, Junk)

-----------------------------------------------------------------------------
(* The calls of the program                                                *)

Idle(t) == pc[t] = "idle"
OwnBlocks(t) == {b \in blocks : b.owner = t}
MayAsk(t) == Idle(t) /\ Cardinality(OwnBlocks(t)) < MaxBlocks

\* t goes on to `to` with the pointer p for `size` bytes; b was given to realloc.
Enter(t, to, p, size, b) ==
  /\ pc' = [pc EXCEPT ![t] = to]
  /\ ptr' = [ptr EXCEPT ![t] = p]
  /\ asked' = [asked EXCEPT ![t] = size]
  /\ old' = [old EXCEPT ![t] = b]

Return(t) == Enter(t, "idle", 0, 0, NoBlock)

MallocCall(t) ==
  /\ MayAsk(t)
  /\ \E size \in Requests : \E r \in Malloc(size) :
       /\ Becomes(r)
       /\ blocks' = IF r.p = 0 THEN blocks
                    ELSE blocks \cup {Block(t, r.p, size, Zero, 0)}
  /\ UNCHANGED <<call, walk>>

CallocCall(t) ==
  /\ MayAsk(t)
  /\ \E size \in Requests : \E r \in Malloc(size) :
       /\ Becomes(r)
       /\ IF r.p = 0 THEN UNCHANGED call ELSE Enter(t, "zero", r.p, size, NoBlock)
  /\ UNCHANGED <<blocks, walk>>

\* Mutant of Cleared: the block is given out as it is.
ClearedNot(p, size) == mem

Cleared(p, size) == Write(mem, p, size, Zero)

\* The loop of calloc.  Nobody else has the block yet, so it is one step.
CallocClear(t) ==
  /\ pc[t] = "zero"
  /\ mem' = Cleared(ptr[t], asked[t])
  /\ blocks' = blocks \cup {Block(t, ptr[t], asked[t], Zero, asked[t])}
  /\ Return(t)
  /\ UNCHANGED <<heap, heap_limit, walk>>

\* History: the chunk at p is not in use all the time.
Forget(p) == walk' = IF walk = NoWalk THEN walk ELSE [walk EXCEPT !.kept = @ \ {p}]

FreeCall(t) ==
  /\ Idle(t)
  /\ \E b \in OwnBlocks(t) :
       FreeChunk(b.addr) /\ Forget(b.addr) /\ blocks' = blocks \ {b}
  /\ UNCHANGED <<heap_limit, call>>

\* The malloc of realloc.
ReallocCall(t) ==
  /\ Idle(t)
  /\ \E b \in OwnBlocks(t), size \in Requests : \E r \in Malloc(size) :
       Becomes(r) /\ Enter(t, "copy", r.p, size, b)
  /\ UNCHANGED <<blocks, walk>>

\* realloc of a null pointer: malloc, and the size of a chunk in front of address 0 is
\* read.
ReallocNull(t) ==
  /\ MayAsk(t)
  /\ \E size \in Requests : \E r \in Malloc(size) :
       Becomes(r) /\ Enter(t, "killed", r.p, size, NoBlock)
  /\ UNCHANGED <<blocks, walk>>

\* chunk->size is compared while the USED bit is in it, so it is never the smaller
\* one: the new size is copied, whatever lies behind the old block.
Copied(b, size) == size

\* The copy kills the process when it leaves the heap or writes to a null pointer.
\* (It reads the neighbours when it leaves the old block but not the heap: nobody relies
\* on what the new block gets from there.)
ReallocCopy(t) ==
  LET b == old[t]
      n == Copied(b, asked[t])
      to == ptr[t]
  IN  /\ pc[t] = "copy"
      /\ IF n > 0 /\ (to = 0 \/ b.addr + n > heap_limit)
         THEN pc' = [pc EXCEPT ![t] = "killed"] /\ UNCHANGED mem
         ELSE /\ pc' = [pc EXCEPT ![t] = "free"]
              /\ mem' = [a \in Cells |->
                           IF a \notin to .. to + n - 1 THEN mem[a]
                           ELSE IF a - to < b.known THEN mem[b.addr + (a - to)]
                           ELSE Junk]
      /\ UNCHANGED <<heap, heap_limit, blocks, ptr, asked, old, walk>>

\* The pointer that realloc frees.
Freed(t) == old[t].addr

\* The old block is freed; the new one has what the old one had, as far as both go.
ReallocFree(t) ==
  LET b == old[t]
      known == IF b.known < asked[t] THEN b.known ELSE asked[t]
  IN  /\ pc[t] = "free"
      /\ FreeChunk(Freed(t))
      /\ Forget(Freed(t))
      /\ blocks' = (blocks \ {b}) \cup
                     (IF ptr[t] = 0 THEN {}
                      ELSE {Block(t, ptr[t], asked[t], b.mark, known)})
      /\ Return(t)
      /\ UNCHANGED heap_limit

\* The owner fills a block with its mark.
Fill(t) ==
  /\ Idle(t)
  /\ \E b \in OwnBlocks(t) :
       /\ mem' = Write(mem, b.addr, b.size, t)
       /\ blocks' = (blocks \ {b}) \cup {Block(t, b.addr, b.size, t, b.size)}
  /\ UNCHANGED <<heap, heap_limit, call, walk>>

-----------------------------------------------------------------------------
(* tb_heap_state, which takes no lock                                      *)

\* cursor and chunk are addresses of chunks; 0 is the head of the list and the null
\* pointer.  The history: how many chunks there were, and which have been in use
\* ever since.
StateCall ==
  /\ walk = NoWalk
  /\ walk' = [at |-> "look", cursor |-> 0, chunk |-> 0, total |-> 0, allocated |-> 0,
              before |-> Len(heap), kept |-> {b.addr : b \in blocks}]
  /\ UNCHANGED <<heap, heap_limit, mem, blocks, call>>

\* cursor->next: empty, or the chunk behind the cursor.
NextChunk(cursor) ==
  {i \in DOMAIN heap : IF i = 1 THEN cursor = 0 ELSE heap[i - 1].addr = cursor}

\* The condition of the loop and the load of chunk.
StateLook ==
  /\ walk.at = "look"
  /\ IF NextChunk(walk.cursor) = {}
     THEN walk' = [walk EXCEPT !.at = "done"]
     ELSE \E i \in NextChunk(walk.cursor) :
            walk' = [walk EXCEPT !.at = "count", !.chunk = heap[i].addr]
  /\ UNCHANGED <<heap, heap_limit, mem, blocks, call>>

\* Mutant of Counts: free chunks are counted.
CountsFree(chunk) == ~ chunk.used

Counts(chunk) == chunk.used

StateCount ==
  /\ walk.at = "count"
  /\ \E i \in DOMAIN heap :
       /\ heap[i].addr = walk.chunk
       /\ walk' = [walk EXCEPT !.at = "move", !.total = @ + 1,
                               !.allocated = IF Counts(heap[i]) THEN @ + 1 ELSE @]
  /\ UNCHANGED <<heap, heap_limit, mem, blocks, call>>

\* cursor->next is read again, or is still in a register.
StateMove ==
  /\ walk.at = "move"
  /\ \/ walk' = [walk EXCEPT !.at = "look", !.cursor = walk.chunk]
     \/ \E i \in NextChunk(walk.cursor) :
          walk' = [walk EXCEPT !.at = "look", !.cursor = heap[i].addr]
  /\ UNCHANGED <<heap, heap_limit, mem, blocks, call>>

StateUsed ==
  /\ walk.at = "done"
  /\ walk' = NoWalk
  /\ UNCHANGED <<heap, heap_limit, mem, blocks, call>>

-----------------------------------------------------------------------------
Killed == \E t \in Threads : pc[t] = "killed"

\* What kills a thread kills the process.
Next ==
  \/ /\ ~ Killed
     /\ \/ \E t \in Threads :
             \/ MallocCall(t) \/ CallocCall(t) \/ CallocClear(t) \/ FreeCall(t)
             \/ ReallocCall(t) \/ ReallocNull(t) \/ ReallocCopy(t) \/ ReallocFree(t)
             \/ Fill(t)
        \/ StateCall \/ StateLook \/ StateCount \/ StateMove \/ StateUsed
  \/ Killed /\ UNCHANGED vars

Spec == Init /\ [][Next]_vars

-----------------------------------------------------------------------------
Chunk == [addr : Nat, size : Nat, used : BOOLEAN]
BlockType ==
  [owner : Threads, addr : Nat, size : Nat, mark : Threads \cup {Zero}, known : Nat]

\* Every variable has its type.
TypeOK ==
  /\ heap \in Seq(Chunk)
  /\ heap_limit \in Nat
  /\ blocks \subseteq BlockType
  /\ pc \in [Threads -> PC]
  /\ ptr \in [Threads -> Nat] /\ asked \in [Threads -> Nat]
  /\ old \in [Threads -> BlockType \cup {NoBlock}]
  /\ \A t \in Threads : pc[t] \in {"copy", "free"} => old[t] \in OwnBlocks(t)

\* The memory between the first chunk and the heap limit is chunks without gap or
\* overlap, through every split and extension.
ChunksTile ==
  /\ heap = <<>> => heap_limit \in {0, Base}
  /\ heap # <<>> => heap[1].addr = Base
  /\ \A i \in DOMAIN heap :
       heap[i].addr + Header + heap[i].size =
         IF i = Len(heap) THEN heap_limit ELSE heap[i + 1].addr

\* Chunks further down the list lie further up in memory: the list is in the order of
\* its addresses, and chunks have addresses of their own.
ChunksOrdered ==
  \A i, j \in DOMAIN heap :
    i < j => heap[i].addr + Header + heap[i].size <= heap[j].addr

InUse(p, size) == \E i \in ChunkAt(p) : heap[i].used /\ size <= heap[i].size

\* The threads whose call in progress holds a new block.
Calling == {t \in Threads : pc[t] # "idle" /\ ptr[t] # 0}

\* A chunk in use has one holder, who got at least the size that was asked for, and
\* a free chunk has none: nothing is given out twice, and nothing leaks.
ChunksHeld ==
  /\ \A b \in blocks : InUse(b.addr, b.size)
  /\ \A t \in Calling : InUse(ptr[t], asked[t])
  /\ \A b, c \in blocks : b.addr = c.addr => b = c
  /\ \A t, u \in Calling : ptr[t] = ptr[u] => t = u
  /\ \A b \in blocks, t \in Calling : b.addr # ptr[t]
  /\ \A i \in DOMAIN heap : heap[i].used =>
       \/ \E b \in blocks : b.addr = heap[i].addr + Header
       \/ \E t \in Calling : ptr[t] = heap[i].addr + Header

\* All of it together: the list of chunks is sound, and agrees with what the program
\* and the calls in progress hold.
HeapConsistent == TypeOK /\ ChunksTile /\ ChunksOrdered /\ ChunksHeld

\* Who fills a block finds in it what was put there, whatever others allocate, fill
\* and free, across a realloc that copies more than the old block has, and from the
\* zeros of calloc on; and no header of the list is written over.
ContentsKept ==
  /\ \A b \in blocks : \A a \in b.addr .. b.addr + b.known - 1 : mem[a] = b.mark
  /\ \A i \in DOMAIN heap :
       \A a \in heap[i].addr .. heap[i].addr + Header - 1 : mem[a] = Meta

\* tb_heap_state, although it looks at a list that others change, reports at least
\* the chunks there were and at most those there are; and what it counts as allocated
\* includes every block in use from the call to the return.
StateCounts ==
  walk.at = "done" =>
    /\ walk.before <= walk.total /\ walk.total <= Len(heap)
    /\ Cardinality(walk.kept) <= walk.allocated /\ walk.allocated <= walk.total
=============================================================================
