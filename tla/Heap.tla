--------------------------------- MODULE Heap ---------------------------------
(***************************************************************************)
(* The heap of furi/core/memmgr_heap.c, with malloc, realloc and free of   *)
(* memmgr.c: one list of free blocks, linked through their headers in the  *)
(* order of their addresses, first fit with splitting, coalescing on free, *)
(* and the trace that records the allocations of a thread.                 *)
(*                                                                         *)
(* The scheduler is suspended inside pvPortMalloc and around the insertion *)
(* of vPortFree, so each is one step; the block that vPortFree has marked  *)
(* free and cleared already waits for that step outside of it.  The trace  *)
(* keeps its dictionary in the same heap: a traced call allocates or frees *)
(* a dictionary node in the middle of its own work on the list.            *)
(***************************************************************************)
EXTENDS Integers, FiniteSets, FiniteSetsExt

CONSTANTS
    Threads,    \* the threads that use the heap
    End,        \* address of pxEnd; the heap begins at 0
    Header,     \* xHeapStructSize
    Align,      \* portBYTE_ALIGNMENT
    SizeMax,    \* heapSIZE_MAX
    Requests,   \* the sizes clients ask for
    NodeSize,   \* the size of a node of the trace's dictionaries
    NoThread    \* nobody

Addr == 0..(End - 1)
Start == -1     \* &xStart, which is below every block
NoAddr == -2    \* the null pointer
MinBlock == 2 * Header
NoSize == -1   \* no allocation has failed
Trace == "trace"

ASSUME HeapAssumption ==
    /\ End \in Nat \ {0} /\ Header \in Nat \ {0} /\ Align \in Nat \ {0}
    /\ SizeMax \in Nat /\ NodeSize \in Nat /\ Requests \subseteq Nat
    /\ NoThread \notin Threads /\ Trace \notin Threads /\ NoThread # Trace

VARIABLES
    heap,      \* the free list and the block headers
    owner,     \* who holds the block allocated at an address
    step,      \* what a thread is doing
    ptr,       \* the block it is doing it to
    root,      \* the node of a thread in memmgr_heap_thread_dict
    dict,      \* the entries of a thread's allocation dictionary
    untracing, \* the thread inside memmgr_heap_disable_thread_trace
    failed     \* the size for which there was no memory, then a check fails

clientVars == <<step, ptr>>
traceVars == <<root, dict, untracing>>
vars == <<heap, owner, step, ptr, root, dict, untracing, failed>>

\* prvHeapInit: one free block that takes up the entire heap.
Init ==
    /\ heap = [next |-> [a \in Addr \cup {Start} |->
                           IF a = Start THEN 0
                           ELSE IF a = 0 THEN End ELSE NoAddr],
               size |-> [a \in Addr |-> IF a = 0 THEN End ELSE 0],
               free |-> {0},
               bytes |-> End]
    /\ owner = [a \in Addr |-> NoThread]
    /\ step = [t \in Threads |-> "idle"]
    /\ ptr = [t \in Threads |-> NoAddr]
    /\ root = [t \in Threads |-> NoAddr]
    /\ dict = [t \in Threads |-> {}]
    /\ untracing = NoThread
    /\ failed = NoSize

-----------------------------------------------------------------------------
\* The algorithms, on a heap h.  h.free is the set of blocks whose header says
\* free and which have been inserted; the list is h.next from Start to End.

\* Mutant: the size of a block may overflow unnoticed.
WantedWraps(n) ==
    LET sum == n + Header
        pad == (Align - (sum % Align)) % Align
    IN  IF n = 0 THEN 0 ELSE (sum + pad) % (SizeMax + 1)

\* xWantedSize: header and padding are added, zero stands for an overflow.
Wanted(n) ==
    LET sum == n + Header
        pad == (Align - (sum % Align)) % Align
    IN  IF n = 0 \/ sum + pad > SizeMax THEN 0 ELSE sum + pad

\* The block at which the traversal from the lowest address ends: the first
\* that is large enough.  There is none when the request or its size is not
\* valid.
FirstFit(h, w) ==
    {b \in h.free : /\ w > 0 /\ w <= SizeMax \div 2 /\ w <= h.bytes
                    /\ h.size[b] >= w
                    /\ \A c \in h.free : c < b => h.size[c] < w}

\* The block before b in the list.
PrevOf(h, b) == CHOOSE i \in h.free \cup {Start} : h.next[i] = b

\* Mutant: the rest of a split block is counted as allocated.
CarveUncounted(h, b, w) ==
    LET p == PrevOf(h, b)
        rest == b + w
    IN  IF h.size[b] - w > MinBlock
        THEN [next |-> [h.next EXCEPT ![p] = rest, ![rest] = h.next[b], ![b] = NoAddr],
              size |-> [h.size EXCEPT ![b] = w, ![rest] = h.size[b] - w],
              free |-> (h.free \ {b}) \cup {rest},
              bytes |-> h.bytes - h.size[b]]
        ELSE [h EXCEPT !.next = [@ EXCEPT ![p] = h.next[b], ![b] = NoAddr],
                       !.free = @ \ {b},
                       !.bytes = @ - h.size[b]]

\* Block b is taken out of the list, and split when the rest is larger than
\* the smallest block.
Carve(h, b, w) ==
    LET p == PrevOf(h, b)
        rest == b + w
    IN  IF h.size[b] - w > MinBlock
        THEN [next |-> [h.next EXCEPT ![p] = rest, ![rest] = h.next[b], ![b] = NoAddr],
              size |-> [h.size EXCEPT ![b] = w, ![rest] = h.size[b] - w],
              free |-> (h.free \ {b}) \cup {rest},
              bytes |-> h.bytes - w]
        ELSE [h EXCEPT !.next = [@ EXCEPT ![p] = h.next[b], ![b] = NoAddr],
                       !.free = @ \ {b},
                       !.bytes = @ - h.size[b]]

\* The iterator of prvInsertBlockIntoFreeList: the first element of the list
\* whose successor is not below b.
IteratorOf(h, b) ==
    CHOOSE i \in h.free \cup {Start} : i < b /\ h.next[i] >= b

\* Mutant: a block that was merged with the one before it is not merged with
\* the one behind it.
JoinsNextOnce(h, i, b) ==
    /\ i = Start \/ i + h.size[i] # b
    /\ b + h.size[b] = h.next[i]
    /\ h.next[i] # End

\* The block to be inserted touches the block behind it, which is not pxEnd.
JoinsNext(h, i, b) == b + h.size[b] = h.next[i] /\ h.next[i] # End

\* The block to be inserted touches the block before it.
JoinsPrev(h, i, b) == i # Start /\ i + h.size[i] = b

\* prvInsertBlockIntoFreeList: block b goes between the iterator and its
\* successor and is merged with those it touches.  (The header of a block that
\* was merged into another one means nothing any more.)
Insert(h, b) ==
    LET i == IteratorOf(h, b)
        n == h.next[i]
        prev == JoinsPrev(h, i, b)
        next == JoinsNext(h, i, b)
        m == IF prev THEN i ELSE b
        behind == IF next THEN h.next[n] ELSE n
        sum == h.size[b] + (IF prev THEN h.size[i] ELSE 0)
                         + (IF next THEN h.size[n] ELSE 0)
        gone == (IF prev THEN {b} ELSE {}) \cup (IF next THEN {n} ELSE {})
    IN  [next |-> [a \in Addr \cup {Start} |->
                      IF a = m THEN behind
                      ELSE IF a = i THEN m
                      ELSE IF a \in gone THEN NoAddr ELSE h.next[a]],
         size |-> [a \in Addr |-> IF a = m THEN sum
                                  ELSE IF a \in gone THEN 0 ELSE h.size[a]],
         free |-> (h.free \cup {m}) \ gone,
         bytes |-> h.bytes]

\* The bytes are counted before the trace is told and the block inserted.
Counted(h, b) == [h EXCEPT !.bytes = @ + h.size[b]]

-----------------------------------------------------------------------------
\* The calls.  Nothing else runs while the scheduler is suspended or after a
\* failed check.

Crashed == failed # NoSize
Ready(t, s) == untracing = NoThread /\ ~Crashed /\ step[t] = s

\* A block that a client holds and nobody else is about to free.
Held(t, p) == owner[p] \in Threads /\ \A u \in Threads \ {t} : ptr[u] # p

IsTraced(t) == root[t] # NoAddr
Entry(t, b) == {e \in dict[t] : e.block = b}

\* traceMALLOC adds a node to the dictionary unless the address is in it.
NeedsNode(t, b) == IsTraced(t) /\ Entry(t, b) = {}

\* furi_check in pvPortMalloc: out of memory, or malloc(0).
OutOfMemory(n) ==
    /\ failed' = n
    /\ UNCHANGED <<heap, owner, traceVars>>

\* pvPortMalloc, with the nested pvPortMalloc of traceMALLOC.
Allocate(t, n) ==
    \/ FirstFit(heap, Wanted(n)) = {} /\ OutOfMemory(n)
    \/ \E b \in FirstFit(heap, Wanted(n)) :
          LET h == Carve(heap, b, Wanted(n))
              nodes == FirstFit(h, Wanted(NodeSize))
          IN  \/ /\ ~NeedsNode(t, b)
                 /\ heap' = h
                 /\ owner' = [owner EXCEPT ![b] = t]
                 /\ UNCHANGED <<traceVars, failed>>
              \/ NeedsNode(t, b) /\ nodes = {} /\ OutOfMemory(NodeSize)
              \/ \E d \in nodes :
                    /\ NeedsNode(t, b)
                    /\ heap' = Carve(h, d, Wanted(NodeSize))
                    /\ owner' = [owner EXCEPT ![b] = t, ![d] = Trace]
                    /\ dict' = [dict EXCEPT ![t] = @ \cup {[block |-> b, node |-> d]}]
                    /\ UNCHANGED <<root, untracing, failed>>

\* malloc.
Malloc(t, n) ==
    /\ Ready(t, "idle")
    /\ Allocate(t, n)
    /\ UNCHANGED clientVars

\* realloc: the old block is freed after the copy.
Realloc(t, p, n) ==
    /\ Ready(t, "idle")
    /\ Held(t, p)
    /\ n > 0
    /\ Allocate(t, n)
    /\ IF Crashed' THEN UNCHANGED clientVars
       ELSE /\ step' = [step EXCEPT ![t] = "copy"]
            /\ ptr' = [ptr EXCEPT ![t] = p]

\* vPortFree up to the suspension: the block is marked free and cleared.  A
\* thread may free what another one has allocated, but only one does.
Free(t, p) ==
    /\ Held(t, p)
    /\ Ready(t, "idle") \/ (Ready(t, "copy") /\ p = ptr[t])
    /\ step' = [step EXCEPT ![t] = "free"]
    /\ ptr' = [ptr EXCEPT ![t] = p]
    /\ UNCHANGED <<heap, owner, traceVars, failed>>

\* Mutant: the node of the dictionary is forgotten.
NodesForgotten(t, b) == {}

\* traceFREE takes the entry of the address out of the dictionary of the thread
\* that frees it.
NodesFreed(t, b) == {e.node : e \in Entry(t, b)}

\* The rest of vPortFree.  The node is freed first, by a nested vPortFree.
FreeInsert(t) ==
    /\ Ready(t, "free")
    /\ LET b == ptr[t]
           h == Counted(heap, b)
           nodes == NodesFreed(t, b)
       IN  /\ \/ nodes = {} /\ heap' = Insert(h, b)
              \/ \E d \in nodes : heap' = Insert(Insert(Counted(h, d), d), b)
           /\ owner' = [a \in Addr |-> IF a \in nodes \cup {b} THEN NoThread
                                       ELSE owner[a]]
           /\ dict' = [dict EXCEPT ![t] = @ \ Entry(t, b)]
    /\ step' = [step EXCEPT ![t] = "idle"]
    /\ ptr' = [ptr EXCEPT ![t] = NoAddr]
    /\ UNCHANGED <<root, untracing, failed>>

-----------------------------------------------------------------------------
\* The trace.

\* memmgr_heap_enable_thread_trace, called by the thread itself before its
\* callback.  The dictionary of the thread is a node of the outer one.
EnableTrace(t) ==
    /\ Ready(t, "idle")
    /\ ~IsTraced(t)
    /\ \/ /\ FirstFit(heap, Wanted(NodeSize)) = {}
          /\ OutOfMemory(NodeSize)
       \/ \E d \in FirstFit(heap, Wanted(NodeSize)) :
             /\ heap' = Carve(heap, d, Wanted(NodeSize))
             /\ owner' = [owner EXCEPT ![d] = Trace]
             /\ root' = [root EXCEPT ![t] = d]
             /\ UNCHANGED <<dict, untracing, failed>>
    /\ UNCHANGED clientVars

\* memmgr_heap_disable_thread_trace, called by the thread itself after its
\* callback: the nodes are freed one by one, with the scheduler suspended ...
DisableTrace(t) ==
    /\ Ready(t, "idle")
    /\ IsTraced(t)
    /\ untracing' = t
    /\ UNCHANGED <<heap, owner, clientVars, root, dict, failed>>

EraseEntry(t) ==
    /\ untracing = t
    /\ \E e \in dict[t] :
          /\ heap' = Insert(Counted(heap, e.node), e.node)
          /\ owner' = [owner EXCEPT ![e.node] = NoThread]
          /\ dict' = [dict EXCEPT ![t] = @ \ {e}]
    /\ UNCHANGED <<clientVars, root, untracing, failed>>

\* ... and the thread's own node last.
EraseThread(t) ==
    /\ untracing = t
    /\ dict[t] = {}
    /\ heap' = Insert(Counted(heap, root[t]), root[t])
    /\ owner' = [owner EXCEPT ![root[t]] = NoThread]
    /\ root' = [root EXCEPT ![t] = NoAddr]
    /\ untracing' = NoThread
    /\ UNCHANGED <<clientVars, dict, failed>>

-----------------------------------------------------------------------------
Next ==
    \E t \in Threads :
        \/ \E n \in Requests : \/ Malloc(t, n)
                                \/ \E p \in Addr : Realloc(t, p, n)
        \/ \E p \in Addr : Free(t, p)
        \/ FreeInsert(t)
        \/ EnableTrace(t) \/ DisableTrace(t) \/ EraseEntry(t) \/ EraseThread(t)

Spec == Init /\ [][Next]_vars

-----------------------------------------------------------------------------
\* Properties.

(***************************************************************************)
(* The type invariant.                                                     *)
(***************************************************************************)
TypeOK ==
    /\ heap \in [next: [Addr \cup {Start} -> 0..End \cup {NoAddr}], size: [Addr -> Nat],
                 free: SUBSET Addr, bytes: Int]
    /\ owner \in [Addr -> Threads \cup {Trace, NoThread}]
    /\ step \in [Threads -> {"idle", "copy", "free"}]
    /\ ptr \in [Threads -> Addr \cup {NoAddr}]
    /\ root \in [Threads -> Addr \cup {NoAddr}]
    /\ dict \in [Threads -> SUBSET [block: Addr, node: Addr]]
    /\ untracing \in Threads \cup {NoThread}
    /\ failed \in Requests \cup {NodeSize, NoSize}

\* The blocks clients or the trace hold.
Used == {b \in Addr : owner[b] # NoThread}

(***************************************************************************)
(* The blocks of the heap, free or in use, lie one behind the other from   *)
(* its start to pxEnd and none overlaps another: no memory is handed out   *)
(* twice and none is lost, whatever was split, merged, or freed by a       *)
(* nested call in between.                                                 *)
(***************************************************************************)
Tiled(h, used) ==
    LET all == h.free \cup used IN
    /\ h.free \cap used = {}
    /\ 0 \in all
    /\ \A b \in all :
         /\ h.size[b] > 0
         /\ b + h.size[b] \in all \cup {End}
         /\ \A c \in all : ~(b < c /\ c < b + h.size[b])

(***************************************************************************)
(* The list leads from xStart through every free block to pxEnd in the     *)
(* order of their addresses, and no two of them touch: memory that has     *)
(* been freed is never stuck in fragments.                                 *)
(***************************************************************************)
Linked(h) ==
    \A i \in h.free \cup {Start} :
        /\ h.next[i] \in h.free \cup {End}
        /\ i < h.next[i]
        /\ \A b \in h.free : ~(i < b /\ b < h.next[i])
        /\ i # Start => i + h.size[i] \notin h.free

HeapSound == Tiled(heap, Used) /\ Linked(heap)

(***************************************************************************)
(* xFreeBytesRemaining, which pvPortMalloc relies on, is the sum of the    *)
(* free blocks, and all headers are aligned as configASSERT demands.       *)
(***************************************************************************)
BytesCounted ==
    /\ heap.bytes = MapThenSumSet(LAMBDA b : heap.size[b], heap.free)
    /\ \A b \in heap.free \cup Used : b % Align = 0

(***************************************************************************)
(* The trace neither loses nor shares the memory of its dictionaries: each *)
(* of its blocks is the node of one entry of one thread, or the thread's   *)
(* own, also when blocks are freed by other threads than those that        *)
(* allocated them and their addresses are handed out again.                *)
(***************************************************************************)
NodesOf(t) == ({e.node : e \in dict[t]} \cup {root[t]}) \ {NoAddr}

NodesAreOwned ==
    /\ {b \in Addr : owner[b] = Trace} = UNION {NodesOf(t) : t \in Threads}
    /\ \A t, u \in Threads : t # u => NodesOf(t) \cap NodesOf(u) = {}
    /\ \A t \in Threads :
         /\ dict[t] # {} => IsTraced(t) /\ root[t] \notin {e.node : e \in dict[t]}
         /\ \A e, f \in dict[t] :
              e.block = f.block \/ e.node = f.node => e = f

(***************************************************************************)
(* The heap does what Allocator promises: a block that was handed out is   *)
(* large enough, stays where it is and is its owner's alone until it was   *)
(* freed, whatever is split or merged around it, and no allocation fails   *)
(* while there is room for it.                                             *)
(***************************************************************************)
HeldBlocks == {[at |-> b, size |-> heap.size[b], by |-> owner[b]] : b \in Used}
Given == {ptr[t] : t \in {u \in Threads : step[u] = "free"}}
Traced == {t \in Threads : IsTraced(t)}

Promise == INSTANCE Allocator WITH
    held <- HeldBlocks, given <- Given, traced <- Traced,
    Spare <- MinBlock, Limit <- SizeMax \div 2

Implements == Promise!Spec
=============================================================================
