------------------------------- MODULE Allocator -------------------------------
(***************************************************************************)
(* What malloc, realloc and free (furi/core/memmgr.c, memmgr_heap.c)       *)
(* promise, without lists, headers, counters and dictionaries: a block is  *)
(* large enough, aligned and apart from all others; where it lies and how  *)
(* large it is do not change until it was given back, once, by its address *)
(* alone; and an allocation fails only when there is no room for it.  The  *)
(* allocator chooses where a block lies: actions say what held' may be.    *)
(***************************************************************************)
EXTENDS Integers

CONSTANTS
    Threads,  \* the threads that use the heap
    Trace,    \* the trace, which keeps books of traced threads in blocks too
    End,      \* addresses are below End
    Header,   \* what a block needs besides the bytes asked for
    Align,    \* the alignment of blocks
    Spare,    \* how much more a block may get, if no other fits in there
    Limit,    \* no larger block is handed out
    Requests, \* the sizes clients ask for
    NodeSize  \* the size the trace asks for

VARIABLES
    held,    \* the blocks in use: address, size and owner
    given,   \* the addresses passed to free that have not been freed yet
    traced,  \* the threads whose allocations are traced
    failed   \* the size for which there was no block

vars == <<held, given, traced, failed>>

NoSize == -1

Block == [at: 0..(End - 1), size: 1..End, by: Threads \cup {Trace}]

Init == held = {} /\ given = {} /\ traced = {} /\ failed = NoSize

\* With as much padding as may be needed.
Padded(n) == n + Header + Align - 1

\* A block lies outside of a range of addresses.
Outside(b, a, size) == a + size <= b.at \/ b.at + b.size <= a

\* It is one for n bytes, and apart from others.
Serves(b, u, n, others) ==
    /\ b \in Block /\ b.by = u
    /\ n > 0 /\ n + Header <= b.size /\ b.size <= Padded(n) + Spare
    /\ b.at % Align = 0
    /\ b.at + b.size <= End
    /\ \A c \in others : Outside(c, b.at, b.size)

\* There is none.
Full(blocks, n) ==
    \/ n = 0 \/ Padded(n) > Limit
    \/ \A a \in 0..(End - Padded(n)) : \E b \in blocks : ~Outside(b, a, Padded(n))

Fail(n) == failed' = n /\ UNCHANGED <<held, given, traced>>

\* malloc, or the allocation of realloc.  The trace may need a block as well.
Allocate(t, n) ==
    \/ Fail(n) /\ Full(held, n)
    \/ /\ Fail(NodeSize) /\ t \in traced
       /\ \E b \in Block : Serves(b, t, n, held) /\ Full(held \cup {b}, NodeSize)
    \/ /\ UNCHANGED <<given, traced, failed>>
       /\ \E b \in held' \ held :
            /\ Serves(b, t, n, held)
            /\ \/ held' = held \cup {b}
               \/ /\ t \in traced
                  /\ \E d \in held' : /\ Serves(d, Trace, NodeSize, held \cup {b})
                                      /\ held' = held \cup {b, d}

\* free is called for a block, whoever owns it ...
Give(p) ==
    /\ p \notin given
    /\ given' = given \cup {p}
    /\ \E b \in held : b.at = p /\ b.by # Trace
    /\ UNCHANGED <<held, traced, failed>>

\* ... and takes it back, perhaps with a block of the trace.
TakeBack(p) ==
    /\ p \in given
    /\ given' = given \ {p}
    /\ \E b \in held :
         /\ b.at = p
         /\ \/ held' = held \ {b}
            \/ \E d \in held : d.by = Trace /\ held' = held \ {b, d}
    /\ UNCHANGED <<traced, failed>>

\* The trace of a thread begins, and gives up its blocks one by one.
StartTrace(t) ==
    /\ t \notin traced
    /\ \/ Fail(NodeSize) /\ Full(held, NodeSize)
       \/ /\ traced' = traced \cup {t}
          /\ \E d \in held' \ held :
                Serves(d, Trace, NodeSize, held) /\ held' = held \cup {d}
          /\ UNCHANGED <<given, failed>>

StopTrace(t) ==
    /\ t \in traced
    /\ traced' \in {traced, traced \ {t}}
    /\ \E d \in held : d.by = Trace /\ held' = held \ {d}
    /\ UNCHANGED <<given, failed>>

Next ==
    /\ failed = NoSize
    /\ \/ \E t \in Threads : \/ \E n \in Requests : Allocate(t, n)
                             \/ StartTrace(t) \/ StopTrace(t)
       \/ \E p \in 0..(End - 1) : Give(p) \/ TakeBack(p)

Spec == Init /\ [][Next]_vars
=============================================================================
