----------------------------- MODULE Scratchpad -----------------------------
(***************************************************************************)
(* The scratchpad allocator of fixedpoint.h: one arena that holds a        *)
(* doubly-linked list of blocks, each a BlockHeader followed by its        *)
(* payload, searched first-fit, split on allocation and coalesced on free, *)
(* with posix_memalign as the fallback when no block fits.                 *)
(*                                                                         *)
(* Addresses are byte offsets from memory_buffer, so head_block is offset  *)
(* 0 and the arena is 0 .. total_size-1; memory of the C heap lies beyond  *)
(* every arena.  Every public operation holds scratchpad_mutex from start  *)
(* to end, so each is one action, whichever thread calls it.               *)
(***************************************************************************)
EXTENDS Integers, FiniteSets

CONSTANTS
    Align,         \* 128: the allocation quantum and sizeof(BlockHeader)
    ArenaSizes,    \* the values total_size may take
    DefaultSize,   \* its first value, 32 MiB in the code
    Request,       \* the sizes callers ask for
    HeapAddress,   \* what posix_memalign may return when alloc falls back
    RpcmemLoaded   \* whether load_rpcmem_once found libcdsprpc/libadsprpc

Hdr == Align
NULL == -1

(* An arena has room for a header and at least one byte.  The C heap       *)
(* returns addresses behind every arena, far enough apart for any request. *)
ASSUME ScratchpadAssumption ==
    /\ Align \in Nat \ {0}
    /\ ArenaSizes \subseteq Nat
    /\ \A s \in ArenaSizes : s > Hdr
    /\ DefaultSize \in ArenaSizes
    /\ Request \subseteq Nat
    /\ HeapAddress \subseteq Nat
    /\ \A a \in HeapAddress, s \in ArenaSizes : a > s
    /\ \A a, c \in HeapAddress, n \in Request : a < c => a + n <= c
    /\ RpcmemLoaded \in BOOLEAN

VARIABLES
    memory_buffer,  \* "null", or which allocator the arena came from
    total_size,
    blk,            \* blk[o] = the BlockHeader at offset o; no arena, no headers
    heap,           \* the C heap's view: fallback blocks it has handed out
    live            \* the callers' view: live[p] = bytes asked for, until freed

vars == <<memory_buffer, total_size, blk, heap, live>>

Header == [size : Nat, is_free : BOOLEAN, next : Nat \cup {NULL}, prev : Nat \cup {NULL}]

NoBlocks == [o \in {} |-> 0]

TypeOK ==
    /\ memory_buffer \in {"null", "rpcmem", "posix"}
    /\ total_size \in ArenaSizes
    /\ DOMAIN blk \subseteq Nat
    /\ blk \in [DOMAIN blk -> Header]
    /\ heap \subseteq HeapAddress
    /\ DOMAIN live \subseteq Nat
    /\ live \in [DOMAIN live -> Request]

Init ==
    /\ memory_buffer = "null"
    /\ total_size = DefaultSize
    /\ blk = NoBlocks
    /\ heap = {}
    /\ live = [p \in {} |-> 0]

-----------------------------------------------------------------------------
(* initialize_if_needed: the single free block of a fresh arena, which     *)
(* rpcmem may refuse and posix_memalign may refuse too.                    *)

FreshArena ==
    [o \in {0} |-> [size |-> total_size - Hdr, is_free |-> TRUE, next |-> NULL, prev |-> NULL]]

initialize_if_needed(buffer, b) ==
    IF memory_buffer # "null"
    THEN buffer = memory_buffer /\ b = blk
    ELSE \/ RpcmemLoaded /\ buffer = "rpcmem" /\ b = FreshArena
         \/ buffer = "posix" /\ b = FreshArena
         \/ buffer = "null" /\ b = NoBlocks

-----------------------------------------------------------------------------
(* alloc: (size + 127) & ~127, the list walk and the split. *)

(* Wrong on purpose: no rounding. *)
RoundUpNot(n) == n

RoundUp(n) == (n + Align - 1) - ((n + Align - 1) % Align)

(* The i-th block the loop of alloc looks at, NULL past the end. *)
Walk(b) ==
    LET at[i \in Nat] ==
            IF i = 0 THEN IF 0 \in DOMAIN b THEN 0 ELSE NULL
            ELSE IF at[i - 1] = NULL THEN NULL
            ELSE b[at[i - 1]].next
    IN at

Fits(b, h, size) == b[h].is_free /\ b[h].size >= size

(* Wrong on purpose: the walk stops at the head. *)
HeadFit(b, h, size) == h = 0 /\ Fits(b, h, size)

FirstFit(b, h, size) ==
    \E i \in 0 .. Cardinality(DOMAIN b) - 1 :
        /\ Walk(b)[i] = h
        /\ Fits(b, h, size)
        /\ \A j \in 0 .. i - 1 : ~Fits(b, Walk(b)[j], size)

(* Wrong on purpose: the remainder is not looked at; its header is forgotten. *)
SplitAlways(b, h, size) == b[h].size >= size
SplitToNothing(b, h, size) == b[h].size >= size + Align

WorthSplitting(b, h, size) == b[h].size >= size + Hdr + Align

(* Wrong on purpose: the successor's prev is forgotten. *)
SplitOneWay(b, h, size) ==
    LET next_block == h + Hdr + size IN
    [o \in DOMAIN b \cup {next_block} |->
        IF o = next_block
        THEN [size |-> b[h].size - size - Hdr, is_free |-> TRUE, next |-> b[h].next, prev |-> h]
        ELSE IF o = h THEN [b[h] EXCEPT !.size = size, !.next = next_block]
        ELSE b[o]]

(* Cut the tail of block h off into a new free block. *)
Split(b, h, size) ==
    LET next_block == h + Hdr + size IN
    [o \in DOMAIN b \cup {next_block} |->
        IF o = next_block
        THEN [size |-> b[h].size - size - Hdr, is_free |-> TRUE, next |-> b[h].next, prev |-> h]
        ELSE IF o = h THEN [b[h] EXCEPT !.size = size, !.next = next_block]
        ELSE IF o = b[h].next THEN [b[o] EXCEPT !.prev = next_block]
        ELSE b[o]]

(* Wrong on purpose: the block stays free. *)
TakeUnmarked(b, h, size) == IF WorthSplitting(b, h, size) THEN Split(b, h, size) ELSE b

Take(b, h, size) ==
    LET s == IF WorthSplitting(b, h, size) THEN Split(b, h, size) ELSE b
    IN  [s EXCEPT ![h].is_free = FALSE]

Hold(p, n) == live' = [q \in DOMAIN live \cup {p} |-> IF q = p THEN n ELSE live[q]]

AllocFromArena(n) ==
    \E buffer \in {"rpcmem", "posix"}, b \in {blk, FreshArena} :
        /\ initialize_if_needed(buffer, b)
        /\ \E h \in DOMAIN b :
              /\ FirstFit(b, h, RoundUp(n))
              /\ blk' = Take(b, h, RoundUp(n))
              /\ Hold(h + Hdr, n)
        /\ memory_buffer' = buffer
        /\ UNCHANGED <<total_size, heap>>

(* No block fits: posix_memalign, which may fail, in which case alloc      *)
(* returns a null pointer and its caller holds nothing.                    *)
AllocFromHeap(n) ==
    \E buffer \in {"null", "rpcmem", "posix"}, b \in {blk, FreshArena} :
        /\ initialize_if_needed(buffer, b)
        /\ ~\E h \in DOMAIN b : FirstFit(b, h, RoundUp(n))
        /\ blk' = b
        /\ memory_buffer' = buffer
        /\ \/ \E p \in HeapAddress \ heap :
                 /\ heap' = heap \cup {p}
                 /\ Hold(p, n)
           \/ UNCHANGED <<heap, live>>
        /\ UNCHANGED total_size

-----------------------------------------------------------------------------
(* free: the header before the payload is marked free and merged with the  *)
(* free neighbours, the following one first.                               *)

InArena(p) == memory_buffer # "null" /\ p >= 0 /\ p < total_size

(* Block h swallows n, its successor in the list; n's header is no more. *)
Absorb(b, h, n) ==
    [o \in DOMAIN b \ {n} |->
        IF o = h THEN [b[h] EXCEPT !.size = @ + Hdr + b[n].size, !.next = b[n].next]
        ELSE IF o = b[n].next THEN [b[o] EXCEPT !.prev = h]
        ELSE b[o]]

MergeNext(b, h) ==
    IF b[h].next # NULL /\ b[b[h].next].is_free THEN Absorb(b, h, b[h].next) ELSE b

(* Wrong on purpose: the preceding neighbour is not looked at. *)
MergeNextOnly(b, h) == b

MergePrev(b, h) ==
    IF b[h].prev # NULL /\ b[b[h].prev].is_free THEN Absorb(b, b[h].prev, h) ELSE b

Coalesce(b, h) == MergePrev(MergeNext([b EXCEPT ![h].is_free = TRUE], h), h)

Drop(p) == live' = [q \in DOMAIN live \ {p} |-> live[q]]

FreeToArena(p) ==
    /\ p \in DOMAIN live
    /\ InArena(p)
    /\ blk' = Coalesce(blk, p - Hdr)
    /\ Drop(p)
    /\ UNCHANGED <<memory_buffer, total_size, heap>>

FreeToHeap(p) ==
    /\ p \in DOMAIN live
    /\ ~InArena(p)
    /\ heap' = heap \ {p}
    /\ Drop(p)
    /\ UNCHANGED <<memory_buffer, total_size, blk>>

-----------------------------------------------------------------------------
(* set_size gives the arena back; the next alloc maps a new one.  Nothing  *)
(* in the repository calls it.  A caller that still held arena memory      *)
(* would be left with dangling pointers, so it is called when none is held.*)
set_size(new_size) ==
    /\ \A p \in DOMAIN live : ~InArena(p)
    /\ memory_buffer' = "null"
    /\ blk' = NoBlocks
    /\ total_size' = new_size
    /\ UNCHANGED <<heap, live>>

Next ==
    \/ \E n \in Request : AllocFromArena(n) \/ AllocFromHeap(n)
    \/ \E p \in DOMAIN live : FreeToArena(p) \/ FreeToHeap(p)
    \/ \E s \in ArenaSizes : set_size(s)

Spec == Init /\ [][Next]_vars

-----------------------------------------------------------------------------
(* Safety. *)

End(b, h) == h + Hdr + b[h].size

LinkedToNext(b, h, end) ==
    IF b[h].next = NULL
    THEN End(b, h) = end
    ELSE /\ b[h].next \in DOMAIN b
         /\ b[h].next = End(b, h)
         /\ b[b[h].next].prev = h

LinkedToPrev(b, h) ==
    IF b[h].prev = NULL
    THEN h = 0
    ELSE /\ b[h].prev \in DOMAIN b
         /\ b[b[h].prev].next = h

WellFormed(b, end) ==
    /\ 0 \in DOMAIN b
    /\ \A h \in DOMAIN b : LinkedToNext(b, h, end) /\ LinkedToPrev(b, h)
    /\ \A g, h \in DOMAIN b : g < h => End(b, g) <= h

(* The blocks cut the arena into consecutive pieces: each starts where its *)
(* predecessor in the list ends, the last one ends with the arena, no two  *)
(* overlap, and the backward links mirror the forward ones.  It is what    *)
(* the pointer surgery of alloc and free must preserve (fixedpoint.h       *)
(* 151-160 and 174-185).                                                   *)
BlocksTileArena == memory_buffer # "null" => WellFormed(blk, total_size)

(* Whatever a caller may still free is recognised by free: an arena        *)
(* pointer passes the range test and has its own, allocated header right   *)
(* before it, large enough for what was asked; any other pointer came from *)
(* posix_memalign, so ::free may have it (the test at fixedpoint.h 173).   *)
FreeFindsItsBlock ==
    \A p \in DOMAIN live :
        IF InArena(p)
        THEN /\ p - Hdr \in DOMAIN blk
             /\ ~blk[p - Hdr].is_free
             /\ live[p] <= blk[p - Hdr].size
        ELSE p \in heap

(* Once every arena pointer is returned, in whatever order, the arena is   *)
(* again the one free block it started as: nothing leaks and free leaves   *)
(* no fragmentation behind (the two merges, fixedpoint.h 176-185).         *)
FullCoalescing ==
    /\ memory_buffer # "null"
    /\ \A p \in DOMAIN live : ~InArena(p)
    => blk = FreshArena

(* Every pointer handed out keeps the 128-byte alignment that TFLite's     *)
(* custom allocations and the NPU buffers rely on (fixedpoint.h 83, 147).  *)
PayloadAligned ==
    \A p \in DOMAIN live : InArena(p) => p % Align = 0

(* alloc falls back to the C heap only when no free block of the arena is  *)
(* large enough: the list walk misses no block (fixedpoint.h 148-167).     *)
HeapOnlyWhenFull ==
    [][\A p \in heap' \ heap :
          ~\E h \in DOMAIN blk' : Fits(blk', h, RoundUp(live'[p]))]_vars

(* The allocator implements the promise of ScratchpadPool: what its        *)
(* callers hold are disjoint ranges, each as long as was asked.            *)
ArenaAddress == UNION {0 .. s : s \in ArenaSizes}
Pool == INSTANCE ScratchpadPool WITH Address <- ArenaAddress \cup HeapAddress
PoolSpec == Pool!Spec

=============================================================================
