-------------------------- MODULE ScratchpadProofs --------------------------
(***************************************************************************)
(* Proofs about Scratchpad: for every quantum, arena size and request the  *)
(* block list stays a tiling of the arena, free always finds the header of *)
(* what it is given, freeing everything restores the single free block,    *)
(* the walk over the list misses no block, and the allocator implements    *)
(* ScratchpadPool.                                                         *)
(***************************************************************************)
EXTENDS Scratchpad, FiniteSetTheorems, WellFoundedInduction, TLAPS

BlockMap(b) == DOMAIN b \subseteq Nat /\ b \in [DOMAIN b -> Header]

Bounded(b, end) == \A h \in DOMAIN b : End(b, h) <= end /\ h + Hdr < end

(* The shape of the list between two calls of alloc or free, neighbours    *)
(* that are both free excepted. *)
Tiled(b, end) == BlockMap(b) /\ WellFormed(b, end) /\ Bounded(b, end)

FreePair(b, o) == b[o].is_free /\ b[o].next # NULL /\ b[b[o].next].is_free

NoFreePair(b) == \A o \in DOMAIN b : ~FreePair(b, o)

Mapped == memory_buffer # "null"

EveryBlockHeld == \A h \in DOMAIN blk : ~blk[h].is_free => h + Hdr \in DOMAIN live

(* The inductive invariant: FreeFindsItsBlock needs the tiling to know     *)
(* that a merge swallows no header in use, the tiling needs                *)
(* FreeFindsItsBlock to know that what is freed is a block, and            *)
(* FullCoalescing needs both directions between blocks and pointers.       *)
IInv ==
    /\ TypeOK
    /\ ~Mapped => blk = NoBlocks
    /\ Mapped => Tiled(blk, total_size) /\ NoFreePair(blk)
    /\ EveryBlockHeld
    /\ FreeFindsItsBlock

-----------------------------------------------------------------------------
(* Rounding a request up never shrinks it (fixedpoint.h 147). *)
LEMMA RoundUpCovers ==
    ASSUME NEW n \in Nat
    PROVE  RoundUp(n) \in Nat /\ RoundUp(n) >= n
  <1>1. Align \in Nat /\ Align > 0
    BY ScratchpadAssumption
  <1>2. (n + Align - 1) % Align \in 0 .. Align - 1
    BY <1>1
  <1> QED
    BY <1>1, <1>2 DEF RoundUp

SplitEffect(s, b, h, size, nb, end) ==
    /\ Tiled(s, end)
    /\ DOMAIN s = DOMAIN b \cup {nb} /\ nb \notin DOMAIN b
    /\ s[h].size = size /\ s[h].next = nb
    /\ s[nb].is_free = TRUE /\ s[nb].next = b[h].next
    /\ \A o \in DOMAIN b : o # h => /\ s[o].is_free = b[o].is_free
                                   /\ s[o].next = b[o].next
                                   /\ s[o].size = b[o].size

(* Cutting the tail off a block large enough keeps the tiling (the split   *)
(* of alloc, fixedpoint.h 151-160). *)
LEMMA SplitTiled ==
    ASSUME NEW end \in Nat, NEW b, Tiled(b, end), NEW h \in DOMAIN b,
           NEW size \in Nat, WorthSplitting(b, h, size),
           NEW s, s = Split(b, h, size), NEW nb, nb = h + Hdr + size
    PROVE  SplitEffect(s, b, h, size, nb, end)
  <1>0. /\ Hdr \in Nat /\ Align \in Nat /\ Hdr > 0 /\ Align > 0
        /\ h \in Nat /\ nb \in Nat /\ NULL \notin Nat
    BY ScratchpadAssumption DEF Hdr, NULL, Tiled, BlockMap
  <1>1. /\ DOMAIN b \subseteq Nat
        /\ \A o \in DOMAIN b : /\ b[o] \in Header
                               /\ b[o].size \in Nat
                               /\ b[o].next \in Nat \cup {NULL}
                               /\ b[o].prev \in Nat \cup {NULL}
    BY DEF Tiled, BlockMap, Header
  <1>2. /\ nb + Hdr + Align <= End(b, h)
        /\ End(b, h) <= end
        /\ nb > h
        /\ End(b, h) \in Nat
    BY <1>0, <1>1 DEF WorthSplitting, End, Tiled, Bounded
  <1>3. nb \notin DOMAIN b
    <2> SUFFICES ASSUME nb \in DOMAIN b PROVE FALSE
      OBVIOUS
    <2>1. End(b, h) <= nb
      BY <1>0, <1>2 DEF Tiled, WellFormed
    <2> QED
      BY <2>1, <1>0, <1>1, <1>2 DEF End
  <1>4. DOMAIN s = DOMAIN b \cup {nb}
    BY DEF Split
  <1>5. s[nb] = [size |-> b[h].size - size - Hdr, is_free |-> TRUE, next |-> b[h].next, prev |-> h]
    BY DEF Split
  <1>6. s[h] = [b[h] EXCEPT !.size = size, !.next = nb]
    BY <1>3 DEF Split
  <1>7. \A o \in DOMAIN b \ {h} :
           s[o] = IF o = b[h].next THEN [b[o] EXCEPT !.prev = nb] ELSE b[o]
    BY <1>3 DEF Split
  <1>a. s = [o \in DOMAIN s |-> s[o]]
    BY DEF Split
  <1>b. b[h].size >= size + Hdr + Align
    BY DEF WorthSplitting
  <1>8. BlockMap(s)
    <2>1. s[nb] \in Header
      BY <1>5, <1>0, <1>1, <1>b DEF Header
    <2>2. s[h] \in Header
      BY <1>6, <1>0, <1>1 DEF Header
    <2>3. \A o \in DOMAIN b \ {h} : s[o] \in Header
      <3> SUFFICES ASSUME NEW o \in DOMAIN b \ {h} PROVE s[o] \in Header
        OBVIOUS
      <3>1. [b[o] EXCEPT !.prev = nb] \in Header
        BY <1>0, <1>1 DEF Header
      <3> QED
        BY <3>1, <1>7, <1>1
    <2> QED
      BY <2>1, <2>2, <2>3, <1>4, <1>0, <1>1, <1>a DEF BlockMap
  <1>9. /\ s[nb].size = b[h].size - size - Hdr /\ s[nb].next = b[h].next /\ s[nb].prev = h
        /\ s[h].size = size /\ s[h].next = nb /\ s[h].prev = b[h].prev
    BY <1>5, <1>6, <1>1 DEF Header
  <1>10. \A o \in DOMAIN b \ {h} : /\ s[o].size = b[o].size
                                   /\ s[o].next = b[o].next
                                   /\ s[o].is_free = b[o].is_free
                                   /\ s[o].prev = IF o = b[h].next THEN nb ELSE b[o].prev
    BY <1>7, <1>1 DEF Header
  <1>11. /\ End(s, nb) = End(b, h) /\ End(s, h) = nb
         /\ \A o \in DOMAIN b \ {h} : End(s, o) = End(b, o)
    BY <1>9, <1>10, <1>0, <1>1 DEF End
  <1>12. Bounded(s, end)
    <2>1. \A o \in DOMAIN b : End(b, o) <= end /\ o + Hdr < end
      BY DEF Tiled, Bounded
    <2>2. nb <= end /\ nb + Hdr < end
      BY <1>0, <1>2
    <2> QED
      BY <2>1, <2>2, <1>11, <1>4, <1>2 DEF Bounded
  <1>13. \A f, g \in DOMAIN s : f < g => End(s, f) <= g
    <2>1. \A f, g \in DOMAIN b : f < g => End(b, f) <= g
      BY DEF Tiled, WellFormed
    <2>2. \A g \in DOMAIN b : End(b, g) \in Nat
      BY <1>0, <1>1 DEF End
    <2>3. \A g \in DOMAIN b : g < nb => g <= h
      BY <2>1, <2>2, <1>0, <1>1, <1>2
    <2> QED
      BY <2>1, <2>2, <2>3, <1>4, <1>11, <1>0, <1>1, <1>2
  <1>14. \A o \in DOMAIN b : LinkedToNext(b, o, end) /\ LinkedToPrev(b, o)
    BY DEF Tiled, WellFormed
  <1>15. LinkedToNext(s, nb, end) /\ LinkedToPrev(s, nb)
    <2>1. b[h].next # NULL => b[h].next # h
      BY <1>14, <1>0, <1>1, <1>2 DEF LinkedToNext, End
    <2> QED
      BY <2>1, <1>14, <1>9, <1>10, <1>11, <1>4, <1>0 DEF LinkedToNext, LinkedToPrev
  <1>16. LinkedToNext(s, h, end)
    BY <1>9, <1>11, <1>4, <1>0 DEF LinkedToNext
  <1>17. LinkedToPrev(s, h)
    <2>1. b[h].prev # NULL => b[h].prev # h
      BY <1>14, <1>0, <1>1, <1>2 DEF LinkedToPrev, LinkedToNext, End
    <2> QED
      BY <2>1, <1>14, <1>9, <1>10, <1>4 DEF LinkedToPrev
  <1>18. ASSUME NEW o \in DOMAIN b, o # h
         PROVE  LinkedToNext(s, o, end) /\ LinkedToPrev(s, o)
    <2>1. b[o].next # NULL => b[o].next # b[h].next
      BY <1>18, <1>14, <1>0 DEF LinkedToNext
    <2>2. LinkedToNext(s, o, end)
      BY <2>1, <1>18, <1>14, <1>9, <1>10, <1>11, <1>4 DEF LinkedToNext
    <2>3. o = b[h].next => b[o].prev = h
      BY <1>14, <1>0, <1>1 DEF LinkedToNext
    <2>4. o # b[h].next => b[o].prev # h
      BY <1>18, <1>14, <1>0, <1>1 DEF LinkedToPrev
    <2>5. LinkedToPrev(s, o)
      BY <2>3, <2>4, <1>18, <1>14, <1>9, <1>10, <1>4, <1>0 DEF LinkedToPrev
    <2> QED
      BY <2>2, <2>5
  <1>19. WellFormed(s, end)
    BY <1>13, <1>15, <1>16, <1>17, <1>18, <1>4 DEF WellFormed, Tiled
  <1> QED
    BY <1>3, <1>4, <1>5, <1>8, <1>9, <1>10, <1>12, <1>19 DEF Tiled, SplitEffect

MarkEffect(m, b, h, v, end) ==
    /\ Tiled(m, end)
    /\ DOMAIN m = DOMAIN b
    /\ m[h].is_free = v
    /\ \A o \in DOMAIN b : /\ o # h => m[o] = b[o]
                           /\ m[o].size = b[o].size
                           /\ m[o].next = b[o].next
                           /\ m[o].prev = b[o].prev

(* Setting is_free touches neither sizes nor links (fixedpoint.h 161, 175). *)
LEMMA MarkTiled ==
    ASSUME NEW end \in Nat, NEW b, Tiled(b, end), NEW h \in DOMAIN b,
           NEW v \in BOOLEAN, NEW m, m = [b EXCEPT ![h].is_free = v]
    PROVE  MarkEffect(m, b, h, v, end)
  <1>1. /\ DOMAIN b \subseteq Nat
        /\ b \in [DOMAIN b -> Header]
    BY DEF Tiled, BlockMap
  <1>2. DOMAIN m = DOMAIN b /\ m = [o \in DOMAIN m |-> m[o]]
    BY <1>1
  <1>3. m[h] = [b[h] EXCEPT !.is_free = v] /\ \A o \in DOMAIN b : o # h => m[o] = b[o]
    BY <1>1
  <1>4. \A o \in DOMAIN b : b[o] \in Header
    BY <1>1
  <1>5. /\ m[h] \in Header
        /\ m[h].is_free = v
        /\ m[h].size = b[h].size /\ m[h].next = b[h].next /\ m[h].prev = b[h].prev
    BY <1>3, <1>4 DEF Header
  <1>6. \A o \in DOMAIN b : m[o].size = b[o].size /\ m[o].next = b[o].next /\ m[o].prev = b[o].prev
    BY <1>3, <1>5
  <1>7. BlockMap(m)
    BY <1>1, <1>2, <1>3, <1>4, <1>5 DEF BlockMap
  <1>8. \A o \in DOMAIN b : End(m, o) = End(b, o)
    BY <1>6 DEF End
  <1>9. WellFormed(m, end)
    <2>1. 0 \in DOMAIN b /\ \A f, g \in DOMAIN b : f < g => End(b, f) <= g
      BY DEF Tiled, WellFormed
    <2>2. ASSUME NEW o \in DOMAIN b PROVE LinkedToNext(m, o, end) /\ LinkedToPrev(m, o)
      <3>1. LinkedToNext(b, o, end) /\ LinkedToPrev(b, o)
        BY DEF Tiled, WellFormed
      <3>2. m[o].next = b[o].next /\ m[o].prev = b[o].prev /\ End(m, o) = End(b, o)
        BY <1>6, <1>8
      <3>3. LinkedToNext(m, o, end)
        BY <3>1, <3>2, <1>2, <1>6 DEF LinkedToNext
      <3>4. LinkedToPrev(m, o)
        BY <3>1, <3>2, <1>2, <1>6 DEF LinkedToPrev
      <3> QED
        BY <3>3, <3>4
    <2> QED
      BY <2>1, <2>2, <1>2, <1>8 DEF WellFormed
  <1>10. Bounded(m, end)
    BY <1>2, <1>8 DEF Bounded, Tiled
  <1>11. Tiled(m, end)
    BY <1>7, <1>9, <1>10 DEF Tiled
  <1> QED
    BY <1>2, <1>3, <1>5, <1>6, <1>11 DEF MarkEffect

AbsorbEffect(a, b, h, n, end) ==
    /\ Tiled(a, end)
    /\ DOMAIN a = DOMAIN b \ {n}
    /\ n \in DOMAIN b /\ h # n
    /\ a[h].next = b[n].next
    /\ a[h].is_free = b[h].is_free
    /\ \A o \in DOMAIN a : o # h => /\ a[o].is_free = b[o].is_free
                                    /\ a[o].next = b[o].next
                                    /\ a[o].size = b[o].size

(* A block swallowing its successor keeps the tiling; both merges of free  *)
(* are this step (fixedpoint.h 176-185). *)
LEMMA AbsorbTiled ==
    ASSUME NEW end \in Nat, NEW b, Tiled(b, end), NEW h \in DOMAIN b,
           NEW n, n = b[h].next, n # NULL, NEW a, a = Absorb(b, h, n)
    PROVE  AbsorbEffect(a, b, h, n, end)
  <1>0. Hdr \in Nat /\ Hdr > 0 /\ NULL \notin Nat
    BY ScratchpadAssumption DEF Hdr, NULL
  <1>1. /\ DOMAIN b \subseteq Nat
        /\ \A o \in DOMAIN b : /\ b[o] \in Header
                               /\ b[o].size \in Nat
                               /\ b[o].next \in Nat \cup {NULL}
                               /\ b[o].prev \in Nat \cup {NULL}
                               /\ b[o].is_free \in BOOLEAN
    BY DEF Tiled, BlockMap, Header
  <1>2. \A o \in DOMAIN b : LinkedToNext(b, o, end) /\ LinkedToPrev(b, o)
    BY DEF Tiled, WellFormed
  <1>3. n \in DOMAIN b /\ n = End(b, h) /\ b[n].prev = h
    BY <1>2 DEF LinkedToNext
  <1>4. /\ \A o \in DOMAIN b : End(b, o) \in Nat /\ End(b, o) > o
        /\ h < n
    BY <1>0, <1>1, <1>3 DEF End
  <1>5. b[n].next # NULL => b[n].next # h /\ b[n].next # n
    BY <1>2, <1>3, <1>4, <1>1 DEF LinkedToNext
  <1>6. DOMAIN a = DOMAIN b \ {n} /\ a = [o \in DOMAIN a |-> a[o]]
    BY DEF Absorb
  <1>7. a[h] = [b[h] EXCEPT !.size = @ + Hdr + b[n].size, !.next = b[n].next]
    BY <1>4, <1>1, <1>3 DEF Absorb
  <1>8. \A o \in DOMAIN b \ {h, n} :
           a[o] = IF o = b[n].next THEN [b[o] EXCEPT !.prev = h] ELSE b[o]
    BY DEF Absorb
  <1>9. /\ a[h] \in Header
        /\ a[h].size = b[h].size + Hdr + b[n].size
        /\ a[h].next = b[n].next /\ a[h].prev = b[h].prev /\ a[h].is_free = b[h].is_free
    <2> DEFINE r == [b[h] EXCEPT !.size = @ + Hdr + b[n].size, !.next = b[n].next]
    <2>1. b[h] \in Header /\ b[n].next \in Nat \cup {NULL} /\ b[h].size + Hdr + b[n].size \in Nat
      BY <1>0, <1>1, <1>3
    <2>2. /\ r.size = b[h].size + Hdr + b[n].size /\ r.next = b[n].next
          /\ r.prev = b[h].prev /\ r.is_free = b[h].is_free
      BY <2>1 DEF Header
    <2>3. r \in Header
      BY <2>1 DEF Header
    <2> QED
      BY <2>2, <2>3, <1>7
  <1>10. ASSUME NEW o \in DOMAIN b \ {h, n}
         PROVE  /\ a[o] \in Header
                /\ a[o].size = b[o].size
                /\ a[o].next = b[o].next
                /\ a[o].is_free = b[o].is_free
                /\ a[o].prev = IF o = b[n].next THEN h ELSE b[o].prev
    <2>1. b[o] \in Header /\ h \in Nat
      BY <1>1
    <2>2. CASE o = b[n].next
      <3>1. a[o] = [b[o] EXCEPT !.prev = h]
        BY <2>2, <1>8
      <3> QED
        BY <3>1, <2>1, <2>2 DEF Header
    <2>3. CASE o # b[n].next
      BY <2>1, <2>3, <1>8
    <2> QED
      BY <2>2, <2>3
  <1>11. BlockMap(a)
    BY <1>9, <1>10, <1>6, <1>1 DEF BlockMap
  <1>12. /\ End(a, h) = End(b, n)
         /\ \A o \in DOMAIN b \ {h, n} : End(a, o) = End(b, o)
    BY <1>9, <1>10, <1>0, <1>1, <1>3 DEF End
  <1>13. Bounded(a, end)
    BY <1>12, <1>6, <1>3 DEF Bounded, Tiled
  <1>14. \A f, g \in DOMAIN a : f < g => End(a, f) <= g
    <2>1. \A f, g \in DOMAIN b : f < g => End(b, f) <= g
      BY DEF Tiled, WellFormed
    <2>2. \A g \in DOMAIN a : h < g => n < g
      BY <2>1, <1>3, <1>6, <1>1, <1>4
    <2> QED
      BY <2>1, <2>2, <1>12, <1>6, <1>3
  <1>15. LinkedToNext(a, h, end)
    BY <1>2, <1>3, <1>5, <1>6, <1>9, <1>10, <1>12 DEF LinkedToNext
  <1>16. LinkedToPrev(a, h)
    <2>1. b[h].prev # NULL => b[h].prev # n /\ b[h].prev # h
      BY <1>2, <1>3, <1>4, <1>5, <1>1 DEF LinkedToPrev
    <2> QED
      BY <2>1, <1>2, <1>6, <1>9, <1>10 DEF LinkedToPrev
  <1>17. ASSUME NEW o \in DOMAIN b \ {h, n}
         PROVE  LinkedToNext(a, o, end) /\ LinkedToPrev(a, o)
    <2>1. b[o].next # NULL => b[o].next # n /\ b[o].next # b[n].next
      BY <1>17, <1>2, <1>3 DEF LinkedToNext
    <2>2. LinkedToNext(a, o, end)
      BY <2>1, <1>2, <1>6, <1>9, <1>10, <1>12 DEF LinkedToNext
    <2>3. b[o].prev # NULL /\ b[o].prev = n => o = b[n].next
      BY <1>2 DEF LinkedToPrev
    <2>4. b[o].prev # h
      BY <1>2, <1>0, <1>1, <1>17 DEF LinkedToPrev
    <2>5. LinkedToPrev(a, o)
      BY <2>3, <2>4, <1>2, <1>6, <1>9, <1>10, <1>0, <1>1 DEF LinkedToPrev
    <2> QED
      BY <2>2, <2>5
  <1>18. WellFormed(a, end)
    <2>1. 0 \in DOMAIN a
      BY <1>6, <1>1, <1>4 DEF Tiled, WellFormed
    <2> QED
      BY <2>1, <1>6, <1>14, <1>15, <1>16, <1>17 DEF WellFormed
  <1>19. Tiled(a, end)
    BY <1>11, <1>13, <1>18 DEF Tiled
  <1>20. \A o \in DOMAIN a : o # h => /\ a[o].is_free = b[o].is_free
                                      /\ a[o].next = b[o].next
                                      /\ a[o].size = b[o].size
    BY <1>6, <1>10
  <1> QED
    BY <1>3, <1>4, <1>6, <1>9, <1>19, <1>20, <1>1 DEF AbsorbEffect

TakeEffect(t, b, h, size, end) ==
    /\ Tiled(t, end) /\ NoFreePair(t)
    /\ h \in DOMAIN t /\ ~t[h].is_free /\ size <= t[h].size
    /\ \A o \in DOMAIN b : o # h => /\ o \in DOMAIN t
                                   /\ t[o].is_free = b[o].is_free
                                   /\ t[o].size = b[o].size
    /\ \A o \in DOMAIN t : ~t[o].is_free => o = h \/ (o \in DOMAIN b /\ ~b[o].is_free)

(* What alloc does to the block it found: the block is in use and large    *)
(* enough, every other block is as it was, and the cut-off tail, if any,   *)
(* is not followed by a free block (fixedpoint.h 150-162). *)
LEMMA TakeKeeps ==
    ASSUME NEW end \in Nat, NEW b, Tiled(b, end), NoFreePair(b),
           NEW h \in DOMAIN b, NEW size \in Nat, Fits(b, h, size),
           NEW t, t = Take(b, h, size)
    PROVE  TakeEffect(t, b, h, size, end)
  <1>0. b[h].size \in Nat /\ b[h].is_free /\ size <= b[h].size
    BY DEF Tiled, BlockMap, Header, Fits
  <1>1. CASE WorthSplitting(b, h, size)
    <2> DEFINE s == Split(b, h, size)
               nb == h + Hdr + size
    <2>0. SplitEffect(s, b, h, size, nb, end)
      BY <1>1, SplitTiled, Zenon
    <2>1. /\ Tiled(s, end)
          /\ DOMAIN s = DOMAIN b \cup {nb} /\ nb \notin DOMAIN b
          /\ s[h].size = size /\ s[h].next = nb
          /\ s[nb].is_free = TRUE /\ s[nb].next = b[h].next
          /\ \A o \in DOMAIN b : o # h => /\ s[o].is_free = b[o].is_free
                                         /\ s[o].next = b[o].next
                                         /\ s[o].size = b[o].size
      BY <2>0 DEF SplitEffect
    <2>2. t = [s EXCEPT ![h].is_free = FALSE]
      BY <1>1 DEF Take
    <2> HIDE DEF s, nb
    <2>a. MarkEffect(t, s, h, FALSE, end)
      BY <2>1, <2>2, MarkTiled, Zenon
    <2>3. /\ Tiled(t, end)
          /\ DOMAIN t = DOMAIN s
          /\ t[h].is_free = FALSE
          /\ \A o \in DOMAIN s : /\ o # h => t[o] = s[o]
                                 /\ t[o].size = s[o].size
                                 /\ t[o].next = s[o].next
                                 /\ t[o].prev = s[o].prev
      BY <2>a DEF MarkEffect
    <2>4. \A o \in DOMAIN b : o # h => /\ o \in DOMAIN t
                                      /\ t[o].is_free = b[o].is_free
                                      /\ t[o].size = b[o].size
                                      /\ t[o].next = b[o].next
      BY <2>1, <2>3
    <2>5. t[nb].is_free = TRUE /\ t[nb].next = b[h].next
      BY <2>1, <2>3
    <2>6. NoFreePair(t)
      <3>1. ASSUME NEW o \in DOMAIN t, FreePair(t, o) PROVE FALSE
        <4>1. t[o].next \in DOMAIN t /\ t[o].next # h /\ o # h
          BY <3>1, <2>3 DEF FreePair, Tiled, WellFormed, LinkedToNext
        <4>2. CASE o = nb
          <5>1. b[h].next # NULL /\ b[h].next \in DOMAIN b
            BY <4>2, <3>1, <2>5, <1>0 DEF FreePair, Tiled, WellFormed, LinkedToNext
          <5> QED
            BY <5>1, <4>1, <4>2, <3>1, <2>4, <2>5, <1>0 DEF FreePair, NoFreePair
        <4>3. CASE o # nb
          <5>1. o \in DOMAIN b /\ t[o].next = b[o].next /\ b[o].is_free
            BY <4>1, <4>3, <3>1, <2>1, <2>3, <2>4 DEF FreePair
          <5>2. b[o].next \in DOMAIN b
            BY <5>1, <3>1 DEF FreePair, Tiled, WellFormed, LinkedToNext
          <5> QED
            BY <5>1, <5>2, <4>1, <3>1, <2>4 DEF FreePair, NoFreePair
        <4> QED
          BY <4>2, <4>3
      <3> QED
        BY <3>1 DEF NoFreePair
    <2>7. \A o \in DOMAIN t : ~t[o].is_free => o = h \/ (o \in DOMAIN b /\ ~b[o].is_free)
      BY <2>1, <2>3, <2>4, <2>5
    <2> QED
      BY <1>0, <2>1, <2>3, <2>4, <2>6, <2>7 DEF TakeEffect
  <1>2. CASE ~WorthSplitting(b, h, size)
    <2>1. t = [b EXCEPT ![h].is_free = FALSE]
      BY <1>2 DEF Take
    <2>a. MarkEffect(t, b, h, FALSE, end)
      BY <2>1, MarkTiled, Zenon
    <2>2. /\ Tiled(t, end)
          /\ DOMAIN t = DOMAIN b
          /\ t[h].is_free = FALSE
          /\ \A o \in DOMAIN b : /\ o # h => t[o] = b[o]
                                 /\ t[o].size = b[o].size
                                 /\ t[o].next = b[o].next
      BY <2>a DEF MarkEffect
    <2>3. NoFreePair(t)
      <3>1. ASSUME NEW o \in DOMAIN t, FreePair(t, o) PROVE FALSE
        <4>1. t[o].next \in DOMAIN t /\ t[o].next # h /\ o # h
          BY <3>1, <2>2 DEF FreePair, Tiled, WellFormed, LinkedToNext
        <4> QED
          BY <4>1, <3>1, <2>2 DEF FreePair, NoFreePair
      <3> QED
        BY <3>1 DEF NoFreePair
    <2> QED
      BY <1>0, <2>2, <2>3 DEF TakeEffect
  <1> QED
    BY <1>1, <1>2

CoalesceEffect(c, b, h, end) ==
    /\ Tiled(c, end) /\ NoFreePair(c)
    /\ \A o \in DOMAIN b : o # h /\ ~b[o].is_free =>
          o \in DOMAIN c /\ ~c[o].is_free /\ c[o].size = b[o].size
    /\ \A o \in DOMAIN c : ~c[o].is_free => o \in DOMAIN b /\ o # h /\ ~b[o].is_free

(* What free does to the block it is given: two free neighbours never      *)
(* remain, and no header in use is touched (fixedpoint.h 174-185). *)
LEMMA CoalesceKeeps ==
    ASSUME NEW end \in Nat, NEW b, Tiled(b, end), NoFreePair(b), NEW h \in DOMAIN b,
           NEW c, c = Coalesce(b, h)
    PROVE  CoalesceEffect(c, b, h, end)
  <1> DEFINE m == [b EXCEPT ![h].is_free = TRUE]
             a == MergeNext(m, h)
  <1>0. c = MergePrev(a, h)
    BY DEF Coalesce
  <1>a. MarkEffect(m, b, h, TRUE, end)
    BY MarkTiled, Zenon
  <1>1. /\ Tiled(m, end)
        /\ DOMAIN m = DOMAIN b
        /\ m[h].is_free = TRUE
        /\ \A o \in DOMAIN b : /\ o # h => m[o] = b[o]
                               /\ m[o].size = b[o].size
                               /\ m[o].next = b[o].next
                               /\ m[o].prev = b[o].prev
    BY <1>a DEF MarkEffect
  <1> HIDE DEF m
  <1>2. \A o \in DOMAIN m : FreePair(m, o) => o = h \/ m[o].next = h
    <2> SUFFICES ASSUME NEW o \in DOMAIN m, FreePair(m, o), o # h, m[o].next # h PROVE FALSE
      OBVIOUS
    <2>1. m[o].next \in DOMAIN m
      BY <1>1 DEF FreePair, Tiled, WellFormed, LinkedToNext
    <2> QED
      BY <2>1, <1>1 DEF FreePair, NoFreePair
  <1>3. /\ Tiled(a, end)
        /\ h \in DOMAIN a /\ a[h].is_free
        /\ \A o \in DOMAIN a : FreePair(a, o) => a[o].next = h
        /\ \A o \in DOMAIN b : o # h /\ ~b[o].is_free =>
              o \in DOMAIN a /\ ~a[o].is_free /\ a[o].size = b[o].size
        /\ \A o \in DOMAIN a : ~a[o].is_free => o \in DOMAIN b /\ o # h /\ ~b[o].is_free
    <2>1. CASE m[h].next # NULL /\ m[m[h].next].is_free
      <3> DEFINE n == m[h].next
      <3>1. a = Absorb(m, h, n)
        BY <2>1 DEF MergeNext
      <3> HIDE DEF a
      <3>a. AbsorbEffect(a, m, h, n, end)
        BY <3>1, <2>1, <1>1, AbsorbTiled, Zenon
      <3>2. /\ Tiled(a, end)
            /\ DOMAIN a = DOMAIN m \ {n}
            /\ n \in DOMAIN m /\ h # n
            /\ a[h].next = m[n].next
            /\ a[h].is_free = m[h].is_free
            /\ \A o \in DOMAIN a : o # h => /\ a[o].is_free = m[o].is_free
                                            /\ a[o].next = m[o].next
                                            /\ a[o].size = m[o].size
        BY <3>a DEF AbsorbEffect
      <3>3. ~FreePair(m, n)
        <4>1. m[n].next # h
          <5>1. m[n].next # NULL => m[n].next = End(m, n)
            BY <3>2, <1>1 DEF Tiled, WellFormed, LinkedToNext
          <5>2. n = End(m, h)
            BY <2>1, <1>1 DEF Tiled, WellFormed, LinkedToNext
          <5>3. h \in Nat /\ n \in Nat /\ m[h].size \in Nat /\ m[n].size \in Nat /\ Hdr \in Nat /\ Hdr > 0
            BY <3>2, <1>1, ScratchpadAssumption DEF Tiled, BlockMap, Header, Hdr
          <5> QED
            BY <5>1, <5>2, <5>3 DEF End, NULL
        <4> QED
          BY <4>1, <3>2, <1>2
      <3>4. \A o \in DOMAIN a : FreePair(a, o) => a[o].next = h
        <4> SUFFICES ASSUME NEW o \in DOMAIN a, FreePair(a, o), a[o].next # h PROVE FALSE
          OBVIOUS
        <4>1. a[o].next \in DOMAIN a
          BY <3>2 DEF FreePair, Tiled, WellFormed, LinkedToNext
        <4>2. CASE o = h
          BY <4>1, <4>2, <3>2, <3>3, <2>1 DEF FreePair
        <4>3. CASE o # h
          BY <4>1, <4>3, <3>2, <1>2 DEF FreePair
        <4> QED
          BY <4>2, <4>3
      <3> QED
        BY <2>1, <3>2, <3>4, <1>1
    <2>2. CASE ~(m[h].next # NULL /\ m[m[h].next].is_free)
      <3>1. a = m
        BY <2>2 DEF MergeNext
      <3> HIDE DEF a
      <3>2. \A o \in DOMAIN m : FreePair(m, o) => m[o].next = h
        BY <2>2, <1>2 DEF FreePair
      <3> QED
        BY <3>1, <3>2, <1>1
    <2> QED
      BY <2>1, <2>2
  <1> HIDE DEF a
  <1>4. \A o \in DOMAIN a : a[o].next = h => o = a[h].prev
    <2>1. h # NULL
      BY <1>1, <1>3 DEF Tiled, BlockMap, NULL
    <2> QED
      BY <2>1, <1>3 DEF Tiled, WellFormed, LinkedToNext
  <1>5. CASE a[h].prev # NULL /\ a[a[h].prev].is_free
    <2> DEFINE g == a[h].prev
    <2>1. c = Absorb(a, g, h)
      BY <1>0, <1>5 DEF MergePrev
    <2>2. g \in DOMAIN a /\ a[g].next = h /\ h # NULL
      BY <1>5, <1>3 DEF Tiled, WellFormed, LinkedToPrev, BlockMap, NULL
    <2>a. AbsorbEffect(c, a, g, h, end)
      BY <2>1, <2>2, <1>3, AbsorbTiled, Zenon
    <2>3. /\ Tiled(c, end)
          /\ DOMAIN c = DOMAIN a \ {h}
          /\ g # h
          /\ c[g].next = a[h].next
          /\ c[g].is_free = a[g].is_free
          /\ \A o \in DOMAIN c : o # g => /\ c[o].is_free = a[o].is_free
                                          /\ c[o].next = a[o].next
                                          /\ c[o].size = a[o].size
      BY <2>a DEF AbsorbEffect
    <2>4. NoFreePair(c)
      <3>1. ASSUME NEW o \in DOMAIN c, FreePair(c, o) PROVE FALSE
        <4>1. c[o].next \in DOMAIN c
          BY <3>1, <2>3 DEF FreePair, Tiled, WellFormed, LinkedToNext
        <4>2. CASE o = g
          <5>1. FreePair(a, h)
            BY <4>1, <4>2, <3>1, <2>3, <1>3 DEF FreePair
          <5> QED
            BY <5>1, <4>1, <4>2, <2>3, <1>3
        <4>3. CASE o # g
          <5>1. FreePair(a, o)
            BY <4>1, <4>3, <3>1, <2>3, <1>5 DEF FreePair
          <5> QED
            BY <5>1, <4>3, <2>3, <1>3, <1>4
        <4> QED
          BY <4>2, <4>3
      <3> QED
        BY <3>1 DEF NoFreePair
    <2>5. \A o \in DOMAIN b : o # h /\ ~b[o].is_free =>
             o \in DOMAIN c /\ ~c[o].is_free /\ c[o].size = b[o].size
      BY <2>3, <1>3, <1>5
    <2>6. \A o \in DOMAIN c : ~c[o].is_free => o \in DOMAIN b /\ o # h /\ ~b[o].is_free
      BY <2>2, <2>3, <1>3, <1>5
    <2> QED
      BY <2>3, <2>4, <2>5, <2>6 DEF CoalesceEffect
  <1>6. CASE ~(a[h].prev # NULL /\ a[a[h].prev].is_free)
    <2>1. c = a
      BY <1>0, <1>6 DEF MergePrev
    <2>2. NoFreePair(a)
      <3>1. ASSUME NEW o \in DOMAIN a, FreePair(a, o) PROVE FALSE
        <4>1. o = a[h].prev
          BY <3>1, <1>3, <1>4
        <4>2. o # NULL
          BY <1>3 DEF Tiled, BlockMap, NULL
        <4> QED
          BY <4>1, <4>2, <3>1, <1>6 DEF FreePair
      <3> QED
        BY <3>1 DEF NoFreePair
    <2> QED
      BY <2>1, <2>2, <1>3 DEF CoalesceEffect
  <1> QED
    BY <1>5, <1>6

-----------------------------------------------------------------------------
(* The arena alloc starts from is tiled, and blocks in use can only be the *)
(* ones there were before (initialize_if_needed, fixedpoint.h 95-119). *)
LEMMA ArenaToAllocFrom ==
    ASSUME IInv, NEW buffer \in {"null", "rpcmem", "posix"}, NEW b,
           initialize_if_needed(buffer, b)
    PROVE  /\ buffer # "null" => Tiled(b, total_size) /\ NoFreePair(b)
           /\ buffer = "null" => ~Mapped /\ b = NoBlocks
           /\ Mapped => b = blk /\ buffer = memory_buffer
           /\ ~Mapped => \A o \in DOMAIN b : b[o].is_free
  <1>0. total_size \in Nat /\ total_size > Hdr /\ Hdr \in Nat
    BY ScratchpadAssumption DEF IInv, TypeOK, Hdr
  <1>1. CASE Mapped
    BY <1>1 DEF Mapped, IInv, initialize_if_needed
  <1>2. CASE ~Mapped
    <2>1. \/ buffer # "null" /\ b = FreshArena
          \/ buffer = "null" /\ b = NoBlocks
      BY <1>2 DEF Mapped, initialize_if_needed
    <2>2. CASE buffer # "null" /\ b = FreshArena
      <3>1. DOMAIN b = {0} /\ b = [o \in DOMAIN b |-> b[o]]
        BY <2>2 DEF FreshArena
      <3>2. b[0] = [size |-> total_size - Hdr, is_free |-> TRUE, next |-> NULL, prev |-> NULL]
        BY <2>2 DEF FreshArena
      <3>3. b[0] \in Header
        BY <3>2, <1>0 DEF Header
      <3>4. End(b, 0) = total_size
        BY <3>2, <1>0 DEF End
      <3>5. BlockMap(b)
        BY <3>1, <3>3 DEF BlockMap
      <3>6. WellFormed(b, total_size) /\ Bounded(b, total_size)
        BY <3>1, <3>2, <3>4, <1>0 DEF WellFormed, Bounded, LinkedToNext, LinkedToPrev
      <3>7. NoFreePair(b) /\ \A o \in DOMAIN b : b[o].is_free
        BY <3>1, <3>2 DEF NoFreePair, FreePair
      <3> QED
        BY <3>5, <3>6, <3>7, <2>2, <1>2 DEF Tiled
    <2>3. CASE buffer = "null" /\ b = NoBlocks
      BY <2>3, <1>2 DEF NoBlocks
    <2> QED
      BY <2>1, <2>2, <2>3
  <1> QED
    BY <1>1, <1>2

(* A pointer in use is the payload of a block in use, or lies behind the   *)
(* arena. *)
LEMMA WhereLiveIs ==
    ASSUME IInv, NEW q \in DOMAIN live
    PROVE  /\ q \in Nat /\ live[q] \in Request /\ live[q] \in Nat
           /\ \/ /\ Mapped /\ InArena(q) /\ q - Hdr \in DOMAIN blk
                 /\ ~blk[q - Hdr].is_free /\ live[q] <= blk[q - Hdr].size
              \/ ~InArena(q) /\ q \in heap /\ q \in HeapAddress /\ q > total_size
  <1>1. q \in Nat /\ live[q] \in Request /\ live[q] \in Nat
    BY ScratchpadAssumption DEF IInv, TypeOK
  <1>2. CASE InArena(q)
    BY <1>1, <1>2 DEF IInv, FreeFindsItsBlock, InArena, Mapped
  <1>3. CASE ~InArena(q)
    <2>1. q \in heap
      BY <1>3 DEF IInv, FreeFindsItsBlock
    <2> QED
      BY <1>1, <1>3, <2>1, ScratchpadAssumption DEF IInv, TypeOK
  <1> QED
    BY <1>1, <1>2, <1>3

(* Before the first allocation there is no arena and nothing is held. *)
LEMMA InitIInv == Init => IInv
  <1> SUFFICES ASSUME Init PROVE IInv
    OBVIOUS
  <1>1. DOMAIN blk = {} /\ DOMAIN live = {} /\ memory_buffer = "null"
    BY DEF Init, NoBlocks
  <1>2. TypeOK
    BY <1>1, ScratchpadAssumption DEF Init, TypeOK, NoBlocks
  <1> QED
    BY <1>1, <1>2 DEF Init, IInv, Mapped, EveryBlockHeld, FreeFindsItsBlock

(* An allocation served from the arena (fixedpoint.h 144-163). *)
LEMMA AllocFromArenaIInv ==
    ASSUME IInv, NEW n \in Request, AllocFromArena(n)
    PROVE  IInv'
  <1>1. PICK buffer \in {"rpcmem", "posix"}, b \in {blk, FreshArena} :
           /\ initialize_if_needed(buffer, b)
           /\ \E h \in DOMAIN b :
                 /\ FirstFit(b, h, RoundUp(n))
                 /\ blk' = Take(b, h, RoundUp(n))
                 /\ Hold(h + Hdr, n)
           /\ memory_buffer' = buffer
           /\ UNCHANGED <<total_size, heap>>
    BY DEF AllocFromArena
  <1>2. PICK h \in DOMAIN b :
           /\ FirstFit(b, h, RoundUp(n))
           /\ blk' = Take(b, h, RoundUp(n))
           /\ Hold(h + Hdr, n)
    BY <1>1
  <1> DEFINE p == h + Hdr
  <1>3. /\ Tiled(b, total_size) /\ NoFreePair(b)
        /\ Mapped => b = blk /\ buffer = memory_buffer
        /\ ~Mapped => \A o \in DOMAIN b : b[o].is_free
    BY <1>1, ArenaToAllocFrom
  <1>4. n \in Nat /\ RoundUp(n) \in Nat /\ RoundUp(n) >= n
    BY RoundUpCovers, ScratchpadAssumption
  <1>5. Fits(b, h, RoundUp(n)) /\ b[h].is_free
    BY <1>2 DEF FirstFit, Fits
  <1>6. total_size \in Nat /\ Hdr \in Nat
    BY ScratchpadAssumption DEF IInv, TypeOK, Hdr
  <1>7. TakeEffect(blk', b, h, RoundUp(n), total_size)
    BY <1>2, <1>3, <1>4, <1>5, <1>6, TakeKeeps, Zenon
  <1>8. /\ Tiled(blk', total_size) /\ NoFreePair(blk')
        /\ h \in DOMAIN blk' /\ ~blk'[h].is_free /\ RoundUp(n) <= blk'[h].size
        /\ \A o \in DOMAIN b : o # h => /\ o \in DOMAIN blk'
                                       /\ blk'[o].is_free = b[o].is_free
                                       /\ blk'[o].size = b[o].size
        /\ \A o \in DOMAIN blk' : ~blk'[o].is_free => o = h \/ (o \in DOMAIN b /\ ~b[o].is_free)
    BY <1>7 DEF TakeEffect
  <1>9. h \in Nat /\ p \in Nat /\ p < total_size /\ blk'[h].size \in Nat /\ p - Hdr = h
    BY <1>3, <1>6, <1>8 DEF Tiled, BlockMap, Bounded, Header
  <1>10. /\ DOMAIN live' = DOMAIN live \cup {p}
         /\ live' = [q \in DOMAIN live' |-> live'[q]]
         /\ live'[p] = n
         /\ \A q \in DOMAIN live : q # p => live'[q] = live[q]
    BY <1>2 DEF Hold
  <1> HIDE DEF p
  <1>11. TypeOK'
    <2>1. DOMAIN live' \subseteq Nat /\ live' \in [DOMAIN live' -> Request]
      BY <1>9, <1>10 DEF IInv, TypeOK
    <2>2. DOMAIN blk' \subseteq Nat /\ blk' \in [DOMAIN blk' -> Header]
      BY <1>8 DEF Tiled, BlockMap
    <2> QED
      BY <2>1, <2>2, <1>1 DEF IInv, TypeOK
  <1>12. Mapped' /\ total_size' = total_size /\ heap' = heap
    BY <1>1 DEF Mapped
  <1>13. EveryBlockHeld'
    <2> SUFFICES ASSUME NEW o \in DOMAIN blk', ~blk'[o].is_free PROVE o + Hdr \in DOMAIN live'
      BY DEF EveryBlockHeld
    <2>1. CASE o = h
      BY <2>1, <1>10 DEF p
    <2>2. CASE o # h
      <3>1. o \in DOMAIN b /\ ~b[o].is_free
        BY <2>2, <1>8
      <3>2. Mapped /\ b = blk
        BY <3>1, <1>3
      <3> QED
        BY <3>1, <3>2, <1>10 DEF IInv, EveryBlockHeld
    <2> QED
      BY <2>1, <2>2
  <1>14. FreeFindsItsBlock'
    <2> SUFFICES ASSUME NEW q \in DOMAIN live'
                 PROVE  IF InArena(q)'
                        THEN /\ q - Hdr \in DOMAIN blk'
                             /\ ~blk'[q - Hdr].is_free
                             /\ live'[q] <= blk'[q - Hdr].size
                        ELSE q \in heap'
      BY DEF FreeFindsItsBlock
    <2>0. InArena(q)' <=> q >= 0 /\ q < total_size
      BY <1>12 DEF InArena, Mapped
    <2>1. CASE q = p
      <3>1. n <= blk'[h].size
        BY <1>4, <1>8, <1>9
      <3> QED
        BY <2>0, <2>1, <3>1, <1>6, <1>8, <1>9, <1>10
    <2>2. CASE q # p
      <3>1. q \in DOMAIN live /\ live'[q] = live[q]
        BY <2>2, <1>10
      <3>2. CASE Mapped /\ InArena(q)
        <4>1. /\ q - Hdr \in DOMAIN blk /\ ~blk[q - Hdr].is_free
              /\ live[q] <= blk[q - Hdr].size
          BY <3>1, <3>2, WhereLiveIs
        <4>2. q - Hdr # h /\ b = blk
          BY <4>1, <3>2, <1>3, <1>5
        <4>3. InArena(q)'
          BY <2>0, <3>2 DEF InArena
        <4> QED
          BY <4>1, <4>2, <4>3, <3>1, <1>8
      <3>3. CASE ~InArena(q) /\ q \in heap /\ q > total_size
        BY <2>0, <3>1, <3>3, <1>6, <1>12, WhereLiveIs
      <3> QED
        BY <3>1, <3>2, <3>3, WhereLiveIs
    <2> QED
      BY <2>1, <2>2
  <1> QED
    BY <1>8, <1>11, <1>12, <1>13, <1>14 DEF IInv, Mapped

(* An allocation that falls back to posix_memalign (fixedpoint.h 166-168). *)
LEMMA AllocFromHeapIInv ==
    ASSUME IInv, NEW n \in Request, AllocFromHeap(n)
    PROVE  IInv'
  <1>1. PICK buffer \in {"null", "rpcmem", "posix"}, b \in {blk, FreshArena} :
           /\ initialize_if_needed(buffer, b)
           /\ blk' = b
           /\ memory_buffer' = buffer
           /\ \/ \E p \in HeapAddress \ heap : heap' = heap \cup {p} /\ Hold(p, n)
              \/ UNCHANGED <<heap, live>>
           /\ UNCHANGED total_size
    BY DEF AllocFromHeap
  <1>2. /\ buffer # "null" => Tiled(b, total_size) /\ NoFreePair(b)
        /\ buffer = "null" => ~Mapped /\ b = NoBlocks
        /\ Mapped => b = blk /\ buffer = memory_buffer
        /\ ~Mapped => \A o \in DOMAIN b : b[o].is_free
    BY <1>1, ArenaToAllocFrom
  <1>3. total_size \in Nat /\ Hdr \in Nat
    BY ScratchpadAssumption DEF IInv, TypeOK, Hdr
  <1>4. /\ DOMAIN live \subseteq DOMAIN live'
        /\ heap \subseteq heap' /\ heap' \subseteq HeapAddress
        /\ \A q \in DOMAIN live' : \/ q \in DOMAIN live /\ live'[q] = live[q]
                                   \/ q \in heap' /\ live'[q] = n
        /\ live' = [q \in DOMAIN live' |-> live'[q]]
    <2>1. CASE \E p \in HeapAddress \ heap : heap' = heap \cup {p} /\ Hold(p, n)
      BY <2>1 DEF IInv, TypeOK, Hold
    <2>2. CASE UNCHANGED <<heap, live>>
      BY <2>2 DEF IInv, TypeOK
    <2> QED
      BY <1>1, <2>1, <2>2
  <1>5. TypeOK'
    <2>1. DOMAIN live' \subseteq Nat /\ live' \in [DOMAIN live' -> Request]
      BY <1>4, ScratchpadAssumption DEF IInv, TypeOK
    <2>2. DOMAIN blk' \subseteq Nat /\ blk' \in [DOMAIN blk' -> Header]
      BY <1>1, <1>2 DEF Tiled, BlockMap, NoBlocks
    <2> QED
      BY <2>1, <2>2, <1>1, <1>4 DEF IInv, TypeOK
  <1>6. EveryBlockHeld'
    BY <1>1, <1>2, <1>4 DEF IInv, EveryBlockHeld
  <1>7. FreeFindsItsBlock'
    <2> SUFFICES ASSUME NEW q \in DOMAIN live'
                 PROVE  IF InArena(q)'
                        THEN /\ q - Hdr \in DOMAIN blk'
                             /\ ~blk'[q - Hdr].is_free
                             /\ live'[q] <= blk'[q - Hdr].size
                        ELSE q \in heap'
      BY DEF FreeFindsItsBlock
    <2>1. \A a \in heap' : a \in Nat /\ ~InArena(a)'
      BY <1>1, <1>3, <1>4, ScratchpadAssumption DEF InArena, IInv, TypeOK
    <2>2. CASE q \in heap'
      BY <2>1, <2>2
    <2>3. CASE q \notin heap'
      <3>1. q \in DOMAIN live /\ live'[q] = live[q] /\ q \notin heap
        BY <2>3, <1>4
      <3>2. /\ Mapped /\ InArena(q) /\ q - Hdr \in DOMAIN blk
            /\ ~blk[q - Hdr].is_free /\ live[q] <= blk[q - Hdr].size
        BY <3>1, WhereLiveIs
      <3>3. blk' = blk /\ InArena(q)'
        BY <3>2, <1>1, <1>2 DEF InArena
      <3> QED
        BY <3>1, <3>2, <3>3
    <2> QED
      BY <2>2, <2>3
  <1> QED
    BY <1>1, <1>2, <1>5, <1>6, <1>7 DEF IInv, Mapped

(* Giving back an arena pointer (fixedpoint.h 173-185). *)
LEMMA FreeToArenaIInv ==
    ASSUME IInv, NEW p \in DOMAIN live, FreeToArena(p)
    PROVE  IInv'
  <1> DEFINE h == p - Hdr
  <1>1. /\ InArena(p)
        /\ blk' = Coalesce(blk, h)
        /\ UNCHANGED <<memory_buffer, total_size, heap>>
    BY DEF FreeToArena
  <1>2. /\ DOMAIN live' = DOMAIN live \ {p}
        /\ live' = [q \in DOMAIN live' |-> live'[q]]
        /\ \A q \in DOMAIN live' : live'[q] = live[q]
    BY DEF FreeToArena, Drop
  <1>3. Mapped /\ p \in Nat /\ h \in DOMAIN blk /\ total_size \in Nat /\ Hdr \in Nat
    BY <1>1, WhereLiveIs, ScratchpadAssumption DEF IInv, TypeOK, Hdr
  <1>4. Tiled(blk, total_size) /\ NoFreePair(blk)
    BY <1>3 DEF IInv
  <1>5. CoalesceEffect(blk', blk, h, total_size)
    BY <1>1, <1>3, <1>4, CoalesceKeeps, Zenon
  <1>6. /\ Tiled(blk', total_size) /\ NoFreePair(blk')
        /\ \A o \in DOMAIN blk : o # h /\ ~blk[o].is_free =>
              o \in DOMAIN blk' /\ ~blk'[o].is_free /\ blk'[o].size = blk[o].size
        /\ \A o \in DOMAIN blk' : ~blk'[o].is_free => o \in DOMAIN blk /\ o # h /\ ~blk[o].is_free
    BY <1>5 DEF CoalesceEffect
  <1>7. TypeOK'
    <2>1. DOMAIN live' \subseteq Nat /\ live' \in [DOMAIN live' -> Request]
      BY <1>2 DEF IInv, TypeOK
    <2>2. DOMAIN blk' \subseteq Nat /\ blk' \in [DOMAIN blk' -> Header]
      BY <1>6 DEF Tiled, BlockMap
    <2> QED
      BY <2>1, <2>2, <1>1 DEF IInv, TypeOK
  <1>8. EveryBlockHeld'
    <2> SUFFICES ASSUME NEW o \in DOMAIN blk', ~blk'[o].is_free PROVE o + Hdr \in DOMAIN live'
      BY DEF EveryBlockHeld
    <2>1. o \in DOMAIN blk /\ o # h /\ ~blk[o].is_free /\ o \in Nat
      BY <1>4, <1>6 DEF Tiled, BlockMap
    <2>2. o + Hdr \in DOMAIN live
      BY <2>1 DEF IInv, EveryBlockHeld
    <2>3. o + Hdr # p
      BY <2>1, <1>3
    <2> QED
      BY <2>2, <2>3, <1>2
  <1>9. FreeFindsItsBlock'
    <2> SUFFICES ASSUME NEW q \in DOMAIN live'
                 PROVE  IF InArena(q)'
                        THEN /\ q - Hdr \in DOMAIN blk'
                             /\ ~blk'[q - Hdr].is_free
                             /\ live'[q] <= blk'[q - Hdr].size
                        ELSE q \in heap'
      BY DEF FreeFindsItsBlock
    <2>1. q \in DOMAIN live /\ q # p /\ live'[q] = live[q] /\ q \in Nat
      BY <1>2, WhereLiveIs
    <2>2. InArena(q)' <=> InArena(q)
      BY <1>1 DEF InArena
    <2>3. CASE InArena(q)
      <3>1. q - Hdr \in DOMAIN blk /\ ~blk[q - Hdr].is_free /\ live[q] <= blk[q - Hdr].size
        BY <2>1, <2>3, WhereLiveIs
      <3>2. q - Hdr # h
        BY <2>1, <1>3
      <3> QED
        BY <2>1, <2>2, <2>3, <3>1, <3>2, <1>6
    <2>4. CASE ~InArena(q)
      BY <2>1, <2>2, <2>4, <1>1, WhereLiveIs
    <2> QED
      BY <2>3, <2>4
  <1> QED
    BY <1>1, <1>3, <1>6, <1>7, <1>8, <1>9 DEF IInv, Mapped

(* Giving back a pointer of posix_memalign (fixedpoint.h 187). *)
LEMMA FreeToHeapIInv ==
    ASSUME IInv, NEW p \in DOMAIN live, FreeToHeap(p)
    PROVE  IInv'
  <1>1. /\ ~InArena(p)
        /\ heap' = heap \ {p}
        /\ UNCHANGED <<memory_buffer, total_size, blk>>
    BY DEF FreeToHeap
  <1>2. /\ DOMAIN live' = DOMAIN live \ {p}
        /\ live' = [q \in DOMAIN live' |-> live'[q]]
        /\ \A q \in DOMAIN live' : live'[q] = live[q]
    BY DEF FreeToHeap, Drop
  <1>3. TypeOK'
    <2>1. DOMAIN live' \subseteq Nat /\ live' \in [DOMAIN live' -> Request]
      BY <1>2 DEF IInv, TypeOK
    <2> QED
      BY <2>1, <1>1 DEF IInv, TypeOK
  <1>4. EveryBlockHeld'
    <2> SUFFICES ASSUME NEW o \in DOMAIN blk, ~blk[o].is_free PROVE o + Hdr \in DOMAIN live'
      BY <1>1 DEF EveryBlockHeld
    <2>1. Mapped
      BY DEF IInv, NoBlocks
    <2>2. o + Hdr < total_size /\ o + Hdr \in Nat
      BY <2>1, ScratchpadAssumption DEF IInv, Tiled, Bounded, BlockMap, Hdr
    <2>3. InArena(o + Hdr)
      BY <2>1, <2>2 DEF InArena, Mapped
    <2> QED
      BY <2>3, <1>1, <1>2 DEF IInv, EveryBlockHeld
  <1>5. FreeFindsItsBlock'
    BY <1>1, <1>2 DEF IInv, FreeFindsItsBlock, InArena
  <1> QED
    BY <1>1, <1>3, <1>4, <1>5 DEF IInv, Mapped

(* Unmapping the arena when no pointer into it is held (fixedpoint.h      *)
(* 121-134). *)
LEMMA SetSizeIInv ==
    ASSUME IInv, NEW s \in ArenaSizes, set_size(s)
    PROVE  IInv'
  <1>1. /\ \A p \in DOMAIN live : ~InArena(p)
        /\ memory_buffer' = "null" /\ blk' = NoBlocks /\ total_size' = s
        /\ heap' = heap /\ live' = live
    BY DEF set_size
  <1>2. DOMAIN NoBlocks = {}
    BY DEF NoBlocks
  <1>3. TypeOK'
    BY <1>1, <1>2 DEF IInv, TypeOK, NoBlocks
  <1>4. EveryBlockHeld'
    BY <1>1, <1>2 DEF EveryBlockHeld
  <1>5. FreeFindsItsBlock'
    BY <1>1 DEF IInv, FreeFindsItsBlock, InArena
  <1> QED
    BY <1>1, <1>3, <1>4, <1>5 DEF IInv, Mapped

(* The strengthened invariant holds in every reachable state. *)
LEMMA IInvInvariant == Spec => []IInv
  <1>1. IInv /\ [Next]_vars => IInv'
    <2> SUFFICES ASSUME IInv, [Next]_vars PROVE IInv'
      OBVIOUS
    <2>1. CASE UNCHANGED vars
      BY <2>1 DEF vars, IInv, TypeOK, Mapped, EveryBlockHeld, FreeFindsItsBlock, InArena
    <2>2. CASE Next
      BY <2>2, AllocFromArenaIInv, AllocFromHeapIInv, FreeToArenaIInv, FreeToHeapIInv,
         SetSizeIInv DEF Next
    <2> QED
      BY <2>1, <2>2
  <1> QED
    BY <1>1, InitIInv, PTL DEF Spec

(* Every field of every header, and every pointer, keeps its type: no      *)
(* block size ever goes negative, whatever is requested. *)
THEOREM TypeCorrect == Spec => []TypeOK
  <1>1. IInv => TypeOK
    BY DEF IInv
  <1> QED
    BY <1>1, IInvInvariant, PTL

(* The pointer surgery of alloc and free keeps the arena tiled by blocks   *)
(* whose links agree in both directions. *)
THEOREM ArenaStaysTiled == Spec => []BlocksTileArena
  <1>1. IInv => BlocksTileArena
    BY DEF IInv, BlocksTileArena, Tiled, Mapped
  <1> QED
    BY <1>1, IInvInvariant, PTL

(* free always finds the header of the pointer it is given, and hands to   *)
(* ::free only what posix_memalign returned. *)
THEOREM FreeIsSafe == Spec => []FreeFindsItsBlock
  <1>1. IInv => FreeFindsItsBlock
    BY DEF IInv
  <1> QED
    BY <1>1, IInvInvariant, PTL

(* Once every arena pointer is back, in whatever order they came, the      *)
(* arena is the one free block of a fresh arena again. *)
THEOREM NothingLeaks == Spec => []FullCoalescing
  <1>1. IInv => FullCoalescing
    <2> SUFFICES ASSUME IInv, Mapped, \A p \in DOMAIN live : ~InArena(p)
                 PROVE  blk = FreshArena
      BY DEF FullCoalescing, Mapped
    <2>0. total_size \in Nat /\ Hdr \in Nat /\ Hdr > 0
      BY ScratchpadAssumption DEF IInv, TypeOK, Hdr
    <2>1. Tiled(blk, total_size) /\ NoFreePair(blk)
      BY DEF IInv
    <2>2. /\ 0 \in DOMAIN blk /\ DOMAIN blk \subseteq Nat
          /\ LinkedToNext(blk, 0, total_size) /\ LinkedToPrev(blk, 0)
          /\ \A g, h \in DOMAIN blk : g < h => End(blk, g) <= h
          /\ \A h \in DOMAIN blk : h + Hdr < total_size
      BY <2>1 DEF Tiled, BlockMap, WellFormed, Bounded
    <2>3. \A h \in DOMAIN blk : blk[h].is_free
      <3> SUFFICES ASSUME NEW h \in DOMAIN blk, ~blk[h].is_free PROVE FALSE
        OBVIOUS
      <3>1. h + Hdr \in DOMAIN live
        BY DEF IInv, EveryBlockHeld
      <3>2. InArena(h + Hdr)
        BY <2>0, <2>2 DEF InArena, Mapped
      <3> QED
        BY <3>1, <3>2
    <2>4. blk[0].next = NULL
      BY <2>1, <2>2, <2>3 DEF LinkedToNext, NoFreePair, FreePair
    <2>5. End(blk, 0) = total_size
      BY <2>2, <2>4 DEF LinkedToNext
    <2>6. DOMAIN blk = {0}
      <3> SUFFICES ASSUME NEW g \in DOMAIN blk, g # 0 PROVE FALSE
        BY <2>2
      <3>1. g \in Nat /\ g > 0 /\ total_size <= g /\ g + Hdr < total_size
        BY <2>2, <2>5
      <3> QED
        BY <3>1, <2>0
    <2>7. blk[0].prev = NULL
      BY <2>2, <2>4, <2>6 DEF LinkedToPrev, NULL
    <2>8. blk[0] \in Header /\ blk = [o \in DOMAIN blk |-> blk[o]]
      BY <2>1, <2>2 DEF Tiled, BlockMap
    <2>9. blk[0].size = total_size - Hdr
      BY <2>0, <2>5, <2>8 DEF End, Header
    <2>10. blk[0] = [size |-> total_size - Hdr, is_free |-> TRUE, next |-> NULL, prev |-> NULL]
      <3>1. blk[0].is_free = TRUE
        BY <2>2, <2>3, <2>8 DEF Header
      <3>2. blk[0] = [size |-> blk[0].size, is_free |-> blk[0].is_free,
                      next |-> blk[0].next, prev |-> blk[0].prev]
        BY <2>8 DEF Header
      <3> QED
        BY <3>1, <3>2, <2>4, <2>7, <2>9
    <2> QED
      BY <2>6, <2>8, <2>10 DEF FreshArena
  <1> QED
    BY <1>1, IInvInvariant, PTL

-----------------------------------------------------------------------------
(* Alignment.  A header is only ever written where a block begins or is    *)
(* cut, so all lie at multiples of the quantum. *)
Multiple(x) == x \in Nat /\ x % Align = 0

HeadersAligned == \A o \in DOMAIN blk : Multiple(o)

LEMMA MultiplesAdd == \A x, y : Multiple(x) /\ Multiple(y) => Multiple(x + y)
  <1> SUFFICES ASSUME NEW x, NEW y, Multiple(x), Multiple(y) PROVE Multiple(x + y)
    OBVIOUS
  <1>1. Align \in Nat \ {0}
    BY ScratchpadAssumption
  <1>2. \A a \in Nat, b \in Nat \ {0} : a % b = 0 => \E k \in Nat : a = k * b
    OBVIOUS
  <1>3. \A k \in Nat, b \in Nat \ {0} : (k * b) % b = 0
    OBVIOUS
  <1>4. PICK j \in Nat : x = j * Align
    BY <1>1, <1>2, Zenon DEF Multiple
  <1>5. PICK k \in Nat : y = k * Align
    BY <1>1, <1>2, Zenon DEF Multiple
  <1>6. j + k \in Nat /\ x + y = (j + k) * Align /\ x + y \in Nat
    BY <1>1, <1>4, <1>5 DEF Multiple
  <1>7. ((j + k) * Align) % Align = 0
    BY <1>1, <1>3, <1>6, Zenon
  <1> QED
    BY <1>6, <1>7, Zenon DEF Multiple

LEMMA QuantumIsMultiple == Multiple(Hdr) /\ Multiple(0)
  <1>1. Align \in Nat \ {0}
    BY ScratchpadAssumption
  <1>2. \A b \in Nat \ {0} : b % b = 0 /\ 0 % b = 0
    OBVIOUS
  <1> QED
    BY <1>1, <1>2 DEF Multiple, Hdr

(* What a request is rounded up to (fixedpoint.h 147). *)
LEMMA RoundUpAligned == \A n \in Nat : Multiple(RoundUp(n))
  <1> SUFFICES ASSUME NEW n \in Nat PROVE Multiple(RoundUp(n))
    OBVIOUS
  <1> DEFINE m == n + Align - 1
             k == m \div Align
  <1>1. Align \in Nat \ {0} /\ m \in Nat
    BY ScratchpadAssumption
  <1>2. \A a \in Nat, b \in Nat \ {0} : a \div b \in Nat /\ a % b = a - b * (a \div b)
    OBVIOUS
  <1>3. k \in Nat /\ m % Align = m - Align * k
    BY <1>1, <1>2, Zenon
  <1>4. RoundUp(n) = m - (m % Align)
    BY DEF RoundUp
  <1> HIDE DEF m, k
  <1>5. RoundUp(n) = k * Align /\ k * Align \in Nat
    BY <1>1, <1>3, <1>4
  <1>6. \A j \in Nat, b \in Nat \ {0} : (j * b) % b = 0
    OBVIOUS
  <1>7. (k * Align) % Align = 0
    BY <1>1, <1>3, <1>6, Zenon
  <1> QED
    BY <1>5, <1>7, Zenon DEF Multiple

(* Freeing moves no header. *)
LEMMA CoalesceAddsNoBlock == \A b, h : DOMAIN Coalesce(b, h) \subseteq DOMAIN b
  <1> SUFFICES ASSUME NEW b, NEW h PROVE DOMAIN Coalesce(b, h) \subseteq DOMAIN b
    OBVIOUS
  <1>1. \A c, g, n : DOMAIN Absorb(c, g, n) \subseteq DOMAIN c
    BY DEF Absorb
  <1>2. \A c, g : DOMAIN MergeNext(c, g) \subseteq DOMAIN c /\ DOMAIN MergePrev(c, g) \subseteq DOMAIN c
    BY <1>1, Zenon DEF MergeNext, MergePrev
  <1>3. DOMAIN [b EXCEPT ![h].is_free = TRUE] = DOMAIN b
    OBVIOUS
  <1>4. DOMAIN MergeNext([b EXCEPT ![h].is_free = TRUE], h) \subseteq DOMAIN b
    BY <1>2, <1>3, Zenon
  <1>5. DOMAIN Coalesce(b, h) \subseteq DOMAIN MergeNext([b EXCEPT ![h].is_free = TRUE], h)
    BY <1>2, Zenon DEF Coalesce
  <1> QED
    BY <1>4, <1>5

LEMMA TakeAddsOneBlock ==
    \A b, h, size : \A o \in DOMAIN Take(b, h, size) : o \in DOMAIN b \/ o = h + Hdr + size
  <1> SUFFICES ASSUME NEW b, NEW h, NEW size, NEW o \in DOMAIN Take(b, h, size)
               PROVE  o \in DOMAIN b \/ o = h + Hdr + size
    OBVIOUS
  <1> DEFINE s == IF WorthSplitting(b, h, size) THEN Split(b, h, size) ELSE b
  <1>1. Take(b, h, size) = [s EXCEPT ![h].is_free = FALSE]
    BY DEF Take
  <1>2. DOMAIN Split(b, h, size) = DOMAIN b \cup {h + Hdr + size}
    BY DEF Split
  <1>3. DOMAIN s \subseteq DOMAIN b \cup {h + Hdr + size}
    BY <1>2
  <1> HIDE DEF s
  <1>4. DOMAIN [s EXCEPT ![h].is_free = FALSE] = DOMAIN s
    OBVIOUS
  <1> QED
    BY <1>1, <1>3, <1>4

LEMMA HeadersStayAligned == IInv /\ HeadersAligned /\ [Next]_vars => HeadersAligned'
  <1> SUFFICES ASSUME IInv, HeadersAligned, [Next]_vars PROVE HeadersAligned'
    OBVIOUS
  <1>1. \A o \in DOMAIN FreshArena : Multiple(o)
    BY QuantumIsMultiple DEF FreshArena
  <1>2. \A o \in DOMAIN NoBlocks : Multiple(o)
    BY DEF NoBlocks
  <1>3. ASSUME NEW n \in Request, AllocFromArena(n) PROVE HeadersAligned'
    <2>1. PICK b \in {blk, FreshArena} :
             \E h \in DOMAIN b : blk' = Take(b, h, RoundUp(n))
      BY <1>3 DEF AllocFromArena
    <2>2. PICK h \in DOMAIN b : blk' = Take(b, h, RoundUp(n))
      BY <2>1
    <2>3. \A o \in DOMAIN b : Multiple(o)
      BY <2>1, <1>1 DEF HeadersAligned
    <2>4. Multiple(h + Hdr + RoundUp(n))
      <3>1. Multiple(RoundUp(n))
        BY RoundUpAligned, ScratchpadAssumption
      <3>2. Multiple(h + Hdr)
        BY <2>3, MultiplesAdd, QuantumIsMultiple
      <3> QED
        BY <3>1, <3>2, MultiplesAdd
    <2> QED
      BY <2>2, <2>3, <2>4, TakeAddsOneBlock, Zenon DEF HeadersAligned
  <1>4. ASSUME NEW n \in Request, AllocFromHeap(n) PROVE HeadersAligned'
    BY <1>4, <1>1 DEF AllocFromHeap, HeadersAligned
  <1>5. ASSUME NEW p \in DOMAIN live, FreeToArena(p) PROVE HeadersAligned'
    <2>1. blk' = Coalesce(blk, p - Hdr)
      BY <1>5 DEF FreeToArena
    <2>2. DOMAIN blk' \subseteq DOMAIN blk
      BY <2>1, CoalesceAddsNoBlock, Zenon
    <2> QED
      BY <2>2 DEF HeadersAligned
  <1>6. ASSUME NEW p \in DOMAIN live, FreeToHeap(p) PROVE HeadersAligned'
    BY <1>6 DEF FreeToHeap, HeadersAligned
  <1>7. ASSUME NEW s \in ArenaSizes, set_size(s) PROVE HeadersAligned'
    BY <1>7, <1>2 DEF set_size, HeadersAligned
  <1>8. CASE UNCHANGED vars
    BY <1>8 DEF vars, HeadersAligned
  <1> QED
    BY <1>3, <1>4, <1>5, <1>6, <1>7, <1>8 DEF Next

(* Every arena pointer handed out is aligned to the quantum, whatever was  *)
(* asked for, split and merged before (fixedpoint.h 83, 147, 151-160).     *)
THEOREM PointersAligned == Spec => []PayloadAligned
  <1>1. Init => HeadersAligned
    BY DEF Init, NoBlocks, HeadersAligned
  <1>2. IInv /\ HeadersAligned => PayloadAligned
    <2> SUFFICES ASSUME IInv, HeadersAligned, NEW p \in DOMAIN live, InArena(p)
                 PROVE  p % Align = 0
      BY DEF PayloadAligned
    <2>1. p \in Nat /\ p - Hdr \in DOMAIN blk /\ Hdr \in Nat
      BY WhereLiveIs, ScratchpadAssumption DEF Hdr
    <2>2. Multiple((p - Hdr) + Hdr)
      BY <2>1, MultiplesAdd, QuantumIsMultiple DEF HeadersAligned
    <2>3. (p - Hdr) + Hdr = p
      BY <2>1
    <2> QED
      BY <2>2, <2>3 DEF Multiple
  <1> QED
    BY <1>1, <1>2, HeadersStayAligned, IInvInvariant, PTL DEF Spec

-----------------------------------------------------------------------------
(* Induction over the naturals, stated of sets. *)
LEMMA LeastElement ==
    \A T \in SUBSET Nat : T # {} => \E x \in T : \A y \in T : x <= y
<1> DEFINE R == OpToRel(<, Nat)
<1>1. \A x, y \in Nat : <<x, y>> \in R <=> x < y
  BY DEF OpToRel
<1>2. IsWellFoundedOn(R, Nat)
  BY NatLessThanWellFounded
<1> HIDE DEF R
<1> SUFFICES ASSUME NEW T \in SUBSET Nat, T # {}  PROVE \E x \in T : \A y \in T : x <= y
  OBVIOUS
<1>3. PICK x \in T : \A y \in T : ~(<<y, x>> \in R)
  BY <1>2, WFMin, Zenon
<1>4. ASSUME NEW y \in T  PROVE x <= y
  <2>1. x \in Nat /\ y \in Nat  OBVIOUS
  <2>2. ~(y < x)  BY <1>1, <1>3, <2>1
  <2>3. QED  BY <2>1, <2>2
<1>5. QED  BY <1>4

LEMMA Induction ==
    \A T : 0 \in T /\ (\A n \in Nat : n \in T => n + 1 \in T) => Nat \subseteq T
<1> SUFFICES ASSUME NEW T, 0 \in T, \A n \in Nat : n \in T => n + 1 \in T, ~(Nat \subseteq T)
             PROVE  FALSE
  OBVIOUS
<1>1. (Nat \ T) # {} /\ (Nat \ T) \in SUBSET Nat  OBVIOUS
<1>2. PICK x \in Nat \ T : \A y \in Nat \ T : x <= y  BY <1>1, LeastElement, Zenon
<1>3. x - 1 \in Nat /\ x - 1 + 1 = x  OBVIOUS
<1>4. x - 1 \in T  BY <1>2, <1>3
<1>5. QED  BY <1>3, <1>4

(* A step s gives, from c, one function on the naturals. *)
Iterates(f, S, c, s) ==
    f \in [Nat -> S] /\ f[0] = c /\ \A n \in Nat : f[n + 1] = s[<<n, f[n]>>]

LEMMA Recursion ==
    \A S, c, s : c \in S /\ s \in [Nat \X S -> S] => \E f : Iterates(f, S, c, s)
<1> SUFFICES ASSUME NEW S, NEW c, NEW s, c \in S, s \in [Nat \X S -> S]
             PROVE  \E f : Iterates(f, S, c, s)
  OBVIOUS
<1> DEFINE Prefix(n, g) == /\ g \in [0 .. n -> S]
                           /\ g[0] = c
                           /\ \A m \in 0 .. n - 1 : g[m + 1] = s[<<m, g[m]>>]
           Has == {n \in Nat : \E g : Prefix(n, g)}
<1>1. 0 \in Has
  <2>1. Prefix(0, [m \in 0 .. 0 |-> c])  OBVIOUS
  <2>2. QED  BY <2>1
<1>2. ASSUME NEW n \in Nat, n \in Has  PROVE n + 1 \in Has
  <2>1. PICK g : Prefix(n, g)  BY <1>2
  <2> DEFINE h == [m \in 0 .. n + 1 |-> IF m = n + 1 THEN s[<<n, g[n]>>] ELSE g[m]]
  <2>2. s[<<n, g[n]>>] \in S  BY <2>1
  <2>3. h \in [0 .. n + 1 -> S] /\ h[0] = c  BY <2>1, <2>2
  <2>4. ASSUME NEW m \in 0 .. n  PROVE h[m + 1] = s[<<m, h[m]>>]
    <3>1. CASE m = n
      <4>1. h[m] = g[n] /\ h[m + 1] = s[<<n, g[n]>>]  BY <3>1
      <4>2. QED  BY <3>1, <4>1
    <3>2. CASE m # n
      <4>1. m \in 0 .. n - 1 /\ m + 1 \in 0 .. n  BY <3>2
      <4>2. QED  BY <2>1, <4>1
    <3>3. QED  BY <3>1, <3>2
  <2>5. Prefix(n + 1, h)  
    <3>1. (n + 1) - 1 = n  OBVIOUS
    <3> HIDE DEF h
    <3>2. QED  BY <2>3, <2>4, <3>1
  <2> HIDE DEF Prefix
  <2>6. QED  BY <2>5
<1>3. \A n \in Nat : \E g : Prefix(n, g)  
  <2> HIDE DEF Prefix
  <2>1. Nat \subseteq Has  BY <1>1, <1>2, Induction
  <2>2. QED  BY <2>1
<1>4. ASSUME NEW n \in Nat, NEW g, NEW h, Prefix(n, g), Prefix(n + 1, h)
      PROVE  g[n] = h[n]
  <2> DEFINE Same == {m \in Nat : m <= n => g[m] = h[m]}
  <2>1. 0 \in Same  BY <1>4
  <2>2. ASSUME NEW m \in Nat, m \in Same  PROVE m + 1 \in Same
    <3> SUFFICES ASSUME m + 1 <= n  PROVE g[m + 1] = h[m + 1]
      OBVIOUS
    <3>1. m \in 0 .. n - 1 /\ m \in 0 .. (n + 1) - 1 /\ m <= n  OBVIOUS
    <3>2. g[m + 1] = s[<<m, g[m]>>] /\ h[m + 1] = s[<<m, h[m]>>]  BY <1>4, <3>1
    <3>3. g[m] = h[m]  BY <2>2, <3>1
    <3>4. QED  BY <3>2, <3>3
  <2>3. Nat \subseteq Same  BY <2>1, <2>2, Induction
  <2>4. QED  BY <2>3
<1> DEFINE G(n) == CHOOSE g : Prefix(n, g)
           f == [n \in Nat |-> G(n)[n]]
<1>5. \A n \in Nat : Prefix(n, G(n))
  <2> HIDE DEF Prefix
  <2>1. QED  BY <1>3
<1> HIDE DEF G
<1>6. f \in [Nat -> S] /\ f[0] = c
  BY <1>5
<1>7. ASSUME NEW n \in Nat  PROVE f[n + 1] = s[<<n, f[n]>>]
  <2>1. Prefix(n, G(n)) /\ Prefix(n + 1, G(n + 1))  BY <1>5
  <2>2. G(n)[n] = G(n + 1)[n]  BY <1>4, <2>1
  <2>3. n \in 0 .. (n + 1) - 1  OBVIOUS
  <2>4. G(n + 1)[n + 1] = s[<<n, G(n + 1)[n]>>]  BY <2>1, <2>3
  <2>5. QED  BY <2>2, <2>4
<1>8. Iterates(f, S, c, s)  BY <1>6, <1>7 DEF Iterates
<1>9. QED  BY <1>8


-----------------------------------------------------------------------------
(* The walk of alloc. *)

LEMMA WalkSteps ==
    ASSUME NEW b, NEW end \in Nat, Tiled(b, end)
    PROVE  /\ Walk(b) \in [Nat -> DOMAIN b \cup {NULL}]
           /\ Walk(b)[0] = 0
           /\ \A i \in Nat : Walk(b)[i + 1] = IF Walk(b)[i] = NULL THEN NULL ELSE b[Walk(b)[i]].next
  <1> DEFINE S == DOMAIN b \cup {NULL}
             Step(x) == IF x = NULL THEN NULL ELSE b[x].next
             s == [y \in Nat \X S |-> Step(y[2])]
             Def(g) == [i \in Nat |-> IF i = 0 THEN IF 0 \in DOMAIN b THEN 0 ELSE NULL
                                      ELSE IF g[i - 1] = NULL THEN NULL
                                      ELSE b[g[i - 1]].next]
  <1>1. 0 \in DOMAIN b
    BY DEF Tiled, WellFormed
  <1>2. \A x \in S : Step(x) \in S
    BY DEF Tiled, WellFormed, LinkedToNext
  <1>3. s \in [Nat \X S -> S] /\ \A i \in Nat : \A x \in S : s[<<i, x>>] = Step(x)
    <2> HIDE DEF S, Step
    <2> QED  BY <1>2
  <1>4. PICK f : Iterates(f, S, 0, s)
    <2>1. 0 \in S  BY <1>1
    <2> HIDE DEF S, s
    <2> QED  BY <1>3, <2>1, Recursion, Zenon
  <1>5. /\ f \in [Nat -> S] /\ f[0] = 0
        /\ \A i \in Nat : f[i + 1] = Step(f[i])
    <2> HIDE DEF S, Step, s
    <2> QED  BY <1>3, <1>4 DEF Iterates
  <1>6. f = Def(f)
    <2>1. \A i \in Nat : i # 0 => i - 1 \in Nat /\ (i - 1) + 1 = i  OBVIOUS
    <2>2. \A i \in Nat : i # 0 => f[i] = Step(f[i - 1])  BY <1>5, <2>1
    <2>3. \A i \in Nat : f[i] = Def(f)[i]  BY <1>1, <1>5, <2>2
    <2> QED  BY <1>5, <2>3
  <1>7. Walk(b) = CHOOSE g : g = Def(g)
    BY DEF Walk
  <1>8. Walk(b) = Def(Walk(b))
    <2> HIDE DEF Def
    <2> QED  BY <1>6, <1>7, Zenon
  <1> DEFINE w == Walk(b)
  <1>9. /\ w[0] = 0 /\ w = [i \in Nat |-> w[i]]
        /\ \A i \in Nat : w[i + 1] = Step(w[i])
    <2>1. w = Def(w)  BY <1>8
    <2> HIDE DEF w
    <2>2. w[0] = 0  BY <1>1, <2>1
    <2>3. ASSUME NEW i \in Nat  PROVE w[i + 1] = Step(w[i])
      <3>1. i + 1 \in Nat /\ i + 1 # 0 /\ (i + 1) - 1 = i  OBVIOUS
      <3> QED  BY <2>1, <3>1
    <2>4. w = [i \in Nat |-> w[i]]  BY <2>1
    <2> QED  BY <2>2, <2>3, <2>4
  <1>10. w \in [Nat -> S]
    <2> DEFINE T == {i \in Nat : w[i] \in S}
    <2> HIDE DEF w, Step
    <2>1. 0 \in T  BY <1>1, <1>9
    <2> HIDE DEF S
    <2>2. ASSUME NEW i \in Nat, i \in T  PROVE i + 1 \in T
      <3>1. Step(w[i]) \in S  BY <1>2, <2>2
      <3> QED  BY <1>9, <3>1
    <2>3. Nat \subseteq T  BY <2>1, <2>2, Induction
    <2> QED  BY <1>9, <2>3
  <1> QED  BY <1>9, <1>10


(* It goes forward, so it meets a block only once. *)
LEMMA WalkAscends ==
    ASSUME NEW b, NEW end \in Nat, Tiled(b, end), NEW i \in Nat, Walk(b)[i] \in DOMAIN b
    PROVE  \A j \in 0 .. i - 1 : Walk(b)[j] \in DOMAIN b /\ Walk(b)[j] < Walk(b)[i]
  <1> DEFINE w == Walk(b)
             Before(k) == \A j \in 0 .. k - 1 : w[j] \in DOMAIN b /\ w[j] < w[k]
             T == {k \in Nat : w[k] \in DOMAIN b => Before(k)}
  <1>1. /\ w \in [Nat -> DOMAIN b \cup {NULL}]
        /\ \A k \in Nat : w[k + 1] = IF w[k] = NULL THEN NULL ELSE b[w[k]].next
    BY WalkSteps
  <1>2. DOMAIN b \subseteq Nat /\ NULL \notin DOMAIN b
    BY DEF Tiled, BlockMap, NULL
  <1>3. \A h \in DOMAIN b : b[h].next # NULL => h < b[h].next
    <2> SUFFICES ASSUME NEW h \in DOMAIN b, b[h].next # NULL  PROVE h < b[h].next
      OBVIOUS
    <2>1. b[h].next = h + Hdr + b[h].size
      BY DEF Tiled, WellFormed, LinkedToNext, End
    <2>2. Hdr \in Nat \ {0} /\ b[h].size \in Nat /\ h \in Nat
      BY <1>2, ScratchpadAssumption DEF Tiled, BlockMap, Header, Hdr
    <2> QED  BY <2>1, <2>2
  <1> HIDE DEF w
  <1>4. 0 \in T  OBVIOUS
  <1>5. ASSUME NEW k \in Nat, k \in T  PROVE k + 1 \in T
    <2> SUFFICES ASSUME w[k + 1] \in DOMAIN b, NEW j \in 0 .. (k + 1) - 1
                 PROVE  w[j] \in DOMAIN b /\ w[j] < w[k + 1]
      OBVIOUS
    <2>1. w[k] \in DOMAIN b /\ w[k + 1] = b[w[k]].next
      BY <1>1, <1>2
    <2>2. w[k] < w[k + 1] /\ w[k] \in Nat /\ w[k + 1] \in Nat
      BY <1>2, <1>3, <2>1
    <2>3. CASE j = k  BY <2>1, <2>2, <2>3
    <2>4. CASE j # k
      <3>1. j \in 0 .. k - 1  BY <2>4
      <3>2. w[j] \in DOMAIN b /\ w[j] < w[k]  BY <1>5, <2>1, <3>1
      <3>3. w[j] \in Nat  BY <1>2, <3>2
      <3> QED  BY <2>2, <3>2, <3>3
    <2> QED  BY <2>3, <2>4
  <1>6. Nat \subseteq T
    <2> HIDE DEF Before
    <2> QED  BY <1>4, <1>5, Induction
  <1> QED  BY <1>6 DEF w

(* It meets every block: the first it missed would have a predecessor.     *)
LEMMA WalkMeets ==
    ASSUME NEW b, NEW end \in Nat, Tiled(b, end)
    PROVE  \A h \in DOMAIN b : \E i \in Nat : Walk(b)[i] = h
  <1> DEFINE w == Walk(b)
             Missed == {h \in DOMAIN b : ~\E i \in Nat : w[i] = h}
  <1>1. /\ w[0] = 0
        /\ \A k \in Nat : w[k + 1] = IF w[k] = NULL THEN NULL ELSE b[w[k]].next
    BY WalkSteps
  <1>2. DOMAIN b \subseteq Nat /\ NULL \notin DOMAIN b
    BY DEF Tiled, BlockMap, NULL
  <1> HIDE DEF w
  <1> SUFFICES ASSUME Missed # {}  PROVE FALSE
    BY DEF w
  <1>3. Missed \in SUBSET Nat
    BY <1>2
  <1>4. PICK h \in Missed : \A g \in Missed : h <= g
    <2> HIDE DEF Missed
    <2> QED  BY <1>3, LeastElement, Zenon
  <1>5. h # 0
    BY <1>1
  <1> DEFINE g == b[h].prev
  <1>6. g \in DOMAIN b /\ b[g].next = h
    BY <1>5 DEF Tiled, WellFormed, LinkedToPrev
  <1>7. g < h
    <2>1. h = g + Hdr + b[g].size
      BY <1>2, <1>6 DEF Tiled, WellFormed, LinkedToNext, End
    <2>2. Hdr \in Nat \ {0} /\ b[g].size \in Nat /\ g \in Nat
      BY <1>2, <1>6, ScratchpadAssumption DEF Tiled, BlockMap, Header, Hdr
    <2> QED  BY <2>1, <2>2
  <1> HIDE DEF g
  <1>8. g \notin Missed
    <2>1. g \in Nat /\ h \in Nat  BY <1>2, <1>6
    <2> QED  BY <1>4, <1>7, <2>1
  <1>9. PICK i \in Nat : w[i] = g
    BY <1>6, <1>8
  <1>10. w[i + 1] = h
    BY <1>1, <1>2, <1>6, <1>9
  <1> QED  BY <1>10

(* If some block fits, the loop finds the first that does before it has    *)
(* looked at as many as there are.                                         *)
LEMMA WalkFinds ==
    ASSUME NEW b, NEW end \in Nat, Tiled(b, end), NEW size,
           NEW g \in DOMAIN b, Fits(b, g, size)
    PROVE  \E h \in DOMAIN b : FirstFit(b, h, size)
  <1> DEFINE w == Walk(b)
             Found == {i \in Nat : w[i] \in DOMAIN b /\ Fits(b, w[i], size)}
  <1>1. Found # {} /\ Found \in SUBSET Nat
    BY WalkMeets
  <1>2. PICK i \in Found : \A j \in Found : i <= j
    <2> HIDE DEF Found
    <2> QED  BY <1>1, LeastElement, Zenon
  <1>3. \A j \in 0 .. i - 1 : w[j] \in DOMAIN b /\ w[j] < w[i]
    BY WalkAscends
  <1>4. \A j \in 0 .. i - 1 : ~Fits(b, w[j], size)
    BY <1>2, <1>3
  <1>5. IsFiniteSet(DOMAIN b)
    <2>1. DOMAIN b \in SUBSET Nat /\ \A h \in DOMAIN b : h <= end
      BY ScratchpadAssumption DEF Tiled, BlockMap, Bounded, Hdr
    <2> QED  BY <2>1, FS_BoundedSetOfNaturals
  <1>6. i \in 0 .. Cardinality(DOMAIN b) - 1
    <2> DEFINE f == [j \in 0 .. i |-> w[j]]
    <2>1. \A j, k \in 0 .. i : j < k => w[j] < w[k] /\ w[j] \in Nat /\ w[k] \in Nat
      <3> SUFFICES ASSUME NEW j \in 0 .. i, NEW k \in 0 .. i, j < k
                   PROVE  w[j] < w[k] /\ w[j] \in Nat /\ w[k] \in Nat
        OBVIOUS
      <3>1. k \in Nat /\ w[k] \in DOMAIN b /\ j \in 0 .. k - 1  BY <1>3
      <3>2. w[j] \in DOMAIN b /\ w[j] < w[k]  BY <3>1, WalkAscends
      <3> QED  BY <3>1, <3>2 DEF Tiled, BlockMap
    <2>2. \A j, k \in 0 .. i : w[j] = w[k] => j = k
      <3> HIDE DEF w
      <3> QED  BY <2>1
    <2>3. \A j \in 0 .. i : w[j] \in DOMAIN b
      BY <1>3
    <2>4. f \in Injection(0 .. i, DOMAIN b)
      <3> HIDE DEF w
      <3> QED  BY <2>2, <2>3 DEF Injection, IsInjective
    <2>5. Cardinality(0 .. i) = i + 1
      BY FS_Interval
    <2>6. Cardinality(0 .. i) <= Cardinality(DOMAIN b) /\ Cardinality(DOMAIN b) \in Nat
      <3> HIDE DEF f
      <3> QED  BY <1>5, <2>4, FS_Injection, FS_CardinalityType
    <2> QED  BY <2>5, <2>6
  <1> QED  BY <1>2, <1>4, <1>6 DEF FirstFit

(* alloc falls back to the C heap only when no free block of the arena is  *)
(* large enough, whatever the list has become (fixedpoint.h 148-167).      *)
THEOREM FallbackOnlyWhenFull == Spec => HeapOnlyWhenFull
  <1> DEFINE A == \A p \in heap' \ heap :
                     ~\E h \in DOMAIN blk' : Fits(blk', h, RoundUp(live'[p]))
  <1>1. ASSUME IInv, [Next]_vars, NEW p \in heap' \ heap,
               NEW g \in DOMAIN blk', Fits(blk', g, RoundUp(live'[p]))
        PROVE  FALSE
    <2>1. PICK n \in Request : AllocFromHeap(n)
      BY <1>1 DEF Next, vars, AllocFromArena, FreeToArena, FreeToHeap, set_size
    <2>2. PICK buffer \in {"null", "rpcmem", "posix"}, b \in {blk, FreshArena} :
             /\ initialize_if_needed(buffer, b)
             /\ ~\E h \in DOMAIN b : FirstFit(b, h, RoundUp(n))
             /\ blk' = b
             /\ \/ \E q \in HeapAddress \ heap : heap' = heap \cup {q} /\ Hold(q, n)
                \/ UNCHANGED <<heap, live>>
      BY <2>1 DEF AllocFromHeap
    <2>3. live'[p] = n
      BY <1>1, <2>2 DEF Hold
    <2>4. b # NoBlocks
      BY <1>1, <2>2 DEF NoBlocks
    <2>5. Tiled(b, total_size) /\ total_size \in Nat
      BY <1>1, <2>2, <2>4, ArenaToAllocFrom, ScratchpadAssumption DEF IInv, TypeOK
    <2> QED  BY <1>1, <2>2, <2>3, <2>5, WalkFinds
  <1>2. IInv /\ [Next]_vars => [A]_vars
    BY <1>1
  <1> QED  BY <1>2, IInvInvariant, PTL DEF Spec, HeapOnlyWhenFull

-----------------------------------------------------------------------------
(* Every grant of the allocator is a grant of ScratchpadPool: the new      *)
(* range is disjoint from every range in use. *)
LEMMA ArenaGrant ==
    ASSUME IInv, NEW n \in Request, AllocFromArena(n)
    PROVE  \E p \in ArenaAddress : Pool!Grant(p, n)
  <1>1. PICK buffer \in {"rpcmem", "posix"}, b \in {blk, FreshArena} :
           /\ initialize_if_needed(buffer, b)
           /\ \E h \in DOMAIN b : FirstFit(b, h, RoundUp(n)) /\ Hold(h + Hdr, n)
    BY DEF AllocFromArena
  <1>2. PICK h \in DOMAIN b : FirstFit(b, h, RoundUp(n)) /\ Hold(h + Hdr, n)
    BY <1>1
  <1> DEFINE p == h + Hdr
  <1>3. /\ Tiled(b, total_size)
        /\ Mapped => b = blk
    BY <1>1, ArenaToAllocFrom
  <1>4. n \in Nat /\ RoundUp(n) \in Nat /\ RoundUp(n) >= n
    BY RoundUpCovers, ScratchpadAssumption
  <1>5. b[h].is_free /\ b[h].size >= RoundUp(n)
    BY <1>2 DEF FirstFit, Fits
  <1>6. total_size \in Nat /\ Hdr \in Nat /\ Hdr > 0 /\ total_size \in ArenaSizes
    BY ScratchpadAssumption DEF IInv, TypeOK, Hdr
  <1>7. /\ h \in Nat /\ b[h].size \in Nat /\ End(b, h) <= total_size /\ p < total_size
        /\ DOMAIN b \subseteq Nat /\ \A o \in DOMAIN b : b[o].size \in Nat
        /\ \A f, g \in DOMAIN b : f < g => End(b, f) <= g
    BY <1>3 DEF Tiled, BlockMap, Bounded, WellFormed, Header
  <1>8. p + n <= total_size /\ p + n <= End(b, h)
    BY <1>4, <1>5, <1>6, <1>7 DEF End
  <1>9. ASSUME NEW q \in DOMAIN live
        PROVE  q # p /\ (p + n <= q \/ q + live[q] <= p)
    <2>1. q \in Nat /\ live[q] \in Nat
      BY WhereLiveIs
    <2>2. CASE q > total_size
      BY <2>1, <2>2, <1>4, <1>6, <1>7, <1>8
    <2>3. CASE /\ Mapped /\ q - Hdr \in DOMAIN blk
               /\ ~blk[q - Hdr].is_free /\ live[q] <= blk[q - Hdr].size
      <3> DEFINE g == q - Hdr
      <3>1. g \in DOMAIN b /\ g # h /\ live[q] <= b[g].size /\ g \in Nat /\ b[g].size \in Nat
        BY <2>3, <1>3, <1>5, <1>7
      <3>2. CASE g < h
        <4>1. g + Hdr + b[g].size <= h
          BY <3>1, <3>2, <1>7 DEF End
        <4> QED
          BY <4>1, <3>1, <3>2, <2>1, <1>6, <1>7
      <3>3. CASE h < g
        <4>1. End(b, h) <= g
          BY <3>1, <3>3, <1>7
        <4> QED
          BY <4>1, <3>1, <3>3, <2>1, <1>4, <1>6, <1>7, <1>8 DEF End
      <3> QED
        BY <3>1, <3>2, <3>3, <1>7
    <2> QED
      BY <2>2, <2>3, WhereLiveIs
  <1>10. p \in ArenaAddress
    BY <1>6, <1>7 DEF ArenaAddress
  <1>11. Pool!Grant(p, n)
    BY <1>2, <1>9 DEF Pool!Grant, Pool!Disjoint, Hold
  <1> QED
    BY <1>10, <1>11

(* A pointer of posix_memalign is a grant too: it lies behind the arena     *)
(* and apart from the other fallback blocks. *)
LEMMA HeapGrant ==
    ASSUME IInv, NEW n \in Request, AllocFromHeap(n)
    PROVE  (\E p \in HeapAddress : Pool!Grant(p, n)) \/ UNCHANGED live
  <1>1. CASE \E p \in HeapAddress \ heap : Hold(p, n)
    <2>1. PICK p \in HeapAddress \ heap : Hold(p, n)
      BY <1>1
    <2>0. n \in Nat /\ p \in Nat /\ total_size \in Nat /\ Hdr \in Nat /\ p > total_size
      BY ScratchpadAssumption DEF IInv, TypeOK, Hdr
    <2>2. ASSUME NEW q \in DOMAIN live
          PROVE  q # p /\ (p + n <= q \/ q + live[q] <= p)
      <3>1. q \in Nat /\ live[q] \in Nat /\ live[q] \in Request
        BY WhereLiveIs
      <3>2. CASE q \in heap /\ q \in HeapAddress
        <4>1. q # p
          BY <3>2
        <4>2. (p < q => p + n <= q) /\ (q < p => q + live[q] <= p)
          BY <3>1, <3>2, ScratchpadAssumption
        <4> QED
          BY <4>1, <4>2, <3>1, <2>0
      <3>3. CASE /\ Mapped /\ q - Hdr \in DOMAIN blk /\ live[q] <= blk[q - Hdr].size
        <4>1. End(blk, q - Hdr) <= total_size /\ blk[q - Hdr].size \in Nat
          BY <3>3 DEF IInv, Tiled, Bounded, BlockMap, Header
        <4> QED
          BY <4>1, <3>1, <3>3, <2>0 DEF End
      <3> QED
        BY <3>2, <3>3, WhereLiveIs
    <2>3. Pool!Grant(p, n)
      BY <2>1, <2>2 DEF Pool!Grant, Pool!Disjoint, Hold
    <2> QED
      BY <2>3
  <1>2. CASE UNCHANGED live
    BY <1>2
  <1> QED
    BY <1>1, <1>2 DEF AllocFromHeap

(* The allocator implements ScratchpadPool: at every moment the pointers   *)
(* its callers hold are disjoint ranges as long as what they asked for,    *)
(* for any sequence of calls. *)
THEOREM ImplementsPool == Spec => PoolSpec
  <1>1. Init => Pool!Init
    BY DEF Init, Pool!Init
  <1>2. IInv /\ [Next]_vars => [Pool!Next]_live
    <2> SUFFICES ASSUME IInv, [Next]_vars PROVE [Pool!Next]_live
      OBVIOUS
    <2>1. CASE UNCHANGED vars
      BY <2>1 DEF vars
    <2>2. ASSUME NEW n \in Request, AllocFromArena(n) PROVE Pool!Next
      BY <2>2, ArenaGrant DEF Pool!Next
    <2>3. ASSUME NEW n \in Request, AllocFromHeap(n) PROVE [Pool!Next]_live
      BY <2>3, HeapGrant DEF Pool!Next
    <2>4. ASSUME NEW p \in DOMAIN live, FreeToArena(p) \/ FreeToHeap(p) PROVE Pool!Next
      <3>1. p \in ArenaAddress \cup HeapAddress
        <4>1. CASE p \in HeapAddress
          BY <4>1
        <4>2. CASE InArena(p)
          BY <4>2, WhereLiveIs, ScratchpadAssumption DEF InArena, ArenaAddress, IInv, TypeOK
        <4> QED
          BY <4>1, <4>2, WhereLiveIs
      <3>2. Pool!Release(p)
        BY <2>4 DEF FreeToArena, FreeToHeap, Drop, Pool!Release
      <3> QED
        BY <3>1, <3>2 DEF Pool!Next
    <2>5. ASSUME NEW s \in ArenaSizes, set_size(s) PROVE UNCHANGED live
      BY <2>5 DEF set_size
    <2> QED
      BY <2>1, <2>2, <2>3, <2>4, <2>5 DEF Next
  <1> QED
    BY <1>1, <1>2, IInvInvariant, PTL DEF Spec, PoolSpec, Pool!Spec

=============================================================================
