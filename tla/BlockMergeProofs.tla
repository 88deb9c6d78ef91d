----------------------------- MODULE BlockMergeProofs --------------------------
(***************************************************************************)
(* The five properties of BlockMerge, for any codepoints, sizes of pixel   *)
(* data, block size and batch size.                                        *)
(*                                                                         *)
(* The invariant says of every block's file what WriteBlockFile relies on  *)
(* when it merges into it: sorted entries that a hash table can index,     *)
(* each in its own block, sized by its glyph, with its pixels behind its   *)
(* offset.  Two entries of a block in the same cell of the hash table have *)
(* the same codepoint, so the cell that the last of them keeps finds it,   *)
(* and either has the glyph's pixels.                                      *)
(* The loops are functions of the round; what a loop keeps is proved by    *)
(* induction over the rounds (module Induction).                           *)
(***************************************************************************)
EXTENDS BlockMerge, Induction, SequenceTheorems

-------------------------------------------------------------------------------
(* The pending glyphs of a block, sorted.                                  *)

Ascending(s) == \A k, l \in DOMAIN s : k < l => s[k] <= s[l]

\* The places of a queue with glyphs of a block, and those up to one of them
\* in the order of the glyphs.
Mine(queue, b) == {n \in DOMAIN queue : GetBlockId(queue[n]) = b}
UpTo(queue, b, n) == {m \in Mine(queue, b) : \/ queue[m] < queue[n]
                                             \/ queue[m] = queue[n] /\ m <= n}

\* The constants have the types the assumption gives them.
LEMMA CodepointsAreNumbers ==
    /\ Codepoints \subseteq Nat
    /\ \A cp \in Codepoints : DataSize[cp] \in Nat
    /\ BLOCK_SIZE \in Nat \ {0} /\ WRITE_BATCH_SIZE \in Nat \ {0}
BY MergeAssumption

\* The places of a block's glyphs are finitely many, within the queue.
LEMMA MineIsOfTheQueue ==
    ASSUME NEW queue \in Seq(Codepoints), NEW b
    PROVE  \A n \in Mine(queue, b) :
              /\ n \in 1..Len(queue) /\ n \in Nat
              /\ queue[n] \in Codepoints /\ queue[n] \in Nat
              /\ GetBlockId(queue[n]) = b
<1>1. DOMAIN queue = 1..Len(queue) /\ Len(queue) \in Nat
    OBVIOUS
<1>2. \A n \in 1..Len(queue) : queue[n] \in Codepoints
    OBVIOUS
<1>3. \A n \in 1..Len(queue) : queue[n] \in Nat
    BY <1>2, CodepointsAreNumbers
<1> QED
    BY <1>1, <1>2, <1>3 DEF Mine

\* Ranks are an order of the places: the later has the greater, from 1 to
\* their number.
LEMMA Ranks ==
    ASSUME NEW queue \in Seq(Codepoints), NEW b
    PROVE  /\ IsFiniteSet(Mine(queue, b)) /\ Cardinality(Mine(queue, b)) \in Nat
           /\ \A n \in Mine(queue, b) :
                Cardinality(UpTo(queue, b, n)) \in 1..Cardinality(Mine(queue, b))
           /\ \A m, n \in Mine(queue, b) :
                queue[m] < queue[n] \/ (queue[m] = queue[n] /\ m < n)
                  => Cardinality(UpTo(queue, b, m)) < Cardinality(UpTo(queue, b, n))
<1> DEFINE M == Mine(queue, b)
           U(n) == UpTo(queue, b, n)
<1>1. M \subseteq Nat /\ \A n \in M : queue[n] \in Nat
    BY MineIsOfTheQueue
<1>2. IsFiniteSet(M) /\ Cardinality(M) \in Nat
  <2>1. M \subseteq 1..Len(queue) /\ Len(queue) \in Nat
    BY DEF Mine
  <2>2. IsFiniteSet(1..Len(queue))
    BY <2>1, FS_Interval
  <2> QED
    BY <2>1, <2>2, FS_Subset, FS_CardinalityType
<1>3. ASSUME NEW n \in M
      PROVE  /\ U(n) \subseteq M /\ n \in U(n)
             /\ IsFiniteSet(U(n)) /\ Cardinality(U(n)) \in 1..Cardinality(M)
  <2>1. U(n) \subseteq M /\ n \in U(n)
    BY <1>1 DEF UpTo
  <2>2. IsFiniteSet(U(n)) /\ Cardinality(U(n)) \in Nat /\ Cardinality(U(n)) <= Cardinality(M)
    <3> HIDE DEF U, M
    <3> QED
      BY <1>2, <2>1, FS_Subset, FS_CardinalityType
  <2>3. Cardinality(U(n)) # 0
    <3> HIDE DEF U, M
    <3> QED
      BY <2>1, <2>2, FS_EmptySet
  <2> QED
    BY <1>2, <2>1, <2>2, <2>3
<1>4. ASSUME NEW m \in M, NEW n \in M, queue[m] < queue[n] \/ (queue[m] = queue[n] /\ m < n)
      PROVE  Cardinality(U(m)) < Cardinality(U(n))
  <2>1. U(m) \subseteq U(n) \ {n} /\ n \in U(n)
    BY <1>1, <1>4 DEF UpTo
  <2>2. IsFiniteSet(U(n)) /\ Cardinality(U(n)) \in Nat /\ Cardinality(U(m)) \in Nat
    BY <1>2, <1>3
  <2> HIDE DEF U, M
  <2>3. IsFiniteSet(U(n) \ {n}) /\ Cardinality(U(n) \ {n}) = Cardinality(U(n)) - 1
    BY <2>1, <2>2, FS_RemoveElement
  <2>4. Cardinality(U(m)) <= Cardinality(U(n) \ {n})
    BY <2>1, <2>3, FS_Subset
  <2> QED
    BY <2>2, <2>3, <2>4
<1> QED
    BY <1>2, <1>3, <1>4

\* Every rank is taken.
LEMMA RanksTaken ==
    ASSUME NEW queue \in Seq(Codepoints), NEW b,
           NEW k \in 1..Cardinality(Mine(queue, b))
    PROVE  \E n \in Mine(queue, b) : Cardinality(UpTo(queue, b, n)) = k
<1> DEFINE M == Mine(queue, b)
           C == Cardinality(M)
           rank == [n \in M |-> Cardinality(UpTo(queue, b, n))]
<1>1. IsFiniteSet(M) /\ C \in Nat
    BY Ranks
<1>2. rank \in Injection(M, 1..C)
  <2>1. \A n \in M : rank[n] \in 1..C
    BY Ranks
  <2>2. \A m, n \in M : rank[m] = rank[n] => m = n
    <3> SUFFICES ASSUME NEW m \in M, NEW n \in M, m # n PROVE rank[m] # rank[n]
      OBVIOUS
    <3>1. m \in Nat /\ n \in Nat /\ queue[m] \in Nat /\ queue[n] \in Nat
      BY MineIsOfTheQueue
    <3>2. rank[m] \in Int /\ rank[n] \in Int
      <4> HIDE DEF C, rank
      <4> QED
        BY <1>1, <2>1
    <3>3. \/ queue[m] < queue[n] \/ (queue[m] = queue[n] /\ m < n)
          \/ queue[n] < queue[m] \/ (queue[n] = queue[m] /\ n < m)
      <4> HIDE DEF M
      <4> QED
        BY <3>1
    <3>4. rank[m] < rank[n] \/ rank[n] < rank[m]
      BY <3>3, Ranks
    <3> QED
      BY <3>2, <3>4
  <2> QED
    BY <2>1, <2>2 DEF Injection, IsInjective
<1>3. IsFiniteSet(1..C) /\ Cardinality(1..C) = C
  <2> HIDE DEF C
  <2> QED
    BY <1>1, FS_Interval
<1>4. rank \in Surjection(M, 1..C)
  <2> HIDE DEF rank, C
  <2>1. C = Cardinality(M)
    BY DEF C
  <2> QED
    BY <1>2, <1>3, <2>1, FS_Injection
<1> QED
    BY <1>4 DEF Surjection

\* No two places of a sequence have a glyph.
Once(s, cp) == \A k, l \in DOMAIN s : s[k] = cp /\ s[l] = cp => k = l

\* PendingOf is sorted and has the glyphs of its block, every one, and a glyph
\* twice only if the queue has.
LEMMA PendingSorted ==
    ASSUME NEW queue \in Seq(Codepoints), NEW b
    PROVE  /\ PendingOf(queue, b) \in Seq(Codepoints)
           /\ Ascending(PendingOf(queue, b))
           /\ ToSet(PendingOf(queue, b)) = {cp \in ToSet(queue) : GetBlockId(cp) = b}
           /\ \A cp : Once(queue, cp) => Once(PendingOf(queue, b), cp)
<1> DEFINE M == Mine(queue, b)
           C == Cardinality(M)
           Rank(n) == Cardinality(UpTo(queue, b, n))
           place == [k \in 1..C |-> CHOOSE n \in M : Rank(n) = k]
<1>1. PendingOf(queue, b) = [k \in 1..C |-> queue[place[k]]]
    BY DEF PendingOf, Mine, UpTo
<1>2. C \in Nat
    BY Ranks
<1>3. \A k \in 1..C : place[k] \in M /\ Rank(place[k]) = k
    BY RanksTaken
<1>4. \A n \in M : n \in 1..Len(queue) /\ queue[n] \in Codepoints /\ GetBlockId(queue[n]) = b
    BY MineIsOfTheQueue
<1>5. \A n \in M : Rank(n) \in 1..C
    BY Ranks
<1>15. \A m, n \in M : queue[m] < queue[n] => Rank(m) < Rank(n)
    BY Ranks
<1>6. \A m, n \in M : Rank(m) < Rank(n) => queue[m] <= queue[n]
  <2> SUFFICES ASSUME NEW m \in M, NEW n \in M, queue[n] < queue[m] PROVE ~(Rank(m) < Rank(n))
    BY MineIsOfTheQueue
  <2>1. Rank(n) < Rank(m)
    BY <1>15
  <2>2. Rank(n) \in Nat /\ Rank(m) \in Nat
    <3> HIDE DEF C, Rank
    <3> QED
      BY <1>2, <1>5
  <2> QED
    BY <2>1, <2>2
<1>7. \A m, n \in M : Rank(m) = Rank(n) => queue[m] = queue[n]
  <2> SUFFICES ASSUME NEW m \in M, NEW n \in M, queue[n] # queue[m] PROVE Rank(m) # Rank(n)
    OBVIOUS
  <2>1. queue[n] \in Nat /\ queue[m] \in Nat
    BY MineIsOfTheQueue
  <2>2. Rank(n) < Rank(m) \/ Rank(m) < Rank(n)
    <3>1. queue[n] < queue[m] \/ queue[m] < queue[n]
      BY <2>1
    <3> QED
      BY <1>15, <3>1
  <2>3. Rank(n) \in Nat /\ Rank(m) \in Nat
    <3> HIDE DEF C, Rank
    <3> QED
      BY <1>2, <1>5
  <2> QED
    BY <2>2, <2>3
<1> HIDE DEF M, C, Rank, place
<1>8. PendingOf(queue, b) \in Seq(Codepoints) /\ Len(PendingOf(queue, b)) = C
    BY <1>1, <1>2, <1>3, <1>4
<1>9. Ascending(PendingOf(queue, b))
    BY <1>1, <1>2, <1>3, <1>6 DEF Ascending
<1>10. \A k \in 1..C : PendingOf(queue, b)[k] = queue[place[k]]
    BY <1>1
<1>11. \A k \in 1..C : PendingOf(queue, b)[k] \in {cp \in ToSet(queue) : GetBlockId(cp) = b}
    BY <1>3, <1>4, <1>10 DEF ToSet
<1>12. ASSUME NEW cp \in ToSet(queue), GetBlockId(cp) = b
       PROVE  \E k \in 1..C : PendingOf(queue, b)[k] = cp
  <2>1. PICK n \in DOMAIN queue : queue[n] = cp
    BY DEF ToSet
  <2>2. n \in M
    BY <1>12, <2>1 DEF M, Mine
  <2>3. Rank(n) \in 1..C
    BY <2>2, <1>5
  <2>4. queue[place[Rank(n)]] = cp
    BY <1>3, <1>7, <2>1, <2>2, <2>3
  <2> QED
    BY <1>10, <2>3, <2>4
<1>13. ToSet(PendingOf(queue, b)) = {PendingOf(queue, b)[k] : k \in 1..C}
    BY <1>8 DEF ToSet
<1>14. ToSet(PendingOf(queue, b)) = {cp \in ToSet(queue) : GetBlockId(cp) = b}
    BY <1>11, <1>12, <1>13
<1>16. \A cp : Once(queue, cp) => Once(PendingOf(queue, b), cp)
  <2>4. DOMAIN PendingOf(queue, b) = 1..C
    BY <1>1
  <2> SUFFICES ASSUME NEW cp, Once(queue, cp), NEW k \in 1..C, NEW l \in 1..C,
                      PendingOf(queue, b)[k] = cp, PendingOf(queue, b)[l] = cp
               PROVE  k = l
    BY <2>4 DEF Once
  <2>1. place[k] \in DOMAIN queue /\ place[l] \in DOMAIN queue
    BY <1>3, <1>4
  <2>2. queue[place[k]] = cp /\ queue[place[l]] = cp
    BY <1>10
  <2>3. place[k] = place[l]
    BY <2>1, <2>2 DEF Once
  <2> QED
    BY <1>3, <2>3
<1> QED
    BY <1>8, <1>9, <1>14, <1>16

-------------------------------------------------------------------------------
(* The merging loop.                                                       *)

Sorted(entries) ==
    \A k, l \in DOMAIN entries : k < l => entries[k].codepoint <= entries[l].codepoint

LoopState == [i : Nat \ {0}, j : Nat \ {0}, merged : Seq(GlyphEntry)]

\* A pending glyph's entry is one.
LEMMA EntryTyped == ASSUME NEW cp \in Codepoints PROVE Entry(cp) \in GlyphEntry
BY CodepointsAreNumbers DEF Entry, GlyphEntry

\* What a round does, by the branch it takes.
LEMMA Rounds ==
    ASSUME NEW old \in Seq(GlyphEntry), NEW new \in Seq(Codepoints), NEW s \in LoopState,
           NEW t, t = Round(old, new, s)
    PROVE  /\ t \in LoopState
           /\ \/ /\ s.i <= Len(old) /\ (s.j > Len(new) \/ old[s.i].codepoint < new[s.j])
                 /\ t.i = s.i + 1 /\ t.j = s.j /\ t.merged = Append(s.merged, old[s.i])
              \/ /\ s.i <= Len(old) /\ s.j <= Len(new) /\ new[s.j] = old[s.i].codepoint
                 /\ t.i = s.i + 1 /\ t.j = s.j + 1 /\ t.merged = Append(s.merged, Entry(new[s.j]))
              \/ /\ s.j <= Len(new) /\ (s.i > Len(old) \/ new[s.j] < old[s.i].codepoint)
                 /\ t.i = s.i /\ t.j = s.j + 1 /\ t.merged = Append(s.merged, Entry(new[s.j]))
              \/ /\ s.i > Len(old) /\ s.j > Len(new)
                 /\ t = s
<1>0. /\ s.i \in Nat \ {0} /\ s.j \in Nat \ {0} /\ s.merged \in Seq(GlyphEntry)
      /\ s = [i |-> s.i, j |-> s.j, merged |-> s.merged]
    BY DEF LoopState
<1>1. /\ Len(old) \in Nat /\ Len(new) \in Nat
      /\ s.i <= Len(old) => old[s.i] \in GlyphEntry /\ old[s.i].codepoint \in Nat
      /\ s.j <= Len(new) => new[s.j] \in Nat /\ Entry(new[s.j]) \in GlyphEntry
  <2>1. s.i <= Len(old) => s.i \in 1..Len(old) /\ old[s.i] \in GlyphEntry
    BY <1>0
  <2>2. s.j <= Len(new) => s.j \in 1..Len(new) /\ new[s.j] \in Codepoints
    BY <1>0
  <2>3. \A e \in GlyphEntry : e.codepoint \in Nat
    BY CodepointsAreNumbers DEF GlyphEntry
  <2>4. s.j <= Len(new) => new[s.j] \in Nat
    BY <2>2, CodepointsAreNumbers
  <2>5. s.j <= Len(new) => Entry(new[s.j]) \in GlyphEntry
    BY <2>2, EntryTyped
  <2>6. s.i <= Len(old) => old[s.i].codepoint \in Nat
    BY <2>1, <2>3
  <2> QED
    BY <2>1, <2>4, <2>5, <2>6
<1>2. CASE s.i <= Len(old) /\ (s.j > Len(new) \/ old[s.i].codepoint < new[s.j])
  <2>1. t = [i |-> s.i + 1, j |-> s.j, merged |-> Append(s.merged, old[s.i])]
    BY <1>0, <1>1, <1>2 DEF Round
  <2>2. Append(s.merged, old[s.i]) \in Seq(GlyphEntry)
    BY <1>0, <1>1, <1>2
  <2> QED
    BY <1>0, <1>2, <2>1, <2>2 DEF LoopState
<1>3. CASE s.i <= Len(old) /\ s.j <= Len(new) /\ new[s.j] = old[s.i].codepoint
  <2>1. t = [i |-> s.i + 1, j |-> s.j + 1, merged |-> Append(s.merged, Entry(new[s.j]))]
    BY <1>0, <1>1, <1>3 DEF Round
  <2>2. Append(s.merged, Entry(new[s.j])) \in Seq(GlyphEntry)
    BY <1>0, <1>1, <1>3
  <2> QED
    BY <1>0, <1>3, <2>1, <2>2 DEF LoopState
<1>4. CASE s.j <= Len(new) /\ (s.i > Len(old) \/ new[s.j] < old[s.i].codepoint)
  <2>3. ~(s.i <= Len(old) /\ (~(s.j <= Len(new)) \/ old[s.i].codepoint < new[s.j]))
    BY <1>0, <1>1, <1>4
  <2>4. ~(s.i <= Len(old) /\ new[s.j] = old[s.i].codepoint)
    BY <1>0, <1>1, <1>4
  <2>1. t = [i |-> s.i, j |-> s.j + 1, merged |-> Append(s.merged, Entry(new[s.j]))]
    BY <1>4, <2>3, <2>4 DEF Round
  <2>2. Append(s.merged, Entry(new[s.j])) \in Seq(GlyphEntry)
    BY <1>0, <1>1, <1>4
  <2> QED
    BY <1>0, <1>4, <2>1, <2>2 DEF LoopState
<1>5. CASE s.i > Len(old) /\ s.j > Len(new)
  <2>1. t = s
    BY <1>0, <1>1, <1>5 DEF Round
  <2> QED
    BY <1>5, <2>1
<1>6. \/ s.i <= Len(old) /\ (s.j > Len(new) \/ old[s.i].codepoint < new[s.j])
      \/ s.i <= Len(old) /\ s.j <= Len(new) /\ new[s.j] = old[s.i].codepoint
      \/ s.j <= Len(new) /\ (s.i > Len(old) \/ new[s.j] < old[s.i].codepoint)
      \/ s.i > Len(old) /\ s.j > Len(new)
    BY <1>0, <1>1
<1> QED
    BY <1>2, <1>3, <1>4, <1>5, <1>6

\* The loop as a function of the round.
LEMMA Loop ==
    ASSUME NEW old \in Seq(GlyphEntry), NEW new \in Seq(Codepoints)
    PROVE  \E loop \in [0..(Len(old) + Len(new)) -> LoopState] :
              /\ loop[0] = LoopStart
              /\ \A k \in 1..(Len(old) + Len(new)) : loop[k] = Round(old, new, loop[k - 1])
              /\ Merge(old, new) = loop[Len(old) + Len(new)].merged
<1> DEFINE N == Len(old) + Len(new)
           G == [p \in Nat \X LoopState |-> Round(old, new, p[2])]
           R(g) == [k \in 0..N |-> IF k = 0 THEN LoopStart ELSE Round(old, new, g[k - 1])]
           M == CHOOSE g : g = R(g)
<1>1. N \in Nat
    OBVIOUS
<1>2. LoopStart \in LoopState
    BY DEF LoopStart, LoopState
<1>3. G \in [Nat \X LoopState -> LoopState]
  <2>1. \A s \in LoopState : Round(old, new, s) \in LoopState
    BY Rounds
  <2>2. \A p \in Nat \X LoopState : p[2] \in LoopState
    OBVIOUS
  <2>3. \A p \in Nat \X LoopState : Round(old, new, p[2]) \in LoopState
    BY <2>1, <2>2
  <2> QED
    BY <2>3, Zenon
<1>4. PICK f \in [0..N -> LoopState] :
        f[0] = LoopStart /\ \A k \in 1..N : f[k] = G[<<k, f[k - 1]>>]
  <2> HIDE DEF N, G
  <2>1. \E f : f \in Recursive(N, LoopState, LoopStart, G)
    BY <1>1, <1>2, <1>3, Recursion
  <2> QED
    BY <2>1 DEF Recursive
<1>5. \A k \in 1..N : f[k] = Round(old, new, f[k - 1])
  <2> TAKE k \in 1..N
  <2>1. k - 1 \in 0..N /\ k \in Nat
    BY <1>1
  <2>2. <<k, f[k - 1]>> \in Nat \X LoopState
    BY <1>4, <2>1
  <2>3. f[k] = G[<<k, f[k - 1]>>]
    BY <1>4
  <2> QED
    BY <2>2, <2>3
<1>6. f = R(f)
    BY <1>4, <1>5
<1>7. M = R(M)
  <2> HIDE DEF R
  <2> QED
    BY <1>6, Zenon
<1>8. Merge(old, new) = M[N].merged
    BY Zenon DEF Merge
<1> HIDE DEF M
<1>9. M[0] = LoopStart /\ \A k \in 1..N : M[k] = Round(old, new, M[k - 1])
    BY <1>1, <1>7
<1>10. 0..N \subseteq {k \in 0..N : M[k] \in LoopState}
  <2> DEFINE S == {k \in 0..N : M[k] \in LoopState}
  <2>1. 0 \in S
    BY <1>1, <1>2, <1>9
  <2>2. ASSUME NEW k \in 1..N, k - 1 \in S PROVE k \in S
    <3>1. M[k] = Round(old, new, M[k - 1])
      BY <1>9
    <3>2. M[k] \in LoopState
      BY <2>2, <3>1, Rounds
    <3> QED
      BY <3>2
  <2> HIDE DEF S, N
  <2>3. 0..N \subseteq S
    BY <1>1, <2>1, <2>2, InductiveUpTo
  <2> QED
    BY <2>3 DEF S
<1>11. M \in [0..N -> LoopState]
  <2>1. M = [k \in 0..N |-> M[k]]
    BY <1>7
  <2> QED
    BY <1>10, <2>1
<1> QED
    BY <1>8, <1>9, <1>11

-------------------------------------------------------------------------------
(* What the loop keeps from round to round.                                *)

\* The codepoints of entries.
Codes(entries) == {entries[p].codepoint : p \in DOMAIN entries}

Sized(entries) ==
    \A p \in DOMAIN entries : entries[p].dataSize = DataSize[entries[p].codepoint]

\* The codepoints behind the indices, those already merged.
Behind(old, new, s) ==
    {old[p].codepoint : p \in 1..(s.i - 1)} \cup {new[q] : q \in 1..(s.j - 1)}

\* What is merged does not exceed what comes next.
Bounded(old, new, s) ==
    \A c \in Codes(s.merged) : /\ s.i <= Len(old) => c <= old[s.i].codepoint
                               /\ s.j <= Len(new) => c <= new[s.j]

\* After k rounds both are used up, or the indices have made k steps.
Progress(old, new, k, s) ==
    /\ s.i <= Len(old) + 1 /\ s.j <= Len(new) + 1
    /\ (s.i > Len(old) /\ s.j > Len(new)) \/ s.i + s.j >= k + 2

Merging(old, new, k, s) ==
    /\ Progress(old, new, k, s)
    /\ Codes(s.merged) = Behind(old, new, s)
    /\ Sorted(s.merged) /\ Sized(s.merged)
    /\ Bounded(old, new, s)

\* Appending an entry that is not smaller keeps the entries in order.
LEMMA Appended ==
    ASSUME NEW m \in Seq(GlyphEntry), NEW e \in GlyphEntry
    PROVE  /\ Codes(Append(m, e)) = Codes(m) \cup {e.codepoint}
           /\ Sorted(m) /\ (\A c \in Codes(m) : c <= e.codepoint) => Sorted(Append(m, e))
           /\ Sized(m) /\ e.dataSize = DataSize[e.codepoint] => Sized(Append(m, e))
<1> DEFINE a == Append(m, e)
<1>1. /\ DOMAIN m = 1..Len(m) /\ Len(m) \in Nat /\ DOMAIN a = 1..(Len(m) + 1)
      /\ a[Len(m) + 1] = e /\ \A p \in 1..Len(m) : a[p] = m[p]
    OBVIOUS
<1> HIDE DEF a
<1>2. Codes(a) = Codes(m) \cup {e.codepoint}
  <2>1. \A p \in DOMAIN a : a[p].codepoint \in Codes(m) \cup {e.codepoint}
    <3> SUFFICES ASSUME NEW p \in 1..(Len(m) + 1)
                 PROVE  a[p].codepoint \in Codes(m) \cup {e.codepoint}
      BY <1>1
    <3>1. CASE p = Len(m) + 1
      BY <1>1, <3>1
    <3>2. CASE p # Len(m) + 1
      <4>1. p \in 1..Len(m)
        BY <1>1, <3>2
      <4> QED
        BY <1>1, <4>1 DEF Codes
    <3> QED
      BY <3>1, <3>2
  <2>2. \A p \in DOMAIN m : m[p].codepoint \in Codes(a)
    <3> TAKE p \in DOMAIN m
    <3>1. p \in DOMAIN a /\ a[p] = m[p]
      BY <1>1
    <3> QED
      BY <3>1 DEF Codes
  <2>3. e.codepoint \in Codes(a)
    <3>1. Len(m) + 1 \in DOMAIN a
      BY <1>1
    <3> QED
      BY <1>1, <3>1 DEF Codes
  <2> QED
    BY <2>1, <2>2, <2>3 DEF Codes
<1>3. ASSUME Sorted(m), \A c \in Codes(m) : c <= e.codepoint PROVE Sorted(a)
  <2> SUFFICES ASSUME NEW k \in 1..(Len(m) + 1), NEW l \in 1..(Len(m) + 1), k < l
               PROVE  a[k].codepoint <= a[l].codepoint
    BY <1>1 DEF Sorted
  <2>1. k \in DOMAIN m /\ a[k] = m[k]
    BY <1>1
  <2>2. CASE l \in 1..Len(m)
    BY <1>1, <1>3, <2>1, <2>2 DEF Sorted
  <2>3. CASE l = Len(m) + 1
    BY <1>1, <1>3, <2>1, <2>3 DEF Codes
  <2> QED
    BY <1>1, <2>2, <2>3
<1>4. ASSUME Sized(m), e.dataSize = DataSize[e.codepoint] PROVE Sized(a)
  <2> SUFFICES ASSUME NEW p \in 1..(Len(m) + 1) PROVE a[p].dataSize = DataSize[a[p].codepoint]
    BY <1>1 DEF Sized
  <2>1. CASE p \in 1..Len(m)
    BY <1>1, <1>4, <2>1 DEF Sized
  <2>2. CASE p = Len(m) + 1
    BY <1>1, <1>4, <2>2
  <2> QED
    BY <1>1, <2>1, <2>2
<1> QED
    BY <1>2, <1>3, <1>4 DEF a

\* The index behind moves over one more.
LEMMA BehindGrows ==
    ASSUME NEW old \in Seq(GlyphEntry), NEW new \in Seq(Codepoints), NEW s \in LoopState,
           NEW t \in LoopState, NEW C, C = Behind(old, new, s)
    PROVE  /\ t.i = s.i + 1 /\ t.j = s.j => Behind(old, new, t) = C \cup {old[s.i].codepoint}
           /\ t.i = s.i /\ t.j = s.j + 1 => Behind(old, new, t) = C \cup {new[s.j]}
           /\ t.i = s.i + 1 /\ t.j = s.j + 1
                => Behind(old, new, t) = C \cup {old[s.i].codepoint, new[s.j]}
<1>1. s.i \in Nat \ {0} /\ s.j \in Nat \ {0}
    BY DEF LoopState
<1>2. ASSUME t.i = s.i + 1
      PROVE  {old[p].codepoint : p \in 1..(t.i - 1)}
               = {old[p].codepoint : p \in 1..(s.i - 1)} \cup {old[s.i].codepoint}
  <2>1. t.i - 1 = s.i /\ 1..s.i = (1..(s.i - 1)) \cup {s.i}
    BY <1>1, <1>2
  <2> QED
    BY <2>1
<1>3. ASSUME t.j = s.j + 1
      PROVE  {new[q] : q \in 1..(t.j - 1)} = {new[q] : q \in 1..(s.j - 1)} \cup {new[s.j]}
  <2>1. t.j - 1 = s.j /\ 1..s.j = (1..(s.j - 1)) \cup {s.j}
    BY <1>1, <1>3
  <2> QED
    BY <2>1
<1> QED
    BY <1>2, <1>3, Zenon DEF Behind

\* A round keeps what the loop keeps.
LEMMA RoundKeeps ==
    ASSUME NEW old \in Seq(GlyphEntry), NEW new \in Seq(Codepoints),
           Sorted(old), Sized(old), Ascending(new),
           NEW k \in Nat \ {0}, NEW s \in LoopState, Merging(old, new, k - 1, s),
           NEW t, t = Round(old, new, s)
    PROVE  Merging(old, new, k, t)
<1>0. /\ s.i \in Nat \ {0} /\ s.j \in Nat \ {0} /\ s.merged \in Seq(GlyphEntry)
      /\ Len(old) \in Nat /\ Len(new) \in Nat /\ t \in LoopState
      /\ DOMAIN old = 1..Len(old) /\ DOMAIN new = 1..Len(new)
  <2>1. t \in LoopState
    BY Rounds
  <2> QED
    BY <2>1 DEF LoopState
<1>1. /\ \A p \in 1..Len(old) : old[p] \in GlyphEntry /\ old[p].codepoint \in Nat
      /\ \A q \in 1..Len(new) : /\ new[q] \in Nat /\ new[q] \in Codepoints
                                /\ Entry(new[q]) \in GlyphEntry
                                /\ Entry(new[q]).codepoint = new[q]
                                /\ Entry(new[q]).dataSize = DataSize[new[q]]
  <2>1. \A e \in GlyphEntry : e.codepoint \in Nat
    BY CodepointsAreNumbers DEF GlyphEntry
  <2>2. \A p \in 1..Len(old) : old[p] \in GlyphEntry
    OBVIOUS
  <2>3. \A q \in 1..Len(new) : new[q] \in Codepoints
    OBVIOUS
  <2>4. \A cp \in Codepoints : /\ cp \in Nat /\ Entry(cp) \in GlyphEntry
                               /\ Entry(cp).codepoint = cp /\ Entry(cp).dataSize = DataSize[cp]
    BY EntryTyped, CodepointsAreNumbers DEF Entry
  <2> QED
    BY <2>1, <2>2, <2>3, <2>4
<1>2. \A c \in Codes(s.merged) : c \in Nat
  <2>1. \A p \in DOMAIN s.merged : s.merged[p] \in GlyphEntry
    BY <1>0
  <2> QED
    BY <2>1, CodepointsAreNumbers DEF Codes, GlyphEntry
<1>3. /\ Progress(old, new, k - 1, s) /\ Codes(s.merged) = Behind(old, new, s)
      /\ Sorted(s.merged) /\ Sized(s.merged) /\ Bounded(old, new, s)
    BY DEF Merging
<1>4. /\ \A p \in 1..Len(old) : p + 1 <= Len(old) => old[p].codepoint <= old[p + 1].codepoint
      /\ \A q \in 1..Len(new) : q + 1 <= Len(new) => new[q] <= new[q + 1]
  <2>1. \A p \in 1..Len(old) : p + 1 <= Len(old) => p + 1 \in 1..Len(old) /\ p < p + 1
    BY <1>0
  <2>2. \A q \in 1..Len(new) : q + 1 <= Len(new) => q + 1 \in 1..Len(new) /\ q < q + 1
    BY <1>0
  <2> QED
    BY <1>0, <2>1, <2>2 DEF Sorted, Ascending
<1>9. s.i \in Nat /\ s.j \in Nat /\ Len(old) \in Nat /\ Len(new) \in Nat
    BY <1>0
<1>5. CASE /\ s.i <= Len(old) /\ (s.j > Len(new) \/ old[s.i].codepoint < new[s.j])
           /\ t.i = s.i + 1 /\ t.j = s.j /\ t.merged = Append(s.merged, old[s.i])
  <2> DEFINE e == old[s.i]
  <2>1. s.i \in 1..Len(old) /\ e \in GlyphEntry /\ e.codepoint \in Nat
        /\ e.dataSize = DataSize[e.codepoint]
    BY <1>0, <1>1, <1>5 DEF Sized
  <2>2. \A c \in Codes(s.merged) : c <= e.codepoint
    BY <1>3, <1>5 DEF Bounded
  <2>3. /\ Codes(t.merged) = Codes(s.merged) \cup {e.codepoint}
        /\ Sorted(t.merged) /\ Sized(t.merged)
    BY <1>0, <1>3, <1>5, <2>1, <2>2, Appended
  <2>4. Codes(t.merged) = Behind(old, new, t)
    BY <1>0, <1>3, <1>5, <2>3, BehindGrows
  <2>5. Bounded(old, new, t)
    <3>1. ASSUME t.i <= Len(old) PROVE \A c \in Codes(t.merged) : c <= old[t.i].codepoint
      <4>1. t.i \in 1..Len(old) /\ e.codepoint <= old[t.i].codepoint
        BY <1>0, <1>4, <1>5, <2>1, <3>1
      <4> QED
        BY <1>1, <1>2, <2>1, <2>2, <2>3, <4>1
    <3>2. ASSUME t.j <= Len(new) PROVE \A c \in Codes(t.merged) : c <= new[t.j]
      <4>1. t.j \in 1..Len(new) /\ e.codepoint < new[t.j]
        BY <1>0, <1>1, <1>5, <3>2
      <4> QED
        BY <1>1, <1>2, <2>1, <2>2, <2>3, <4>1
    <3> QED
      BY <3>1, <3>2 DEF Bounded
  <2>6. Progress(old, new, k, t)
    <3>1. t.i = s.i + 1 /\ t.j = s.j /\ s.i <= Len(old)
      BY <1>5
    <3>2. s.j <= Len(new) + 1 /\ s.i + s.j >= (k - 1) + 2
      BY <1>0, <1>3, <3>1 DEF Progress
    <3>3. t.i + t.j >= k + 2 /\ t.i <= Len(old) + 1 /\ t.j <= Len(new) + 1
      <4>1. (s.i + s.j) + 1 >= k + 2
        BY <1>9, <3>2
      <4>2. t.i + t.j >= (s.i + s.j) + 1
        BY <1>9, <3>1
      <4>3. t.i <= Len(old) + 1 /\ t.j <= Len(new) + 1
        BY <1>9, <3>1, <3>2
      <4>4. t.i \in Nat /\ t.j \in Nat /\ s.i + s.j \in Nat
        BY <1>9, <3>1
      <4> QED
        BY <1>9, <4>1, <4>2, <4>3, <4>4
    <3> QED
      BY <3>3 DEF Progress
  <2> QED
    BY <2>3, <2>4, <2>5, <2>6 DEF Merging
<1>6. CASE /\ s.i <= Len(old) /\ s.j <= Len(new) /\ new[s.j] = old[s.i].codepoint
           /\ t.i = s.i + 1 /\ t.j = s.j + 1 /\ t.merged = Append(s.merged, Entry(new[s.j]))
  <2> DEFINE e == Entry(new[s.j])
  <2>1. s.i \in 1..Len(old) /\ s.j \in 1..Len(new) /\ e \in GlyphEntry /\ e.codepoint \in Nat
        /\ e.codepoint = new[s.j] /\ e.dataSize = DataSize[e.codepoint]
    BY <1>0, <1>1, <1>6
  <2>2. \A c \in Codes(s.merged) : c <= e.codepoint
    BY <1>3, <1>6, <2>1 DEF Bounded
  <2> HIDE DEF e
  <2>3. /\ Codes(t.merged) = Codes(s.merged) \cup {e.codepoint}
        /\ Sorted(t.merged) /\ Sized(t.merged)
    BY <1>0, <1>3, <1>6, <2>1, <2>2, Appended DEF e
  <2>4. Codes(t.merged) = Behind(old, new, t)
    <3>1. t.i = s.i + 1 /\ t.j = s.j + 1
      BY <1>6
    <3>2. Behind(old, new, t) = Behind(old, new, s) \cup {old[s.i].codepoint, new[s.j]}
      BY <1>0, <3>1, BehindGrows
    <3>3. {old[s.i].codepoint, new[s.j]} = {e.codepoint}
      BY <1>6, <2>1
    <3> QED
      BY <1>3, <2>3, <3>2, <3>3
  <2>5. Bounded(old, new, t)
    <3>1. ASSUME t.i <= Len(old) PROVE \A c \in Codes(t.merged) : c <= old[t.i].codepoint
      <4>1. t.i \in 1..Len(old) /\ e.codepoint <= old[t.i].codepoint
        BY <1>0, <1>4, <1>6, <2>1, <3>1
      <4> QED
        BY <1>1, <1>2, <2>1, <2>2, <2>3, <4>1
    <3>2. ASSUME t.j <= Len(new) PROVE \A c \in Codes(t.merged) : c <= new[t.j]
      <4>1. t.j \in 1..Len(new) /\ e.codepoint <= new[t.j]
        BY <1>0, <1>4, <1>6, <2>1, <3>2
      <4> QED
        BY <1>1, <1>2, <2>1, <2>2, <2>3, <4>1
    <3> QED
      BY <3>1, <3>2 DEF Bounded
  <2>6. Progress(old, new, k, t)
    <3>1. t.i = s.i + 1 /\ t.j = s.j + 1 /\ s.i <= Len(old) /\ s.j <= Len(new)
      BY <1>6
    <3>2. s.i + s.j >= (k - 1) + 2
      BY <1>0, <1>3, <3>1 DEF Progress
    <3>3. t.i + t.j >= k + 2 /\ t.i <= Len(old) + 1 /\ t.j <= Len(new) + 1
      <4>1. (s.i + s.j) + 1 >= k + 2
        BY <1>9, <3>2
      <4>2. t.i + t.j >= (s.i + s.j) + 1
        BY <1>9, <3>1
      <4>3. t.i <= Len(old) + 1 /\ t.j <= Len(new) + 1
        BY <1>9, <3>1, <3>2
      <4>4. t.i \in Nat /\ t.j \in Nat /\ s.i + s.j \in Nat
        BY <1>9, <3>1
      <4> QED
        BY <1>9, <4>1, <4>2, <4>3, <4>4
    <3> QED
      BY <3>3 DEF Progress
  <2> QED
    BY <2>3, <2>4, <2>5, <2>6 DEF Merging
<1>7. CASE /\ s.j <= Len(new) /\ (s.i > Len(old) \/ new[s.j] < old[s.i].codepoint)
           /\ t.i = s.i /\ t.j = s.j + 1 /\ t.merged = Append(s.merged, Entry(new[s.j]))
  <2> DEFINE e == Entry(new[s.j])
  <2>1. s.j \in 1..Len(new) /\ e \in GlyphEntry /\ e.codepoint \in Nat
        /\ e.codepoint = new[s.j] /\ e.dataSize = DataSize[e.codepoint]
    BY <1>0, <1>1, <1>7
  <2>2. \A c \in Codes(s.merged) : c <= e.codepoint
    BY <1>3, <1>7, <2>1 DEF Bounded
  <2> HIDE DEF e
  <2>3. /\ Codes(t.merged) = Codes(s.merged) \cup {e.codepoint}
        /\ Sorted(t.merged) /\ Sized(t.merged)
    BY <1>0, <1>3, <1>7, <2>1, <2>2, Appended DEF e
  <2>4. Codes(t.merged) = Behind(old, new, t)
    <3>1. t.i = s.i /\ t.j = s.j + 1
      BY <1>7
    <3>2. Behind(old, new, t) = Behind(old, new, s) \cup {new[s.j]}
      BY <1>0, <3>1, BehindGrows
    <3>3. {new[s.j]} = {e.codepoint}
      BY <1>7, <2>1
    <3> QED
      BY <1>3, <2>3, <3>2, <3>3
  <2>5. Bounded(old, new, t)
    <3>1. ASSUME t.i <= Len(old) PROVE \A c \in Codes(t.merged) : c <= old[t.i].codepoint
      <4>1. t.i \in 1..Len(old) /\ e.codepoint < old[t.i].codepoint
        BY <1>0, <1>7, <2>1, <3>1
      <4> QED
        BY <1>1, <1>2, <2>1, <2>2, <2>3, <4>1
    <3>2. ASSUME t.j <= Len(new) PROVE \A c \in Codes(t.merged) : c <= new[t.j]
      <4>1. t.j \in 1..Len(new) /\ e.codepoint <= new[t.j]
        BY <1>0, <1>4, <1>7, <2>1, <3>2
      <4> QED
        BY <1>1, <1>2, <2>1, <2>2, <2>3, <4>1
    <3> QED
      BY <3>1, <3>2 DEF Bounded
  <2>6. Progress(old, new, k, t)
    <3>1. t.i = s.i /\ t.j = s.j + 1 /\ s.j <= Len(new)
      BY <1>7
    <3>2. s.i <= Len(old) + 1 /\ s.i + s.j >= (k - 1) + 2
      BY <1>0, <1>3, <3>1 DEF Progress
    <3>3. t.i + t.j >= k + 2 /\ t.i <= Len(old) + 1 /\ t.j <= Len(new) + 1
      <4>1. (s.i + s.j) + 1 >= k + 2
        BY <1>9, <3>2
      <4>2. t.i + t.j >= (s.i + s.j) + 1
        BY <1>9, <3>1
      <4>3. t.i <= Len(old) + 1 /\ t.j <= Len(new) + 1
        BY <1>9, <3>1, <3>2
      <4>4. t.i \in Nat /\ t.j \in Nat /\ s.i + s.j \in Nat
        BY <1>9, <3>1
      <4> QED
        BY <1>9, <4>1, <4>2, <4>3, <4>4
    <3> QED
      BY <3>3 DEF Progress
  <2> QED
    BY <2>3, <2>4, <2>5, <2>6 DEF Merging
<1>8. CASE s.i > Len(old) /\ s.j > Len(new) /\ t = s
  <2>1. Progress(old, new, k, t)
    BY <1>0, <1>3, <1>8 DEF Progress
  <2> QED
    BY <1>3, <1>8, <2>1 DEF Merging
<1> QED
    BY <1>5, <1>6, <1>7, <1>8, Rounds

\* Merge gives the glyphs of the file and the pending ones, sorted, each with
\* the size of its data.
LEMMA MergeResult ==
    ASSUME NEW old \in Seq(GlyphEntry), NEW new \in Seq(Codepoints),
           Sorted(old), Sized(old), Ascending(new)
    PROVE  /\ Merge(old, new) \in Seq(GlyphEntry)
           /\ Sorted(Merge(old, new)) /\ Sized(Merge(old, new))
           /\ Codes(Merge(old, new)) = Codes(old) \cup ToSet(new)
<1> DEFINE N == Len(old) + Len(new)
<1>1. PICK loop \in [0..N -> LoopState] :
              /\ loop[0] = LoopStart
              /\ \A k \in 1..N : loop[k] = Round(old, new, loop[k - 1])
              /\ Merge(old, new) = loop[N].merged
    BY Loop
<1>2. N \in Nat /\ Len(old) \in Nat /\ Len(new) \in Nat
      /\ DOMAIN old = 1..Len(old) /\ DOMAIN new = 1..Len(new)
    OBVIOUS
<1> DEFINE S == {k \in 0..N : Merging(old, new, k, loop[k])}
<1>3. 0 \in S
  <2>1. LoopStart.i = 1 /\ LoopStart.j = 1 /\ LoopStart.merged = <<>>
    BY DEF LoopStart
  <2>2. Codes(LoopStart.merged) = {} /\ Sorted(LoopStart.merged) /\ Sized(LoopStart.merged)
    BY <2>1 DEF Codes, Sorted, Sized
  <2>3. Behind(old, new, LoopStart) = {}
    BY <2>1 DEF Behind
  <2>4. Progress(old, new, 0, LoopStart)
    BY <1>2, <2>1 DEF Progress
  <2>5. Bounded(old, new, LoopStart)
    BY <2>2 DEF Bounded
  <2> QED
    BY <1>1, <1>2, <2>2, <2>3, <2>4, <2>5 DEF Merging
<1>4. ASSUME NEW k \in 1..N, k - 1 \in S PROVE k \in S
  <2>1. k \in Nat \ {0} /\ k \in 0..N /\ k - 1 \in 0..N
    BY <1>2
  <2>2. loop[k - 1] \in LoopState /\ Merging(old, new, k - 1, loop[k - 1])
    BY <1>1, <1>4, <2>1
  <2>3. loop[k] = Round(old, new, loop[k - 1])
    BY <1>1
  <2>4. Merging(old, new, k, loop[k])
    BY <2>1, <2>2, <2>3, RoundKeeps
  <2> QED
    BY <2>1, <2>4
<1>5. 0..N \subseteq S
  <2> HIDE DEF S, N
  <2> QED
    BY <1>2, <1>3, <1>4, InductiveUpTo
<1> DEFINE s == loop[N]
<1>6. s \in LoopState /\ Merging(old, new, N, s) /\ Merge(old, new) = s.merged
    BY <1>1, <1>2, <1>5
<1> HIDE DEF s, S
<1>7. s.i \in Nat /\ s.j \in Nat /\ s.merged \in Seq(GlyphEntry)
    BY <1>6 DEF LoopState
<1>8. s.i = Len(old) + 1 /\ s.j = Len(new) + 1
  <2>1. Progress(old, new, N, s)
    BY <1>6 DEF Merging
  <2> QED
    BY <1>2, <1>7, <2>1 DEF Progress
<1>9. Behind(old, new, s) = Codes(old) \cup ToSet(new)
  <2>1. s.i - 1 = Len(old) /\ s.j - 1 = Len(new)
    BY <1>2, <1>8
  <2> QED
    BY <1>2, <2>1 DEF Behind, Codes, ToSet
<1> QED
    BY <1>6, <1>7, <1>9 DEF Merging

-------------------------------------------------------------------------------
(* Offsets and payload.                                                    *)

\* totalPayloadSize adds up: each end is the one before and the size between.
LEMMA EndsAddUp ==
    ASSUME NEW entries \in Seq(GlyphEntry)
    PROVE  /\ Ends(entries) \in [0..Len(entries) -> Nat]
           /\ Ends(entries)[0] = 0
           /\ \A i \in 1..Len(entries) :
                Ends(entries)[i] = Ends(entries)[i - 1] + entries[i].dataSize
<1> DEFINE N == Len(entries)
           size == [i \in 1..N |-> entries[i].dataSize]
           G == [p \in Nat \X Nat |-> IF p[1] \in 1..N THEN p[2] + size[p[1]] ELSE 0]
           R(g) == [i \in 0..N |-> IF i = 0 THEN 0 ELSE g[i - 1] + entries[i].dataSize]
           E == CHOOSE g : g = R(g)
<1>1. N \in Nat /\ \A i \in 1..N : entries[i].dataSize \in Nat
  <2>1. \A e \in GlyphEntry : e.dataSize \in Nat
    BY DEF GlyphEntry
  <2> QED
    BY <2>1
<1>2. G \in [Nat \X Nat -> Nat]
  <2>1. \A i \in 1..N : size[i] \in Nat
    BY <1>1
  <2> HIDE DEF size, N
  <2> QED
    BY <2>1
<1>3. PICK f \in [0..N -> Nat] : f[0] = 0 /\ \A i \in 1..N : f[i] = G[<<i, f[i - 1]>>]
  <2> HIDE DEF G, N
  <2>1. \E f : f \in Recursive(N, Nat, 0, G)
    BY <1>1, <1>2, Recursion
  <2> QED
    BY <2>1 DEF Recursive
<1>4. \A i \in 1..N : f[i] = f[i - 1] + entries[i].dataSize
  <2> TAKE i \in 1..N
  <2>1. i - 1 \in 0..N /\ i \in Nat
    BY <1>1
  <2>2. f[i - 1] \in Nat /\ size[i] = entries[i].dataSize
    BY <1>3, <2>1
  <2>3. f[i] = G[<<i, f[i - 1]>>]
    BY <1>3
  <2> HIDE DEF size, N
  <2> QED
    BY <2>1, <2>2, <2>3
<1>5. f = R(f)
    BY <1>3, <1>4
<1>6. E = R(E)
  <2> HIDE DEF R
  <2> QED
    BY <1>5, Zenon
<1>7. Ends(entries) = E
    BY Zenon DEF Ends
<1> HIDE DEF E
<1>8. E[0] = 0 /\ \A i \in 1..N : E[i] = E[i - 1] + entries[i].dataSize
    BY <1>1, <1>6
<1> DEFINE S == {i \in 0..N : E[i] \in Nat}
<1>9. 0..N \subseteq S
  <2>1. 0 \in S
    BY <1>1, <1>8
  <2>2. ASSUME NEW i \in 1..N, i - 1 \in S PROVE i \in S
    <3>1. E[i] = E[i - 1] + entries[i].dataSize /\ entries[i].dataSize \in Nat /\ E[i - 1] \in Nat
      BY <1>1, <1>8, <2>2
    <3> QED
      BY <1>1, <3>1
  <2> HIDE DEF S, N
  <2> QED
    BY <1>1, <2>1, <2>2, InductiveUpTo
<1>10. E = [i \in 0..N |-> E[i]]
    BY <1>6
<1>11. E \in [0..N -> Nat]
    BY <1>9, <1>10
<1> QED
    BY <1>7, <1>8, <1>11

Bytes == (Codepoints \X Nat) \cup {Zero}

\* Drawn pixels are bytes of the payload.
LEMMA PixelsTyped ==
    ASSUME NEW cp \in Codepoints
    PROVE  /\ Pixels(cp) \in Seq(Bytes) /\ Len(Pixels(cp)) = DataSize[cp]
           /\ \A n \in 1..DataSize[cp] : Pixels(cp)[n] = <<cp, n>>
<1>1. DataSize[cp] \in Nat
    BY CodepointsAreNumbers
<1>2. \A n \in 1..DataSize[cp] : <<cp, n>> \in Bytes
    BY <1>1 DEF Bytes
<1> QED
    BY <1>1, <1>2 DEF Pixels

\* Every glyph's pixels are at the end of those of the entries before it.
PixelsAt(entries, end, payload) ==
    \A i \in 1..Len(entries) : \A n \in 1..entries[i].dataSize :
        /\ end[i - 1] + n <= Len(payload)
        /\ payload[end[i - 1] + n] = <<entries[i].codepoint, n>>

\* Where every source has its glyph's pixels, the payload has them at the
\* glyph's offset.
LEMMA CopiedInPlace ==
    ASSUME NEW file, NEW new, NEW entries \in Seq(GlyphEntry), Sized(entries),
           NEW end \in [0..Len(entries) -> Nat], end[0] = 0,
           \A i \in 1..Len(entries) : end[i] = end[i - 1] + entries[i].dataSize,
           \A i \in 1..Len(entries) :
                Source(file, new, entries[i]) = Pixels(entries[i].codepoint),
           NEW payload, payload = Copied(file, new, entries)[Len(entries)]
    PROVE  payload \in Seq(Bytes) /\ PixelsAt(entries, end, payload)
<1> DEFINE N == Len(entries)
           G == [p \in Nat \X Seq(Bytes) |->
                   IF p[1] \in 1..N THEN p[2] \o Pixels(entries[p[1]].codepoint) ELSE <<>>]
           R(g) == [i \in 0..N |-> IF i = 0 THEN <<>>
                                   ELSE g[i - 1] \o Source(file, new, entries[i])]
           C == CHOOSE g : g = R(g)
<1>1. /\ N \in Nat
      /\ \A i \in 1..N : /\ entries[i].codepoint \in Codepoints
                         /\ entries[i].dataSize \in Nat
                         /\ entries[i].dataSize = DataSize[entries[i].codepoint]
  <2>1. \A e \in GlyphEntry : e.codepoint \in Codepoints /\ e.dataSize \in Nat
    BY DEF GlyphEntry
  <2>2. \A i \in 1..N : entries[i] \in GlyphEntry
    OBVIOUS
  <2>3. DOMAIN entries = 1..N /\ N \in Nat
    OBVIOUS
  <2> QED
    BY <2>1, <2>2, <2>3 DEF Sized
<1>2. \A i \in 1..N : /\ Pixels(entries[i].codepoint) \in Seq(Bytes)
                      /\ Len(Pixels(entries[i].codepoint)) = entries[i].dataSize
                      /\ \A n \in 1..entries[i].dataSize :
                            Pixels(entries[i].codepoint)[n] = <<entries[i].codepoint, n>>
    BY <1>1, PixelsTyped
<1>3. G \in [Nat \X Seq(Bytes) -> Seq(Bytes)]
  <2>1. \A p \in Nat \X Seq(Bytes) : p[2] \in Seq(Bytes)
    OBVIOUS
  <2>2. ASSUME NEW p \in Nat \X Seq(Bytes), p[1] \in 1..N
        PROVE  p[2] \o Pixels(entries[p[1]].codepoint) \in Seq(Bytes)
    <3>1. Pixels(entries[p[1]].codepoint) \in Seq(Bytes)
      BY <1>2, <2>2
    <3> HIDE DEF N
    <3> QED
      BY <2>1, <3>1, ConcatProperties
  <2>3. <<>> \in Seq(Bytes)
    OBVIOUS
  <2>4. \A p \in Nat \X Seq(Bytes) :
          (IF p[1] \in 1..N THEN p[2] \o Pixels(entries[p[1]].codepoint) ELSE <<>>) \in Seq(Bytes)
    BY <2>2, <2>3
  <2> QED
    BY <2>4, Zenon
<1>4. PICK f \in [0..N -> Seq(Bytes)] : f[0] = <<>> /\ \A i \in 1..N : f[i] = G[<<i, f[i - 1]>>]
  <2>1. <<>> \in Seq(Bytes)
    OBVIOUS
  <2> HIDE DEF G, N
  <2>2. \E f : f \in Recursive(N, Seq(Bytes), <<>>, G)
    BY <1>1, <1>3, <2>1, Recursion
  <2> QED
    BY <2>2 DEF Recursive
<1>5. \A i \in 1..N : f[i] = f[i - 1] \o Source(file, new, entries[i])
  <2> TAKE i \in 1..N
  <2>1. i - 1 \in 0..N /\ i \in Nat
    BY <1>1
  <2>2. <<i, f[i - 1]>> \in Nat \X Seq(Bytes)
    BY <1>4, <2>1
  <2>3. f[i] = G[<<i, f[i - 1]>>]
    BY <1>4
  <2>4. G[<<i, f[i - 1]>>] = f[i - 1] \o Pixels(entries[i].codepoint)
    BY <2>2
  <2> QED
    BY <2>3, <2>4
<1>6. f = R(f)
  <2>1. ASSUME NEW i \in 0..N PROVE f[i] = R(f)[i]
    <3>1. R(f)[i] = IF i = 0 THEN <<>> ELSE f[i - 1] \o Source(file, new, entries[i])
      OBVIOUS
    <3>2. CASE i = 0
      BY <1>4, <3>1, <3>2
    <3>3. CASE i # 0
      <4>1. i \in 1..N
        BY <1>1, <3>3
      <4>2. f[i] = f[i - 1] \o Source(file, new, entries[i])
        BY <1>5, <4>1
      <4> HIDE DEF R
      <4> QED
        BY <3>1, <3>3, <4>2, Zenon
    <3> QED
      BY <3>2, <3>3
  <2>2. f = [i \in 0..N |-> f[i]] /\ R(f) = [i \in 0..N |-> R(f)[i]]
    BY <1>4
  <2> QED
    BY <2>1, <2>2, Zenon
<1>7. C = R(C)
  <2> HIDE DEF R
  <2> QED
    BY <1>6, Zenon
<1>8. payload = C[N]
    BY Zenon DEF Copied
<1> HIDE DEF C, G
<1>9. C[0] = <<>> /\ \A i \in 1..N : C[i] = C[i - 1] \o Pixels(entries[i].codepoint)
  <2>1. \A i \in 0..N : C[i] = IF i = 0 THEN <<>> ELSE C[i - 1] \o Source(file, new, entries[i])
    BY <1>7
  <2>2. \A i \in 1..N :
            i \in 0..N /\ i # 0 /\ Source(file, new, entries[i]) = Pixels(entries[i].codepoint)
    BY <1>1
  <2>3. C[0] = <<>>
    BY <1>1, <2>1
  <2>4. ASSUME NEW i \in 1..N PROVE C[i] = C[i - 1] \o Pixels(entries[i].codepoint)
    <3>1. i \in 0..N /\ i # 0 /\ Source(file, new, entries[i]) = Pixels(entries[i].codepoint)
      BY <2>2
    <3> QED
      BY <2>1, <3>1, Zenon
  <2> QED
    BY <2>3, <2>4, Zenon
<1> DEFINE InPlace(m) ==
             /\ C[m] \in Seq(Bytes) /\ Len(C[m]) = end[m]
             /\ \A i \in 1..m : \A n \in 1..entries[i].dataSize :
                    /\ end[i - 1] + n <= end[m]
                    /\ C[m][end[i - 1] + n] = <<entries[i].codepoint, n>>
           S == {m \in 0..N : InPlace(m)}
<1>10. 0 \in S
  <2>1. C[0] \in Seq(Bytes) /\ Len(C[0]) = 0
    BY <1>9
  <2> QED
    BY <1>1, <2>1
<1>11. ASSUME NEW m \in 1..N, m - 1 \in S PROVE m \in S
  <2> DEFINE before == C[m - 1]
             own == Pixels(entries[m].codepoint)
  <2>1. InPlace(m - 1) /\ m - 1 \in 0..N
    BY <1>11
  <2>2. before \in Seq(Bytes) /\ Len(before) = end[m - 1] /\ end[m - 1] \in Nat
    BY <2>1
  <2>3. own \in Seq(Bytes) /\ Len(own) = entries[m].dataSize /\ entries[m].dataSize \in Nat
    BY <1>1, <1>2
  <2>4. C[m] = before \o own
    BY <1>9
  <2>5. end[m] = end[m - 1] + entries[m].dataSize
    OBVIOUS
  <2>6. \A n \in 1..entries[m].dataSize : own[n] = <<entries[m].codepoint, n>>
    BY <1>2
  <2>7. \A i \in 1..(m - 1) :
            i \in 1..N /\ i - 1 \in 0..N /\ end[i - 1] \in Nat /\ entries[i].dataSize \in Nat
    BY <1>1
  <2>8. \A i \in 1..(m - 1) : \A n \in 1..entries[i].dataSize :
           /\ end[i - 1] + n <= end[m - 1]
           /\ before[end[i - 1] + n] = <<entries[i].codepoint, n>>
    BY <2>1
  <2> HIDE DEF before, own, N
  <2>9. /\ C[m] \in Seq(Bytes) /\ Len(C[m]) = end[m]
        /\ \A x \in 1..end[m - 1] : C[m][x] = before[x]
        /\ \A n \in 1..entries[m].dataSize : C[m][end[m - 1] + n] = own[n]
    <3>1. /\ C[m] \in Seq(Bytes) /\ Len(C[m]) = Len(before) + Len(own)
          /\ \A x \in 1..(Len(before) + Len(own)) :
                C[m][x] = IF x <= Len(before) THEN before[x] ELSE own[x - Len(before)]
      <4> DEFINE both == before \o own
      <4>1. /\ both \in Seq(Bytes) /\ Len(both) = Len(before) + Len(own)
            /\ \A x \in 1..(Len(before) + Len(own)) :
                 both[x] = IF x <= Len(before) THEN before[x] ELSE own[x - Len(before)]
        BY <2>2, <2>3, ConcatProperties
      <4> HIDE DEF both
      <4> QED
        BY <2>4, <4>1 DEF both
    <3>2. \A x \in 1..end[m - 1] : x \in 1..(Len(before) + Len(own)) /\ x <= Len(before)
      BY <2>2, <2>3
    <3>3. \A n \in 1..entries[m].dataSize :
             /\ end[m - 1] + n \in 1..(Len(before) + Len(own)) /\ ~(end[m - 1] + n <= Len(before))
             /\ (end[m - 1] + n) - Len(before) = n
      BY <2>2, <2>3
    <3>4. Len(C[m]) = end[m]
      BY <2>2, <2>3, <2>5, <3>1
    <3>5. \A x \in 1..end[m - 1] : C[m][x] = before[x]
      BY <3>1, <3>2
    <3>6. \A n \in 1..entries[m].dataSize : C[m][end[m - 1] + n] = own[n]
      BY <3>1, <3>3
    <3> QED
      BY <3>1, <3>4, <3>5, <3>6
  <2>10. ASSUME NEW i \in 1..m, NEW n \in 1..entries[i].dataSize
         PROVE  end[i - 1] + n <= end[m] /\ C[m][end[i - 1] + n] = <<entries[i].codepoint, n>>
    <3>1. CASE i \in 1..(m - 1)
      <4>1. end[i - 1] + n <= end[m - 1] /\ before[end[i - 1] + n] = <<entries[i].codepoint, n>>
        BY <2>8, <3>1
      <4>4. end[i - 1] \in Nat /\ n \in Nat \ {0} /\ entries[i].dataSize \in Nat
        BY <2>7, <3>1
      <4>5. end[m - 1] \in Nat /\ end[m - 1] <= end[m] /\ end[m] \in Nat
        BY <2>2, <2>3, <2>5
      <4>2. end[i - 1] + n \in 1..end[m - 1] /\ n \in Nat
        BY <4>1, <4>4, <4>5
      <4>3. end[i - 1] + n <= end[m]
        BY <4>1, <4>4, <4>5
      <4> QED
        BY <2>9, <4>1, <4>2, <4>3
    <3>2. CASE i = m
      <4>1. n \in 1..entries[m].dataSize
        BY <3>2
      <4>2. end[m - 1] + n <= end[m]
        BY <2>2, <2>3, <2>5, <4>1
      <4> QED
        BY <2>6, <2>9, <3>2, <4>1, <4>2
    <3>3. m \in Nat
      BY <1>1
    <3> QED
      BY <3>1, <3>2, <3>3
  <2>11. InPlace(m)
    BY <2>9, <2>10
  <2>12. m \in 0..N
    BY <1>1
  <2> QED
    BY <2>11, <2>12
<1>12. 0..N \subseteq S
  <2> HIDE DEF S, N
  <2> QED
    BY <1>1, <1>10, <1>11, InductiveUpTo
<1>13. InPlace(N)
  <2> HIDE DEF InPlace, N
  <2> QED
    BY <1>1, <1>12
<1> QED
    BY <1>8, <1>13 DEF PixelsAt

-------------------------------------------------------------------------------
(* The hash table.                                                         *)

\* Max picks a greatest member.
LEMMA MaxOfUpTo ==
    ASSUME NEW n \in Nat, NEW X \in SUBSET (1..n)
    PROVE  /\ Max({0} \cup X) \in {0} \cup X
           /\ \A x \in X : x <= Max({0} \cup X)
<1> DEFINE T == {0} \cup X
<1>1. T \in SUBSET (0..n) /\ T # {}
    OBVIOUS
<1>2. \E m \in T : \A k \in T : k <= m
  <2> HIDE DEF T
  <2> QED
    BY <1>1, Greatest
<1>3. \E m \in T : \A k \in T : m >= k
    BY <1>1, <1>2
<1>4. Max(T) \in T /\ \A k \in T : Max(T) >= k
  <2> HIDE DEF T
  <2>1. Max(T) = CHOOSE m \in T : \A k \in T : m >= k
    BY DEF Max
  <2> QED
    BY <1>3, <2>1, Zenon
<1> QED
    BY <1>1, <1>4

\* The hash table has a cell for each remainder, naming an entry or none.
LEMMA HashTableTyped ==
    ASSUME NEW entries \in Seq(GlyphEntry), NEW h \in 0..(BLOCK_SIZE - 1)
    PROVE  /\ HashTable(entries)[h] \in 0..Len(entries)
           /\ HashTable(entries)[h] # 0
                => entries[HashTable(entries)[h]].codepoint % BLOCK_SIZE = h
           /\ \A i \in DOMAIN entries :
                entries[i].codepoint % BLOCK_SIZE = h => HashTable(entries)[h] # 0
<1> DEFINE X == {i \in DOMAIN entries : entries[i].codepoint % BLOCK_SIZE = h}
<1>1. Len(entries) \in Nat /\ DOMAIN entries = 1..Len(entries)
    OBVIOUS
<1>2. X \in SUBSET (1..Len(entries))
    BY <1>1
<1>3. HashTable(entries)[h] = Max({0} \cup X)
    BY DEF HashTable
<1>4. Max({0} \cup X) \in {0} \cup X /\ \A x \in X : x <= Max({0} \cup X)
  <2> HIDE DEF X
  <2> QED
    BY <1>1, <1>2, MaxOfUpTo
<1>5. PICK v : v = HashTable(entries)[h] /\ v \in {0} \cup X /\ \A x \in X : x <= v
    BY <1>3, <1>4
<1>6. v \in 0..Len(entries) /\ (v # 0 => entries[v].codepoint % BLOCK_SIZE = h)
    BY <1>1, <1>5
<1>7. \A i \in DOMAIN entries : entries[i].codepoint % BLOCK_SIZE = h => v # 0
  <2> SUFFICES ASSUME NEW i \in X PROVE v # 0
    OBVIOUS
  <2>1. i \in 1..Len(entries) /\ i <= v
    BY <1>1, <1>5
  <2> QED
    BY <2>1
<1> QED
    BY <1>5, <1>6, <1>7

-------------------------------------------------------------------------------
(* A block's file.                                                         *)

\* Every entry's data is where the entry says.
DataInPlace(file) ==
    \A i \in DOMAIN file.entries : \A n \in 1..file.entries[i].dataSize :
        /\ file.entries[i].dataOffset + n <= Len(file.payload)
        /\ file.payload[file.entries[i].dataOffset + n] = <<file.entries[i].codepoint, n>>

\* What the next merge and a reader rely on.
FileOK(b, file) ==
    /\ file \in BlockFile
    /\ Len(file.entries) <= BLOCK_SIZE
    /\ Sorted(file.entries) /\ Sized(file.entries)
    /\ \A c \in Codes(file.entries) : GetBlockId(c) = b
    /\ file.hashTable = HashTable(file.entries)
    /\ DataInPlace(file)

\* A file in order is of its type.
LEMMA FileTyped ==
    ASSUME NEW file \in BlockFile
    PROVE  /\ file.entries \in Seq(GlyphEntry)
           /\ Len(file.entries) \in Nat /\ DOMAIN file.entries = 1..Len(file.entries)
           /\ \A i \in DOMAIN file.entries :
                /\ file.entries[i] \in GlyphEntry /\ file.entries[i].codepoint \in Codepoints
                /\ file.entries[i].codepoint \in Nat
                /\ file.entries[i].dataOffset \in Nat /\ file.entries[i].dataSize \in Nat
           /\ \A c \in Codes(file.entries) : c \in Codepoints /\ c \in Nat
<1>1. file.entries \in Seq(GlyphEntry)
    BY DEF BlockFile
<1>2. Len(file.entries) \in Nat /\ DOMAIN file.entries = 1..Len(file.entries)
    BY <1>1
<1>3. \A i \in DOMAIN file.entries : file.entries[i] \in GlyphEntry
    BY <1>1
<1>4. \A e \in GlyphEntry : /\ e.codepoint \in Codepoints /\ e.codepoint \in Nat
                            /\ e.dataOffset \in Nat /\ e.dataSize \in Nat
    BY CodepointsAreNumbers DEF GlyphEntry
<1> QED
    BY <1>1, <1>2, <1>3, <1>4 DEF Codes

\* Each glyph of a block has a cell of its own in the hash table: the glyphs of
\* a block differ in it, so Lookup finds an entry of the glyph.
LEMMA LookupFinds ==
    ASSUME NEW b, NEW file, FileOK(b, file), NEW c \in Codes(file.entries)
    PROVE  /\ Lookup(file, c) \in DOMAIN file.entries /\ Lookup(file, c) # 0
           /\ file.entries[Lookup(file, c)].codepoint = c
<1> DEFINE h == c % BLOCK_SIZE
           i == HashTable(file.entries)[h]
<1>1. file \in BlockFile /\ c \in Nat /\ file.hashTable = HashTable(file.entries)
    BY FileTyped DEF FileOK
<1>2. h \in 0..(BLOCK_SIZE - 1)
    BY <1>1, CodepointsAreNumbers
<1>3. PICK k \in DOMAIN file.entries : file.entries[k].codepoint = c
    BY DEF Codes
<1>4. /\ file.entries \in Seq(GlyphEntry) /\ Len(file.entries) \in Nat
      /\ DOMAIN file.entries = 1..Len(file.entries)
    BY <1>1, FileTyped
<1>5. i \in 1..Len(file.entries) /\ file.entries[i].codepoint % BLOCK_SIZE = h
  <2> HIDE DEF h
  <2>1. /\ i \in 0..Len(file.entries)
        /\ i # 0 => file.entries[i].codepoint % BLOCK_SIZE = h
        /\ \A m \in DOMAIN file.entries : file.entries[m].codepoint % BLOCK_SIZE = h => i # 0
    BY <1>2, <1>4, HashTableTyped
  <2>2. file.entries[k].codepoint % BLOCK_SIZE = h
    BY <1>3 DEF h
  <2> HIDE DEF i
  <2>3. i # 0
    BY <1>3, <2>1, <2>2
  <2> QED
    BY <1>4, <2>1, <2>3
<1>6. file.entries[i].codepoint = c
  <2> DEFINE d == file.entries[i].codepoint
  <2>1. d \in Codes(file.entries)
    BY <1>4, <1>5 DEF Codes
  <2>2. d \in Nat /\ GetBlockId(d) = b /\ GetBlockId(c) = b
    BY <1>1, <2>1, FileTyped DEF FileOK
  <2>3. d % BLOCK_SIZE = c % BLOCK_SIZE
    BY <1>5
  <2> HIDE DEF d
  <2>4. d \div BLOCK_SIZE = c \div BLOCK_SIZE
    BY <2>2 DEF GetBlockId
  <2>5. d = c
    BY <1>1, <2>2, <2>3, <2>4, CodepointsAreNumbers
  <2> QED
    BY <2>5 DEF d
<1>7. Lookup(file, c) = i
  <2>1. i # 0 /\ i <= Len(file.entries)
    BY <1>4, <1>5
  <2> QED
    BY <1>1, <1>6, <2>1 DEF Lookup
<1> QED
    BY <1>4, <1>5, <1>6, <1>7

\* What LoadGlyph reads of an entry is what was drawn.
LEMMA SliceIsPixels ==
    ASSUME NEW b, NEW file, FileOK(b, file), NEW i \in DOMAIN file.entries
    PROVE  Slice(file, file.entries[i].dataOffset, file.entries[i].dataSize)
             = Pixels(file.entries[i].codepoint)
<1> DEFINE e == file.entries[i]
<1>1. /\ DataInPlace(file) /\ e.dataSize = DataSize[e.codepoint]
    BY DEF FileOK, Sized
<1>2. \A n \in 1..e.dataSize : /\ e.dataOffset + n <= Len(file.payload)
                               /\ file.payload[e.dataOffset + n] = <<e.codepoint, n>>
    BY <1>1 DEF DataInPlace
<1> HIDE DEF e
<1>3. Slice(file, e.dataOffset, e.dataSize) = [n \in 1..e.dataSize |-> <<e.codepoint, n>>]
    BY <1>2 DEF Slice
<1> QED
    BY <1>1, <1>3 DEF e, Pixels

\* A block with no file is in order.
LEMMA NoFileOK == ASSUME NEW b PROVE FileOK(b, NoFile) /\ NoFile.entries = <<>>
<1>1. NoFile.entries = <<>> /\ NoFile.payload = <<>>
      /\ NoFile.hashTable = [h \in 0..(BLOCK_SIZE - 1) |-> 0]
    BY DEF NoFile
<1>2. <<>> \in Seq(GlyphEntry) /\ Len(<<>>) = 0 /\ DOMAIN <<>> = {}
    OBVIOUS
<1>3. NoFile \in BlockFile
    BY CodepointsAreNumbers DEF NoFile, BlockFile
<1>4. HashTable(<<>>) = [h \in 0..(BLOCK_SIZE - 1) |-> 0]
  <2>1. \A h \in 0..(BLOCK_SIZE - 1) : HashTable(<<>>)[h] = 0
    <3> TAKE h \in 0..(BLOCK_SIZE - 1)
    <3>1. HashTable(<<>>)[h] \in 0..0
      BY <1>2, HashTableTyped
    <3> QED
      BY <3>1
  <2>2. HashTable(<<>>) = [h \in 0..(BLOCK_SIZE - 1) |-> HashTable(<<>>)[h]]
    BY DEF HashTable
  <2> QED
    BY <2>1, <2>2
<1>5. 0 <= BLOCK_SIZE
    BY CodepointsAreNumbers
<1> QED
    BY <1>1, <1>2, <1>3, <1>4, <1>5 DEF FileOK, Sorted, Sized, Codes, DataInPlace

-------------------------------------------------------------------------------
(* WriteBlockFile.                                                         *)

\* A merged entry's pixels come from the pending glyph, or from the file, which
\* has them: whichever source is taken, they are those that were drawn.
LEMMA SourceIsPixels ==
    ASSUME NEW b, NEW file, FileOK(b, file), NEW new \in Seq(Codepoints),
           NEW e \in GlyphEntry, e.dataSize = DataSize[e.codepoint],
           e.codepoint \in Codes(file.entries) \cup ToSet(new)
    PROVE  Source(file, new, e) = Pixels(e.codepoint)
<1> DEFINE i == Lookup(file, e.codepoint)
<1>1. Contains(new, e.codepoint) <=> e.codepoint \in ToSet(new)
    BY DEF Contains, ToSet
<1>2. CASE Contains(new, e.codepoint)
    BY <1>2 DEF Source
<1>3. CASE ~Contains(new, e.codepoint)
  <2>1. e.codepoint \in Codes(file.entries)
    BY <1>1, <1>3
  <2>2. i \in DOMAIN file.entries /\ i # 0 /\ file.entries[i].codepoint = e.codepoint
    BY <2>1, LookupFinds
  <2>3. Slice(file, file.entries[i].dataOffset, file.entries[i].dataSize) = Pixels(e.codepoint)
    BY <2>2, SliceIsPixels
  <2>4. e.dataSize = file.entries[i].dataSize
    BY <2>2 DEF FileOK, Sized
  <2>5. Source(file, new, e) = Slice(file, file.entries[i].dataOffset, e.dataSize)
    <3>1. i # 0
      BY <2>2
    <3> QED
      BY <1>3, <3>1, Zenon DEF Source
  <2> QED
    BY <2>3, <2>4, <2>5
<1> QED
    BY <1>2, <1>3

\* Laying out changes the offsets only.
LEMMA LaidOut ==
    ASSUME NEW m \in Seq(GlyphEntry)
    PROVE  /\ Laid(m) \in Seq(GlyphEntry) /\ Len(Laid(m)) = Len(m)
           /\ \A i \in 1..Len(m) : /\ Laid(m)[i].codepoint = m[i].codepoint
                                   /\ Laid(m)[i].dataSize = m[i].dataSize
                                   /\ Laid(m)[i].dataOffset = Ends(m)[i - 1]
           /\ Codes(Laid(m)) = Codes(m)
           /\ Sorted(m) => Sorted(Laid(m))
           /\ Sized(m) => Sized(Laid(m))
<1>1. Len(m) \in Nat /\ DOMAIN m = 1..Len(m)
    OBVIOUS
<1>2. \A i \in 1..Len(m) : Ends(m)[i - 1] \in Nat
  <2>1. \A i \in 1..Len(m) : i - 1 \in 0..Len(m)
    BY <1>1
  <2> QED
    BY <2>1, EndsAddUp
<1>3. \A i \in 1..Len(m) :
        /\ [m[i] EXCEPT !.dataOffset = Ends(m)[i - 1]] \in GlyphEntry
        /\ [m[i] EXCEPT !.dataOffset = Ends(m)[i - 1]].codepoint = m[i].codepoint
        /\ [m[i] EXCEPT !.dataOffset = Ends(m)[i - 1]].dataSize = m[i].dataSize
        /\ [m[i] EXCEPT !.dataOffset = Ends(m)[i - 1]].dataOffset = Ends(m)[i - 1]
  <2>1. ASSUME NEW e \in GlyphEntry, NEW o \in Nat
        PROVE  /\ [e EXCEPT !.dataOffset = o] \in GlyphEntry
               /\ [e EXCEPT !.dataOffset = o].codepoint = e.codepoint
               /\ [e EXCEPT !.dataOffset = o].dataSize = e.dataSize
               /\ [e EXCEPT !.dataOffset = o].dataOffset = o
    BY DEF GlyphEntry
  <2>2. \A i \in 1..Len(m) : m[i] \in GlyphEntry
    OBVIOUS
  <2> QED
    BY <1>2, <2>1, <2>2
<1>4. Laid(m) = [i \in 1..Len(m) |-> [m[i] EXCEPT !.dataOffset = Ends(m)[i - 1]]]
    BY <1>1 DEF Laid
<1>5. \A i \in 1..Len(m) : Laid(m)[i] = [m[i] EXCEPT !.dataOffset = Ends(m)[i - 1]]
    BY <1>4
<1>6. Laid(m) \in Seq(GlyphEntry) /\ Len(Laid(m)) = Len(m) /\ DOMAIN Laid(m) = 1..Len(m)
  <2>1. \A i \in 1..Len(m) : Laid(m)[i] \in GlyphEntry
    BY <1>3, <1>5, Zenon
  <2>2. Laid(m) = [i \in 1..Len(m) |-> Laid(m)[i]]
    BY <1>4, <1>5, Zenon
  <2>3. Laid(m) \in [1..Len(m) -> GlyphEntry]
    BY <2>1, <2>2, Zenon
  <2> QED
    BY <1>1, <2>3
<1>7. \A i \in 1..Len(m) : /\ Laid(m)[i].codepoint = m[i].codepoint
                           /\ Laid(m)[i].dataSize = m[i].dataSize
                           /\ Laid(m)[i].dataOffset = Ends(m)[i - 1]
    BY <1>3, <1>5, Zenon
<1> QED
    BY <1>1, <1>6, <1>7 DEF Codes, Sorted, Sized

\* A written block is in order if the one it was merged into was.
LEMMA WrittenOK ==
    ASSUME NEW b, NEW file, FileOK(b, file),
           NEW new \in Seq(Codepoints), Ascending(new),
           \A cp \in ToSet(new) : GetBlockId(cp) = b,
           Len(Merge(file.entries, new)) <= BLOCK_SIZE
    PROVE  /\ FileOK(b, Written(file, new))
           /\ Codes(Written(file, new).entries) = Codes(file.entries) \cup ToSet(new)
<1> DEFINE m == Merge(file.entries, new)
           E == Laid(m)
           end == Ends(m)
           W == Written(file, new)
<1>1. file.entries \in Seq(GlyphEntry) /\ Sorted(file.entries) /\ Sized(file.entries)
    BY FileTyped DEF FileOK
<1>2. /\ m \in Seq(GlyphEntry) /\ Sorted(m) /\ Sized(m)
      /\ Codes(m) = Codes(file.entries) \cup ToSet(new)
    BY <1>1, MergeResult
<1> HIDE DEF m
<1>3. /\ E \in Seq(GlyphEntry) /\ Len(E) = Len(m) /\ DOMAIN E = 1..Len(m) /\ Len(m) \in Nat
      /\ \A i \in 1..Len(m) : E[i].dataSize = m[i].dataSize /\ E[i].dataOffset = end[i - 1]
      /\ Codes(E) = Codes(m) /\ Sorted(E) /\ Sized(E)
  <2>1. Len(E) = Len(m) /\ E \in Seq(GlyphEntry)
    BY <1>2, LaidOut
  <2>2. DOMAIN E = 1..Len(E) /\ Len(E) \in Nat
    BY <2>1
  <2> QED
    BY <1>2, <2>1, <2>2, LaidOut
<1>4. /\ end \in [0..Len(E) -> Nat] /\ end[0] = 0
      /\ \A i \in 1..Len(E) : end[i] = end[i - 1] + E[i].dataSize
    BY <1>2, <1>3, EndsAddUp
<1> HIDE DEF E, end
<1>5. /\ W.entries = E /\ W.hashTable = HashTable(E) /\ W.payload = Copied(file, new, E)[Len(E)]
      /\ W = [entries |-> E, hashTable |-> HashTable(E), payload |-> W.payload]
    BY DEF Written, m, E
<1>6. \A i \in 1..Len(E) : Source(file, new, E[i]) = Pixels(E[i].codepoint)
  <2> TAKE i \in 1..Len(E)
  <2>1. /\ E[i] \in GlyphEntry /\ E[i].codepoint \in Codes(E)
        /\ E[i].dataSize = DataSize[E[i].codepoint]
    <3>1. E[i] \in GlyphEntry /\ i \in DOMAIN E
      BY <1>3
    <3> QED
      BY <1>3, <3>1 DEF Codes, Sized
  <2>2. E[i].codepoint \in Codes(file.entries) \cup ToSet(new)
    BY <1>2, <1>3, <2>1
  <2> QED
    BY <2>1, <2>2, SourceIsPixels
<1>7. W.payload \in Seq(Bytes) /\ PixelsAt(E, end, W.payload)
  <2>1. W.payload = Copied(file, new, E)[Len(E)] /\ E \in Seq(GlyphEntry) /\ Sized(E)
    BY <1>3, <1>5
  <2> HIDE DEF W
  <2> QED
    BY <2>1, <1>4, <1>6, CopiedInPlace
<1>8. HashTable(E) \in [0..(BLOCK_SIZE - 1) -> 0..BLOCK_SIZE]
  <2>1. \A h \in 0..(BLOCK_SIZE - 1) : HashTable(E)[h] \in 0..BLOCK_SIZE
    <3> TAKE h \in 0..(BLOCK_SIZE - 1)
    <3>1. HashTable(E)[h] \in 0..Len(E)
      BY <1>3, HashTableTyped
    <3>2. Len(E) <= BLOCK_SIZE /\ Len(E) \in Nat /\ BLOCK_SIZE \in Nat
      BY <1>3, CodepointsAreNumbers DEF m
    <3> QED
      BY <3>1, <3>2
  <2>2. HashTable(E) = [h \in 0..(BLOCK_SIZE - 1) |-> HashTable(E)[h]]
    BY DEF HashTable
  <2> QED
    BY <2>1, <2>2
<1> HIDE DEF W
<1>9. W \in BlockFile
  <2>1. W.payload \in Seq((Codepoints \X Nat) \cup {Zero})
    BY <1>7 DEF Bytes
  <2> QED
    BY <1>3, <1>5, <1>8, <2>1 DEF BlockFile
<1>10. DataInPlace(W)
  <2>1. \A i \in DOMAIN E : i \in 1..Len(E) /\ E[i].dataOffset = end[i - 1]
    BY <1>3
  <2>2. \A i \in DOMAIN E : \A n \in 1..E[i].dataSize :
           /\ E[i].dataOffset + n <= Len(W.payload)
           /\ W.payload[E[i].dataOffset + n] = <<E[i].codepoint, n>>
    BY <1>7, <2>1 DEF PixelsAt
  <2> QED
    BY <1>5, <2>2 DEF DataInPlace
<1>11. \A c \in Codes(W.entries) : GetBlockId(c) = b
  <2>1. \A c \in Codes(file.entries) : GetBlockId(c) = b
    BY DEF FileOK
  <2> QED
    BY <1>2, <1>3, <1>5, <2>1
<1>12. Len(W.entries) <= BLOCK_SIZE
    BY <1>3, <1>5 DEF m
<1>13. FileOK(b, W) /\ Codes(W.entries) = Codes(file.entries) \cup ToSet(new)
    BY <1>2, <1>3, <1>5, <1>9, <1>10, <1>11, <1>12 DEF FileOK
<1> QED
    BY <1>13 DEF W

-------------------------------------------------------------------------------
(* The invariant: every block's file is in order, and while blocks can be  *)
(* mapped the manifest names glyphs their files hold.                      *)

FilesOK == \A b \in BlockIds : FileOK(b, files[b])

ManifestStored == base => \A cp \in manifest : cp \in Codes(files[GetBlockId(cp)].entries)

IInv == TypeOK /\ FilesOK /\ ManifestStored

\* A codepoint's block is one of the blocks.
LEMMA BlockOf == \A cp \in Codepoints : GetBlockId(cp) \in BlockIds
BY DEF BlockIds

\* The initial state has it: nothing is stored yet.
LEMMA InitHolds == Init => IInv
<1> SUFFICES ASSUME Init PROVE IInv
    OBVIOUS
<1>1. \A b \in BlockIds : files[b] = NoFile
    BY DEF Init
<1>2. FilesOK
    BY <1>1, NoFileOK DEF FilesOK
<1>3. files \in [BlockIds -> BlockFile]
  <2>1. NoFile \in BlockFile
    BY NoFileOK DEF FileOK
  <2> QED
    BY <2>1 DEF Init
<1>4. /\ pending \in Seq(Codepoints) /\ Len(pending) < WRITE_BATCH_SIZE
      /\ manifest = {} /\ base \in BOOLEAN
    BY CodepointsAreNumbers DEF Init
<1> QED
    BY <1>2, <1>3, <1>4 DEF IInv, TypeOK, ManifestStored

\* A block's file stays in order when it is rewritten, and gains what is pending.
LEMMA BlockWritten ==
    ASSUME IInv, NEW queue \in Seq(Codepoints), NEW b \in BlockIds, ~Overflows(queue, b),
           NEW f, f = Written(Old(b), PendingOf(queue, b))
    PROVE  /\ FileOK(b, f)
           /\ Codes(f.entries) = Codes(Old(b).entries) \cup ToSet(PendingOf(queue, b))
<1> DEFINE new == PendingOf(queue, b)
<1>1. FileOK(b, Old(b))
    BY NoFileOK DEF IInv, FilesOK, Old
<1>2. /\ new \in Seq(Codepoints) /\ Ascending(new)
      /\ \A cp \in ToSet(new) : GetBlockId(cp) = b
    BY PendingSorted
<1>3. Old(b).entries \in Seq(GlyphEntry) /\ Sorted(Old(b).entries) /\ Sized(Old(b).entries)
    BY <1>1, FileTyped DEF FileOK
<1>4. Merge(Old(b).entries, new) \in Seq(GlyphEntry)
    BY <1>2, <1>3, MergeResult
<1>5. Len(Merge(Old(b).entries, new)) <= BLOCK_SIZE
    BY <1>4, CodepointsAreNumbers DEF Overflows
<1> HIDE DEF new
<1>6. /\ FileOK(b, Written(Old(b), new))
      /\ Codes(Written(Old(b), new).entries) = Codes(Old(b).entries) \cup ToSet(new)
    BY <1>1, <1>2, <1>5, WrittenOK
<1> QED
    BY <1>6 DEF new

\* What a flush does.
LEMMA FlushEffect ==
    ASSUME NEW queue, FlushPendingWrites(queue)
    PROVE  \E written :
             /\ \A b \in BlockIds :
                  \/ b \in written /\ ~Overflows(queue, b)
                     /\ files'[b] = Written(Old(b), PendingOf(queue, b))
                  \/ b \notin written /\ files'[b] = files[b]
             /\ files' = [b \in BlockIds |-> files'[b]]
             /\ \/ manifest' = manifest
                \/ manifest' = manifest \cup {cp \in ToSet(queue) : GetBlockId(cp) \in written}
             /\ pending' = <<>>
<1>1. PICK locked, recorded :
        LET written == {b \in locked : ~Overflows(queue, b)}
        IN  /\ files' = [b \in BlockIds |->
                            IF b \in written THEN Written(Old(b), PendingOf(queue, b)) ELSE files[b]]
            /\ manifest' = IF recorded
                             THEN manifest \cup {cp \in ToSet(queue) : GetBlockId(cp) \in written}
                             ELSE manifest
            /\ pending' = <<>>
    BY DEF FlushPendingWrites
<1> DEFINE written == {b \in locked : ~Overflows(queue, b)}
<1>2. \A b \in BlockIds :
        \/ b \in written /\ ~Overflows(queue, b)
           /\ files'[b] = Written(Old(b), PendingOf(queue, b))
        \/ b \notin written /\ files'[b] = files[b]
    BY <1>1
<1>3. files' = [b \in BlockIds |-> files'[b]]
    BY <1>1
<1>4. \/ manifest' = manifest
      \/ manifest' = manifest \cup {cp \in ToSet(queue) : GetBlockId(cp) \in written}
    BY <1>1
<1> QED
    BY <1>1, <1>2, <1>3, <1>4

\* A flush, of the queue as it is or with a glyph that has just been drawn.
LEMMA FlushKeeps ==
    ASSUME IInv, NEW queue \in Seq(Codepoints), FlushPendingWrites(queue), UNCHANGED base
    PROVE  IInv'
<1>1. PICK written :
        /\ \A b \in BlockIds :
             \/ b \in written /\ ~Overflows(queue, b)
                /\ files'[b] = Written(Old(b), PendingOf(queue, b))
             \/ b \notin written /\ files'[b] = files[b]
        /\ files' = [b \in BlockIds |-> files'[b]]
        /\ \/ manifest' = manifest
           \/ manifest' = manifest \cup {cp \in ToSet(queue) : GetBlockId(cp) \in written}
        /\ pending' = <<>>
    BY FlushEffect
<1>2. \A b \in BlockIds : FileOK(b, files'[b])
    BY <1>1, BlockWritten DEF IInv, FilesOK
<1>3. files' \in [BlockIds -> BlockFile]
    BY <1>1, <1>2 DEF FileOK
<1>4. pending' \in Seq(Codepoints) /\ Len(pending') < WRITE_BATCH_SIZE
    BY <1>1, CodepointsAreNumbers
<1>5. manifest' \subseteq Codepoints
  <2>1. ToSet(queue) \subseteq Codepoints
    BY DEF ToSet
  <2> QED
    BY <1>1, <2>1 DEF IInv, TypeOK
<1>6. ASSUME base', NEW cp \in manifest' PROVE cp \in Codes(files'[GetBlockId(cp)].entries)
  <2>1. PICK b \in BlockIds : b = GetBlockId(cp)
    BY <1>5, BlockOf
  <2>2. Old(b) = files[b] /\ base
    BY <1>6 DEF Old
  <2>3. b \in written =>
            Codes(files'[b].entries) = Codes(files[b].entries) \cup ToSet(PendingOf(queue, b))
    BY <1>1, <2>2, BlockWritten
  <2>4. CASE cp \in manifest
    <3>1. cp \in Codes(files[b].entries)
      BY <2>1, <2>2, <2>4 DEF IInv, ManifestStored
    <3> QED
      BY <1>1, <2>1, <2>3, <3>1
  <2>5. CASE cp \notin manifest
    <3>1. cp \in ToSet(queue) /\ b \in written
      BY <1>1, <1>6, <2>1, <2>5
    <3>2. cp \in ToSet(PendingOf(queue, b))
      BY <2>1, <3>1, PendingSorted
    <3> QED
      BY <2>1, <2>3, <3>1, <3>2
  <2> QED
    BY <2>4, <2>5
<1> QED
    BY <1>2, <1>3, <1>4, <1>5, <1>6 DEF IInv, TypeOK, FilesOK, ManifestStored

\* Storing a glyph keeps the invariant.
LEMMA StoreKeeps ==
    ASSUME IInv, NEW cp \in Codepoints, StoreGlyph(cp)
    PROVE  IInv'
<1>1. pending \in Seq(Codepoints) /\ Append(pending, cp) \in Seq(Codepoints)
      /\ Len(Append(pending, cp)) = Len(pending) + 1
    BY DEF IInv, TypeOK
<1>2. CASE Len(pending) + 1 >= WRITE_BATCH_SIZE
    BY <1>1, <1>2, FlushKeeps DEF StoreGlyph
<1>3. CASE ~(Len(pending) + 1 >= WRITE_BATCH_SIZE)
  <2>1. pending' = Append(pending, cp) /\ UNCHANGED <<base, files, manifest>>
    BY <1>3 DEF StoreGlyph
  <2>2. Len(pending') < WRITE_BATCH_SIZE
    BY <1>1, <1>3, <2>1, CodepointsAreNumbers
  <2> QED
    BY <1>1, <2>1, <2>2 DEF IInv, TypeOK, FilesOK, ManifestStored
<1> QED
    BY <1>2, <1>3

\* Every step keeps the invariant.
LEMMA StepKeeps == IInv /\ [Next]_vars => IInv'
<1> SUFFICES ASSUME IInv, [Next]_vars PROVE IInv'
    OBVIOUS
<1>1. ASSUME NEW cp \in Codepoints, TryLoadGlyph(cp) PROVE IInv'
    BY <1>1 DEF TryLoadGlyph, vars, IInv, TypeOK, FilesOK, ManifestStored
<1>2. ASSUME NEW cp \in Codepoints, StoreGlyph(cp) PROVE IInv'
    BY <1>2, StoreKeeps
<1>3. CASE Reopen
    BY <1>3, FlushKeeps DEF Reopen, IInv, TypeOK
<1>4. CASE UNCHANGED vars
    BY <1>4 DEF vars, IInv, TypeOK, FilesOK, ManifestStored
<1> QED
    BY <1>1, <1>2, <1>3, <1>4 DEF Next

\* The invariant holds throughout.
LEMMA Invariant == Spec => []IInv
BY InitHolds, StepKeeps, PTL DEF Spec

\* Blocks, manifest and queue are well-formed, the queue always shorter than
\* a batch (MSDFCache.cpp:128-149, 274-321).
THEOREM TypeCorrect == Spec => []TypeOK
<1>1. IInv => TypeOK
    BY DEF IInv
<1> QED
    BY Invariant, <1>1, PTL

\* A file in order is sorted and found through its hash table.
LEMMA OrderedAndIndexed == IInv => SortedAndIndexed
<1> SUFFICES ASSUME IInv, NEW b \in BlockIds
             PROVE  /\ Len(files[b].entries) <= BLOCK_SIZE
                    /\ IsSorted(files[b].entries, LAMBDA d, e : d.codepoint <= e.codepoint)
                    /\ \A cp \in Glyphs(b) : GetBlockId(cp) = b /\ Lookup(files[b], cp) # 0
    BY DEF SortedAndIndexed
<1>1. FileOK(b, files[b])
    BY DEF IInv, FilesOK
<1>2. files[b].entries \in Seq(GlyphEntry) /\ DOMAIN files[b].entries = 1..Len(files[b].entries)
    BY <1>1, FileTyped DEF FileOK
<1>3. IsSorted(files[b].entries, LAMBDA d, e : d.codepoint <= e.codepoint)
    BY <1>1, <1>2 DEF IsSorted, FileOK, Sorted
<1>4. Glyphs(b) = Codes(files[b].entries)
    BY <1>2 DEF Glyphs, Codes, ToSet
<1>5. \A cp \in Glyphs(b) : GetBlockId(cp) = b /\ Lookup(files[b], cp) # 0
    BY <1>1, <1>4, LookupFinds DEF FileOK
<1> QED
    BY <1>1, <1>3, <1>5 DEF FileOK

\* Blocks stay sorted and within their size, every glyph in its block and
\* found through the hash table (MSDFCache.cpp:344-376, MSDFManager.cpp:247-257).
THEOREM SortedAndFound == Spec => []SortedAndIndexed
BY Invariant, OrderedAndIndexed, PTL

\* What the manifest names is found and has the pixels that were drawn.
LEMMA Reads == IInv => ManifestReadable
<1> SUFFICES ASSUME IInv, base, NEW cp \in manifest
             PROVE  Readable(cp) /\ PixelData(cp) = Pixels(cp)
    BY DEF ManifestReadable
<1> DEFINE b == GetBlockId(cp)
           i == Lookup(files[b], cp)
<1>1. b \in BlockIds /\ FileOK(b, files[b]) /\ cp \in Codes(files[b].entries)
    BY BlockOf DEF IInv, TypeOK, FilesOK, ManifestStored
<1>2. i \in DOMAIN files[b].entries /\ i # 0 /\ files[b].entries[i].codepoint = cp
  <2> HIDE DEF b
  <2> QED
    BY <1>1, LookupFinds
<1>3. Readable(cp)
    BY <1>2 DEF Readable
<1>4. Slice(files[b], files[b].entries[i].dataOffset, files[b].entries[i].dataSize) = Pixels(cp)
  <2> HIDE DEF b, i
  <2> QED
    BY <1>1, <1>2, SliceIsPixels
<1> QED
    BY <1>3, <1>4 DEF PixelData

\* What the manifest names is read back as it was drawn, whatever merges have
\* moved it since (MSDFCache.cpp:351-399, MSDFManager.cpp:247-264).
THEOREM ReadsBack == Spec => []ManifestReadable
BY Invariant, Reads, PTL

-------------------------------------------------------------------------------
(* What a rewritten block holds.                                           *)

\* A step that changes files is a flush of what is pending, perhaps with one
\* glyph more.
LEMMA FilesChangeByFlush ==
    ASSUME IInv, [Next]_vars, files' # files
    PROVE  \E queue \in Seq(Codepoints) :
              /\ FlushPendingWrites(queue)
              /\ \/ queue = pending
                 \/ \E cp \in Codepoints : queue = Append(pending, cp)
<1>1. pending \in Seq(Codepoints)
    BY DEF IInv, TypeOK
<1>2. ASSUME NEW cp \in Codepoints, StoreGlyph(cp)
      PROVE  FlushPendingWrites(Append(pending, cp)) /\ Append(pending, cp) \in Seq(Codepoints)
    BY <1>1, <1>2 DEF StoreGlyph
<1>3. CASE Reopen
    BY <1>1, <1>3 DEF Reopen
<1>4. ASSUME NEW cp \in Codepoints, TryLoadGlyph(cp) PROVE FALSE
    BY <1>4 DEF TryLoadGlyph, vars
<1>5. CASE UNCHANGED vars
    BY <1>5 DEF vars
<1> QED
    BY <1>2, <1>3, <1>4, <1>5, Zenon DEF Next

\* The glyphs of a block are the codepoints of its entries.
LEMMA GlyphsAreCodes ==
    ASSUME NEW es \in Seq(GlyphEntry)
    PROVE  {e.codepoint : e \in ToSet(es)} = Codes(es)
BY DEF Codes, ToSet

\* A step that rewrites a block adds what is pending for it.
LEMMA UnionStep ==
    ASSUME IInv, [Next]_vars, base, NEW b \in BlockIds, files'[b] # files[b]
    PROVE  \E new \in SUBSET Codepoints :
            /\ \A cp \in new : GetBlockId(cp) = b
            /\ ToSet(pending) \cap {cp \in Codepoints : GetBlockId(cp) = b} \subseteq new
            /\ Cardinality(new \ ToSet(pending)) <= 1
            /\ Glyphs(b)' = Glyphs(b) \cup new
<1>1. PICK queue \in Seq(Codepoints) :
              /\ FlushPendingWrites(queue)
              /\ \/ queue = pending
                 \/ \E cp \in Codepoints : queue = Append(pending, cp)
    BY FilesChangeByFlush
<1> DEFINE new == ToSet(PendingOf(queue, b))
<1>2. new = {cp \in ToSet(queue) : GetBlockId(cp) = b}
    BY PendingSorted
<1>3. PICK f : f = files'[b]
    OBVIOUS
<1>4. f = Written(Old(b), PendingOf(queue, b)) /\ ~Overflows(queue, b) /\ Old(b) = files[b]
    BY <1>1, <1>3, FlushEffect DEF Old
<1>5. FileOK(b, f) /\ Codes(f.entries) = Codes(files[b].entries) \cup new
    BY <1>4, BlockWritten
<1>6. FileOK(b, files[b])
    BY DEF IInv, FilesOK
<1>7. Glyphs(b)' = Codes(f.entries) /\ Glyphs(b) = Codes(files[b].entries)
  <2>1. f.entries \in Seq(GlyphEntry) /\ files[b].entries \in Seq(GlyphEntry)
    BY <1>5, <1>6, FileTyped DEF FileOK
  <2>2. Glyphs(b)' = {e.codepoint : e \in ToSet(f.entries)}
    BY <1>3 DEF Glyphs
  <2> QED
    BY <2>1, <2>2, GlyphsAreCodes DEF Glyphs
<1>8. pending \in Seq(Codepoints) /\ ToSet(queue) \subseteq Codepoints
    BY DEF IInv, TypeOK, ToSet
<1>9. \/ ToSet(queue) = ToSet(pending)
      \/ \E cp : ToSet(queue) = ToSet(pending) \cup {cp}
  <2>1. CASE queue = pending
    BY <2>1
  <2>2. ASSUME NEW cp \in Codepoints, queue = Append(pending, cp)
        PROVE  ToSet(queue) = ToSet(pending) \cup {cp}
    <3>1. /\ DOMAIN pending = 1..Len(pending) /\ Len(pending) \in Nat
          /\ DOMAIN queue = (1..Len(pending)) \cup {Len(pending) + 1}
          /\ queue[Len(pending) + 1] = cp /\ \A n \in 1..Len(pending) : queue[n] = pending[n]
      BY <1>8, <2>2
    <3> QED
      BY <3>1 DEF ToSet
  <2> QED
    BY <1>1, <2>1, <2>2
<1>10. Cardinality(new \ ToSet(pending)) <= 1
  <2>1. PICK cp : new \ ToSet(pending) \subseteq {cp}
    BY <1>2, <1>9
  <2>2. IsFiniteSet({cp}) /\ Cardinality({cp}) = 1
    BY FS_Singleton
  <2> HIDE DEF new
  <2> QED
    BY <2>1, <2>2, FS_Subset
<1>11. ToSet(pending) \subseteq ToSet(queue)
    BY <1>9
<1> HIDE DEF new
<1>12. new \in SUBSET Codepoints /\ (\A cp \in new : GetBlockId(cp) = b)
       /\ ToSet(pending) \cap {cp \in Codepoints : GetBlockId(cp) = b} \subseteq new
    BY <1>2, <1>8, <1>11
<1> QED
    BY <1>5, <1>7, <1>10, <1>12

\* A rewritten block holds the glyphs of its file and the pending ones, and
\* nothing else (MSDFCache.cpp:351-367).
THEOREM MergesAreUnions == Spec => MergeIsUnion
<1>1. IInv /\ [Next]_vars =>
        [base => \A b \in BlockIds : files'[b] # files[b] =>
          \E new \in SUBSET Codepoints :
            /\ \A cp \in new : GetBlockId(cp) = b
            /\ ToSet(pending) \cap {cp \in Codepoints : GetBlockId(cp) = b} \subseteq new
            /\ Cardinality(new \ ToSet(pending)) <= 1
            /\ Glyphs(b)' = Glyphs(b) \cup new]_vars
    BY UnionStep
<1> QED
    BY Invariant, <1>1, PTL DEF Spec, MergeIsUnion

-------------------------------------------------------------------------------
(* How many entries a glyph has.                                           *)

Places(entries, cp) == {p \in DOMAIN entries : entries[p].codepoint = cp}

PlacesBehind(old, cp, i) == {p \in Places(old, cp) : p < i}
QueuedBehind(new, cp, j) == {q \in DOMAIN new : new[q] = cp /\ q < j}

\* Counting one index further.
LEMMA OneMore ==
    ASSUME NEW X, NEW Y, NEW n, IsFiniteSet(X), n \notin X, NEW P \in BOOLEAN,
           Y = IF P THEN X \cup {n} ELSE X
    PROVE  /\ IsFiniteSet(Y) /\ Cardinality(X) \in Nat /\ Cardinality(Y) \in Nat
           /\ Cardinality(Y) = IF P THEN Cardinality(X) + 1 ELSE Cardinality(X)
BY FS_AddElement, FS_CardinalityType

\* Places in a sequence are finitely many.
LEMMA FinitePlaces ==
    ASSUME NEW es, NEW n \in Nat, DOMAIN es = 1..n, NEW X \in SUBSET DOMAIN es
    PROVE  IsFiniteSet(X) /\ Cardinality(X) \in Nat
<1>1. IsFiniteSet(1..n)
    BY FS_Interval
<1> QED
    BY <1>1, FS_Subset, FS_CardinalityType

\* Appending an entry adds its place to its glyph's.
LEMMA AppendedPlaces ==
    ASSUME NEW m \in Seq(GlyphEntry), NEW e \in GlyphEntry, NEW cp
    PROVE  /\ Cardinality(Places(m, cp)) \in Nat /\ Cardinality(Places(Append(m, e), cp)) \in Nat
           /\ Cardinality(Places(Append(m, e), cp))
                = IF e.codepoint = cp THEN Cardinality(Places(m, cp)) + 1
                  ELSE Cardinality(Places(m, cp))
<1> DEFINE a == Append(m, e)
           X == Places(m, cp)
           Y == Places(a, cp)
<1>1. /\ DOMAIN m = 1..Len(m) /\ Len(m) \in Nat /\ DOMAIN a = (1..Len(m)) \cup {Len(m) + 1}
      /\ a[Len(m) + 1] = e /\ \A p \in 1..Len(m) : a[p] = m[p]
    OBVIOUS
<1>2. Y = IF e.codepoint = cp THEN X \cup {Len(m) + 1} ELSE X
  <2> HIDE DEF a
  <2> QED
    BY <1>1 DEF Places
<1>3. Len(m) + 1 \notin X
    BY <1>1 DEF Places
<1>4. IsFiniteSet(X)
  <2>1. X \in SUBSET DOMAIN m
    BY DEF Places
  <2> HIDE DEF X
  <2> QED
    BY <1>1, <2>1, FinitePlaces
<1>5. (e.codepoint = cp) \in BOOLEAN
    OBVIOUS
<1> HIDE DEF X, Y
<1>6. /\ Cardinality(X) \in Nat /\ Cardinality(Y) \in Nat
      /\ Cardinality(Y) = IF e.codepoint = cp THEN Cardinality(X) + 1 ELSE Cardinality(X)
    BY <1>2, <1>3, <1>4, <1>5, OneMore
<1> QED
    BY <1>6 DEF X, Y, a

\* Stepping over an entry adds its place to those behind.
LEMMA BehindPlaces ==
    ASSUME NEW old \in Seq(GlyphEntry), NEW cp, NEW i \in 1..Len(old)
    PROVE  /\ Cardinality(PlacesBehind(old, cp, i)) \in Nat
           /\ Cardinality(PlacesBehind(old, cp, i + 1)) \in Nat
           /\ Cardinality(PlacesBehind(old, cp, i + 1))
                = IF old[i].codepoint = cp THEN Cardinality(PlacesBehind(old, cp, i)) + 1
                                           ELSE Cardinality(PlacesBehind(old, cp, i))
<1> DEFINE X == PlacesBehind(old, cp, i)
           Y == PlacesBehind(old, cp, i + 1)
<1>1. DOMAIN old = 1..Len(old) /\ Len(old) \in Nat
    OBVIOUS
<1>2. Y = IF old[i].codepoint = cp THEN X \cup {i} ELSE X
    BY <1>1 DEF PlacesBehind, Places
<1>3. i \notin X
    BY <1>1 DEF PlacesBehind
<1>4. IsFiniteSet(X)
  <2>1. X \in SUBSET DOMAIN old
    BY DEF Places, PlacesBehind
  <2> HIDE DEF X
  <2> QED
    BY <1>1, <2>1, FinitePlaces
<1>5. (old[i].codepoint = cp) \in BOOLEAN
    OBVIOUS
<1> HIDE DEF X, Y
<1>6. /\ Cardinality(X) \in Nat /\ Cardinality(Y) \in Nat
      /\ Cardinality(Y) = IF old[i].codepoint = cp THEN Cardinality(X) + 1 ELSE Cardinality(X)
    BY <1>2, <1>3, <1>4, <1>5, OneMore
<1> QED
    BY <1>6 DEF X, Y

\* Stepping over a pending glyph adds its place to those behind.
LEMMA BehindQueued ==
    ASSUME NEW new \in Seq(Codepoints), NEW cp, NEW j \in 1..Len(new)
    PROVE  /\ Cardinality(QueuedBehind(new, cp, j)) \in Nat
           /\ Cardinality(QueuedBehind(new, cp, j + 1)) \in Nat
           /\ Cardinality(QueuedBehind(new, cp, j + 1))
                = IF new[j] = cp THEN Cardinality(QueuedBehind(new, cp, j)) + 1
                                 ELSE Cardinality(QueuedBehind(new, cp, j))
<1> DEFINE X == QueuedBehind(new, cp, j)
           Y == QueuedBehind(new, cp, j + 1)
<1>1. DOMAIN new = 1..Len(new) /\ Len(new) \in Nat
    OBVIOUS
<1>2. Y = IF new[j] = cp THEN X \cup {j} ELSE X
    BY <1>1 DEF QueuedBehind
<1>3. j \notin X
    BY <1>1 DEF QueuedBehind
<1>4. IsFiniteSet(X)
  <2>1. X \in SUBSET DOMAIN new
    BY DEF QueuedBehind
  <2> HIDE DEF X
  <2> QED
    BY <1>1, <2>1, FinitePlaces
<1>5. (new[j] = cp) \in BOOLEAN
    OBVIOUS
<1> HIDE DEF X, Y
<1>6. /\ Cardinality(X) \in Nat /\ Cardinality(Y) \in Nat
      /\ Cardinality(Y) = IF new[j] = cp THEN Cardinality(X) + 1 ELSE Cardinality(X)
    BY <1>2, <1>3, <1>4, <1>5, OneMore
<1> QED
    BY <1>6 DEF X, Y

\* The entries of a glyph so far: no more than the file's behind the index when
\* the file has the glyph, else no more than the pending ones'.  In the first
\* case a pending glyph waits for the file's entries of the glyph, or has
\* replaced one of them.
Counted(old, new, cp, s) ==
    /\ s.i <= Len(old) + 1 /\ s.j <= Len(new) + 1
    /\ IF cp \in Codes(old)
         THEN /\ Cardinality(Places(s.merged, cp)) <= Cardinality(PlacesBehind(old, cp, s.i))
              /\ PlacesBehind(old, cp, s.i) # {} /\ s.j <= Len(new)
                   => cp < new[s.j] \/ \E q \in 1..(s.j - 1) : new[q] = cp
         ELSE Cardinality(Places(s.merged, cp)) <= Cardinality(QueuedBehind(new, cp, s.j))

\* A round keeps the count.
LEMMA RoundCounts ==
    ASSUME NEW old \in Seq(GlyphEntry), NEW new \in Seq(Codepoints),
           Sorted(old), Ascending(new), NEW cp \in Codepoints, Once(new, cp),
           NEW s \in LoopState, Counted(old, new, cp, s),
           NEW t, t = Round(old, new, s)
    PROVE  Counted(old, new, cp, t)
<1>0. /\ s.i \in Nat \ {0} /\ s.j \in Nat \ {0} /\ s.merged \in Seq(GlyphEntry)
      /\ Len(old) \in Nat /\ Len(new) \in Nat /\ cp \in Nat
      /\ DOMAIN old = 1..Len(old) /\ DOMAIN new = 1..Len(new)
      /\ s.i <= Len(old) + 1 /\ s.j <= Len(new) + 1
    BY CodepointsAreNumbers DEF LoopState, Counted
<1>1. /\ \A p \in 1..Len(old) : old[p] \in GlyphEntry /\ old[p].codepoint \in Nat
      /\ \A q \in 1..Len(new) : /\ new[q] \in Nat
                                /\ Entry(new[q]) \in GlyphEntry /\ Entry(new[q]).codepoint = new[q]
  <2>1. \A e \in GlyphEntry : e.codepoint \in Nat
    BY CodepointsAreNumbers DEF GlyphEntry
  <2>2. \A p \in 1..Len(old) : old[p] \in GlyphEntry
    OBVIOUS
  <2>3. \A q \in 1..Len(new) : new[q] \in Codepoints
    OBVIOUS
  <2>4. \A c \in Codepoints : c \in Nat /\ Entry(c) \in GlyphEntry /\ Entry(c).codepoint = c
    BY EntryTyped, CodepointsAreNumbers DEF Entry
  <2> QED
    BY <2>1, <2>2, <2>3, <2>4
<1> DEFINE c == Cardinality(Places(s.merged, cp))
           d == Cardinality(Places(t.merged, cp))
<1>2. CASE /\ s.i <= Len(old) /\ (s.j > Len(new) \/ old[s.i].codepoint < new[s.j])
           /\ t.i = s.i + 1 /\ t.j = s.j /\ t.merged = Append(s.merged, old[s.i])
  <2>1. s.i \in 1..Len(old) /\ old[s.i] \in GlyphEntry
    BY <1>0, <1>1, <1>2
  <2>2. c \in Nat /\ d = IF old[s.i].codepoint = cp THEN c + 1 ELSE c
    <3>1. t.merged = Append(s.merged, old[s.i])
      BY <1>2
    <3>2. /\ Cardinality(Places(s.merged, cp)) \in Nat
          /\ Cardinality(Places(Append(s.merged, old[s.i]), cp))
               = IF old[s.i].codepoint = cp THEN Cardinality(Places(s.merged, cp)) + 1
                                            ELSE Cardinality(Places(s.merged, cp))
      BY <1>0, <2>1, AppendedPlaces
    <3> QED
      BY <3>1, <3>2
  <2>3. t.i <= Len(old) + 1 /\ t.j <= Len(new) + 1
    BY <1>0, <1>2
  <2>4. CASE cp \in Codes(old)
    <3> DEFINE x == Cardinality(PlacesBehind(old, cp, s.i))
               y == Cardinality(PlacesBehind(old, cp, t.i))
    <3>1. x \in Nat /\ y = IF old[s.i].codepoint = cp THEN x + 1 ELSE x
      BY <1>2, <2>1, BehindPlaces
    <3>2. c <= x
      BY <2>4 DEF Counted
    <3>3. d <= y
      <4> HIDE DEF c, d, x, y
      <4> QED
        BY <2>2, <3>1, <3>2
    <3>4. ASSUME PlacesBehind(old, cp, t.i) # {}, t.j <= Len(new)
          PROVE  cp < new[t.j] \/ \E q \in 1..(t.j - 1) : new[q] = cp
      <4>1. CASE PlacesBehind(old, cp, s.i) # {}
        BY <1>2, <2>4, <3>4, <4>1 DEF Counted
      <4>2. CASE PlacesBehind(old, cp, s.i) = {}
        <5>1. PICK p \in PlacesBehind(old, cp, t.i) : p \notin PlacesBehind(old, cp, s.i)
          BY <3>4, <4>2
        <5>2. p = s.i /\ old[p].codepoint = cp
          BY <1>0, <1>2, <5>1 DEF PlacesBehind, Places
        <5> QED
          BY <1>0, <1>2, <3>4, <5>2
      <4> QED
        BY <4>1, <4>2
    <3> QED
      BY <2>3, <2>4, <3>3, <3>4 DEF Counted
  <2>5. CASE cp \notin Codes(old)
    <3>1. old[s.i].codepoint # cp
      BY <1>0, <2>1, <2>5 DEF Codes
    <3> QED
      BY <1>2, <2>2, <2>3, <2>5, <3>1 DEF Counted
  <2> QED
    BY <2>4, <2>5
<1>3. CASE /\ s.i <= Len(old) /\ s.j <= Len(new) /\ new[s.j] = old[s.i].codepoint
           /\ t.i = s.i + 1 /\ t.j = s.j + 1 /\ t.merged = Append(s.merged, Entry(new[s.j]))
  <2>1. s.i \in 1..Len(old) /\ s.j \in 1..Len(new) /\ Entry(new[s.j]) \in GlyphEntry
        /\ Entry(new[s.j]).codepoint = old[s.i].codepoint
    BY <1>0, <1>1, <1>3
  <2>2. c \in Nat /\ d = IF old[s.i].codepoint = cp THEN c + 1 ELSE c
    <3>1. t.merged = Append(s.merged, Entry(new[s.j]))
      BY <1>3
    <3>2. /\ Cardinality(Places(s.merged, cp)) \in Nat
          /\ Cardinality(Places(Append(s.merged, Entry(new[s.j])), cp))
               = IF Entry(new[s.j]).codepoint = cp THEN Cardinality(Places(s.merged, cp)) + 1
                                                   ELSE Cardinality(Places(s.merged, cp))
      BY <1>0, <2>1, AppendedPlaces
    <3> QED
      BY <2>1, <3>1, <3>2
  <2>3. t.i <= Len(old) + 1 /\ t.j <= Len(new) + 1
    BY <1>0, <1>3
  <2>4. CASE cp \in Codes(old)
    <3> DEFINE x == Cardinality(PlacesBehind(old, cp, s.i))
               y == Cardinality(PlacesBehind(old, cp, t.i))
    <3>1. x \in Nat /\ y = IF old[s.i].codepoint = cp THEN x + 1 ELSE x
      BY <1>3, <2>1, BehindPlaces
    <3>2. c <= x
      BY <2>4 DEF Counted
    <3>3. d <= y
      <4> HIDE DEF c, d, x, y
      <4> QED
        BY <2>2, <3>1, <3>2
    <3>4. ASSUME PlacesBehind(old, cp, t.i) # {}, t.j <= Len(new)
          PROVE  cp < new[t.j] \/ \E q \in 1..(t.j - 1) : new[q] = cp
      <4>1. t.j - 1 = s.j /\ t.j \in 1..Len(new) /\ s.j < t.j /\ new[s.j] <= new[t.j]
        BY <1>0, <1>3, <2>1, <3>4 DEF Ascending
      <4>2. CASE PlacesBehind(old, cp, s.i) # {}
        <5>1. cp < new[s.j] \/ \E q \in 1..(s.j - 1) : new[q] = cp
          BY <1>3, <2>4, <4>2 DEF Counted
        <5>2. CASE cp < new[s.j]
          BY <1>0, <1>1, <2>1, <4>1, <5>2
        <5>3. CASE \E q \in 1..(s.j - 1) : new[q] = cp
          BY <1>0, <4>1, <5>3
        <5> QED
          BY <5>1, <5>2, <5>3
      <4>3. CASE PlacesBehind(old, cp, s.i) = {}
        <5>1. PICK p \in PlacesBehind(old, cp, t.i) : p \notin PlacesBehind(old, cp, s.i)
          BY <3>4, <4>3
        <5>2. p = s.i /\ old[p].codepoint = cp
          BY <1>0, <1>3, <5>1 DEF PlacesBehind, Places
        <5>3. new[s.j] = cp /\ s.j \in 1..(t.j - 1)
          BY <1>0, <1>3, <4>1, <5>2
        <5> QED
          BY <5>3
      <4> QED
        BY <4>2, <4>3
    <3> QED
      BY <2>3, <2>4, <3>3, <3>4 DEF Counted
  <2>5. CASE cp \notin Codes(old)
    <3>1. old[s.i].codepoint # cp /\ new[s.j] # cp
      BY <1>0, <1>3, <2>1, <2>5 DEF Codes
    <3>2. c <= Cardinality(QueuedBehind(new, cp, s.j))
      BY <2>5 DEF Counted
    <3>3. Cardinality(QueuedBehind(new, cp, t.j)) = Cardinality(QueuedBehind(new, cp, s.j))
      BY <1>3, <2>1, <3>1, BehindQueued
    <3>4. d <= Cardinality(QueuedBehind(new, cp, t.j))
      BY <2>2, <3>1, <3>2, <3>3
    <3> QED
      BY <2>3, <2>5, <3>4 DEF Counted
  <2> QED
    BY <2>4, <2>5
<1>4. CASE /\ s.j <= Len(new) /\ (s.i > Len(old) \/ new[s.j] < old[s.i].codepoint)
           /\ t.i = s.i /\ t.j = s.j + 1 /\ t.merged = Append(s.merged, Entry(new[s.j]))
  <2>1. /\ s.j \in 1..Len(new)
        /\ Entry(new[s.j]) \in GlyphEntry /\ Entry(new[s.j]).codepoint = new[s.j]
    BY <1>0, <1>1, <1>4
  <2>2. c \in Nat /\ d = IF new[s.j] = cp THEN c + 1 ELSE c
    BY <1>0, <1>4, <2>1, AppendedPlaces
  <2>3. t.i <= Len(old) + 1 /\ t.j <= Len(new) + 1
    BY <1>0, <1>4
  <2>4. CASE cp \in Codes(old)
    <3>1. new[s.j] # cp
      <4> SUFFICES ASSUME new[s.j] = cp PROVE FALSE
        OBVIOUS
      <4>1. PICK p \in 1..Len(old) : old[p].codepoint = cp
        BY <1>0, <2>4 DEF Codes
      <4>2. CASE p < s.i
        <5>1. p \in PlacesBehind(old, cp, s.i)
          BY <1>0, <4>1, <4>2 DEF PlacesBehind, Places
        <5>2. cp < new[s.j] \/ \E q \in 1..(s.j - 1) : new[q] = cp
          BY <1>4, <2>4, <5>1 DEF Counted
        <5>3. PICK q \in 1..(s.j - 1) : new[q] = cp
          BY <1>0, <5>2
        <5>4. q \in DOMAIN new /\ s.j \in DOMAIN new /\ q # s.j
          BY <1>0, <2>1, <5>3
        <5> QED
          BY <5>3, <5>4 DEF Once
      <4>3. CASE ~(p < s.i)
        <5>1. s.i \in 1..Len(old) /\ s.i <= p
          BY <1>0, <4>1, <4>3
        <5>2. old[s.i].codepoint <= old[p].codepoint
          <6>1. old[s.i].codepoint \in Nat
            BY <1>1, <5>1
          <6>2. CASE s.i = p
            BY <6>1, <6>2
          <6>3. CASE s.i # p
            <7>1. s.i \in DOMAIN old /\ p \in DOMAIN old /\ s.i < p
              BY <1>0, <5>1, <6>3
            <7> QED
              BY <7>1 DEF Sorted
          <6> QED
            BY <6>2, <6>3
        <5>3. cp < old[s.i].codepoint
          BY <1>0, <1>4, <5>1
        <5> QED
          BY <1>0, <1>1, <4>1, <5>1, <5>2, <5>3
      <4> QED
        BY <4>2, <4>3
    <3>2. d <= Cardinality(PlacesBehind(old, cp, t.i))
      BY <1>4, <2>2, <2>4, <3>1 DEF Counted
    <3>3. ASSUME PlacesBehind(old, cp, t.i) # {}, t.j <= Len(new)
          PROVE  cp < new[t.j] \/ \E q \in 1..(t.j - 1) : new[q] = cp
      <4>1. t.j - 1 = s.j /\ t.j \in 1..Len(new) /\ s.j < t.j /\ new[s.j] <= new[t.j]
        <5>1. t.j = s.j + 1 /\ s.j \in 1..Len(new)
          BY <1>0, <1>4, <2>1
        <5>2. t.j - 1 = s.j /\ t.j \in 1..Len(new) /\ s.j < t.j
          BY <1>0, <3>3, <5>1
        <5>3. new[s.j] <= new[t.j]
          BY <1>0, <5>1, <5>2 DEF Ascending
        <5> QED
          BY <5>2, <5>3
      <4>2. cp < new[s.j] \/ \E q \in 1..(s.j - 1) : new[q] = cp
        BY <1>4, <2>4, <3>3 DEF Counted
      <4>3. CASE cp < new[s.j]
        BY <1>0, <1>1, <2>1, <4>1, <4>3
      <4>4. CASE \E q \in 1..(s.j - 1) : new[q] = cp
        BY <1>0, <4>1, <4>4
      <4> QED
        BY <4>2, <4>3, <4>4
    <3> QED
      BY <2>3, <2>4, <3>2, <3>3 DEF Counted
  <2>5. CASE cp \notin Codes(old)
    <3> DEFINE x == Cardinality(QueuedBehind(new, cp, s.j))
               y == Cardinality(QueuedBehind(new, cp, t.j))
    <3>1. x \in Nat /\ y = IF new[s.j] = cp THEN x + 1 ELSE x
      BY <1>4, <2>1, BehindQueued
    <3>2. c <= x
      BY <2>5 DEF Counted
    <3>3. d <= y
      <4> HIDE DEF c, d, x, y
      <4> QED
        BY <2>2, <3>1, <3>2
    <3> QED
      BY <2>3, <2>5, <3>3 DEF Counted
  <2> QED
    BY <2>4, <2>5
<1>5. CASE s.i > Len(old) /\ s.j > Len(new) /\ t = s
    BY <1>5
<1> QED
    BY <1>2, <1>3, <1>4, <1>5, Rounds

\* Merging a glyph that is pending once at most leaves no more entries of it
\* than the file had, or one.
LEMMA MergeCounts ==
    ASSUME NEW old \in Seq(GlyphEntry), NEW new \in Seq(Codepoints),
           Sorted(old), Sized(old), Ascending(new), NEW cp \in Codepoints, Once(new, cp)
    PROVE  IF cp \in Codes(old)
             THEN Cardinality(Places(Merge(old, new), cp)) <= Cardinality(Places(old, cp))
             ELSE Cardinality(Places(Merge(old, new), cp)) <= 1
<1> DEFINE N == Len(old) + Len(new)
<1>1. PICK loop \in [0..N -> LoopState] :
              /\ loop[0] = LoopStart
              /\ \A k \in 1..N : loop[k] = Round(old, new, loop[k - 1])
              /\ Merge(old, new) = loop[N].merged
    BY Loop
<1>2. N \in Nat /\ Len(old) \in Nat /\ Len(new) \in Nat
      /\ DOMAIN old = 1..Len(old) /\ DOMAIN new = 1..Len(new)
    OBVIOUS
<1> DEFINE S == {k \in 0..N : Counted(old, new, cp, loop[k])}
<1>3. 0 \in S
  <2>1. LoopStart.i = 1 /\ LoopStart.j = 1 /\ LoopStart.merged = <<>>
    BY DEF LoopStart
  <2>2. /\ Places(LoopStart.merged, cp) = {} /\ PlacesBehind(old, cp, 1) = {}
        /\ QueuedBehind(new, cp, 1) = {}
    BY <1>2, <2>1 DEF Places, PlacesBehind, QueuedBehind
  <2>3. Cardinality({}) = 0
    BY FS_EmptySet
  <2>4. Counted(old, new, cp, LoopStart)
    BY <1>2, <2>1, <2>2, <2>3 DEF Counted
  <2> QED
    BY <1>1, <1>2, <2>4
<1>4. ASSUME NEW k \in 1..N, k - 1 \in S PROVE k \in S
  <2>1. k \in 0..N /\ k - 1 \in 0..N
    BY <1>2
  <2>2. loop[k - 1] \in LoopState /\ Counted(old, new, cp, loop[k - 1])
    BY <1>1, <1>4, <2>1
  <2>3. loop[k] = Round(old, new, loop[k - 1])
    BY <1>1
  <2>4. Counted(old, new, cp, loop[k])
    BY <2>2, <2>3, RoundCounts
  <2> QED
    BY <2>1, <2>4
<1>5. 0..N \subseteq S
  <2> HIDE DEF S, N
  <2> QED
    BY <1>2, <1>3, <1>4, InductiveUpTo
<1> DEFINE s == loop[N]
           m == Merge(old, new)
<1>6. s \in LoopState /\ Counted(old, new, cp, s) /\ m = s.merged
    BY <1>1, <1>2, <1>5
<1> HIDE DEF s, S
<1>7. m \in Seq(GlyphEntry)
    BY <1>6 DEF LoopState
<1>8. Cardinality(Places(m, cp)) \in Nat
  <2>1. DOMAIN m = 1..Len(m) /\ Len(m) \in Nat
    BY <1>7
  <2>2. Places(m, cp) \in SUBSET DOMAIN m
    BY DEF Places
  <2> HIDE DEF m
  <2> QED
    BY <2>1, <2>2, FinitePlaces
<1>9. CASE cp \in Codes(old)
  <2>1. Cardinality(Places(m, cp)) <= Cardinality(PlacesBehind(old, cp, s.i))
    BY <1>6, <1>9 DEF Counted
  <2>2. IsFiniteSet(Places(old, cp)) /\ Cardinality(Places(old, cp)) \in Nat
    <3>1. Places(old, cp) \in SUBSET DOMAIN old
      BY DEF Places
    <3> QED
      BY <1>2, <3>1, FinitePlaces
  <2>3. PlacesBehind(old, cp, s.i) \in SUBSET Places(old, cp)
    BY DEF PlacesBehind
  <2>4. /\ Cardinality(PlacesBehind(old, cp, s.i)) <= Cardinality(Places(old, cp))
        /\ Cardinality(PlacesBehind(old, cp, s.i)) \in Nat
    BY <2>2, <2>3, FS_Subset, FS_CardinalityType
  <2> HIDE DEF m
  <2>5. Cardinality(Places(m, cp)) <= Cardinality(Places(old, cp))
    BY <1>8, <2>1, <2>2, <2>4
  <2> QED
    BY <1>9, <2>5 DEF m
<1>10. CASE cp \notin Codes(old)
  <2>1. Cardinality(Places(m, cp)) <= Cardinality(QueuedBehind(new, cp, s.j))
    BY <1>6, <1>10 DEF Counted
  <2>2. \A k, l \in QueuedBehind(new, cp, s.j) : k = l
    BY DEF QueuedBehind, Once
  <2>3. \E k : QueuedBehind(new, cp, s.j) \subseteq {k}
    <3>1. CASE QueuedBehind(new, cp, s.j) = {}
      BY <3>1
    <3>2. CASE QueuedBehind(new, cp, s.j) # {}
      <4>1. PICK k : k \in QueuedBehind(new, cp, s.j)
        BY <3>2
      <4> QED
        BY <2>2, <4>1
    <3> QED
      BY <3>1, <3>2
  <2>4. PICK k : QueuedBehind(new, cp, s.j) \subseteq {k}
    BY <2>3
  <2>5. IsFiniteSet({k}) /\ Cardinality({k}) = 1
    BY FS_Singleton
  <2>6. /\ Cardinality(QueuedBehind(new, cp, s.j)) <= 1
        /\ Cardinality(QueuedBehind(new, cp, s.j)) \in Nat
    BY <2>4, <2>5, FS_Subset, FS_CardinalityType
  <2> HIDE DEF m
  <2>7. Cardinality(Places(m, cp)) <= 1
    BY <1>8, <2>1, <2>6
  <2> QED
    BY <1>10, <2>7 DEF m
<1> QED
    BY <1>9, <1>10

\* A step gives no glyph an entry more that is not pending.
LEMMA DuplicateStep ==
    ASSUME IInv, [Next]_vars, NEW b \in BlockIds, NEW cp \in Glyphs(b),
           Cardinality({i \in DOMAIN pending : pending[i] = cp}) = 0,
           NEW f, f = files'[b]
    PROVE  Cardinality(Places(f.entries, cp)) <= Cardinality(Places(files[b].entries, cp))
<1>1. FileOK(b, files[b]) /\ files[b].entries \in Seq(GlyphEntry)
    BY FileTyped DEF IInv, FilesOK, FileOK
<1>2. cp \in Codes(files[b].entries) /\ cp \in Codepoints
  <2>1. cp \in Codes(files[b].entries)
    BY <1>1, GlyphsAreCodes DEF Glyphs
  <2> QED
    BY <1>1, <2>1, FileTyped DEF FileOK
<1> DEFINE had == Places(files[b].entries, cp)
<1>3. IsFiniteSet(had) /\ Cardinality(had) \in Nat \ {0}
  <2>1. /\ DOMAIN files[b].entries = 1..Len(files[b].entries) /\ Len(files[b].entries) \in Nat
        /\ had \in SUBSET DOMAIN files[b].entries
    BY <1>1 DEF Places
  <2>2. had # {}
    BY <1>2 DEF Places, Codes
  <2> HIDE DEF had
  <2>3. IsFiniteSet(had) /\ Cardinality(had) \in Nat
    BY <2>1, FinitePlaces
  <2> QED
    BY <2>2, <2>3, FS_EmptySet
<1>4. CASE f = files[b]
  <2> HIDE DEF had
  <2>1. Cardinality(had) <= Cardinality(had)
    BY <1>3
  <2> QED
    BY <1>4, <2>1 DEF had
<1>5. CASE f # files[b]
  <2>1. PICK queue \in Seq(Codepoints) :
              /\ FlushPendingWrites(queue)
              /\ \/ queue = pending
                 \/ \E c \in Codepoints : queue = Append(pending, c)
    BY <1>5, FilesChangeByFlush
  <2>2. f = Written(Old(b), PendingOf(queue, b)) /\ ~Overflows(queue, b)
    BY <1>5, <2>1, FlushEffect
  <2> DEFINE new == PendingOf(queue, b)
             m == Merge(Old(b).entries, new)
  <2>3. Once(queue, cp)
    <3>1. /\ pending \in Seq(Codepoints)
          /\ DOMAIN pending = 1..Len(pending) /\ Len(pending) \in Nat
      BY DEF IInv, TypeOK
    <3>2. \A i \in DOMAIN pending : pending[i] # cp
      <4> DEFINE Q == {i \in DOMAIN pending : pending[i] = cp}
      <4>1. Q \in SUBSET DOMAIN pending /\ Cardinality(Q) = 0
        OBVIOUS
      <4> HIDE DEF Q
      <4>2. IsFiniteSet(Q)
        BY <3>1, <4>1, FinitePlaces
      <4>3. Q = {}
        BY <4>1, <4>2, FS_EmptySet
      <4> QED
        BY <4>3 DEF Q
    <3>3. CASE queue = pending
      BY <3>2, <3>3 DEF Once
    <3>4. ASSUME NEW c \in Codepoints, queue = Append(pending, c) PROVE Once(queue, cp)
      <4>1. /\ DOMAIN queue = (1..Len(pending)) \cup {Len(pending) + 1}
            /\ \A n \in 1..Len(pending) : queue[n] = pending[n]
        BY <3>1, <3>4
      <4> QED
        BY <3>1, <3>2, <4>1 DEF Once
    <3> QED
      BY <2>1, <3>3, <3>4
  <2>4. new \in Seq(Codepoints) /\ Ascending(new) /\ Once(new, cp)
    BY <2>3, PendingSorted
  <2>5. Old(b) = files[b] \/ Old(b) = NoFile
    BY DEF Old
  <2>6. FileOK(b, Old(b))
    BY <1>1, <2>5, NoFileOK
  <2>7. Old(b).entries \in Seq(GlyphEntry) /\ Sorted(Old(b).entries) /\ Sized(Old(b).entries)
    BY <2>6, FileTyped DEF FileOK
  <2>8. f.entries = Laid(m)
    BY <2>2 DEF Written
  <2>9. m \in Seq(GlyphEntry)
    BY <2>4, <2>7, MergeResult
  <2>10. Places(f.entries, cp) = Places(m, cp)
    <3> HIDE DEF m
    <3>1. Laid(m) \in Seq(GlyphEntry) /\ Len(Laid(m)) = Len(m)
          /\ \A i \in 1..Len(m) : Laid(m)[i].codepoint = m[i].codepoint
      BY <2>9, LaidOut
    <3>2. DOMAIN Laid(m) = 1..Len(m) /\ DOMAIN m = 1..Len(m)
      BY <2>9, <3>1
    <3> QED
      BY <2>8, <3>1, <3>2 DEF Places
  <2> HIDE DEF new
  <2>11. IF cp \in Codes(Old(b).entries)
           THEN Cardinality(Places(m, cp)) <= Cardinality(Places(Old(b).entries, cp))
           ELSE Cardinality(Places(m, cp)) <= 1
    BY <1>2, <2>4, <2>7, MergeCounts
  <2>12. Cardinality(Places(m, cp)) \in Nat
    <3>1. /\ DOMAIN m = 1..Len(m) /\ Len(m) \in Nat
          /\ Places(m, cp) \in SUBSET DOMAIN m
      BY <2>9 DEF Places
    <3> HIDE DEF m
    <3> QED
      BY <3>1, FinitePlaces
  <2> HIDE DEF m, had
  <2>13. CASE Old(b) = files[b]
    BY <1>2, <2>10, <2>11, <2>13 DEF had
  <2>14. CASE Old(b) = NoFile
    <3>1. cp \notin Codes(Old(b).entries)
      BY <2>14, NoFileOK DEF Codes
    <3>2. Cardinality(Places(m, cp)) <= Cardinality(had)
      BY <1>3, <2>11, <2>12, <3>1
    <3> QED
      BY <2>10, <3>2 DEF had
  <2> QED
    BY <2>5, <2>13, <2>14
<1> QED
    BY <1>4, <1>5

\* A glyph gets a second entry in its block only by being drawn twice before a
\* flush (MSDFCache.cpp:351-367).
THEOREM NoDuplicatesByMerging == Spec => DuplicatesOnlyFromPending
<1>1. IInv /\ [Next]_vars =>
        [\A b \in BlockIds : \A cp \in Glyphs(b) :
         LET Count(es) == Cardinality({i \in DOMAIN es : es[i].codepoint = cp})
             queued == Cardinality({i \in DOMAIN pending : pending[i] = cp})
         IN  queued = 0 => Count(files[b].entries)' <= Count(files[b].entries)]_vars
  <2> SUFFICES ASSUME IInv, [Next]_vars, NEW b \in BlockIds, NEW cp \in Glyphs(b),
                      Cardinality({i \in DOMAIN pending : pending[i] = cp}) = 0
               PROVE  Cardinality({i \in DOMAIN files'[b].entries : files'[b].entries[i].codepoint = cp})
                        <= Cardinality({i \in DOMAIN files[b].entries : files[b].entries[i].codepoint = cp})
    BY Zenon
  <2>1. PICK f : f = files'[b]
    OBVIOUS
  <2>2. Cardinality(Places(f.entries, cp)) <= Cardinality(Places(files[b].entries, cp))
    BY <2>1, DuplicateStep
  <2> QED
    BY <2>1, <2>2 DEF Places
<1> QED
    BY Invariant, <1>1, PTL DEF Spec, DuplicatesOnlyFromPending
===============================================================================
