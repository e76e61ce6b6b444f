----------------------------- MODULE SmmProofs -----------------------------
(***************************************************************************)
(* Theorems about the shared-memory buffer manager, for every set of       *)
(* groups, buffers, request sizes and faults.                              *)
(*                                                                         *)
(* The inductive invariant is the conjunction of the type invariant, of    *)
(* PoolTiled and of QueuesMatchOwner: what return_to_pool leaves behind is *)
(* well formed because the buffer it is given is linked in a tiled pool,   *)
(* and it is, because the queues hold the buffers that groups own.         *)
(*                                                                         *)
(* The second half shows that the manager implements Extents, a grant of   *)
(* disjoint extents.  It rests on one fact about get_from_pool and one     *)
(* about return_to_pool: neither moves, shortens or stretches a buffer     *)
(* that some group owns, although both insert, remove and pull back the    *)
(* holes between them.  An extent is not a field of a buffer:              *)
(* calc_buffer_size computes it from the offset of whatever is linked next.*)
(***************************************************************************)
EXTENDS Smm, SequenceTheorems, TLAPS

----------------------------------------------------------------------------
(* Sequences *)

\* Removing an element shifts those after it down.
LEMMA RemoveAtSeq ==
  ASSUME NEW S, NEW s \in Seq(S), NEW i \in 1 .. Len(s)
  PROVE  /\ RemoveAt(s, i) \in Seq(S)
         /\ Len(RemoveAt(s, i)) = Len(s) - 1
         /\ \A j \in 1 .. (Len(s) - 1) :
              RemoveAt(s, i)[j] = IF j < i THEN s[j] ELSE s[j + 1]
<1> DEFINE p == SubSeq(s, 1, i - 1)
           q == SubSeq(s, i + 1, Len(s))
<1>1. Len(s) \in Nat /\ \A k \in 1 .. Len(s) : s[k] \in S
  BY LenProperties, ElementOfSeq
<1>2. /\ p \in Seq(S)
      /\ Len(p) = i - 1
      /\ \A k \in 1 .. (i - 1) : p[k] = s[k]
  BY <1>1, SubSeqProperties
<1>3. /\ q \in Seq(S)
      /\ Len(q) = Len(s) - i
      /\ \A k \in 1 .. (Len(s) - i) : q[k] = s[k + i]
  BY <1>1, SubSeqProperties
<1> HIDE DEF p, q
<1>4. /\ p \o q \in Seq(S)
      /\ Len(p \o q) = Len(p) + Len(q)
      /\ \A j \in 1 .. (Len(p) + Len(q)) :
           (p \o q)[j] = IF j <= Len(p) THEN p[j] ELSE q[j - Len(p)]
  BY <1>2, <1>3, ConcatProperties
<1>5. Len(p) + Len(q) = Len(s) - 1
  BY <1>1, <1>2, <1>3
<1>6. /\ p \o q \in Seq(S)
      /\ Len(p \o q) = Len(s) - 1
      /\ \A j \in 1 .. (Len(s) - 1) :
           (p \o q)[j] = IF j <= i - 1 THEN p[j] ELSE q[j - (i - 1)]
  BY <1>4, <1>5, <1>2
<1>7. ASSUME NEW j \in 1 .. (Len(s) - 1)
      PROVE  (p \o q)[j] = IF j < i THEN s[j] ELSE s[j + 1]
  <2>1. CASE j < i
    BY <2>1, <1>1, <1>2, <1>6
  <2>2. CASE ~(j < i)
    <3>1. /\ j - (i - 1) \in 1 .. (Len(s) - i)
          /\ (j - (i - 1)) + i = j + 1
          /\ ~(j <= i - 1)
      BY <2>2, <1>1
    <3>2. (p \o q)[j] = q[j - (i - 1)]
      BY <3>1, <1>6
    <3>3. q[j - (i - 1)] = s[(j - (i - 1)) + i]
      BY <3>1, <1>3
    <3>4. QED  BY <2>2, <3>1, <3>2, <3>3
  <2>3. QED  BY <2>1, <2>2
<1>8. QED  BY <1>6, <1>7 DEF RemoveAt, p, q

\* Inserting an element shifts those from its place on up.
LEMMA InsertAtSeq ==
  ASSUME NEW S, NEW s \in Seq(S), NEW i \in 1 .. (Len(s) + 1), NEW e \in S
  PROVE  /\ InsertAt(s, i, e) \in Seq(S)
         /\ Len(InsertAt(s, i, e)) = Len(s) + 1
         /\ \A j \in 1 .. (Len(s) + 1) :
              InsertAt(s, i, e)[j]
                = IF j < i THEN s[j] ELSE IF j = i THEN e ELSE s[j - 1]
<1> DEFINE p == SubSeq(s, 1, i - 1)
           q == SubSeq(s, i, Len(s))
           r == p \o <<e>>
<1>1. Len(s) \in Nat /\ \A k \in 1 .. Len(s) : s[k] \in S
  BY LenProperties, ElementOfSeq
<1>2. /\ p \in Seq(S)
      /\ Len(p) = i - 1
      /\ \A k \in 1 .. (i - 1) : p[k] = s[k]
  BY <1>1, SubSeqProperties
<1>3. /\ q \in Seq(S)
      /\ Len(q) = Len(s) - i + 1
      /\ \A k \in 1 .. (Len(s) - i + 1) : q[k] = s[k + i - 1]
  BY <1>1, SubSeqProperties
<1>4. <<e>> \in Seq(S) /\ Len(<<e>>) = 1 /\ <<e>>[1] = e
  OBVIOUS
<1> HIDE DEF p, q
<1>5. /\ r \in Seq(S)
      /\ Len(r) = i
      /\ \A j \in 1 .. i : r[j] = IF j <= i - 1 THEN p[j] ELSE <<e>>[j - (i - 1)]
  BY <1>1, <1>2, <1>4, ConcatProperties
<1>6. \A j \in 1 .. i : r[j] = IF j < i THEN s[j] ELSE e
  BY <1>1, <1>2, <1>4, <1>5
<1> HIDE DEF r
<1>7. /\ r \o q \in Seq(S)
      /\ Len(r \o q) = Len(s) + 1
      /\ \A j \in 1 .. (Len(s) + 1) :
           (r \o q)[j] = IF j <= i THEN r[j] ELSE q[j - i]
  BY <1>1, <1>3, <1>5, ConcatProperties
<1>8. ASSUME NEW j \in 1 .. (Len(s) + 1)
      PROVE  (r \o q)[j] = IF j < i THEN s[j] ELSE IF j = i THEN e ELSE s[j - 1]
  <2>1. CASE j <= i
    BY <2>1, <1>1, <1>6, <1>7
  <2>2. CASE ~(j <= i)
    <3>1. j - i \in 1 .. (Len(s) - i + 1) /\ (j - i) + i - 1 = j - 1
      BY <2>2, <1>1
    <3>2. (r \o q)[j] = q[j - i]
      BY <2>2, <1>7
    <3>3. q[j - i] = s[(j - i) + i - 1]
      BY <3>1, <1>3
    <3>4. QED  BY <2>2, <3>1, <3>2, <3>3
  <2>3. QED  BY <2>1, <2>2
<1>9. QED  BY <1>7, <1>8 DEF InsertAt, p, q, r

----------------------------------------------------------------------------
(* Rounding *)

\* A request is rounded up to a positive size.
LEMMA RoundUpPositive ==
  ASSUME NEW n \in Nat, NEW b \in Nat \ {0}
  PROVE  RoundUp(n, b) \in Nat \ {0}
<1> DEFINE m == (IF n = 0 THEN 1 ELSE n) + b - 1
           q == m \div b
<1>1. m \in Nat /\ m >= b
  OBVIOUS
<1>2. q \in Int /\ m < b * q + b /\ b * q <= m
  BY <1>1
<1>3. q > 0
  BY <1>1, <1>2
<1>4. q * b \in Nat \ {0}
  BY <1>3, <1>2
<1>5. QED  BY <1>4 DEF RoundUp

----------------------------------------------------------------------------
(* Tilings of a pool *)

\* A buffer is linked in a tiled pool once.
LEMMA TilesOnce ==
  ASSUME NEW al \in Seq(Bufs), NEW off \in [Bufs -> Nat], NEW top \in Nat,
         Tiles(al, off, top), NEW i \in 1 .. Len(al), NEW j \in 1 .. Len(al),
         al[i] = al[j]
  PROVE  i = j
<1>1. Len(al) \in Nat /\ al[i] \in Bufs
  BY LenProperties, ElementOfSeq
<1>2. ~(i < j) /\ ~(j < i)
  BY <1>1 DEF Tiles
<1>3. QED  BY <1>1, <1>2

\* Any buffer but the first can leave a tiling: the one before it grows.
LEMMA TilesRemove ==
  ASSUME NEW al \in Seq(Bufs), NEW off \in [Bufs -> Nat], NEW top \in Nat,
         Tiles(al, off, top), NEW i \in 2 .. Len(al)
  PROVE  Tiles(RemoveAt(al, i), off, top)
<1> DEFINE r == RemoveAt(al, i)
           Old(j) == IF j < i THEN j ELSE j + 1
<1>1. Len(al) \in Nat /\ i \in 1 .. Len(al)
  BY LenProperties
<1>2. /\ Len(r) = Len(al) - 1
      /\ \A j \in 1 .. (Len(al) - 1) : r[j] = IF j < i THEN al[j] ELSE al[j + 1]
  BY <1>1, RemoveAtSeq
<1>3. \A j \in 1 .. Len(r) : r[j] = al[Old(j)] /\ Old(j) \in 1 .. Len(al)
  BY <1>1, <1>2
<1>4. \A j, k \in 1 .. Len(r) : j < k => Old(j) < Old(k)
  BY <1>1, <1>2
<1>5. Len(r) > 0 /\ Old(1) = 1
  BY <1>1, <1>2
<1> HIDE DEF r, Old
<1>6. \A j, k \in 1 .. Len(r) : j < k => off[r[j]] < off[r[k]]
  BY <1>3, <1>4 DEF Tiles
<1>7. \A j \in 1 .. Len(r) : off[r[j]] < top
  BY <1>3 DEF Tiles
<1>8. off[r[1]] = 0
  BY <1>1, <1>2, <1>3, <1>5 DEF Tiles
<1>9. QED  BY <1>5, <1>6, <1>7, <1>8 DEF Tiles, r

\* A new buffer inside the extent of another can join a tiling.
LEMMA TilesInsert ==
  ASSUME NEW al \in Seq(Bufs), NEW off \in [Bufs -> Nat], NEW top \in Nat,
         Tiles(al, off, top), NEW i \in 1 .. Len(al),
         NEW b \in Bufs, b \notin ToSet(al), NEW at \in Nat,
         off[al[i]] < at,
         i < Len(al) => at < off[al[i + 1]],
         at < top
  PROVE  Tiles(InsertAt(al, i + 1, b), [off EXCEPT ![b] = at], top)
<1> DEFINE r == InsertAt(al, i + 1, b)
           f == [off EXCEPT ![b] = at]
           Old(j) == IF j < i + 1 THEN j ELSE j - 1
<1>1. /\ Len(al) \in Nat
      /\ \A j \in 1 .. Len(al) : al[j] \in Bufs /\ al[j] # b
  BY LenProperties, ElementOfSeq DEF ToSet
<1>2. /\ Len(r) = Len(al) + 1
      /\ \A j \in 1 .. (Len(al) + 1) :
           r[j] = IF j < i + 1 THEN al[j] ELSE IF j = i + 1 THEN b ELSE al[j - 1]
  <2>1. ASSUME NEW k \in 1 .. (Len(al) + 1)
        PROVE  /\ Len(InsertAt(al, k, b)) = Len(al) + 1
               /\ \A j \in 1 .. (Len(al) + 1) :
                    InsertAt(al, k, b)[j]
                      = IF j < k THEN al[j] ELSE IF j = k THEN b ELSE al[j - 1]
    BY InsertAtSeq
  <2>2. i + 1 \in 1 .. (Len(al) + 1)
    BY <1>1
  <2>3. QED  BY <2>1, <2>2
<1>3. f[b] = at /\ \A j \in 1 .. Len(al) : f[al[j]] = off[al[j]]
  BY <1>1
<1>4. /\ r[i + 1] = b
      /\ \A j \in 1 .. Len(r) :
           j # i + 1 => r[j] = al[Old(j)] /\ Old(j) \in 1 .. Len(al)
  <2> HIDE DEF r
  <2>1. r[i + 1] = b
    BY <1>1, <1>2
  <2>2. ASSUME NEW j \in 1 .. Len(r), j # i + 1
        PROVE  r[j] = al[Old(j)] /\ Old(j) \in 1 .. Len(al)
    BY <2>2, <1>1, <1>2
  <2>3. QED  BY <2>1, <2>2
<1>5. \A j, k \in 1 .. Len(r) :
        j < k /\ j # i + 1 /\ k # i + 1 => Old(j) < Old(k)
  BY <1>1, <1>2, SMTT(20)
<1>6. \A j \in 1 .. Len(r) :
        /\ j < i + 1 => Old(j) <= i
        /\ j > i + 1 => i < Len(al) /\ Old(j) >= i + 1
  BY <1>1, <1>2
<1>7. Len(r) > 0 /\ 1 # i + 1 /\ 1 \in 1 .. Len(r) /\ Old(1) = 1
  BY <1>1, <1>2
<1>8. Len(r) \in Nat
  BY <1>1, <1>2
<1> HIDE DEF r, f, Old
<1>9. \A j \in 1 .. Len(r) : j # i + 1 => f[r[j]] = off[al[Old(j)]]
  BY <1>3, <1>4
<1>10. f[r[i + 1]] = at
  BY <1>3, <1>4
<1>11. \A j \in 1 .. Len(al) : off[al[j]] \in Nat
  BY <1>1
<1>12. \A m \in 1 .. Len(al) :
         /\ m <= i => off[al[m]] < at
         /\ i < Len(al) /\ m >= i + 1 => at < off[al[m]]
  <2>1. ASSUME NEW m \in 1 .. Len(al), m <= i
        PROVE  off[al[m]] < at
    <3>1. m = i \/ off[al[m]] < off[al[i]]
      BY <2>1, <1>1 DEF Tiles
    <3>2. QED  BY <3>1, <1>11
  <2>2. ASSUME NEW m \in 1 .. Len(al), i < Len(al), m >= i + 1
        PROVE  at < off[al[m]]
    <3>1. i + 1 \in 1 .. Len(al)
      BY <2>2, <1>1
    <3>2. m = i + 1 \/ off[al[i + 1]] < off[al[m]]
      BY <3>1, <2>2, <1>1 DEF Tiles
    <3>3. QED  BY <3>1, <3>2, <2>2, <1>11
  <2>3. QED  BY <2>1, <2>2
<1>13. ASSUME NEW j \in 1 .. Len(r), NEW k \in 1 .. Len(r), j < k
       PROVE  f[r[j]] < f[r[k]]
  <2>1. CASE j # i + 1 /\ k # i + 1
    <3>1. Old(j) \in 1 .. Len(al) /\ Old(k) \in 1 .. Len(al) /\ Old(j) < Old(k)
      BY <2>1, <1>4, <1>5, <1>13
    <3>2. off[al[Old(j)]] < off[al[Old(k)]]
      BY <3>1 DEF Tiles
    <3>3. QED  BY <3>2, <2>1, <1>9
  <2>2. CASE j = i + 1
    <3>1. k > i + 1 /\ k # i + 1
      BY <2>2, <1>13, <1>8
    <3>2. /\ i < Len(al) /\ Old(k) >= i + 1 /\ Old(k) \in 1 .. Len(al)
          /\ f[r[k]] = off[al[Old(k)]]
      BY <3>1, <1>4, <1>6, <1>9
    <3>3. QED  BY <3>2, <2>2, <1>10, <1>12
  <2>3. CASE k = i + 1
    <3>1. j < i + 1 /\ j # i + 1
      BY <2>3, <1>13, <1>8
    <3>2. /\ Old(j) <= i /\ Old(j) \in 1 .. Len(al)
          /\ f[r[j]] = off[al[Old(j)]]
      BY <3>1, <1>4, <1>6, <1>9
    <3>3. QED  BY <3>2, <2>3, <1>10, <1>12
  <2>4. QED  BY <2>1, <2>2, <2>3
<1>14. \A j \in 1 .. Len(r) : f[r[j]] < top
  BY <1>4, <1>9, <1>10 DEF Tiles
<1>15. f[r[1]] = 0
  BY <1>1, <1>4, <1>7, <1>9 DEF Tiles
<1>16. QED  BY <1>7, <1>13, <1>14, <1>15 DEF Tiles, r, f

\* Offsets of buffers that are not linked do not matter.
LEMMA TilesAgree ==
  ASSUME NEW al \in Seq(Bufs), NEW off, NEW f, NEW top,
         Tiles(al, off, top), \A b \in ToSet(al) : f[b] = off[b]
  PROVE  Tiles(al, f, top)
<1>1. Len(al) \in Nat /\ \A i \in 1 .. Len(al) : f[al[i]] = off[al[i]]
  BY LenProperties DEF ToSet
<1>2. QED  BY <1>1 DEF Tiles

\* A buffer can be pulled back, as long as it stays after the one before it.
LEMMA TilesPull ==
  ASSUME NEW al \in Seq(Bufs), NEW off \in [Bufs -> Nat], NEW top \in Nat,
         Tiles(al, off, top), NEW i \in 1 .. Len(al), i + 1 \in 1 .. Len(al),
         NEW at \in Nat, off[al[i]] < at, at <= off[al[i + 1]]
  PROVE  Tiles(al, [off EXCEPT ![al[i + 1]] = at], top)
<1> DEFINE f == [off EXCEPT ![al[i + 1]] = at]
<1>1. /\ Len(al) \in Nat
      /\ \A j \in 1 .. Len(al) : al[j] \in Bufs /\ off[al[j]] \in Nat
  BY LenProperties, ElementOfSeq
<1>2. \A j \in 1 .. Len(al) : j # i + 1 => al[j] # al[i + 1]
  BY TilesOnce
<1>3. f[al[i + 1]] = at
  BY <1>1
<1>4. \A j \in 1 .. Len(al) : j # i + 1 => f[al[j]] = off[al[j]]
  BY <1>1, <1>2
<1> HIDE DEF f
<1>5. ASSUME NEW j \in 1 .. Len(al), NEW k \in 1 .. Len(al), j < k
      PROVE  f[al[j]] < f[al[k]]
  <2>1. off[al[j]] < off[al[k]]
    BY <1>5 DEF Tiles
  <2>2. CASE j # i + 1 /\ k # i + 1
    BY <2>1, <2>2, <1>4
  <2>3. CASE j = i + 1
    BY <2>1, <2>3, <1>1, <1>3, <1>4, <1>5
  <2>4. CASE k = i + 1
    <3>1. j = i \/ off[al[j]] < off[al[i]]
      BY <2>4, <1>1, <1>5 DEF Tiles
    <3>2. f[al[j]] = off[al[j]]
      <4>1. j # i + 1
        BY <2>4, <1>1, <1>5
      <4>2. QED  BY <4>1, <1>4
    <3>3. QED  BY <3>1, <3>2, <2>4, <1>1, <1>3
  <2>5. QED  BY <2>2, <2>3, <2>4
<1>6. \A j \in 1 .. Len(al) : f[al[j]] < top
  BY <1>1, <1>3, <1>4, SMTT(20) DEF Tiles
<1>7. f[al[1]] = 0 /\ Len(al) > 0
  <2>1. 1 \in 1 .. Len(al) /\ 1 # i + 1
    BY <1>1
  <2>2. QED  BY <2>1, <1>1, <1>4 DEF Tiles
<1>8. QED  BY <1>1, <1>5, <1>6, <1>7 DEF Tiles, f

\* A new buffer at the end of the memory is the whole of what is added.
LEMMA TilesAppend ==
  ASSUME NEW al \in Seq(Bufs), NEW off \in [Bufs -> Nat], NEW top \in Nat,
         Tiles(al, off, top), NEW b \in Bufs, b \notin ToSet(al),
         NEW sz \in Nat \ {0}
  PROVE  Tiles(Append(al, b),
               [off EXCEPT ![b] = IF al = <<>> THEN 0 ELSE top],
               top + sz)
<1> DEFINE r == Append(al, b)
           at == IF al = <<>> THEN 0 ELSE top
           f == [off EXCEPT ![b] = at]
<1>1. /\ Len(al) \in Nat
      /\ \A j \in 1 .. Len(al) : al[j] \in Bufs /\ al[j] # b
      /\ al = <<>> <=> Len(al) = 0
  BY LenProperties, ElementOfSeq, EmptySeq DEF ToSet
<1>2. at = top
  BY <1>1 DEF Tiles
<1>3. f[b] = top /\ \A j \in 1 .. Len(al) : f[al[j]] = off[al[j]]
  BY <1>1, <1>2
<1>4. /\ Len(r) = Len(al) + 1
      /\ r[Len(al) + 1] = b
      /\ \A j \in 1 .. Len(al) : r[j] = al[j]
  OBVIOUS
<1> HIDE DEF r, f, at
<1>5. \A j \in 1 .. Len(al) : f[r[j]] = off[al[j]] /\ off[al[j]] \in Nat
  BY <1>1, <1>3, <1>4
<1>6. f[r[Len(al) + 1]] = top
  BY <1>3, <1>4
<1>7. ASSUME NEW j \in 1 .. Len(r), NEW k \in 1 .. Len(r), j < k
      PROVE  f[r[j]] < f[r[k]]
  <2>1. CASE k <= Len(al)
    <3>1. j \in 1 .. Len(al) /\ k \in 1 .. Len(al)
      BY <2>1, <1>1, <1>4, <1>7
    <3>2. QED  BY <3>1, <1>5, <1>7 DEF Tiles
  <2>2. CASE k = Len(al) + 1
    <3>1. j \in 1 .. Len(al)
      BY <2>2, <1>1, <1>4, <1>7
    <3>2. QED  BY <3>1, <2>2, <1>5, <1>6 DEF Tiles
  <2>3. QED  BY <2>1, <2>2, <1>1, <1>4
<1>8. \A j \in 1 .. Len(r) : f[r[j]] < top + sz
  BY <1>1, <1>4, <1>5, <1>6 DEF Tiles
<1>9. f[r[1]] = 0
  BY <1>1, <1>4, <1>5, <1>6 DEF Tiles
<1>10. QED  BY <1>1, <1>4, <1>7, <1>8, <1>9 DEF Tiles, r, f, at

----------------------------------------------------------------------------
(* get_from_pool *)

\* What a group owns is linked in the pool.
OwnedLinked == \A b \in Bufs : owner[b] # NoGroup => b \in ToSet(allocd)

\* The types of the pool's variables.
PoolTypes ==
  /\ allocd \in Seq(Bufs)
  /\ offset \in [Bufs -> Nat]
  /\ active \in BOOLEAN
  /\ poolSize \in Nat
  /\ outdated \in BOOLEAN

\* An empty list is one without elements.
LEMMA EmptyList ==
  ASSUME NEW al \in Seq(Bufs)
  PROVE  /\ Len(al) \in Nat
         /\ al = <<>> <=> Len(al) = 0
         /\ DOMAIN al = 1 .. Len(al)
         /\ \A i \in 1 .. Len(al) : al[i] \in Bufs /\ al[i] \in ToSet(al)
         /\ \A b \in ToSet(al) : \E i \in 1 .. Len(al) : al[i] = b
  BY LenProperties, ElementOfSeq, EmptySeq DEF ToSet

\* Places next to a place in a list.
LEMMA NextPlace ==
  ASSUME NEW n \in Nat, NEW i \in 1 .. n
  PROVE  /\ i + 1 \in 1 .. (n + 1)
         /\ i # n => i + 1 \in 1 .. n /\ i < n
         /\ i < n => i + 1 \in 1 .. n /\ i # n
         /\ i # 1 => i - 1 \in 1 .. n /\ i \in 2 .. n
  OBVIOUS

\* The room that get_from_pool finds is a buffer that no group owns, linked
\* in a pool that it leaves tiled and from which it unlinks nothing.
LEMMA PlaceTiles ==
  ASSUME PoolTypes, PoolTiled, OwnedLinked,
         NEW b \in Bufs, NEW sz \in Nat \ {0}, Place(b, sz)
  PROVE  /\ PoolTypes' /\ PoolTiled'
         /\ ToSet(allocd) \subseteq ToSet(allocd')
         /\ b \in ToSet(allocd')
         /\ owner[b] = NoGroup
<1> USE DEF PoolTypes
<1>1. /\ Len(allocd) \in Nat
      /\ allocd = <<>> <=> Len(allocd) = 0
      /\ DOMAIN allocd = 1 .. Len(allocd)
      /\ \A i \in 1 .. Len(allocd) : allocd[i] \in Bufs /\ allocd[i] \in ToSet(allocd)
  BY EmptyList
<1>2. Tiles(allocd, offset, poolSize)
  BY DEF PoolTiled
<1>3. ASSUME NEW i \in 1 .. Len(allocd), allocd[i] = b, FirstFit(i, sz)
      PROVE  owner[b] = NoGroup /\ b \in ToSet(allocd)
  BY <1>1, <1>3 DEF FirstFit, Fits, IsFree
<1>4. CASE PlaceExact(b, sz) \/ PlaceWhole(b, sz)
  BY <1>1, <1>3, <1>4 DEF PlaceExact, PlaceWhole, poolVars, PoolTiled
<1>5. CASE PlacePullBack(b, sz)
  <2>1. PICK i \in 1 .. Len(allocd) :
          /\ allocd[i] = b /\ FirstFit(i, sz) /\ SizeAt(i) > sz
          /\ i < Len(allocd)
          /\ offset' = [offset EXCEPT ![allocd[i + 1]] = @ - (SizeAt(i) - sz)]
    BY <1>1, <1>5 DEF PlacePullBack
  <2> DEFINE at == offset[allocd[i]] + sz
  <2>2. /\ i + 1 \in 1 .. Len(allocd) /\ i # Len(allocd)
        /\ offset[allocd[i]] \in Nat /\ offset[allocd[i + 1]] \in Nat
    <3>1. i < Len(allocd) /\ Len(allocd) \in Nat /\ i \in 1 .. Len(allocd)
      BY <1>1, <2>1, Zenon
    <3> HIDE DEF PoolTypes
    <3>2. i + 1 \in 1 .. Len(allocd) /\ i # Len(allocd)
      BY <3>1, NextPlace, Zenon
    <3>3. offset \in [Bufs -> Nat]
      BY DEF PoolTypes
    <3>4. QED  BY <1>1, <3>1, <3>2, <3>3
  <2>3. SizeAt(i) = offset[allocd[i + 1]] - offset[allocd[i]]
    BY <2>2 DEF SizeAt
  <2>4. offset[allocd[i + 1]] - (SizeAt(i) - sz) = at /\ at \in Nat
    BY <2>2, <2>3
  <2>5. offset' = [offset EXCEPT ![allocd[i + 1]] = at]
    BY <2>1, <2>4
  <2>6. offset[allocd[i]] < at /\ at <= offset[allocd[i + 1]]
    BY <2>1, <2>2, <2>3
  <2> HIDE DEF at
  <2>7. Tiles(allocd, [offset EXCEPT ![allocd[i + 1]] = at], poolSize)
    BY <1>2, <2>2, <2>4, <2>6, TilesPull
  <2>8. UNCHANGED <<allocd, active, poolSize, outdated>>
    BY <1>5 DEF PlacePullBack
  <2>9. offset' \in [Bufs -> Nat]
    BY <1>1, <2>2, <2>4, <2>5
  <2>10. QED  BY <1>3, <2>1, <2>5, <2>7, <2>8, <2>9 DEF PoolTiled
<1>6. CASE PlaceSplit(b, sz)
  <2>1. PICK i \in 1 .. Len(allocd), rest \in Fresh :
          /\ allocd[i] = b /\ FirstFit(i, sz) /\ SizeAt(i) > sz
          /\ allocd' = InsertAt(allocd, i + 1, rest)
          /\ offset' = [offset EXCEPT ![rest] = offset[b] + sz]
    BY <1>1, <1>6 DEF PlaceSplit
  <2> DEFINE at == offset[b] + sz
  <2>2. rest \in Bufs /\ rest \notin ToSet(allocd) /\ at \in Nat
    BY DEF Fresh
  <2>3. /\ offset[allocd[i]] < at
        /\ i < Len(allocd) => at < offset[allocd[i + 1]]
        /\ at < poolSize
    <3>1. offset[b] \in Nat /\ offset[allocd[i]] = offset[b]
      BY <2>1
    <3>2. CASE i = Len(allocd)
      BY <3>1, <3>2, <2>1 DEF SizeAt
    <3>3. CASE i # Len(allocd)
      <4>1. i + 1 \in 1 .. Len(allocd)
        BY <3>3, <1>1, NextPlace
      <4>2. offset[allocd[i + 1]] \in Nat /\ offset[allocd[i + 1]] < poolSize
        BY <4>1, <1>1, <1>2 DEF Tiles
      <4>3. at < offset[allocd[i + 1]]
        BY <3>1, <3>3, <4>2, <2>1 DEF SizeAt
      <4>4. QED  BY <3>1, <4>2, <4>3
    <3>4. QED  BY <3>2, <3>3
  <2> HIDE DEF at
  <2>4. Tiles(InsertAt(allocd, i + 1, rest), [offset EXCEPT ![rest] = at], poolSize)
    BY <1>2, <2>2, <2>3, TilesInsert
  <2>5. UNCHANGED <<active, poolSize, outdated>>
    BY <1>6 DEF PlaceSplit
  <2>6. /\ allocd' \in Seq(Bufs)
        /\ \A j \in 1 .. Len(allocd) : \E k \in 1 .. Len(allocd') : allocd'[k] = allocd[j]
    <3>1. ASSUME NEW n \in 1 .. (Len(allocd) + 1)
          PROVE  /\ InsertAt(allocd, n, rest) \in Seq(Bufs)
                 /\ Len(InsertAt(allocd, n, rest)) = Len(allocd) + 1
                 /\ \A j \in 1 .. (Len(allocd) + 1) :
                      InsertAt(allocd, n, rest)[j]
                        = IF j < n THEN allocd[j]
                          ELSE IF j = n THEN rest ELSE allocd[j - 1]
      <4>1. allocd \in Seq(Bufs) /\ rest \in Bufs
        BY <2>2
      <4> HIDE DEF PoolTypes
      <4>2. QED  BY <4>1, InsertAtSeq
    <3>2. i + 1 \in 1 .. (Len(allocd) + 1)
      BY <1>1, NextPlace
    <3>3. /\ allocd' \in Seq(Bufs)
          /\ Len(allocd') = Len(allocd) + 1
          /\ \A j \in 1 .. (Len(allocd) + 1) :
               allocd'[j] = IF j < i + 1 THEN allocd[j]
                            ELSE IF j = i + 1 THEN rest ELSE allocd[j - 1]
      BY <3>1, <3>2, <2>1
    <3>4. ASSUME NEW j \in 1 .. Len(allocd)
          PROVE  \E k \in 1 .. Len(allocd') : allocd'[k] = allocd[j]
      <4>1. CASE j < i + 1
        <5>1. j \in 1 .. (Len(allocd) + 1) /\ allocd'[j] = allocd[j]
          BY <4>1, <3>3, <1>1
        <5>2. QED  BY <5>1, <3>3
      <4>2. CASE ~(j < i + 1)
        <5>1. j + 1 \in 1 .. (Len(allocd) + 1) /\ allocd'[j + 1] = allocd[(j + 1) - 1]
          BY <4>2, <3>3, <1>1
        <5>2. QED  BY <5>1, <3>3, SMTT(20)
      <4>3. QED  BY <4>1, <4>2
    <3>5. QED  BY <3>3, <3>4
  <2>7. ToSet(allocd) \subseteq ToSet(allocd')
    <3>1. DOMAIN allocd' = 1 .. Len(allocd')
      BY <2>6, LenProperties
    <3>2. QED  BY <3>1, <2>6, <1>1 DEF ToSet
  <2>8. offset' \in [Bufs -> Nat] /\ offset' = [offset EXCEPT ![rest] = at]
    BY <2>1, <2>2 DEF at
  <2>9. allocd # <<>>
    BY <1>1
  <2>10. QED
    BY <1>3, <2>1, <2>4, <2>5, <2>6, <2>7, <2>8, <2>9 DEF PoolTiled
<1>7. CASE PlaceExtend(b, sz)
  <2> DEFINE n == Len(allocd)
  <2>1. n \in 1 .. Len(allocd) /\ b = allocd[n] /\ owner[b] = NoGroup
    BY <1>1, <1>7 DEF PlaceExtend, LastIsFree, IsFree
  <2>2. SizeAt(n) = poolSize - offset[b] /\ offset[b] \in Nat
    BY <2>1 DEF SizeAt
  <2>3. SizeAt(n) < sz
    <3>1. ~Fits(n, sz)
      BY <1>1, <1>7, <2>1 DEF PlaceExtend, NoFit
    <3>2. QED  BY <3>1, <2>1, <2>2 DEF Fits, IsFree
  <2>4. poolSize' = poolSize + (sz - SizeAt(n))
    BY <1>7 DEF PlaceExtend
  <2>5. poolSize' \in Nat /\ poolSize' > poolSize
    BY <2>2, <2>3, <2>4
  <2>6. UNCHANGED <<allocd, offset, active>> /\ outdated' = TRUE
    BY <1>7 DEF PlaceExtend
  <2>7. Tiles(allocd, offset, poolSize')
    BY <1>1, <1>2, <2>1, <2>5 DEF Tiles
  <2>8. QED  BY <1>1, <2>1, <2>5, <2>6, <2>7 DEF PoolTiled
<1>8. CASE PlaceAppend(b, sz)
  <2>1. b \notin ToSet(allocd) /\ owner[b] = NoGroup
    BY <1>8 DEF PlaceAppend, Fresh, OwnedLinked
  <2>2. /\ allocd' = Append(allocd, b)
        /\ offset' = [offset EXCEPT ![b] = IF allocd = <<>> THEN 0 ELSE poolSize]
        /\ poolSize' = poolSize + sz
        /\ outdated' = TRUE /\ active' = TRUE
    BY <1>8 DEF PlaceAppend
  <2>3. Tiles(Append(allocd, b),
              [offset EXCEPT ![b] = IF allocd = <<>> THEN 0 ELSE poolSize],
              poolSize + sz)
    BY <1>2, <2>1, TilesAppend
  <2>4. allocd' \in Seq(Bufs) /\ offset' \in [Bufs -> Nat] /\ poolSize' \in Nat
    BY <2>2
  <2>5. ToSet(allocd) \subseteq ToSet(allocd') /\ b \in ToSet(allocd')
    <3>1. /\ Len(allocd') = Len(allocd) + 1
          /\ allocd'[Len(allocd) + 1] = b
          /\ \A j \in 1 .. Len(allocd) : allocd'[j] = allocd[j]
          /\ DOMAIN allocd' = 1 .. Len(allocd')
      BY <2>2, <2>4, LenProperties
    <3>2. QED  BY <3>1, <1>1 DEF ToSet
  <2>6. QED  BY <2>1, <2>2, <2>3, <2>4, <2>5 DEF PoolTiled
<1>9. QED  BY <1>4, <1>5, <1>6, <1>7, <1>8 DEF Place

----------------------------------------------------------------------------
(* return_to_pool *)

\* Removing one place of a list unlinks at most what was there.
LEMMA RemoveAtSet ==
  ASSUME NEW S, NEW s \in Seq(S), NEW i \in 1 .. Len(s)
  PROVE  /\ ToSet(RemoveAt(s, i)) \subseteq ToSet(s)
         /\ \A j \in 1 .. Len(s) : j # i => s[j] \in ToSet(RemoveAt(s, i))
<1> DEFINE r == RemoveAt(s, i)
<1>1. Len(s) \in Nat /\ DOMAIN s = 1 .. Len(s)
  BY LenProperties
<1>2. /\ r \in Seq(S)
      /\ Len(r) = Len(s) - 1
      /\ \A j \in 1 .. (Len(s) - 1) : r[j] = IF j < i THEN s[j] ELSE s[j + 1]
  BY RemoveAtSeq
<1> HIDE DEF r
<1>3. DOMAIN r = 1 .. (Len(s) - 1)
  BY <1>2, LenProperties
<1>4. ASSUME NEW j \in 1 .. (Len(s) - 1)
      PROVE  \E k \in 1 .. Len(s) : r[j] = s[k]
  <2>1. CASE j < i
    BY <2>1, <1>1, <1>2
  <2>2. CASE ~(j < i)
    <3>1. j + 1 \in 1 .. Len(s)
      BY <1>1
    <3>2. QED  BY <3>1, <2>2, <1>2
  <2>3. QED  BY <2>1, <2>2
<1>5. ASSUME NEW j \in 1 .. Len(s), j # i
      PROVE  \E k \in 1 .. (Len(s) - 1) : r[k] = s[j]
  <2>1. CASE j < i
    <3>1. j \in 1 .. (Len(s) - 1)
      BY <2>1, <1>1
    <3>2. QED  BY <3>1, <2>1, <1>2
  <2>2. CASE j > i
    <3>1. j - 1 \in 1 .. (Len(s) - 1) /\ ~(j - 1 < i) /\ (j - 1) + 1 = j
      BY <2>2, <1>1
    <3>2. r[j - 1] = s[(j - 1) + 1]
      BY <3>1, <1>2
    <3>3. QED  BY <3>1, <3>2
  <2>3. QED  BY <2>1, <2>2, <1>1, <1>5
<1>6. /\ ToSet(r) = {r[k] : k \in 1 .. (Len(s) - 1)}
      /\ ToSet(s) = {s[k] : k \in 1 .. Len(s)}
  BY <1>1, <1>3 DEF ToSet
<1>7. ToSet(r) \subseteq ToSet(s)
  BY <1>4, <1>6
<1>8. \A j \in 1 .. Len(s) : j # i => s[j] \in ToSet(r)
  BY <1>5, <1>6
<1>9. QED  BY <1>7, <1>8 DEF r

\* What merging leaves is a tiling of the same memory, which holds every
\* other buffer that a group owns, and the hole that b is part of.
LEMMA MergedTiles ==
  ASSUME PoolTypes, PoolTiled, NEW b \in ToSet(allocd)
  PROVE  /\ Merged(b) \in Seq(Bufs)
         /\ Tiles(Merged(b), offset, poolSize)
         /\ ToSet(Merged(b)) \subseteq ToSet(allocd)
         /\ \A c \in ToSet(allocd) :
              owner[c] # NoGroup /\ c # b => c \in ToSet(Merged(b))
         /\ \E d \in ToSet(Merged(b)) : d = b \/ owner[d] = NoGroup
<1> DEFINE i == IndexOf(b)
           n == Len(allocd)
           rest == IF i < n /\ IsFree(i + 1) THEN RemoveAt(allocd, i + 1) ELSE allocd
           m == IF i > 1 /\ IsFree(i - 1) THEN RemoveAt(rest, i) ELSE rest
<1>1. /\ allocd \in Seq(Bufs) /\ offset \in [Bufs -> Nat] /\ poolSize \in Nat
      /\ Tiles(allocd, offset, poolSize)
  BY DEF PoolTypes, PoolTiled
<1>2. /\ n \in Nat
      /\ DOMAIN allocd = 1 .. n
      /\ \A c \in ToSet(allocd) : \E k \in 1 .. n : allocd[k] = c
      /\ \A k \in 1 .. n : allocd[k] \in ToSet(allocd)
  BY <1>1, EmptyList
<1>3. i \in 1 .. n /\ allocd[i] = b
  BY <1>2 DEF IndexOf
<1> HIDE DEF i, n
<1>4. /\ rest \in Seq(Bufs)
      /\ Tiles(rest, offset, poolSize)
      /\ ToSet(rest) \subseteq ToSet(allocd)
      /\ \A k \in 1 .. n : k <= i \/ owner[allocd[k]] # NoGroup => allocd[k] \in ToSet(rest)
      /\ i \in 1 .. Len(rest) /\ \A k \in 1 .. i : rest[k] = allocd[k]
  <2>1. CASE i < n /\ IsFree(i + 1)
    <3>1. i + 1 \in 1 .. n /\ i + 1 \in 2 .. n
      BY <2>1, <1>2, <1>3
    <3>2. rest = RemoveAt(allocd, i + 1)
      BY <2>1
    <3> HIDE DEF rest
    <3>3. ASSUME NEW k \in 2 .. n
          PROVE  /\ RemoveAt(allocd, k) \in Seq(Bufs)
                 /\ Len(RemoveAt(allocd, k)) = n - 1
                 /\ Tiles(RemoveAt(allocd, k), offset, poolSize)
                 /\ \A j \in 1 .. (n - 1) :
                      RemoveAt(allocd, k)[j] = IF j < k THEN allocd[j] ELSE allocd[j + 1]
                 /\ ToSet(RemoveAt(allocd, k)) \subseteq ToSet(allocd)
                 /\ \A j \in 1 .. n : j # k => allocd[j] \in ToSet(RemoveAt(allocd, k))
      <4>1. k \in 1 .. n
        BY <1>2
      <4>2. QED  BY <4>1, <1>1, RemoveAtSeq, RemoveAtSet, TilesRemove DEF n
    <3>4. /\ rest \in Seq(Bufs)
          /\ Len(rest) = n - 1
          /\ Tiles(rest, offset, poolSize)
          /\ \A j \in 1 .. (n - 1) :
               rest[j] = IF j < i + 1 THEN allocd[j] ELSE allocd[j + 1]
          /\ ToSet(rest) \subseteq ToSet(allocd)
          /\ \A j \in 1 .. n : j # i + 1 => allocd[j] \in ToSet(rest)
      BY <3>1, <3>2, <3>3
    <3>5. ASSUME NEW k \in 1 .. n, k <= i \/ owner[allocd[k]] # NoGroup
          PROVE  allocd[k] \in ToSet(rest)
      <4>1. k # i + 1
        BY <3>5, <2>1, <1>2, <1>3 DEF IsFree
      <4>2. QED  BY <4>1, <3>4
    <3>6. i \in 1 .. (n - 1)
      BY <2>1, <1>2, <1>3
    <3>7. ASSUME NEW k \in 1 .. i
          PROVE  rest[k] = allocd[k]
      <4>1. k \in 1 .. (n - 1) /\ k < i + 1
        BY <3>6, <1>2
      <4>2. QED  BY <4>1, <3>4
    <3>8. QED  BY <3>4, <3>5, <3>6, <3>7
  <2>2. CASE ~(i < n /\ IsFree(i + 1))
    BY <2>2, <1>1, <1>2, <1>3 DEF n
  <2>3. QED  BY <2>1, <2>2
<1> HIDE DEF rest
<1>5. b \in ToSet(rest)
  BY <1>2, <1>3, <1>4
<1>6. /\ m \in Seq(Bufs)
      /\ Tiles(m, offset, poolSize)
      /\ ToSet(m) \subseteq ToSet(allocd)
      /\ \A c \in ToSet(allocd) : owner[c] # NoGroup /\ c # b => c \in ToSet(m)
      /\ \E d \in ToSet(m) : d = b \/ owner[d] = NoGroup
  <2>1. CASE i > 1 /\ IsFree(i - 1)
    <3>1. /\ i \in 1 .. Len(rest) /\ i \in 2 .. Len(rest)
          /\ i - 1 \in 1 .. Len(rest) /\ i - 1 # i
          /\ i - 1 \in 1 .. i /\ i - 1 \in 1 .. n
      <4>1. Len(rest) \in Nat
        BY <1>4, LenProperties
      <4>2. QED  BY <4>1, <2>1, <1>2, <1>3, <1>4
    <3>2. m = RemoveAt(rest, i)
      BY <2>1
    <3> HIDE DEF m
    <3>3. /\ m \in Seq(Bufs)
          /\ ToSet(m) \subseteq ToSet(rest)
          /\ \A j \in 1 .. Len(rest) : j # i => rest[j] \in ToSet(m)
      BY <3>1, <3>2, <1>4, RemoveAtSeq, RemoveAtSet
    <3>4. Tiles(m, offset, poolSize)
      BY <3>1, <3>2, <1>1, <1>4, TilesRemove
    <3>5. rest[i] = b
      BY <1>3, <1>4
    <3>6. ASSUME NEW c \in ToSet(allocd), owner[c] # NoGroup, c # b
          PROVE  c \in ToSet(m)
      <4>1. c \in ToSet(rest)
        BY <3>6, <1>2, <1>4
      <4>2. PICK k \in 1 .. Len(rest) : rest[k] = c
        BY <4>1, <1>4, EmptyList
      <4>3. k # i
        BY <4>2, <3>5, <3>6
      <4>4. QED  BY <4>2, <4>3, <3>3
    <3>7. rest[i - 1] \in ToSet(m) /\ owner[rest[i - 1]] = NoGroup
      BY <3>1, <3>3, <2>1, <1>4 DEF IsFree
    <3>8. QED  BY <3>3, <3>4, <3>6, <3>7, <1>4
  <2>2. CASE ~(i > 1 /\ IsFree(i - 1))
    <3>1. m = rest
      BY <2>2
    <3>2. QED  BY <3>1, <1>2, <1>4, <1>5
  <2>3. QED  BY <2>1, <2>2
<1>7. Merged(b) = m
  BY DEF Merged, m, rest, i, n
<1>8. QED  BY <1>6, <1>7

\* The types of the manager's other variables that return_to_pool changes.
ReturnTypes ==
  /\ num \in [Groups -> 0 .. (NumRange - 1)]
  /\ history \in [Groups -> Seq(Bufs)]
  /\ owner \in [Bufs -> Groups \cup {NoGroup}]
  /\ resized \in [Bufs -> BOOLEAN]
  /\ mapped \in BOOLEAN
  /\ mapSize \in Nat
  /\ activeUsed \in 0 .. (SizeRange - 1)

\* purge_history leaves a list of buffers.
LEMMA PurgedType ==
  ASSUME NEW h \in Seq(Bufs), NEW b
  PROVE  Purged(h, b) \in Seq(Bufs)
<1>1. CASE b \in ToSet(h)
  <2> DEFINE k == CHOOSE i \in DOMAIN h : h[i] = b
  <2>1. DOMAIN h = 1 .. Len(h) /\ Len(h) \in Nat
    BY LenProperties
  <2>2. k \in DOMAIN h
    BY <1>1 DEF ToSet
  <2> HIDE DEF k
  <2>3. \A i \in (k + 1) .. Len(h) : h[i] \in Bufs
    BY <2>1, <2>2, ElementOfSeq
  <2>4. SubSeq(h, k + 1, Len(h)) \in Seq(Bufs)
    BY <2>1, <2>2, <2>3, SubSeqProperties
  <2>5. QED  BY <1>1, <2>4 DEF Purged, k
<1>2. CASE b \notin ToSet(h)
  BY <1>2 DEF Purged
<1>3. QED  BY <1>1, <1>2

\* An extent is a number.
LEMMA ExtentType ==
  ASSUME PoolTypes, NEW b \in ToSet(allocd)
  PROVE  SizeAt(IndexOf(b)) \in Int
<1> DEFINE i == IndexOf(b)
<1>1. allocd \in Seq(Bufs) /\ offset \in [Bufs -> Nat] /\ poolSize \in Nat
  BY DEF PoolTypes
<1>2. /\ Len(allocd) \in Nat
      /\ DOMAIN allocd = 1 .. Len(allocd)
      /\ \A k \in 1 .. Len(allocd) : offset[allocd[k]] \in Nat
      /\ \A c \in ToSet(allocd) : \E k \in 1 .. Len(allocd) : allocd[k] = c
  BY <1>1, EmptyList
<1>3. i \in 1 .. Len(allocd)
  BY <1>2 DEF IndexOf
<1> HIDE DEF i
<1>4. i # Len(allocd) => i + 1 \in 1 .. Len(allocd)
  BY <1>2, <1>3, NextPlace
<1>5. SizeAt(i) \in Int
  <2>1. offset[allocd[i]] \in Int
    BY <1>2, <1>3
  <2>2. CASE i = Len(allocd)
    BY <2>1, <2>2, <1>1 DEF SizeAt
  <2>3. CASE i # Len(allocd)
    <3>1. offset[allocd[i + 1]] \in Int
      BY <2>3, <1>2, <1>4
    <3>2. SizeAt(i) = offset[allocd[i + 1]] - offset[allocd[i]]
      BY <2>3 DEF SizeAt
    <3>3. QED  BY <2>1, <3>1, <3>2
  <2>4. QED  BY <2>2, <2>3
<1>6. QED  BY <1>5 DEF i

\* return_to_pool leaves a tiled pool of the buffers that groups still own.
LEMMA ReturnTiles ==
  ASSUME PoolTypes, PoolTiled, OwnedLinked, ReturnTypes,
         NEW b \in Bufs, owner[b] # NoGroup,
         NEW flags \in [Bufs -> BOOLEAN],
         ReturnToPool(b, flags)
  PROVE  /\ PoolTypes' /\ PoolTiled' /\ OwnedLinked' /\ ReturnTypes'
         /\ owner' = [owner EXCEPT ![b] = NoGroup]
<1> DEFINE g    == owner[b]
           m    == Merged(b)
           kept == IF Len(m) = 1 THEN <<>> ELSE m
           gone == ToSet(allocd) \ ToSet(kept)
<1>1. b \in ToSet(allocd)
  BY DEF OwnedLinked
<1>2. /\ m \in Seq(Bufs)
      /\ Tiles(m, offset, poolSize)
      /\ ToSet(m) \subseteq ToSet(allocd)
      /\ \A c \in ToSet(allocd) : owner[c] # NoGroup /\ c # b => c \in ToSet(m)
      /\ \E d \in ToSet(m) : d = b \/ owner[d] = NoGroup
  BY <1>1, MergedTiles
<1>3. /\ num' = [num EXCEPT ![g] = (@ - 1) % NumRange]
      /\ history' = [history EXCEPT ![g] = Purged(@, b)]
      /\ owner' = [owner EXCEPT ![b] = NoGroup]
      /\ activeUsed' = (activeUsed - Reclaimed(b)) % SizeRange
      /\ allocd' = kept
      /\ offset' = [c \in Bufs |-> IF c \in gone THEN 0 ELSE offset[c]]
      /\ resized' = [c \in Bufs |-> c \notin gone /\ flags[c]]
      /\ IF kept = <<>>
           THEN /\ active' = FALSE /\ poolSize' = 0
                /\ mapped' = FALSE /\ mapSize' = 0 /\ outdated' = FALSE
           ELSE UNCHANGED <<active, poolSize, mapVars>>
  BY DEF ReturnToPool
<1> HIDE DEF m
<1>4. Len(m) \in Nat /\ (m = <<>> <=> Len(m) = 0) /\ DOMAIN m = 1 .. Len(m)
  BY <1>2, EmptyList
<1>5. m # <<>>
  <2>1. \E i \in 1 .. Len(m) : TRUE
    BY <1>2, EmptyList
  <2>2. QED  BY <2>1, <1>4
<1>6. kept \in Seq(Bufs) /\ ToSet(kept) \subseteq ToSet(m)
  BY <1>2 DEF ToSet
<1>7. ASSUME NEW c \in Bufs, owner[c] # NoGroup, c # b
      PROVE  c \in ToSet(kept)
  <2>1. c \in ToSet(m)
    BY <1>2, <1>7 DEF OwnedLinked
  <2>2. PICK d \in ToSet(m) : d = b \/ owner[d] = NoGroup
    BY <1>2
  <2>3. PICK i \in 1 .. Len(m), j \in 1 .. Len(m) : m[i] = c /\ m[j] = d
    BY <2>1, <2>2, <1>2, EmptyList
  <2>4. Len(m) # 1
    BY <2>2, <2>3, <1>7, <1>4
  <2>5. QED  BY <2>1, <2>4
<1>8. kept = <<>> => /\ active' = FALSE /\ poolSize' = 0
                     /\ mapped' = FALSE /\ mapSize' = 0 /\ outdated' = FALSE
  <2> HIDE DEF kept, gone
  <2>1. QED  BY <1>3, Zenon
<1>9. PoolTypes'
  <2>1. allocd' \in Seq(Bufs)
    BY <1>3, <1>6
  <2>2. offset' \in [Bufs -> Nat]
    BY <1>3 DEF PoolTypes
  <2>3. active' \in BOOLEAN /\ poolSize' \in Nat /\ outdated' \in BOOLEAN
    <3>1. CASE kept = <<>>
      <4> HIDE DEF kept, gone
      <4>1. active' = FALSE /\ outdated' = FALSE /\ poolSize' = 0
        BY <3>1, <1>8, Zenon
      <4>2. active' \in BOOLEAN /\ outdated' \in BOOLEAN
        BY <4>1, Zenon
      <4>3. poolSize' \in Nat
        BY <4>1
      <4>4. QED  BY <4>2, <4>3
    <3>2. CASE kept # <<>>
      BY <3>2, <1>3 DEF PoolTypes, mapVars
    <3>3. QED  BY <3>1, <3>2
  <2>4. QED  BY <2>1, <2>2, <2>3 DEF PoolTypes
<1>10. PoolTiled'
  <2>1. CASE kept = <<>>
    <3>1. Tiles(<<>>, offset', 0)
      BY DEF Tiles
    <3>2. allocd' = <<>> /\ poolSize' = 0
      BY <2>1, <1>3
    <3>3. QED  BY <3>1, <3>2 DEF PoolTiled
  <2>2. CASE kept # <<>>
    <3>1. kept = m /\ poolSize' = poolSize /\ active' = active /\ allocd' = m
      BY <2>2, <1>3
    <3>2. \A c \in ToSet(m) : offset'[c] = offset[c]
      <4>1. ToSet(m) \subseteq Bufs
        BY <1>2, EmptyList
      <4>2. QED  BY <4>1, <3>1, <1>3
    <3>3. Tiles(m, offset', poolSize)
      BY <3>2, <1>2, TilesAgree
    <3>4. active
      <4>1. allocd # <<>>
        BY <1>1 DEF ToSet
      <4>2. QED  BY <4>1 DEF PoolTiled
    <3>5. QED  BY <3>1, <3>3, <3>4 DEF PoolTiled
  <2>3. QED  BY <2>1, <2>2
<1>11. OwnedLinked'
  <2>1. ASSUME NEW c \in Bufs, owner'[c] # NoGroup
        PROVE  c \in ToSet(allocd')
    <3>1. c # b /\ owner[c] # NoGroup
      BY <2>1, <1>3 DEF ReturnTypes
    <3>2. QED  BY <3>1, <1>3, <1>7
  <2>2. QED  BY <2>1 DEF OwnedLinked
<1>12. ReturnTypes'
  <2>1. g \in Groups
    BY DEF ReturnTypes
  <2>2. num' \in [Groups -> 0 .. (NumRange - 1)]
    <3>1. num[g] \in Int
      <4>1. num[g] \in 0 .. (NumRange - 1)
        BY <2>1 DEF ReturnTypes
      <4>2. QED  BY <4>1 DEF NumRange
    <3>2. (num[g] - 1) % NumRange \in 0 .. (NumRange - 1)
      BY <3>1 DEF NumRange
    <3> HIDE DEF g
    <3>3. QED  BY <3>2, <1>3 DEF ReturnTypes
  <2>3. history' \in [Groups -> Seq(Bufs)]
    <3>1. Purged(history[g], b) \in Seq(Bufs)
      BY <2>1, PurgedType DEF ReturnTypes
    <3> HIDE DEF g
    <3>2. QED  BY <3>1, <1>3 DEF ReturnTypes
  <2>4. activeUsed' \in 0 .. (SizeRange - 1)
    <3>1. activeUsed \in Int /\ Reclaimed(b) \in Int
      BY <1>1, ExtentType, SizeRangeAssumption DEF ReturnTypes, Reclaimed
    <3>2. QED  BY <3>1, <1>3, SizeRangeAssumption
  <2>5. owner' \in [Bufs -> Groups \cup {NoGroup}] /\ resized' \in [Bufs -> BOOLEAN]
    BY <1>3 DEF ReturnTypes
  <2>6. mapped' \in BOOLEAN /\ mapSize' \in Nat
    <3>1. CASE kept = <<>>
      <4> HIDE DEF kept, gone
      <4>1. mapped' = FALSE /\ mapSize' = 0
        BY <3>1, <1>8, Zenon
      <4>2. mapped' \in BOOLEAN
        BY <4>1, Zenon
      <4>3. mapSize' \in Nat
        BY <4>1
      <4>4. QED  BY <4>2, <4>3
    <3>2. CASE kept # <<>>
      BY <3>2, <1>3 DEF ReturnTypes, mapVars
    <3>3. QED  BY <3>1, <3>2
  <2>7. QED  BY <2>2, <2>3, <2>4, <2>5, <2>6 DEF ReturnTypes
<1>13. QED  BY <1>3, <1>9, <1>10, <1>11, <1>12

----------------------------------------------------------------------------
(* The queues of a group *)

\* Dequeuing takes the head out of a queue without repetitions.
LEMMA Dequeued ==
  ASSUME NEW s \in Seq(Bufs), s # <<>>, IsInjective(s)
  PROVE  /\ Head(s) \in ToSet(s) /\ Head(s) \in Bufs
         /\ Tail(s) \in Seq(Bufs) /\ IsInjective(Tail(s))
         /\ ToSet(Tail(s)) = ToSet(s) \ {Head(s)}
<1> DEFINE t == Tail(s)
           n == Len(s)
<1>1. n \in Nat /\ n # 0 /\ DOMAIN s = 1 .. n
  BY EmptyList
<1>2. Head(s) \in Bufs /\ Head(s) = s[1] /\ 1 \in 1 .. n
  BY <1>1, HeadTailProperties
<1>3. /\ t \in Seq(Bufs)
      /\ Len(t) = n - 1
      /\ \A i \in 1 .. (n - 1) : t[i] = s[i + 1]
  BY HeadTailProperties
<1> HIDE DEF t, n
<1>4. DOMAIN t = 1 .. (n - 1)
  BY <1>3, LenProperties
<1>5. \A i, j \in 1 .. n : s[i] = s[j] => i = j
  BY <1>1 DEF IsInjective
<1>6. \A i \in 1 .. (n - 1) : i + 1 \in 1 .. n /\ i + 1 # 1 /\ t[i] = s[i + 1]
  BY <1>1, <1>3
<1>7. IsInjective(t)
  <2>1. ASSUME NEW i \in 1 .. (n - 1), NEW j \in 1 .. (n - 1), t[i] = t[j]
        PROVE  i = j
    <3>1. i + 1 = j + 1
      BY <2>1, <1>5, <1>6
    <3>2. QED  BY <3>1, <1>1
  <2>2. QED  BY <2>1, <1>4 DEF IsInjective
<1>8. /\ ToSet(t) = {t[i] : i \in 1 .. (n - 1)}
      /\ ToSet(s) = {s[i] : i \in 1 .. n}
  BY <1>1, <1>4 DEF ToSet
<1>9. \A i \in 1 .. n : s[i] # s[1] => \E j \in 1 .. (n - 1) : t[j] = s[i]
  <2>1. ASSUME NEW i \in 1 .. n, s[i] # s[1]
        PROVE  \E j \in 1 .. (n - 1) : t[j] = s[i]
    <3>1. i - 1 \in 1 .. (n - 1) /\ (i - 1) + 1 = i
      BY <2>1, <1>1
    <3>2. t[i - 1] = s[i]
      BY <3>1, <1>6
    <3>3. QED  BY <3>1, <3>2
  <2>2. QED  BY <2>1
<1>10. ToSet(t) = ToSet(s) \ {s[1]}
  <2>1. ToSet(t) \subseteq ToSet(s) \ {s[1]}
    BY <1>2, <1>5, <1>6, <1>8
  <2>2. ToSet(s) \ {s[1]} \subseteq ToSet(t)
    BY <1>8, <1>9
  <2>3. QED  BY <2>1, <2>2
<1>11. Head(s) \in ToSet(s)
  BY <1>2, <1>8
<1>12. QED  BY <1>2, <1>3, <1>7, <1>10, <1>11 DEF t

\* Enqueuing a new element keeps a queue without repetitions.
LEMMA Enqueued ==
  ASSUME NEW s \in Seq(Bufs), IsInjective(s), NEW b \in Bufs, b \notin ToSet(s)
  PROVE  /\ Append(s, b) \in Seq(Bufs) /\ IsInjective(Append(s, b))
         /\ ToSet(Append(s, b)) = ToSet(s) \cup {b}
<1> DEFINE t == Append(s, b)
           n == Len(s)
<1>1. n \in Nat /\ DOMAIN s = 1 .. n
  BY LenProperties
<1>2. /\ t \in Seq(Bufs)
      /\ Len(t) = n + 1
      /\ t[n + 1] = b
      /\ \A i \in 1 .. n : t[i] = s[i]
  BY AppendProperties
<1> HIDE DEF t, n
<1>3. DOMAIN t = 1 .. (n + 1)
  BY <1>2, LenProperties
<1>4. \A i \in 1 .. (n + 1) : i \in 1 .. n \/ i = n + 1
  BY <1>1
<1>5. \A i \in 1 .. n : i \in 1 .. (n + 1) /\ s[i] # b /\ t[i] = s[i]
  BY <1>1, <1>2 DEF ToSet
<1>6. n + 1 \in 1 .. (n + 1)
  BY <1>1
<1>7. \A i, j \in 1 .. n : s[i] = s[j] => i = j
  BY <1>1 DEF IsInjective
<1>8. IsInjective(t)
  BY <1>2, <1>3, <1>4, <1>5, <1>7 DEF IsInjective
<1>9. /\ ToSet(t) = {t[i] : i \in 1 .. (n + 1)}
      /\ ToSet(s) = {s[i] : i \in 1 .. n}
  BY <1>1, <1>3 DEF ToSet
<1>10. ToSet(t) = ToSet(s) \cup {b}
  <2>1. ToSet(t) \subseteq ToSet(s) \cup {b}
    BY <1>2, <1>4, <1>5, <1>9
  <2>2. ToSet(s) \subseteq ToSet(t)
    BY <1>5, <1>9
  <2>3. b \in ToSet(t)
    BY <1>2, <1>6, <1>9
  <2>4. QED  BY <2>1, <2>2, <2>3
<1>11. QED  BY <1>2, <1>8, <1>10 DEF t

\* What QueuesMatchOwner says of one group.
QueuesAt(g) ==
  /\ IsInjective(unused[g])
  /\ ToSet(unused[g]) \cap inuse[g] = {}
  /\ ToSet(unused[g]) \cup inuse[g] = Owned(g)
  /\ g \notin live => Owned(g) = {}

\* QueuesMatchOwner is that of every group, and OwnedLinked.
LEMMA QueuesSplit ==
  QueuesMatchOwner <=> (\A g \in Groups : QueuesAt(g)) /\ OwnedLinked
  BY DEF QueuesMatchOwner, QueuesAt, OwnedLinked

\* A step that leaves a group's queues and ownership alone leaves them right.
LEMMA QueuesElsewhere ==
  ASSUME NEW h, QueuesAt(h), h \in live => h \in live',
         unused'[h] = unused[h], inuse'[h] = inuse[h],
         \A b \in Bufs : owner'[b] = h <=> owner[b] = h
  PROVE  QueuesAt(h)'
<1>1. Owned(h)' = Owned(h)
  BY DEF Owned
<1>2. QED  BY <1>1 DEF QueuesAt

----------------------------------------------------------------------------
(* The inductive invariant *)

IInv == TypeOK /\ PoolTiled /\ QueuesMatchOwner

\* The parts of the invariant that the lemmas above speak of.
LEMMA InvariantParts ==
  ASSUME IInv
  PROVE  /\ PoolTypes /\ PoolTiled /\ OwnedLinked /\ ReturnTypes
         /\ \A g \in Groups : QueuesAt(g)
         /\ \A b \in Bufs : owner[b] # NoGroup <=> owner[b] \in Groups
  BY QueuesSplit, GroupsAssumption DEF IInv, TypeOK, PoolTypes, ReturnTypes

\* Returning a buffer that leaves the queues of its group.
LEMMA ReturnKeeps ==
  ASSUME IInv, NEW g \in Groups, NEW b \in Bufs, owner[b] = g,
         NEW flags \in [Bufs -> BOOLEAN], ReturnToPool(b, flags),
         unused' \in [Groups -> Seq(Bufs)], inuse' \in [Groups -> SUBSET Bufs],
         IsInjective(unused'[g]),
         ToSet(unused'[g]) \cap inuse'[g] = {},
         ToSet(unused'[g]) \cup inuse'[g] = (ToSet(unused[g]) \cup inuse[g]) \ {b},
         \A h \in Groups \ {g} : unused'[h] = unused[h] /\ inuse'[h] = inuse[h],
         UNCHANGED <<live, size>>,
         call' \in [op : Ops, grp : Groups \cup {NoGroup}, buf : Bufs \cup {NoBuf}]
  PROVE  IInv'
<1>1. /\ PoolTypes /\ PoolTiled /\ OwnedLinked /\ ReturnTypes
      /\ \A h \in Groups : QueuesAt(h)
      /\ owner[b] # NoGroup
  BY InvariantParts
<1>2. /\ PoolTypes' /\ PoolTiled' /\ OwnedLinked' /\ ReturnTypes'
      /\ owner' = [owner EXCEPT ![b] = NoGroup]
  BY <1>1, ReturnTiles
<1>3. owner \in [Bufs -> Groups \cup {NoGroup}]
  BY <1>1 DEF ReturnTypes
<1>4. \A c \in Bufs : owner'[c] = IF c = b THEN NoGroup ELSE owner[c]
  BY <1>2, <1>3
<1>5. TypeOK'
  BY <1>2 DEF IInv, TypeOK, PoolTypes, ReturnTypes
<1>6. ASSUME NEW h \in Groups
      PROVE  QueuesAt(h)'
  <2>1. CASE h = g
    <3>1. Owned(g)' = Owned(g) \ {b}
      BY <1>4, GroupsAssumption DEF Owned
    <3>2. QED  BY <3>1, <2>1, <1>1 DEF QueuesAt
  <2>2. CASE h # g
    <3>1. \A c \in Bufs : owner'[c] = h <=> owner[c] = h
      BY <2>2, <1>4, GroupsAssumption
    <3>2. QED  BY <3>1, <2>2, <1>1, QueuesElsewhere
  <2>3. QED  BY <2>1, <2>2
<1>7. QueuesMatchOwner'
  BY <1>2, <1>6 DEF QueuesMatchOwner, QueuesAt, OwnedLinked
<1>8. QED  BY <1>2, <1>5, <1>7 DEF IInv

\* The loops that return the head of the unused queue.
LEMMA ReturnUnusedKeeps ==
  ASSUME IInv, NEW g \in Groups, ReturnUnused(g)
  PROVE  IInv'
<1> DEFINE b == Head(unused[g])
<1>1. /\ unused \in [Groups -> Seq(Bufs)] /\ inuse \in [Groups -> SUBSET Bufs]
      /\ resized \in [Bufs -> BOOLEAN]
      /\ call \in [op : Ops, grp : Groups \cup {NoGroup}, buf : Bufs \cup {NoBuf}]
  BY DEF IInv, TypeOK
<1>2. /\ unused[g] # <<>>
      /\ unused' = [unused EXCEPT ![g] = Tail(@)]
      /\ ReturnToPool(b, resized)
      /\ UNCHANGED <<live, size, inuse, call>>
  BY DEF ReturnUnused
<1>3. QueuesAt(g)
  BY InvariantParts
<1>4. /\ b \in ToSet(unused[g]) /\ b \in Bufs
      /\ Tail(unused[g]) \in Seq(Bufs) /\ IsInjective(Tail(unused[g]))
      /\ ToSet(Tail(unused[g])) = ToSet(unused[g]) \ {b}
  BY <1>1, <1>2, <1>3, Dequeued DEF QueuesAt
<1>5. /\ unused' \in [Groups -> Seq(Bufs)]
      /\ unused'[g] = Tail(unused[g])
      /\ \A h \in Groups \ {g} : unused'[h] = unused[h]
  BY <1>1, <1>2, <1>4
<1> HIDE DEF b
<1>6. owner[b] = g /\ b \notin inuse[g]
  BY <1>3, <1>4 DEF QueuesAt, Owned
<1>7. ToSet(unused'[g]) \cup inuse'[g] = (ToSet(unused[g]) \cup inuse[g]) \ {b}
  BY <1>2, <1>4, <1>5, <1>6
<1>8. ToSet(unused'[g]) \cap inuse'[g] = {}
  BY <1>2, <1>3, <1>4, <1>5 DEF QueuesAt
<1>9. QED  BY <1>1, <1>2, <1>4, <1>5, <1>6, <1>7, <1>8, ReturnKeeps

\* smm_release and smm_destroy return a buffer that was in use.
LEMMA ReturnInUseKeeps ==
  ASSUME IInv, NEW g \in Groups, NEW b \in inuse[g],
         NEW flags \in [Bufs -> BOOLEAN], ReturnToPool(b, flags),
         inuse' = [inuse EXCEPT ![g] = @ \ {b}],
         UNCHANGED <<live, size, unused>>,
         call' \in [op : Ops, grp : Groups \cup {NoGroup}, buf : Bufs \cup {NoBuf}]
  PROVE  IInv'
<1>1. unused \in [Groups -> Seq(Bufs)] /\ inuse \in [Groups -> SUBSET Bufs]
  BY DEF IInv, TypeOK
<1>2. QueuesAt(g)
  BY InvariantParts
<1>3. /\ inuse' \in [Groups -> SUBSET Bufs]
      /\ inuse'[g] = inuse[g] \ {b}
      /\ \A h \in Groups \ {g} : inuse'[h] = inuse[h]
  BY <1>1
<1>4. b \in Bufs /\ owner[b] = g /\ b \notin ToSet(unused[g])
  BY <1>1, <1>2 DEF QueuesAt, Owned
<1>5. /\ unused' = unused
      /\ IsInjective(unused'[g])
      /\ ToSet(unused'[g]) \cap inuse'[g] = {}
      /\ ToSet(unused'[g]) \cup inuse'[g] = (ToSet(unused[g]) \cup inuse[g]) \ {b}
  BY <1>2, <1>3, <1>4 DEF QueuesAt
<1>6. /\ unused' \in [Groups -> Seq(Bufs)]
      /\ \A h \in Groups \ {g} : unused'[h] = unused[h] /\ inuse'[h] = inuse[h]
      /\ UNCHANGED <<live, size>>
  BY <1>1, <1>3, <1>5
<1>7. QED  BY <1>3, <1>4, <1>5, <1>6, ReturnKeeps

\* A buffer changes between the queues of its group, and nothing is returned.
LEMMA QueuesKeep ==
  ASSUME IInv, NEW g \in Groups,
         unused' \in [Groups -> Seq(Bufs)], inuse' \in [Groups -> SUBSET Bufs],
         history' \in [Groups -> Seq(Bufs)],
         IsInjective(unused'[g]),
         ToSet(unused'[g]) \cap inuse'[g] = {},
         ToSet(unused'[g]) \cup inuse'[g] = ToSet(unused[g]) \cup inuse[g],
         \A h \in Groups \ {g} : unused'[h] = unused[h] /\ inuse'[h] = inuse[h],
         UNCHANGED <<live, size, num, bufVars, poolVars, mapVars, activeUsed>>,
         call' \in [op : Ops, grp : Groups \cup {NoGroup}, buf : Bufs \cup {NoBuf}]
  PROVE  IInv'
<1>1. /\ OwnedLinked /\ \A h \in Groups : QueuesAt(h)
  BY InvariantParts
<1>2. UNCHANGED <<live, owner, allocd, offset, active, poolSize>>
  BY DEF bufVars, poolVars
<1>3. TypeOK'
  BY DEF IInv, TypeOK, bufVars, poolVars, mapVars
<1>4. PoolTiled'
  BY <1>2 DEF IInv, PoolTiled
<1>5. ASSUME NEW h \in Groups
      PROVE  QueuesAt(h)'
  <2>1. CASE h = g
    <3>1. Owned(g)' = Owned(g)
      BY <1>2 DEF Owned
    <3>2. QED  BY <3>1, <2>1, <1>1, <1>2 DEF QueuesAt
  <2>2. CASE h # g
    BY <2>2, <1>1, <1>2, QueuesElsewhere
  <2>3. QED  BY <2>1, <2>2
<1>6. OwnedLinked'
  BY <1>1, <1>2 DEF OwnedLinked
<1>7. QueuesMatchOwner'
  BY <1>5, <1>6 DEF QueuesMatchOwner, QueuesAt, OwnedLinked
<1>8. QED  BY <1>3, <1>4, <1>7 DEF IInv

----------------------------------------------------------------------------
(* The operations *)

\* The control state of a call is one of the calls of TypeOK.
LEMMA DoingType ==
  ASSUME NEW op \in Ops, NEW g \in Groups \cup {NoGroup}, NEW b \in Bufs \cup {NoBuf}
  PROVE  Doing(op, g, b) \in [op : Ops, grp : Groups \cup {NoGroup}, buf : Bufs \cup {NoBuf}]
  BY DEF Doing

\* Steps that leave queues, owners and pool alone.
LEMMA ControlKeeps ==
  ASSUME IInv,
         UNCHANGED <<live, num, unused, inuse, owner, poolVars, activeUsed>>,
         size' \in [Groups -> Nat \ {0}],
         history' \in [Groups -> Seq(Bufs)],
         resized' \in [Bufs -> BOOLEAN],
         mapped' \in BOOLEAN, mapSize' \in Nat, outdated' \in BOOLEAN,
         call' \in [op : Ops, grp : Groups \cup {NoGroup}, buf : Bufs \cup {NoBuf}]
  PROVE  IInv'
<1>1. TypeOK'
  BY DEF IInv, TypeOK, poolVars
<1>2. PoolTiled'
  BY DEF IInv, PoolTiled, poolVars
<1>3. QueuesMatchOwner'
  BY DEF IInv, QueuesMatchOwner, Owned, poolVars
<1>4. QED  BY <1>1, <1>2, <1>3 DEF IInv

\* smm_acquire, from the unused queue.
LEMMA AcquireUnusedKeeps ==
  ASSUME IInv, NEW g \in Groups, AcquireUnused(g)
  PROVE  IInv'
<1> DEFINE b == Head(unused[g])
<1>1. /\ unused \in [Groups -> Seq(Bufs)] /\ inuse \in [Groups -> SUBSET Bufs]
      /\ history \in [Groups -> Seq(Bufs)]
  BY DEF IInv, TypeOK
<1>2. /\ unused[g] # <<>>
      /\ unused' = [unused EXCEPT ![g] = Tail(@)]
      /\ inuse' = [inuse EXCEPT ![g] = @ \cup {b}]
      /\ call' = Doing("init", g, b)
      /\ UNCHANGED <<live, size, num, history, bufVars, poolVars, mapVars, activeUsed>>
  BY DEF AcquireUnused
<1>3. QueuesAt(g)
  BY InvariantParts
<1>4. /\ b \in ToSet(unused[g]) /\ b \in Bufs
      /\ Tail(unused[g]) \in Seq(Bufs) /\ IsInjective(Tail(unused[g]))
      /\ ToSet(Tail(unused[g])) = ToSet(unused[g]) \ {b}
  BY <1>1, <1>2, <1>3, Dequeued DEF QueuesAt
<1> HIDE DEF b
<1>5. /\ unused' \in [Groups -> Seq(Bufs)] /\ inuse' \in [Groups -> SUBSET Bufs]
      /\ unused'[g] = Tail(unused[g]) /\ inuse'[g] = inuse[g] \cup {b}
      /\ \A h \in Groups \ {g} : unused'[h] = unused[h] /\ inuse'[h] = inuse[h]
  BY <1>1, <1>2, <1>4
<1>6. /\ IsInjective(unused'[g])
      /\ ToSet(unused'[g]) \cap inuse'[g] = {}
      /\ ToSet(unused'[g]) \cup inuse'[g] = ToSet(unused[g]) \cup inuse[g]
  BY <1>3, <1>4, <1>5 DEF QueuesAt
<1>7. call' \in [op : Ops, grp : Groups \cup {NoGroup}, buf : Bufs \cup {NoBuf}]
  BY <1>2, <1>4, DoingType DEF Ops
<1>8. history' \in [Groups -> Seq(Bufs)]
  BY <1>1, <1>2
<1>9. UNCHANGED <<live, size, num, bufVars, poolVars, mapVars, activeUsed>>
  BY <1>2
<1>10. QED  BY <1>5, <1>6, <1>7, <1>8, <1>9, QueuesKeep

\* The use of the pool that a new pool starts with is a use.
LEMMA UsedBeforeType ==
  ASSUME TypeOK
  PROVE  UsedBefore \in 0 .. (SizeRange - 1)
  BY SizeRangeAssumption DEF TypeOK, UsedBefore

\* smm_acquire, from the pool.
LEMMA AcquireFromPoolKeeps ==
  ASSUME IInv, NEW g \in Groups, AcquireFromPool(g)
  PROVE  IInv'
<1>1. PICK b \in Bufs :
        /\ Place(b, size[g])
        /\ owner' = [owner EXCEPT ![b] = g]
        /\ inuse' = [inuse EXCEPT ![g] = @ \cup {b}]
        /\ call' = Doing("init", g, b)
  BY DEF AcquireFromPool
<1>2. /\ g \in live
      /\ unused[g] = <<>>
      /\ num' = [num EXCEPT ![g] = (@ + 1) % NumRange]
      /\ activeUsed' = (UsedBefore + size[g]) % SizeRange
      /\ UNCHANGED <<live, size, unused, history, resized, mapped, mapSize>>
  BY DEF AcquireFromPool
<1>3. /\ PoolTypes /\ PoolTiled /\ OwnedLinked /\ ReturnTypes
      /\ \A h \in Groups : QueuesAt(h)
  BY InvariantParts
<1>4. size[g] \in Nat \ {0} /\ TypeOK
  BY DEF IInv, TypeOK
<1>5. /\ PoolTypes' /\ PoolTiled'
      /\ ToSet(allocd) \subseteq ToSet(allocd')
      /\ b \in ToSet(allocd')
      /\ owner[b] = NoGroup
  BY <1>1, <1>3, <1>4, PlaceTiles
<1>6. owner \in [Bufs -> Groups \cup {NoGroup}] /\ inuse \in [Groups -> SUBSET Bufs]
  BY <1>4 DEF TypeOK
<1>7. \A c \in Bufs : owner'[c] = IF c = b THEN g ELSE owner[c]
  BY <1>1, <1>6
<1>8. OwnedLinked'
  BY <1>3, <1>5, <1>7 DEF OwnedLinked
<1>9. num' \in [Groups -> 0 .. (NumRange - 1)]
  <2>1. num \in [Groups -> 0 .. (NumRange - 1)]
    BY <1>4 DEF TypeOK
  <2>2. (num[g] + 1) % NumRange \in 0 .. (NumRange - 1)
    <3>1. num[g] \in 0 .. (NumRange - 1)
      BY <2>1
    <3>2. QED  BY <3>1 DEF NumRange
  <2>3. QED  BY <1>2, <2>1, <2>2
<1>10. activeUsed' \in 0 .. (SizeRange - 1)
  BY <1>2, <1>4, UsedBeforeType, SizeRangeAssumption
<1>11. call' \in [op : Ops, grp : Groups \cup {NoGroup}, buf : Bufs \cup {NoBuf}]
  BY <1>1, DoingType DEF Ops
<1>12. owner' \in [Bufs -> Groups \cup {NoGroup}] /\ inuse' \in [Groups -> SUBSET Bufs]
  BY <1>1, <1>6
<1>13. TypeOK'
  BY <1>2, <1>4, <1>5, <1>9, <1>10, <1>11, <1>12 DEF TypeOK, PoolTypes
<1>14. ASSUME NEW h \in Groups
       PROVE  QueuesAt(h)'
  <2>1. CASE h = g
    <3>1. Owned(g)' = Owned(g) \cup {b}
      BY <1>7 DEF Owned
    <3>2. ToSet(unused[g]) = {} /\ unused'[g] = unused[g] /\ inuse'[g] = inuse[g] \cup {b}
      BY <1>1, <1>2, <1>6 DEF ToSet
    <3>3. g \in live'
      BY <1>2
    <3>4. QED  BY <2>1, <3>1, <3>2, <3>3, <1>3 DEF QueuesAt
  <2>2. CASE h # g
    <3>1. \A c \in Bufs : owner'[c] = h <=> owner[c] = h
      BY <2>2, <1>5, <1>7, GroupsAssumption
    <3>2. unused'[h] = unused[h] /\ inuse'[h] = inuse[h] /\ (h \in live => h \in live')
      BY <2>2, <1>1, <1>2, <1>6
    <3>3. QED  BY <3>1, <3>2, <1>3, QueuesElsewhere
  <2>3. QED  BY <2>1, <2>2
<1>15. QueuesMatchOwner'
  BY <1>8, <1>14 DEF QueuesMatchOwner, QueuesAt, OwnedLinked
<1>16. QED  BY <1>5, <1>13, <1>15 DEF IInv

\* smm_acquire, when the client refuses the buffer found in the pool.
LEMMA AcquireRefusedKeeps ==
  ASSUME IInv, NEW g \in Groups, AcquireRefused(g)
  PROVE  IInv'
<1>1. PICK b \in Bufs : Place(b, size[g])
  BY DEF AcquireRefused
<1>2. /\ activeUsed' = UsedBefore
      /\ UNCHANGED <<live, size, queueVars, bufVars, mapped, mapSize, call>>
  BY DEF AcquireRefused
<1>3. PoolTypes /\ PoolTiled /\ OwnedLinked /\ TypeOK /\ QueuesMatchOwner
  BY InvariantParts DEF IInv
<1>4. size[g] \in Nat \ {0}
  BY <1>3 DEF TypeOK
<1>5. PoolTypes' /\ PoolTiled' /\ ToSet(allocd) \subseteq ToSet(allocd')
  BY <1>1, <1>3, <1>4, PlaceTiles
<1>6. TypeOK'
  BY <1>2, <1>3, <1>5, UsedBeforeType DEF TypeOK, PoolTypes, queueVars, bufVars
<1>7. QueuesMatchOwner'
  BY <1>2, <1>3, <1>5 DEF QueuesMatchOwner, Owned, queueVars, bufVars
<1>8. QED  BY <1>5, <1>6, <1>7 DEF IInv

\* smm_acquire, when the pool has no room and does not grow.
LEMMA AcquireFailsKeeps ==
  ASSUME IInv, NEW g \in Groups, AcquireFails(g)
  PROVE  IInv'
<1>1. /\ activeUsed' = UsedBefore
      /\ UNCHANGED <<live, size, queueVars, bufVars, allocd, offset, poolSize,
                     mapVars, call>>
  BY DEF AcquireFails
<1>2. \/ active' = TRUE
      \/ active' = FALSE /\ (~active \/ poolSize = 0)
  BY Zenon DEF AcquireFails
<1>3. TypeOK /\ PoolTiled /\ QueuesMatchOwner
  BY DEF IInv
<1>4. TypeOK'
  <2>1. active' \in BOOLEAN
    BY <1>2, Zenon
  <2>2. QED
    BY <2>1, <1>1, <1>3, UsedBeforeType DEF TypeOK, queueVars, bufVars, mapVars
<1>5. PoolTiled'
  <2>1. poolSize = 0 => allocd = <<>>
    <3>1. allocd \in Seq(Bufs) /\ offset \in [Bufs -> Nat]
      BY <1>3 DEF TypeOK
    <3>2. /\ Len(allocd) \in Nat /\ (allocd = <<>> <=> Len(allocd) = 0)
          /\ \A i \in 1 .. Len(allocd) : offset[allocd[i]] \in Nat
      BY <3>1, EmptyList
    <3>3. \A i \in 1 .. Len(allocd) : offset[allocd[i]] < poolSize
      BY <1>3 DEF PoolTiled, Tiles
    <3>4. QED  BY <3>2, <3>3
  <2>2. allocd # <<>> => active'
    BY <2>1, <1>2, <1>3 DEF PoolTiled
  <2>3. QED  BY <2>2, <1>1, <1>3 DEF PoolTiled
<1>6. QueuesMatchOwner'
  BY <1>1, <1>3 DEF QueuesMatchOwner, Owned, queueVars, bufVars
<1>7. QED  BY <1>4, <1>5, <1>6 DEF IInv

\* The client's init_buffer callback.
LEMMA InitBufferKeeps ==
  ASSUME IInv, NEW g \in Groups, NEW b \in Bufs,
         InitBuffer(g, b) \/ InitBufferFails(g, b)
  PROVE  IInv'
<1>1. TypeOK
  BY DEF IInv
<1>2. CASE InitBuffer(g, b)
  <2>1. Append(Purged(history[g], b), b) \in Seq(Bufs)
    <3>1. Purged(history[g], b) \in Seq(Bufs)
      BY <1>1, PurgedType DEF TypeOK
    <3>2. QED  BY <3>1, AppendProperties
  <2>2. history' \in [Groups -> Seq(Bufs)]
    BY <2>1, <1>1, <1>2 DEF InitBuffer, TypeOK
  <2>3. call' \in [op : Ops, grp : Groups \cup {NoGroup}, buf : Bufs \cup {NoBuf}]
    BY <1>2 DEF InitBuffer, Idle, Ops
  <2>4. QED
    BY <2>2, <2>3, <1>1, <1>2, ControlKeeps DEF InitBuffer, TypeOK, bufVars, mapVars
<1>3. CASE InitBufferFails(g, b)
  <2>1. call' \in [op : Ops, grp : Groups \cup {NoGroup}, buf : Bufs \cup {NoBuf}]
    BY <1>3, DoingType DEF InitBufferFails, Ops
  <2>2. QED
    BY <2>1, <1>1, <1>3, ControlKeeps
       DEF InitBufferFails, TypeOK, queueVars, bufVars, mapVars
<1>4. QED  BY <1>2, <1>3

\* smm_map.
LEMMA MapKeeps ==
  ASSUME IInv, NEW b \in Bufs, Map(b)
  PROVE  IInv'
<1>1. TypeOK
  BY DEF IInv
<1>2. UNCHANGED <<live, size, queueVars, bufVars, poolVars, activeUsed, call>>
  BY DEF Map
<1>3. mapped' \in BOOLEAN /\ outdated' \in BOOLEAN
  BY <1>1, Zenon DEF Map, TypeOK
<1>4. mapSize' \in Nat
  BY <1>1 DEF Map, TypeOK
<1>5. QED  BY <1>1, <1>2, <1>3, <1>4, ControlKeeps DEF TypeOK, queueVars, bufVars

\* smm_release.
LEMMA ReleaseKeeps ==
  ASSUME IInv, NEW g \in Groups, NEW b \in Bufs, Release(g, b)
  PROVE  IInv'
<1>1. /\ unused \in [Groups -> Seq(Bufs)] /\ inuse \in [Groups -> SUBSET Bufs]
      /\ resized \in [Bufs -> BOOLEAN] /\ history \in [Groups -> Seq(Bufs)]
  BY DEF IInv, TypeOK
<1>2. /\ b \in inuse[g]
      /\ inuse' = [inuse EXCEPT ![g] = @ \ {b}]
      /\ UNCHANGED <<live, size>>
  BY DEF Release
<1>3. CASE resized[b]
  <2>1. /\ ReturnToPool(b, [resized EXCEPT ![b] = FALSE])
        /\ call' = Idle
        /\ UNCHANGED unused
    BY <1>3 DEF Release
  <2>2. [resized EXCEPT ![b] = FALSE] \in [Bufs -> BOOLEAN]
    BY <1>1
  <2>3. call' \in [op : Ops, grp : Groups \cup {NoGroup}, buf : Bufs \cup {NoBuf}]
    BY <2>1 DEF Idle, Ops
  <2>4. QED  BY <2>1, <2>2, <2>3, <1>2, ReturnInUseKeeps
<1>4. CASE ~resized[b]
  <2>1. /\ unused' = [unused EXCEPT ![g] = Append(@, b)]
        /\ call' = Doing("trim", g, NoBuf)
        /\ UNCHANGED <<num, history, bufVars, poolVars, mapVars, activeUsed>>
    BY <1>4 DEF Release
  <2>2. QueuesAt(g)
    BY InvariantParts
  <2>3. /\ b \notin ToSet(unused[g])
        /\ Append(unused[g], b) \in Seq(Bufs) /\ IsInjective(Append(unused[g], b))
        /\ ToSet(Append(unused[g], b)) = ToSet(unused[g]) \cup {b}
    BY <2>2, <1>1, <1>2, Enqueued DEF QueuesAt
  <2>4. /\ unused' \in [Groups -> Seq(Bufs)] /\ inuse' \in [Groups -> SUBSET Bufs]
        /\ unused'[g] = Append(unused[g], b) /\ inuse'[g] = inuse[g] \ {b}
        /\ \A h \in Groups \ {g} : unused'[h] = unused[h] /\ inuse'[h] = inuse[h]
    BY <2>1, <2>3, <1>1, <1>2
  <2>5. /\ IsInjective(unused'[g])
        /\ ToSet(unused'[g]) \cap inuse'[g] = {}
        /\ ToSet(unused'[g]) \cup inuse'[g] = ToSet(unused[g]) \cup inuse[g]
    BY <2>2, <2>3, <2>4, <1>2 DEF QueuesAt
  <2>6. call' \in [op : Ops, grp : Groups \cup {NoGroup}, buf : Bufs \cup {NoBuf}]
    BY <2>1, DoingType DEF Ops
  <2>7. /\ history' \in [Groups -> Seq(Bufs)]
        /\ UNCHANGED <<live, size, num, bufVars, poolVars, mapVars, activeUsed>>
    BY <2>1, <1>1, <1>2
  <2>8. QED  BY <2>4, <2>5, <2>6, <2>7, QueuesKeep
<1>5. QED  BY <1>3, <1>4

\* smm_resize.
LEMMA ResizeKeeps ==
  ASSUME IInv, NEW g \in Groups, NEW sz \in Requests, Resize(g, sz)
  PROVE  IInv'
<1>1. TypeOK
  BY DEF IInv
<1>2. RoundUp(sz, PageSize) \in Nat \ {0}
  BY RoundUpPositive, PageSizeAssumption, RequestsAssumption
<1>3. size' \in [Groups -> Nat \ {0}]
  BY <1>1, <1>2 DEF Resize, TypeOK
<1>4. call' \in [op : Ops, grp : Groups \cup {NoGroup}, buf : Bufs \cup {NoBuf}]
  BY DoingType DEF Resize, Ops
<1>5. QED
  BY <1>1, <1>3, <1>4, ControlKeeps DEF Resize, TypeOK, queueVars, bufVars, mapVars

\* smm_resize, once its loop over the unused queue is over.
LEMMA ResizeInUseKeeps ==
  ASSUME IInv, NEW g \in Groups, ResizeInUse(g)
  PROVE  IInv'
<1>1. TypeOK
  BY DEF IInv
<1>2. PICK n \in 0 .. Len(history[g]) :
        history' = [history EXCEPT ![g] = SubSeq(@, n + 1, Len(history[g]))]
  BY DEF ResizeInUse
<1>3. history' \in [Groups -> Seq(Bufs)]
  <2>1. history[g] \in Seq(Bufs)
    BY <1>1 DEF TypeOK
  <2>2. Len(history[g]) \in Nat /\ \A i \in 1 .. Len(history[g]) : history[g][i] \in Bufs
    BY <2>1, EmptyList
  <2>3. \A i \in (n + 1) .. Len(history[g]) : history[g][i] \in Bufs
    BY <2>2
  <2>4. SubSeq(history[g], n + 1, Len(history[g])) \in Seq(Bufs)
    BY <2>2, <2>3, SubSeqProperties
  <2>5. QED  BY <2>4, <1>1, <1>2 DEF TypeOK
<1>4. resized' \in [Bufs -> BOOLEAN]
  BY <1>1 DEF ResizeInUse, TypeOK
<1>5. call' \in [op : Ops, grp : Groups \cup {NoGroup}, buf : Bufs \cup {NoBuf}]
  BY DEF ResizeInUse, Idle, Ops
<1>6. QED
  BY <1>1, <1>3, <1>4, <1>5, ControlKeeps DEF ResizeInUse, TypeOK, mapVars

\* smm_create.
LEMMA CreateKeeps ==
  ASSUME IInv, NEW g \in Groups, Create(g)
  PROVE  IInv'
<1>1. TypeOK /\ PoolTiled /\ OwnedLinked /\ \A h \in Groups : QueuesAt(h)
  BY InvariantParts DEF IInv
<1>2. /\ g \notin live
      /\ live' = live \cup {g}
      /\ size' = [size EXCEPT ![g] = PageSize]
      /\ num' = [num EXCEPT ![g] = 0]
      /\ unused' = [unused EXCEPT ![g] = <<>>]
      /\ inuse' = [inuse EXCEPT ![g] = {}]
      /\ history' = [history EXCEPT ![g] = <<>>]
      /\ UNCHANGED <<owner, resized, poolVars, mapVars, activeUsed, call>>
  BY DEF Create, bufVars
<1>3. TypeOK'
  <2>1. num' \in [Groups -> 0 .. (NumRange - 1)]
    BY <1>1, <1>2 DEF TypeOK, NumRange
  <2>2. /\ unused' \in [Groups -> Seq(Bufs)]
        /\ history' \in [Groups -> Seq(Bufs)]
    <3>1. <<>> \in Seq(Bufs)
      BY EmptySeq
    <3>2. QED  BY <3>1, <1>1, <1>2 DEF TypeOK
  <2>3. inuse' \in [Groups -> SUBSET Bufs] /\ live' \subseteq Groups
    BY <1>1, <1>2 DEF TypeOK
  <2>4. size' \in [Groups -> Nat \ {0}]
    BY <1>1, <1>2, PageSizeAssumption DEF TypeOK
  <2>5. QED
    BY <2>1, <2>2, <2>3, <2>4, <1>1, <1>2 DEF TypeOK, poolVars, mapVars
<1>4. PoolTiled' /\ OwnedLinked'
  BY <1>1, <1>2 DEF PoolTiled, OwnedLinked, poolVars
<1>5. ASSUME NEW h \in Groups
      PROVE  QueuesAt(h)'
  <2>1. CASE h = g
    <3>1. Owned(g)' = {}
      BY <1>1, <1>2 DEF QueuesAt, Owned
    <3>2. unused'[g] = <<>> /\ inuse'[g] = {} /\ g \in live'
      BY <1>1, <1>2 DEF TypeOK
    <3>3. ToSet(<<>>) = {} /\ IsInjective(<<>>)
      BY DEF ToSet, IsInjective
    <3>4. QED  BY <2>1, <3>1, <3>2, <3>3 DEF QueuesAt
  <2>2. CASE h # g
    <3>1. unused'[h] = unused[h] /\ inuse'[h] = inuse[h] /\ (h \in live => h \in live')
      BY <2>2, <1>1, <1>2 DEF TypeOK
    <3>2. QED  BY <3>1, <1>1, <1>2, QueuesElsewhere
  <2>3. QED  BY <2>1, <2>2
<1>6. QueuesMatchOwner'
  BY <1>4, <1>5 DEF QueuesMatchOwner, QueuesAt, OwnedLinked
<1>7. QED  BY <1>3, <1>4, <1>6 DEF IInv

\* smm_destroy, once both queues are empty.
LEMMA DestroyDoneKeeps ==
  ASSUME IInv, NEW g \in Groups, DestroyDone(g)
  PROVE  IInv'
<1>1. TypeOK /\ PoolTiled /\ OwnedLinked /\ \A h \in Groups : QueuesAt(h)
  BY InvariantParts DEF IInv
<1>2. /\ unused[g] = <<>> /\ inuse[g] = {}
      /\ live' = live \ {g}
      /\ size' = [size EXCEPT ![g] = PageSize]
      /\ UNCHANGED <<queueVars, bufVars, poolVars, mapVars, activeUsed>>
  BY DEF DestroyDone
<1>3. call' \in [op : Ops, grp : Groups \cup {NoGroup}, buf : Bufs \cup {NoBuf}]
  <2>1. call' = Idle \/ \E next \in live \ {g} : call' = Doing("deinit", next, NoBuf)
    BY DEF DestroyDone
  <2>2. QED  BY <2>1, <1>1, DoingType DEF Idle, Ops, TypeOK
<1>4. TypeOK'
  BY <1>1, <1>2, <1>3, PageSizeAssumption
     DEF TypeOK, queueVars, bufVars, poolVars, mapVars
<1>5. PoolTiled' /\ OwnedLinked'
  BY <1>1, <1>2 DEF PoolTiled, OwnedLinked, poolVars, bufVars
<1>6. Owned(g) = {}
  BY <1>1, <1>2 DEF QueuesAt, ToSet
<1>7. QueuesMatchOwner'
  BY <1>1, <1>2, <1>5, <1>6
     DEF QueuesMatchOwner, QueuesAt, OwnedLinked, Owned, queueVars, bufVars
<1>8. QED  BY <1>4, <1>5, <1>7 DEF IInv

\* The control steps of smm_release, smm_destroy and smm_deinit.
LEMMA ControlStepKeeps ==
  ASSUME IInv, NEW g \in Groups, TrimDone(g) \/ Destroy(g) \/ Deinit
  PROVE  IInv'
<1>1. TypeOK
  BY DEF IInv
<1>2. UNCHANGED <<live, size, queueVars, bufVars, poolVars, mapVars, activeUsed>>
  BY DEF TrimDone, Destroy, Deinit
<1>3. \/ call' = Idle
      \/ call' = Doing("destroy", g, NoBuf)
      \/ \E h \in live : call' = Doing("deinit", h, NoBuf)
  BY DEF TrimDone, Destroy, Deinit
<1>4. call' \in [op : Ops, grp : Groups \cup {NoGroup}, buf : Bufs \cup {NoBuf}]
  BY <1>1, <1>3, DoingType DEF Idle, Ops, TypeOK
<1>5. QED
  BY <1>1, <1>2, <1>4, ControlKeeps DEF TypeOK, queueVars, bufVars, mapVars

\* Every step preserves the invariant.
LEMMA NextKeeps ==
  ASSUME IInv, [Next]_vars
  PROVE  IInv'
<1>1. ASSUME NEW g \in Groups,
             Trim(g) \/ ResizeUnused(g) \/ DestroyUnused(g)
      PROVE  IInv'
  BY <1>1, ReturnUnusedKeeps DEF Trim, ResizeUnused, DestroyUnused
<1>2. ASSUME NEW g \in Groups, NEW b \in Bufs, DestroyInUse(g, b)
      PROVE  IInv'
  <2>1. /\ b \in inuse[g]
        /\ inuse' = [inuse EXCEPT ![g] = @ \ {b}]
        /\ ReturnToPool(b, resized)
        /\ UNCHANGED <<live, size, unused>>
        /\ call' = call
    BY <1>2 DEF DestroyInUse
  <2>2. /\ resized \in [Bufs -> BOOLEAN]
        /\ call' \in [op : Ops, grp : Groups \cup {NoGroup}, buf : Bufs \cup {NoBuf}]
    BY <2>1 DEF IInv, TypeOK
  <2>3. QED  BY <2>1, <2>2, ReturnInUseKeeps
<1>3. CASE Deinit
  <2>1. PICK g \in Groups : TRUE
    BY <1>3 DEF Deinit, IInv, TypeOK
  <2>2. QED  BY <1>3, ControlStepKeeps
<1>4. CASE Proceed
  BY <1>1, <1>2, <1>4, ControlStepKeeps, ResizeInUseKeeps, DestroyDoneKeeps,
     InitBufferKeeps, ReleaseKeeps DEF Proceed
<1>5. CASE Calls
  BY <1>3, <1>5, CreateKeeps, ControlStepKeeps, AcquireUnusedKeeps,
     AcquireFromPoolKeeps, AcquireRefusedKeeps, AcquireFailsKeeps,
     ResizeKeeps, ReleaseKeeps, MapKeeps DEF Calls
<1>6. CASE UNCHANGED vars
  BY <1>6 DEF IInv, TypeOK, PoolTiled, QueuesMatchOwner, Owned, vars,
              queueVars, bufVars, poolVars, mapVars
<1>7. QED  BY <1>4, <1>5, <1>6 DEF Next

\* It holds initially.
LEMMA InitHolds ==
  ASSUME Init
  PROVE  IInv
<1>1. <<>> \in Seq(Bufs) /\ ToSet(<<>>) = {} /\ IsInjective(<<>>) /\ Len(<<>>) = 0
  BY EmptySeq DEF ToSet, IsInjective
<1>2. TypeOK
  <2>1. active \in BOOLEAN /\ mapped \in BOOLEAN /\ outdated \in BOOLEAN
    BY Zenon DEF Init
  <2>2. /\ live \subseteq Groups
        /\ size \in [Groups -> Nat \ {0}]
        /\ num \in [Groups -> 0 .. (NumRange - 1)]
        /\ inuse \in [Groups -> SUBSET Bufs]
    BY PageSizeAssumption DEF Init, NumRange
  <2>3. /\ unused \in [Groups -> Seq(Bufs)]
        /\ history \in [Groups -> Seq(Bufs)]
        /\ allocd \in Seq(Bufs)
    BY <1>1 DEF Init
  <2>4. /\ owner \in [Bufs -> Groups \cup {NoGroup}]
        /\ resized \in [Bufs -> BOOLEAN]
        /\ offset \in [Bufs -> Nat]
    BY DEF Init
  <2>5. /\ poolSize \in Nat /\ mapSize \in Nat
        /\ activeUsed \in 0 .. (SizeRange - 1)
    BY SizeRangeAssumption DEF Init
  <2>6. call \in [op : Ops, grp : Groups \cup {NoGroup}, buf : Bufs \cup {NoBuf}]
    BY DEF Init, Idle, Ops
  <2>7. QED  BY <2>1, <2>2, <2>3, <2>4, <2>5, <2>6 DEF TypeOK
<1>3. PoolTiled
  BY DEF Init, PoolTiled, Tiles
<1>4. QueuesMatchOwner
  BY <1>1, GroupsAssumption DEF Init, QueuesMatchOwner, Owned
<1>5. QED  BY <1>2, <1>3, <1>4 DEF IInv

----------------------------------------------------------------------------
(* Theorems *)

\* The inductive invariant holds in every reachable state of the manager.
THEOREM Invariance == Spec => []IInv
<1>1. Init => IInv
  BY InitHolds
<1>2. IInv /\ [Next]_vars => IInv'
  BY NextKeeps
<1>3. QED  BY <1>1, <1>2, PTL DEF Spec

\* The manager's variables keep their types: no offset, size or statistic
\* of smm.c is ever negative.
THEOREM TypeCorrect == Spec => []TypeOK
<1>1. IInv => TypeOK
  BY DEF IInv
<1>2. QED  BY <1>1, Invariance, PTL

\* Whatever its clients do and whatever fails, the buffers of the pool tile
\* it: get_from_pool and return_to_pool never leave two overlapping extents.
THEOREM PoolStaysTiled == Spec => []PoolTiled
<1>1. IInv => PoolTiled
  BY DEF IInv
<1>2. QED  BY <1>1, Invariance, PTL

\* A buffer is in one queue of the one live group that owns it.
THEOREM QueuesStayMatched == Spec => []QueuesMatchOwner
<1>1. IInv => QueuesMatchOwner
  BY DEF IInv
<1>2. QED  BY <1>1, Invariance, PTL

----------------------------------------------------------------------------
(* Extents in a list *)

\* Where the buffer at place i of a list ends.
EndAt(al, off, top, i) == IF i = Len(al) THEN top ELSE off[al[i + 1]]

\* calc_buffer_size of b in a list.
ExtentIn(al, off, top, b) ==
  LET i == CHOOSE i \in DOMAIN al : al[i] = b
  IN  EndAt(al, off, top, i) - off[al[i]]

\* No buffer of a list is moved, but for the one at place k.
Stay(al, off, f, k) == \A l \in 1 .. Len(al) : l # k => f[al[l]] = off[al[l]]

\* Offsets for a list that tile the memory below top.
Tiling(al, off, top) ==
  al \in Seq(Bufs) /\ off \in [Bufs -> Nat] /\ top \in Nat /\ Tiles(al, off, top)

\* A tiling becomes another: b is linked after place i of the list, or last.
LinkedAfter(al, off, r, f, top, i, b) ==
  /\ Tiling(al, off, top) /\ Tiling(r, f, top) /\ Stay(al, off, f, 0)
  /\ i \in 1 .. Len(al) /\ b \in Bufs /\ r = InsertAt(al, i + 1, b)
LinkedLast(al, off, top, r, f, big, b) ==
  /\ Tiling(al, off, top) /\ Tiling(r, f, big) /\ Stay(al, off, f, 0)
  /\ b \in Bufs /\ r = Append(al, b) /\ f[b] = top

\* The extent of the model is that in the pool's list.
LEMMA ExtentOfPool ==
  ASSUME NEW b
  PROVE  /\ Extent(b) = ExtentIn(allocd, offset, poolSize, b)
         /\ Extent(b)' = ExtentIn(allocd', offset', poolSize', b)
  BY DEF Extent, SizeAt, IndexOf, ExtentIn, EndAt

\* In a tiled pool the extent of a buffer reaches from its offset to its end,
\* and is not empty.
LEMMA ExtentAtPlace ==
  ASSUME NEW al \in Seq(Bufs), NEW off \in [Bufs -> Nat], NEW top \in Nat,
         Tiles(al, off, top), NEW i \in 1 .. Len(al)
  PROVE  /\ ExtentIn(al, off, top, al[i]) = EndAt(al, off, top, i) - off[al[i]]
         /\ EndAt(al, off, top, i) \in Nat
         /\ off[al[i]] < EndAt(al, off, top, i)
         /\ EndAt(al, off, top, i) <= top
         /\ \A j \in 1 .. Len(al) :
              i < j => EndAt(al, off, top, i) <= off[al[j]]
<1> DEFINE k == CHOOSE k \in DOMAIN al : al[k] = al[i]
<1> DEFINE n == Len(al)
<1>0. n \in Nat /\ i \in 1 .. n
  BY LenProperties
<1>1. /\ DOMAIN al = 1 .. n
      /\ \A j \in 1 .. n : al[j] \in Bufs /\ off[al[j]] \in Nat
  BY EmptyList
<1>2. k \in 1 .. Len(al) /\ al[k] = al[i]
  BY <1>1
<1>3. k = i
  BY <1>2, TilesOnce
<1>4. ExtentIn(al, off, top, al[i]) = EndAt(al, off, top, i) - off[al[i]]
  BY <1>3 DEF ExtentIn
<1> HIDE DEF k
<1>5. CASE i = Len(al)
  BY <1>1, <1>4, <1>5 DEF EndAt, Tiles
<1>6. CASE i # Len(al)
  <2>1. i + 1 \in 1 .. n /\ i < i + 1
    <3> HIDE DEF n
    <3>1. i # n
      BY <1>6 DEF n
    <3>2. QED  BY <3>1, <1>0
  <2>2. EndAt(al, off, top, i) = off[al[i + 1]]
    BY <1>6 DEF EndAt
  <2>3. off[al[i]] < off[al[i + 1]] /\ off[al[i + 1]] < top
    BY <2>1 DEF Tiles
  <2>4. ASSUME NEW j \in 1 .. Len(al), i < j
        PROVE  off[al[i + 1]] <= off[al[j]]
    <3>1. j = i + 1 \/ i + 1 < j
      BY <2>4, <1>0
    <3>2. j = i + 1 \/ off[al[i + 1]] < off[al[j]]
      BY <3>1, <2>1 DEF Tiles
    <3>3. QED  BY <3>2, <2>1, <1>1
  <2>5. off[al[i + 1]] \in Nat
    BY <2>1, <1>1
  <2>6. QED  BY <1>1, <1>4, <2>2, <2>3, <2>4, <2>5
<1>7. QED  BY <1>5, <1>6

\* The first of these, for every place of a list.
LEMMA ExtentEnds ==
  ASSUME NEW al \in Seq(Bufs), NEW off \in [Bufs -> Nat], NEW top \in Nat,
         Tiles(al, off, top)
  PROVE  \A i \in 1 .. Len(al) :
           ExtentIn(al, off, top, al[i]) = EndAt(al, off, top, i) - off[al[i]]
  BY ExtentAtPlace

\* Removing a place stretches the buffer before it, and no other.
LEMMA ExtentsRemove ==
  ASSUME NEW al \in Seq(Bufs), NEW off \in [Bufs -> Nat], NEW top \in Nat,
         Tiles(al, off, top), NEW i \in 2 .. Len(al),
         NEW j \in 1 .. Len(al), j # i, j # i - 1
  PROVE  ExtentIn(RemoveAt(al, i), off, top, al[j])
           = ExtentIn(al, off, top, al[j])
<1> DEFINE r == RemoveAt(al, i)
           k == IF j < i THEN j ELSE j - 1
<1>1. Len(al) \in Nat /\ i \in 1 .. Len(al)
  BY LenProperties
<1>2. /\ r \in Seq(Bufs)
      /\ Len(r) = Len(al) - 1
      /\ \A l \in 1 .. (Len(al) - 1) : r[l] = IF l < i THEN al[l] ELSE al[l + 1]
  BY <1>1, RemoveAtSeq
<1>3. Tiles(r, off, top)
  BY TilesRemove
<1> HIDE DEF r
<1>4. k \in 1 .. Len(r) /\ r[k] = al[j]
  <2>1. CASE j < i
    <3>1. k = j /\ k \in 1 .. (Len(al) - 1)
      BY <2>1, <1>1
    <3>2. QED  BY <3>1, <2>1, <1>2
  <2>2. CASE ~(j < i)
    <3>1. k \in 1 .. (Len(al) - 1) /\ ~(k < i) /\ k + 1 = j
      BY <2>2, <1>1
    <3>2. QED  BY <3>1, <1>2
  <2>3. QED  BY <2>1, <2>2
<1>5. EndAt(r, off, top, k) = EndAt(al, off, top, j)
  <2>1. CASE j < i
    <3>1. /\ k = j /\ k # Len(r) /\ j # Len(al)
          /\ k + 1 < i /\ k + 1 \in 1 .. (Len(al) - 1)
      BY <2>1, <1>1, <1>2
    <3>2. r[k + 1] = al[j + 1]
      BY <3>1, <1>2
    <3>3. QED  BY <3>1, <3>2 DEF EndAt
  <2>2. CASE ~(j < i)
    <3>1. k + 1 = j /\ (k = Len(r) <=> j = Len(al))
      BY <2>2, <1>1, <1>2
    <3>2. ASSUME j # Len(al)
          PROVE  r[k + 1] = al[j + 1]
      <4>1. j \in 1 .. (Len(al) - 1) /\ k + 1 = j
        BY <3>1, <3>2, <1>1
      <4>2. QED  BY <4>1, <2>2, <1>2
    <3>3. QED  BY <3>1, <3>2 DEF EndAt
  <2>3. QED  BY <2>1, <2>2
<1> HIDE DEF k
<1>6. ExtentIn(r, off, top, r[k]) = EndAt(r, off, top, k) - off[r[k]]
  BY <1>2, <1>3, <1>4, ExtentAtPlace
<1>7. ExtentIn(al, off, top, al[j]) = EndAt(al, off, top, j) - off[al[j]]
  BY ExtentAtPlace
<1>8. QED  BY <1>4, <1>5, <1>6, <1>7 DEF r

\* Where the elements of a list are once a new one is linked after place i.
LEMMA InsertNext ==
  ASSUME NEW al \in Seq(Bufs), NEW i \in 1 .. Len(al), NEW b \in Bufs
  PROVE  /\ InsertAt(al, i + 1, b) \in Seq(Bufs)
         /\ Len(InsertAt(al, i + 1, b)) = Len(al) + 1
         /\ \A l \in 1 .. i : InsertAt(al, i + 1, b)[l] = al[l]
         /\ InsertAt(al, i + 1, b)[i + 1] = b
         /\ \A l \in (i + 1) .. Len(al) : InsertAt(al, i + 1, b)[l + 1] = al[l]
<1>1. ASSUME NEW m \in 1 .. (Len(al) + 1)
      PROVE  /\ InsertAt(al, m, b) \in Seq(Bufs)
             /\ Len(InsertAt(al, m, b)) = Len(al) + 1
             /\ \A j \in 1 .. (Len(al) + 1) :
                  InsertAt(al, m, b)[j]
                    = IF j < m THEN al[j] ELSE IF j = m THEN b ELSE al[j - 1]
  BY InsertAtSeq, SMTT(60)
<1>2. Len(al) \in Nat
  BY LenProperties
<1>3. i + 1 \in 1 .. (Len(al) + 1)
  BY <1>2
<1> DEFINE r == InsertAt(al, i + 1, b)
           n == Len(al)
<1>4. /\ r \in Seq(Bufs) /\ Len(r) = n + 1
      /\ \A l \in 1 .. (n + 1) :
           r[l] = IF l < i + 1 THEN al[l] ELSE IF l = i + 1 THEN b ELSE al[l - 1]
  BY <1>1, <1>3
<1>5. n \in Nat /\ i \in 1 .. n
  BY <1>2
<1> HIDE DEF r, n
<1>6. ASSUME NEW l \in 1 .. i
      PROVE  r[l] = al[l]
  <2>1. l \in 1 .. (n + 1) /\ l < i + 1
    BY <1>5
  <2>2. QED  BY <2>1, <1>4
<1>7. r[i + 1] = b
  <2>1. i + 1 \in 1 .. (n + 1) /\ ~(i + 1 < i + 1)
    BY <1>5
  <2>2. QED  BY <2>1, <1>4
<1>8. ASSUME NEW l \in (i + 1) .. n
      PROVE  r[l + 1] = al[l]
  <2>1. /\ l + 1 \in 1 .. (n + 1) /\ ~(l + 1 < i + 1) /\ l + 1 # i + 1
        /\ (l + 1) - 1 = l
    BY <1>5
  <2>2. r[l + 1] = al[(l + 1) - 1]
    BY <2>1, <1>4
  <2>3. QED  BY <2>1, <2>2
<1>9. QED  BY <1>4, <1>6, <1>7, <1>8 DEF r, n

\* A new buffer cuts the extent it lies in, and no other.
LEMMA ExtentsInsert ==
  ASSUME NEW al, NEW off, NEW r, NEW f, NEW top, NEW i, NEW b,
         LinkedAfter(al, off, r, f, top, i, b), NEW j \in 1 .. Len(al)
  PROVE  /\ j = i => ExtentIn(r, f, top, al[j]) = f[b] - off[al[i]]
         /\ j # i => ExtentIn(r, f, top, al[j]) = ExtentIn(al, off, top, al[j])
<1> DEFINE k == IF j <= i THEN j ELSE j + 1
           n == Len(al)
<1>9. /\ al \in Seq(Bufs) /\ off \in [Bufs -> Nat] /\ top \in Nat
      /\ Tiles(al, off, top) /\ i \in 1 .. Len(al) /\ b \in Bufs
      /\ f \in [Bufs -> Nat] /\ Tiles(r, f, top)
      /\ Stay(al, off, f, 0) /\ r = InsertAt(al, i + 1, b)
  BY DEF LinkedAfter, Tiling
<1>0. n \in Nat /\ i \in 1 .. n /\ j \in 1 .. n
  BY <1>9, LenProperties
<1>7. \A l \in 1 .. n : f[al[l]] = off[al[l]]
  BY <1>9 DEF Stay
<1>1. /\ r \in Seq(Bufs)
      /\ Len(r) = n + 1
      /\ \A l \in 1 .. i : r[l] = al[l]
      /\ r[i + 1] = b
      /\ \A l \in (i + 1) .. n : r[l + 1] = al[l]
  BY <1>9, InsertNext
<1> HIDE DEF n
<1>2. k \in 1 .. Len(r) /\ r[k] = al[j]
  <2>1. CASE j <= i
    <3>1. k = j /\ j \in 1 .. i /\ j \in 1 .. (n + 1)
      BY <2>1, <1>0
    <3>2. QED  BY <3>1, <1>1
  <2>2. CASE ~(j <= i)
    <3>1. k = j + 1 /\ j \in (i + 1) .. n /\ j + 1 \in 1 .. (n + 1)
      BY <2>2, <1>0
    <3>2. QED  BY <3>1, <1>1
  <2>3. QED  BY <2>1, <2>2
<1>3. EndAt(r, f, top, k) = IF j = i THEN f[b] ELSE EndAt(al, off, top, j)
  <2>0. Len(r) = n + 1
    BY <1>1
  <2>1. CASE j < i
    <3>1. /\ k = j /\ k # n + 1 /\ j # n /\ j # i
          /\ j + 1 \in 1 .. i /\ j + 1 \in 1 .. n
      BY <2>1, <1>0
    <3>2. r[k + 1] = al[j + 1]
      BY <3>1, <1>1
    <3>3. f[r[k + 1]] = off[al[j + 1]]
      BY <3>1, <3>2, <1>7
    <3>4. QED  BY <3>1, <3>3, <2>0 DEF EndAt, n
  <2>2. CASE j = i
    <3>1. k = i /\ k # n + 1
      BY <2>2, <1>0
    <3>2. r[k + 1] = b
      BY <3>1, <1>1
    <3>3. QED  BY <3>1, <3>2, <2>0, <2>2 DEF EndAt
  <2>3. CASE j > i
    <3>1. k = j + 1 /\ (k = n + 1 <=> j = n) /\ j # i
      BY <2>3, <1>0
    <3>2. ASSUME j # n
          PROVE  f[r[k + 1]] = off[al[j + 1]]
      <4>1. j + 1 \in (i + 1) .. n /\ j + 1 \in 1 .. n
        BY <3>2, <2>3, <1>0
      <4>2. r[(j + 1) + 1] = al[j + 1]
        BY <4>1, <1>1
      <4>3. f[al[j + 1]] = off[al[j + 1]]
        BY <4>1, <1>7
      <4>4. r[k + 1] = al[j + 1]
        BY <3>1, <4>2
      <4>5. QED  BY <4>3, <4>4
    <3>3. QED  BY <3>1, <3>2, <2>0 DEF EndAt, n
  <2>4. QED  BY <2>1, <2>2, <2>3, <1>0
<1> HIDE DEF k
<1>4. ExtentIn(r, f, top, r[k]) = EndAt(r, f, top, k) - f[r[k]]
  BY <1>1, <1>2, <1>9, ExtentEnds
<1>5. ExtentIn(al, off, top, al[j]) = EndAt(al, off, top, j) - off[al[j]]
  BY <1>9, ExtentEnds
<1>6. f[al[j]] = off[al[j]]
  BY <1>0, <1>7
<1>8. QED  BY <1>2, <1>3, <1>4, <1>5, <1>6

\* Pulling a buffer back shortens the one before it, and moves no other end.
LEMMA ExtentsPull ==
  ASSUME NEW al \in Seq(Bufs), NEW off \in [Bufs -> Nat], NEW top \in Nat,
         Tiles(al, off, top), NEW i \in 1 .. Len(al), i + 1 \in 1 .. Len(al),
         NEW f \in [Bufs -> Nat], Tiles(al, f, top),
         Stay(al, off, f, i + 1),
         NEW j \in 1 .. Len(al), j # i + 1
  PROVE  /\ j = i => ExtentIn(al, f, top, al[j]) = f[al[i + 1]] - off[al[i]]
         /\ j # i => ExtentIn(al, f, top, al[j]) = ExtentIn(al, off, top, al[j])
<1> DEFINE n == Len(al)
<1>0. n \in Nat /\ i \in 1 .. n /\ j \in 1 .. n /\ i + 1 \in 1 .. n
  BY LenProperties
<1>1. ExtentIn(al, f, top, al[j]) = EndAt(al, f, top, j) - f[al[j]]
  BY ExtentEnds
<1>2. ExtentIn(al, off, top, al[j]) = EndAt(al, off, top, j) - off[al[j]]
  BY ExtentEnds
<1> HIDE DEF n
<1>3. EndAt(al, f, top, j) = IF j = i THEN f[al[i + 1]] ELSE EndAt(al, off, top, j)
  <2>1. CASE j = i
    <3>1. j # n
      BY <2>1, <1>0
    <3>2. QED  BY <2>1, <3>1 DEF EndAt, n
  <2>2. CASE j = n
    <3>1. j # i
      BY <2>2, <1>0
    <3>2. QED  BY <2>2, <3>1 DEF EndAt, n
  <2>3. CASE j # i /\ j # n
    <3>1. j + 1 \in 1 .. n /\ j + 1 # i + 1
      BY <2>3, <1>0
    <3>2. f[al[j + 1]] = off[al[j + 1]]
      BY <3>1 DEF n, Stay
    <3>3. QED  BY <2>3, <3>2 DEF EndAt, n
  <2>4. QED  BY <2>1, <2>2, <2>3
<1>4. f[al[j]] = off[al[j]]
  BY DEF Stay
<1>5. QED  BY <1>1, <1>2, <1>3, <1>4

\* A buffer appended to the pool is all that is added, and moves no end.
LEMMA ExtentsAppend ==
  ASSUME NEW al, NEW off, NEW top, NEW r, NEW f, NEW big, NEW b,
         LinkedLast(al, off, top, r, f, big, b)
  PROVE  /\ ExtentIn(r, f, big, b) = big - top
         /\ \A j \in 1 .. Len(al) :
              ExtentIn(r, f, big, al[j]) = ExtentIn(al, off, top, al[j])
<1> DEFINE n == Len(al)
<1>9. /\ al \in Seq(Bufs) /\ off \in [Bufs -> Nat] /\ top \in Nat
      /\ Tiles(al, off, top) /\ b \in Bufs
      /\ f \in [Bufs -> Nat] /\ big \in Nat /\ Tiles(r, f, big)
      /\ Stay(al, off, f, 0) /\ r = Append(al, b) /\ f[b] = top
  BY DEF LinkedLast, Tiling
<1>0. n \in Nat
  BY <1>9, LenProperties
<1>6. \A l \in 1 .. n : f[al[l]] = off[al[l]]
  BY <1>9 DEF Stay
<1>1. /\ r \in Seq(Bufs) /\ Len(r) = n + 1 /\ r[n + 1] = b
      /\ \A l \in 1 .. n : r[l] = al[l]
  BY <1>9, AppendProperties
<1>2. \A l \in 1 .. Len(r) :
        ExtentIn(r, f, big, r[l]) = EndAt(r, f, big, l) - f[r[l]]
  BY <1>1, <1>9, ExtentEnds
<1> HIDE DEF n
<1>3. ExtentIn(r, f, big, b) = big - top
  <2>1. n + 1 \in 1 .. Len(r)
    BY <1>0, <1>1
  <2>2. EndAt(r, f, big, n + 1) = big
    BY <1>1 DEF EndAt
  <2>3. QED  BY <2>1, <2>2, <1>1, <1>2, <1>9
<1>4. ASSUME NEW j \in 1 .. n
      PROVE  ExtentIn(r, f, big, al[j]) = ExtentIn(al, off, top, al[j])
  <2>1. j \in 1 .. (n + 1) /\ j # n + 1
    BY <1>0
  <2>2. ExtentIn(r, f, big, r[j]) = EndAt(r, f, big, j) - f[r[j]]
    BY <2>1, <1>1, <1>2
  <2>3. ExtentIn(al, off, top, al[j]) = EndAt(al, off, top, j) - off[al[j]]
    BY <1>9, ExtentEnds DEF n
  <2>4. r[j] = al[j] /\ f[al[j]] = off[al[j]]
    BY <1>1, <1>6
  <2>5. EndAt(r, f, big, j) = EndAt(al, off, top, j)
    <3>1. CASE j = n
      <4>1. EndAt(r, f, big, j) = f[r[n + 1]]
        BY <3>1, <2>1, <1>1 DEF EndAt
      <4>2. QED  BY <4>1, <3>1, <1>1, <1>9 DEF EndAt, n
    <3>2. CASE j # n
      <4>1. j + 1 \in 1 .. n
        BY <3>2, <1>0
      <4>2. f[r[j + 1]] = off[al[j + 1]]
        BY <4>1, <1>1, <1>6
      <4>3. QED  BY <4>2, <3>2, <2>1, <1>1 DEF EndAt, n
    <3>3. QED  BY <3>1, <3>2
  <2>6. QED  BY <2>2, <2>3, <2>4, <2>5
<1>5. QED  BY <1>3, <1>4 DEF n

\* A pool that grows stretches its last buffer, and no other.
LEMMA ExtentsGrow ==
  ASSUME NEW al \in Seq(Bufs), NEW off \in [Bufs -> Nat], NEW top \in Nat,
         Tiles(al, off, top), NEW big \in Nat, top <= big,
         NEW j \in 1 .. Len(al)
  PROVE  ExtentIn(al, off, big, al[j])
           = IF j = Len(al) THEN big - off[al[j]] ELSE ExtentIn(al, off, top, al[j])
<1>1. Tiles(al, off, big)
  <2>1. Len(al) \in Nat /\ \A l \in 1 .. Len(al) : al[l] \in Bufs /\ off[al[l]] \in Nat
    BY EmptyList
  <2>2. Len(al) # 0
    BY <2>1
  <2>3. QED  BY <2>1, <2>2 DEF Tiles
<1>2. ExtentIn(al, off, big, al[j]) = EndAt(al, off, big, j) - off[al[j]]
  BY <1>1, ExtentAtPlace
<1>3. ExtentIn(al, off, top, al[j]) = EndAt(al, off, top, j) - off[al[j]]
  BY ExtentAtPlace
<1>4. QED  BY <1>2, <1>3 DEF EndAt

\* Extents depend on the offsets of linked buffers only.
LEMMA ExtentsAgree ==
  ASSUME NEW al \in Seq(Bufs), NEW off, NEW f, NEW top,
         \A c \in ToSet(al) : f[c] = off[c],
         NEW b \in ToSet(al)
  PROVE  ExtentIn(al, f, top, b) = ExtentIn(al, off, top, b)
<1> DEFINE k == CHOOSE k \in DOMAIN al : al[k] = b
           n == Len(al)
<1>1. n \in Nat /\ DOMAIN al = 1 .. n /\ \A l \in 1 .. n : f[al[l]] = off[al[l]]
  BY EmptyList
<1>2. \E l \in 1 .. n : al[l] = b
  BY EmptyList
<1>3. k \in 1 .. n
  BY <1>1, <1>2
<1>4. /\ ExtentIn(al, f, top, b) = EndAt(al, f, top, k) - f[al[k]]
      /\ ExtentIn(al, off, top, b) = EndAt(al, off, top, k) - off[al[k]]
  BY DEF ExtentIn
<1> HIDE DEF k, n
<1>5. k # n => k + 1 \in 1 .. n
  BY <1>1, <1>3
<1>6. EndAt(al, f, top, k) = EndAt(al, off, top, k)
  BY <1>1, <1>5 DEF EndAt, n
<1>7. QED  BY <1>1, <1>3, <1>4, <1>6

----------------------------------------------------------------------------
(* get_from_pool and return_to_pool *)

\* The extent that SizeAt computes for a place of the pool.
LEMMA SizeOfPlace ==
  ASSUME PoolTypes, PoolTiled, NEW i \in 1 .. Len(allocd)
  PROVE  /\ SizeAt(i) = EndAt(allocd, offset, poolSize, i) - offset[allocd[i]]
         /\ SizeAt(i) = ExtentIn(allocd, offset, poolSize, allocd[i])
         /\ SizeAt(i) \in Nat \ {0}
<1>1. /\ allocd \in Seq(Bufs) /\ offset \in [Bufs -> Nat] /\ poolSize \in Nat
      /\ Tiles(allocd, offset, poolSize)
  BY DEF PoolTypes, PoolTiled
<1> DEFINE e == EndAt(allocd, offset, poolSize, i)
<1>2. SizeAt(i) = e - offset[allocd[i]]
  BY DEF SizeAt, EndAt
<1>3. /\ e - offset[allocd[i]] = ExtentIn(allocd, offset, poolSize, allocd[i])
      /\ e \in Nat /\ offset[allocd[i]] < e
  BY <1>1, ExtentAtPlace
<1>4. offset[allocd[i]] \in Nat
  <2>1. allocd[i] \in Bufs
    BY <1>1, EmptyList
  <2>2. QED  BY <1>1, <2>1
<1> HIDE DEF e
<1>5. e - offset[allocd[i]] \in Nat \ {0}
  BY <1>3, <1>4
<1>6. QED  BY <1>2, <1>3, <1>5 DEF e

\* The sizes of groups, by a name that is expanded only where it matters.
Sizes == Nat \ {0}

\* get_from_pool leaves every owned buffer where and as long as it is, and
\* the buffer that it finds has the room asked for: that very room, unless
\* the struct for the rest of a larger hole could not be allocated.
LEMMA PlaceExtents ==
  ASSUME PoolTypes, PoolTiled, OwnedLinked,
         NEW b \in Bufs, NEW sz \in Sizes, Place(b, sz)
  PROVE  /\ \A c \in Bufs : owner[c] # NoGroup =>
              offset'[c] = offset[c] /\ Extent(c)' = Extent(c)
         /\ Extent(b)' >= sz
         /\ "alloc_buffer" \notin Faults => Extent(b)' = sz
<1> DEFINE X(c) == ExtentIn(allocd, offset, poolSize, c)
           Y(c) == ExtentIn(allocd', offset', poolSize', c)
           Same(c) == offset'[c] = offset[c] /\ Y(c) = X(c)
<1>1. /\ allocd \in Seq(Bufs) /\ offset \in [Bufs -> Nat] /\ poolSize \in Nat
      /\ Tiles(allocd, offset, poolSize)
  BY DEF PoolTypes, PoolTiled
<1>12. sz \in Nat /\ sz > 0
  BY DEF Sizes
<1>2. /\ Len(allocd) \in Nat
      /\ DOMAIN allocd = 1 .. Len(allocd)
      /\ \A i \in 1 .. Len(allocd) : allocd[i] \in Bufs /\ offset[allocd[i]] \in Nat
      /\ allocd = <<>> <=> Len(allocd) = 0
  BY <1>1, EmptyList
<1>3. \A c \in Bufs : owner[c] # NoGroup =>
        \E j \in 1 .. Len(allocd) : allocd[j] = c /\ owner[allocd[j]] # NoGroup
  <2>1. \A c \in ToSet(allocd) : \E j \in 1 .. Len(allocd) : allocd[j] = c
    BY <1>1, EmptyList
  <2>2. QED  BY <2>1 DEF OwnedLinked
<1>0. Len(allocd) \in Nat
  BY <1>2
<1>4. SUFFICES /\ \A j \in 1 .. Len(allocd) :
                    owner[allocd[j]] # NoGroup => Same(allocd[j])
               /\ Y(b) >= sz
               /\ "alloc_buffer" \notin Faults => Y(b) = sz
  <2> HIDE DEF X, Y
  <2>1. \A c \in Bufs : owner[c] # NoGroup => Same(c)
    BY <1>3, <1>4
  <2>2. \A c : Extent(c) = X(c) /\ Extent(c)' = Y(c)
    BY ExtentOfPool DEF X, Y
  <2>3. QED  BY <1>4, <2>1, <2>2
<1> HIDE DEF X, Y
<1>11. /\ allocd' \in Seq(Bufs) /\ offset' \in [Bufs -> Nat] /\ poolSize' \in Nat
       /\ Tiles(allocd', offset', poolSize')
  BY PlaceTiles DEF PoolTypes, PoolTiled, Sizes
<1>5. CASE PlaceExact(b, sz) \/ ("alloc_buffer" \in Faults /\ PlaceWhole(b, sz))
  <2>1. PICK i \in 1 .. Len(allocd) :
          /\ allocd[i] = b
          /\ SizeAt(i) = sz \/ ("alloc_buffer" \in Faults /\ SizeAt(i) > sz)
    BY <1>2, <1>5 DEF PlaceExact, PlaceWhole
  <2>2. UNCHANGED poolVars
    BY <1>5 DEF PlaceExact, PlaceWhole
  <2>3. \A c : Same(c)
    BY <2>2 DEF poolVars, X, Y
  <2>4. X(b) = SizeAt(i) /\ SizeAt(i) \in Nat
    BY <2>1, SizeOfPlace DEF X
  <2>5. Y(b) = SizeAt(i)
    BY <2>3, <2>4
  <2>6. QED  BY <1>12, <2>1, <2>3, <2>4, <2>5
<1>6. CASE PlacePullBack(b, sz)
  <2>1. PICK i \in 1 .. Len(allocd) :
          /\ allocd[i] = b /\ IsFree(i) /\ SizeAt(i) > sz
          /\ i < Len(allocd) /\ IsFree(i + 1)
          /\ offset' = [offset EXCEPT ![allocd[i + 1]] = @ - (SizeAt(i) - sz)]
    BY <1>2, <1>6 DEF PlacePullBack, FirstFit, Fits
  <2>2. UNCHANGED <<allocd, poolSize>>
    BY <1>6 DEF PlacePullBack
  <2>3. /\ i + 1 \in 1 .. Len(allocd) /\ i # Len(allocd) /\ i # i + 1
    <3>1. i < Len(allocd)
      BY <2>1
    <3>2. QED  BY <1>0, <3>1
  <2> DEFINE at == offset[allocd[i]] + sz
  <2>4. SizeAt(i) = offset[allocd[i + 1]] - offset[allocd[i]]
    BY <2>3 DEF SizeAt
  <2>5. offset[allocd[i]] \in Nat /\ offset[allocd[i + 1]] \in Nat
    BY <1>2, <2>3
  <2>6. /\ offset[allocd[i + 1]] - (SizeAt(i) - sz) = at /\ at \in Nat
        /\ offset[allocd[i]] < at /\ at <= offset[allocd[i + 1]]
        /\ at - offset[allocd[i]] = sz
    <3>1. SizeAt(i) > sz
      BY <2>1
    <3>2. QED  BY <1>12, <2>4, <2>5, <3>1
  <2>7. offset' = [offset EXCEPT ![allocd[i + 1]] = at]
    BY <2>1, <2>6
  <2> HIDE DEF at
  <2>8. /\ \A j \in 1 .. Len(allocd) :
             j # i + 1 => offset'[allocd[j]] = offset[allocd[j]]
        /\ offset'[allocd[i + 1]] = at
    <3>1. \A j \in 1 .. Len(allocd) : j # i + 1 => allocd[j] # allocd[i + 1]
      BY <1>1, <2>3, TilesOnce
    <3>2. QED  BY <1>1, <1>2, <2>3, <2>7, <3>1
  <2>13. Stay(allocd, offset, offset', i + 1)
    BY <2>8 DEF Stay
  <2>12. \A j \in 1 .. Len(allocd) :
           j # i + 1 => Y(allocd[j]) = IF j = i THEN sz ELSE X(allocd[j])
    <3>1. Tiles(allocd, offset', poolSize) /\ offset' \in [Bufs -> Nat]
      BY <1>11, <2>2
    <3>2. \A j \in 1 .. Len(allocd) : j # i + 1 =>
            /\ j = i => ExtentIn(allocd, offset', poolSize, allocd[j])
                          = offset'[allocd[i + 1]] - offset[allocd[i]]
            /\ j # i => ExtentIn(allocd, offset', poolSize, allocd[j])
                          = ExtentIn(allocd, offset, poolSize, allocd[j])
      BY <1>1, <2>3, <2>13, <3>1, ExtentsPull
    <3>3. QED  BY <2>2, <2>6, <2>8, <3>2 DEF X, Y
  <2>9. \A j \in 1 .. Len(allocd) :
          owner[allocd[j]] # NoGroup => j # i + 1 /\ j # i
    BY <2>1 DEF IsFree
  <2>10. Y(b) = sz
    BY <2>1, <2>3, <2>12
  <2>11. QED  BY <1>12, <2>8, <2>9, <2>10, <2>12
<1>7. CASE PlaceSplit(b, sz)
  <2>1. PICK i \in 1 .. Len(allocd), rest \in Fresh :
          /\ allocd[i] = b /\ IsFree(i) /\ SizeAt(i) > sz
          /\ allocd' = InsertAt(allocd, i + 1, rest)
          /\ offset' = [offset EXCEPT ![rest] = offset[b] + sz]
    BY <1>2, <1>7 DEF PlaceSplit, FirstFit, Fits
  <2>2. /\ rest \in Bufs /\ rest \notin ToSet(allocd)
        /\ offset[allocd[i]] = offset[b] /\ offset[b] \in Nat
    BY <1>2, <2>1 DEF Fresh
  <2>3. UNCHANGED poolSize
    BY <1>7 DEF PlaceSplit
  <2>4. \A j \in 1 .. Len(allocd) : offset'[allocd[j]] = offset[allocd[j]]
    <3>1. \A j \in 1 .. Len(allocd) : allocd[j] # rest
      BY <1>1, <2>2, EmptyList
    <3>2. QED  BY <1>1, <1>2, <2>1, <3>1
  <2>5. offset'[rest] - offset[allocd[i]] = sz
    <3>1. offset'[rest] = offset[b] + sz
      BY <1>1, <2>1, <2>2
    <3>2. QED  BY <1>12, <2>2, <3>1
  <2>6. \A j \in 1 .. Len(allocd) :
          /\ j = i => ExtentIn(allocd', offset', poolSize, allocd[j])
                        = offset'[rest] - offset[allocd[i]]
          /\ j # i => ExtentIn(allocd', offset', poolSize, allocd[j])
                        = ExtentIn(allocd, offset, poolSize, allocd[j])
    <3>1. Tiles(allocd', offset', poolSize)
      BY <1>11, <2>3
    <3>2. Stay(allocd, offset, offset', 0)
      BY <2>4 DEF Stay
    <3>3. LinkedAfter(allocd, offset, allocd', offset', poolSize, i, rest)
      BY <1>1, <1>11, <2>1, <2>2, <3>1, <3>2 DEF LinkedAfter, Tiling
    <3>4. QED  BY <3>3, ExtentsInsert
  <2>8. \A j \in 1 .. Len(allocd) :
          Y(allocd[j]) = IF j = i THEN sz ELSE X(allocd[j])
    BY <2>3, <2>5, <2>6 DEF X, Y
  <2>9. \A j \in 1 .. Len(allocd) : owner[allocd[j]] # NoGroup => j # i
    BY <2>1 DEF IsFree
  <2>10. Y(b) = sz
    BY <2>1, <2>8
  <2>11. QED  BY <1>12, <2>4, <2>8, <2>9, <2>10
<1>8. CASE PlaceExtend(b, sz)
  <2> DEFINE n == Len(allocd)
             big == poolSize + (sz - SizeAt(n))
  <2>1. n \in 1 .. Len(allocd) /\ b = allocd[n] /\ IsFree(n) /\ ~Fits(n, sz)
    BY <1>2, <1>8 DEF PlaceExtend, LastIsFree, NoFit
  <2>2. /\ SizeAt(n) = poolSize - offset[b] /\ offset[b] \in Nat
        /\ SizeAt(n) < sz
    <3>1. SizeAt(n) = poolSize - offset[b] /\ offset[b] \in Nat
      BY <1>2, <2>1 DEF SizeAt
    <3>2. ~(SizeAt(n) >= sz)
      BY <2>1 DEF Fits
    <3>3. QED  BY <1>1, <1>12, <3>1, <3>2
  <2>3. big \in Nat /\ poolSize <= big /\ big - offset[b] = sz
    BY <1>1, <1>12, <2>2
  <2>4. poolSize' = big /\ UNCHANGED <<allocd, offset>>
    BY <1>8 DEF PlaceExtend
  <2> HIDE DEF n, big
  <2>5. \A j \in 1 .. Len(allocd) :
          ExtentIn(allocd, offset, big, allocd[j])
            = IF j = Len(allocd) THEN big - offset[allocd[j]] ELSE X(allocd[j])
    BY <1>1, <2>3, ExtentsGrow DEF X
  <2>6. \A j \in 1 .. Len(allocd) :
          Y(allocd[j]) = IF j = n THEN sz ELSE X(allocd[j])
    BY <2>1, <2>3, <2>4, <2>5 DEF Y, n
  <2>7. \A j \in 1 .. Len(allocd) : owner[allocd[j]] # NoGroup => j # n
    BY <2>1 DEF IsFree
  <2>8. Y(b) = sz
    BY <2>1, <2>6
  <2>9. QED  BY <1>12, <2>4, <2>6, <2>7, <2>8
<1>9. CASE PlaceAppend(b, sz)
  <2>1. b \notin ToSet(allocd)
    BY <1>9 DEF PlaceAppend, Fresh
  <2>2. /\ allocd' = Append(allocd, b)
        /\ offset' = [offset EXCEPT ![b] = IF allocd = <<>> THEN 0 ELSE poolSize]
        /\ poolSize' = poolSize + sz
    BY <1>9 DEF PlaceAppend
  <2>3. offset'[b] = poolSize
    BY <1>1, <1>2, <2>2 DEF Tiles
  <2>4. \A j \in 1 .. Len(allocd) : offset'[allocd[j]] = offset[allocd[j]]
    <3>1. \A j \in 1 .. Len(allocd) : allocd[j] # b
      BY <1>1, <2>1, EmptyList
    <3>2. QED  BY <1>1, <1>2, <2>2, <3>1
  <2>5. /\ Y(b) = poolSize' - poolSize
        /\ \A j \in 1 .. Len(allocd) : Y(allocd[j]) = X(allocd[j])
    <3>1. Stay(allocd, offset, offset', 0)
      BY <2>4 DEF Stay
    <3>2. LinkedLast(allocd, offset, poolSize, allocd', offset', poolSize', b)
      BY <1>1, <1>11, <2>2, <2>3, <3>1 DEF LinkedLast, Tiling
    <3>3. QED  BY <3>2, ExtentsAppend DEF X, Y
  <2>6. Y(b) = sz
    BY <1>1, <1>12, <2>2, <2>5
  <2>7. QED  BY <1>12, <2>4, <2>5, <2>6
<1>10. QED  BY <1>5, <1>6, <1>7, <1>8, <1>9 DEF Place

\* Merging a returned buffer with the holes around it stretches b or the hole
\* before it, and no buffer that a group owns.
LEMMA MergedExtents ==
  ASSUME PoolTypes, PoolTiled, NEW b \in ToSet(allocd),
         NEW c \in ToSet(allocd), owner[c] # NoGroup, c # b
  PROVE  ExtentIn(Merged(b), offset, poolSize, c)
           = ExtentIn(allocd, offset, poolSize, c)
<1> DEFINE i == IndexOf(b)
           n == Len(allocd)
           rest == IF i < n /\ IsFree(i + 1) THEN RemoveAt(allocd, i + 1) ELSE allocd
           m == IF i > 1 /\ IsFree(i - 1) THEN RemoveAt(rest, i) ELSE rest
           X(al) == ExtentIn(al, offset, poolSize, c)
<1>1. /\ allocd \in Seq(Bufs) /\ offset \in [Bufs -> Nat] /\ poolSize \in Nat
      /\ Tiles(allocd, offset, poolSize)
  BY DEF PoolTypes, PoolTiled
<1>2. /\ n \in Nat
      /\ DOMAIN allocd = 1 .. n
      /\ \A d \in ToSet(allocd) : \E k \in 1 .. n : allocd[k] = d
  BY <1>1, EmptyList
<1>3. i \in 1 .. n /\ allocd[i] = b
  BY <1>2 DEF IndexOf
<1>4. PICK j \in 1 .. n : allocd[j] = c
  BY <1>2
<1> HIDE DEF i, n
<1>5. /\ rest \in Seq(Bufs) /\ Tiles(rest, offset, poolSize)
      /\ i \in 1 .. Len(rest) /\ rest[i] = b
      /\ \A k \in 1 .. (i - 1) : rest[k] = allocd[k]
      /\ c \in ToSet(rest) /\ X(rest) = X(allocd)
  <2>1. CASE i < n /\ IsFree(i + 1)
    <3>1. i + 1 \in 1 .. n /\ i + 1 \in 2 .. n /\ (i + 1) - 1 = i
      BY <2>1, <1>2, <1>3
    <3>2. rest = RemoveAt(allocd, i + 1)
      BY <2>1
    <3> HIDE DEF rest
    <3>3. j # i + 1 /\ j # (i + 1) - 1
      BY <2>1, <3>1, <1>3, <1>4 DEF IsFree
    <3>4. /\ rest \in Seq(Bufs)
          /\ Len(rest) = n - 1
          /\ \A k \in 1 .. (n - 1) :
               rest[k] = IF k < i + 1 THEN allocd[k] ELSE allocd[k + 1]
      BY <3>1, <3>2, <1>1, RemoveAtSeq DEF n
    <3>5. \A k \in 1 .. n : k # i + 1 => allocd[k] \in ToSet(rest)
      BY <3>1, <3>2, <1>1, RemoveAtSet DEF n
    <3>6. Tiles(rest, offset, poolSize)
      BY <3>1, <3>2, <1>1, TilesRemove DEF n
    <3>7. X(rest) = X(allocd)
      BY <3>1, <3>2, <3>3, <1>1, <1>4, ExtentsRemove DEF n
    <3>8. ASSUME NEW k \in 1 .. i
          PROVE  rest[k] = allocd[k]
      <4>1. k \in 1 .. (n - 1) /\ k < i + 1
        BY <2>1, <1>2, <1>3
      <4>2. QED  BY <4>1, <3>4
    <3>9. /\ i \in 1 .. (n - 1) /\ i \in 1 .. i
          /\ \A k \in 1 .. (i - 1) : k \in 1 .. i
      BY <2>1, <1>2, <1>3
    <3>10. QED  BY <3>3, <3>4, <3>5, <3>6, <3>7, <3>8, <3>9, <1>3, <1>4
  <2>2. CASE ~(i < n /\ IsFree(i + 1))
    <3>1. rest = allocd
      BY <2>2
    <3> HIDE DEF rest
    <3>2. \A k \in 1 .. (i - 1) : rest[k] = allocd[k]
      BY <3>1
    <3>3. QED  BY <3>1, <3>2, <1>1, <1>3 DEF n
  <2>3. QED  BY <2>1, <2>2
<1> HIDE DEF rest
<1>6. X(m) = X(rest)
  <2>1. CASE i > 1 /\ IsFree(i - 1)
    <3>1. m = RemoveAt(rest, i)
      BY <2>1
    <3> HIDE DEF m
    <3>2. PICK k \in 1 .. Len(rest) : rest[k] = c
      BY <1>5, EmptyList
    <3>3. i \in 2 .. Len(rest) /\ i - 1 \in 1 .. (i - 1)
      <4>1. Len(rest) \in Nat
        BY <1>5, LenProperties
      <4>2. QED  BY <4>1, <2>1, <1>5
    <3>4. k # i /\ k # i - 1
      BY <2>1, <3>2, <3>3, <1>5 DEF IsFree
    <3>5. QED  BY <3>1, <3>2, <3>3, <3>4, <1>1, <1>5, ExtentsRemove
  <2>2. CASE ~(i > 1 /\ IsFree(i - 1))
    BY <2>2
  <2>3. QED  BY <2>1, <2>2
<1>7. Merged(b) = m
  BY DEF Merged, m, rest, i, n
<1>8. QED  BY <1>5, <1>6, <1>7

\* return_to_pool leaves every other owned buffer where and as long as it is.
LEMMA ReturnExtents ==
  ASSUME PoolTypes, PoolTiled, OwnedLinked,
         NEW b \in Bufs, owner[b] # NoGroup,
         NEW flags, ReturnToPool(b, flags),
         NEW c \in Bufs, owner[c] # NoGroup, c # b
  PROVE  offset'[c] = offset[c] /\ Extent(c)' = Extent(c)
<1> DEFINE m    == Merged(b)
           kept == IF Len(m) = 1 THEN <<>> ELSE m
<1>1. b \in ToSet(allocd) /\ c \in ToSet(allocd)
  BY DEF OwnedLinked
<1>2. /\ m \in Seq(Bufs) /\ c \in ToSet(m)
      /\ \E d \in ToSet(m) : d = b \/ owner[d] = NoGroup
  BY <1>1, MergedTiles
<1>3. ExtentIn(m, offset, poolSize, c) = ExtentIn(allocd, offset, poolSize, c)
  BY <1>1, MergedExtents
<1>4. /\ allocd' = kept
      /\ offset' = [d \in Bufs |->
                      IF d \in ToSet(allocd) \ ToSet(kept) THEN 0 ELSE offset[d]]
      /\ kept # <<>> => poolSize' = poolSize
  BY DEF ReturnToPool
<1> HIDE DEF m
<1>5. kept = m /\ kept # <<>>
  <2>1. PICK d \in ToSet(m) : d = b \/ owner[d] = NoGroup
    BY <1>2
  <2>2. PICK i \in 1 .. Len(m), j \in 1 .. Len(m) : m[i] = c /\ m[j] = d
    BY <2>1, <1>2, EmptyList
  <2>3. Len(m) # 1 /\ m # <<>>
    BY <2>1, <2>2, <1>2, EmptyList
  <2>4. QED  BY <2>3
<1>6. \A d \in ToSet(m) : offset'[d] = offset[d]
  <2>1. ToSet(m) \subseteq Bufs
    BY <1>2, EmptyList
  <2>2. QED  BY <2>1, <1>4, <1>5
<1>7. ExtentIn(m, offset', poolSize, c) = ExtentIn(m, offset, poolSize, c)
  BY <1>2, <1>6, ExtentsAgree
<1>8. Extent(c)' = ExtentIn(m, offset', poolSize, c)
  BY <1>4, <1>5, ExtentOfPool
<1>9. QED  BY <1>2, <1>3, <1>6, <1>7, <1>8, ExtentOfPool

----------------------------------------------------------------------------
(* The refinement of Extents *)

OwnedBufs == {c \in Bufs : owner[c] # NoGroup}

\* A step that neither moves these buffers nor gives them to another group.
Undisturbed(B) ==
  \A c \in B : owner'[c] = owner[c] /\ offset'[c] = offset[c]
               /\ Extent(c)' = Extent(c)

\* A step hands out one hole, takes one buffer back, or changes no owner; the
\* other buffers that groups own stay as they are.
OwnersStay == owner' = owner /\ Undisturbed(OwnedBufs)
OwnerGained ==
  \E b \in Bufs \ OwnedBufs, g \in Groups :
    owner' = [owner EXCEPT ![b] = g] /\ Undisturbed(OwnedBufs)
OwnerLost ==
  \E b \in OwnedBufs :
    owner' = [owner EXCEPT ![b] = NoGroup] /\ Undisturbed(OwnedBufs \ {b})

\* Steps that leave the owners and the pool's list alone.
LEMMA PoolUntouched ==
  ASSUME UNCHANGED <<owner, allocd, offset, poolSize>>
  PROVE  OwnersStay
  BY ExtentOfPool DEF OwnersStay, Undisturbed

\* smm_acquire takes a hole, and gives it to the group unless the client's
\* new_buffer callback fails.
LEMMA PlaceOwners ==
  ASSUME IInv, NEW g \in Groups, AcquireFromPool(g) \/ AcquireRefused(g)
  PROVE  OwnersStay \/ OwnerGained
<1>1. PICK b \in Bufs :
        /\ Place(b, size[g])
        /\ owner' = owner \/ owner' = [owner EXCEPT ![b] = g]
  BY DEF AcquireFromPool, AcquireRefused, bufVars
<1>2. PoolTypes /\ PoolTiled /\ OwnedLinked /\ size[g] \in Sizes
  BY InvariantParts DEF IInv, TypeOK, Sizes
<1>3. owner[b] = NoGroup
  BY <1>1, <1>2, PlaceTiles DEF Sizes
<1>4. \A c \in OwnedBufs : offset'[c] = offset[c] /\ Extent(c)' = Extent(c)
  BY <1>1, <1>2, PlaceExtents DEF OwnedBufs
<1>5. \A c \in OwnedBufs : owner'[c] = owner[c]
  BY <1>1, <1>3 DEF OwnedBufs, IInv, TypeOK
<1>6. Undisturbed(OwnedBufs)
  BY <1>4, <1>5 DEF Undisturbed
<1>7. b \in Bufs \ OwnedBufs
  BY <1>3 DEF OwnedBufs
<1>8. QED  BY <1>1, <1>6, <1>7 DEF OwnersStay, OwnerGained

\* return_to_pool takes one buffer from the group that owns it.
LEMMA ReturnOwners ==
  ASSUME IInv, NEW b \in OwnedBufs, NEW flags, ReturnToPool(b, flags)
  PROVE  OwnerLost
<1>1. PoolTypes /\ PoolTiled /\ OwnedLinked /\ b \in Bufs /\ owner[b] # NoGroup
  BY InvariantParts DEF OwnedBufs
<1>2. owner' = [owner EXCEPT ![b] = NoGroup]
  BY DEF ReturnToPool
<1>3. \A c \in OwnedBufs \ {b} : offset'[c] = offset[c] /\ Extent(c)' = Extent(c)
  BY <1>1, ReturnExtents DEF OwnedBufs
<1>4. \A c \in OwnedBufs \ {b} : owner'[c] = owner[c]
  BY <1>2 DEF OwnedBufs, IInv, TypeOK
<1>5. QED  BY <1>2, <1>3, <1>4 DEF OwnerLost, Undisturbed

\* What the queues of a group hold is owned.
LEMMA QueuedOwned ==
  ASSUME IInv, NEW g \in Groups
  PROVE  /\ \A b \in inuse[g] : b \in OwnedBufs /\ owner[b] = g
         /\ unused[g] # <<>> =>
              Head(unused[g]) \in OwnedBufs /\ owner[Head(unused[g])] = g
<1>1. QueuesAt(g) /\ unused[g] \in Seq(Bufs)
  BY InvariantParts DEF IInv, TypeOK
<1>2. g # NoGroup
  BY GroupsAssumption
<1>3. \A b \in ToSet(unused[g]) \cup inuse[g] : b \in Bufs /\ owner[b] = g
  BY <1>1 DEF QueuesAt, Owned
<1>4. unused[g] # <<>> => Head(unused[g]) \in ToSet(unused[g])
  BY <1>1, Dequeued DEF QueuesAt
<1>5. QED  BY <1>2, <1>3, <1>4 DEF OwnedBufs

\* Every step of the manager hands out at most one buffer or takes one back.
LEMMA StepOwners ==
  ASSUME IInv, [Next]_vars
  PROVE  OwnersStay \/ OwnerGained \/ OwnerLost
<1>1. ASSUME NEW g \in Groups, ReturnUnused(g)
      PROVE  OwnerLost
  <2>1. Head(unused[g]) \in OwnedBufs
    BY <1>1, QueuedOwned DEF ReturnUnused
  <2>2. QED  BY <1>1, <2>1, ReturnOwners DEF ReturnUnused
<1>2. ASSUME NEW g \in Groups, NEW b \in Bufs, Release(g, b)
      PROVE  OwnersStay \/ OwnerLost
  <2>1. b \in OwnedBufs
    BY <1>2, QueuedOwned DEF Release
  <2>2. CASE resized[b]
    <3>1. ReturnToPool(b, [resized EXCEPT ![b] = FALSE])
      BY <1>2, <2>2 DEF Release
    <3>2. QED  BY <2>1, <3>1, ReturnOwners
  <2>3. CASE ~resized[b]
    <3>1. UNCHANGED <<owner, allocd, offset, poolSize>>
      BY <1>2, <2>3 DEF Release, bufVars, poolVars
    <3>2. QED  BY <3>1, PoolUntouched
  <2>4. QED  BY <2>2, <2>3
<1>3. ASSUME NEW g \in Groups, NEW b \in Bufs, DestroyInUse(g, b)
      PROVE  OwnerLost
  <2>1. b \in OwnedBufs
    BY <1>3, QueuedOwned DEF DestroyInUse
  <2>2. QED  BY <1>3, <2>1, ReturnOwners DEF DestroyInUse
<1>4. ASSUME NEW g \in Groups,
             \/ AcquireUnused(g) \/ AcquireFails(g)
             \/ TrimDone(g) \/ Create(g) \/ Destroy(g) \/ DestroyDone(g)
             \/ ResizeInUse(g)
      PROVE  OwnersStay
  <2>1. UNCHANGED <<owner, allocd, offset, poolSize>>
    BY <1>4 DEF AcquireUnused, AcquireFails, TrimDone, Create, Destroy,
                DestroyDone, ResizeInUse, bufVars, poolVars
  <2>2. QED  BY <2>1, PoolUntouched
<1>5. ASSUME NEW g \in Groups, NEW b \in Bufs,
             InitBuffer(g, b) \/ InitBufferFails(g, b)
      PROVE  OwnersStay
  <2>1. UNCHANGED <<owner, allocd, offset, poolSize>>
    BY <1>5 DEF InitBuffer, InitBufferFails, bufVars, poolVars
  <2>2. QED  BY <2>1, PoolUntouched
<1>6. CASE UNCHANGED vars
  BY <1>6, PoolUntouched DEF vars, bufVars, poolVars
<1>7. CASE Calls
  <2>1. ASSUME Deinit
        PROVE  OwnersStay
    <3>1. UNCHANGED <<owner, allocd, offset, poolSize>>
      BY <2>1 DEF Deinit, bufVars, poolVars
    <3>2. QED  BY <3>1, PoolUntouched
  <2>2. ASSUME NEW b \in Bufs, Map(b)
        PROVE  OwnersStay
    <3>1. UNCHANGED <<owner, allocd, offset, poolSize>>
      BY <2>2 DEF Map, bufVars, poolVars
    <3>2. QED  BY <3>1, PoolUntouched
  <2>3. ASSUME NEW g \in Groups, NEW sz \in Requests, Resize(g, sz)
        PROVE  OwnersStay
    <3>1. UNCHANGED <<owner, allocd, offset, poolSize>>
      BY <2>3 DEF Resize, bufVars, poolVars
    <3>2. QED  BY <3>1, PoolUntouched
  <2>4. QED  BY <1>2, <1>4, <1>7, <2>1, <2>2, <2>3, PlaceOwners DEF Calls
<1>8. CASE Proceed
  BY <1>1, <1>2, <1>3, <1>4, <1>5, <1>8
     DEF Proceed, Trim, ResizeUnused, DestroyUnused
<1>9. QED  BY <1>6, <1>7, <1>8 DEF Next

\* In a tiled pool the extents of two buffers are disjoint, and none is empty.
LEMMA ExtentsApart ==
  ASSUME NEW al, NEW off, NEW top, Tiling(al, off, top),
         NEW b \in ToSet(al), NEW c \in ToSet(al)
  PROVE  /\ ExtentIn(al, off, top, b) \in Nat /\ ExtentIn(al, off, top, b) > 0
         /\ off[b] \in Nat
         /\ b # c => \/ off[b] + ExtentIn(al, off, top, b) <= off[c]
                     \/ off[c] + ExtentIn(al, off, top, c) <= off[b]
<1> DEFINE End(i) == EndAt(al, off, top, i)
           X(d) == ExtentIn(al, off, top, d)
<1>1. /\ al \in Seq(Bufs) /\ off \in [Bufs -> Nat] /\ top \in Nat
      /\ Tiles(al, off, top)
  BY DEF Tiling
<1>2. PICK i \in 1 .. Len(al), j \in 1 .. Len(al) : al[i] = b /\ al[j] = c
  BY <1>1, EmptyList
<1>3. /\ X(b) = End(i) - off[b] /\ X(c) = End(j) - off[c]
      /\ End(i) \in Nat /\ End(j) \in Nat
      /\ off[b] < End(i)
      /\ i < j => End(i) <= off[c]
      /\ j < i => End(j) <= off[b]
  BY <1>1, <1>2, ExtentAtPlace
<1>4. off[b] \in Nat /\ off[c] \in Nat
  BY <1>1, <1>2, EmptyList
<1> HIDE DEF End, X
<1>5. X(b) \in Nat /\ X(b) > 0
  <2>1. X(b) = End(i) - off[b] /\ End(i) \in Nat /\ off[b] \in Nat /\ off[b] < End(i)
    BY <1>3, <1>4
  <2>2. QED  BY <2>1
<1>6. ASSUME b # c
      PROVE  off[b] + X(b) <= off[c] \/ off[c] + X(c) <= off[b]
  <2>1. Len(al) \in Nat
    BY <1>1, LenProperties
  <2>2. i < j \/ j < i
    BY <1>2, <1>6, <2>1
  <2>3. QED  BY <1>3, <1>4, <2>2
<1>7. QED  BY <1>4, <1>5, <1>6 DEF X

\* What the manager has granted: its owned buffers, each with its extent.
LEMMA GrantedAre ==
  /\ DOMAIN Granted = OwnedBufs
  /\ \A b \in OwnedBufs :
       Granted[b] = [grp |-> owner[b], first |-> offset[b], len |-> Extent(b)]
  BY DEF Granted, OwnedBufs

\* The same of the next state.
LEMMA GrantedBecome ==
  /\ DOMAIN Granted' = OwnedBufs'
  /\ \A b \in OwnedBufs' :
       Granted'[b] = [grp |-> owner'[b], first |-> offset'[b], len |-> Extent(b)']
  BY DEF Granted, OwnedBufs

\* A buffer that a step leaves undisturbed is granted as before.
LEMMA GrantedStays ==
  ASSUME NEW B, Undisturbed(B), NEW b \in B, b \in OwnedBufs, b \in OwnedBufs'
  PROVE  Granted'[b] = Granted[b]
  BY GrantedAre, GrantedBecome DEF Undisturbed

\* Every step of the manager grants one buffer, retires one, or is a stutter
\* of the abstract specification.
LEMMA StepRefines ==
  ASSUME IInv, IInv', [Next]_vars
  PROVE  [Grants!Next]_Granted
<1>1. owner \in [Bufs -> Groups \cup {NoGroup}]
  BY DEF IInv, TypeOK
<1>2. NoGroup \notin Groups
  BY GroupsAssumption
<1>3. CASE OwnersStay
  <2>1. OwnedBufs' = OwnedBufs
    BY <1>3 DEF OwnersStay, OwnedBufs
  <2>2. \A b \in OwnedBufs : Granted'[b] = Granted[b]
    BY <1>3, <2>1, GrantedStays DEF OwnersStay
  <2>3. Granted' = Granted
    BY <2>1, <2>2 DEF Granted, OwnedBufs
  <2>4. QED  BY <2>3
<1>4. CASE OwnerGained
  <2>1. PICK b \in Bufs \ OwnedBufs, g \in Groups :
          owner' = [owner EXCEPT ![b] = g] /\ Undisturbed(OwnedBufs)
    BY <1>4 DEF OwnerGained
  <2>2. OwnedBufs' = OwnedBufs \cup {b}
    BY <1>1, <1>2, <2>1 DEF OwnedBufs
  <2>3. \A c \in OwnedBufs : Granted'[c] = Granted[c]
    BY <2>1, <2>2, GrantedStays
  <2>4. /\ Tiling(allocd', offset', poolSize')
        /\ \A c \in OwnedBufs' : c \in ToSet(allocd')
    BY DEF IInv, TypeOK, PoolTiled, QueuesMatchOwner, OwnedBufs, Tiling
  <2>5. b \in OwnedBufs' /\ owner'[b] = g
    BY <1>1, <2>1, <2>2
  <2>6. /\ Granted'[b].grp = g
        /\ Granted'[b].len = Extent(b)'
        /\ Granted'[b].first = offset'[b]
    BY <2>5, GrantedBecome
  <2>7. Granted'[b].len > 0
    BY <2>4, <2>5, <2>6, ExtentsApart, ExtentOfPool
  <2>8. ASSUME NEW c \in OwnedBufs
        PROVE  ~Grants!Overlap(Granted[c], Granted'[b])
    <3>1. c \in OwnedBufs' /\ c # b
      BY <2>1, <2>2
    <3>2. Granted[c].first = offset'[c] /\ Granted[c].len = Extent(c)'
      BY <2>3, <3>1, GrantedBecome
    <3>3. /\ Extent(b)' \in Nat /\ offset'[b] \in Nat
          /\ Extent(c)' \in Nat /\ offset'[c] \in Nat
          /\ \/ offset'[b] + Extent(b)' <= offset'[c]
             \/ offset'[c] + Extent(c)' <= offset'[b]
      BY <2>4, <2>5, <3>1, ExtentsApart, ExtentOfPool
    <3>4. QED  BY <2>6, <3>2, <3>3 DEF Grants!Overlap
  <2>9. Grants!Grant(b)
    BY <2>1, <2>2, <2>3, <2>6, <2>7, <2>8, GrantedAre, GrantedBecome
       DEF Grants!Grant, Grants!Buffers
  <2>10. QED  BY <2>1, <2>9 DEF Grants!Next
<1>5. CASE OwnerLost
  <2>1. PICK b \in OwnedBufs :
          owner' = [owner EXCEPT ![b] = NoGroup] /\ Undisturbed(OwnedBufs \ {b})
    BY <1>5 DEF OwnerLost
  <2>2. OwnedBufs' = OwnedBufs \ {b}
    BY <1>1, <2>1 DEF OwnedBufs
  <2>3. \A c \in OwnedBufs \ {b} : Granted'[c] = Granted[c]
    BY <2>1, <2>2, GrantedStays
  <2>4. Grants!Retire(b)
    BY <2>1, <2>2, <2>3, GrantedAre, GrantedBecome DEF Grants!Retire, Grants!Buffers
  <2>5. QED  BY <2>1, <2>4 DEF Grants!Next, OwnedBufs
<1>6. QED  BY <1>3, <1>4, <1>5, StepOwners

\* The manager implements the grant of disjoint extents: whatever its clients
\* do and whatever fails, a buffer that smm_acquire hands out overlaps no
\* other, and neither moves nor changes its length or its group until smm.c
\* takes it back.
THEOREM RefinesExtents == Spec => ImplementsExtents
<1>1. Init => Grants!Init
  BY GroupsAssumption DEF Init, Grants!Init, Granted
<1>2. IInv /\ IInv' /\ [Next]_vars => [Grants!Next]_Granted
  BY StepRefines
<1>3. QED
  BY <1>1, <1>2, Invariance, PTL DEF Spec, ImplementsExtents, Grants!Spec

============================================================================
