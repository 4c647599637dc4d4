---------------------------- MODULE Reporting_proofs ----------------------------
(* Theorems about what a run leaves behind and what it hands out: AuditLog, for *)
(* any writers, sizes, bounds and durability, and EventStream, for any tool     *)
(* calls, queue size and number of turns.                                       *)
EXTENDS AuditLog, EventStream, FiniteSetTheorems, SequenceTheorems, WellFoundedInduction,
        TLAPS

-------------------------------------------------------------------------------
(* The audit log                                                              *)

\* Another writer's entry was not to be seen, or a line could not be read.
Sound == gaps \cap {"glued", "window", "unflushed"} = {}

\* The file with what w has not handed over.
Ahead(w) == AppendRecords(file, buffer[w])

Whole(f) == \A n \in DOMAIN f.lines : IsEntry(f.lines[n]) \/ (n = Len(f.lines) /\ ~f.nl)

\* Lines without a hash come first, and a header before all others.
HashedLast(f) ==
    /\ \A m \in Hashed(f), n \in ReadRaw(f) : m < n => n \in Hashed(f)
    /\ Headers(f) \subseteq Hashed(f)
    /\ \A n \in Hashed(f) : \E h \in Headers(f) : h <= n

\* Each entry continues the one before it; the first one opens the chain.
Linked(f) ==
    \A n \in Hashed(f) :
        IF n - 1 \in Hashed(f) THEN f.lines[n].prev = f.lines[n - 1].hash
        ELSE n \in Headers(f) /\ f.lines[n].prev = Genesis(f.lines[n].data)

Chained(f) == Whole(f) /\ HashedLast(f) /\ Linked(f)

\* A seal attests at most the entries before it.
SealsBehind(f) ==
    \A n \in Hashed(f), h \in Headers(f) :
        IsSeal(f.lines[n]) => \E g \in Headers(f) : g <= h /\ f.lines[n].data + g <= n

\* Where a writer's fields and its buffer may be.
PlaceInv ==
    /\ ~file.nl => file.lines # <<>> /\ Durability # "os"
    /\ \A w \in Writers :
          /\ buffer[w] # <<>> => /\ Durability = "os" /\ Len(buffer[w]) = 1
                                 /\ writer[w].pc \in {"open", "sealing"}
                                 /\ IsHashed(buffer[w][1])
          /\ writer[w].lastSize <= size
          /\ writer[w].pc # "sealing" => writer[w].since < SealEvery
          /\ writer[w].pc = "new" => /\ writer[w].lastSize = -1 /\ writer[w].count = 0
                                     /\ writer[w].head = Genesis(writer[w].cid)

\* Nobody appends over what another has not handed over.
AloneInv ==
    Sound => \A w \in Writers : buffer[w] # <<>> =>
                 /\ writer[w].lastSize = size
                 /\ \A v \in Writers \ {w} : buffer[v] = <<>>

ChainInv == Sound => Chained(file) /\ \A w \in Writers : Chained(Ahead(w))

AtTail(f, head) == f.nl /\ Len(f.lines) \in Hashed(f) /\ f.lines[Len(f.lines)].hash = head

\* A writer that nobody has overtaken knows the tail; one that has written has a chain.
HeadInv ==
    Sound => \A w \in Writers :
                 /\ writer[w].lastSize = size => AtTail(Ahead(w), writer[w].head)
                 /\ writer[w].pc \in {"open", "sealing"} => Hashed(Ahead(w)) # {}

\* No writer counts more entries than there are from the header on.
Counts(f, n) == \E h \in Headers(f) : (\A g \in Headers(f) : h <= g) /\ n + h <= Len(f.lines) + 1

CountInv ==
    Sound /\ "prefix" \notin gaps =>
        /\ SealsBehind(file)
        /\ \A w \in Writers : /\ SealsBehind(Ahead(w))
                              /\ writer[w].pc \in {"open", "sealing"} => Counts(Ahead(w), writer[w].count)

\* What was acknowledged is in a line of its own.
AckInv ==
    Durability # "os" /\ "glued" \notin gaps =>
        /\ \A m, n \in Hashed(file) : file.lines[m].hash = file.lines[n].hash => m = n
        /\ \A h \in acked : h # NoHash /\ \E n \in Hashed(file) : file.lines[n].hash = h

\* A writer's count is the place of its head in the chain.
AnchorInv ==
    Durability # "os" /\ gaps = {} =>
        \A w \in Writers, n \in Hashed(file), h \in Headers(file) :
            /\ writer[w].pc # "closed" /\ file.lines[n].hash = writer[w].head
            /\ \A g \in Headers(file) : h <= g
            => writer[w].count + h = n + 1

IInv == /\ TypeOK /\ PlaceInv /\ AloneInv /\ ChainInv /\ HeadInv /\ CountInv /\ AckInv
        /\ AnchorInv
-------------------------------------------------------------------------------
(* Numbers and lines                                                          *)

\* A non-empty set of numbers has a least one.
LEMMA MinIsLeast ==
    ASSUME NEW S \in SUBSET Nat, S # {}
    PROVE  Min(S) \in S /\ \A n \in S : Min(S) <= n
<1>1. PICK m \in S : \A k \in S : <<k, m>> \notin OpToRel(<, Nat)
  BY WFMin, NatLessThanWellFounded, Zenon
<1>2. \A k \in S : ~(k < m)
  BY <1>1, Zenon DEF OpToRel
<1>3. \A k \in S : m <= k
  <2>1. SUFFICES ASSUME NEW k \in S PROVE m <= k
    OBVIOUS
  <2>2. k \in Nat /\ m \in Nat /\ ~(k < m)
    BY <1>1, <1>2
  <2>3. QED
    BY <2>2
<1>4. QED
  BY <1>3 DEF Min

\* A non-empty set of line numbers has a greatest one.
LEMMA MaxIsGreatest ==
    ASSUME NEW N \in Nat, NEW S \in SUBSET (1..N), S # {}
    PROVE  Max(S) \in S /\ \A n \in S : n <= Max(S)
<1> DEFINE T == {N - n : n \in S}
<1>1. T \in SUBSET Nat /\ T # {}
  <2>1. \A n \in S : N - n \in Nat
    OBVIOUS
  <2>2. PICK n \in S : TRUE
    OBVIOUS
  <2>3. N - n \in T
    OBVIOUS
  <2>4. QED
    BY <2>1, <2>3
<1>2. Min(T) \in T /\ \A t \in T : Min(T) <= t
  BY <1>1, MinIsLeast
<1>3. PICK m \in S : N - m = Min(T)
  BY <1>2
<1>4. \A n \in S : n <= m
  <2>1. SUFFICES ASSUME NEW n \in S PROVE n <= m
    OBVIOUS
  <2>2. N - m <= N - n /\ m \in Int /\ n \in Int
    BY <1>2, <1>3
  <2>3. QED
    BY <2>2
<1>5. QED
  <2>1. \E x \in S : \A y \in S : x >= y
    BY <1>4
  <2>2. Max(S) \in S /\ \A y \in S : Max(S) >= y
    BY <2>1 DEF Max
  <2>3. QED
    BY <2>2

Files(S) == [lines : Seq(S), nl : BOOLEAN]

LEMMA FileType ==
    ASSUME NEW S, NEW s \in Seq(S), NEW b \in BOOLEAN
    PROVE  [lines |-> s, nl |-> b] \in Files(S)
BY DEF Files

\* g is f with the line l after its others.
Grown(g, f, l) == g.lines = f.lines \o <<l>>

LEMMA GrownProperties ==
    ASSUME NEW S, NEW f \in Files(S), NEW l \in S, NEW g, Grown(g, f, l)
    PROVE  /\ g.lines \in Seq(S)
           /\ Len(f.lines) \in Nat /\ DOMAIN f.lines = 1..Len(f.lines)
           /\ Len(g.lines) = Len(f.lines) + 1
           /\ DOMAIN g.lines = 1..(Len(f.lines) + 1)
           /\ g.lines[Len(f.lines) + 1] = l
           /\ \A n \in 1..Len(f.lines) : g.lines[n] = f.lines[n]
<1>1. f.lines \in Seq(S) /\ <<l>> \in Seq(S) /\ Len(<<l>>) = 1 /\ <<l>>[1] = l
  BY DEF Files
<1>2. /\ f.lines \o <<l>> \in Seq(S)
      /\ Len(f.lines \o <<l>>) = Len(f.lines) + 1
      /\ \A n \in 1..(Len(f.lines) + 1) :
            (f.lines \o <<l>>)[n] = IF n <= Len(f.lines) THEN f.lines[n]
                                    ELSE <<l>>[n - Len(f.lines)]
  BY <1>1, ConcatProperties
<1>3. Len(f.lines) \in Nat /\ DOMAIN f.lines = 1..Len(f.lines)
  BY <1>1, LenProperties
<1>4. DOMAIN (f.lines \o <<l>>) = 1..(Len(f.lines) + 1)
  BY <1>2, LenProperties
<1>5. (f.lines \o <<l>>)[Len(f.lines) + 1] = l
  <2>1. Len(f.lines) + 1 \in 1..(Len(f.lines) + 1) /\ ~(Len(f.lines) + 1 <= Len(f.lines))
        /\ Len(f.lines) + 1 - Len(f.lines) = 1
    BY <1>3
  <2>2. QED
    BY <1>1, <1>2, <2>1
<1>6. \A n \in 1..Len(f.lines) : (f.lines \o <<l>>)[n] = f.lines[n]
  BY <1>2, <1>3
<1>7. QED
  BY <1>2, <1>3, <1>4, <1>5, <1>6 DEF Grown

\* One record appended to a file that ends in a newline.
LEMMA AppendOne ==
    ASSUME NEW S, NEW f \in Files(S), f.nl, NEW e \in S
    PROVE  LET g == AppendRecords(f, <<e>>)
           IN  Grown(g, f, e) /\ g \in Files(S) /\ g.nl
<1>1. AppendRecords(f, <<e>>) = [lines |-> f.lines \o <<e>>, nl |-> TRUE]
  <2>1. <<e>> # <<>>
    OBVIOUS
  <2>2. QED
    BY <2>1 DEF AppendRecords
<1>2. f.lines \o <<e>> \in Seq(S)
  BY ConcatProperties DEF Files
<1>3. QED
  <2>1. TRUE \in BOOLEAN /\ AppendRecords(f, <<e>>).lines = f.lines \o <<e>>
        /\ AppendRecords(f, <<e>>).nl
    BY <1>1
  <2>2. AppendRecords(f, <<e>>) \in Files(S)
    BY <1>1, <1>2, FileType
  <2>3. QED
    BY <2>1, <2>2 DEF Grown
-------------------------------------------------------------------------------
(* A chained file stays one when an entry that continues it is added          *)

\* What e must hold to come after the lines of f.
Continues(f, e) ==
    /\ IsHashed(e)
    /\ IF Len(f.lines) \in Hashed(f) THEN e.prev = f.lines[Len(f.lines)].hash
       ELSE IsHeader(e) /\ e.prev = Genesis(e.data)

LEMMA GrownSets ==
    ASSUME NEW S, NEW f \in Files(S), NEW l \in S, NEW g, Grown(g, f, l)
    PROVE  /\ ReadRaw(g) = IF IsEntry(l) THEN ReadRaw(f) \cup {Len(f.lines) + 1} ELSE ReadRaw(f)
           /\ Hashed(g) = IF IsHashed(l) THEN Hashed(f) \cup {Len(f.lines) + 1} ELSE Hashed(f)
           /\ Headers(g) = IF IsHeader(l) THEN Headers(f) \cup {Len(f.lines) + 1} ELSE Headers(f)
<1> DEFINE n == Len(f.lines) + 1
<1>1. /\ Len(f.lines) \in Nat /\ DOMAIN f.lines = 1..Len(f.lines) /\ DOMAIN g.lines = 1..n
      /\ g.lines[n] = l /\ \A m \in 1..Len(f.lines) : g.lines[m] = f.lines[m]
  BY GrownProperties
<1>2. DOMAIN g.lines = DOMAIN f.lines \cup {n} /\ n \notin DOMAIN f.lines
  BY <1>1
<1> HIDE DEF n
<1>3. ReadRaw(g) = IF IsEntry(l) THEN ReadRaw(f) \cup {n} ELSE ReadRaw(f)
  <2>1. CASE IsEntry(l)
    BY <1>1, <1>2, <2>1 DEF ReadRaw, IsEntry
  <2>2. CASE ~IsEntry(l)
    BY <1>1, <1>2, <2>2 DEF ReadRaw, IsEntry
  <2>3. QED
    BY <2>1, <2>2
<1>4. Hashed(g) = IF IsHashed(l) THEN Hashed(f) \cup {n} ELSE Hashed(f)
  <2>1. CASE IsHashed(l)
    BY <1>1, <1>2, <2>1 DEF Hashed, IsHashed, IsEntry
  <2>2. CASE ~IsHashed(l)
    BY <1>1, <1>2, <2>2 DEF Hashed, IsHashed, IsEntry
  <2>3. QED
    BY <2>1, <2>2
<1>5. Headers(g) = IF IsHeader(l) THEN Headers(f) \cup {n} ELSE Headers(f)
  <2>1. CASE IsHeader(l)
    BY <1>1, <1>2, <2>1 DEF Headers, IsHeader, IsEntry
  <2>2. CASE ~IsHeader(l)
    BY <1>1, <1>2, <2>2 DEF Headers, IsHeader, IsEntry
  <2>3. QED
    BY <2>1, <2>2
<1>6. QED
  BY <1>3, <1>4, <1>5 DEF n

LEMMA LinesAreNumbered ==
    ASSUME NEW S, NEW f \in Files(S)
    PROVE  /\ Len(f.lines) \in Nat /\ DOMAIN f.lines = 1..Len(f.lines)
           /\ ReadRaw(f) \in SUBSET (1..Len(f.lines))
           /\ Hashed(f) \in SUBSET ReadRaw(f) /\ Headers(f) \in SUBSET ReadRaw(f)
<1>1. Len(f.lines) \in Nat /\ DOMAIN f.lines = 1..Len(f.lines)
  BY LenProperties DEF Files
<1>2. QED
  BY <1>1 DEF ReadRaw, Hashed, Headers, IsHashed, IsHeader

LEMMA GrownChained ==
    ASSUME NEW S, NEW f \in Files(S), NEW e \in S, NEW g, Grown(g, f, e),
           Chained(f), f.nl, Continues(f, e)
    PROVE  Chained(g)
<1> DEFINE n == Len(f.lines) + 1
<1>1. /\ Len(f.lines) \in Nat /\ DOMAIN f.lines = 1..Len(f.lines) /\ DOMAIN g.lines = 1..n
      /\ Len(g.lines) = n
      /\ g.lines[n] = e /\ \A m \in 1..Len(f.lines) : g.lines[m] = f.lines[m]
  BY GrownProperties
<1>2. IsEntry(e) /\ IsHashed(e)
  BY DEF Continues, IsHashed
<1>3. /\ ReadRaw(g) = ReadRaw(f) \cup {n} /\ Hashed(g) = Hashed(f) \cup {n}
      /\ Headers(g) = IF IsHeader(e) THEN Headers(f) \cup {n} ELSE Headers(f)
  BY <1>2, GrownSets
<1>4. /\ ReadRaw(f) \in SUBSET (1..Len(f.lines))
      /\ Hashed(f) \in SUBSET ReadRaw(f) /\ Headers(f) \in SUBSET ReadRaw(f)
  BY LinesAreNumbered
<1>5. Whole(g)
  <2>1. \A m \in 1..Len(f.lines) : IsEntry(f.lines[m])
    BY <1>1 DEF Chained, Whole
  <2>2. QED
    BY <1>1, <1>2, <2>1 DEF Whole
<1>6. HashedLast(g)
  <2>1. HashedLast(f)
    BY DEF Chained
  <2>2. \A m \in Hashed(g), k \in ReadRaw(g) : m < k => k \in Hashed(g)
    BY <1>1, <1>3, <1>4, <2>1 DEF HashedLast
  <2>3. Headers(g) \subseteq Hashed(g)
    BY <1>3, <2>1 DEF HashedLast
  <2>4. \E h \in Headers(g) : h <= n
    <3>1. CASE Len(f.lines) \in Hashed(f)
      BY <1>1, <1>3, <1>4, <2>1, <3>1 DEF HashedLast
    <3>2. CASE Len(f.lines) \notin Hashed(f)
      <4>1. n \in Headers(g) /\ n <= n
        BY <1>1, <1>3, <3>2 DEF Continues
      <4>2. QED
        BY <4>1
    <3>3. QED
      BY <3>1, <3>2
  <2>5. \A m \in Hashed(g) : \E h \in Headers(g) : h <= m
    BY <1>3, <2>1, <2>4 DEF HashedLast
  <2>6. QED
    BY <2>2, <2>3, <2>5 DEF HashedLast
<1>7. Linked(g)
  <2>1. SUFFICES ASSUME NEW m \in Hashed(g)
                 PROVE  IF m - 1 \in Hashed(g) THEN g.lines[m].prev = g.lines[m - 1].hash
                        ELSE m \in Headers(g) /\ g.lines[m].prev = Genesis(g.lines[m].data)
    BY DEF Linked
  <2>2. CASE m \in Hashed(f)
    <3>1. m \in 1..Len(f.lines) /\ (m - 1 \in Hashed(g) <=> m - 1 \in Hashed(f))
      BY <1>1, <1>3, <1>4, <2>2
    <3>2. m - 1 \in Hashed(f) => m - 1 \in 1..Len(f.lines)
      BY <1>4
    <3>3. QED
      BY <1>1, <1>3, <2>2, <3>1, <3>2 DEF Chained, Linked
  <2>3. CASE m = n
    <3>1. n - 1 = Len(f.lines) /\ n \notin Hashed(f)
      BY <1>1, <1>4
    <3>2. n - 1 \in Hashed(g) <=> Len(f.lines) \in Hashed(f)
      BY <1>1, <1>3, <3>1
    <3>3. CASE Len(f.lines) \in Hashed(f)
      <4>1. Len(f.lines) \in 1..Len(f.lines)
        BY <1>4, <3>3
      <4>2. QED
        BY <1>1, <2>3, <3>1, <3>2, <3>3, <4>1 DEF Continues
    <3>4. CASE Len(f.lines) \notin Hashed(f)
      BY <1>1, <1>3, <2>3, <3>2, <3>4 DEF Continues
    <3>5. QED
      BY <3>3, <3>4
  <2>4. QED
    BY <1>3, <2>2, <2>3
<1>8. QED
  BY <1>5, <1>6, <1>7 DEF Chained

\* Part of a line at the end leaves a chained file chained.
LEMMA TornChained ==
    ASSUME NEW S, NEW f \in Files(S), Junk \in S, NEW g, Grown(g, f, Junk),
           Chained(f), f.nl, ~g.nl
    PROVE  Chained(g)
<1> DEFINE n == Len(f.lines) + 1
<1>1. /\ Len(f.lines) \in Nat /\ DOMAIN f.lines = 1..Len(f.lines) /\ DOMAIN g.lines = 1..n
      /\ Len(g.lines) = n /\ ~g.nl
      /\ g.lines[n] = Junk /\ \A m \in 1..Len(f.lines) : g.lines[m] = f.lines[m]
  BY GrownProperties
<1>2. ~IsEntry(Junk) /\ ~IsHashed(Junk) /\ ~IsHeader(Junk)
  BY DEF Junk, IsEntry, IsHashed, IsHeader
<1>3. ReadRaw(g) = ReadRaw(f) /\ Hashed(g) = Hashed(f) /\ Headers(g) = Headers(f)
  BY <1>2, GrownSets
<1>4. /\ ReadRaw(f) \in SUBSET (1..Len(f.lines))
      /\ Hashed(f) \in SUBSET ReadRaw(f) /\ Headers(f) \in SUBSET ReadRaw(f)
  BY LinesAreNumbered
<1>5. Whole(g)
  BY <1>1 DEF Chained, Whole
<1>6. HashedLast(g)
  BY <1>3 DEF Chained, HashedLast
<1>7. Linked(g)
  <2>1. \A m \in Hashed(f) : g.lines[m] = f.lines[m]
    BY <1>1, <1>4
  <2>2. QED
    BY <1>3, <2>1 DEF Chained, Linked
<1>8. QED
  BY <1>5, <1>6, <1>7 DEF Chained

-------------------------------------------------------------------------------
(* The types                                                                  *)

Lines == Entries \cup {Junk}
Refs == Hashes \cup {0 - h : h \in Hashes}
WriterFields ==
    [pc : {"closed", "new", "open", "sealing"}, cid : Hashes, head : Refs, count : Nat,
     lastSize : Nat \cup {-1}, since : 0..SealEvery]
Gaps == {"glued", "window", "unflushed", "shared", "prefix"}

LEMMA TypeParts ==
    TypeOK <=> /\ file \in Files(Lines) /\ size \in Nat /\ writer \in [Writers -> WriterFields]
               /\ buffer \in [Writers -> Seq(Entries)] /\ serial \in Nat
               /\ acked \subseteq Hashes /\ gaps \subseteq Gaps /\ crashes \in 0..MaxCrashes
BY DEF TypeOK, Files, Lines, WriterFields, Refs, Gaps

\* What is added to a file is one of its lines, or joins the last of them.
LEMMA AppendType ==
    ASSUME NEW S, Junk \in S, NEW f \in Files(S), ~f.nl => f.lines # <<>>, NEW r \in Seq(S)
    PROVE  /\ AppendRecords(f, r) \in Files(S)
           /\ ~AppendRecords(f, r).nl => AppendRecords(f, r).lines # <<>>
<1>1. CASE r = <<>>
  BY <1>1 DEF AppendRecords
<1>2. CASE r # <<>>
  <2>1. Tail(r) \in Seq(S) /\ <<Junk>> \in Seq(S) /\ f.lines \in Seq(S) /\ f.nl \in BOOLEAN
    BY <1>2, HeadTailProperties DEF Files
  <2>2. CASE f.nl
    <3>1. AppendRecords(f, r) = [lines |-> f.lines \o r, nl |-> TRUE]
      BY <1>2, <2>2 DEF AppendRecords
    <3>2. f.lines \o r \in Seq(S)
      BY <2>1, ConcatProperties
    <3>3. AppendRecords(f, r) \in Files(S)
      BY <3>1, <3>2, FileType
    <3>4. QED
      BY <3>1, <3>3
  <2>3. CASE ~f.nl
    <3>1. AppendRecords(f, r)
             = [lines |-> Front(f.lines) \o <<Junk>> \o Tail(r), nl |-> TRUE]
      BY <1>2, <2>3 DEF AppendRecords
    <3>2. Len(f.lines) \in Nat /\ Len(f.lines) # 0
      BY <2>1, <2>3, LenProperties, EmptySeq
    <3>3. Front(f.lines) \in Seq(S)
      <4>1. 1 \in 1..(Len(f.lines) + 1) /\ Len(f.lines) - 1 \in 0..Len(f.lines)
        BY <3>2
      <4>2. \A i \in 1..(Len(f.lines) - 1) : f.lines[i] \in S
        BY <2>1, <3>2, ElementOfSeq
      <4>3. QED
        BY <2>1, <4>1, <4>2, SubSeqProperties DEF Front
    <3>4. Front(f.lines) \o <<Junk>> \o Tail(r) \in Seq(S)
      BY <2>1, <3>3, ConcatProperties
    <3>5. AppendRecords(f, r) \in Files(S)
      BY <3>1, <3>4, FileType
    <3>6. QED
      BY <3>1, <3>5
  <2>4. QED
    BY <2>1, <2>2, <2>3
<1>3. QED
  BY <1>1, <1>2

\* Serial numbers only grow, and what has a type keeps it.
LEMMA TypesGrow ==
    ASSUME serial \in Nat, serial' \in Nat, serial <= serial'
    PROVE  /\ Hashes \subseteq Hashes' /\ Refs \subseteq Refs'
           /\ Entries \subseteq Entries' /\ Lines \subseteq Lines'
           /\ Seq(Entries) \subseteq Seq(Entries') /\ Seq(Lines) \subseteq Seq(Lines')
           /\ Files(Lines) \subseteq Files(Lines') /\ WriterFields \subseteq WriterFields'
<1>1. Hashes \subseteq Hashes'
  BY DEF Hashes
<1>2. Refs \subseteq Refs'
  BY <1>1 DEF Refs
<1>3. Entries \subseteq Entries' /\ WriterFields \subseteq WriterFields'
  BY <1>1, <1>2 DEF Entries, EntriesOf, WriterFields, Refs
<1>4. Lines \subseteq Lines'
  BY <1>3 DEF Lines
<1>5. Seq(Entries) \subseteq Seq(Entries') /\ Seq(Lines) \subseteq Seq(Lines')
  BY <1>3, <1>4, SeqMonotonic
<1>6. Files(Lines) \subseteq Files(Lines')
  BY <1>5 DEF Files
<1>7. QED
  BY <1>1, <1>2, <1>3, <1>4, <1>5, <1>6

LEMMA LineType ==
    ASSUME NEW f \in Files(Lines), NEW n \in ReadRaw(f)
    PROVE  f.lines[n] \in Entries
<1>1. f.lines \in Seq(Lines) /\ n \in 1..Len(f.lines)
  BY LinesAreNumbered DEF Files
<1>2. f.lines[n] \in Lines
  BY <1>1, ElementOfSeq
<1>3. IsEntry(f.lines[n])
  BY DEF ReadRaw
<1>4. QED
  BY <1>2, <1>3 DEF Lines, Junk, IsEntry

LEMMA TailHashType ==
    ASSUME NEW f \in Files(Lines)
    PROVE  TailHash(f) \in Hashes \cup {NoHash}
<1>1. CASE Hashed(f) = {}
  BY <1>1 DEF TailHash
<1>2. CASE Hashed(f) # {}
  <2>1. Max(Hashed(f)) \in Hashed(f)
    <3>1. Len(f.lines) \in Nat /\ Hashed(f) \in SUBSET (1..Len(f.lines))
      BY LinesAreNumbered
    <3>2. QED
      BY <1>2, <3>1, MaxIsGreatest
  <2>2. f.lines[Max(Hashed(f))] \in Entries
    BY <2>1, LineType, LinesAreNumbered
  <2>3. f.lines[Max(Hashed(f))].hash \in Hashes
    BY <2>2 DEF Entries, EntriesOf
  <2>4. QED
    BY <2>3 DEF TailHash
<1>3. QED
  BY <1>1, <1>2


LEMMA SyncedHeadType ==
    ASSUME TypeOK, NEW w \in Writers
    PROVE  SyncedHead(w) \in Refs
<1>1. file \in Files(Lines) /\ writer[w] \in WriterFields /\ serial \in Nat
  BY TypeParts
<1>2. TailHash(file) # NoHash => TailHash(file) \in Hashes
  BY <1>1, TailHashType
<1>3. writer[w].head \in Refs
  BY <1>1 DEF WriterFields
<1>4. QED
  BY <1>2, <1>3 DEF SyncedHead, Refs

\* What AppendEntry is called with.
Appends(w, kind, data, bytes, pc, since) ==
    /\ w \in Writers /\ data \in Nat /\ bytes \in {"small", "big"}
    /\ pc \in {"open", "sealing"} /\ since \in 0..SealEvery
    /\ pc = "open" => since < SealEvery
    /\ \/ writer[w].pc = "new" /\ kind = "header" /\ data = writer[w].cid
       \/ /\ writer[w].pc \in {"open", "sealing"} /\ kind \in {"entry", "seal"}
          /\ kind = "seal" => data = writer[w].count
    /\ AppendEntry(w, kind, data, bytes, pc, since)

LEMMA AppendCountedAppends ==
    ASSUME TypeOK, PlaceInv, NEW w \in Writers, NEW kind, NEW data, NEW bytes \in {"small", "big"},
           AppendCounted(w, kind, data, bytes),
           \/ writer[w].pc = "new" /\ kind = "header" /\ data = writer[w].cid
           \/ writer[w].pc = "open" /\ kind = "entry" /\ data = 0
           \/ writer[w].pc = "open" /\ kind = "seal" /\ data = writer[w].count
    PROVE  \E pc \in {"open", "sealing"}, since \in Nat : Appends(w, kind, data, bytes, pc, since)
<1> DEFINE since == writer[w].since + 1
           pc == IF since >= SealEvery THEN "sealing" ELSE "open"
<1>1. writer[w] \in WriterFields /\ serial \in Nat /\ SealEvery \in Nat \ {0}
  BY TypeParts, ConstantsAssumption DEF ConstantsAssumption
<1>2. writer[w].since \in 0..SealEvery /\ writer[w].count \in Nat /\ writer[w].cid \in Nat
  BY <1>1 DEF WriterFields, Hashes
<1>3. writer[w].since < SealEvery
  BY DEF PlaceInv
<1>4. since \in 0..SealEvery /\ pc \in {"open", "sealing"} /\ (pc = "open" => since < SealEvery)
  BY <1>1, <1>2, <1>3
<1>5. AppendEntry(w, kind, data, bytes, pc, since)
  BY DEF AppendCounted
<1>6. data \in Nat
  BY <1>2
<1> HIDE DEF since, pc
<1>7. Appends(w, kind, data, bytes, pc, since)
  BY <1>4, <1>5, <1>6 DEF Appends
<1>8. since \in Nat
  BY <1>1, <1>4
<1>9. QED
  BY <1>4, <1>7, <1>8

\* Every step is one of five.
LEMMA StepCases ==
    ASSUME TypeOK, PlaceInv, Next
    PROVE  \E w \in Writers :
              \/ Open(w) \/ Close(w) \/ Crash(w)
              \/ \E kind, data, bytes, pc, since : Appends(w, kind, data, bytes, pc, since)
<1>1. PICK w \in Writers :
         \/ Open(w) \/ WriteHeader(w) \/ Seal(w) \/ PeriodicSeal(w)
         \/ \E bytes \in Sizes : Log(w, bytes)
         \/ Close(w) \/ Crash(w)
  BY DEF Next
<1>2. CASE WriteHeader(w)
  BY <1>2, AppendCountedAppends DEF WriteHeader
<1>3. CASE Seal(w)
  BY <1>3, AppendCountedAppends DEF Seal
<1>4. CASE PeriodicSeal(w)
  <2>1. writer[w].count \in Nat
    BY TypeParts DEF WriterFields
  <2>2. 0 \in 0..SealEvery /\ 0 < SealEvery
    BY ConstantsAssumption DEF ConstantsAssumption
  <2>3. Appends(w, "seal", writer[w].count, "small", "open", 0)
    BY <1>4, <2>1, <2>2 DEF PeriodicSeal, Appends
  <2>4. QED
    BY <2>3
<1>5. CASE \E bytes \in Sizes : Log(w, bytes)
  <2>1. PICK bytes \in Sizes : Log(w, bytes)
    BY <1>5
  <2>2. bytes \in {"small", "big"}
    BY ConstantsAssumption DEF ConstantsAssumption
  <2>3. QED
    BY <2>1, <2>2, AppendCountedAppends DEF Log
<1>6. QED
  BY <1>1, <1>2, <1>3, <1>4, <1>5

\* The entry that is appended.
NewEntry(w, kind, data, bytes) == Entry(kind, SyncedHead(w), serial + 1, data, bytes)

LEMMA NewEntryType ==
    ASSUME TypeOK, NEW w \in Writers, NEW kind \in {"header", "entry", "seal"}, NEW data \in Nat,
           NEW bytes \in {"small", "big"}, kind = "header" => data \in Hashes,
           serial' = serial + 1
    PROVE  /\ NewEntry(w, kind, data, bytes) \in Entries'
           /\ NewEntry(w, kind, data, bytes).hash = serial + 1
           /\ IsHashed(NewEntry(w, kind, data, bytes))
<1>1. /\ serial \in Nat /\ serial' \in Nat /\ serial <= serial'
      /\ serial + 1 \in Hashes' /\ serial + 1 # NoHash
  BY TypeParts DEF Hashes, NoHash
<1>2. SyncedHead(w) \in Refs'
  <2>1. Refs \subseteq Refs'
    BY <1>1, TypesGrow
  <2>2. QED
    BY <2>1, SyncedHeadType
<1>3. NewEntry(w, kind, data, bytes) \in Entries'
  <2>1. kind = "header" => data \in Hashes'
    BY <1>1, TypesGrow, TypeParts
  <2>2. CASE kind = "header"
    BY <1>1, <1>2, <2>1, <2>2 DEF NewEntry, Entry, Entries, EntriesOf, Refs
  <2>3. CASE kind # "header"
    BY <1>1, <1>2, <2>3 DEF NewEntry, Entry, Entries, EntriesOf, Refs
  <2>4. QED
    BY <2>2, <2>3
<1>4. QED
  BY <1>1, <1>3 DEF NewEntry, Entry, IsHashed, IsEntry


LEMMA AppendNone == ASSUME NEW f PROVE AppendRecords(f, <<>>) = f
BY DEF AppendRecords

LEMMA AheadType ==
    ASSUME TypeOK, PlaceInv, NEW w \in Writers
    PROVE  /\ Ahead(w) \in Files(Lines) /\ (~Ahead(w).nl => Ahead(w).lines # <<>>)
           /\ buffer[w] = <<>> => Ahead(w) = file
<1>1. file \in Files(Lines) /\ buffer[w] \in Seq(Lines) /\ Junk \in Lines
  <2>1. buffer[w] \in Seq(Entries) /\ Entries \subseteq Lines
    BY TypeParts DEF Lines
  <2>2. QED
    BY <2>1, TypeParts, SeqMonotonic DEF Lines
<1>2. ~file.nl => file.lines # <<>>
  BY DEF PlaceInv
<1>3. /\ AppendRecords(file, buffer[w]) \in Files(Lines)
      /\ ~AppendRecords(file, buffer[w]).nl => AppendRecords(file, buffer[w]).lines # <<>>
  BY <1>1, <1>2, AppendType
<1>4. QED
  BY <1>3, AppendNone DEF Ahead

\* What an append does, e being the entry and fields those of the writer after it.
Appended(w, e, pc, since) ==
    /\ serial' = serial + 1 /\ acked' = acked \cup {serial + 1}
    /\ gaps' = gaps \cup GapsOf(w) /\ crashes' = crashes
    /\ size' \in Nat /\ size <= size' /\ (file' = file => size' = size)
    /\ file' # file => size' = size + 1
    /\ DOMAIN writer' = Writers /\ DOMAIN buffer' = Writers
    /\ writer'[w] = Advanced(writer[w], pc, since, size')
    /\ \A v \in Writers \ {w} : writer'[v] = writer[v] /\ buffer'[v] = buffer[v]
    /\ \/ Durability = "os" /\ file' = Ahead(w) /\ buffer'[w] = <<e>>
       \/ Durability # "os" /\ file' = AppendRecords(Ahead(w), <<e>>) /\ buffer'[w] = <<>>

LEMMA AppendShape ==
    ASSUME TypeOK, NEW w, NEW kind, NEW data, NEW bytes, NEW pc, NEW since,
           Appends(w, kind, data, bytes, pc, since)
    PROVE  Appended(w, NewEntry(w, kind, data, bytes), pc, since)
<1>1. w \in Writers /\ size \in Nat /\ buffer \in [Writers -> Seq(Entries)]
      /\ writer \in [Writers -> WriterFields]
  BY TypeParts DEF Appends
<1>2. AppendEntry(w, kind, data, bytes, pc, since)
  BY DEF Appends
<1>3. /\ serial' = serial + 1 /\ acked' = acked \cup {serial + 1}
      /\ gaps' = gaps \cup GapsOf(w) /\ crashes' = crashes
      /\ size' = IF file' # file THEN size + 1 ELSE size
      /\ writer' = [writer EXCEPT ![w] = Advanced(writer[w], pc, since, size')]
  BY <1>2 DEF AppendEntry
<1>4. size' \in Nat /\ size <= size' /\ (file' = file => size' = size)
      /\ (file' # file => size' = size + 1)
  BY <1>1, <1>3
<1>5. DOMAIN writer' = Writers /\ writer'[w] = Advanced(writer[w], pc, since, size')
      /\ \A v \in Writers \ {w} : writer'[v] = writer[v]
  BY <1>1, <1>3
<1>6. /\ \/ Durability = "os" /\ file' = Ahead(w)
            /\ buffer' = [buffer EXCEPT ![w] = <<NewEntry(w, kind, data, bytes)>>]
         \/ Durability # "os" /\ file' = AppendRecords(Ahead(w), <<NewEntry(w, kind, data, bytes)>>)
            /\ buffer' = [buffer EXCEPT ![w] = <<>>]
  BY <1>2 DEF AppendEntry, NewEntry, Ahead, Flushed
<1>7. /\ DOMAIN buffer' = Writers /\ \A v \in Writers \ {w} : buffer'[v] = buffer[v]
      /\ \/ Durability = "os" /\ file' = Ahead(w)
            /\ buffer'[w] = <<NewEntry(w, kind, data, bytes)>>
         \/ Durability # "os" /\ file' = AppendRecords(Ahead(w), <<NewEntry(w, kind, data, bytes)>>)
            /\ buffer'[w] = <<>>
  BY <1>1, <1>6
<1>8. QED
  BY <1>3, <1>4, <1>5, <1>7 DEF Appended

LEMMA AppendsType ==
    ASSUME TypeOK, PlaceInv, NEW w, NEW kind, NEW data, NEW bytes, NEW pc, NEW since,
           Appends(w, kind, data, bytes, pc, since)
    PROVE  TypeOK' /\ (~file'.nl => file'.lines # <<>>)
<1> DEFINE e == NewEntry(w, kind, data, bytes)
<1>1. w \in Writers /\ kind \in {"header", "entry", "seal"} /\ data \in Nat
      /\ bytes \in {"small", "big"} /\ pc \in {"open", "sealing"} /\ since \in 0..SealEvery
  BY DEF Appends
<1>0. Appended(w, e, pc, since)
  BY AppendShape
<1>2. serial \in Nat /\ serial' = serial + 1 /\ serial' \in Nat /\ serial <= serial'
  <2>1. serial \in Nat /\ serial' = serial + 1
    BY <1>0, TypeParts DEF Appended
  <2>2. QED
    BY <2>1
<1>3. e \in Entries' /\ e \in Lines'
  <2>1. kind = "header" => data \in Hashes
    BY TypeParts DEF Appends, WriterFields
  <2>2. QED
    BY <1>1, <1>2, <2>1, NewEntryType DEF Lines
<1>4. /\ Hashes \subseteq Hashes' /\ Refs \subseteq Refs' /\ Seq(Entries) \subseteq Seq(Entries')
      /\ Files(Lines) \subseteq Files(Lines') /\ WriterFields \subseteq WriterFields'
      /\ serial + 1 \in Hashes' /\ serial + 1 \in Refs'
  BY <1>2, TypesGrow DEF Hashes, Refs
<1>5. Ahead(w) \in Files(Lines') /\ (~Ahead(w).nl => Ahead(w).lines # <<>>) /\ Junk \in Lines'
  BY <1>1, <1>4, AheadType DEF Lines
<1> HIDE DEF e
<1>6. <<e>> \in Seq(Entries') /\ <<e>> \in Seq(Lines') /\ <<>> \in Seq(Entries')
  BY <1>3
<1>7. file' \in Files(Lines') /\ (~file'.nl => file'.lines # <<>>)
  <2>1. CASE Durability = "os"
    BY <1>0, <1>5, <2>1 DEF Appended
  <2>2. CASE Durability # "os"
    <3>1. file' = AppendRecords(Ahead(w), <<e>>)
      BY <1>0, <2>2 DEF Appended
    <3>2. QED
      BY <1>5, <1>6, <3>1, AppendType
  <2>3. QED
    BY <2>1, <2>2
<1>8. writer' \in [Writers -> WriterFields']
  <2>1. writer[w] \in WriterFields' /\ writer \in [Writers -> WriterFields'] /\ size' \in Nat
    BY <1>0, <1>1, <1>4, TypeParts DEF Appended
  <2>2. /\ writer[w].cid \in Hashes' /\ writer[w].count + 1 \in Nat
    BY <2>1 DEF WriterFields
  <2>3. Advanced(writer[w], pc, since, size')
           = [pc |-> pc, cid |-> writer[w].cid, head |-> serial + 1,
              count |-> writer[w].count + 1, lastSize |-> size', since |-> since]
    BY DEF Advanced
  <2>4. writer'[w] \in WriterFields'
    BY <1>0, <1>1, <1>4, <2>1, <2>2, <2>3 DEF Appended, WriterFields
  <2>5. \A v \in Writers \ {w} : writer'[v] \in WriterFields'
    BY <1>0, <2>1 DEF Appended
  <2>6. DOMAIN writer' = Writers /\ writer' = [v \in Writers |-> writer'[v]]
    BY <1>0, <1>1 DEF Appends, AppendEntry, Appended
  <2>7. QED
    BY <1>1, <2>4, <2>5, <2>6
<1>9. buffer' \in [Writers -> Seq(Entries')]
  <2>1. buffer'[w] \in Seq(Entries')
    BY <1>0, <1>6 DEF Appended
  <2>2. DOMAIN buffer' = Writers /\ buffer' = [v \in Writers |-> buffer'[v]]
    BY <1>1, TypeParts DEF Appends, AppendEntry
  <2>3. \A v \in Writers \ {w} : buffer'[v] \in Seq(Entries')
    BY <1>0, <1>1, <1>4, TypeParts DEF Appended
  <2>4. QED
    BY <2>1, <2>2, <2>3
<1>10. acked' \subseteq Hashes' /\ gaps' \subseteq Gaps /\ crashes' \in 0..MaxCrashes
  <2>1. acked \subseteq Hashes /\ gaps \subseteq Gaps /\ crashes \in 0..MaxCrashes
    BY TypeParts
  <2>2. GapsOf(w) \subseteq Gaps
    BY DEF GapsOf, Gaps
  <2>3. QED
    BY <1>0, <1>4, <2>1, <2>2 DEF Appended
<1>11. size' \in Nat
  BY <1>0 DEF Appended
<1>12. QED
  BY <1>2, <1>7, <1>8, <1>9, <1>10, <1>11 DEF TypeOK, Files, Lines, WriterFields, Refs, Gaps


\* Opening a log leaves the file as it is.
LEMMA OpenType ==
    ASSUME TypeOK, NEW w \in Writers, Open(w)
    PROVE  TypeOK'
<1>1. /\ file \in Files(Lines) /\ serial \in Nat /\ writer \in [Writers -> WriterFields]
      /\ gaps \subseteq Gaps /\ acked \subseteq Hashes /\ buffer \in [Writers -> Seq(Entries)]
  BY TypeParts
<1>2. serial' \in Nat /\ serial <= serial'
  BY <1>1 DEF Open
<1>3. /\ Hashes \subseteq Hashes' /\ Refs \subseteq Refs' /\ Seq(Entries) \subseteq Seq(Entries')
      /\ Files(Lines) \subseteq Files(Lines') /\ WriterFields \subseteq WriterFields'
  BY <1>1, <1>2, TypesGrow
<1>4. gaps' \subseteq Gaps /\ UNCHANGED <<file, size, buffer, acked, crashes>>
  BY <1>1 DEF Open, Gaps
<1>5. -1 \in Nat \cup {-1} /\ 0 \in 0..SealEvery /\ 0 \in Nat
  BY ConstantsAssumption DEF ConstantsAssumption
<1>6. writer' \in [Writers -> WriterFields']
  <2>1. CASE Headers(file) # {} /\ file.lines[Max(ReadRaw(file))].hash # NoHash
    <3> DEFINE h == file.lines[Max(Headers(file))]
               l == file.lines[Max(ReadRaw(file))]
    <3>1. /\ Len(file.lines) \in Nat /\ ReadRaw(file) \in SUBSET (1..Len(file.lines))
          /\ Headers(file) \in SUBSET ReadRaw(file)
      BY <1>1, LinesAreNumbered
    <3>2. Max(Headers(file)) \in Headers(file) /\ Max(ReadRaw(file)) \in ReadRaw(file)
      BY <2>1, <3>1, MaxIsGreatest
    <3>3. h \in Entries /\ l \in Entries /\ IsHeader(h)
      BY <1>1, <3>1, <3>2, LineType DEF Headers
    <3>4. h.data \in Hashes' /\ l.hash \in Refs'
      BY <1>3, <3>3 DEF IsHeader, Entries, EntriesOf, Refs
    <3>5. BootstrapCount(file) \in Nat
      <4>1. IsFiniteSet(ReadRaw(file))
        <5>1. IsFiniteSet(1..Len(file.lines))
          BY <3>1, FS_Interval
        <5>2. QED
          BY <3>1, <5>1, FS_Subset
      <4>2. QED
        BY <4>1, FS_CardinalityType DEF BootstrapCount
    <3> HIDE DEF h, l
    <3>6. Fields("open", h.data, l.hash, BootstrapCount(file)) \in WriterFields'
      BY <1>5, <3>4, <3>5 DEF Fields, WriterFields
    <3>7. writer' = [writer EXCEPT ![w] = Fields("open", h.data, l.hash, BootstrapCount(file))]
      BY <2>1 DEF Open, h, l
    <3>8. QED
      BY <1>1, <1>3, <3>6, <3>7
  <2>2. CASE ~(Headers(file) # {} /\ file.lines[Max(ReadRaw(file))].hash # NoHash)
    <3>1. serial' = serial + 1
          /\ writer' = [writer EXCEPT ![w] = Fields("new", serial + 1, Genesis(serial + 1), 0)]
      BY <2>2 DEF Open
    <3>2. serial + 1 \in Hashes' /\ Genesis(serial + 1) \in Refs'
      <4>1. serial + 1 \in Hashes'
        BY <1>1, <3>1 DEF Hashes
      <4>2. QED
        BY <4>1 DEF Refs, Genesis
    <3>3. Fields("new", serial + 1, Genesis(serial + 1), 0) \in WriterFields'
      BY <1>5, <3>2 DEF Fields, WriterFields
    <3>4. QED
      BY <1>1, <1>3, <3>1, <3>3
  <2>3. QED
    BY <2>1, <2>2
<1>7. /\ file' \in Files(Lines') /\ buffer' \in [Writers -> Seq(Entries')]
      /\ acked' \subseteq Hashes' /\ size' \in Nat /\ crashes' \in 0..MaxCrashes
  BY <1>1, <1>3, <1>4, TypeParts
<1>8. QED
  BY <1>2, <1>4, <1>6, <1>7 DEF TypeOK, Files, Lines, WriterFields, Refs, Gaps

LEMMA ClosedType ==
    ASSUME serial \in Nat, serial' \in Nat
    PROVE  /\ Closed \in WriterFields /\ Closed \in WriterFields'
           /\ Closed.pc = "closed" /\ Closed.lastSize = -1 /\ Closed.since = 0
<1>1. /\ 0 \in Hashes /\ 0 \in Hashes' /\ 0 \in 0..SealEvery /\ -1 \in Nat \cup {-1}
  BY ConstantsAssumption DEF ConstantsAssumption, Hashes
<1>2. QED
  BY <1>1 DEF Closed, Fields, WriterFields, Refs, NoHash


LEMMA TornOne ==
    ASSUME NEW f, NEW u
    PROVE  TornCuts(f, <<u>>) = CutInside(f, u)
<1>1. Len(<<u>>) = 1 /\ <<u>>[1] = u /\ 1..1 = {1}
  OBVIOUS
<1>2. SubSeq(<<u>>, 1, 0) = <<>>
  OBVIOUS
<1>3. TornCuts(f, <<u>>)
        = UNION {CutInside(AppendRecords(f, SubSeq(<<u>>, 1, n - 1)), <<u>>[n]) : n \in {1}}
  BY <1>1 DEF TornCuts
<1>4. TornCuts(f, <<u>>) = CutInside(AppendRecords(f, SubSeq(<<u>>, 1, 1 - 1)), <<u>>[1])
  BY <1>3
<1>5. AppendRecords(f, SubSeq(<<u>>, 1, 1 - 1)) = f
  <2>1. SubSeq(<<u>>, 1, 1 - 1) = <<>>
    OBVIOUS
  <2>2. QED
    BY <2>1 DEF AppendRecords
<1>6. QED
  BY <1>1, <1>4, <1>5

\* Part of a record, or all of it but its newline, is left.
LEMMA CutShape ==
    ASSUME NEW S, Junk \in S, NEW f \in Files(S), ~f.nl => f.lines # <<>>, NEW u \in S,
           NEW g \in CutInside(f, u)
    PROVE  /\ g \in Files(S) /\ ~g.nl /\ g.lines # <<>>
           /\ f.nl => Grown(g, f, Junk) \/ Grown(g, f, u)
<1>1. f.lines \in Seq(S) /\ f.nl \in BOOLEAN
  BY DEF Files
<1>2. CASE f.nl
  <2>1. PICK l \in {Junk, u} : g = [lines |-> Append(f.lines, l), nl |-> FALSE]
    BY <1>2 DEF CutInside
  <2>2. /\ Append(f.lines, l) = f.lines \o <<l>> /\ Append(f.lines, l) \in Seq(S)
        /\ Append(f.lines, l) # <<>>
    BY <1>1, <2>1, AppendIsConcat, AppendProperties
  <2>3. g \in Files(S)
    BY <2>1, <2>2, FileType
  <2>4. g.lines = f.lines \o <<l>> /\ g.lines # <<>> /\ ~g.nl
    BY <2>1, <2>2
  <2>5. QED
    BY <2>1, <2>3, <2>4 DEF Grown
<1>3. CASE ~f.nl
  <2>1. g = [lines |-> Append(Front(f.lines), Junk), nl |-> FALSE]
    BY <1>3 DEF CutInside
  <2>2. Len(f.lines) \in Nat /\ Len(f.lines) # 0
    BY <1>1, <1>3, LenProperties, EmptySeq
  <2>3. Front(f.lines) \in Seq(S)
    <3>1. 1 \in 1..(Len(f.lines) + 1) /\ Len(f.lines) - 1 \in 0..Len(f.lines)
      BY <2>2
    <3>2. \A i \in 1..(Len(f.lines) - 1) : f.lines[i] \in S
      BY <1>1, <2>2, ElementOfSeq
    <3>3. QED
      BY <1>1, <3>1, <3>2, SubSeqProperties DEF Front
  <2>4. Append(Front(f.lines), Junk) \in Seq(S) /\ Append(Front(f.lines), Junk) # <<>>
    BY <2>3, AppendProperties
  <2>5. g \in Files(S)
    BY <2>1, <2>4, FileType
  <2>6. QED
    BY <1>3, <2>1, <2>4, <2>5
<1>4. QED
  BY <1>1, <1>2, <1>3

\* What w was about to write.
LEMMA UnfinishedEntry ==
    ASSUME NEW w \in Writers
    PROVE  Unfinished(w) = IF writer[w].pc = "new" THEN NewEntry(w, "header", writer[w].cid, "small")
                           ELSE IF writer[w].pc = "sealing"
                                THEN NewEntry(w, "seal", writer[w].count, "small")
                           ELSE NewEntry(w, "entry", 0, "small")
<1>1. CASE writer[w].pc = "new"
  BY <1>1 DEF Unfinished, NewEntry
<1>2. CASE writer[w].pc = "sealing"
  BY <1>2 DEF Unfinished, NewEntry
<1>3. CASE writer[w].pc # "new" /\ writer[w].pc # "sealing"
  BY <1>3 DEF Unfinished, NewEntry
<1>4. QED
  BY <1>1, <1>2, <1>3

\* What a crash inside a line does; u is what was being written.
TornBy(w, u) ==
    /\ Durability # "os" /\ size' = size + 1 /\ serial' = serial + 1
    /\ gaps' = gaps \cup GapsOf(w)
    /\ file' \in Files(Lines') /\ ~file'.nl /\ file'.lines # <<>>
    /\ file.nl => Grown(file', file, Junk) \/ Grown(file', file, u)
    /\ \/ writer[w].pc = "new" /\ u = NewEntry(w, "header", writer[w].cid, "small")
       \/ writer[w].pc = "sealing" /\ u = NewEntry(w, "seal", writer[w].count, "small")
       \/ writer[w].pc = "open" /\ u = NewEntry(w, "entry", 0, "small")
    /\ u \in Entries' /\ IsHashed(u) /\ u.hash = serial + 1

Stopped(w) ==
    /\ writer' = [writer EXCEPT ![w] = Closed] /\ buffer' = [buffer EXCEPT ![w] = <<>>]
    /\ acked' = acked

LEMMA CrashShape ==
    ASSUME TypeOK, PlaceInv, NEW w \in Writers, Crash(w)
    PROVE  /\ Stopped(w) /\ crashes' \in 0..MaxCrashes
           /\ \/ UNCHANGED <<file, size, serial, gaps>>
              \/ \E u : TornBy(w, u)
<1>1. Stopped(w)
  BY DEF Crash, Stopped
<1>2. crashes' \in 0..MaxCrashes
  BY TypeParts, ConstantsAssumption DEF Crash, ConstantsAssumption
<1>3. CASE UNCHANGED <<file, size, serial, gaps>>
  BY <1>1, <1>2, <1>3
<1>4. CASE /\ TornWrites /\ Flushed /\ Room(0)
           /\ file' \in TornCuts(file, <<Unfinished(w)>>)
           /\ size' = size + 1
           /\ serial' = serial + 1
           /\ gaps' = gaps \cup GapsOf(w)
  <2> DEFINE u == Unfinished(w)
  <2>1. writer[w] \in WriterFields /\ serial \in Nat /\ file \in Files(Lines)
    BY TypeParts
  <2>2. writer[w].pc \in {"new", "open", "sealing"}
    BY <2>1 DEF Crash, WriterFields
  <2>3. writer[w].cid \in Hashes /\ writer[w].cid \in Nat /\ writer[w].count \in Nat
    BY <2>1 DEF WriterFields, Hashes
  <2>4. \/ writer[w].pc = "new" /\ u = NewEntry(w, "header", writer[w].cid, "small")
        \/ writer[w].pc = "sealing" /\ u = NewEntry(w, "seal", writer[w].count, "small")
        \/ writer[w].pc = "open" /\ u = NewEntry(w, "entry", 0, "small")
    BY <2>2, UnfinishedEntry
  <2>5. u \in Entries' /\ IsHashed(u) /\ u.hash = serial + 1
    BY <1>4, <2>3, <2>4, NewEntryType
  <2> HIDE DEF u
  <2>6. serial' \in Nat /\ serial <= serial'
    BY <1>4, <2>1
  <2>7. file \in Files(Lines') /\ u \in Lines' /\ Junk \in Lines'
    BY <2>1, <2>5, <2>6, TypesGrow DEF Lines
  <2>8. ~file.nl => file.lines # <<>>
    BY DEF PlaceInv
  <2>9. file' \in CutInside(file, u)
    BY <1>4, TornOne DEF u
  <2>10. /\ file' \in Files(Lines') /\ ~file'.nl /\ file'.lines # <<>>
         /\ file.nl => Grown(file', file, Junk) \/ Grown(file', file, u)
    BY <2>7, <2>8, <2>9, CutShape
  <2>11. TornBy(w, u)
    BY <1>4, <2>4, <2>5, <2>10 DEF TornBy, Flushed
  <2>12. QED
    BY <1>1, <1>2, <2>11
<1>5. QED
  BY <1>3, <1>4 DEF Crash


LEMMA CloseType ==
    ASSUME TypeOK, PlaceInv, NEW w \in Writers, Close(w)
    PROVE  /\ TypeOK' /\ Stopped(w) /\ file' = Ahead(w) /\ size <= size'
           /\ buffer[w] = <<>> => file' = file /\ size' = size
           /\ buffer[w] # <<>> => size' = size + 1
           /\ serial' = serial /\ gaps' = gaps
<1>1. /\ Stopped(w) /\ file' = Ahead(w) /\ serial' = serial /\ gaps' = gaps /\ crashes' = crashes
      /\ size' = IF buffer[w] # <<>> THEN size + 1 ELSE size
  BY DEF Close, Stopped, Ahead
<1>2. /\ serial \in Nat /\ serial' \in Nat /\ size \in Nat /\ writer \in [Writers -> WriterFields]
      /\ buffer \in [Writers -> Seq(Entries)] /\ acked \subseteq Hashes /\ gaps \subseteq Gaps
      /\ crashes \in 0..MaxCrashes /\ serial <= serial'
  BY <1>1, TypeParts
<1>3. size' \in Nat /\ size <= size' /\ (buffer[w] = <<>> => size' = size)
      /\ (buffer[w] # <<>> => size' = size + 1)
  BY <1>1, <1>2
<1>4. file' \in Files(Lines) /\ (buffer[w] = <<>> => file' = file)
  BY <1>1, AheadType
<1>5. /\ Hashes' = Hashes /\ Files(Lines') = Files(Lines) /\ WriterFields' = WriterFields
      /\ Entries' = Entries
  BY <1>1 DEF Hashes, Files, Lines, Entries, EntriesOf, WriterFields, Refs
<1>6. writer' \in [Writers -> WriterFields'] /\ buffer' \in [Writers -> Seq(Entries')]
  <2>1. Closed \in WriterFields
    BY <1>2, ClosedType
  <2>2. <<>> \in Seq(Entries)
    OBVIOUS
  <2>3. QED
    BY <1>1, <1>2, <1>5, <2>1, <2>2 DEF Stopped
<1>7. acked' \subseteq Hashes' /\ gaps' \subseteq Gaps /\ crashes' \in 0..MaxCrashes
      /\ file' \in Files(Lines')
  BY <1>1, <1>2, <1>4, <1>5 DEF Stopped
<1>8. TypeOK'
  BY <1>2, <1>3, <1>6, <1>7 DEF TypeOK, Files, Lines, WriterFields, Refs, Gaps
<1>9. QED
  BY <1>1, <1>3, <1>4, <1>8

LEMMA CrashType ==
    ASSUME TypeOK, PlaceInv, NEW w \in Writers, Crash(w)
    PROVE  TypeOK' /\ size <= size'
<1>1. /\ Stopped(w) /\ crashes' \in 0..MaxCrashes
      /\ \/ UNCHANGED <<file, size, serial, gaps>>
         \/ \E u : TornBy(w, u)
  BY CrashShape
<1>2. /\ serial \in Nat /\ size \in Nat /\ writer \in [Writers -> WriterFields]
      /\ buffer \in [Writers -> Seq(Entries)] /\ acked \subseteq Hashes /\ gaps \subseteq Gaps
      /\ file \in Files(Lines)
  BY TypeParts
<1>3. serial' \in Nat /\ serial <= serial' /\ size' \in Nat /\ size <= size'
  BY <1>1, <1>2 DEF TornBy
<1>4. /\ Hashes \subseteq Hashes' /\ Seq(Entries) \subseteq Seq(Entries')
      /\ Files(Lines) \subseteq Files(Lines') /\ WriterFields \subseteq WriterFields'
  BY <1>2, <1>3, TypesGrow
<1>5. file' \in Files(Lines') /\ gaps' \subseteq Gaps
  <2>1. GapsOf(w) \subseteq Gaps
    BY DEF GapsOf, Gaps
  <2>2. QED
    BY <1>1, <1>2, <1>4, <2>1 DEF TornBy
<1>6. writer' \in [Writers -> WriterFields'] /\ buffer' \in [Writers -> Seq(Entries')]
  <2>1. Closed \in WriterFields'
    BY <1>2, <1>3, ClosedType
  <2>2. <<>> \in Seq(Entries')
    OBVIOUS
  <2>3. QED
    BY <1>1, <1>2, <1>4, <2>1, <2>2 DEF Stopped
<1>7. acked' \subseteq Hashes'
  BY <1>1, <1>2, <1>4 DEF Stopped
<1>8. QED
  BY <1>1, <1>3, <1>5, <1>6, <1>7 DEF TypeOK, Files, Lines, WriterFields, Refs, Gaps

LEMMA TypeStep ==
    ASSUME TypeOK, PlaceInv, [Next]_vars
    PROVE  TypeOK'
<1>1. CASE UNCHANGED vars
  BY <1>1 DEF vars, TypeOK, Entries, EntriesOf, Hashes
<1>2. CASE Next
  BY <1>2, StepCases, OpenType, CloseType, CrashType, AppendsType
<1>3. QED
  BY <1>1, <1>2
-------------------------------------------------------------------------------
(* Places                                                                     *)

LEMMA PlaceStep ==
    ASSUME TypeOK, PlaceInv, [Next]_vars
    PROVE  PlaceInv'
<1> DEFINE PlaceOf(w) ==
        /\ buffer[w] # <<>> => /\ Durability = "os" /\ Len(buffer[w]) = 1
                               /\ writer[w].pc \in {"open", "sealing"}
                               /\ IsHashed(buffer[w][1])
        /\ writer[w].lastSize <= size
        /\ writer[w].pc # "sealing" => writer[w].since < SealEvery
        /\ writer[w].pc = "new" => /\ writer[w].lastSize = -1 /\ writer[w].count = 0
                                   /\ writer[w].head = Genesis(writer[w].cid)
<1>1. /\ size \in Nat /\ serial \in Nat /\ writer \in [Writers -> WriterFields]
      /\ buffer \in [Writers -> Seq(Entries)] /\ 0 < SealEvery
  BY TypeParts, ConstantsAssumption DEF ConstantsAssumption
<1>2. \A w \in Writers : PlaceOf(w) /\ writer[w].lastSize \in Int
  BY <1>1 DEF PlaceInv, WriterFields
<1>3. ASSUME NEW w \in Writers, size' \in Nat, size <= size',
             \A v \in Writers \ {w} : writer'[v] = writer[v] /\ buffer'[v] = buffer[v],
             PlaceOf(w)', ~file'.nl => file'.lines # <<>> /\ Durability # "os"
      PROVE  PlaceInv'
  <2>1. \A v \in Writers \ {w} : PlaceOf(v)'
    BY <1>1, <1>2, <1>3
  <2>2. QED
    BY <1>3, <2>1 DEF PlaceInv
<1>4. CASE UNCHANGED vars
  BY <1>4 DEF vars, PlaceInv
<1>5. ASSUME NEW w \in Writers, Open(w) PROVE PlaceInv'
  <2>1. buffer[w] = <<>> /\ UNCHANGED <<file, size, buffer>>
    BY <1>2, <1>5 DEF Open
  <2>2. /\ DOMAIN writer' = Writers /\ \A v \in Writers \ {w} : writer'[v] = writer[v]
        /\ \/ \E c, h, n : writer'[w] = Fields("open", c, h, n)
           \/ writer'[w] = Fields("new", serial + 1, Genesis(serial + 1), 0)
    BY <1>1, <1>5 DEF Open
  <2>3. /\ writer'[w].pc \in {"open", "new"} /\ writer'[w].lastSize = -1 /\ writer'[w].since = 0
        /\ writer'[w].pc = "new" => /\ writer'[w].count = 0
                                    /\ writer'[w].head = Genesis(writer'[w].cid)
    BY <2>2 DEF Fields
  <2>4. PlaceOf(w)'
    BY <1>1, <2>1, <2>3
  <2>5. QED
    BY <1>1, <1>3, <2>1, <2>2, <2>4 DEF PlaceInv
<1>6. ASSUME NEW w \in Writers, Stopped(w), size' \in Nat, size <= size',
             ~file'.nl => file'.lines # <<>> /\ Durability # "os"
      PROVE  PlaceInv'
  <2>1. writer'[w] = Closed /\ buffer'[w] = <<>>
        /\ \A v \in Writers \ {w} : writer'[v] = writer[v] /\ buffer'[v] = buffer[v]
    BY <1>1, <1>6 DEF Stopped
  <2>2. PlaceOf(w)'
    BY <1>1, <1>6, <2>1 DEF Closed, Fields
  <2>3. QED
    BY <1>3, <1>6, <2>1, <2>2
<1>7. ASSUME NEW w \in Writers, Close(w) PROVE PlaceInv'
  <2>1. TypeOK' /\ Stopped(w) /\ file' = Ahead(w) /\ size <= size'
    BY <1>7, CloseType
  <2>2. size' \in Nat
    BY <2>1 DEF TypeOK
  <2>3. ~file'.nl => file'.lines # <<>> /\ Durability # "os"
    <3>1. ~Ahead(w).nl => buffer[w] = <<>> \/ ~file.nl
      BY DEF Ahead, AppendRecords
    <3>2. QED
      BY <1>2, <2>1, <3>1, AheadType DEF PlaceInv
  <2>4. QED
    BY <1>6, <2>1, <2>2, <2>3
<1>8. ASSUME NEW w \in Writers, Crash(w) PROVE PlaceInv'
  <2>1. /\ Stopped(w) /\ TypeOK' /\ size <= size'
        /\ file' = file \/ (~file'.nl => file'.lines # <<>> /\ Durability # "os")
    BY <1>8, CrashShape, CrashType DEF TornBy
  <2>2. size' \in Nat
    BY <2>1 DEF TypeOK
  <2>3. QED
    BY <1>6, <2>1, <2>2 DEF PlaceInv
<1>9. ASSUME NEW w, NEW kind, NEW data, NEW bytes, NEW pc, NEW since,
             Appends(w, kind, data, bytes, pc, since)
      PROVE  PlaceInv'
  <2> DEFINE e == NewEntry(w, kind, data, bytes)
  <2>1. w \in Writers /\ pc \in {"open", "sealing"} /\ (pc = "open" => since < SealEvery)
        /\ kind \in {"header", "entry", "seal"} /\ data \in Nat /\ bytes \in {"small", "big"}
        /\ (kind = "header" => data = writer[w].cid)
    BY <1>9 DEF Appends
  <2>2. Appended(w, e, pc, since)
    BY <1>9, AppendShape
  <2>3. IsHashed(e)
    <3>1. kind = "header" => data \in Hashes
      BY <1>1, <2>1 DEF WriterFields
    <3>2. QED
      BY <2>1, <2>2, <3>1, NewEntryType DEF Appended
  <2> HIDE DEF e
  <2>4. /\ writer'[w].pc = pc /\ writer'[w].lastSize = size' /\ writer'[w].since = since
        /\ buffer'[w] # <<>> => Durability = "os" /\ buffer'[w] = <<e>>
    BY <2>2 DEF Appended, Advanced
  <2>5. PlaceOf(w)'
    BY <2>1, <2>2, <2>3, <2>4 DEF Appended
  <2>6. ~file'.nl => file'.lines # <<>> /\ Durability # "os"
    <3>1. ~Ahead(w).nl => buffer[w] = <<>> \/ ~file.nl
      BY DEF Ahead, AppendRecords
    <3>2. CASE Durability = "os"
      BY <1>2, <2>1, <2>2, <3>1, <3>2, AheadType DEF PlaceInv, Appended
    <3>3. CASE Durability # "os"
      BY <1>9, <3>3, AppendsType
    <3>4. QED
      BY <3>2, <3>3
  <2>7. QED
    BY <1>3, <2>1, <2>2, <2>5, <2>6 DEF Appended
<1>10. QED
  BY <1>4, <1>5, <1>7, <1>8, <1>9, StepCases

-------------------------------------------------------------------------------
(* What a writer appends continues the chain                                  *)

Broken == {"glued", "window", "unflushed"}

\* The file is not torn, and no other writer holds anything back.
LEMMA NothingHidden ==
    ASSUME TypeOK, PlaceInv, NEW w \in Writers, GapsOf(w) \cap Broken = {}
    PROVE  /\ file.nl /\ Ahead(w).nl /\ \A v \in Writers \ {w} : buffer[v] = <<>>
           /\ writer[w].lastSize # size /\ TailHash(file) = NoHash => Hashed(file) = {}
<1>1. "glued" \notin GapsOf(w) /\ "window" \notin GapsOf(w) /\ "unflushed" \notin GapsOf(w)
  BY DEF Broken
<1>2. file.nl /\ \A v \in Writers \ {w} : buffer[v] = <<>>
  BY <1>1 DEF GapsOf
<1>3. writer[w].lastSize # size /\ TailHash(file) = NoHash => Hashed(file) = {}
  BY <1>1 DEF GapsOf
<1>4. Ahead(w).nl
  BY <1>2 DEF Ahead, AppendRecords
<1>5. QED
  BY <1>2, <1>3, <1>4

\* The last line of a chained file is its last hashed one, if there is one.
LEMMA TailIsLast ==
    ASSUME NEW f \in Files(Lines), Chained(f), f.nl, Hashed(f) # {}
    PROVE  /\ Len(f.lines) \in Hashed(f) /\ Max(Hashed(f)) = Len(f.lines)
           /\ Len(f.lines) \in ReadRaw(f)
<1>1. /\ Len(f.lines) \in Nat /\ DOMAIN f.lines = 1..Len(f.lines)
      /\ ReadRaw(f) \in SUBSET (1..Len(f.lines)) /\ Hashed(f) \in SUBSET ReadRaw(f)
  BY LinesAreNumbered
<1>2. Max(Hashed(f)) \in Hashed(f) /\ \A n \in Hashed(f) : n <= Max(Hashed(f))
  BY <1>1, MaxIsGreatest
<1>3. Max(Hashed(f)) \in 1..Len(f.lines)
  BY <1>1, <1>2
<1>4. Len(f.lines) \in ReadRaw(f)
  <2>1. Len(f.lines) \in DOMAIN f.lines
    BY <1>1, <1>3
  <2>2. IsEntry(f.lines[Len(f.lines)])
    BY <2>1 DEF Chained, Whole
  <2>3. QED
    BY <2>1, <2>2 DEF ReadRaw
<1>5. Len(f.lines) \in Hashed(f)
  <2>1. CASE Max(Hashed(f)) < Len(f.lines)
    BY <1>2, <1>4, <2>1 DEF Chained, HashedLast
  <2>2. CASE ~(Max(Hashed(f)) < Len(f.lines))
    <3>1. Max(Hashed(f)) = Len(f.lines)
      BY <1>1, <1>3, <2>2
    <3>2. QED
      BY <1>2, <3>1
  <2>3. QED
    BY <2>1, <2>2
<1>6. Max(Hashed(f)) = Len(f.lines)
  BY <1>1, <1>2, <1>3, <1>5
<1>7. QED
  BY <1>4, <1>5, <1>6

LEMMA NewEntryContinues ==
    ASSUME TypeOK, PlaceInv, AloneInv, ChainInv, HeadInv, Sound, NEW w \in Writers,
           GapsOf(w) \cap Broken = {}, NEW kind, NEW data, NEW bytes,
           IsHashed(NewEntry(w, kind, data, bytes)),
           \/ writer[w].pc = "new" /\ kind = "header" /\ data = writer[w].cid
           \/ writer[w].pc \in {"open", "sealing"}
    PROVE  Continues(Ahead(w), NewEntry(w, kind, data, bytes))
<1> DEFINE e == NewEntry(w, kind, data, bytes)
<1>1. e.prev = SyncedHead(w) /\ e.data = data /\ e.kind = kind /\ e.k = "entry"
  BY DEF NewEntry, Entry
<1>2. file.nl /\ file \in Files(Lines) /\ Chained(file)
      /\ (writer[w].lastSize # size /\ TailHash(file) = NoHash => Hashed(file) = {})
  BY NothingHidden, TypeParts DEF ChainInv
<1> HIDE DEF e
<1>3. CASE writer[w].lastSize = size
  <2>1. SyncedHead(w) = writer[w].head
    BY <1>3 DEF SyncedHead
  <2>2. AtTail(Ahead(w), writer[w].head)
    BY <1>3 DEF HeadInv
  <2>3. QED
    BY <1>1, <2>1, <2>2 DEF Continues, AtTail, e
<1>4. CASE writer[w].lastSize # size /\ TailHash(file) # NoHash
  <2>1. Ahead(w) = file
    BY <1>4, AheadType DEF AloneInv
  <2>2. SyncedHead(w) = TailHash(file) /\ Hashed(file) # {}
    BY <1>4 DEF SyncedHead, TailHash
  <2>3. Len(file.lines) \in Hashed(file) /\ Max(Hashed(file)) = Len(file.lines)
    BY <1>2, <2>2, TailIsLast
  <2>4. TailHash(file) = file.lines[Len(file.lines)].hash
    BY <1>4, <2>3 DEF TailHash
  <2>5. QED
    BY <1>1, <2>1, <2>2, <2>3, <2>4 DEF Continues, e
<1>5. CASE writer[w].lastSize # size /\ TailHash(file) = NoHash
  <2>1. Ahead(w) = file
    BY <1>5, AheadType DEF AloneInv
  <2>2. Hashed(file) = {} /\ SyncedHead(w) = writer[w].head
    BY <1>2, <1>5 DEF SyncedHead
  <2>3. writer[w].pc = "new" /\ kind = "header" /\ data = writer[w].cid
    BY <2>1, <2>2 DEF HeadInv
  <2>4. writer[w].head = Genesis(writer[w].cid)
    BY <2>3 DEF PlaceInv
  <2>5. QED
    BY <1>1, <2>1, <2>2, <2>3, <2>4 DEF Continues, IsHeader, IsEntry, e
<1>6. QED
  BY <1>3, <1>4, <1>5

\* What an append leaves, where nothing was broken.
LEMMA AppendsSound ==
    ASSUME TypeOK, PlaceInv, AloneInv, ChainInv, HeadInv, NEW w, NEW kind, NEW data, NEW bytes,
           NEW pc, NEW since, Appends(w, kind, data, bytes, pc, since), Sound'
    PROVE  LET e == NewEntry(w, kind, data, bytes)
           IN  /\ w \in Writers /\ Sound /\ e \in Entries' /\ e \in Lines' /\ IsHashed(e)
               /\ Ahead(w) \in Files(Lines') /\ Ahead(w).nl /\ Chained(Ahead(w))
               /\ Continues(Ahead(w), e)
               /\ Grown(Ahead(w)', Ahead(w), e) /\ Ahead(w)'.nl /\ Ahead(w)' \in Files(Lines')
               /\ \A v \in Writers \ {w} : buffer[v] = <<>> /\ Ahead(v) = file /\ Ahead(v)' = file'
               /\ \/ file' = Ahead(w) /\ Durability = "os"
                  \/ file' = Ahead(w)' /\ Durability # "os"
<1> DEFINE e == NewEntry(w, kind, data, bytes)
<1>1. w \in Writers /\ kind \in {"header", "entry", "seal"} /\ data \in Nat
      /\ bytes \in {"small", "big"} /\ (kind = "header" => data = writer[w].cid)
      /\ \/ writer[w].pc = "new" /\ kind = "header" /\ data = writer[w].cid
         \/ writer[w].pc \in {"open", "sealing"}
  BY DEF Appends
<1>2. Appended(w, e, pc, since)
  BY AppendShape
<1>3. serial \in Nat /\ serial' = serial + 1 /\ serial' \in Nat /\ serial <= serial'
  <2>1. serial \in Nat /\ serial' = serial + 1
    BY <1>2, TypeParts DEF Appended
  <2>2. QED
    BY <2>1
<1>4. e \in Entries' /\ e \in Lines' /\ IsHashed(e)
  <2>1. kind = "header" => data \in Hashes
    BY <1>1, TypeParts DEF WriterFields
  <2>2. QED
    BY <1>1, <1>3, <2>1, NewEntryType DEF Lines
<1>5. Sound /\ GapsOf(w) \cap Broken = {}
  BY <1>2 DEF Sound, Broken, Appended
<1>6. Continues(Ahead(w), e)
  BY <1>1, <1>4, <1>5, NewEntryContinues
<1>7. file.nl /\ Ahead(w).nl /\ \A v \in Writers \ {w} : buffer[v] = <<>>
  BY <1>1, <1>5, NothingHidden
<1>8. Chained(Ahead(w)) /\ Ahead(w) \in Files(Lines')
  BY <1>1, <1>3, <1>5, AheadType, TypesGrow DEF ChainInv
<1> HIDE DEF e
<1>9. Ahead(w)' = AppendRecords(Ahead(w), <<e>>)
  <2>1. CASE Durability = "os"
    BY <1>2, <2>1 DEF Appended, Ahead
  <2>2. CASE Durability # "os"
    <3>1. file' = AppendRecords(Ahead(w), <<e>>) /\ buffer'[w] = <<>>
      BY <1>2, <2>2 DEF Appended
    <3>2. AppendRecords(file', <<>>) = file'
      BY AppendNone
    <3>3. QED
      BY <3>1, <3>2 DEF Ahead
  <2>3. QED
    BY <2>1, <2>2
<1>10. Grown(Ahead(w)', Ahead(w), e) /\ Ahead(w)'.nl /\ Ahead(w)' \in Files(Lines')
  BY <1>4, <1>7, <1>8, <1>9, AppendOne
<1>11. \A v \in Writers \ {w} : Ahead(v) = file /\ Ahead(v)' = file'
  BY <1>2, <1>7, AppendNone DEF Ahead, Appended
<1>12. \/ file' = Ahead(w) /\ Durability = "os"
       \/ file' = Ahead(w)' /\ Durability # "os"
  BY <1>2, <1>9 DEF Appended
<1>13. QED
  BY <1>1, <1>4, <1>5, <1>6, <1>7, <1>8, <1>10, <1>11, <1>12 DEF e


\* What a writer holds back comes after the file.
LEMMA AheadGrows ==
    ASSUME TypeOK, PlaceInv, file.nl, NEW w \in Writers
    PROVE  /\ buffer[w] # <<>> => Grown(Ahead(w), file, buffer[w][1]) /\ buffer[w][1] \in Lines
           /\ ReadRaw(file) \subseteq ReadRaw(Ahead(w)) /\ Hashed(file) \subseteq Hashed(Ahead(w))
           /\ Headers(file) \subseteq Headers(Ahead(w))
<1>1. CASE buffer[w] = <<>>
  BY <1>1, AheadType
<1>2. CASE buffer[w] # <<>>
  <2>1. buffer[w] \in Seq(Entries) /\ Len(buffer[w]) = 1 /\ file \in Files(Lines)
    BY <1>2, TypeParts DEF PlaceInv
  <2>2. buffer[w] = <<buffer[w][1]>> /\ buffer[w][1] \in Entries
    BY <2>1
  <2>3. buffer[w][1] \in Lines
    BY <2>2 DEF Lines
  <2>4. Grown(Ahead(w), file, buffer[w][1])
    <3>1. Grown(AppendRecords(file, <<buffer[w][1]>>), file, buffer[w][1])
      BY <2>1, <2>3, AppendOne
    <3>2. QED
      BY <2>2, <3>1 DEF Ahead
  <2>5. /\ ReadRaw(file) \subseteq ReadRaw(Ahead(w)) /\ Hashed(file) \subseteq Hashed(Ahead(w))
        /\ Headers(file) \subseteq Headers(Ahead(w))
    BY <2>1, <2>3, <2>4, GrownSets
  <2>6. QED
    BY <2>3, <2>4, <2>5
<1>3. QED
  BY <1>1, <1>2

\* A crash inside a line, where nothing was broken.
LEMMA TornSound ==
    ASSUME TypeOK, PlaceInv, AloneInv, ChainInv, HeadInv, NEW w \in Writers, NEW u,
           Stopped(w), TornBy(w, u), Sound'
    PROVE  /\ Sound /\ file.nl /\ file \in Files(Lines') /\ file \in Files(Lines) /\ u \in Lines'
           /\ Junk \in Lines' /\ Chained(file) /\ Continues(file, u)
           /\ Grown(file', file, Junk) \/ Grown(file', file, u)
           /\ \A v \in Writers : buffer[v] = <<>> /\ buffer'[v] = <<>>
           /\ \A v \in Writers : Ahead(v) = file /\ Ahead(v)' = file'
<1>1. serial \in Nat /\ file \in Files(Lines) /\ buffer \in [Writers -> Seq(Entries)]
      /\ writer[w] \in WriterFields
  BY TypeParts
<1>2. serial' \in Nat /\ serial <= serial'
  BY <1>1 DEF TornBy
<1>3. Sound /\ GapsOf(w) \cap Broken = {}
  BY DEF Sound, Broken, TornBy
<1>4. file.nl
  BY <1>3, NothingHidden
<1>5. \A v \in Writers : buffer[v] = <<>> /\ buffer'[v] = <<>>
  BY <1>1 DEF PlaceInv, TornBy, Stopped
<1>6. \A v \in Writers : Ahead(v) = file /\ Ahead(v)' = file'
  BY <1>5, AppendNone DEF Ahead
<1>7. Continues(file, u)
  <2>1. IsHashed(u)
    BY DEF TornBy
  <2>2. CASE writer[w].pc = "new" /\ u = NewEntry(w, "header", writer[w].cid, "small")
    BY <1>3, <1>6, <2>1, <2>2, NewEntryContinues
  <2>3. CASE writer[w].pc = "sealing" /\ u = NewEntry(w, "seal", writer[w].count, "small")
    BY <1>3, <1>6, <2>1, <2>3, NewEntryContinues
  <2>4. CASE writer[w].pc = "open" /\ u = NewEntry(w, "entry", 0, "small")
    BY <1>3, <1>6, <2>1, <2>4, NewEntryContinues
  <2>5. QED
    BY <2>2, <2>3, <2>4 DEF TornBy
<1>8. Chained(file) /\ file \in Files(Lines') /\ u \in Lines' /\ Junk \in Lines'
  BY <1>1, <1>2, <1>3, TypesGrow DEF ChainInv, TornBy, Lines
<1>9. QED
  BY <1>1, <1>3, <1>4, <1>5, <1>6, <1>7, <1>8 DEF TornBy
-------------------------------------------------------------------------------
(* One chain, whose tail a writer that nobody has overtaken knows             *)

LinkInv == AloneInv /\ ChainInv /\ HeadInv

LEMMA LinkOpen ==
    ASSUME TypeOK, PlaceInv, LinkInv, NEW w \in Writers, Open(w)
    PROVE  LinkInv'
<1>1. SUFFICES ASSUME Sound' PROVE LinkInv'
  BY DEF LinkInv, AloneInv, ChainInv, HeadInv
<1>2. /\ file' = file /\ size' = size /\ buffer' = buffer /\ buffer[w] = <<>> /\ size \in Nat
      /\ writer \in [Writers -> WriterFields] /\ file \in Files(Lines)
  BY TypeParts DEF Open, PlaceInv
<1>3. Sound /\ \A v \in Writers : Ahead(v)' = Ahead(v)
  <2>1. gaps \subseteq gaps'
    BY DEF Open
  <2>2. Sound
    BY <1>1, <2>1 DEF Sound
  <2>3. QED
    BY <1>2, <2>2 DEF Ahead
<1>4. \A v \in Writers \ {w} : writer'[v] = writer[v]
  BY <1>2 DEF Open
<1>5. writer'[w].lastSize = -1 /\ (writer'[w].pc # "new" => Hashed(file) # {})
  <2>1. CASE Headers(file) # {} /\ file.lines[Max(ReadRaw(file))].hash # NoHash
    <3>1. /\ Len(file.lines) \in Nat /\ ReadRaw(file) \in SUBSET (1..Len(file.lines))
          /\ Headers(file) \in SUBSET ReadRaw(file)
      BY <1>2, LinesAreNumbered
    <3>2. Max(ReadRaw(file)) \in ReadRaw(file)
      BY <2>1, <3>1, MaxIsGreatest
    <3>3. Max(ReadRaw(file)) \in Hashed(file)
      BY <2>1, <3>2 DEF ReadRaw, Hashed, IsHashed
    <3>4. \E c, h, n : writer'[w] = Fields("open", c, h, n)
      BY <1>2, <2>1 DEF Open
    <3>5. QED
      BY <3>3, <3>4 DEF Fields
  <2>2. CASE ~(Headers(file) # {} /\ file.lines[Max(ReadRaw(file))].hash # NoHash)
    <3>1. writer'[w] = Fields("new", serial + 1, Genesis(serial + 1), 0)
      BY <1>2, <2>2 DEF Open
    <3>2. QED
      BY <3>1 DEF Fields
  <2>3. QED
    BY <2>1, <2>2
<1>6. AloneInv'
  BY <1>2, <1>3, <1>4 DEF LinkInv, AloneInv
<1>7. ChainInv'
  BY <1>2, <1>3 DEF LinkInv, ChainInv
<1>8. HeadInv'
  <2>1. SUFFICES ASSUME NEW v \in Writers
                 PROVE  /\ writer'[v].lastSize = size => AtTail(Ahead(v), writer'[v].head)
                        /\ writer'[v].pc \in {"open", "sealing"} => Hashed(Ahead(v)) # {}
    BY <1>2, <1>3 DEF HeadInv
  <2>2. CASE v = w
    <3>1. Ahead(w) = file
      BY <1>2, AheadType
    <3>2. QED
      BY <1>2, <1>5, <2>2, <3>1
  <2>3. CASE v # w
    BY <1>3, <1>4, <2>3 DEF LinkInv, HeadInv
  <2>4. QED
    BY <2>2, <2>3
<1>9. QED
  BY <1>6, <1>7, <1>8 DEF LinkInv

LEMMA LinkClose ==
    ASSUME TypeOK, PlaceInv, LinkInv, NEW w \in Writers, Close(w)
    PROVE  LinkInv'
<1>1. SUFFICES ASSUME Sound' PROVE LinkInv'
  BY DEF LinkInv, AloneInv, ChainInv, HeadInv
<1>2. /\ Stopped(w) /\ file' = Ahead(w) /\ (buffer[w] = <<>> => file' = file /\ size' = size)
      /\ (buffer[w] # <<>> => size' = size + 1) /\ gaps' = gaps
  BY CloseType
<1>3. Sound /\ size \in Nat /\ writer \in [Writers -> WriterFields]
      /\ buffer \in [Writers -> Seq(Entries)]
  <2>1. Sound
    BY <1>1, <1>2 DEF Sound
  <2>2. QED
    BY <2>1, TypeParts
<1>4. writer'[w] = Closed /\ buffer'[w] = <<>>
      /\ \A v \in Writers \ {w} : writer'[v] = writer[v] /\ buffer'[v] = buffer[v]
  BY <1>2, <1>3 DEF Stopped
<1>5. Closed.pc = "closed" /\ Closed.lastSize = -1
  BY DEF Closed, Fields
<1>6. CASE buffer[w] = <<>>
  <2>1. Ahead(w)' = file /\ \A v \in Writers \ {w} : Ahead(v)' = Ahead(v)
    BY <1>2, <1>4, <1>6, AppendNone DEF Ahead
  <2>2. AloneInv'
    BY <1>2, <1>3, <1>4, <1>6 DEF LinkInv, AloneInv
  <2>3. ChainInv'
    BY <1>2, <1>3, <1>6, <2>1 DEF LinkInv, ChainInv
  <2>4. HeadInv'
    BY <1>2, <1>3, <1>4, <1>5, <1>6, <2>1 DEF LinkInv, HeadInv
  <2>5. QED
    BY <2>2, <2>3, <2>4 DEF LinkInv
<1>7. CASE buffer[w] # <<>>
  <2>1. \A v \in Writers : buffer'[v] = <<>> /\ (v # w => buffer[v] = <<>>)
    BY <1>3, <1>4, <1>7 DEF LinkInv, AloneInv
  <2>2. \A v \in Writers : Ahead(v)' = file' /\ (v # w => Ahead(v) = file)
    BY <2>1, AppendNone DEF Ahead
  <2>3. AloneInv'
    BY <2>1 DEF AloneInv
  <2>4. ChainInv'
    BY <1>2, <1>3, <2>2 DEF LinkInv, ChainInv
  <2>5. file.nl
    BY <1>7 DEF PlaceInv
  <2>6. HeadInv'
    <3>1. SUFFICES ASSUME NEW v \in Writers
                   PROVE  /\ writer'[v].lastSize # size'
                          /\ writer'[v].pc \in {"open", "sealing"} => Hashed(file') # {}
      BY <2>2 DEF HeadInv
    <3>2. CASE v = w
      BY <1>2, <1>3, <1>4, <1>5, <1>7, <3>2
    <3>3. CASE v # w
      <4>1. writer'[v] = writer[v] /\ writer[v].lastSize <= size /\ writer[v].lastSize \in Int
        BY <1>3, <1>4, <3>3 DEF PlaceInv, WriterFields
      <4>2. writer[v].lastSize # size'
        BY <1>2, <1>3, <1>7, <4>1
      <4>3. Hashed(file) \subseteq Hashed(file')
        BY <1>2, <2>5, AheadGrows
      <4>4. QED
        BY <1>3, <2>2, <3>3, <4>1, <4>2, <4>3 DEF LinkInv, HeadInv
    <3>4. QED
      BY <3>2, <3>3
  <2>7. QED
    BY <2>3, <2>4, <2>6 DEF LinkInv
<1>8. QED
  BY <1>6, <1>7

LEMMA LinkCrash ==
    ASSUME TypeOK, PlaceInv, LinkInv, NEW w \in Writers, Crash(w)
    PROVE  LinkInv'
<1>1. SUFFICES ASSUME Sound' PROVE LinkInv'
  BY DEF LinkInv, AloneInv, ChainInv, HeadInv
<1>2. Stopped(w) /\ (UNCHANGED <<file, size, serial, gaps>> \/ \E u : TornBy(w, u))
  BY CrashShape
<1>3. size \in Nat /\ writer \in [Writers -> WriterFields] /\ buffer \in [Writers -> Seq(Entries)]
      /\ \A v \in Writers : writer[v] \in WriterFields
  BY TypeParts
<1>4. writer'[w] = Closed /\ buffer'[w] = <<>>
      /\ \A v \in Writers \ {w} : writer'[v] = writer[v] /\ buffer'[v] = buffer[v]
  BY <1>2, <1>3 DEF Stopped
<1>5. Closed.pc = "closed" /\ Closed.lastSize = -1
  BY DEF Closed, Fields
<1>6. CASE UNCHANGED <<file, size, serial, gaps>>
  <2>1. Sound
    BY <1>1, <1>6 DEF Sound
  <2>2. Ahead(w)' = file /\ \A v \in Writers \ {w} : Ahead(v)' = Ahead(v)
    BY <1>4, <1>6, AppendNone DEF Ahead
  <2>3. AloneInv'
    BY <1>4, <1>6, <2>1 DEF LinkInv, AloneInv
  <2>4. ChainInv'
    BY <1>6, <2>1, <2>2 DEF LinkInv, ChainInv
  <2>5. HeadInv'
    BY <1>3, <1>4, <1>5, <1>6, <2>1, <2>2 DEF LinkInv, HeadInv
  <2>6. QED
    BY <2>3, <2>4, <2>5 DEF LinkInv
<1>7. ASSUME NEW u, TornBy(w, u) PROVE LinkInv'
  <2>1. /\ Sound /\ file.nl /\ file \in Files(Lines') /\ u \in Lines' /\ Junk \in Lines'
        /\ Chained(file) /\ Continues(file, u)
        /\ Grown(file', file, Junk) \/ Grown(file', file, u)
        /\ \A v \in Writers : buffer'[v] = <<>> /\ Ahead(v) = file /\ Ahead(v)' = file'
    BY <1>1, <1>2, <1>7, TornSound DEF LinkInv
  <2>2. ~file'.nl /\ size' = size + 1
    BY <1>7 DEF TornBy
  <2>3. Chained(file') /\ Hashed(file) \subseteq Hashed(file')
    <3>1. CASE Grown(file', file, Junk)
      BY <2>1, <2>2, <3>1, TornChained, GrownSets
    <3>2. CASE Grown(file', file, u)
      BY <2>1, <2>2, <3>2, GrownChained, GrownSets
    <3>3. QED
      BY <2>1, <3>1, <3>2
  <2>4. AloneInv'
    BY <2>1 DEF AloneInv
  <2>5. ChainInv'
    BY <2>1, <2>3 DEF ChainInv
  <2>6. HeadInv'
    <3>1. SUFFICES ASSUME NEW v \in Writers
                   PROVE  /\ writer'[v].lastSize # size'
                          /\ writer'[v].pc \in {"open", "sealing"} => Hashed(file') # {}
      BY <2>1 DEF HeadInv
    <3>2. CASE v = w
      BY <1>3, <1>4, <1>5, <2>2, <3>2
    <3>3. CASE v # w
      <4>1. writer'[v] = writer[v] /\ writer[v].lastSize <= size /\ writer[v].lastSize \in Int
        BY <1>3, <1>4, <3>3 DEF PlaceInv, WriterFields
      <4>2. writer[v].lastSize # size'
        BY <1>3, <2>2, <4>1
      <4>3. QED
        BY <2>1, <2>3, <4>1, <4>2 DEF LinkInv, HeadInv
    <3>4. QED
      BY <3>2, <3>3
  <2>7. QED
    BY <2>4, <2>5, <2>6 DEF LinkInv
<1>8. QED
  BY <1>2, <1>6, <1>7

LEMMA LinkAppends ==
    ASSUME TypeOK, PlaceInv, LinkInv, NEW w, NEW kind, NEW data, NEW bytes, NEW pc, NEW since,
           Appends(w, kind, data, bytes, pc, since)
    PROVE  LinkInv'
<1> DEFINE e == NewEntry(w, kind, data, bytes)
<1>1. SUFFICES ASSUME Sound' PROVE LinkInv'
  BY DEF LinkInv, AloneInv, ChainInv, HeadInv
<1>2. /\ w \in Writers /\ Sound /\ e \in Lines' /\ IsHashed(e)
      /\ Ahead(w) \in Files(Lines') /\ Ahead(w).nl /\ Chained(Ahead(w)) /\ Continues(Ahead(w), e)
      /\ Grown(Ahead(w)', Ahead(w), e) /\ Ahead(w)'.nl
      /\ \A v \in Writers \ {w} : buffer[v] = <<>> /\ Ahead(v) = file /\ Ahead(v)' = file'
      /\ file' = Ahead(w) \/ file' = Ahead(w)'
  BY <1>1, AppendsSound DEF LinkInv
<1>3. Appended(w, e, pc, since)
  BY AppendShape
<1>4. e.hash = serial + 1
  BY DEF NewEntry, Entry
<1> HIDE DEF e
<1>5. size \in Nat /\ \A v \in Writers : writer[v] \in WriterFields
  BY TypeParts
<1>6. writer'[w].lastSize = size' /\ writer'[w].head = serial + 1
  BY <1>3 DEF Appended, Advanced
<1>7. \A v \in Writers \ {w} : writer'[v] = writer[v] /\ buffer'[v] = <<>>
  BY <1>2, <1>3 DEF Appended
<1>8. Chained(Ahead(w)') /\ Hashed(Ahead(w)') = Hashed(Ahead(w)) \cup {Len(Ahead(w).lines) + 1}
  BY <1>2, GrownChained, GrownSets
<1>9. AtTail(Ahead(w)', serial + 1)
  <2>1. /\ Len(Ahead(w)'.lines) = Len(Ahead(w).lines) + 1
        /\ Ahead(w)'.lines[Len(Ahead(w).lines) + 1] = e
    BY <1>2, GrownProperties
  <2>2. QED
    BY <1>2, <1>4, <1>8, <2>1 DEF AtTail
<1>10. AloneInv'
  BY <1>6, <1>7 DEF AloneInv
<1>11. ChainInv'
  BY <1>2, <1>8 DEF ChainInv
<1>12. Hashed(file) \subseteq Hashed(file')
  <2>1. Hashed(file) \subseteq Hashed(Ahead(w))
    <3>1. file.nl
      BY <1>1, <1>2, <1>3, NothingHidden DEF Sound, Broken, Appended
    <3>2. QED
      BY <1>2, <3>1, AheadGrows
  <2>2. QED
    BY <1>2, <1>8, <2>1
<1>13. HeadInv'
  <2>1. SUFFICES ASSUME NEW v \in Writers
                 PROVE  /\ writer'[v].lastSize = size' => AtTail(Ahead(v)', writer'[v].head)
                        /\ writer'[v].pc \in {"open", "sealing"} => Hashed(Ahead(v)') # {}
    BY DEF HeadInv
  <2>2. CASE v = w
    BY <1>6, <1>8, <1>9, <2>2
  <2>3. CASE v # w
    <3>1. writer'[v] = writer[v] /\ writer[v].lastSize <= size /\ writer[v].lastSize \in Int
      BY <1>5, <1>7, <2>3 DEF PlaceInv, WriterFields
    <3>2. writer[v].lastSize = size' => file' = file /\ size' = size
      BY <1>3, <1>5, <3>1 DEF Appended
    <3>3. Ahead(v) = file /\ Ahead(v)' = file'
      BY <1>2, <2>3
    <3>4. QED
      BY <1>2, <1>12, <3>1, <3>2, <3>3 DEF LinkInv, HeadInv
  <2>4. QED
    BY <2>2, <2>3
<1>14. QED
  BY <1>10, <1>11, <1>13 DEF LinkInv

LEMMA LinkStep ==
    ASSUME TypeOK, PlaceInv, LinkInv, [Next]_vars
    PROVE  LinkInv'
<1>1. CASE UNCHANGED vars
  BY <1>1 DEF vars, LinkInv, AloneInv, ChainInv, HeadInv, Sound, Ahead
<1>2. CASE Next
  BY <1>2, StepCases, LinkOpen, LinkClose, LinkCrash, LinkAppends
<1>3. QED
  BY <1>1, <1>2

-------------------------------------------------------------------------------
(* Seals and counts                                                           *)

LEMMA CountsGrow ==
    ASSUME NEW S, NEW f \in Files(S), NEW l \in S, NEW g, Grown(g, f, l), NEW n \in Nat,
           Counts(f, n)
    PROVE  Counts(g, n)
<1>1. PICK h \in Headers(f) : (\A m \in Headers(f) : h <= m) /\ n + h <= Len(f.lines) + 1
  BY DEF Counts
<1>2. /\ Len(f.lines) \in Nat /\ Headers(f) \subseteq 1..Len(f.lines)
      /\ Len(g.lines) = Len(f.lines) + 1
      /\ Headers(g) \subseteq Headers(f) \cup {Len(f.lines) + 1} /\ Headers(f) \subseteq Headers(g)
  BY LinesAreNumbered, GrownProperties, GrownSets
<1>3. h \in 1..Len(f.lines) /\ n + h <= Len(g.lines) + 1 /\ h \in Headers(g)
  BY <1>1, <1>2
<1>4. ASSUME NEW m \in Headers(g) PROVE h <= m
  BY <1>1, <1>2, <1>3, <1>4
<1>5. QED
  BY <1>3, <1>4 DEF Counts

\* A seal may come last if it attests no more than a count of what is before it.
LEMMA SealsGrown ==
    ASSUME NEW S, NEW f \in Files(S), NEW l \in S, NEW g, Grown(g, f, l), Chained(f),
           SealsBehind(f), IsHashed(l) /\ IsSeal(l) => Counts(f, l.data)
    PROVE  SealsBehind(g)
<1>1. /\ Len(f.lines) \in Nat /\ Hashed(f) \subseteq 1..Len(f.lines)
      /\ Headers(f) \subseteq 1..Len(f.lines)
      /\ g.lines[Len(f.lines) + 1] = l /\ \A n \in 1..Len(f.lines) : g.lines[n] = f.lines[n]
      /\ Headers(g) \subseteq Headers(f) \cup {Len(f.lines) + 1} /\ Headers(f) \subseteq Headers(g)
  BY LinesAreNumbered, GrownProperties, GrownSets
<1>2. SUFFICES ASSUME NEW n \in Hashed(g), NEW h \in Headers(g), IsSeal(g.lines[n])
               PROVE  \E m \in Headers(g) : m <= h /\ g.lines[n].data + m <= n
  BY DEF SealsBehind
<1>3. Hashed(g) = IF IsHashed(l) THEN Hashed(f) \cup {Len(f.lines) + 1} ELSE Hashed(f)
  BY GrownSets
<1>4. CASE n \in Hashed(f)
  <2>1. n \in 1..Len(f.lines) /\ g.lines[n] = f.lines[n]
    BY <1>1, <1>4
  <2>2. CASE h \in Headers(f)
    BY <1>1, <1>2, <1>4, <2>1, <2>2 DEF SealsBehind
  <2>3. CASE h = Len(f.lines) + 1
    <3>1. PICK k \in Headers(f) : k <= n
      BY <1>4 DEF Chained, HashedLast
    <3>2. PICK m \in Headers(f) : m <= k /\ f.lines[n].data + m <= n
      BY <1>2, <1>4, <2>1 DEF SealsBehind
    <3>3. m \in 1..Len(f.lines) /\ m \in Headers(g)
      BY <1>1
    <3>4. m <= h
      BY <1>1, <2>3, <3>3
    <3>5. QED
      BY <2>1, <3>2, <3>3, <3>4
  <2>4. QED
    BY <1>1, <2>2, <2>3
<1>5. CASE n \notin Hashed(f)
  <2>1. n = Len(f.lines) + 1 /\ IsHashed(l) /\ g.lines[n] = l
    BY <1>1, <1>3, <1>5
  <2>2. Counts(f, l.data)
    BY <1>2, <2>1
  <2>3. PICK m \in Headers(f) : /\ \A k \in Headers(f) : m <= k
                                /\ l.data + m <= Len(f.lines) + 1
    BY <2>2 DEF Counts
  <2>4. m \in 1..Len(f.lines) /\ m \in Headers(g)
    BY <1>1
  <2>5. m <= h
    BY <1>1, <2>3, <2>4
  <2>6. QED
    BY <2>1, <2>3, <2>4, <2>5
<1>6. QED
  BY <1>4, <1>5

\* What is verified of a chained file: its lines from the first header on.
LEMMA ChainShape ==
    ASSUME NEW f \in Files(Lines), Chained(f), Headers(f) # {}, ~f.nl => f.lines # <<>>
    PROVE  LET p == Min(Headers(f))
               n == Len(Parsed(f))
           IN  /\ n \in Nat /\ n <= Len(f.lines) /\ ReadRaw(f) = 1..n
               /\ p \in Headers(f) /\ (\A h \in Headers(f) : p <= h) /\ Hashed(f) = p..n
               /\ Len(Chain(f)) = n - p + 1
               /\ \A m \in 1..n : IsEntry(Parsed(f)[m])
               /\ \A m \in 1..Len(Chain(f)) : Chain(f)[m] = f.lines[m + p - 1]
<1> DEFINE p == Min(Headers(f))
           n == Len(Parsed(f))
           N == Len(f.lines)
<1>1. /\ N \in Nat /\ DOMAIN f.lines = 1..N /\ f.lines \in Seq(Lines)
      /\ ReadRaw(f) \in SUBSET (1..N) /\ Hashed(f) \in SUBSET ReadRaw(f)
      /\ Headers(f) \in SUBSET ReadRaw(f)
  BY LinesAreNumbered DEF Files
<1>2. /\ Parsed(f) \in Seq(Lines) /\ n \in Nat /\ n <= N /\ ReadRaw(f) = 1..n
      /\ \A m \in 1..n : Parsed(f)[m] = f.lines[m] /\ IsEntry(f.lines[m])
  <2>1. \A m \in 1..N : m < N => IsEntry(f.lines[m])
    BY <1>1 DEF Chained, Whole
  <2>2. CASE f.lines # <<>> /\ ~IsEntry(Last(f.lines))
    <3>1. N >= 1 /\ Last(f.lines) = f.lines[N]
      BY <1>1, <2>2 DEF Last
    <3>2. Parsed(f) = SubSeq(f.lines, 1, N - 1)
      BY <2>2 DEF Parsed, Front
    <3>3. /\ Parsed(f) \in Seq(Lines) /\ n = N - 1
          /\ \A m \in 1..(N - 1) : Parsed(f)[m] = f.lines[m]
      BY <1>1, <3>1, <3>2
    <3>4. ReadRaw(f) = 1..(N - 1)
      <4>1. \A m \in 1..N : IsEntry(f.lines[m]) <=> m \in 1..(N - 1)
        BY <1>1, <2>1, <2>2, <3>1
      <4>2. QED
        BY <1>1, <3>1, <4>1 DEF ReadRaw
    <3>5. \A m \in 1..(N - 1) : IsEntry(f.lines[m])
      BY <1>1, <2>1
    <3>6. n \in Nat /\ n <= N
      BY <1>1, <3>1, <3>3
    <3>7. QED
      BY <3>3, <3>4, <3>5, <3>6
  <2>3. CASE ~(f.lines # <<>> /\ ~IsEntry(Last(f.lines)))
    <3>1. Parsed(f) = f.lines
      BY <2>3 DEF Parsed
    <3>2. \A m \in 1..N : IsEntry(f.lines[m])
      BY <1>1, <2>1, <2>3 DEF Last
    <3>3. ReadRaw(f) = 1..N
      BY <1>1, <3>2 DEF ReadRaw
    <3>4. QED
      BY <1>1, <3>1, <3>2, <3>3
  <2>4. QED
    BY <2>2, <2>3
<1>3. p \in Headers(f) /\ \A h \in Headers(f) : p <= h
  <2>1. Headers(f) \in SUBSET Nat
    BY <1>1
  <2>2. QED
    BY <2>1, MinIsLeast
<1>4. Chain(f) = SubSeq(Parsed(f), p, n)
  BY DEF Chain
<1> HIDE DEF p, n
<1>5. p \in 1..n
  BY <1>1, <1>2, <1>3
<1>6. Hashed(f) = p..n
  <2>1. p \in Hashed(f)
    BY <1>3 DEF Chained, HashedLast
  <2>2. ASSUME NEW m \in p..n PROVE m \in Hashed(f)
    <3>1. m \in ReadRaw(f)
      BY <1>2, <1>5, <2>2
    <3>2. CASE p < m
      BY <2>1, <3>1, <3>2 DEF Chained, HashedLast
    <3>3. QED
      BY <1>5, <2>1, <2>2, <3>2
  <2>3. ASSUME NEW m \in Hashed(f) PROVE m \in p..n
    <3>1. m \in 1..n
      BY <1>1, <1>2, <2>3
    <3>2. PICK h \in Headers(f) : h <= m
      BY <2>3 DEF Chained, HashedLast
    <3>3. h \in 1..n /\ p <= h
      BY <1>1, <1>2, <1>3
    <3>4. QED
      BY <1>2, <1>5, <3>1, <3>2, <3>3
  <2>4. QED
    BY <2>2, <2>3
<1>7. /\ Len(Chain(f)) = n - p + 1
      /\ \A m \in 1..Len(Chain(f)) : Chain(f)[m] = f.lines[m + p - 1]
  <2>1. Len(Parsed(f)) = n
    BY DEF n
  <2>2. Len(Chain(f)) = n - p + 1 /\ \A m \in 1..(n - p + 1) : Chain(f)[m] = Parsed(f)[p + m - 1]
    BY <1>2, <1>4, <1>5, <2>1
  <2>3. \A m \in 1..(n - p + 1) : p + m - 1 \in 1..n /\ p + m - 1 = m + p - 1
    BY <1>2, <1>5
  <2>4. QED
    BY <1>2, <2>2, <2>3
<1>8. QED
  BY <1>2, <1>3, <1>6, <1>7 DEF p, n

LEMMA ChainedLinks ==
    ASSUME NEW f \in Files(Lines), Chained(f), Headers(f) # {}, ~f.nl => f.lines # <<>>
    PROVE  Links(f)
<1> DEFINE p == Min(Headers(f))
           n == Len(Parsed(f))
           es == Chain(f)
<1>1. /\ n \in Nat /\ ReadRaw(f) = 1..n /\ p \in Headers(f) /\ (\A h \in Headers(f) : p <= h)
      /\ Hashed(f) = p..n /\ Len(es) = n - p + 1 /\ \A m \in 1..n : IsEntry(Parsed(f)[m])
      /\ \A m \in 1..Len(es) : es[m] = f.lines[m + p - 1]
  BY ChainShape
<1>2. p \in 1..n
  BY <1>1, LinesAreNumbered
<1> HIDE DEF p, n, es
<1>3. ASSUME NEW m \in 1..Len(es)
      PROVE  es[m].prev = (IF m = 1 THEN Genesis(es[1].data) ELSE es[m - 1].hash)
  <2>1. m + p - 1 \in Hashed(f)
    BY <1>1, <1>2, <1>3
  <2>2. CASE m = 1
    <3>1. p \in Hashed(f) /\ p - 1 \notin Hashed(f)
      BY <1>1, <1>2, <2>1, <2>2
    <3>2. f.lines[p].prev = Genesis(f.lines[p].data)
      BY <3>1 DEF Chained, Linked
    <3>3. 1 \in 1..Len(es) /\ 1 + p - 1 = p
      BY <1>2, <1>3, <2>2
    <3>4. es[1] = f.lines[p]
      BY <1>1, <3>3
    <3>5. QED
      BY <2>2, <3>2, <3>4
  <2>3. CASE m # 1
    <3> DEFINE k == m + p - 1
    <3>1. k \in Hashed(f) /\ es[m] = f.lines[k]
      BY <1>1, <1>3, <2>1
    <3>2. m - 1 \in 1..Len(es) /\ k - 1 = (m - 1) + p - 1
      BY <1>1, <1>2, <1>3, <2>3
    <3>3. k - 1 \in p..n
      BY <1>1, <1>2, <1>3, <2>3
    <3>4. es[m - 1] = f.lines[k - 1]
      BY <1>1, <3>2
    <3> HIDE DEF k
    <3>5. f.lines[k].prev = f.lines[k - 1].hash
      BY <1>1, <3>1, <3>3 DEF Chained, Linked
    <3>6. QED
      BY <2>3, <3>1, <3>4, <3>5
  <2>4. QED
    BY <2>2, <2>3
<1>4. QED
  BY <1>1, <1>3 DEF Links, n, es

LEMMA ChainedSeals ==
    ASSUME NEW f \in Files(Lines), Chained(f), Headers(f) # {}, ~f.nl => f.lines # <<>>,
           SealsBehind(f), serial \in Nat
    PROVE  SealsAgree(f)
<1> DEFINE p == Min(Headers(f))
           n == Len(Parsed(f))
           es == Chain(f)
<1>1. /\ n \in Nat /\ ReadRaw(f) = 1..n /\ p \in Headers(f) /\ (\A h \in Headers(f) : p <= h)
      /\ Hashed(f) = p..n /\ Len(es) = n - p + 1
      /\ \A m \in 1..Len(es) : es[m] = f.lines[m + p - 1]
  BY ChainShape
<1>2. p \in 1..n /\ Headers(f) \subseteq 1..n
  BY <1>1, LinesAreNumbered
<1> HIDE DEF p, n, es
<1>3. ASSUME NEW m \in 1..Len(es), IsSeal(es[m]) PROVE es[m].data <= Len(es)
  <2>1. m + p - 1 \in Hashed(f) /\ es[m] = f.lines[m + p - 1]
    BY <1>1, <1>2, <1>3
  <2>2. PICK g \in Headers(f) : g <= p /\ es[m].data + g <= m + p - 1
    BY <1>1, <1>3, <2>1 DEF SealsBehind
  <2>3. g = p
    BY <1>1, <1>2, <2>2
  <2>4. f.lines[m + p - 1] \in Entries
    <3>1. m + p - 1 \in ReadRaw(f)
      BY <2>1, LinesAreNumbered
    <3>2. QED
      BY <3>1, LineType
  <2>5. es[m].data \in Int
    BY <2>1, <2>4 DEF Entries, EntriesOf, Hashes
  <2>6. QED
    BY <1>1, <1>2, <1>3, <2>2, <2>3, <2>5
<1>4. QED
  BY <1>3 DEF SealsAgree, es

\* The part of CountInv that is about one writer.
CountOf(w) == /\ SealsBehind(Ahead(w))
              /\ writer[w].pc \in {"open", "sealing"} => Counts(Ahead(w), writer[w].count)

LEMMA CountOpen ==
    ASSUME TypeOK, PlaceInv, LinkInv, CountInv, NEW w \in Writers, Open(w)
    PROVE  CountInv'
<1>1. SUFFICES ASSUME Sound', "prefix" \notin gaps'
               PROVE  SealsBehind(file') /\ \A v \in Writers : CountOf(v)'
  BY DEF CountInv, CountOf
<1>2. /\ file' = file /\ buffer' = buffer /\ buffer[w] = <<>>
      /\ writer \in [Writers -> WriterFields] /\ file \in Files(Lines)
      /\ ~file.nl => file.lines # <<>>
  BY TypeParts DEF Open, PlaceInv
<1>3. Sound /\ "prefix" \notin gaps
  <2>1. gaps \subseteq gaps'
    BY DEF Open
  <2>2. QED
    BY <1>1, <2>1 DEF Sound
<1>4. SealsBehind(file) /\ (\A v \in Writers : CountOf(v)) /\ Chained(file)
  BY <1>3 DEF CountInv, CountOf, LinkInv, ChainInv
<1>5. \A v \in Writers : Ahead(v)' = Ahead(v)
  BY <1>2 DEF Ahead
<1>6. \A v \in Writers \ {w} : writer'[v] = writer[v]
  BY <1>2 DEF Open
<1>7. writer'[w].pc \in {"open", "sealing"} => Counts(file, writer'[w].count)
  <2>1. CASE Headers(file) # {} /\ file.lines[Max(ReadRaw(file))].hash # NoHash
    <3> DEFINE p == Min(Headers(file))
               n == Len(Parsed(file))
    <3>1. \E c, h : writer'[w] = Fields("open", c, h, Cardinality(ReadRaw(file)))
      BY <1>2, <2>1 DEF Open, BootstrapCount
    <3>2. ~(Cardinality(ReadRaw(file)) > Len(Chain(file)))
      BY <1>1, <2>1 DEF Open
    <3>3. /\ n \in Nat /\ n <= Len(file.lines) /\ ReadRaw(file) = 1..n /\ p \in Headers(file)
          /\ \A h \in Headers(file) : p <= h
          /\ Len(Chain(file)) = n - p + 1
      BY <1>2, <1>4, <2>1, ChainShape
    <3>4. p \in 1..n /\ Len(file.lines) \in Nat
      BY <1>2, <3>3, LinesAreNumbered
    <3> HIDE DEF p, n
    <3>5. Cardinality(ReadRaw(file)) = n
      BY <3>3, <3>4, FS_Interval
    <3>6. n + p <= Len(file.lines) + 1
      BY <3>2, <3>3, <3>4, <3>5
    <3>7. Counts(file, n)
      BY <3>3, <3>6 DEF Counts
    <3>8. QED
      BY <3>1, <3>5, <3>7 DEF Fields
  <2>2. CASE ~(Headers(file) # {} /\ file.lines[Max(ReadRaw(file))].hash # NoHash)
    <3>1. writer'[w] = Fields("new", serial + 1, Genesis(serial + 1), 0)
      BY <1>2, <2>2 DEF Open
    <3>2. QED
      BY <3>1 DEF Fields
  <2>3. QED
    BY <2>1, <2>2
<1>8. ASSUME NEW v \in Writers PROVE CountOf(v)'
  <2>1. CASE v = w
    <3>1. Ahead(w) = file
      BY <1>2, AheadType
    <3>2. QED
      BY <1>4, <1>5, <1>7, <2>1, <3>1 DEF CountOf
  <2>2. CASE v # w
    BY <1>4, <1>5, <1>6, <2>2 DEF CountOf
  <2>3. QED
    BY <2>1, <2>2
<1>9. QED
  BY <1>2, <1>4, <1>8

LEMMA CountClose ==
    ASSUME TypeOK, PlaceInv, LinkInv, CountInv, NEW w \in Writers, Close(w)
    PROVE  CountInv'
<1>1. SUFFICES ASSUME Sound', "prefix" \notin gaps'
               PROVE  SealsBehind(file') /\ \A v \in Writers : CountOf(v)'
  BY DEF CountInv, CountOf
<1>2. /\ Stopped(w) /\ file' = Ahead(w) /\ (buffer[w] = <<>> => file' = file) /\ gaps' = gaps
  BY CloseType
<1>3. /\ writer \in [Writers -> WriterFields] /\ buffer \in [Writers -> Seq(Entries)]
      /\ file \in Files(Lines) /\ \A v \in Writers : writer[v].count \in Nat
  BY TypeParts DEF WriterFields
<1>4. writer'[w].pc = "closed" /\ buffer'[w] = <<>>
      /\ \A v \in Writers \ {w} : writer'[v] = writer[v] /\ buffer'[v] = buffer[v]
  BY <1>2, <1>3 DEF Stopped, Closed, Fields
<1>5. Sound /\ "prefix" \notin gaps
  BY <1>1, <1>2 DEF Sound
<1>6. SealsBehind(file) /\ (\A v \in Writers : CountOf(v)) /\ AloneInv
  BY <1>5 DEF CountInv, CountOf, LinkInv
<1>7. SealsBehind(file')
  BY <1>2, <1>6 DEF CountOf
<1>8. Ahead(w)' = file'
  BY <1>4, AppendNone DEF Ahead
<1>9. ASSUME NEW v \in Writers, v # w PROVE CountOf(v)'
  <2>1. CASE buffer[w] = <<>>
    <3>1. Ahead(v)' = Ahead(v)
      BY <1>2, <1>4, <1>9, <2>1 DEF Ahead
    <3>2. QED
      BY <1>4, <1>6, <1>9, <3>1 DEF CountOf
  <2>2. CASE buffer[w] # <<>>
    <3>1. buffer[v] = <<>> /\ file.nl
      BY <1>5, <1>6, <1>9, <2>2 DEF AloneInv, PlaceInv
    <3>2. Ahead(v) = file /\ Ahead(v)' = file'
      BY <1>4, <1>9, <3>1, AppendNone DEF Ahead
    <3>3. Grown(file', file, buffer[w][1]) /\ buffer[w][1] \in Lines
      BY <1>2, <2>2, <3>1, AheadGrows
    <3>4. Counts(file, writer[v].count) => Counts(file', writer[v].count)
      BY <1>3, <3>3, CountsGrow
    <3>5. QED
      BY <1>4, <1>6, <1>7, <1>9, <3>2, <3>4 DEF CountOf
  <2>3. QED
    BY <2>1, <2>2
<1>10. CountOf(w)'
  BY <1>4, <1>7, <1>8 DEF CountOf
<1>11. QED
  BY <1>7, <1>9, <1>10

LEMMA CountCrash ==
    ASSUME TypeOK, PlaceInv, LinkInv, CountInv, NEW w \in Writers, Crash(w)
    PROVE  CountInv'
<1>1. SUFFICES ASSUME Sound', "prefix" \notin gaps'
               PROVE  SealsBehind(file') /\ \A v \in Writers : CountOf(v)'
  BY DEF CountInv, CountOf
<1>2. Stopped(w) /\ (UNCHANGED <<file, size, serial, gaps>> \/ \E u : TornBy(w, u))
  BY CrashShape
<1>3. /\ writer \in [Writers -> WriterFields] /\ buffer \in [Writers -> Seq(Entries)]
      /\ file \in Files(Lines) /\ \A v \in Writers : writer[v].count \in Nat
  BY TypeParts DEF WriterFields
<1>4. writer'[w].pc = "closed" /\ buffer'[w] = <<>>
      /\ \A v \in Writers \ {w} : writer'[v] = writer[v] /\ buffer'[v] = buffer[v]
  BY <1>2, <1>3 DEF Stopped, Closed, Fields
<1>5. CASE UNCHANGED <<file, size, serial, gaps>>
  <2>1. SealsBehind(file) /\ (\A v \in Writers : CountOf(v))
    BY <1>1, <1>5 DEF Sound, CountInv, CountOf
  <2>2. Ahead(w)' = file /\ \A v \in Writers \ {w} : Ahead(v)' = Ahead(v)
    BY <1>4, <1>5, AppendNone DEF Ahead
  <2>3. QED
    BY <1>4, <1>5, <2>1, <2>2 DEF CountOf
<1>6. ASSUME NEW u, TornBy(w, u) PROVE SealsBehind(file') /\ \A v \in Writers : CountOf(v)'
  <2>1. /\ Sound /\ file \in Files(Lines') /\ u \in Lines' /\ Junk \in Lines'
        /\ Chained(file)
        /\ Grown(file', file, Junk) \/ Grown(file', file, u)
        /\ \A v \in Writers : Ahead(v) = file /\ Ahead(v)' = file'
    BY <1>1, <1>2, <1>6, TornSound DEF LinkInv
  <2>2. "prefix" \notin gaps
    BY <1>1, <1>6 DEF TornBy
  <2>3. SealsBehind(file) /\ (\A v \in Writers : CountOf(v))
    BY <2>1, <2>2 DEF CountInv, CountOf
  <2>4. \A v \in Writers : writer[v].pc \in {"open", "sealing"} => Counts(file, writer[v].count)
    BY <2>1, <2>3 DEF CountOf
  <2>5. ~IsHashed(Junk)
    BY DEF IsHashed, IsEntry, Junk
  <2>6. IsSeal(u) => Counts(file, u.data)
    BY <1>6, <2>4 DEF TornBy, NewEntry, Entry, IsSeal
  <2>7. PICK l \in Lines' : Grown(file', file, l) /\ (l = Junk \/ l = u)
    BY <2>1
  <2>8. SealsBehind(file')
    <3>1. IsHashed(l) /\ IsSeal(l) => Counts(file, l.data)
      BY <2>5, <2>6, <2>7
    <3>2. QED
      BY <2>1, <2>3, <2>7, <3>1, SealsGrown
  <2>9. \A v \in Writers : Counts(file, writer[v].count) => Counts(file', writer[v].count)
    BY <1>3, <2>1, <2>7, CountsGrow
  <2>10. QED
    BY <1>4, <2>1, <2>4, <2>8, <2>9 DEF CountOf
<1>7. QED
  BY <1>2, <1>5, <1>6

LEMMA CountAppends ==
    ASSUME TypeOK, PlaceInv, LinkInv, CountInv, NEW w, NEW kind, NEW data, NEW bytes, NEW pc,
           NEW since, Appends(w, kind, data, bytes, pc, since)
    PROVE  CountInv'
<1> DEFINE e == NewEntry(w, kind, data, bytes)
<1>1. SUFFICES ASSUME Sound', "prefix" \notin gaps'
               PROVE  SealsBehind(file') /\ \A v \in Writers : CountOf(v)'
  BY DEF CountInv, CountOf
<1>2. /\ w \in Writers /\ Sound /\ e \in Lines' /\ IsHashed(e)
      /\ Ahead(w) \in Files(Lines') /\ Chained(Ahead(w)) /\ Grown(Ahead(w)', Ahead(w), e)
      /\ \A v \in Writers \ {w} : Ahead(v) = file /\ Ahead(v)' = file'
      /\ file' = Ahead(w) \/ file' = Ahead(w)'
  BY <1>1, AppendsSound DEF LinkInv
<1>3. Appended(w, e, pc, since)
  BY AppendShape
<1>4. /\ \/ writer[w].pc = "new" /\ kind = "header"
         \/ writer[w].pc \in {"open", "sealing"} /\ kind # "header"
      /\ kind = "seal" => data = writer[w].count
  BY DEF Appends
<1>5. e.kind = kind /\ e.data = data /\ IsEntry(e)
  BY DEF NewEntry, Entry, IsEntry
<1> HIDE DEF e
<1>6. "prefix" \notin gaps
  BY <1>1, <1>3 DEF Appended
<1>7. SealsBehind(file) /\ (\A v \in Writers : CountOf(v))
  BY <1>2, <1>6 DEF CountInv, CountOf
<1>8. \A v \in Writers : writer[v].count \in Nat
  BY TypeParts DEF WriterFields
<1>9. SealsBehind(Ahead(w)')
  <2>1. IsSeal(e) => Counts(Ahead(w), e.data)
    BY <1>2, <1>4, <1>5, <1>7 DEF IsSeal, CountOf
  <2>2. SealsBehind(Ahead(w))
    BY <1>2, <1>7 DEF CountOf
  <2>3. QED
    BY <1>2, <2>1, <2>2, SealsGrown
<1>10. SealsBehind(file')
  BY <1>2, <1>7, <1>9 DEF CountOf
<1>11. Counts(Ahead(w)', writer[w].count + 1)
  <2>1. /\ Len(Ahead(w).lines) \in Nat /\ Len(Ahead(w)'.lines) = Len(Ahead(w).lines) + 1
        /\ Headers(Ahead(w)) \subseteq 1..Len(Ahead(w).lines)
        /\ Headers(Ahead(w)') = IF IsHeader(e) THEN Headers(Ahead(w)) \cup {Len(Ahead(w).lines) + 1}
                                ELSE Headers(Ahead(w))
    BY <1>2, LinesAreNumbered, GrownProperties, GrownSets
  <2>2. CASE writer[w].pc = "new"
    <3> DEFINE H == Headers(Ahead(w)')
    <3>1. IsHeader(e) /\ writer[w].count = 0
      BY <1>2, <1>4, <1>5, <2>2 DEF IsHeader, PlaceInv
    <3>2. H \in SUBSET Nat /\ H # {} /\ \A m \in H : m <= Len(Ahead(w)'.lines)
      BY <2>1, <3>1
    <3>3. Min(H) \in H /\ \A m \in H : Min(H) <= m
      BY <3>2, MinIsLeast
    <3>4. 0 + 1 + Min(H) <= Len(Ahead(w)'.lines) + 1
      BY <2>1, <3>2, <3>3
    <3>5. QED
      BY <3>1, <3>3, <3>4 DEF Counts
  <2>3. CASE writer[w].pc # "new"
    <3>1. Headers(Ahead(w)') = Headers(Ahead(w)) /\ Counts(Ahead(w), writer[w].count)
      BY <1>2, <1>4, <1>5, <1>7, <2>1, <2>3 DEF IsHeader, CountOf
    <3>2. PICK h \in Headers(Ahead(w)) : /\ \A m \in Headers(Ahead(w)) : h <= m
                                         /\ writer[w].count + h <= Len(Ahead(w).lines) + 1
      BY <3>1 DEF Counts
    <3>3. h \in Nat
      BY <2>1
    <3>4. writer[w].count + 1 + h <= Len(Ahead(w)'.lines) + 1
      BY <1>2, <1>8, <2>1, <3>2, <3>3
    <3>5. QED
      BY <3>1, <3>2, <3>4 DEF Counts
  <2>4. QED
    BY <2>2, <2>3
<1>12. ASSUME NEW v \in Writers PROVE CountOf(v)'
  <2>1. CASE v = w
    <3>1. writer'[w].count = writer[w].count + 1
      BY <1>3 DEF Appended, Advanced
    <3>2. QED
      BY <1>9, <1>11, <2>1, <3>1 DEF CountOf
  <2>2. CASE v # w
    <3>1. writer'[v] = writer[v] /\ Ahead(v) = file /\ Ahead(v)' = file'
      BY <1>2, <1>3, <2>2 DEF Appended
    <3>2. Counts(file, writer[v].count) => Counts(Ahead(w), writer[v].count)
      <4>1. CASE buffer[w] = <<>>
        BY <1>2, <4>1, AheadType
      <4>2. CASE buffer[w] # <<>>
        <5>1. file.nl /\ file \in Files(Lines)
          BY <1>2, <4>2, TypeParts DEF PlaceInv
        <5>2. Grown(Ahead(w), file, buffer[w][1]) /\ buffer[w][1] \in Lines
          BY <1>2, <4>2, <5>1, AheadGrows
        <5>3. QED
          BY <1>8, <5>1, <5>2, CountsGrow
      <4>3. QED
        BY <4>1, <4>2
    <3>3. Counts(Ahead(w), writer[v].count) => Counts(Ahead(w)', writer[v].count)
      BY <1>2, <1>8, CountsGrow
    <3>4. QED
      BY <1>2, <1>7, <1>10, <2>2, <3>1, <3>2, <3>3 DEF CountOf
  <2>3. QED
    BY <2>1, <2>2
<1>13. QED
  BY <1>10, <1>12

LEMMA CountStep ==
    ASSUME TypeOK, PlaceInv, LinkInv, CountInv, [Next]_vars
    PROVE  CountInv'
<1>1. CASE UNCHANGED vars
  BY <1>1 DEF vars, CountInv, Sound, Ahead
<1>2. CASE Next
  BY <1>2, StepCases, CountOpen, CountClose, CountCrash, CountAppends
<1>3. QED
  BY <1>1, <1>2

-------------------------------------------------------------------------------
(* What was acknowledged, where every call hands its entry over               *)

LEMMA NoBuffers ==
    ASSUME TypeOK, PlaceInv, Durability # "os", NEW w \in Writers
    PROVE  buffer[w] = <<>> /\ Ahead(w) = file
BY AheadType DEF PlaceInv

\* A new line has a hash that no line before it has, or none at all.
LEMMA HashesGrow ==
    ASSUME TypeOK, NEW S, file \in Files(S), NEW l \in S, NEW g, Grown(g, file, l),
           l = Junk \/ (IsHashed(l) /\ l.hash = serial + 1)
    PROVE  /\ \A n \in Hashed(file) : /\ n \in Hashed(g) /\ g.lines[n] = file.lines[n]
                                      /\ g.lines[n].hash \in 1..serial
           /\ \A n \in Hashed(g) :
                 \/ n \in Hashed(file)
                 \/ n = Len(file.lines) + 1 /\ l # Junk /\ g.lines[n].hash = serial + 1
           /\ l # Junk => Len(file.lines) + 1 \in Hashed(g)
                          /\ g.lines[Len(file.lines) + 1].hash = serial + 1
<1>1. /\ Len(file.lines) \in Nat /\ Hashed(file) \subseteq 1..Len(file.lines)
      /\ Hashed(file) \subseteq ReadRaw(file)
      /\ g.lines[Len(file.lines) + 1] = l
      /\ \A n \in 1..Len(file.lines) : g.lines[n] = file.lines[n]
      /\ Hashed(g) = IF IsHashed(l) THEN Hashed(file) \cup {Len(file.lines) + 1} ELSE Hashed(file)
  BY LinesAreNumbered, GrownProperties, GrownSets
<1>2. ~IsHashed(Junk)
  BY DEF IsHashed, IsEntry, Junk
<1>3. ASSUME NEW n \in Hashed(file) PROVE file.lines[n].hash \in 1..serial
  <2>1. file.lines[n] \in Entries /\ serial \in Nat
    BY <1>1, LineType, TypeParts
  <2>2. file.lines[n].hash \in Hashes
    BY <2>1 DEF Entries, EntriesOf
  <2>3. file.lines[n].hash # NoHash
    BY DEF Hashed, IsHashed
  <2>4. QED
    BY <2>1, <2>2, <2>3 DEF Hashes, NoHash
<1>4. QED
  BY <1>1, <1>2, <1>3

LEMMA AckGrown ==
    ASSUME TypeOK, AckInv, NEW S, file \in Files(S), NEW l \in S, Grown(file', file, l),
           "glued" \notin gaps,
           \/ l = Junk /\ acked' = acked
           \/ IsHashed(l) /\ l.hash = serial + 1 /\ acked' \subseteq acked \cup {serial + 1}
    PROVE  AckInv'
<1>1. SUFFICES ASSUME Durability # "os"
               PROVE  /\ \A m, n \in Hashed(file') :
                            file'.lines[m].hash = file'.lines[n].hash => m = n
                      /\ \A h \in acked' : h # NoHash /\ \E n \in Hashed(file') : file'.lines[n].hash = h
  BY DEF AckInv
<1>2. /\ \A n \in Hashed(file) : /\ n \in Hashed(file') /\ file'.lines[n] = file.lines[n]
                                 /\ file'.lines[n].hash \in 1..serial
      /\ \A n \in Hashed(file') :
            \/ n \in Hashed(file)
            \/ n = Len(file.lines) + 1 /\ l # Junk /\ file'.lines[n].hash = serial + 1
      /\ l # Junk => Len(file.lines) + 1 \in Hashed(file')
                     /\ file'.lines[Len(file.lines) + 1].hash = serial + 1
  BY HashesGrow
<1>3. /\ \A m, n \in Hashed(file) : file.lines[m].hash = file.lines[n].hash => m = n
      /\ \A h \in acked : h # NoHash /\ \E n \in Hashed(file) : file.lines[n].hash = h
  BY <1>1 DEF AckInv
<1>4. serial \in Nat
  BY TypeParts
<1>5. ASSUME NEW m \in Hashed(file'), NEW n \in Hashed(file'),
             file'.lines[m].hash = file'.lines[n].hash
      PROVE  m = n
  <2>1. CASE m \in Hashed(file) /\ n \in Hashed(file)
    BY <1>2, <1>3, <1>5, <2>1
  <2>2. CASE m \notin Hashed(file) \/ n \notin Hashed(file)
    BY <1>2, <1>4, <1>5, <2>2
  <2>3. QED
    BY <2>1, <2>2
<1>6. ASSUME NEW h \in acked'
      PROVE  h # NoHash /\ \E n \in Hashed(file') : file'.lines[n].hash = h
  <2>1. CASE h \in acked
    BY <1>2, <1>3, <2>1
  <2>2. CASE h \notin acked
    <3>1. h = serial + 1 /\ l # Junk
      <4>1. ~IsHashed(Junk)
        BY DEF IsHashed, IsEntry, Junk
      <4>2. QED
        BY <1>6, <2>2, <4>1
    <3>2. QED
      BY <1>2, <1>4, <3>1 DEF NoHash
  <2>3. QED
    BY <2>1, <2>2
<1>7. QED
  BY <1>5, <1>6

LEMMA AckStep ==
    ASSUME TypeOK, PlaceInv, AckInv, [Next]_vars
    PROVE  AckInv'
<1>1. SUFFICES ASSUME Durability # "os", "glued" \notin gaps' PROVE AckInv'
  BY DEF AckInv
<1>2. serial \in Nat /\ file \in Files(Lines) /\ Junk \in Lines
  BY TypeParts DEF Lines
<1>3. CASE UNCHANGED vars
  BY <1>3 DEF vars, AckInv
<1>4. ASSUME NEW w \in Writers, Open(w) PROVE AckInv'
  <2>1. gaps \subseteq gaps' /\ file' = file /\ acked' = acked
    BY <1>4 DEF Open
  <2>2. QED
    BY <1>1, <2>1 DEF AckInv
<1>5. ASSUME NEW w \in Writers, Close(w) PROVE AckInv'
  <2>1. file' = file /\ gaps' = gaps /\ acked' = acked
    BY <1>1, <1>5, CloseType, NoBuffers DEF Stopped
  <2>2. QED
    BY <2>1 DEF AckInv
<1>6. ASSUME NEW w \in Writers, Crash(w) PROVE AckInv'
  <2>1. acked' = acked /\ (UNCHANGED <<file, size, serial, gaps>> \/ \E u : TornBy(w, u))
    BY <1>6, CrashShape DEF Stopped
  <2>2. CASE UNCHANGED <<file, size, serial, gaps>>
    BY <2>1, <2>2 DEF AckInv
  <2>3. ASSUME NEW u, TornBy(w, u) PROVE AckInv'
    <3>1. /\ gaps' = gaps \cup GapsOf(w) /\ serial' = serial + 1
          /\ u \in Entries' /\ IsHashed(u) /\ u.hash = serial + 1
          /\ file.nl => Grown(file', file, Junk) \/ Grown(file', file, u)
      BY <2>3 DEF TornBy
    <3>2. "glued" \notin gaps /\ file.nl
      BY <1>1, <3>1 DEF GapsOf
    <3>3. u \in Lines' /\ Junk \in Lines' /\ file \in Files(Lines')
      <4>1. serial' \in Nat /\ serial <= serial'
        BY <1>2, <3>1
      <4>2. QED
        BY <1>2, <3>1, <4>1, TypesGrow DEF Lines
    <3>4. CASE Grown(file', file, Junk)
      BY <2>1, <3>2, <3>3, <3>4, AckGrown
    <3>5. CASE Grown(file', file, u)
      BY <2>1, <3>1, <3>2, <3>3, <3>5, AckGrown
    <3>6. QED
      BY <3>1, <3>2, <3>4, <3>5
  <2>4. QED
    BY <2>1, <2>2, <2>3
<1>7. ASSUME NEW w, NEW kind, NEW data, NEW bytes, NEW pc, NEW since,
             Appends(w, kind, data, bytes, pc, since)
      PROVE  AckInv'
  <2> DEFINE e == NewEntry(w, kind, data, bytes)
  <2>1. Appended(w, e, pc, since)
    BY <1>7, AppendShape
  <2>2. /\ w \in Writers /\ kind \in {"header", "entry", "seal"} /\ data \in Nat
        /\ bytes \in {"small", "big"} /\ (kind = "header" => data = writer[w].cid)
    BY <1>7 DEF Appends
  <2>3. kind = "header" => data \in Hashes
    BY <2>2, TypeParts DEF WriterFields
  <2>4. e \in Entries' /\ e.hash = serial + 1 /\ IsHashed(e)
    BY <2>1, <2>2, <2>3, NewEntryType DEF Appended
  <2> HIDE DEF e
  <2>5. /\ gaps' = gaps \cup GapsOf(w) /\ serial' = serial + 1
        /\ acked' \subseteq acked \cup {serial + 1}
        /\ file' = AppendRecords(file, <<e>>)
    BY <1>1, <2>1, <2>2, NoBuffers DEF Appended
  <2>6. "glued" \notin gaps /\ file.nl
    BY <1>1, <2>5 DEF GapsOf
  <2>7. e \in Lines' /\ file \in Files(Lines')
    <3>1. serial' \in Nat /\ serial <= serial'
      BY <1>2, <2>5
    <3>2. QED
      BY <1>2, <2>4, <3>1, TypesGrow DEF Lines
  <2>8. Grown(file', file, e)
    BY <2>5, <2>6, <2>7, AppendOne
  <2>9. QED
    BY <2>4, <2>5, <2>6, <2>7, <2>8, AckGrown
<1>8. QED
  BY <1>3, <1>4, <1>5, <1>6, <1>7, StepCases

-------------------------------------------------------------------------------
(* Anchors                                                                    *)

\* The part of AnchorInv that is about one writer.
AnchorOf(w) ==
    \A n \in Hashed(file), h \in Headers(file) :
        /\ writer[w].pc # "closed" /\ file.lines[n].hash = writer[w].head
        /\ \A g \in Headers(file) : h <= g
        => writer[w].count + h = n + 1

\* A line that somebody else adds does not move a writer's head.
LEMMA AnchorKept ==
    ASSUME TypeOK, NEW S, file \in Files(S), NEW l \in S, Grown(file', file, l), Chained(file),
           l = Junk \/ (IsHashed(l) /\ l.hash = serial + 1),
           NEW v \in Writers, AnchorOf(v), writer'[v] = writer[v]
    PROVE  AnchorOf(v)'
<1>1. SUFFICES ASSUME NEW n \in Hashed(file'), NEW h \in Headers(file'),
                      writer[v].pc # "closed", file'.lines[n].hash = writer[v].head,
                      \A g \in Headers(file') : h <= g
               PROVE  writer[v].count + h = n + 1
  BY DEF AnchorOf
<1>2. serial \in Nat /\ writer[v].head \in Refs
  BY TypeParts DEF WriterFields
<1>3. /\ \A m \in Hashed(file) : file'.lines[m] = file.lines[m]
      /\ n \in Hashed(file) \/ file'.lines[n].hash = serial + 1
  BY HashesGrow
<1>4. n \in Hashed(file)
  BY <1>1, <1>2, <1>3 DEF Refs, Hashes
<1>5. h \in Headers(file)
  <2>1. /\ Len(file.lines) \in Nat /\ Headers(file) \subseteq 1..Len(file.lines)
        /\ Headers(file') \subseteq Headers(file) \cup {Len(file.lines) + 1}
        /\ Headers(file) \subseteq Headers(file')
    BY LinesAreNumbered, GrownSets
  <2>2. PICK g \in Headers(file) : g <= n
    BY <1>4 DEF Chained, HashedLast
  <2>3. h <= g
    BY <1>1, <2>1
  <2>4. QED
    BY <2>1, <2>2, <2>3
<1>6. \A g \in Headers(file) : h <= g
  BY <1>1, GrownSets
<1>7. QED
  BY <1>1, <1>3, <1>4, <1>5, <1>6 DEF AnchorOf

LEMMA AnchorOpen ==
    ASSUME TypeOK, PlaceInv, LinkInv, AckInv, AnchorInv, NEW w \in Writers, Open(w)
    PROVE  AnchorInv'
<1>1. SUFFICES ASSUME Durability # "os", gaps' = {}, NEW v \in Writers PROVE AnchorOf(v)'
  BY DEF AnchorInv, AnchorOf
<1>2. file' = file /\ gaps = {} /\ Sound /\ writer \in [Writers -> WriterFields]
      /\ file \in Files(Lines) /\ (~file.nl => file.lines # <<>>) /\ serial \in Nat
  <2>1. gaps \subseteq gaps' /\ file' = file
    BY DEF Open
  <2>2. gaps = {}
    BY <1>1, <2>1
  <2>3. QED
    BY <2>1, <2>2, TypeParts DEF Sound, PlaceInv
<1>3. AnchorOf(v) /\ Chained(file)
      /\ \A m, n \in Hashed(file) : file.lines[m].hash = file.lines[n].hash => m = n
  BY <1>1, <1>2 DEF AnchorInv, AnchorOf, LinkInv, ChainInv, AckInv
<1>4. CASE v # w
  <2>1. writer'[v] = writer[v]
    BY <1>2, <1>4 DEF Open
  <2>2. QED
    BY <1>2, <1>3, <2>1 DEF AnchorOf
<1>5. CASE v = w
  <2>1. CASE Headers(file) # {} /\ file.lines[Max(ReadRaw(file))].hash # NoHash
    <3> DEFINE p == Min(Headers(file))
               k == Len(Parsed(file))
    <3>1. \E c : writer'[w] = Fields("open", c, file.lines[Max(ReadRaw(file))].hash,
                                     Cardinality(ReadRaw(file)))
      BY <1>2, <2>1 DEF Open, BootstrapCount
    <3>2. ~(Cardinality(ReadRaw(file)) > Len(Chain(file)))
      BY <1>1, <2>1 DEF Open
    <3>3. /\ k \in Nat /\ k <= Len(file.lines) /\ ReadRaw(file) = 1..k /\ p \in Headers(file)
          /\ \A h \in Headers(file) : p <= h
          /\ Len(Chain(file)) = k - p + 1
      BY <1>2, <1>3, <2>1, ChainShape
    <3>4. p \in 1..k /\ Len(file.lines) \in Nat /\ Headers(file) \subseteq 1..k
      BY <1>2, <3>3, LinesAreNumbered
    <3> HIDE DEF p, k
    <3>5. Cardinality(ReadRaw(file)) = k
      BY <3>3, <3>4, FS_Interval
    <3>6. p = 1
      BY <3>2, <3>3, <3>4, <3>5
    <3>7. Max(ReadRaw(file)) = k
      <4>1. ReadRaw(file) \in SUBSET (1..k) /\ ReadRaw(file) # {} /\ k \in ReadRaw(file)
        BY <3>3, <3>4
      <4>2. Max(ReadRaw(file)) \in ReadRaw(file) /\ \A n \in ReadRaw(file) : n <= Max(ReadRaw(file))
        BY <3>3, <4>1, MaxIsGreatest
      <4>3. QED
        BY <3>3, <4>1, <4>2
    <3>8. k \in Hashed(file)
      <4>1. k \in ReadRaw(file)
        BY <3>3, <3>4
      <4>2. QED
        BY <2>1, <3>7, <4>1 DEF ReadRaw, Hashed, IsHashed
    <3>9. ASSUME NEW n \in Hashed(file), NEW h \in Headers(file),
                 file.lines[n].hash = writer'[w].head, \A g \in Headers(file) : h <= g
          PROVE  writer'[w].count + h = n + 1
      <4>1. writer'[w].head = file.lines[k].hash /\ writer'[w].count = k
        BY <3>1, <3>5, <3>7 DEF Fields
      <4>2. n = k
        BY <1>3, <3>8, <3>9, <4>1
      <4>3. h = 1
        BY <3>3, <3>4, <3>6, <3>9
      <4>4. QED
        BY <4>1, <4>2, <4>3
    <3>10. QED
      BY <1>2, <1>5, <3>9 DEF AnchorOf
  <2>2. CASE ~(Headers(file) # {} /\ file.lines[Max(ReadRaw(file))].hash # NoHash)
    <3>1. writer'[w] = Fields("new", serial + 1, Genesis(serial + 1), 0)
      BY <1>2, <2>2 DEF Open
    <3>2. ASSUME NEW n \in Hashed(file) PROVE file.lines[n].hash # writer'[w].head
      <4>1. n \in ReadRaw(file)
        BY <1>2, LinesAreNumbered
      <4>2. file.lines[n] \in Entries
        BY <1>2, <4>1, LineType
      <4>3. file.lines[n].hash \in Hashes
        BY <4>2 DEF Entries, EntriesOf
      <4>4. writer'[w].head = 0 - (serial + 1)
        BY <3>1 DEF Fields, Genesis
      <4>5. QED
        BY <1>2, <4>3, <4>4 DEF Hashes
    <3>3. QED
      BY <1>2, <1>5, <3>2 DEF AnchorOf
  <2>3. QED
    BY <2>1, <2>2
<1>6. QED
  BY <1>4, <1>5

LEMMA AnchorStop ==
    ASSUME TypeOK, PlaceInv, LinkInv, AnchorInv, NEW w \in Writers, Close(w) \/ Crash(w)
    PROVE  AnchorInv'
<1>1. SUFFICES ASSUME Durability # "os", gaps' = {}, NEW v \in Writers PROVE AnchorOf(v)'
  BY DEF AnchorInv, AnchorOf
<1>2. Stopped(w) /\ ((file' = file /\ gaps' = gaps) \/ \E u : TornBy(w, u))
  BY <1>1, CloseType, CrashShape, NoBuffers
<1>3. writer \in [Writers -> WriterFields] /\ file \in Files(Lines) /\ serial \in Nat
  BY TypeParts
<1>4. CASE v = w
  <2>1. writer'[w].pc = "closed"
    BY <1>2, <1>3 DEF Stopped, Closed, Fields
  <2>2. QED
    BY <1>4, <2>1 DEF AnchorOf
<1>5. CASE v # w
  <2>1. writer'[v] = writer[v]
    BY <1>2, <1>3, <1>5 DEF Stopped
  <2>2. CASE file' = file /\ gaps' = gaps
    BY <1>1, <2>1, <2>2 DEF AnchorInv, AnchorOf
  <2>3. ASSUME NEW u, TornBy(w, u) PROVE AnchorOf(v)'
    <3>1. Sound' /\ gaps = {}
      BY <1>1, <2>3 DEF Sound, TornBy
    <3>2. /\ file \in Files(Lines') /\ u \in Lines' /\ Junk \in Lines' /\ Chained(file)
          /\ Grown(file', file, Junk) \/ Grown(file', file, u)
      BY <1>2, <2>3, <3>1, TornSound DEF LinkInv
    <3>3. IsHashed(u) /\ u.hash = serial + 1
      BY <2>3 DEF TornBy
    <3>4. AnchorOf(v)
      BY <1>1, <3>1 DEF AnchorInv, AnchorOf
    <3>5. CASE Grown(file', file, Junk)
      BY <2>1, <3>2, <3>4, <3>5, AnchorKept
    <3>6. CASE Grown(file', file, u)
      BY <2>1, <3>2, <3>3, <3>4, <3>6, AnchorKept
    <3>7. QED
      BY <3>2, <3>5, <3>6
  <2>4. QED
    BY <1>2, <2>2, <2>3
<1>6. QED
  BY <1>4, <1>5

LEMMA AnchorAppends ==
    ASSUME TypeOK, PlaceInv, LinkInv, AnchorInv, NEW w, NEW kind, NEW data, NEW bytes, NEW pc,
           NEW since, Appends(w, kind, data, bytes, pc, since)
    PROVE  AnchorInv'
<1> DEFINE e == NewEntry(w, kind, data, bytes)
           N == Len(file.lines)
<1>1. SUFFICES ASSUME Durability # "os", gaps' = {}, NEW v \in Writers PROVE AnchorOf(v)'
  BY DEF AnchorInv, AnchorOf
<1>2. Appended(w, e, pc, since)
  BY AppendShape
<1>3. Sound' /\ gaps = {} /\ "shared" \notin GapsOf(w)
  BY <1>1, <1>2 DEF Sound, Appended
<1>4. w \in Writers /\ Ahead(w) = file
  BY <1>1, NoBuffers DEF Appends
<1>5. /\ Sound /\ e \in Lines' /\ IsHashed(e) /\ file \in Files(Lines') /\ file.nl
      /\ Chained(file) /\ Continues(file, e) /\ Grown(file', file, e)
  <2>1. /\ Sound /\ e \in Lines' /\ IsHashed(e)
        /\ Ahead(w) \in Files(Lines') /\ Ahead(w).nl /\ Chained(Ahead(w))
        /\ Continues(Ahead(w), e) /\ Grown(Ahead(w)', Ahead(w), e)
        /\ \/ file' = Ahead(w) /\ Durability = "os"
           \/ file' = Ahead(w)' /\ Durability # "os"
    BY <1>3, AppendsSound DEF LinkInv
  <2>2. QED
    BY <1>1, <1>4, <2>1
<1>6. e.hash = serial + 1 /\ e.prev = writer[w].head
  BY <1>3, <1>4 DEF NewEntry, Entry, GapsOf
<1>7. /\ \/ writer[w].pc = "new" /\ kind = "header"
         \/ writer[w].pc \in {"open", "sealing"} /\ kind # "header"
      /\ e.kind = kind
  BY DEF Appends, NewEntry, Entry
<1> HIDE DEF e
<1>8. /\ serial \in Nat /\ writer[w] \in WriterFields /\ writer[v].head \in Refs
      /\ file \in Files(Lines)
  BY <1>4, TypeParts DEF WriterFields
<1>9. AnchorOf(v) /\ AnchorOf(w)
  BY <1>1, <1>3, <1>4 DEF AnchorInv, AnchorOf
<1>10. CASE v # w
  <2>1. writer'[v] = writer[v]
    BY <1>2, <1>10 DEF Appended
  <2>2. QED
    BY <1>5, <1>6, <1>9, <2>1, AnchorKept
<1>11. CASE v = w
  <2>1. writer'[w].head = serial + 1 /\ writer'[w].count = writer[w].count + 1
    BY <1>2 DEF Appended, Advanced
  <2>2. /\ N \in Nat /\ Hashed(file) \subseteq 1..N /\ Headers(file) \subseteq Hashed(file)
        /\ Headers(file') = IF IsHeader(e) THEN Headers(file) \cup {N + 1} ELSE Headers(file)
    BY <1>5, LinesAreNumbered, GrownSets DEF Chained, HashedLast
  <2>3. /\ \A m \in Hashed(file) : /\ file'.lines[m] = file.lines[m]
                                   /\ file'.lines[m].hash \in 1..serial
        /\ \A m \in Hashed(file') : m \in Hashed(file) \/ m = N + 1
    BY <1>5, <1>6, HashesGrow
  <2>4. SUFFICES ASSUME NEW n \in Hashed(file'), NEW h \in Headers(file'),
                        file'.lines[n].hash = serial + 1, \A g \in Headers(file') : h <= g
                 PROVE  writer[w].count + 1 + h = n + 1
    BY <1>11, <2>1 DEF AnchorOf
  <2>5. n = N + 1
    BY <1>8, <2>3, <2>4
  <2>6. CASE writer[w].pc = "new"
    <3>1. writer[w].count = 0 /\ writer[w].head = Genesis(writer[w].cid)
      BY <1>4, <2>6 DEF PlaceInv
    <3>2. N \notin Hashed(file)
      <4>1. SUFFICES ASSUME N \in Hashed(file) PROVE FALSE
        OBVIOUS
      <4>2. file.lines[N].hash = Genesis(writer[w].cid)
        BY <1>5, <1>6, <3>1, <4>1 DEF Continues
      <4>3. file.lines[N].hash \in 1..serial
        BY <2>3, <4>1
      <4>4. writer[w].cid \in Nat
        BY <1>8 DEF WriterFields, Hashes
      <4>5. QED
        BY <1>8, <4>2, <4>3, <4>4 DEF Genesis
    <3>3. Hashed(file) = {}
      BY <1>5, <1>8, <3>2, TailIsLast
    <3>4. h = N + 1
      BY <2>2, <3>3
    <3>5. N \in Nat
      BY <2>2
    <3>6. QED
      BY <2>5, <3>1, <3>4, <3>5
  <2>7. CASE writer[w].pc # "new"
    <3>1. Headers(file') = Headers(file)
      BY <1>7, <2>2, <2>7 DEF IsHeader
    <3>2. Hashed(file) # {}
      BY <1>4, <1>5, <1>7, <2>7 DEF LinkInv, HeadInv
    <3>3. N \in Hashed(file)
      BY <1>5, <1>8, <3>2, TailIsLast
    <3>4. file.lines[N].hash = writer[w].head
      BY <1>5, <1>6, <3>3 DEF Continues
    <3>5. writer[w].count + h = N + 1
      BY <1>7, <1>9, <2>4, <2>7, <3>1, <3>3, <3>4 DEF AnchorOf
    <3>6. writer[w].count \in Nat /\ h \in Nat
      BY <1>8, <2>2, <3>1 DEF WriterFields
    <3>7. N \in Nat
      BY <2>2
    <3>8. \A c, m, k \in Nat : c + m = k + 1 => c + 1 + m = k + 1 + 1
      OBVIOUS
    <3>9. writer[w].count + 1 + h = N + 1 + 1
      BY <3>5, <3>6, <3>7, <3>8
    <3>10. QED
      BY <2>5, <3>9
  <2>8. QED
    BY <2>6, <2>7
<1>12. QED
  BY <1>10, <1>11

LEMMA AnchorStep ==
    ASSUME TypeOK, PlaceInv, LinkInv, AckInv, AnchorInv, [Next]_vars
    PROVE  AnchorInv'
<1>1. CASE UNCHANGED vars
  BY <1>1 DEF vars, AnchorInv
<1>2. CASE Next
  BY <1>2, StepCases, AnchorOpen, AnchorStop, AnchorAppends
<1>3. QED
  BY <1>1, <1>2

-------------------------------------------------------------------------------
(* The theorems                                                               *)

LEMMA InitInv == Init => IInv
<1> SUFFICES ASSUME Init PROVE IInv
  OBVIOUS
<1>1. PICK n \in {0, LegacyLines} : file = [lines |-> [m \in 1..n |-> Legacy], nl |-> TRUE]
  BY DEF Init
<1>2. /\ size = 0 /\ writer = [w \in Writers |-> Closed] /\ buffer = [w \in Writers |-> <<>>]
      /\ serial = 0 /\ acked = {} /\ gaps = {} /\ crashes = 0
  BY DEF Init
<1>3. n \in Nat
  BY <1>1, ConstantsAssumption
<1>4. Legacy \in Entries /\ IsEntry(Legacy) /\ ~IsHashed(Legacy) /\ ~IsHeader(Legacy)
  <2>1. 0 \in Hashes
    BY <1>2 DEF Hashes
  <2>2. QED
    BY <2>1 DEF Legacy, Entry, Entries, EntriesOf, IsEntry, IsHashed, IsHeader, NoHash
<1>5. file.lines \in Seq(Lines) /\ file.nl = TRUE /\ DOMAIN file.lines = 1..n
      /\ \A m \in 1..n : file.lines[m] = Legacy
  <2>1. file.lines = [m \in 1..n |-> Legacy] /\ file.nl = TRUE
    BY <1>1
  <2>2. [m \in 1..n |-> Legacy] \in Seq(Lines)
    BY <1>3, <1>4 DEF Lines
  <2>3. QED
    BY <2>1, <2>2
<1>6. file \in Files(Lines)
  BY <1>1, <1>5, FileType
<1>7. Hashed(file) = {} /\ Headers(file) = {} /\ Whole(file)
  BY <1>4, <1>5 DEF Hashed, Headers, Whole
<1>8. Chained(file)
  BY <1>7 DEF Chained, HashedLast, Linked
<1>9. \A w \in Writers : /\ writer[w] = Closed /\ buffer[w] = <<>> /\ Ahead(w) = file
  BY <1>2, AppendNone DEF Ahead
<1>10. Closed \in WriterFields /\ Closed.pc = "closed" /\ Closed.lastSize = -1 /\ Closed.since = 0
  <2>1. Closed = [pc |-> "closed", cid |-> 0, head |-> 0, count |-> 0, lastSize |-> -1, since |-> 0]
    BY DEF Closed, Fields, NoHash
  <2>2. 0 \in Hashes /\ 0 \in Refs /\ 0 \in 0..SealEvery
    BY <1>2, ConstantsAssumption DEF Hashes, Refs
  <2>3. QED
    BY <2>1, <2>2 DEF WriterFields
<1>11. TypeOK
  <2>1. writer \in [Writers -> WriterFields] /\ buffer \in [Writers -> Seq(Entries)]
    BY <1>2, <1>10
  <2>2. crashes \in 0..MaxCrashes
    BY <1>2, ConstantsAssumption
  <2>3. QED
    BY <1>2, <1>6, <2>1, <2>2, TypeParts
<1>12. PlaceInv
  BY <1>2, <1>5, <1>9, <1>10, ConstantsAssumption DEF PlaceInv
<1>13. AloneInv /\ ChainInv
  BY <1>8, <1>9 DEF AloneInv, ChainInv
<1>14. HeadInv
  BY <1>2, <1>9, <1>10 DEF HeadInv
<1>15. CountInv
  BY <1>7, <1>9, <1>10 DEF CountInv, SealsBehind
<1>16. AckInv
  BY <1>2, <1>7 DEF AckInv
<1>17. AnchorInv
  BY <1>7 DEF AnchorInv
<1>18. QED
  BY <1>11, <1>12, <1>13, <1>14, <1>15, <1>16, <1>17 DEF IInv

LEMMA StepInv == IInv /\ [Next]_vars => IInv'
<1> SUFFICES ASSUME IInv, [Next]_vars PROVE IInv'
  OBVIOUS
<1>1. TypeOK /\ PlaceInv /\ LinkInv /\ CountInv /\ AckInv /\ AnchorInv
  BY DEF IInv, LinkInv
<1>2. TypeOK' /\ PlaceInv' /\ LinkInv'
  BY <1>1, TypeStep, PlaceStep, LinkStep
<1>3. CountInv' /\ AckInv' /\ AnchorInv'
  BY <1>1, CountStep, AckStep, AnchorStep
<1>4. QED
  BY <1>2, <1>3 DEF IInv, LinkInv

\* At every moment the file, the writers and what they hold back are as the
\* invariants above say.
LEMMA Invariant == Spec => []IInv
<1>1. Init => IInv
  BY InitInv
<1>2. IInv /\ [Next]_vars => IInv'
  BY StepInv
<1>3. QED
  BY <1>1, <1>2, PTL DEF Spec

LEMMA Verifies == IInv => FileVerifies
<1> SUFFICES ASSUME IInv, Headers(file) # {}, Sound
             PROVE  Links(file) /\ ("prefix" \notin gaps => SealsAgree(file))
  BY DEF FileVerifies, Sound
<1>1. /\ file \in Files(Lines) /\ Chained(file) /\ (~file.nl => file.lines # <<>>)
      /\ serial \in Nat
  BY TypeParts DEF IInv, ChainInv, PlaceInv
<1>2. Links(file)
  BY <1>1, ChainedLinks
<1>3. ASSUME "prefix" \notin gaps PROVE SealsAgree(file)
  BY <1>1, <1>3, ChainedSeals DEF IInv, CountInv
<1>4. QED
  BY <1>2, <1>3

LEMMA Kept == IInv => AckedIsKept
<1> SUFFICES ASSUME IInv, Durability # "os", "glued" \notin gaps, NEW h \in acked
             PROVE  Cardinality({n \in 1..Len(file.lines) :
                                   IsEntry(file.lines[n]) /\ file.lines[n].hash = h}) = 1
  BY DEF AckedIsKept
<1>1. /\ h # NoHash /\ \E n \in Hashed(file) : file.lines[n].hash = h
      /\ \A m, n \in Hashed(file) : file.lines[m].hash = file.lines[n].hash => m = n
  BY DEF IInv, AckInv
<1>2. PICK k \in Hashed(file) : file.lines[k].hash = h
  BY <1>1
<1>3. DOMAIN file.lines = 1..Len(file.lines)
  BY LinesAreNumbered, TypeParts DEF IInv
<1>4. ASSUME NEW n \in 1..Len(file.lines)
      PROVE  IsEntry(file.lines[n]) /\ file.lines[n].hash = h <=> n = k
  <2>1. IsEntry(file.lines[n]) /\ file.lines[n].hash = h => n \in Hashed(file)
    BY <1>1, <1>3 DEF Hashed, IsHashed
  <2>2. IsEntry(file.lines[k])
    BY DEF Hashed, IsHashed
  <2>3. QED
    BY <1>1, <1>2, <2>1, <2>2
<1>5. k \in 1..Len(file.lines)
  BY <1>3 DEF Hashed
<1>6. {n \in 1..Len(file.lines) : IsEntry(file.lines[n]) /\ file.lines[n].hash = h} = {k}
  BY <1>4, <1>5
<1>7. QED
  BY <1>6, FS_Singleton

LEMMA AnchorsVerify == IInv => AnchorVerifies
<1> SUFFICES ASSUME IInv, Durability # "os", gaps = {}, NEW w \in Writers,
                    writer[w].pc = "open", writer[w].lastSize = size
             PROVE  VerifiedAgainst(file, writer[w].head, writer[w].count)
  BY DEF AnchorVerifies
<1> DEFINE p == Min(Headers(file))
           N == Len(file.lines)
<1>1. /\ file \in Files(Lines) /\ (~file.nl => file.lines # <<>>) /\ serial \in Nat
      /\ Ahead(w) = file /\ writer[w].count \in Nat
  BY TypeParts, NoBuffers DEF IInv, PlaceInv, WriterFields
<1>2. Sound /\ "prefix" \notin gaps
  BY DEF Sound
<1>3. Chained(file) /\ SealsBehind(file) /\ AtTail(file, writer[w].head)
  BY <1>1, <1>2 DEF IInv, ChainInv, CountInv, HeadInv
<1>4. N \in Hashed(file) /\ file.lines[N].hash = writer[w].head
  BY <1>3 DEF AtTail
<1>5. Headers(file) # {}
  BY <1>3, <1>4 DEF Chained, HashedLast
<1>6. Verified(file)
  BY <1>1, <1>3, <1>5, ChainedLinks, ChainedSeals DEF Verified
<1>7. /\ N \in ReadRaw(file) /\ N \in Nat /\ p \in Headers(file) /\ p \in 1..N
      /\ \A h \in Headers(file) : p <= h
      /\ Len(Chain(file)) = N - p + 1
      /\ \A m \in 1..Len(Chain(file)) : Chain(file)[m] = file.lines[m + p - 1]
  <2> DEFINE n == Len(Parsed(file))
  <2>1. /\ n \in Nat /\ n <= N /\ ReadRaw(file) = 1..n /\ p \in Headers(file)
        /\ \A h \in Headers(file) : p <= h
        /\ Len(Chain(file)) = n - p + 1
        /\ \A m \in 1..Len(Chain(file)) : Chain(file)[m] = file.lines[m + p - 1]
    BY <1>1, <1>3, <1>5, ChainShape
  <2> HIDE DEF n, p
  <2>2. N \in Nat /\ N \in ReadRaw(file) /\ p \in 1..N
    BY <1>1, <1>4, <2>1, LinesAreNumbered
  <2>3. n = N
    BY <2>1, <2>2
  <2>4. QED
    BY <2>1, <2>2, <2>3
<1> HIDE DEF p, N
<1>8. writer[w].count + p = N + 1
  BY <1>4, <1>7 DEF IInv, AnchorInv
<1>9. Len(Chain(file)) = writer[w].count
  BY <1>1, <1>7, <1>8
<1>10. Last(Chain(file)).hash = writer[w].head
  <2> DEFINE k == Len(Chain(file))
  <2>1. k \in 1..k /\ k + p - 1 = N
    BY <1>7
  <2>2. Chain(file)[k] = file.lines[N]
    BY <1>7, <2>1
  <2>3. QED
    BY <1>4, <2>2 DEF Last
<1>11. QED
  BY <1>6, <1>9, <1>10 DEF VerifiedAgainst

\* Every file, record and field has its type in every reachable state.
THEOREM AuditTyping == Spec => []TypeOK
<1>1. IInv => TypeOK
  BY DEF IInv
<1>2. QED
  BY <1>1, Invariant, PTL

\* log.py:46-51, :277-282 and :663-679: whatever any number of writers, crashes and
\* restarts interleave, a file nobody touched verifies.
THEOREM UntouchedFileVerifies == Spec => []FileVerifies
BY Invariant, Verifies, PTL

\* log.py:9 and :171-172: an entry whose log_* call has returned stays in the file,
\* exactly once.
THEOREM AcknowledgedIsKept == Spec => []AckedIsKept
BY Invariant, Kept, PTL

\* log.py:350-357: the anchor of a writer whose last append nobody has followed
\* verifies against the file.
THEOREM AnchorAlwaysVerifies == Spec => []AnchorVerifies
BY Invariant, AnchorsVerify, PTL

-------------------------------------------------------------------------------
(* A queue that is left                                                       *)

LEMMA FirstFailing ==
    ASSUME NEW S \in SUBSET Nat, S # {} PROVE \E m \in S : \A i \in S : m <= i
<1> DEFINE R == OpToRel(<, Nat)
<1>1. IsWellFoundedOn(R, Nat)
  BY NatLessThanWellFounded, Zenon
<1>2. ASSUME NEW i \in Nat, NEW m \in Nat, i < m PROVE <<i, m>> \in R
  BY <1>2 DEF OpToRel
<1> HIDE DEF R
<1>3. PICK m \in S : \A i \in S : ~(<<i, m>> \in R)
  BY <1>1, WFMin
<1>4. ASSUME NEW i \in S PROVE m <= i
  <2>1. ~(i < m)
    BY <1>2, <1>3, <1>4
  <2> QED BY <2>1
<1> QED BY <1>4

\* The next queue, t being the next who waited
Stays(q, t, dead) == IF t \in dead THEN q ELSE Append(q, t)

\* What is left of the first M who waited
Leaves(f, s, dead, M) ==
    f = [n \in 0..M |-> IF n = 0 THEN <<>>
                        ELSE IF s[n] \in dead THEN f[n - 1] ELSE Append(f[n - 1], s[n])]

LEMMA LeavesAre ==
    ASSUME NEW f, NEW s, NEW dead, NEW M \in Nat, Leaves(f, s, dead, M)
    PROVE  f[0] = <<>> /\ \A n \in 1..M : f[n] = Stays(f[n - 1], s[n], dead)
<1>1. ASSUME NEW n \in 0..M
      PROVE  f[n] = IF n = 0 THEN <<>>
                    ELSE IF s[n] \in dead THEN f[n - 1] ELSE Append(f[n - 1], s[n])
  BY Zenon DEF Leaves
<1>2. 0 \in 0..M /\ \A n \in 1..M : n \in 0..M /\ n # 0
  OBVIOUS
<1>3. f[0] = <<>>
  BY <1>1, <1>2
<1> QED BY <1>1, <1>2, <1>3, Zenon DEF Stays

LEMMA NoneLeft == ASSUME NEW s, NEW dead PROVE \E f : Leaves(f, s, dead, 0)
<1> DEFINE f == [n \in 0..0 |-> <<>>]
           g == [n \in 0..0 |-> IF n = 0 THEN <<>>
                     ELSE IF s[n] \in dead THEN f[n - 1] ELSE Append(f[n - 1], s[n])]
<1>1. \A n \in 0..0 : n = 0
  OBVIOUS
<1>2. \A n \in 0..0 : f[n] = g[n]
  BY <1>1
<1>3. f = g
  BY <1>2
<1> QED BY <1>3, Zenon DEF Leaves

LEMMA OneMoreLeft ==
    ASSUME NEW s, NEW dead, NEW M \in Nat \ {0}, NEW g, Leaves(g, s, dead, M - 1)
    PROVE  \E f : Leaves(f, s, dead, M)
<1> DEFINE f == [n \in 0..M |-> IF n = M THEN Stays(g[M - 1], s[M], dead) ELSE g[n]]
           h == [n \in 0..M |-> IF n = 0 THEN <<>>
                     ELSE IF s[n] \in dead THEN f[n - 1] ELSE Append(f[n - 1], s[n])]
<1>1. M - 1 \in Nat /\ g[0] = <<>> /\ \A n \in 1..M - 1 : g[n] = Stays(g[n - 1], s[n], dead)
  <2>1. M - 1 \in Nat
    OBVIOUS
  <2> QED BY <2>1, LeavesAre
<1>2. f[M] = Stays(g[M - 1], s[M], dead) /\ \A n \in 0..M - 1 : f[n] = g[n]
  <2>1. M \in 0..M /\ \A n \in 0..M - 1 : n \in 0..M /\ n # M
    OBVIOUS
  <2> QED BY <2>1
<1>3. ASSUME NEW n \in 0..M PROVE h[n] = IF n = 0 THEN <<>> ELSE Stays(f[n - 1], s[n], dead)
  <2> HIDE DEF f
  <2> QED BY DEF Stays
<1>4. DOMAIN f = 0..M /\ DOMAIN h = 0..M /\ f = [n \in 0..M |-> f[n]] /\ h = [n \in 0..M |-> h[n]]
  OBVIOUS
<1>5. h = [n \in 0..M |-> IF n = 0 THEN <<>>
                ELSE IF s[n] \in dead THEN f[n - 1] ELSE Append(f[n - 1], s[n])]
  OBVIOUS
<1> HIDE DEF f, h
<1>6. ASSUME NEW n \in 0..M PROVE f[n] = h[n]
  <2>1. CASE n = M
    <3>1. f[M - 1] = g[M - 1] /\ M # 0
      BY <1>2, M - 1 \in 0..M - 1
    <3> QED BY <1>2, <1>3, <2>1, <3>1
  <2>2. CASE n # M /\ n # 0
    <3>1. n \in 1..M - 1 /\ n \in 0..M - 1 /\ n - 1 \in 0..M - 1
      BY <2>2
    <3> QED BY <1>1, <1>2, <1>3, <2>2, <3>1
  <2>3. CASE n # M /\ n = 0
    <3>1. n \in 0..M - 1
      BY <2>3
    <3> QED BY <1>1, <1>2, <1>3, <2>3, <3>1
  <2> QED BY <2>1, <2>2, <2>3
<1>7. f = h
  BY <1>4, <1>6
<1> QED BY <1>5, <1>7, Zenon DEF Leaves

LEMMA LeavesExist == ASSUME NEW s, NEW dead, NEW N \in Nat PROVE \E f : Leaves(f, s, dead, N)
<1> DEFINE Missing == {M \in 0..N : \A f : ~Leaves(f, s, dead, M)}
<1>1. Missing = {}
  <2> SUFFICES ASSUME Missing # {} PROVE FALSE
    OBVIOUS
  <2>1. Missing \in SUBSET Nat
    OBVIOUS
  <2> HIDE DEF Missing
  <2>2. PICK M \in Missing : \A K \in Missing : M <= K
    BY <2>1, FirstFailing
  <2> USE DEF Missing
  <2>3. M \in 0..N /\ M # 0 /\ \A f : ~Leaves(f, s, dead, M)
    BY <2>2, NoneLeft
  <2>4. M - 1 \in 0..N /\ ~(M <= M - 1)
    BY <2>3
  <2>5. M - 1 \notin Missing
    <3> HIDE DEF Missing
    <3> QED BY <2>2, <2>4
  <2>6. PICK g : Leaves(g, s, dead, M - 1)
    BY <2>4, <2>5
  <2> QED BY <2>3, <2>6, OneMoreLeft
<1> QED BY <1>1, N \in 0..N

\* Who is left waited before.
LEMMA WithoutType ==
    ASSUME NEW T, NEW s \in Seq(T), NEW dead PROVE Without(s, dead) \in Seq(T)
<1> DEFINE f == CHOOSE f : Leaves(f, s, dead, Len(s))
<1>1. Without(s, dead) = f[Len(s)]
  BY Zenon DEF Without, Leaves
<1>2. Leaves(f, s, dead, Len(s))
  <2>1. \E g : Leaves(g, s, dead, Len(s))
    BY Len(s) \in Nat, LeavesExist
  <2> QED BY <2>1, Zenon
<1> HIDE DEF f
<1>3. f[0] = <<>> /\ \A n \in 1..Len(s) : f[n] = Stays(f[n - 1], s[n], dead)
  BY <1>2, LeavesAre
<1>4. Len(s) \in Nat /\ <<>> \in Seq(T)
  OBVIOUS
<1> DEFINE Wrong == {n \in 0..Len(s) : f[n] \notin Seq(T)}
<1>5. Wrong = {}
  <2> SUFFICES ASSUME Wrong # {} PROVE FALSE
    OBVIOUS
  <2>1. Wrong \in SUBSET Nat
    OBVIOUS
  <2> HIDE DEF Wrong
  <2>2. PICK m \in Wrong : \A i \in Wrong : m <= i
    BY <2>1, FirstFailing
  <2> USE DEF Wrong
  <2>3. m \in 0..Len(s) /\ m # 0 /\ f[m] \notin Seq(T)
    BY <2>2, <1>3, <1>4
  <2>4. m - 1 \in 0..Len(s) /\ m \in 1..Len(s) /\ ~(m <= m - 1)
    BY <2>3
  <2>5. m - 1 \notin Wrong
    <3> HIDE DEF Wrong
    <3> QED BY <2>2, <2>4
  <2>6. f[m - 1] \in Seq(T) /\ s[m] \in T
    BY <2>4, <2>5
  <2>7. f[m] = Stays(f[m - 1], s[m], dead)
    BY <2>4, <1>3
  <2> HIDE DEF Wrong
  <2>8. Stays(f[m - 1], s[m], dead) \in Seq(T)
    BY <2>6, AppendProperties DEF Stays
  <2> QED BY <2>3, <2>7, <2>8, Zenon
<1> QED BY <1>1, <1>4, <1>5

-------------------------------------------------------------------------------
(* The stream                                                                 *)

LEMMA AppendAtEnd ==
    ASSUME NEW T, NEW s \in Seq(T), NEW q \in Seq(T), NEW x \in T
    PROVE  s \o Append(q, x) = Append(s \o q, x)
<1>1. Append(q, x) = q \o <<x>> /\ Append(s \o q, x) = (s \o q) \o <<x>>
  BY AppendIsConcat, ConcatProperties
<1>2. <<x>> \in Seq(T)
  OBVIOUS
<1>3. s \o (q \o <<x>>) = (s \o q) \o <<x>>
  BY <1>2, ConcatAssociative
<1> QED BY <1>1, <1>3

LEMMA HeadGoesOver ==
    ASSUME NEW T, NEW s \in Seq(T), NEW q \in Seq(T), q # <<>>
    PROVE  Append(s, Head(q)) \o Tail(q) = s \o q
<1>1. Head(q) \in T /\ Tail(q) \in Seq(T) /\ <<Head(q)>> \in Seq(T)
  BY HeadTailProperties
<1>2. Append(s, Head(q)) = s \o <<Head(q)>>
  BY <1>1, AppendIsConcat
<1>3. (s \o <<Head(q)>>) \o Tail(q) = s \o (<<Head(q)>> \o Tail(q))
  BY <1>1, ConcatAssociative
<1>4. <<Head(q)>> \o Tail(q) = q
  BY <1>1
<1> QED BY <1>2, <1>3, <1>4

\* What one more event adds to the count of e
Adds(x, e) == IF x = e THEN 1 ELSE 0

LEMMA CountOne ==
    ASSUME NEW T, NEW s \in Seq(T), NEW x \in T, NEW e
    PROVE  /\ Count(s, e) \in Nat
           /\ Count(Append(s, x), e) = Count(s, e) + Adds(x, e)
<1> DEFINE At(q) == {n \in DOMAIN q : q[n] = e}
           new == Append(s, x)
           last == Len(s) + 1
<1>1. /\ Len(s) \in Nat /\ DOMAIN s = 1..Len(s) /\ DOMAIN new = 1..last /\ new[last] = x
      /\ \A n \in 1..Len(s) : new[n] = s[n]
  OBVIOUS
<1>2. IsFiniteSet(At(s))
  <2>1. IsFiniteSet(1..Len(s))
    BY <1>1, FS_Interval
  <2>2. At(s) \in SUBSET (1..Len(s))
    BY <1>1
  <2> QED BY <2>1, <2>2, FS_Subset
<1>3. Cardinality(At(s)) \in Nat
  BY <1>2, FS_CardinalityType
<1>4. last \notin At(s)
  BY <1>1
<1>5. Count(s, e) = Cardinality(At(s)) /\ Count(new, e) = Cardinality(At(new))
  BY Zenon DEF Count
<1>6. Cardinality(At(new)) = Cardinality(At(s)) + IF x = e THEN 1 ELSE 0
  <2>1. CASE x = e
    <3>1. At(new) = At(s) \cup {last}
      BY <1>1, <2>1
    <3>2. Cardinality(At(s) \cup {last}) = Cardinality(At(s)) + 1
      BY <1>2, <1>4, FS_AddElement
    <3> HIDE DEF new, At
    <3> QED BY <2>1, <3>1, <3>2
  <2>2. CASE x # e
    <3>1. At(new) = At(s)
      BY <1>1, <2>2
    <3> HIDE DEF new, At
    <3> QED BY <1>3, <2>2, <3>1
  <2> QED BY <2>1, <2>2
<1>7. Count(new, e) = Count(s, e) + Adds(x, e)
  <2> HIDE DEF new, At
  <2> QED BY <1>5, <1>6 DEF Adds
<1>8. Count(s, e) \in Nat
  BY <1>3, <1>5
<1> QED BY <1>7, <1>8, Zenon

Items == Tasks \X (Events \cup {"SENTINEL"})

\* What was put into the queue while the consumer was there
Sent == delivered \o queue

Reading == consumer \in {"gets", "holds"}

MainPlaces == {"RUN_START", "top", "TURN_START", "USAGE", "ERROR", "NOTICE", "tools", "RUN_END",
               "SENTINEL", "done"}
ToolPlaces == {"none", "TOOL_DECISION", "TOOL_START", "TOOL_END", "done", "raised", "killed"}

TaskInv == /\ at \in [Tasks -> MainPlaces \cup ToolPlaces]
           /\ at[Main] \in MainPlaces
           /\ \A t \in Tools : at[t] \in ToolPlaces
           /\ at[Main] = "RUN_START" => ~orphaned

QueueInv == /\ how \in [Tasks -> {"runs", "waits", "woken"}]
            /\ queue \in Seq(Items) /\ Len(queue) <= Capacity
            /\ putters \in Seq(Tasks)
            /\ delivered \in Seq(Tasks \X Events)

ConsumerInv ==
    /\ consumer \in {"gets", "holds", "leaves", "finishes", "joins", "closed", "finished"}
    /\ consumer \in {"gets", "holds", "finishes", "leaves"} => sink
    /\ consumer = "finishes" => at[Main] = "done"

FlagsInv == /\ turn \in 0..MaxTurns /\ sink \in BOOLEAN /\ token \in {"none", "clear", "set"}
            /\ spans \subseteq {"run", "turn"} \cup Tools
            /\ orphaned \in BOOLEAN

\* Unless the run left one behind, its calls are over when it goes on from them.
LeftInv == ~orphaned /\ at[Main] # "tools" => \A t \in Tools : at[t] \in Ended

\* Before RUN_START and after RUN_END no span is open.
OpenInv == ~orphaned /\ at[Main] \in {"RUN_START", "SENTINEL", "done"} => spans = {}

\* The stream begins with RUN_START, ...
Begins(s, place) ==
    IF place = "RUN_START" THEN s = <<>> ELSE s # <<>> /\ s[1] = <<Main, "RUN_START">>

\* ... nothing but the sentinel follows RUN_END, ...
NoSentinel(s) == \A n \in 1..Len(s) : s[n][2] # "SENTINEL"

Ends(s, place) ==
    /\ place = "SENTINEL" => Len(s) > 0 /\ s[Len(s)] = <<Main, "RUN_END">>
    /\ place = "done" => /\ Len(s) > 1
                         /\ s[Len(s)] = <<Main, "SENTINEL">> /\ s[Len(s) - 1] = <<Main, "RUN_END">>
                         /\ \A n \in 1..Len(s) - 1 : s[n][2] # "SENTINEL"

\* ... and a call that has begun is at its end, or its end is in the stream.
Paired(s, place, t) ==
    Count(s, <<t, "TOOL_START">>)
        = Count(s, <<t, "TOOL_END">>) + IF place = "TOOL_END" THEN 1 ELSE 0

SentInv ==
    Reading => /\ Begins(Sent, at[Main])
               /\ at[Main] # "done" => NoSentinel(Sent)
               /\ ~orphaned => Ends(Sent, at[Main]) /\ \A t \in Tools : Paired(Sent, at[t], t)

\* What the consumer has when it is given the sentinel
Complete(s) ==
    /\ s # <<>> /\ s[1] = <<Main, "RUN_START">> /\ s[Len(s)] = <<Main, "RUN_END">>
    /\ \A t \in Tools : Count(s, <<t, "TOOL_START">>) = Count(s, <<t, "TOOL_END">>)

GivenInv == consumer \in {"finishes", "finished"} /\ ~orphaned => Complete(delivered)

StreamInv == /\ TaskInv /\ QueueInv /\ ConsumerInv /\ FlagsInv
             /\ LeftInv /\ OpenInv /\ SentInv /\ GivenInv

LEMMA StreamInitInv == StreamInit => StreamInv
<1> SUFFICES ASSUME StreamInit PROVE StreamInv
  OBVIOUS
<1> USE DEF StreamInit
<1>0. Main \notin Tools /\ Capacity \in Nat /\ MaxTurns \in Nat
  BY StreamConstants DEF StreamConstants
<1>1. /\ Main \in Tasks /\ \A t \in Tools : t \in Tasks /\ t # Main
      /\ at[Main] = "RUN_START" /\ \A t \in Tools : at[t] = "none"
  BY <1>0 DEF Tasks
<1>2. TaskInv
  BY <1>0, <1>1 DEF TaskInv, MainPlaces, ToolPlaces
<1>3. QueueInv
  BY <1>0 DEF QueueInv
<1>4. ConsumerInv /\ FlagsInv
  <2>1. turn \in 0..MaxTurns /\ spans \subseteq {"run", "turn"} \cup Tools
    BY <1>0
  <2>2. /\ sink = TRUE /\ orphaned = FALSE /\ token \in {"none", "clear", "set"}
        /\ consumer = "gets"
    BY Zenon
  <2>3. ConsumerInv
    BY <2>2 DEF ConsumerInv
  <2> QED BY <2>1, <2>2, <2>3, Zenon DEF FlagsInv
<1>5. LeftInv /\ OpenInv /\ GivenInv
  BY <1>1 DEF LeftInv, OpenInv, GivenInv, Ended
<1>6. SentInv
  <2>1. Sent = <<>>
    BY DEF Sent
  <2>2. \A e : Count(<<>>, e) = 0
    <3>1. \A e : {n \in DOMAIN <<>> : <<>>[n] = e} = {}
      OBVIOUS
    <3> QED BY <3>1, FS_EmptySet DEF Count
  <2>3. \A t \in Tools : Paired(Sent, at[t], t)
    BY <2>1, <2>2, <1>1 DEF Paired
  <2>4. Begins(Sent, at[Main]) /\ NoSentinel(Sent) /\ Ends(Sent, at[Main])
    BY <2>1, <1>1 DEF Begins, NoSentinel, Ends
  <2> QED BY <2>3, <2>4 DEF SentInv
<1> QED BY <1>2, <1>3, <1>4, <1>5, <1>6 DEF StreamInv

-------------------------------------------------------------------------------
(* The actions                                                                *)

LEMMA TasksAre ==
    ASSUME TaskInv
    PROVE  /\ Main \in Tasks /\ Main \notin Tools
           /\ \A t \in Tools : t \in Tasks /\ t # Main
           /\ \A t \in Tasks : t = Main \/ t \in Tools
           /\ \A t \in Tasks : at[t] \in MainPlaces \cup ToolPlaces
BY StreamConstants DEF StreamConstants, Tasks, TaskInv

\* Where the run and its calls go on to
LEMMA MainGoesOn ==
    ASSUME NEW p \in MainPlaces, Emits(p), NEW l \in After(p)
    PROVE  /\ l \in MainPlaces /\ l # "RUN_START"
           /\ l = "tools" => p = "USAGE"
           /\ l = "SENTINEL" => p = "RUN_END"
           /\ l = "done" => p = "SENTINEL"
           /\ p = "SENTINEL" => l = "done"
           /\ p = "RUN_START" => l # "done" /\ l # "SENTINEL" /\ l # "tools"
BY SMT DEF MainPlaces, Emits, Events, After

LEMMA ToolGoesOn ==
    ASSUME NEW p \in ToolPlaces, Emits(p), NEW l \in After(p)
    PROVE  /\ l \in ToolPlaces /\ l # "tools" /\ p \notin Ended
           /\ p \in {"TOOL_DECISION", "TOOL_START", "TOOL_END"}
           /\ l = "TOOL_END" <=> p = "TOOL_START"
BY SMT DEF ToolPlaces, Emits, Events, After, Ended

\* The places of all after t has gone on to l
Moved(t, l) ==
    /\ at' \in [Tasks -> MainPlaces \cup ToolPlaces]
    /\ at'[t] = l
    /\ \A u \in Tasks \ {t} : at'[u] = IF l = "tools" THEN "TOOL_DECISION" ELSE at[u]

LEMMA MovesMoved ==
    ASSUME TaskInv, NEW t \in Tasks, NEW l \in MainPlaces \cup ToolPlaces, Moves(t, l)
    PROVE  Moved(t, l)
<1>1. at' = [u \in Tasks |-> IF u = t THEN l ELSE IF l = "tools" THEN "TOOL_DECISION" ELSE at[u]]
  BY Zenon DEF Moves
<1>2. at \in [Tasks -> MainPlaces \cup ToolPlaces]
  BY DEF TaskInv
<1>3. "TOOL_DECISION" \in ToolPlaces
  BY DEF ToolPlaces
<1> HIDE DEF MainPlaces, ToolPlaces
<1>4. \A u \in Tasks : at'[u] = IF u = t THEN l ELSE IF l = "tools" THEN "TOOL_DECISION" ELSE at[u]
  BY <1>1, Zenon
<1>5. at' \in [Tasks -> MainPlaces \cup ToolPlaces]
  BY <1>1, <1>2, <1>3
<1> QED BY <1>4, <1>5 DEF Moved

\* What emitting does when the task does not begin to wait
Puts(t) == queue' = Append(queue, <<t, at[t]>>) /\ Len(queue) < Capacity

LEMMA EmitIs ==
    ASSUME StreamInv, NEW t \in Tasks, Emit(t)
    PROVE  /\ Emits(at[t])
           /\ UNCHANGED <<turn, sink, token, consumer, delivered, orphaned>>
           /\ how' \in [Tasks -> {"runs", "waits", "woken"}] /\ putters' \in Seq(Tasks)
           /\ \/ UNCHANGED <<at, queue, spans>>
              \/ /\ \E l \in After(at[t]) : Moves(t, l)
                 /\ spans' = Handled(t, at[t])
                 /\ Puts(t) \/ (UNCHANGED queue /\ ~sink)
<1>1. how \in [Tasks -> {"runs", "waits", "woken"}] /\ putters \in Seq(Tasks)
  BY DEF StreamInv, QueueInv
<1>2. Emits(at[t]) /\ UNCHANGED <<turn, sink, token, consumer, delivered, orphaned>>
  BY Zenon DEF Emit
<1>3. CASE how[t] = "runs" /\ ~sink /\ at[t] # "SENTINEL"
  <2>1. (\E l \in After(at[t]) : Moves(t, l)) /\ spans' = Handled(t, at[t])
        /\ UNCHANGED <<how, queue, putters>>
    BY <1>3, Zenon DEF Emit
  <2> QED BY <2>1, <1>1, <1>2, <1>3, Zenon
<1>4. CASE ~(how[t] = "runs" /\ ~sink /\ at[t] # "SENTINEL") /\ Len(queue) < Capacity
  <2>1. /\ queue' = Append(queue, <<t, at[t]>>) /\ how' = [how EXCEPT ![t] = "runs"]
        /\ \E l \in After(at[t]) : Moves(t, l)
        /\ spans' = Handled(t, at[t]) /\ UNCHANGED putters
    BY <1>4, Zenon DEF Emit
  <2>2. how' \in [Tasks -> {"runs", "waits", "woken"}]
    BY <2>1, <1>1
  <2> QED BY <2>1, <2>2, <1>1, <1>2, <1>4, Zenon DEF Puts
<1>5. CASE ~(how[t] = "runs" /\ ~sink /\ at[t] # "SENTINEL") /\ ~(Len(queue) < Capacity)
  <2>1. /\ putters' = Append(putters, t) /\ how' = [how EXCEPT ![t] = "waits"]
        /\ UNCHANGED <<at, queue, spans>>
    BY <1>5, Zenon DEF Emit
  <2>2. how' \in [Tasks -> {"runs", "waits", "woken"}] /\ putters' \in Seq(Tasks)
    BY <2>1, <1>1
  <2> QED BY <2>1, <2>2, <1>2, Zenon
<1> QED BY <1>3, <1>4, <1>5

LEMMA HandledType ==
    ASSUME NEW t \in Tasks, spans \subseteq {"run", "turn"} \cup Tools,
           NEW p, p \in {"TOOL_START", "TOOL_END"} => t \in Tools
    PROVE  Handled(t, p) \subseteq {"run", "turn"} \cup Tools
<1>1. CASE p \in {"TOOL_START", "TOOL_END"}
  BY <1>1, SMT DEF Handled
<1>2. CASE p \notin {"TOOL_START", "TOOL_END"}
  BY <1>2, SMT DEF Handled
<1> QED BY <1>1, <1>2

\* A task that has emitted goes on.
LEMMA TaskGoesOn ==
    ASSUME StreamInv, NEW t \in Tasks, Emits(at[t]), NEW l \in After(at[t]), Moves(t, l),
           spans' = Handled(t, at[t]), orphaned' = orphaned
    PROVE  /\ TaskInv' /\ LeftInv' /\ OpenInv'
           /\ spans' \subseteq {"run", "turn"} \cup Tools
           /\ Moved(t, l)
<1>1. TaskInv
  BY DEF StreamInv
<1>2. /\ Main \in Tasks /\ Main \notin Tools
      /\ \A u \in Tools : u \in Tasks /\ u # Main
      /\ \A u \in Tasks : u = Main \/ u \in Tools
  BY <1>1, TasksAre
<1>3. at[Main] \in MainPlaces /\ (\A u \in Tools : at[u] \in ToolPlaces)
      /\ (at[Main] = "RUN_START" => ~orphaned)
  BY <1>1 DEF TaskInv
<1>4. /\ ~orphaned /\ at[Main] # "tools" => \A u \in Tools : at[u] \in Ended
      /\ ~orphaned /\ at[Main] \in {"RUN_START", "SENTINEL", "done"} => spans = {}
      /\ spans \subseteq {"run", "turn"} \cup Tools
  BY DEF StreamInv, LeftInv, OpenInv, FlagsInv
<1>5. CASE t = Main
  <2>1. /\ l \in MainPlaces /\ l # "RUN_START"
        /\ l = "SENTINEL" => at[Main] = "RUN_END"
        /\ l = "done" => at[Main] = "SENTINEL"
    BY <1>3, <1>5, MainGoesOn
  <2>2. Moved(t, l)
    BY <1>1, <2>1, MovesMoved
  <2>3. at'[Main] = l /\ \A u \in Tools : at'[u] = IF l = "tools" THEN "TOOL_DECISION" ELSE at[u]
    BY <2>2, <1>2, <1>5 DEF Moved
  <2>4. TaskInv'
    <3>1. at' \in [Tasks -> MainPlaces \cup ToolPlaces]
      BY <2>2, Zenon DEF Moved
    <3>2. \A u \in Tools : at'[u] \in ToolPlaces
      BY <2>3, <1>3 DEF ToolPlaces
    <3> HIDE DEF MainPlaces, ToolPlaces
    <3> QED BY <2>1, <2>3, <3>1, <3>2 DEF TaskInv
  <2>5. at[Main] # "tools"
    BY <1>5 DEF Emits, Events
  <2>6. LeftInv'
    BY <2>3, <2>5, <1>4 DEF LeftInv, Ended
  <2>7. at[Main] \notin {"TOOL_START", "TOOL_END"}
    BY <1>3 DEF MainPlaces
  <2>8. spans' \subseteq {"run", "turn"} \cup Tools
    BY <2>7, <1>4, <1>5, HandledType
  <2>9. OpenInv'
    <3>1. CASE l = "SENTINEL"
      <4>1. spans' = {}
        BY <3>1, <2>1, <1>5, SMT DEF Handled
      <4> QED BY <4>1, Zenon DEF OpenInv
    <3>2. CASE l = "done"
      <4>1. spans' = spans /\ at[Main] = "SENTINEL"
        BY <3>2, <2>1, <1>5, SMT DEF Handled
      <4> QED BY <4>1, <1>4 DEF OpenInv
    <3>3. CASE l # "SENTINEL" /\ l # "done"
      BY <3>3, <2>1, <2>3 DEF OpenInv
    <3> QED BY <3>1, <3>2, <3>3
  <2> QED BY <2>2, <2>4, <2>6, <2>8, <2>9
<1>6. CASE t \in Tools
  <2>1. l \in ToolPlaces /\ l # "tools" /\ at[t] \notin Ended
    BY <1>3, <1>6, ToolGoesOn
  <2>2. Moved(t, l)
    BY <1>1, <2>1, MovesMoved
  <2>3. at'[t] = l /\ \A u \in Tasks \ {t} : at'[u] = at[u]
    BY <2>2, <2>1 DEF Moved
  <2>4. at'[Main] = at[Main]
    BY <2>3, <1>2, <1>6
  <2>5. TaskInv'
    <3>1. at' \in [Tasks -> MainPlaces \cup ToolPlaces]
      BY <2>2, Zenon DEF Moved
    <3>2. \A u \in Tools : at'[u] \in ToolPlaces
      BY <2>1, <2>3, <1>2, <1>3
    <3> HIDE DEF MainPlaces, ToolPlaces
    <3> QED BY <2>4, <1>3, <3>1, <3>2 DEF TaskInv
  <2>6. orphaned \/ at[Main] = "tools"
    BY <1>4, <1>6, <2>1
  <2>7. LeftInv' /\ OpenInv'
    BY <2>4, <2>6 DEF LeftInv, OpenInv
  <2>8. spans' \subseteq {"run", "turn"} \cup Tools
    BY <1>4, <1>6, HandledType
  <2> QED BY <2>2, <2>5, <2>7, <2>8
<1> QED BY <1>2, <1>5, <1>6

\* What an event at the end of the stream leaves true of it
LEMMA SentGrows ==
    ASSUME StreamInv, Reading, NEW t \in Tasks, Emits(at[t]), NEW l \in After(at[t]),
           Moves(t, l), Moved(t, l), TaskInv',
           Puts(t), UNCHANGED <<consumer, delivered, orphaned>>
    PROVE  SentInv'
<1>1. TaskInv /\ queue \in Seq(Items) /\ delivered \in Seq(Tasks \X Events)
  BY DEF StreamInv, QueueInv
<1>2. /\ Main \in Tasks /\ Main \notin Tools
      /\ \A u \in Tools : u \in Tasks /\ u # Main
      /\ t = Main \/ t \in Tools
  BY <1>1, TasksAre
<1> DEFINE x == <<t, at[t]>>
<1>3. x \in Items
  BY DEF Emits, Items
<1>4. delivered \in Seq(Items)
  BY <1>1 DEF Items
<1>5. Sent' = Append(Sent, x) /\ Sent \in Seq(Items)
  <2>1. delivered \o Append(queue, x) = Append(delivered \o queue, x)
    BY <1>1, <1>3, <1>4, AppendAtEnd
  <2>2. delivered \o queue \in Seq(Items)
    BY <1>1, <1>4, ConcatProperties
  <2> QED BY <2>1, <2>2 DEF Sent, Puts
<1> DEFINE s == Sent
           new == Append(Sent, x)
<1>6. /\ Len(s) \in Nat /\ Len(new) = Len(s) + 1 /\ new[Len(new)] = x /\ new # <<>>
      /\ \A n \in 1..Len(s) : new[n] = s[n]
      /\ s = <<>> <=> Len(s) = 0
  BY <1>3, <1>5
<1>7. /\ Begins(s, at[Main])
      /\ at[Main] # "done" => NoSentinel(s)
      /\ ~orphaned => Ends(s, at[Main]) /\ \A u \in Tools : Paired(s, at[u], u)
  BY DEF StreamInv, SentInv
<1>8. /\ at[Main] \in MainPlaces /\ \A u \in Tools : at[u] \in ToolPlaces
      /\ at[Main] = "RUN_START" => ~orphaned
      /\ ~orphaned /\ at[Main] # "tools" => \A u \in Tools : at[u] \in Ended
  BY <1>1 DEF TaskInv, StreamInv, LeftInv
<1>9. /\ at'[t] = l
      /\ \A u \in Tasks \ {t} : at'[u] = IF l = "tools" THEN "TOOL_DECISION" ELSE at[u]
  BY DEF Moved
<1>10. \A u \in Tools :
          /\ Count(new, <<u, "TOOL_START">>)
                 = Count(s, <<u, "TOOL_START">>) + IF x = <<u, "TOOL_START">> THEN 1 ELSE 0
          /\ Count(new, <<u, "TOOL_END">>)
                 = Count(s, <<u, "TOOL_END">>) + IF x = <<u, "TOOL_END">> THEN 1 ELSE 0
          /\ Count(s, <<u, "TOOL_START">>) \in Nat /\ Count(s, <<u, "TOOL_END">>) \in Nat
  <2>1. ASSUME NEW e
        PROVE  Count(new, e) = Count(s, e) + Adds(x, e) /\ Count(s, e) \in Nat
    <3> HIDE DEF x
    <3> QED BY <1>3, <1>5, CountOne, Zenon
  <2> HIDE DEF s, new, x
  <2> QED BY <2>1 DEF Adds
<1>11. Reading' <=> Reading
  BY DEF Reading
<1> HIDE DEF s, new
<1>12. CASE t = Main
  <2>1. /\ l \in MainPlaces /\ l # "RUN_START"
        /\ l = "tools" => at[Main] = "USAGE"
        /\ l = "SENTINEL" => at[Main] = "RUN_END"
        /\ l = "done" => at[Main] = "SENTINEL"
        /\ at[Main] = "SENTINEL" => l = "done"
    BY <1>8, <1>12, MainGoesOn
  <2>2. x = <<Main, at[Main]>> /\ at'[Main] = l
    BY <1>9, <1>12
  <2>3. at[Main] # "done"
    BY <1>12 DEF Emits, Events
  <2>4. Begins(new, l)
    <3>1. CASE at[Main] = "RUN_START"
      BY <3>1, <2>1, <2>2, <1>6, <1>7 DEF Begins
    <3>2. CASE at[Main] # "RUN_START"
      <4>1. s # <<>> /\ s[1] = <<Main, "RUN_START">>
        BY <3>2, <1>7 DEF Begins
      <4>2. 1 \in 1..Len(s)
        BY <4>1, <1>6
      <4> QED BY <4>1, <4>2, <2>1, <1>6 DEF Begins
    <3> QED BY <3>1, <3>2
  <2>5. l # "done" => NoSentinel(new)
    <3>1. SUFFICES ASSUME l # "done", NEW n \in 1..Len(new) PROVE new[n][2] # "SENTINEL"
      BY <3>1 DEF NoSentinel
    <3>2. CASE n = Len(new)
      BY <3>1, <3>2, <2>1, <2>2, <1>6
    <3>3. CASE n # Len(new)
      <4>1. n \in 1..Len(s)
        BY <3>1, <3>3, <1>6
      <4> QED BY <4>1, <1>6, <1>7, <2>3 DEF NoSentinel
    <3> QED BY <3>2, <3>3
  <2>6. ASSUME ~orphaned PROVE Ends(new, l)
    <3>1. CASE l = "SENTINEL"
      BY <3>1, <2>1, <2>2, <1>6 DEF Ends
    <3>2. CASE l = "done"
      <4>1. Len(s) > 0 /\ s[Len(s)] = <<Main, "RUN_END">>
        BY <3>2, <2>1, <2>6, <1>7 DEF Ends
      <4>2. Len(new) > 1 /\ new[Len(new)] = <<Main, "SENTINEL">>
            /\ new[Len(new) - 1] = <<Main, "RUN_END">>
        BY <4>1, <3>2, <2>1, <2>2, <1>6
      <4>3. ASSUME NEW n \in 1..Len(new) - 1 PROVE new[n][2] # "SENTINEL"
        <5>1. n \in 1..Len(s)
          BY <1>6
        <5> QED BY <5>1, <1>6, <1>7, <2>3 DEF NoSentinel
      <4> QED BY <4>2, <4>3, <3>2 DEF Ends
    <3>3. CASE l # "SENTINEL" /\ l # "done"
      BY <3>3 DEF Ends
    <3> QED BY <3>1, <3>2, <3>3
  <2>7. ASSUME ~orphaned, NEW u \in Tools PROVE Paired(new, at'[u], u)
    <3>1. at[Main] \notin {"TOOL_START", "TOOL_END", "tools"}
      BY <1>8, <1>12 DEF MainPlaces, Emits, Events
    <3>2. x # <<u, "TOOL_START">> /\ x # <<u, "TOOL_END">>
      BY <3>1, <2>2, <1>2
    <3>3. at[u] \in Ended
      BY <3>1, <2>7, <1>8
    <3>4. at'[u] # "TOOL_END" /\ at[u] # "TOOL_END"
      BY <3>3, <1>2, <1>9, <1>12 DEF Ended
    <3>5. Paired(s, at[u], u)
      BY <2>7, <1>7
    <3> QED BY <3>2, <3>4, <3>5, <1>10 DEF Paired
  <2> QED BY <2>2, <2>4, <2>5, <2>6, <2>7, <1>5, <1>11 DEF SentInv, new
<1>13. CASE t \in Tools
  <2>1. /\ l \in ToolPlaces /\ l # "tools" /\ at[t] \notin Ended
        /\ at[t] \in {"TOOL_DECISION", "TOOL_START", "TOOL_END"}
        /\ l = "TOOL_END" <=> at[t] = "TOOL_START"
    BY <1>8, <1>13, ToolGoesOn
  <2>2. at'[Main] = at[Main]
    BY <2>1, <1>2, <1>9, <1>13
  <2>3. orphaned \/ at[Main] = "tools"
    BY <2>1, <1>8, <1>13
  <2>4. at[Main] # "RUN_START"
    BY <2>3, <1>8
  <2>5. Begins(new, at[Main])
    <3>1. s # <<>> /\ s[1] = <<Main, "RUN_START">>
      BY <2>4, <1>7 DEF Begins
    <3>2. 1 \in 1..Len(s)
      BY <3>1, <1>6
    <3> QED BY <3>1, <3>2, <2>4, <1>6 DEF Begins
  <2>6. at[Main] # "done" => NoSentinel(new)
    <3>1. SUFFICES ASSUME at[Main] # "done", NEW n \in 1..Len(new)
                   PROVE  new[n][2] # "SENTINEL"
      BY <3>1 DEF NoSentinel
    <3>2. CASE n = Len(new)
      BY <3>2, <2>1, <1>6
    <3>3. CASE n # Len(new)
      <4>1. n \in 1..Len(s)
        BY <3>3, <1>6
      <4> QED BY <4>1, <3>1, <1>6, <1>7 DEF NoSentinel
    <3> QED BY <3>2, <3>3
  <2>7. ~orphaned => Ends(new, at[Main])
    BY <2>3 DEF Ends
  <2>8. ASSUME ~orphaned, NEW u \in Tools PROVE Paired(new, at'[u], u)
    <3>1. Paired(s, at[u], u)
      BY <2>8, <1>7
    <3>2. CASE u = t
      BY <3>1, <3>2, <2>1, <1>9, <1>10 DEF Paired
    <3>3. CASE u # t
      <4>1. at'[u] = at[u]
        BY <3>3, <2>1, <1>2, <1>9
      <4>2. x # <<u, "TOOL_START">> /\ x # <<u, "TOOL_END">>
        BY <3>3
      <4> QED BY <3>1, <4>1, <4>2, <1>10 DEF Paired
    <3> QED BY <3>2, <3>3
  <2> QED BY <2>2, <2>5, <2>6, <2>7, <2>8, <1>5, <1>11 DEF SentInv, new
<1> QED BY <1>2, <1>12, <1>13

LEMMA EmitInv == ASSUME StreamInv, NEW t \in Tasks, Emit(t) PROVE StreamInv'
<1>1. /\ Emits(at[t])
      /\ UNCHANGED <<turn, sink, token, consumer, delivered, orphaned>>
      /\ how' \in [Tasks -> {"runs", "waits", "woken"}] /\ putters' \in Seq(Tasks)
      /\ \/ UNCHANGED <<at, queue, spans>>
         \/ /\ \E l \in After(at[t]) : Moves(t, l)
            /\ spans' = Handled(t, at[t])
            /\ Puts(t) \/ (UNCHANGED queue /\ ~sink)
  BY EmitIs
<1>2. Capacity \in Nat
  BY StreamConstants DEF StreamConstants
<1>3. GivenInv'
  BY <1>1, Zenon DEF StreamInv, GivenInv
<1>4. CASE UNCHANGED <<at, queue, spans>>
  <2>1. TaskInv' /\ LeftInv' /\ OpenInv' /\ ConsumerInv' /\ FlagsInv'
    BY <1>1, <1>4, Zenon DEF StreamInv, TaskInv, LeftInv, OpenInv, ConsumerInv, FlagsInv
  <2>2. QueueInv'
    BY <1>1, <1>4, Zenon DEF StreamInv, QueueInv
  <2>3. SentInv'
    BY <1>1, <1>4, Zenon DEF StreamInv, SentInv, Sent, Reading
  <2> QED BY <1>3, <2>1, <2>2, <2>3 DEF StreamInv
<1>5. ASSUME NEW l \in After(at[t]), Moves(t, l), spans' = Handled(t, at[t]),
             Puts(t) \/ (UNCHANGED queue /\ ~sink)
      PROVE  StreamInv'
  <2>1. /\ TaskInv' /\ LeftInv' /\ OpenInv'
        /\ spans' \subseteq {"run", "turn"} \cup Tools
        /\ Moved(t, l)
    BY <1>1, <1>5, TaskGoesOn
  <2>2. FlagsInv'
    BY <1>1, <2>1, Zenon DEF StreamInv, FlagsInv
  <2>3. queue \in Seq(Items) /\ Len(queue) <= Capacity /\ delivered \in Seq(Tasks \X Events)
    BY DEF StreamInv, QueueInv
  <2>4. QueueInv'
    <3>1. CASE UNCHANGED queue
      BY <1>1, <2>3, <3>1, Zenon DEF QueueInv
    <3>2. CASE Puts(t)
      <4>1. <<t, at[t]>> \in Items
        BY <1>1 DEF Emits, Items
      <4>2. queue' \in Seq(Items) /\ Len(queue') <= Capacity
        BY <4>1, <3>2, <2>3, <1>2 DEF Puts
      <4> QED BY <1>1, <4>2, <2>3, Zenon DEF QueueInv
    <3> QED BY <3>1, <3>2, <1>5
  <2>5. ConsumerInv'
    <3>1. at[Main] = "done" => at'[Main] = "done"
      <4>1. SUFFICES ASSUME at[Main] = "done" PROVE at'[Main] = "done"
        OBVIOUS
      <4>2. t # Main
        BY <4>1, <1>1 DEF Emits, Events
      <4>3. /\ Main \in Tasks /\ t \in Tools /\ at[t] \in ToolPlaces
        BY <4>2, TasksAre DEF StreamInv, TaskInv
      <4>4. l # "tools"
        BY <4>3, <1>1, ToolGoesOn
      <4> QED BY <4>1, <4>2, <4>3, <4>4, <2>1 DEF Moved
    <3> QED BY <3>1, <1>1 DEF StreamInv, ConsumerInv
  <2>6. SentInv'
    <3>1. CASE Reading
      <4>1. Puts(t)
        BY <3>1, <1>5 DEF StreamInv, ConsumerInv, Reading
      <4> QED BY <4>1, <3>1, <1>1, <1>5, <2>1, SentGrows
    <3>2. CASE ~Reading
      BY <3>2, <1>1, Zenon DEF SentInv, Reading
    <3> QED BY <3>1, <3>2
  <2> QED BY <1>3, <2>1, <2>2, <2>4, <2>5, <2>6 DEF StreamInv
<1> QED BY <1>1, <1>4, <1>5

\* The run goes on by itself.
LEMMA MainMoves ==
    ASSUME StreamInv, at[Main] \in {"top", "tools"},
           NEW l \in {"top", "NOTICE", "TURN_START"}, Moves(Main, l),
           UNCHANGED <<how, sink, token, queue, putters, consumer, delivered, spans>>,
           turn' \in 0..MaxTurns, orphaned' \in BOOLEAN, orphaned => orphaned',
           ~orphaned' => \A t \in Tools : at[t] \in Ended
    PROVE  StreamInv'
<1>1. TaskInv
  BY DEF StreamInv
<1>2. /\ Main \in Tasks /\ Main \notin Tools
      /\ \A t \in Tools : t \in Tasks /\ t # Main
  BY <1>1, TasksAre
<1>3. Moved(Main, l)
  <2>1. l \in MainPlaces \cup ToolPlaces
    BY DEF MainPlaces
  <2> QED BY <1>1, <1>2, <2>1, MovesMoved
<1>4. at'[Main] = l /\ \A t \in Tools : at'[t] = at[t]
  BY <1>2, <1>3 DEF Moved
<1>5. TaskInv'
  <2>1. at' \in [Tasks -> MainPlaces \cup ToolPlaces]
    BY <1>3, Zenon DEF Moved
  <2>2. l \in MainPlaces /\ l # "RUN_START"
    BY DEF MainPlaces
  <2> HIDE DEF MainPlaces, ToolPlaces
  <2> QED BY <1>1, <1>4, <2>1, <2>2 DEF TaskInv
<1>6. QueueInv'
  BY Zenon DEF StreamInv, QueueInv
<1>7. ConsumerInv' /\ GivenInv'
  <2>1. consumer # "finishes"
    BY DEF StreamInv, ConsumerInv
  <2> QED BY <2>1 DEF StreamInv, ConsumerInv, GivenInv
<1>8. FlagsInv'
  BY Zenon DEF StreamInv, FlagsInv
<1>9. LeftInv' /\ OpenInv'
  BY <1>4 DEF LeftInv, OpenInv
<1>10. SentInv'
  <2>1. Sent' = Sent /\ (Reading' <=> Reading)
    BY Zenon DEF Sent, Reading
  <2>2. ASSUME Reading
        PROVE  /\ Begins(Sent, l) /\ NoSentinel(Sent)
               /\ ~orphaned' => Ends(Sent, l) /\ \A t \in Tools : Paired(Sent, at'[t], t)
    <3>1. /\ Begins(Sent, at[Main]) /\ NoSentinel(Sent)
          /\ ~orphaned => \A t \in Tools : Paired(Sent, at[t], t)
      BY <2>2 DEF StreamInv, SentInv
    <3>2. Begins(Sent, l)
      BY <3>1 DEF Begins
    <3>3. Ends(Sent, l)
      BY DEF Ends
    <3> QED BY <1>4, <3>1, <3>2, <3>3
  <2> QED BY <1>4, <2>1, <2>2, Zenon DEF SentInv
<1> QED BY <1>5, <1>6, <1>7, <1>8, <1>9, <1>10 DEF StreamInv

LEMMA TopInv == ASSUME StreamInv, Top PROVE StreamInv'
<1>1. /\ at[Main] = "top"
      /\ UNCHANGED <<how, sink, token, queue, putters, consumer, delivered, spans, orphaned>>
  BY DEF Top
<1>2. turn \in 0..MaxTurns /\ orphaned \in BOOLEAN /\ MaxTurns \in Nat
  BY StreamConstants DEF StreamConstants, StreamInv, FlagsInv
<1>3. ~orphaned' => \A t \in Tools : at[t] \in Ended
  BY <1>1 DEF StreamInv, LeftInv
<1>4. CASE token = "set" \/ turn = MaxTurns
  <2>1. Moves(Main, "NOTICE") /\ turn' \in 0..MaxTurns
    BY <1>2, <1>4 DEF Top
  <2> QED BY <1>1, <1>2, <1>3, <2>1, MainMoves
<1>5. CASE ~(token = "set" \/ turn = MaxTurns)
  <2>1. Moves(Main, "TURN_START") /\ turn' = turn + 1
    BY <1>5 DEF Top
  <2>2. turn' \in 0..MaxTurns
    BY <1>2, <1>5, <2>1
  <2> QED BY <1>1, <1>2, <1>3, <2>1, <2>2, MainMoves
<1> QED BY <1>4, <1>5

LEMMA GatherInv == ASSUME StreamInv, Gather PROVE StreamInv'
<1>1. /\ at[Main] = "tools"
      /\ UNCHANGED <<how, turn, sink, token, queue, putters, consumer, delivered, spans>>
  BY DEF Gather
<1>2. turn' \in 0..MaxTurns /\ orphaned \in BOOLEAN
  BY <1>1 DEF StreamInv, FlagsInv
<1>3. CASE (\A t \in Tools : at[t] = "done") /\ Moves(Main, "top") /\ UNCHANGED orphaned
  <2>1. \A t \in Tools : at[t] \in Ended
    BY <1>3 DEF Ended
  <2> QED BY <1>1, <1>2, <1>3, <2>1, MainMoves
<1>4. CASE Moves(Main, "NOTICE") /\ orphaned' = (orphaned \/ \E t \in Tools : at[t] \notin Ended)
  <2>1. /\ orphaned' \in BOOLEAN /\ orphaned => orphaned'
        /\ ~orphaned' => \A t \in Tools : at[t] \in Ended
    BY <1>4, Zenon
  <2> QED BY <1>1, <1>2, <1>4, <2>1, MainMoves
<1> QED BY <1>3, <1>4, Zenon DEF Gather

LEMMA CancelInv == ASSUME StreamInv, Cancel PROVE StreamInv'
<1>1. /\ UNCHANGED <<at, how, turn, sink, queue, putters, consumer, delivered, spans, orphaned>>
      /\ token' = "set"
  BY DEF Cancel
<1>2. FlagsInv'
  BY <1>1 DEF StreamInv, FlagsInv
<1>3. TaskInv' /\ QueueInv' /\ ConsumerInv' /\ LeftInv' /\ OpenInv' /\ GivenInv'
  BY <1>1, Zenon
     DEF StreamInv, TaskInv, QueueInv, ConsumerInv, LeftInv, OpenInv, GivenInv
<1>4. SentInv'
  BY <1>1, Zenon DEF StreamInv, SentInv, Sent, Reading
<1> QED BY <1>2, <1>3, <1>4 DEF StreamInv

LEMMA StutterInv == ASSUME StreamInv, UNCHANGED streamVars PROVE StreamInv'
<1>1. UNCHANGED <<at, how, turn, sink, token, queue, putters, consumer, delivered, spans,
                  orphaned>>
  BY DEF streamVars
<1>2. TaskInv' /\ QueueInv' /\ ConsumerInv' /\ FlagsInv' /\ LeftInv' /\ OpenInv' /\ GivenInv'
  BY <1>1, Zenon
     DEF StreamInv, TaskInv, QueueInv, ConsumerInv, FlagsInv, LeftInv, OpenInv, GivenInv
<1>3. SentInv'
  BY <1>1, Zenon DEF StreamInv, SentInv, Sent, Reading
<1> QED BY <1>2, <1>3 DEF StreamInv

LEMMA GoOnInv ==
    ASSUME StreamInv, NEW next \in {"gets", "leaves"}, GoOn(next) PROVE StreamInv'
<1>1. /\ UNCHANGED <<at, how, turn, sink, token, queue, putters, delivered, spans, orphaned>>
      /\ consumer = "holds" /\ consumer' = next
  BY DEF GoOn
<1>2. TaskInv' /\ QueueInv' /\ FlagsInv' /\ LeftInv' /\ OpenInv'
  BY <1>1, Zenon DEF StreamInv, TaskInv, QueueInv, FlagsInv, LeftInv, OpenInv
<1>3. ConsumerInv' /\ GivenInv'
  BY <1>1 DEF StreamInv, ConsumerInv, GivenInv
<1>4. SentInv'
  <2>1. Sent' = Sent /\ Reading
    BY <1>1 DEF Sent, Reading
  <2> QED BY <1>1, <2>1, Zenon DEF StreamInv, SentInv
<1> QED BY <1>2, <1>3, <1>4 DEF StreamInv

LEMMA JoinInv == ASSUME StreamInv, Join PROVE StreamInv'
<1>1. /\ UNCHANGED <<at, how, turn, sink, token, queue, putters, delivered, spans, orphaned>>
      /\ consumer' = "closed"
  BY DEF Join
<1>2. TaskInv' /\ QueueInv' /\ FlagsInv' /\ LeftInv' /\ OpenInv'
  BY <1>1, Zenon DEF StreamInv, TaskInv, QueueInv, FlagsInv, LeftInv, OpenInv
<1>3. ConsumerInv' /\ GivenInv' /\ SentInv'
  BY <1>1 DEF ConsumerInv, GivenInv, SentInv, Reading
<1> QED BY <1>2, <1>3 DEF StreamInv

LEMMA WakesType ==
    ASSUME QueueInv, WakesPutter
    PROVE  how' \in [Tasks -> {"runs", "waits", "woken"}] /\ putters' \in Seq(Tasks)
<1>1. CASE putters = <<>>
  BY <1>1 DEF QueueInv, WakesPutter
<1>2. CASE putters # <<>>
  <2>1. Head(putters) \in Tasks /\ Tail(putters) \in Seq(Tasks)
    BY <1>2, HeadTailProperties DEF QueueInv
  <2>2. putters' = Tail(putters) /\ how' = [how EXCEPT ![Head(putters)] = "woken"]
    BY <1>2, Zenon DEF WakesPutter
  <2>3. how \in [Tasks -> {"runs", "waits", "woken"}]
    BY DEF QueueInv
  <2>4. how' \in [Tasks -> {"runs", "waits", "woken"}]
    BY <2>1, <2>2, <2>3
  <2> QED BY <2>1, <2>2, <2>4
<1> QED BY <1>1, <1>2

\* What the consumer is given is the head of what it has not been given.
LEMMA HoldsInv ==
    ASSUME StreamInv, consumer = "gets", queue # <<>>, queue' = Tail(queue), WakesPutter,
           Head(queue)[2] # "SENTINEL", consumer' = "holds",
           delivered' = Append(delivered, Head(queue)),
           UNCHANGED <<at, turn, sink, token, spans, orphaned>>
    PROVE  StreamInv'
<1>1. /\ QueueInv /\ queue \in Seq(Items) /\ Len(queue) <= Capacity /\ Capacity \in Nat
      /\ delivered \in Seq(Tasks \X Events)
  BY StreamConstants DEF StreamConstants, StreamInv, QueueInv
<1>2. Head(queue) \in Items /\ Tail(queue) \in Seq(Items) /\ Len(Tail(queue)) <= Len(queue)
  BY <1>1
<1>3. Head(queue) \in Tasks \X Events
  BY <1>2 DEF Items
<1>4. QueueInv'
  <2>1. delivered' \in Seq(Tasks \X Events)
    BY <1>1, <1>3, AppendProperties, Zenon
  <2>2. queue' \in Seq(Items) /\ Len(queue') <= Capacity
    BY <1>1, <1>2
  <2>3. how' \in [Tasks -> {"runs", "waits", "woken"}] /\ putters' \in Seq(Tasks)
    BY <1>1, WakesType
  <2> QED BY <2>1, <2>2, <2>3, Zenon DEF QueueInv
<1>5. TaskInv' /\ FlagsInv' /\ LeftInv' /\ OpenInv'
  BY Zenon DEF StreamInv, TaskInv, FlagsInv, LeftInv, OpenInv
<1>6. ConsumerInv' /\ GivenInv'
  BY DEF StreamInv, ConsumerInv, GivenInv
<1>7. SentInv'
  <2>1. delivered \in Seq(Items)
    BY <1>1 DEF Items
  <2>2. Sent' = Sent /\ Reading
    BY <1>1, <2>1, HeadGoesOver DEF Sent, Reading
  <2> QED BY <2>2, Zenon DEF StreamInv, SentInv
<1> QED BY <1>4, <1>5, <1>6, <1>7 DEF StreamInv

\* The sentinel comes after all the run has emitted.
LEMMA SentinelIsLast ==
    ASSUME StreamInv, consumer = "gets", queue # <<>>, Head(queue)[2] = "SENTINEL"
    PROVE  at[Main] = "done" /\ (~orphaned => Complete(delivered))
<1>1. /\ queue \in Seq(Items) /\ delivered \in Seq(Tasks \X Events) /\ delivered \in Seq(Items)
      /\ TaskInv
  BY DEF StreamInv, QueueInv, Items
<1> DEFINE d == delivered
           s == Sent
           k == Len(d) + 1
<1>2. /\ s \in Seq(Items) /\ Len(s) = Len(d) + Len(queue)
      /\ \A n \in 1..Len(d) : s[n] = d[n]
      /\ s[k] = Head(queue) /\ k \in 1..Len(s) /\ Len(d) \in Nat
  BY <1>1 DEF Sent
<1>3. /\ Begins(s, at[Main])
      /\ at[Main] # "done" => NoSentinel(s)
      /\ ~orphaned => Ends(s, at[Main]) /\ \A t \in Tools : Paired(s, at[t], t)
  BY DEF StreamInv, SentInv, Reading
<1>4. at[Main] = "done"
  <2> HIDE DEF s, k, d
  <2> QED BY <1>2, <1>3 DEF NoSentinel
<1>5. ASSUME ~orphaned PROVE Complete(d)
  <2>1. /\ Len(s) > 1 /\ s[Len(s)] = <<Main, "SENTINEL">> /\ s[Len(s) - 1] = <<Main, "RUN_END">>
        /\ \A n \in 1..Len(s) - 1 : s[n][2] # "SENTINEL"
    BY <1>3, <1>4, <1>5 DEF Ends
  <2>2. s[1] = <<Main, "RUN_START">>
    BY <1>3, <1>4 DEF Begins
  <2>3. k = Len(s) /\ Len(queue) = 1 /\ Len(d) > 0
    <3>1. s[k][2] = "SENTINEL"
      BY <1>2
    <3>2. Len(s) \in Nat /\ Len(queue) \in Nat
      BY <1>1, <1>2
    <3>3. Len(s) = Len(d) + Len(queue) /\ k \in 1..Len(s) /\ Len(d) \in Nat
      BY <1>2
    <3> HIDE DEF s
    <3>4. k \notin 1..Len(s) - 1
      BY <2>1, <3>1
    <3>5. Len(s) > 1
      BY <2>1
    <3> HIDE DEF d
    <3>6. \A i, j, m \in Nat : /\ i = m + j /\ m + 1 \in 1..i /\ m + 1 \notin 1..i - 1 /\ i > 1
                            => m + 1 = i /\ j = 1 /\ m > 0
      OBVIOUS
    <3> QED BY <3>2, <3>3, <3>4, <3>5, <3>6
  <2>4. d # <<>> /\ d[1] = <<Main, "RUN_START">> /\ d[Len(d)] = <<Main, "RUN_END">>
    <3>1. 1 \in 1..Len(d) /\ Len(d) \in 1..Len(d) /\ Len(s) - 1 = Len(d)
      BY <1>2, <2>3
    <3>2. d # <<>>
      BY <2>3
    <3> HIDE DEF s, d
    <3> QED BY <1>2, <2>1, <2>2, <3>1, <3>2
  <2>5. s = Append(d, <<Main, "SENTINEL">>)
    <3>1. queue = <<Head(queue)>>
      BY <1>1, <2>3
    <3>2. Append(d, Head(queue)) = d \o <<Head(queue)>>
      BY <1>1, <3>1, AppendIsConcat
    <3>3. Head(queue) = <<Main, "SENTINEL">>
      BY <1>2, <2>1, <2>3
    <3>4. s = d \o queue
      BY DEF Sent
    <3> QED BY <3>1, <3>2, <3>3, <3>4
  <2>6. ASSUME NEW t \in Tools
        PROVE  Count(d, <<t, "TOOL_START">>) = Count(d, <<t, "TOOL_END">>)
    <3>1. at[t] # "TOOL_END"
      BY <1>4, <1>5 DEF StreamInv, LeftInv, Ended
    <3>2. Paired(s, at[t], t)
      BY <1>3, <1>5
    <3>3. <<Main, "SENTINEL">> \in Items
      BY <1>1, TasksAre DEF Items
    <3>4. /\ Adds(<<Main, "SENTINEL">>, <<t, "TOOL_START">>) = 0
          /\ Adds(<<Main, "SENTINEL">>, <<t, "TOOL_END">>) = 0
      BY DEF Adds
    <3>5. \A e : Count(s, e) = Count(d, e) + Adds(<<Main, "SENTINEL">>, e) /\ Count(d, e) \in Nat
      BY <1>1, <2>5, <3>3, CountOne, Zenon
    <3> HIDE DEF s, d
    <3> QED BY <3>1, <3>2, <3>4, <3>5 DEF Paired
  <2> QED BY <2>4, <2>6 DEF Complete
<1> QED BY <1>4, <1>5

LEMMA GetInv == ASSUME StreamInv, Get PROVE StreamInv'
<1>1. /\ consumer = "gets" /\ queue # <<>> /\ queue' = Tail(queue) /\ WakesPutter
      /\ UNCHANGED <<at, turn, sink, token, spans, orphaned>>
  BY DEF Get
<1>2. CASE Head(queue)[2] # "SENTINEL"
  <2>1. consumer' = "holds" /\ delivered' = Append(delivered, Head(queue))
    BY <1>2, Zenon DEF Get
  <2> QED BY <1>1, <1>2, <2>1, HoldsInv
<1>3. CASE Head(queue)[2] = "SENTINEL"
  <2>1. consumer' = "finishes" /\ UNCHANGED delivered
    BY <1>3, Zenon DEF Get
  <2>2. at[Main] = "done" /\ (~orphaned => Complete(delivered))
    BY <1>1, <1>3, SentinelIsLast
  <2>3. QueueInv'
    <3>1. /\ QueueInv /\ queue \in Seq(Items) /\ Len(queue) <= Capacity /\ Capacity \in Nat
          /\ delivered \in Seq(Tasks \X Events)
      BY StreamConstants DEF StreamConstants, StreamInv, QueueInv
    <3>2. queue' \in Seq(Items) /\ Len(queue') <= Capacity
      BY <3>1, <1>1
    <3>3. how' \in [Tasks -> {"runs", "waits", "woken"}] /\ putters' \in Seq(Tasks)
      BY <1>1, <3>1, WakesType
    <3> QED BY <2>1, <3>1, <3>2, <3>3, Zenon DEF QueueInv
  <2>4. TaskInv' /\ FlagsInv' /\ LeftInv' /\ OpenInv'
    BY <1>1, Zenon DEF StreamInv, TaskInv, FlagsInv, LeftInv, OpenInv
  <2>5. ConsumerInv'
    BY <1>1, <2>1, <2>2 DEF StreamInv, ConsumerInv
  <2>6. GivenInv' /\ SentInv'
    BY <1>1, <2>1, <2>2 DEF GivenInv, SentInv, Reading
  <2> QED BY <2>3, <2>4, <2>5, <2>6 DEF StreamInv
<1> QED BY <1>2, <1>3

\* A cancelled task takes what it awaits with it.
LEMMA KilledInv ==
    ASSUME StreamInv, Killed, at[Main] # "done", UNCHANGED <<turn, token, queue, delivered, spans>>
    PROVE  TaskInv' /\ QueueInv' /\ LeftInv' /\ OpenInv' /\ orphaned' \in BOOLEAN
<1> DEFINE dead == {Main} \cup (IF at[Main] = "tools" THEN {t \in Tools : at[t] \notin Ended} ELSE {})
<1>1. /\ at' = [t \in Tasks |-> IF t \notin dead THEN at[t]
                                ELSE IF t = Main THEN KilledAt(at[t]) ELSE "killed"]
      /\ how' = [t \in Tasks |-> IF t \in dead THEN "runs" ELSE how[t]]
      /\ putters' = Without(putters, dead)
      /\ orphaned' = (orphaned \/ at[Main] = "RUN_END")
  BY Zenon DEF Killed
<1>2. /\ Main \in Tasks /\ Main \notin Tools
      /\ \A t \in Tools : t \in Tasks /\ t # Main
      /\ \A t \in Tasks : t = Main \/ t \in Tools
  BY TasksAre DEF StreamInv
<1>3. /\ at[Main] \in MainPlaces /\ \A t \in Tools : at[t] \in ToolPlaces
      /\ orphaned \in BOOLEAN
      /\ ~orphaned /\ at[Main] # "tools" => \A t \in Tools : at[t] \in Ended
      /\ ~orphaned /\ at[Main] \in {"RUN_START", "SENTINEL", "done"} => spans = {}
  BY DEF StreamInv, TaskInv, FlagsInv, LeftInv, OpenInv
<1>4. /\ Main \in dead
      /\ \A t \in Tools : t \in dead <=> at[Main] = "tools" /\ at[t] \notin Ended
  BY <1>2
<1>5. /\ KilledAt(at[Main]) \in {"SENTINEL", "RUN_END", "done"}
      /\ KilledAt(at[Main]) = "SENTINEL" => at[Main] \in {"RUN_START", "RUN_END"}
      /\ KilledAt(at[Main]) = "done" => at[Main] = "SENTINEL"
  BY SMT DEF KilledAt
<1> HIDE DEF dead
<1>6. at'[Main] = KilledAt(at[Main])
  BY <1>1, <1>2, <1>4, Zenon
<1>7. ASSUME NEW t \in Tools PROVE at'[t] = IF t \in dead THEN "killed" ELSE at[t]
  BY <1>1, <1>2
<1>8. TaskInv'
  <2>1. \A t \in Tools : at'[t] \in ToolPlaces
    BY <1>3, <1>7 DEF ToolPlaces
  <2>2. at'[Main] \in MainPlaces /\ at'[Main] # "RUN_START"
    BY <1>5, <1>6 DEF MainPlaces
  <2>3. at' \in [Tasks -> MainPlaces \cup ToolPlaces]
    <3>1. \A t \in Tasks : at'[t] \in MainPlaces \cup ToolPlaces
      BY <1>2, <2>1, <2>2
    <3>2. at' = [t \in Tasks |-> at'[t]]
      BY <1>1
    <3> HIDE DEF MainPlaces, ToolPlaces
    <3> QED BY <3>1, <3>2
  <2> HIDE DEF MainPlaces, ToolPlaces
  <2> QED BY <2>1, <2>2, <2>3 DEF TaskInv
<1>9. QueueInv'
  <2>1. /\ queue \in Seq(Items) /\ Len(queue) <= Capacity /\ delivered \in Seq(Tasks \X Events)
        /\ how \in [Tasks -> {"runs", "waits", "woken"}] /\ putters \in Seq(Tasks)
    BY DEF StreamInv, QueueInv
  <2>2. how' \in [Tasks -> {"runs", "waits", "woken"}]
    BY <1>1, <2>1
  <2>3. Without(putters, dead) \in Seq(Tasks)
    BY <2>1, WithoutType
  <2> QED BY <1>1, <2>1, <2>2, <2>3, Zenon DEF QueueInv
<1>10. LeftInv'
  <2>1. ASSUME ~orphaned', NEW t \in Tools PROVE at'[t] \in Ended
    <3>1. ~orphaned
      BY <1>1, <2>1
    <3>2. CASE t \in dead
      BY <3>2, <1>7 DEF Ended
    <3>3. CASE t \notin dead
      BY <3>1, <3>3, <1>3, <1>4, <1>7
    <3> QED BY <3>2, <3>3
  <2> QED BY <2>1 DEF LeftInv
<1>11. OpenInv'
  <2>1. ASSUME ~orphaned', at'[Main] \in {"RUN_START", "SENTINEL", "done"} PROVE spans = {}
    <3>1. ~orphaned /\ at[Main] # "RUN_END"
      BY <1>1, <2>1
    <3> QED BY <3>1, <2>1, <1>3, <1>5, <1>6
  <2> QED BY <2>1 DEF OpenInv
<1>12. orphaned' \in BOOLEAN
  BY <1>1, Zenon
<1> QED BY <1>8, <1>9, <1>10, <1>11, <1>12

LEMMA LeaveInv == ASSUME StreamInv, Leave PROVE StreamInv'
<1>1. /\ consumer \in {"leaves", "finishes"} /\ sink' = FALSE
      /\ UNCHANGED <<turn, queue, delivered, spans>>
  BY DEF Leave
<1>2. FlagsInv
  BY DEF StreamInv
<1>3. CASE at[Main] = "done"
  <2>1. /\ consumer' = IF consumer = "finishes" THEN "finished" ELSE "closed"
        /\ UNCHANGED <<at, how, token, putters, orphaned>>
    BY <1>3, Zenon DEF Leave
  <2>2. TaskInv' /\ QueueInv' /\ LeftInv' /\ OpenInv'
    BY <1>1, <2>1, Zenon DEF StreamInv, TaskInv, QueueInv, LeftInv, OpenInv
  <2>3. FlagsInv'
    <3>1. sink' \in BOOLEAN
      BY <1>1
    <3> QED BY <1>1, <1>2, <2>1, <3>1, Zenon DEF FlagsInv
  <2>4. consumer' \in {"finished", "closed"} /\ consumer' = "finished" => consumer = "finishes"
    BY <2>1
  <2>5. ConsumerInv' /\ SentInv'
    BY <2>4, <2>1 DEF ConsumerInv, SentInv, Reading
  <2>6. GivenInv'
    BY <1>1, <2>1, <2>4 DEF StreamInv, GivenInv
  <2> QED BY <2>2, <2>3, <2>5, <2>6 DEF StreamInv
<1>4. CASE at[Main] # "done"
  <2>1. /\ consumer' = "joins"
        /\ IF token = "none" THEN Killed /\ UNCHANGED token
           ELSE token' = "set" /\ UNCHANGED <<at, how, putters, orphaned>>
    BY <1>4, Zenon DEF Leave
  <2>2. TaskInv' /\ QueueInv' /\ LeftInv' /\ OpenInv' /\ orphaned' \in BOOLEAN
        /\ token' \in {"none", "clear", "set"}
    <3>1. CASE token = "none"
      <4>1. Killed /\ UNCHANGED token
        BY <2>1, <3>1, Zenon
      <4>2. TaskInv' /\ QueueInv' /\ LeftInv' /\ OpenInv' /\ orphaned' \in BOOLEAN
        BY <1>1, <1>4, <4>1, KilledInv
      <4> QED BY <4>1, <4>2, <1>2 DEF FlagsInv
    <3>2. CASE token # "none"
      <4>1. token' = "set" /\ UNCHANGED <<at, how, putters, orphaned>>
        BY <2>1, <3>2, Zenon
      <4>2. TaskInv' /\ QueueInv' /\ LeftInv' /\ OpenInv'
        BY <1>1, <4>1, Zenon DEF StreamInv, TaskInv, QueueInv, LeftInv, OpenInv
      <4>3. orphaned' \in BOOLEAN
        BY <4>1, <1>2, Zenon DEF FlagsInv
      <4> QED BY <4>1, <4>2, <4>3
    <3> QED BY <3>1, <3>2
  <2>3. FlagsInv'
    <3>1. sink' \in BOOLEAN
      BY <1>1
    <3> QED BY <1>1, <1>2, <2>2, <3>1, Zenon DEF FlagsInv
  <2>4. ConsumerInv' /\ SentInv' /\ GivenInv'
    BY <2>1 DEF ConsumerInv, SentInv, GivenInv, Reading
  <2> QED BY <2>2, <2>3, <2>4 DEF StreamInv
<1> QED BY <1>3, <1>4

LEMMA StreamNextInv == StreamInv /\ [StreamNext]_streamVars => StreamInv'
<1> SUFFICES ASSUME StreamInv, [StreamNext]_streamVars PROVE StreamInv'
  OBVIOUS
<1>1. ASSUME NEW t \in Tasks, TaskStep(t) PROVE StreamInv'
  <2>1. CASE Emit(t)
    BY <2>1, EmitInv
  <2>2. CASE Top
    BY <2>2, TopInv
  <2>3. CASE Gather
    BY <2>3, GatherInv
  <2> QED BY <1>1, <2>1, <2>2, <2>3 DEF TaskStep
<1>2. CASE Cancel
  BY <1>2, CancelInv
<1>3. CASE Get
  BY <1>3, GetInv
<1>4. CASE GoOn("gets") \/ GoOn("leaves")
  BY <1>4, GoOnInv
<1>5. CASE Leave
  BY <1>5, LeaveInv
<1>6. CASE Join
  BY <1>6, JoinInv
<1>7. CASE UNCHANGED streamVars
  BY <1>7, StutterInv
<1> QED BY <1>1, <1>2, <1>3, <1>4, <1>5, <1>6, <1>7 DEF StreamNext

LEMMA StreamInvariant == StreamSpec => []StreamInv
<1>1. StreamInit => StreamInv
  BY StreamInitInv
<1>2. StreamInv /\ [StreamNext]_streamVars => StreamInv'
  BY StreamNextInv
<1> QED BY <1>1, <1>2, PTL DEF StreamSpec

\* What goes into the queue, whatever its size, the number of calls and the order in
\* which the tasks run, is what the consumer is given: a run followed to its end is
\* given whole (coordinator.py:803-808).
THEOREM StreamsAreComplete == StreamSpec => []StreamIsComplete
<1>1. ASSUME StreamInv PROVE StreamTypeOK
  <2>1. at \in [Tasks -> Events \cup Ended \cup {"top", "tools", "SENTINEL"}]
    <3>1. MainPlaces \cup ToolPlaces \subseteq Events \cup Ended \cup {"top", "tools", "SENTINEL"}
      BY DEF MainPlaces, ToolPlaces, Events, Ended
    <3>2. at \in [Tasks -> MainPlaces \cup ToolPlaces]
      BY <1>1 DEF StreamInv, TaskInv
    <3> HIDE DEF MainPlaces, ToolPlaces
    <3> QED BY <3>1, <3>2
  <2>2. /\ how \in [Tasks -> {"runs", "waits", "woken"}]
        /\ queue \in Seq(Tasks \X (Events \cup {"SENTINEL"})) /\ Len(queue) <= Capacity
        /\ putters \in Seq(Tasks) /\ delivered \in Seq(Tasks \X Events)
    BY <1>1, Zenon DEF StreamInv, QueueInv, Items
  <2> QED BY <1>1, <2>1, <2>2, Zenon DEF StreamTypeOK, StreamInv, ConsumerInv, FlagsInv
<1>2. ASSUME StreamInv PROVE StreamIsComplete
  <2>1. StreamTypeOK
    BY <1>1, <1>2
  <2>2. ASSUME consumer = "finished", ~orphaned
        PROVE  /\ Head(delivered) = <<Main, "RUN_START">>
               /\ Last(delivered) = <<Main, "RUN_END">>
               /\ \A t \in Tools :
                      Count(delivered, <<t, "TOOL_START">>) = Count(delivered, <<t, "TOOL_END">>)
    <3>1. Complete(delivered) /\ delivered \in Seq(Tasks \X Events)
      BY <1>2, <2>2 DEF StreamInv, GivenInv, QueueInv
    <3>2. Head(delivered) = delivered[1] /\ Last(delivered) = delivered[Len(delivered)]
      BY <3>1 DEF Complete, Last
    <3> QED BY <3>1, <3>2, Zenon DEF Complete
  <2> QED BY <2>1, <2>2 DEF StreamIsComplete
<1> QED BY <1>2, StreamInvariant, PTL

\* A run leaves no span of its telemetry open (telemetry.py:339-360).
THEOREM NoSpanLeft == StreamSpec => []SpansEnd
<1>1. StreamInv => SpansEnd
  BY DEF StreamInv, OpenInv, SpansEnd, Finished
<1> QED BY <1>1, StreamInvariant, PTL
=================================================================================
