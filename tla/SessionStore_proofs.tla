------------------------- MODULE SessionStore_proofs -------------------------
(* Theorems about SessionStore, for any messages, transcripts, crashes and    *)
(* version 1 files, with or without torn lines and transcripts that diverge.  *)
EXTENDS SessionStore, SequenceTheorems, WellFoundedInduction, TLAPS

-------------------------------------------------------------------------------
(* What load()'s loop finds                                                   *)

LEMMA LeastNumber == ASSUME NEW S \in SUBSET Nat, S # {} PROVE \E m \in S : \A k \in S : m <= k
<1> DEFINE R == OpToRel(<, Nat)
<1>1. IsWellFoundedOn(R, Nat)
  BY NatLessThanWellFounded, Zenon
<1>2. ASSUME NEW k \in Nat, NEW m \in Nat, k < m PROVE <<k, m>> \in R
  BY <1>2 DEF OpToRel
<1> HIDE DEF R
<1>3. PICK m \in S : \A k \in S : ~(<<k, m>> \in R)
  BY <1>1, WFMin
<1>4. ASSUME NEW k \in S PROVE m <= k
  <2>1. ~(k < m)
    BY <1>2, <1>3, <1>4
  <2>2. QED
    BY <2>1
<1>5. QED
  BY <1>4


\* The first M lines are read.
Scans(lines, have, M) ==
    have = [n \in 0..M |-> IF n = 0 THEN NothingRead ELSE Read(have[n - 1], lines[n])]

LEMMA NoneScanned == ASSUME NEW lines PROVE Scans(lines, [n \in 0..0 |-> NothingRead], 0)
<1> DEFINE f == [n \in 0..0 |-> NothingRead]
           g == [n \in 0..0 |-> IF n = 0 THEN NothingRead ELSE Read(f[n - 1], lines[n])]
<1>1. \A n \in 0..0 : n = 0
  OBVIOUS
<1>2. \A n \in 0..0 : f[n] = g[n]
  BY <1>1
<1>3. f = g
  BY <1>2
<1>4. QED
  BY <1>3 DEF Scans

LEMMA OneMoreScanned ==
    ASSUME NEW lines, NEW M \in Nat \ {0}, NEW g, Scans(lines, g, M - 1)
    PROVE  \E f : Scans(lines, f, M)
<1> DEFINE f == [n \in 0..M |-> IF n = M THEN Read(g[M - 1], lines[M]) ELSE g[n]]
           h == [n \in 0..M |-> IF n = 0 THEN NothingRead ELSE Read(f[n - 1], lines[n])]
<1>1. ASSUME NEW n \in 0..M - 1
      PROVE  g[n] = IF n = 0 THEN NothingRead ELSE Read(g[n - 1], lines[n])
  BY Zenon DEF Scans
<1>2. ASSUME NEW n \in 0..M - 1 PROVE f[n] = g[n]
  BY n \in 0..M /\ n # M
<1>3. f[M] = Read(g[M - 1], lines[M])
  OBVIOUS
<1>4. ASSUME NEW n \in 0..M PROVE f[n] = h[n]
  <2>1. h[n] = IF n = 0 THEN NothingRead ELSE Read(f[n - 1], lines[n])
    BY Zenon
  <2> HIDE DEF f, h
  <2>2. CASE n = M
    <3>1. f[M - 1] = g[M - 1] /\ M # 0
      BY <1>2, M - 1 \in 0..M - 1
    <3>2. QED
      BY <1>3, <2>1, <2>2, <3>1
  <2>3. CASE n # M /\ n # 0
    <3>1. n \in 0..M - 1 /\ n - 1 \in 0..M - 1
      BY <2>3
    <3>2. QED
      BY <1>1, <1>2, <2>1, <2>3, <3>1
  <2>4. CASE n # M /\ n = 0
    <3>1. n \in 0..M - 1
      BY <2>4
    <3>2. QED
      BY <1>1, <1>2, <2>1, <2>4, <3>1
  <2>5. QED
    BY <2>2, <2>3, <2>4
<1>5. DOMAIN f = 0..M /\ DOMAIN h = 0..M /\ f = [n \in 0..M |-> f[n]] /\ h = [n \in 0..M |-> h[n]]
  OBVIOUS
<1> HIDE DEF f
<1>6. f = h
  <2> HIDE DEF h
  <2>1. QED
    BY <1>4, <1>5
<1>7. QED
  BY <1>6 DEF Scans

LEMMA ScanExists == ASSUME NEW lines, NEW N \in Nat PROVE \E have : Scans(lines, have, N)
<1> DEFINE Missing == {M \in 0..N : \A f : ~Scans(lines, f, M)}
<1>1. Missing = {}
  <2> SUFFICES ASSUME Missing # {} PROVE FALSE
    OBVIOUS
  <2>1. Missing \in SUBSET Nat
    OBVIOUS
  <2> HIDE DEF Missing
  <2>2. PICK M \in Missing : \A K \in Missing : M <= K
    BY <2>1, LeastNumber
  <2> USE DEF Missing
  <2>3. M \in 0..N /\ M # 0 /\ \A f : ~Scans(lines, f, M)
    BY <2>2, NoneScanned
  <2>4. M - 1 \in 0..N /\ ~(M <= M - 1)
    BY <2>3
  <2>5. M - 1 \notin Missing
    <3> HIDE DEF Missing
    <3>1. QED
      BY <2>2, <2>4
  <2>6. PICK g : Scans(lines, g, M - 1)
    BY <2>4, <2>5
  <2>7. QED
    BY <2>3, <2>6, OneMoreScanned
<1>2. QED
  BY <1>1, N \in 0..N

\* The lines behind do not matter.
LEMMA ScansAgree ==
    ASSUME NEW l1, NEW l2, NEW f, NEW g, NEW K \in Nat,
           Scans(l1, f, K), Scans(l2, g, K + 1), \A n \in 1..K : l1[n] = l2[n]
    PROVE  f[K] = g[K]
<1> DEFINE Wrong == {n \in 0..K : f[n] # g[n]}
<1>1. ASSUME NEW n \in 0..K
      PROVE  /\ f[n] = IF n = 0 THEN NothingRead ELSE Read(f[n - 1], l1[n])
             /\ g[n] = IF n = 0 THEN NothingRead ELSE Read(g[n - 1], l2[n])
  <2>1. n \in 0..K + 1
    OBVIOUS
  <2>2. QED
    BY <2>1, Zenon DEF Scans
<1>2. ASSUME Wrong # {} PROVE FALSE
  <2>1. Wrong \in SUBSET Nat
    OBVIOUS
  <2> HIDE DEF Wrong
  <2>2. PICK n \in Wrong : \A k \in Wrong : n <= k
    BY <1>2, <2>1, LeastNumber
  <2> USE DEF Wrong
  <2>3. n \in 0..K /\ n # 0 /\ f[n] # g[n]
    BY <1>1, <2>2
  <2>4. n - 1 \in 0..K /\ ~(n <= n - 1) /\ n \in 1..K
    BY <2>3
  <2>5. n - 1 \notin Wrong
    <3> HIDE DEF Wrong
    <3>1. QED
      BY <2>2, <2>4
  <2>6. f[n - 1] = g[n - 1] /\ l1[n] = l2[n]
    BY <2>4, <2>5
  <2>7. QED
    BY <1>1, <2>3, <2>6
<1>3. QED
  BY <1>2, K \in 0..K

LEMMA ScannedIs ==
    ASSUME NEW lines, Len(lines) \in Nat
    PROVE  \E have : Scans(lines, have, Len(lines)) /\ Scanned(lines) = have[Len(lines)]
<1> DEFINE have == CHOOSE f : Scans(lines, f, Len(lines))
<1>1. Scanned(lines) = have[Len(lines)]
  BY Zenon DEF Scanned, Scans
<1>2. Scans(lines, have, Len(lines))
  BY ScanExists, Zenon
<1>3. QED
  BY <1>1, <1>2

\* One line more is read last.
LEMMA ScannedMore ==
    ASSUME NEW lines, NEW more, NEW N \in Nat, Len(lines) = N, Len(more) = N + 1,
           \A n \in 1..N : lines[n] = more[n]
    PROVE  Scanned(more) = Read(Scanned(lines), more[N + 1])
<1>1. N + 1 \in Nat /\ N + 1 \in 0..N + 1 /\ N + 1 # 0 /\ (N + 1) - 1 = N
  OBVIOUS
<1>2. PICK f : Scans(lines, f, N) /\ Scanned(lines) = f[N]
  BY ScannedIs
<1>3. PICK g : Scans(more, g, N + 1) /\ Scanned(more) = g[N + 1]
  BY <1>1, ScannedIs
<1>4. f[N] = g[N]
  BY <1>2, <1>3, ScansAgree
<1>5. g[N + 1] = Read(g[N], more[N + 1])
  BY <1>1, <1>3, Zenon DEF Scans
<1>6. QED
  BY <1>2, <1>3, <1>4, <1>5

LEMMA ScannedAppend ==
    ASSUME NEW S, NEW lines \in Seq(S), NEW l \in S
    PROVE  Scanned(Append(lines, l)) = Read(Scanned(lines), l)
<1> DEFINE N == Len(lines)
           more == Append(lines, l)
<1>1. N \in Nat /\ Len(more) = N + 1 /\ more[N + 1] = l
  OBVIOUS
<1>2. \A n \in 1..N : lines[n] = more[n]
  OBVIOUS
<1>3. Scanned(more) = Read(Scanned(lines), more[N + 1])
  BY <1>1, <1>2, ScannedMore
<1>4. QED
  BY <1>1, <1>3

LEMMA ScannedNone == Scanned(<<>>) = NothingRead
<1>1. Len(<<>>) = 0
  OBVIOUS
<1>2. PICK f : Scans(<<>>, f, 0) /\ Scanned(<<>>) = f[0]
  BY <1>1, ScannedIs
<1>3. QED
  BY <1>2, 0 \in 0..0, Zenon DEF Scans

\* The typed form of what is found
Heads == [msgs : Seq(Messages), done : Flags \cup {"none"}]

\* What is found in some lines, and then in others
Joined(a, b) == [msgs |-> a.msgs \o b.msgs, done |-> IF b.done = "none" THEN a.done ELSE b.done]

LEMMA RecordKinds ==
    ASSUME NEW l \in Records
    PROVE  /\ IsMsg(l) <=> l \in Messages
           /\ IsMeta(l) => l.done \in Flags /\ ~IsMsg(l)
  BY DEF Records, IsMsg, IsMeta, Messages, Msg, Meta, V1, Junk, Flags

LEMMA ReadIs ==
    ASSUME NEW h \in Heads, NEW l \in Records
    PROVE  /\ Read(h, l) \in Heads
           /\ IsMsg(l) => Read(h, l) = [msgs |-> Append(h.msgs, l), done |-> h.done]
           /\ IsMeta(l) => Read(h, l) = [msgs |-> h.msgs, done |-> l.done]
           /\ ~IsMsg(l) /\ ~IsMeta(l) => Read(h, l) = h
<1>1. CASE IsMsg(l)
  <2>1. l \in Messages /\ ~IsMeta(l)
    BY <1>1, RecordKinds
  <2>2. Read(h, l) = [h EXCEPT !.msgs = Append(@, l)]
    BY <1>1, <2>1 DEF Read
  <2>3. Append(h.msgs, l) \in Seq(Messages)
    BY <2>1 DEF Heads
  <2>4. QED
    BY <1>1, <2>1, <2>2, <2>3 DEF Heads
<1>2. CASE IsMeta(l)
  <2>1. ~IsMsg(l) /\ l.done \in Flags
    BY <1>2, RecordKinds
  <2>2. Read(h, l) = [h EXCEPT !.done = l.done]
    BY <1>2, <2>1 DEF Read
  <2>3. QED
    BY <1>2, <2>1, <2>2 DEF Heads
<1>3. CASE ~IsMsg(l) /\ ~IsMeta(l)
  BY <1>3 DEF Read
<1>4. QED
  BY <1>1, <1>2, <1>3

\* Reading goes on from what was found before.
LEMMA ReadJoined ==
    ASSUME NEW a \in Heads, NEW b \in Heads, NEW l \in Records
    PROVE  Read(Joined(a, b), l) = Joined(a, Read(b, l))
<1>1. Joined(a, b) \in Heads
  BY DEF Heads, Joined
<1>2. CASE IsMsg(l)
  <2>1. l \in Messages
    BY <1>2, RecordKinds
  <2>2. Append(a.msgs \o b.msgs, l) = a.msgs \o Append(b.msgs, l)
    BY <2>1 DEF Heads
  <2>3. Read(b, l) = [msgs |-> Append(b.msgs, l), done |-> b.done]
    BY <1>2, ReadIs
  <2>4. Read(Joined(a, b), l) = [msgs |-> Append(Joined(a, b).msgs, l), done |-> Joined(a, b).done]
    BY <1>1, <1>2, ReadIs
  <2>5. Joined(a, b).msgs = a.msgs \o b.msgs
        /\ Joined(a, b).done = IF b.done = "none" THEN a.done ELSE b.done
    BY DEF Joined
  <2>6. Joined(a, Read(b, l)) = [msgs |-> a.msgs \o Append(b.msgs, l),
                                 done |-> IF b.done = "none" THEN a.done ELSE b.done]
    BY <2>3 DEF Joined
  <2>7. QED
    BY <2>2, <2>4, <2>5, <2>6, Zenon
<1>3. CASE IsMeta(l)
  <2>1. l.done # "none"
    BY <1>3, RecordKinds DEF Flags
  <2>2. Read(b, l) = [msgs |-> b.msgs, done |-> l.done]
    BY <1>3, ReadIs
  <2>3. Read(Joined(a, b), l) = [msgs |-> Joined(a, b).msgs, done |-> l.done]
    BY <1>1, <1>3, ReadIs
  <2>4. QED
    BY <2>1, <2>2, <2>3 DEF Joined
<1>4. CASE ~IsMsg(l) /\ ~IsMeta(l)
  BY <1>1, <1>4, ReadIs
<1>5. QED
  BY <1>2, <1>3, <1>4

LEMMA NothingIsHead ==
    NothingRead \in Heads /\ \A a \in Heads : Joined(a, NothingRead) = a
<1>1. NothingRead \in Heads
  BY DEF NothingRead, Heads
<1>2. ASSUME NEW a \in Heads PROVE Joined(a, NothingRead) = a
  <2>1. a.msgs \o <<>> = a.msgs
    BY DEF Heads
  <2>2. a = [msgs |-> a.msgs, done |-> a.done]
    BY DEF Heads
  <2>3. QED
    BY <2>1, <2>2 DEF Joined, NothingRead
<1>3. QED
  BY <1>1, <1>2

\* What is found in lines that follow others: by the shortest that it fails for.
LEMMA ScannedConcat ==
    ASSUME NEW lines \in Seq(Records), NEW recs \in Seq(Records), Scanned(lines) \in Heads
    PROVE  /\ Scanned(recs) \in Heads
           /\ Scanned(lines \o recs) = Joined(Scanned(lines), Scanned(recs))
<1> DEFINE Fits(s) == /\ Scanned(s) \in Heads
                      /\ Scanned(lines \o s) = Joined(Scanned(lines), Scanned(s))
           Wrong == {n \in Nat : \E s \in Seq(Records) : Len(s) = n /\ ~Fits(s)}
<1>1. ASSUME NEW s \in Seq(Records), NEW l \in Records, Fits(s) PROVE Fits(Append(s, l))
  <2>1. lines \o Append(s, l) = Append(lines \o s, l) /\ lines \o s \in Seq(Records)
    OBVIOUS
  <2>2. Scanned(Append(lines \o s, l)) = Read(Scanned(lines \o s), l)
    BY <2>1, ScannedAppend
  <2>3. Scanned(Append(s, l)) = Read(Scanned(s), l)
    BY ScannedAppend
  <2>4. QED
    BY <1>1, <2>1, <2>2, <2>3, ReadJoined, ReadIs
<1>2. Fits(<<>>)
  <2>1. lines \o <<>> = lines
    OBVIOUS
  <2>2. QED
    BY <2>1, ScannedNone, NothingIsHead
<1> HIDE DEF Fits
<1>3. ASSUME Wrong # {} PROVE FALSE
  <2>1. Wrong \in SUBSET Nat
    OBVIOUS
  <2> HIDE DEF Wrong
  <2>2. PICK n \in Wrong : \A k \in Wrong : n <= k
    BY <1>3, <2>1, LeastNumber
  <2>3. PICK s \in Seq(Records) : Len(s) = n /\ ~Fits(s)
    BY <2>2 DEF Wrong
  <2>4. s # <<>>
    BY <1>2, <2>3
  <2>5. PICK t \in Seq(Records), l \in Records : s = Append(t, l)
    BY <2>4, SequenceEmptyOrAppend
  <2>6. ~Fits(t)
    BY <1>1, <2>3, <2>5
  <2>7. Len(t) \in Nat /\ n = Len(t) + 1
    BY <2>3, <2>5
  <2>8. Len(t) \in Wrong
    BY <2>6, <2>7 DEF Wrong
  <2>9. n <= Len(t)
    BY <2>2, <2>8
  <2>10. QED
    BY <2>7, <2>9
<1>4. Fits(recs)
  <2>1. Len(recs) \in Nat
    OBVIOUS
  <2>2. QED
    BY <1>3, <2>1
<1>5. QED
  BY <1>4 DEF Fits

LEMMA ScannedTwo ==
    ASSUME NEW lines \in Seq(Records), NEW recs \in Seq(Records)
    PROVE  /\ Scanned(lines) \in Heads
           /\ Scanned(lines \o recs) = Joined(Scanned(lines), Scanned(recs))
<1>1. <<>> \in Seq(Records) /\ Scanned(<<>>) \in Heads
  BY ScannedNone, NothingIsHead
<1>2. Scanned(lines) \in Heads
  BY <1>1, ScannedConcat
<1>3. QED
  BY <1>2, ScannedConcat

LEMMA ScannedOne ==
    ASSUME NEW l \in Records
    PROVE  /\ IsMsg(l) => Scanned(<<l>>) = [msgs |-> <<l>>, done |-> "none"]
           /\ IsMeta(l) => Scanned(<<l>>) = [msgs |-> <<>>, done |-> l.done]
           /\ ~IsMsg(l) /\ ~IsMeta(l) => Scanned(<<l>>) = NothingRead
<1>1. <<>> \in Seq(Records) /\ Append(<<>>, l) = <<l>>
  OBVIOUS
<1>2. Scanned(<<l>>) = Read(NothingRead, l)
  BY <1>1, ScannedAppend, ScannedNone
<1>3. NothingRead \in Heads /\ NothingRead.msgs = <<>> /\ NothingRead.done = "none"
  BY NothingIsHead DEF NothingRead
<1>4. QED
  BY <1>1, <1>2, <1>3, ReadIs

\* A sequence of messages is found as it is.
LEMMA ScannedMessages ==
    ASSUME NEW ms \in Seq(Messages)
    PROVE  ms \in Seq(Records) /\ Scanned(ms) = [msgs |-> ms, done |-> "none"]
<1>1. Messages \subseteq Records
  BY DEF Records
<1>2. \A s \in Seq(Messages) : s \in Seq(Records)
  BY <1>1, SeqMonotonic
<1> DEFINE Found(s) == Scanned(s) = [msgs |-> s, done |-> "none"]
           Wrong == {n \in Nat : \E s \in Seq(Messages) : Len(s) = n /\ ~Found(s)}
<1>3. ASSUME NEW s \in Seq(Messages), NEW l \in Messages, Found(s) PROVE Found(Append(s, l))
  <2>1. l \in Records /\ IsMsg(l) /\ s \in Seq(Records)
    BY <1>1, <1>2, RecordKinds
  <2>2. Scanned(Append(s, l)) = Read(Scanned(s), l) /\ Scanned(s) \in Heads
    BY <2>1, ScannedAppend, ScannedTwo
  <2>3. Scanned(s).msgs = s /\ Scanned(s).done = "none"
    BY <1>3
  <2>4. Read(Scanned(s), l) = [msgs |-> Append(Scanned(s).msgs, l), done |-> Scanned(s).done]
    BY <2>1, <2>2, ReadIs
  <2>5. QED
    BY <2>2, <2>3, <2>4
<1>4. Found(<<>>)
  BY ScannedNone DEF NothingRead
<1> HIDE DEF Found
<1>5. ASSUME Wrong # {} PROVE FALSE
  <2>1. Wrong \in SUBSET Nat
    OBVIOUS
  <2> HIDE DEF Wrong
  <2>2. PICK n \in Wrong : \A k \in Wrong : n <= k
    BY <1>5, <2>1, LeastNumber
  <2>3. PICK s \in Seq(Messages) : Len(s) = n /\ ~Found(s)
    BY <2>2 DEF Wrong
  <2>4. s # <<>>
    BY <1>4, <2>3
  <2>5. PICK t \in Seq(Messages), l \in Messages : s = Append(t, l)
    BY <2>4, SequenceEmptyOrAppend
  <2>6. ~Found(t)
    BY <1>3, <2>3, <2>5
  <2>7. Len(t) \in Nat /\ n = Len(t) + 1
    BY <2>3, <2>5
  <2>8. Len(t) \in Wrong
    BY <2>6, <2>7 DEF Wrong
  <2>9. n <= Len(t)
    BY <2>2, <2>8
  <2>10. QED
    BY <2>7, <2>9
<1>6. Found(ms)
  <2>1. Len(ms) \in Nat
    OBVIOUS
  <2>2. QED
    BY <1>5, <2>1
<1>7. QED
  BY <1>2, <1>6 DEF Found
-------------------------------------------------------------------------------
(* What an append does to a file                                              *)

MsgsIn(lines) == Scanned(lines).msgs
FlagIn(lines) == IF Scanned(lines).done = "none" THEN "open" ELSE Scanned(lines).done

LEMMA MsgsInType ==
    ASSUME NEW lines \in Seq(Records)
    PROVE  MsgsIn(lines) \in Seq(Messages) /\ Len(MsgsIn(lines)) \in Nat /\ FlagIn(lines) \in Flags
<1>1. Scanned(lines) \in Heads
  BY ScannedTwo
<1>2. QED
  BY <1>1 DEF MsgsIn, FlagIn, Heads, Flags

LEMMA JoinedParts ==
    ASSUME NEW a, NEW b
    PROVE  /\ Joined(a, b).msgs = a.msgs \o b.msgs
           /\ Joined(a, b).done = IF b.done = "none" THEN a.done ELSE b.done
  BY DEF Joined

LEMMA MsgsInTwo ==
    ASSUME NEW lines \in Seq(Records), NEW recs \in Seq(Records)
    PROVE  /\ lines \o recs \in Seq(Records)
           /\ MsgsIn(lines \o recs) = MsgsIn(lines) \o MsgsIn(recs)
           /\ Len(MsgsIn(lines \o recs)) = Len(MsgsIn(lines)) + Len(MsgsIn(recs))
           /\ Scanned(recs).done = "none" => FlagIn(lines \o recs) = FlagIn(lines)
           /\ Scanned(recs).done # "none" => FlagIn(lines \o recs) = Scanned(recs).done
<1>1. Scanned(lines \o recs) = Joined(Scanned(lines), Scanned(recs))
  BY ScannedTwo
<1>2. MsgsIn(lines) \in Seq(Messages) /\ MsgsIn(recs) \in Seq(Messages)
  BY MsgsInType
<1>3. MsgsIn(lines \o recs) = MsgsIn(lines) \o MsgsIn(recs)
  BY <1>1, JoinedParts, Zenon DEF MsgsIn
<1>4. Len(MsgsIn(lines) \o MsgsIn(recs)) = Len(MsgsIn(lines)) + Len(MsgsIn(recs))
  BY <1>2
<1>5. Scanned(lines \o recs).done =
          IF Scanned(recs).done = "none" THEN Scanned(lines).done ELSE Scanned(recs).done
  BY <1>1, JoinedParts, Zenon
<1>6. lines \o recs \in Seq(Records)
  OBVIOUS
<1>7. Scanned(recs).done = "none" => FlagIn(lines \o recs) = FlagIn(lines)
  BY <1>5 DEF FlagIn
<1>8. Scanned(recs).done # "none" => FlagIn(lines \o recs) = Scanned(recs).done
  BY <1>5 DEF FlagIn
<1>9. Len(MsgsIn(lines \o recs)) = Len(MsgsIn(lines)) + Len(MsgsIn(recs))
  BY <1>3, <1>4
<1>10. QED
  BY <1>3, <1>6, <1>7, <1>8, <1>9

\* What is read of a beginning, or of an end, is no more.
LEMMA FewerRead ==
    ASSUME NEW s \in Seq(Records), NEW t \in Seq(Records), NEW whole, whole = s \o t
    PROVE  /\ Len(MsgsIn(s)) <= Len(MsgsIn(whole)) /\ Len(MsgsIn(t)) <= Len(MsgsIn(whole))
           /\ Len(MsgsIn(s)) \in Nat /\ Len(MsgsIn(t)) \in Nat
<1>1. Len(MsgsIn(whole)) = Len(MsgsIn(s)) + Len(MsgsIn(t))
  BY MsgsInTwo
<1>2. Len(MsgsIn(s)) \in Nat /\ Len(MsgsIn(t)) \in Nat
  BY MsgsInType
<1>3. QED
  BY <1>1, <1>2

LEMMA BeginningRead ==
    ASSUME NEW S, NEW recs \in Seq(S), NEW n \in 0..Len(recs)
    PROVE  /\ SubSeq(recs, 1, n) \in Seq(S) /\ SubSeq(recs, n + 1, Len(recs)) \in Seq(S)
           /\ recs = SubSeq(recs, 1, n) \o SubSeq(recs, n + 1, Len(recs))
           /\ Len(SubSeq(recs, 1, n)) = n
<1>1. SubSeq(recs, 1, n) \in Seq(S) /\ SubSeq(recs, n + 1, Len(recs)) \in Seq(S)
  OBVIOUS
<1>2. recs = SubSeq(recs, 1, n) \o SubSeq(recs, n + 1, Len(recs))
  <2>1. 1 \in 1..Len(recs) + 1 /\ n \in 1 - 1..Len(recs) /\ Len(recs) \in n..Len(recs)
    OBVIOUS
  <2>2. SubSeq(recs, 1, n) \o SubSeq(recs, n + 1, Len(recs)) = SubSeq(recs, 1, Len(recs))
    BY <2>1, ConcatAdjacentSubSeq
  <2>3. QED
    BY <2>2, SubSeqFull
<1>3. Len(SubSeq(recs, 1, n)) = n
  OBVIOUS
<1>4. QED
  BY <1>1, <1>2, <1>3

\* No file begins with a message.
Headed(lines) == lines # <<>> => ~IsMsg(lines[1])

FileOK(f) == /\ f = [lines |-> f.lines, nl |-> f.nl]
             /\ f.lines \in Seq(Records) /\ f.nl \in BOOLEAN
             /\ f.lines = <<>> => f.nl
             /\ Headed(f.lines)

LEMMA JunkIs == Junk \in Records /\ ~IsMsg(Junk) /\ ~IsMeta(Junk) /\ MsgsIn(<<Junk>>) = <<>>
<1>1. Junk \in Records /\ ~IsMsg(Junk) /\ ~IsMeta(Junk)
  BY DEF Records, Junk, IsMsg, IsMeta
<1>2. Scanned(<<Junk>>) = NothingRead
  BY <1>1, ScannedOne
<1>3. QED
  BY <1>1, <1>2 DEF MsgsIn, NothingRead

\* A line that another continues is lost.
LEMMA Continued ==
    ASSUME NEW lines \in Seq(Records), lines # <<>>, NEW whole, whole = Front(lines) \o <<Junk>>
    PROVE  /\ whole \in Seq(Records) /\ whole # <<>>
           /\ Len(MsgsIn(whole)) \in Nat /\ Len(MsgsIn(whole)) <= Len(MsgsIn(lines))
           /\ Headed(lines) => Headed(whole)
<1> DEFINE n == Len(lines) - 1
           front == SubSeq(lines, 1, n)
<1>1. n \in 0..Len(lines) /\ n \in Nat
  OBVIOUS
<1>2. /\ front \in Seq(Records) /\ SubSeq(lines, n + 1, Len(lines)) \in Seq(Records)
      /\ lines = front \o SubSeq(lines, n + 1, Len(lines)) /\ Len(front) = n
  BY <1>1, BeginningRead
<1>3. Front(lines) = front
  BY DEF Front
<1> HIDE DEF n, front
<1>4. Len(MsgsIn(front)) <= Len(MsgsIn(lines)) /\ Len(MsgsIn(front)) \in Nat
  BY <1>2, FewerRead
<1>5. <<Junk>> \in Seq(Records) /\ whole = front \o <<Junk>>
  BY <1>3, JunkIs
<1>6. whole \in Seq(Records) /\ Len(MsgsIn(whole)) = Len(MsgsIn(front)) + Len(MsgsIn(<<Junk>>))
  <2>1. front \o <<Junk>> \in Seq(Records)
        /\ Len(MsgsIn(front \o <<Junk>>)) = Len(MsgsIn(front)) + Len(MsgsIn(<<Junk>>))
    BY <1>2, <1>5, MsgsInTwo
  <2>2. QED
    BY <1>5, <2>1, Zenon
<1>7. Len(MsgsIn(<<Junk>>)) = 0
  BY JunkIs
<1>8. Len(whole) = n + 1 /\ whole[1] = IF n = 0 THEN Junk ELSE front[1]
  BY <1>1, <1>2, <1>5
<1>9. n # 0 => front[1] = lines[1]
  BY <1>1, <1>2
<1>10. whole # <<>> /\ (n # 0 => lines # <<>> /\ whole[1] = lines[1]) /\ (n = 0 => whole[1] = Junk)
  BY <1>1, <1>6, <1>8, <1>9
<1>11. Headed(lines) => Headed(whole)
  BY <1>10, JunkIs DEF Headed
<1>12. Len(MsgsIn(whole)) = Len(MsgsIn(front))
  BY <1>4, <1>6, <1>7
<1>13. Len(MsgsIn(whole)) \in Nat /\ Len(MsgsIn(whole)) <= Len(MsgsIn(lines))
  BY <1>4, <1>12
<1>14. whole # <<>>
  BY <1>10
<1>15. QED
  BY <1>6, <1>11, <1>13, <1>14, Zenon

LEMMA RestRead ==
    ASSUME NEW recs \in Seq(Records), recs # <<>>
    PROVE  /\ Tail(recs) \in Seq(Records) /\ <<recs[1]>> \in Seq(Records)
           /\ recs = <<recs[1]>> \o Tail(recs)
           /\ Len(MsgsIn(Tail(recs))) <= Len(MsgsIn(recs)) /\ Len(MsgsIn(Tail(recs))) \in Nat
<1>1. Tail(recs) \in Seq(Records) /\ <<recs[1]>> \in Seq(Records)
  OBVIOUS
<1>2. recs = <<recs[1]>> \o Tail(recs)
  OBVIOUS
<1>3. QED
  BY <1>1, <1>2, FewerRead

LEMMA HeadedConcat ==
    ASSUME NEW s \in Seq(Records), NEW t \in Seq(Records), Headed(s), s = <<>> => Headed(t)
    PROVE  Headed(s \o t) /\ (s \o t = <<>> => s = <<>>)
<1>1. CASE s = <<>>
  <2>1. s \o t = t
    BY <1>1
  <2>2. QED
    BY <1>1, <2>1
<1>2. CASE s # <<>>
  <2>1. s \o t # <<>> /\ (s \o t)[1] = s[1]
    BY <1>2
  <2>2. QED
    BY <1>2, <2>1 DEF Headed
<1>3. QED
  BY <1>1, <1>2

\* An append of records to a file: what was not unterminated is continued; if it was,
\* nothing is read that was not there or is not added.
LEMMA AppendIs ==
    ASSUME NEW f, FileOK(f), NEW recs \in Seq(Records), f.lines = <<>> => Headed(recs)
    PROVE  /\ FileOK(AppendRecords(f, recs))
           /\ f.nl \/ recs = <<>> => AppendRecords(f, recs).lines = f.lines \o recs
           /\ f.nl => AppendRecords(f, recs).nl
           /\ recs # <<>> => AppendRecords(f, recs).nl
           /\ Len(MsgsIn(AppendRecords(f, recs).lines)) <= Len(MsgsIn(f.lines)) + Len(MsgsIn(recs))
<1> DEFINE g == AppendRecords(f, recs)
<1>0. /\ f.lines \in Seq(Records) /\ f.nl \in BOOLEAN /\ Headed(f.lines)
      /\ f = [lines |-> f.lines, nl |-> f.nl] /\ (f.lines = <<>> => f.nl)
  BY DEF FileOK
<1>1. CASE recs = <<>>
  <2>1. g = f /\ f.lines \o recs = f.lines
    BY <1>0, <1>1 DEF AppendRecords
  <2>2. Len(MsgsIn(f.lines)) \in Nat /\ Len(MsgsIn(recs)) \in Nat
    BY <1>0, MsgsInType
  <2>3. QED
    BY <1>1, <2>1, <2>2
<1>2. CASE recs # <<>> /\ f.nl
  <2>1. g = [lines |-> f.lines \o recs, nl |-> TRUE]
    BY <1>2 DEF AppendRecords
  <2>2. g.lines = f.lines \o recs /\ g.nl
    BY <2>1
  <2>3. /\ f.lines \o recs \in Seq(Records)
        /\ Len(MsgsIn(f.lines \o recs)) = Len(MsgsIn(f.lines)) + Len(MsgsIn(recs))
    BY <1>0, MsgsInTwo
  <2>4. Headed(f.lines \o recs)
    BY <1>0, HeadedConcat
  <2>5. Len(MsgsIn(f.lines)) \in Nat /\ Len(MsgsIn(recs)) \in Nat
    BY <1>0, MsgsInType
  <2>6. FileOK(g)
    BY <2>1, <2>2, <2>3, <2>4 DEF FileOK
  <2> HIDE DEF g
  <2>7. Len(MsgsIn(g.lines)) <= Len(MsgsIn(f.lines)) + Len(MsgsIn(recs))
    BY <2>2, <2>3, <2>5
  <2>8. QED
    BY <1>2, <2>2, <2>6, <2>7 DEF g
<1>3. CASE recs # <<>> /\ ~f.nl
  <2> DEFINE kept == Front(f.lines) \o <<Junk>>
  <2>0. f.lines # <<>>
    BY <1>0, <1>3
  <2>1. /\ kept \in Seq(Records) /\ kept # <<>> /\ Headed(kept)
        /\ Len(MsgsIn(kept)) \in Nat /\ Len(MsgsIn(kept)) <= Len(MsgsIn(f.lines))
    BY <1>0, <2>0, Continued
  <2>2. /\ Tail(recs) \in Seq(Records) /\ Len(MsgsIn(Tail(recs))) \in Nat
        /\ Len(MsgsIn(Tail(recs))) <= Len(MsgsIn(recs))
    BY <1>3, RestRead
  <2>3. g = [lines |-> kept \o Tail(recs), nl |-> TRUE]
    BY <1>3 DEF AppendRecords
  <2> HIDE DEF kept
  <2>4. g.lines = kept \o Tail(recs) /\ g.nl
    BY <2>3
  <2>5. /\ kept \o Tail(recs) \in Seq(Records)
        /\ Len(MsgsIn(kept \o Tail(recs))) = Len(MsgsIn(kept)) + Len(MsgsIn(Tail(recs)))
    BY <2>1, <2>2, MsgsInTwo
  <2>6. Headed(kept \o Tail(recs)) /\ kept \o Tail(recs) # <<>>
    BY <2>1, <2>2, HeadedConcat
  <2>7. FileOK(g)
    BY <2>3, <2>4, <2>5, <2>6 DEF FileOK
  <2>8. Len(MsgsIn(f.lines)) \in Nat /\ Len(MsgsIn(recs)) \in Nat
    BY <1>0, MsgsInType
  <2> HIDE DEF g
  <2>9. Len(MsgsIn(g.lines)) <= Len(MsgsIn(f.lines)) + Len(MsgsIn(recs))
    BY <2>1, <2>2, <2>4, <2>5, <2>8
  <2>10. QED
    BY <1>3, <2>4, <2>7, <2>9 DEF g
<1>4. QED
  BY <1>0, <1>1, <1>2, <1>3

\* A record that is cut
LEMMA CutIs ==
    ASSUME NEW f, FileOK(f), NEW rec \in Records, f.lines = <<>> => ~IsMsg(rec),
           NEW g \in CutInside(f, rec)
    PROVE  FileOK(g) /\ Len(MsgsIn(g.lines)) <= Len(MsgsIn(f.lines)) + Len(MsgsIn(<<rec>>))
<1>0. /\ f.lines \in Seq(Records) /\ f.nl \in BOOLEAN /\ Headed(f.lines)
      /\ (f.lines = <<>> => f.nl) /\ <<rec>> \in Seq(Records)
  BY DEF FileOK
<1>1. Len(MsgsIn(f.lines)) \in Nat /\ Len(MsgsIn(<<rec>>)) \in Nat
  BY <1>0, MsgsInType
<1>2. CASE f.nl
  <2>1. PICK l \in {Junk, rec} : g = [lines |-> Append(f.lines, l), nl |-> FALSE]
    BY <1>2 DEF CutInside
  <2>2. l \in Records /\ <<l>> \in Seq(Records) /\ Append(f.lines, l) = f.lines \o <<l>>
    BY <1>0, JunkIs
  <2>3. f.lines = <<>> => Headed(<<l>>)
    BY JunkIs DEF Headed
  <2>4. Headed(f.lines \o <<l>>) /\ f.lines \o <<l>> # <<>>
    <3>1. f.lines \o <<l>> # <<>>
      <4>1. Len(f.lines \o <<l>>) = Len(f.lines) + 1
        BY <1>0, <2>2
      <4>2. Len(f.lines) \in Nat /\ Len(<<>>) = 0
        BY <1>0
      <4>3. QED
        BY <4>1, <4>2
    <3>2. Headed(f.lines \o <<l>>) /\ (f.lines \o <<l>> = <<>> => f.lines = <<>>)
      BY <1>0, <2>2, <2>3, HeadedConcat
    <3>3. QED
      BY <3>1, <3>2
  <2>5. /\ f.lines \o <<l>> \in Seq(Records)
        /\ Len(MsgsIn(f.lines \o <<l>>)) = Len(MsgsIn(f.lines)) + Len(MsgsIn(<<l>>))
    BY <1>0, <2>2, MsgsInTwo
  <2>6. Len(MsgsIn(<<l>>)) <= Len(MsgsIn(<<rec>>))
    <3>1. MsgsIn(<<Junk>>) = <<>>
      BY JunkIs
    <3>2. CASE l = Junk
      BY <1>1, <3>1, <3>2
    <3>3. CASE l = rec
      BY <1>1, <3>3
    <3>4. QED
      BY <3>2, <3>3
  <2>7. Len(MsgsIn(<<l>>)) \in Nat
    BY <2>2, MsgsInType
  <2>8. g.lines = f.lines \o <<l>> /\ ~g.nl /\ g = [lines |-> g.lines, nl |-> g.nl]
        /\ g.nl \in BOOLEAN
    BY <2>1, <2>2
  <2>9. FileOK(g)
    BY <2>4, <2>5, <2>8 DEF FileOK
  <2>10. Len(MsgsIn(g.lines)) <= Len(MsgsIn(f.lines)) + Len(MsgsIn(<<rec>>))
    BY <1>1, <2>5, <2>6, <2>7, <2>8
  <2>11. QED
    BY <2>9, <2>10
<1>3. CASE ~f.nl
  <2> DEFINE kept == Front(f.lines) \o <<Junk>>
  <2>0. f.lines # <<>>
    BY <1>0, <1>3
  <2>1. /\ kept \in Seq(Records) /\ kept # <<>> /\ Headed(kept)
        /\ Len(MsgsIn(kept)) \in Nat /\ Len(MsgsIn(kept)) <= Len(MsgsIn(f.lines))
    BY <1>0, <2>0, Continued
  <2>2. Append(Front(f.lines), Junk) = kept
    <3>1. Front(f.lines) \in Seq(Records)
      BY <1>0, <2>0 DEF Front
    <3>2. QED
      BY <3>1, JunkIs
  <2>3. g = [lines |-> Append(Front(f.lines), Junk), nl |-> FALSE]
    BY <1>3 DEF CutInside
  <2> HIDE DEF kept
  <2>4. g = [lines |-> kept, nl |-> FALSE]
    BY <2>2, <2>3
  <2>5. g.lines = kept /\ ~g.nl /\ g = [lines |-> g.lines, nl |-> g.nl] /\ g.nl \in BOOLEAN
    BY <2>4
  <2>6. FileOK(g)
    BY <2>1, <2>5 DEF FileOK
  <2>7. Len(MsgsIn(g.lines)) <= Len(MsgsIn(f.lines)) + Len(MsgsIn(<<rec>>))
    BY <1>1, <2>1, <2>5
  <2>8. QED
    BY <2>6, <2>7
<1>4. QED
  BY <1>0, <1>2, <1>3

\* Whatever a crash leaves of an append
LEMMA CutsAre ==
    ASSUME NEW f, FileOK(f), NEW recs \in Seq(Records), f.lines = <<>> => Headed(recs),
           NEW g \in CleanCuts(f, recs) \cup TornCuts(f, recs)
    PROVE  FileOK(g) /\ Len(MsgsIn(g.lines)) <= Len(MsgsIn(f.lines)) + Len(MsgsIn(recs))
<1>0. f.lines \in Seq(Records) /\ Len(MsgsIn(f.lines)) \in Nat /\ Len(MsgsIn(recs)) \in Nat
  BY MsgsInType DEF FileOK
<1>1. ASSUME NEW n \in 0..Len(recs)
      PROVE  /\ SubSeq(recs, 1, n) \in Seq(Records)
             /\ f.lines = <<>> => Headed(SubSeq(recs, 1, n))
             /\ Len(MsgsIn(SubSeq(recs, 1, n))) <= Len(MsgsIn(recs))
             /\ Len(MsgsIn(SubSeq(recs, 1, n))) \in Nat
  <2>1. /\ SubSeq(recs, 1, n) \in Seq(Records) /\ SubSeq(recs, n + 1, Len(recs)) \in Seq(Records)
        /\ recs = SubSeq(recs, 1, n) \o SubSeq(recs, n + 1, Len(recs))
    BY BeginningRead
  <2>2. n # 0 => SubSeq(recs, 1, n)[1] = recs[1] /\ recs # <<>>
    OBVIOUS
  <2>3. n = 0 => SubSeq(recs, 1, n) = <<>>
    OBVIOUS
  <2>4. Headed(recs) => Headed(SubSeq(recs, 1, n))
    BY <2>2, <2>3 DEF Headed
  <2>5. /\ Len(MsgsIn(SubSeq(recs, 1, n))) <= Len(MsgsIn(recs))
        /\ Len(MsgsIn(SubSeq(recs, 1, n))) \in Nat
    BY <2>1, FewerRead
  <2>6. QED
    BY <2>1, <2>4, <2>5
<1>2. CASE g \in CleanCuts(f, recs)
  <2>1. PICK n \in 0..Len(recs) : g = AppendRecords(f, SubSeq(recs, 1, n))
    BY <1>2 DEF CleanCuts
  <2> DEFINE s == SubSeq(recs, 1, n)
  <2>2. s \in Seq(Records) /\ (f.lines = <<>> => Headed(s))
        /\ Len(MsgsIn(s)) <= Len(MsgsIn(recs)) /\ Len(MsgsIn(s)) \in Nat
    BY <1>1
  <2>3. g = AppendRecords(f, s)
    BY <2>1
  <2> HIDE DEF s
  <2>4. FileOK(g) /\ Len(MsgsIn(g.lines)) <= Len(MsgsIn(f.lines)) + Len(MsgsIn(s))
    BY <2>2, <2>3, AppendIs
  <2>5. Len(MsgsIn(g.lines)) \in Nat
    BY <2>4, MsgsInType DEF FileOK
  <2>6. QED
    BY <1>0, <2>2, <2>4, <2>5
<1>3. CASE g \in TornCuts(f, recs)
  <2>1. PICK n \in 1..Len(recs) : g \in CutInside(AppendRecords(f, SubSeq(recs, 1, n - 1)), recs[n])
    BY <1>3 DEF TornCuts
  <2> DEFINE s == SubSeq(recs, 1, n - 1)
             h == AppendRecords(f, s)
             rec == recs[n]
  <2>2. n - 1 \in 0..Len(recs) /\ n \in 0..Len(recs) /\ rec \in Records /\ <<rec>> \in Seq(Records)
    OBVIOUS
  <2>3. s \in Seq(Records) /\ (f.lines = <<>> => Headed(s)) /\ Len(MsgsIn(s)) \in Nat
    BY <1>1, <2>2
  <2>4. SubSeq(recs, 1, n) = s \o <<rec>>
    <3>1. 1 \in 1..Len(recs) /\ n \in 1..Len(recs)
      BY <2>1
    <3>2. QED
      BY <3>1, SubSeqRecursiveSecond
  <2>5. Len(MsgsIn(s)) + Len(MsgsIn(<<rec>>)) <= Len(MsgsIn(recs))
    <3>1. Len(MsgsIn(s \o <<rec>>)) <= Len(MsgsIn(recs))
      BY <1>1, <2>2, <2>4
    <3> HIDE DEF s, rec
    <3>2. Len(MsgsIn(s \o <<rec>>)) = Len(MsgsIn(s)) + Len(MsgsIn(<<rec>>))
      BY <2>2, <2>3, MsgsInTwo
    <3>3. QED
      BY <3>1, <3>2
  <2>6. FileOK(h) /\ Len(MsgsIn(h.lines)) <= Len(MsgsIn(f.lines)) + Len(MsgsIn(s))
        /\ (s # <<>> => h.lines # <<>>)
    <3> HIDE DEF s
    <3>1. FileOK(h) /\ Len(MsgsIn(h.lines)) <= Len(MsgsIn(f.lines)) + Len(MsgsIn(s))
      BY <2>3, AppendIs
    <3>2. s # <<>> => h.lines # <<>>
      <4>1. CASE f.nl
        <5>1. h.lines = f.lines \o s
          BY <2>3, <4>1, AppendIs
        <5>2. QED
          BY <1>0, <2>3, <5>1
      <4>2. CASE ~f.nl /\ s # <<>>
        <5>1. h = [lines |-> Front(f.lines) \o <<Junk>> \o Tail(s), nl |-> TRUE]
          BY <4>2 DEF AppendRecords
        <5>2. f.lines # <<>>
          BY <4>2 DEF FileOK
        <5>3. Front(f.lines) \o <<Junk>> \in Seq(Records) /\ Front(f.lines) \o <<Junk>> # <<>>
          BY <1>0, <5>2, Continued
        <5>4. Tail(s) \in Seq(Records)
          BY <2>3, <4>2
        <5>5. QED
          BY <5>1, <5>3, <5>4
      <4>3. QED
        BY <4>1, <4>2
    <3>3. QED
      BY <3>1, <3>2
  <2>7. h.lines = <<>> => ~IsMsg(rec)
    <3>1. ASSUME h.lines = <<>> PROVE s = <<>>
      BY <2>6, <3>1
    <3>2. s = <<>> => n = 1
      BY <2>2
    <3>3. ASSUME s = <<>>, h.lines = <<>> PROVE f.lines = <<>>
      BY <3>3 DEF AppendRecords
    <3>4. n = 1 /\ f.lines = <<>> => ~IsMsg(rec)
      <4>1. recs # <<>>
        BY <2>1
      <4>2. QED
        BY <4>1 DEF Headed
    <3>5. QED
      BY <3>1, <3>2, <3>3, <3>4
  <2>8. g \in CutInside(h, rec)
    BY <2>1
  <2> HIDE DEF s, h, rec
  <2>9. FileOK(g) /\ Len(MsgsIn(g.lines)) <= Len(MsgsIn(h.lines)) + Len(MsgsIn(<<rec>>))
    BY <2>2, <2>6, <2>7, <2>8, CutIs
  <2>10. Len(MsgsIn(g.lines)) \in Nat /\ Len(MsgsIn(h.lines)) \in Nat /\ Len(MsgsIn(<<rec>>)) \in Nat
    BY <2>2, <2>6, <2>9, MsgsInType DEF FileOK
  <2>11. QED
    BY <1>0, <2>3, <2>5, <2>6, <2>9, <2>10
<1>4. QED
  BY <1>2, <1>3

-------------------------------------------------------------------------------
(* load(), _reconcile() and save()                                            *)

LEMMA SingleLine ==
    ASSUME NEW S, NEW s \in Seq(S)
    PROVE  /\ Len(s) = 1 => s = <<s[1]>> /\ s[1] \in S
           /\ s = <<>> <=> Len(s) = 0
           /\ Len(s) \in Nat
<1>1. (s = <<>> <=> Len(s) = 0) /\ Len(s) \in Nat
  BY EmptySeq
<1>2. ASSUME Len(s) = 1 PROVE s = <<s[1]>> /\ s[1] \in S
  <2>1. s[1] \in S /\ s # <<>>
    BY <1>1, <1>2
  <2>2. s = <<s[1]>> \o Tail(s) /\ Tail(s) \in Seq(S) /\ Len(Tail(s)) = 0
    <3>1. s = <<s[1]>> \o Tail(s)
      BY <2>1
    <3>2. Tail(s) \in Seq(S) /\ Len(Tail(s)) = Len(s) - 1
      BY <2>1, HeadTailProperties
    <3>3. QED
      BY <1>2, <3>1, <3>2
  <2>3. Tail(s) = <<>>
    BY <2>2, EmptySeq
  <2>4. <<s[1]>> \o <<>> = <<s[1]>>
    BY <2>1
  <2>5. QED
    BY <2>1, <2>2, <2>3, <2>4
<1>3. QED
  BY <1>1, <1>2

LEMMA OneOrMore ==
    ASSUME NEW n \in Nat
    PROVE  /\ n > 1 => n # 1 /\ n # 0
           /\ n = 1 => ~(n > 1)
           /\ ~(n > 1) /\ n # 0 => n = 1
  OBVIOUS

\* What a version 1 file holds.
LEMMA V1Is ==
    ASSUME NEW l \in Records, l.k = "v1"
    PROVE  l.msgs \in Seq(Messages) /\ Len(l.msgs) <= MaxLen /\ V1Files # {}
<1>1. PICK v \in V1Files : l = V1(v.msgs)
  BY DEF Records, V1, Junk, Meta, Messages, Msg
<1>2. l.msgs = v.msgs
  BY <1>1 DEF V1
<1>3. QED
  BY <1>1, <1>2, ConstantsAssumption

LEMMA NotNothing ==
    ASSUME NEW h \in Heads
    PROVE  h # NothingRead <=> ~(h.msgs = <<>> /\ h.done = "none")
  BY DEF Heads, NothingRead

\* A file of more than one line is read line by line; one of a single line is of
\* version 1, or has nothing that counts.
LEMMA LoadIs ==
    ASSUME NEW f, FileOK(f)
    PROVE  /\ Len(f.lines) > 1 => /\ LoadResult(f).msgs = MsgsIn(f.lines)
                                  /\ LoadResult(f).done = FlagIn(f.lines)
           /\ ~(Len(f.lines) > 1) => MsgsIn(f.lines) = <<>>
           /\ Len(f.lines) > 1 /\ ~LoadResult(f).ok => MsgsIn(f.lines) = <<>>
           /\ LoadResult(f).ok => Len(f.lines) > 1 \/ (Len(f.lines) = 1 /\ f.lines[1].k = "v1")
           /\ ~(Len(f.lines) > 1) /\ V1Files = {} =>
                  LoadResult(f).msgs = <<>> /\ LoadResult(f).done = "open"
           /\ f.lines = <<>> => LoadResult(f) = None
<1> DEFINE have == Scanned(f.lines)
<1>1. f.lines \in Seq(Records) /\ Headed(f.lines)
  BY DEF FileOK
<1>0. Len(f.lines) \in Nat
  BY <1>1, SingleLine
<1>2. have \in Heads
  BY <1>1, ScannedTwo
<1>3. CASE Len(f.lines) > 1
  <2>1. Len(f.lines) # 1 /\ f.lines # <<>>
    <3>1. Len(f.lines) # 1 /\ Len(f.lines) # 0
      BY <1>0, <1>3, OneOrMore, Zenon
    <3>2. QED
      BY <1>1, <3>1, SingleLine
  <2>2. CASE have # NothingRead
    <3>1. LoadResult(f) = [ok |-> TRUE, msgs |-> have.msgs,
                           done |-> IF have.done = "none" THEN "open" ELSE have.done]
      BY <1>3, <2>1, <2>2 DEF LoadResult
    <3>2. QED
      BY <1>3, <2>1, <3>1 DEF MsgsIn, FlagIn
  <2>3. CASE have = NothingRead
    <3>1. LoadResult(f) = None
      BY <1>3, <2>1, <2>3 DEF LoadResult
    <3>2. MsgsIn(f.lines) = <<>> /\ FlagIn(f.lines) = "open"
      BY <2>3 DEF MsgsIn, FlagIn, NothingRead
    <3>3. QED
      BY <1>3, <2>1, <3>1, <3>2 DEF None
  <2>4. QED
    BY <2>2, <2>3
<1>4. CASE ~(Len(f.lines) > 1)
  <2>1. CASE f.lines = <<>>
    <3>1. MsgsIn(f.lines) = <<>>
      BY <2>1, ScannedNone DEF MsgsIn, NothingRead
    <3>2. LoadResult(f) = None
      BY <1>1, <2>1 DEF LoadResult
    <3>3. QED
      BY <1>4, <3>1, <3>2 DEF None
  <2>2. CASE f.lines # <<>>
    <3>1. Len(f.lines) = 1 /\ f.lines = <<f.lines[1]>> /\ f.lines[1] \in Records
          /\ ~IsMsg(f.lines[1])
      <4>1. Len(f.lines) # 0
        BY <1>1, <2>2, SingleLine
      <4>2. Len(f.lines) = 1
        BY <1>0, <1>4, <4>1, OneOrMore, Zenon
      <4>3. QED
        BY <1>1, <2>2, <4>2, SingleLine DEF Headed
    <3>2. MsgsIn(<<f.lines[1]>>) = <<>>
      <4> DEFINE l == f.lines[1]
      <4>1. l \in Records /\ ~IsMsg(l)
        BY <3>1
      <4> HIDE DEF l
      <4>2. Scanned(<<l>>).msgs = <<>>
        <5>1. CASE IsMeta(l)
          <6>1. Scanned(<<l>>) = [msgs |-> <<>>, done |-> l.done]
            BY <4>1, <5>1, ScannedOne
          <6>2. QED
            BY <6>1
        <5>2. CASE ~IsMeta(l)
          <6>1. Scanned(<<l>>) = NothingRead
            BY <4>1, <5>2, ScannedOne
          <6>2. QED
            BY <6>1 DEF NothingRead
        <5>3. QED
          BY <5>1, <5>2
      <4>3. QED
        BY <4>2 DEF MsgsIn, l
    <3>3. MsgsIn(f.lines) = <<>>
      BY <3>1, <3>2
    <3>4. CASE f.lines[1].k = "v1"
      BY <1>4, <2>2, <3>1, <3>3, <3>4, V1Is
    <3>5. CASE f.lines[1].k # "v1"
      <4>1. LoadResult(f) = None
        BY <1>1, <1>4, <3>5 DEF LoadResult
      <4>2. QED
        BY <1>4, <2>2, <3>3, <4>1 DEF None
    <3>6. QED
      BY <3>4, <3>5
  <2>3. QED
    BY <2>1, <2>2
<1>5. QED
  BY <1>3, <1>4

LEMMA LoadType ==
    ASSUME NEW f, FileOK(f), Len(MsgsIn(f.lines)) <= MaxLen
    PROVE  /\ LoadResult(f).msgs \in Seq(Messages) /\ Len(LoadResult(f).msgs) <= MaxLen
           /\ LoadResult(f).done \in Flags
<1>1. f.lines \in Seq(Records)
  BY DEF FileOK
<1>0. Len(f.lines) \in Nat
  BY <1>1, SingleLine
<1>2. MsgsIn(f.lines) \in Seq(Messages) /\ FlagIn(f.lines) \in Flags
  BY <1>1, MsgsInType
<1>3. CASE Len(f.lines) > 1
  BY <1>2, <1>3, LoadIs
<1>4. CASE ~(Len(f.lines) > 1)
  <2>1. CASE Len(f.lines) = 1 /\ f.lines[1].k = "v1"
    <3>1. LoadResult(f) = [ok |-> TRUE, msgs |-> f.lines[1].msgs, done |-> "open"]
      BY <2>1 DEF LoadResult
    <3>2. f.lines[1] \in Records
      BY <1>1, <2>1
    <3>3. f.lines[1].msgs \in Seq(Messages) /\ Len(f.lines[1].msgs) <= MaxLen
      BY <2>1, <3>2, V1Is
    <3>4. QED
      BY <3>1, <3>3 DEF Flags
  <2>2. CASE ~(Len(f.lines) = 1 /\ f.lines[1].k = "v1")
    <3>1. LoadResult(f) = None
      BY <1>4, <2>2 DEF LoadResult
    <3>2. <<>> \in Seq(Messages) /\ Len(<<>>) = 0 /\ MaxLen \in Nat
      BY ConstantsAssumption
    <3>3. None.msgs = <<>> /\ None.done \in Flags
      BY DEF None, Flags
    <3>4. QED
      BY <3>1, <3>2, <3>3
  <2>3. QED
    BY <2>1, <2>2
<1>5. QED
  BY <1>3, <1>4

\* The store's fields describe the file.
Knows(f, st) == /\ st.written = Len(MsgsIn(f.lines))
                /\ st.done = "none" => MsgsIn(f.lines) = <<>>
                /\ st.done # "none" => Len(f.lines) > 1 /\ FlagIn(f.lines) = st.done

Stores == [written : Nat, done : Flags \cup {"none"}, synced : BOOLEAN]

LEMMA FieldsAre ==
    ASSUME NEW st, NEW w, NEW d,
           st = Fields(w, d, TRUE) \/ st = Fields(w, d, FALSE)
    PROVE  /\ st.written = w /\ st.done = d
           /\ w \in Nat /\ d \in Flags \cup {"none"} => st \in Stores
<1>1. CASE st = Fields(w, d, TRUE)
  BY <1>1 DEF Fields, Stores
<1>2. CASE st = Fields(w, d, FALSE)
  BY <1>2 DEF Fields, Stores
<1>3. QED
  BY <1>1, <1>2

\* load() that found something, in lines or in a version 1 file
LEMMA LoadKnows ==
    ASSUME NEW f, FileOK(f), LoadResult(f).ok
    PROVE  /\ AfterLoad(f) \in Stores
           /\ Knows(f, AfterLoad(f))
           /\ AfterLoad(f).written = Len(MsgsIn(f.lines))
<1>1. f.lines \in Seq(Records)
  BY DEF FileOK
<1>0. Len(f.lines) \in Nat
  BY <1>1, SingleLine
<1>2. /\ MsgsIn(f.lines) \in Seq(Messages) /\ Len(MsgsIn(f.lines)) \in Nat
      /\ FlagIn(f.lines) \in Flags /\ FlagIn(f.lines) # "none"
  BY <1>1, MsgsInType DEF Flags
<1>3. CASE Len(f.lines) > 1
  <2>1. Len(f.lines) # 1
    BY <1>0, <1>3, OneOrMore, Zenon
  <2>2. AfterLoad(f) = Fields(Len(MsgsIn(f.lines)), FlagIn(f.lines), TRUE)
    BY <1>3, <2>1, LoadIs DEF AfterLoad
  <2> DEFINE st == AfterLoad(f)
  <2>3. st.written = Len(MsgsIn(f.lines)) /\ st.done = FlagIn(f.lines) /\ st \in Stores
    BY <1>2, <2>2, FieldsAre
  <2> HIDE DEF st
  <2>4. Knows(f, st)
    BY <1>2, <1>3, <2>3 DEF Knows
  <2>5. QED
    BY <2>3, <2>4 DEF st
<1>4. CASE Len(f.lines) = 1
  <2>1. AfterLoad(f) = Fields(0, "none", FALSE)
    BY <1>4 DEF AfterLoad, NewStore
  <2>2. MsgsIn(f.lines) = <<>> /\ Len(<<>>) = 0
    <3>1. ~(Len(f.lines) > 1)
      BY <1>0, <1>4, OneOrMore, Zenon
    <3>2. QED
      BY <3>1, LoadIs
  <2> DEFINE st == AfterLoad(f)
  <2>3. st.written = 0 /\ st.done = "none" /\ st \in Stores
    BY <2>1, FieldsAre
  <2> HIDE DEF st
  <2>4. Knows(f, st)
    BY <2>2, <2>3 DEF Knows
  <2>5. QED
    BY <2>2, <2>3, <2>4 DEF st
<1>5. QED
  BY <1>3, <1>4, LoadIs

LEMMA ReconcileKnows ==
    ASSUME NEW f, FileOK(f)
    PROVE  /\ AfterReconcile(f) \in Stores
           /\ Knows(f, AfterReconcile(f))
           /\ AfterReconcile(f).written = Len(MsgsIn(f.lines))
<1>1. CASE ~NonEmpty(f) \/ ~LoadResult(f).ok
  <2>1. AfterReconcile(f) = Fields(0, "none", TRUE)
    BY <1>1 DEF AfterReconcile
  <2>2. MsgsIn(f.lines) = <<>> /\ Len(<<>>) = 0
    <3>1. CASE ~NonEmpty(f)
      BY <3>1, LoadIs DEF NonEmpty
    <3>2. CASE ~LoadResult(f).ok
      BY <3>2, LoadIs
    <3>3. QED
      BY <1>1, <3>1, <3>2
  <2> DEFINE st == AfterReconcile(f)
  <2>3. st.written = 0 /\ st.done = "none" /\ st \in Stores
    BY <2>1, FieldsAre
  <2> HIDE DEF st
  <2>4. Knows(f, st)
    BY <2>2, <2>3 DEF Knows
  <2>5. QED
    BY <2>2, <2>3, <2>4 DEF st
<1>2. CASE ~(~NonEmpty(f) \/ ~LoadResult(f).ok)
  <2>1. AfterReconcile(f) = AfterLoad(f) /\ LoadResult(f).ok
    BY <1>2, Zenon DEF AfterReconcile
  <2>2. QED
    BY <2>1, LoadKnows
<1>3. QED
  BY <1>1, <1>2

LEMMA ConcatIs ==
    ASSUME NEW S, NEW s \in Seq(S), NEW t \in Seq(S)
    PROVE  /\ Len(s \o t) = Len(s) + Len(t)
           /\ Len(s) = 1 => (s \o t)[1] = s[1]
  OBVIOUS

LEMMA RestOf ==
    ASSUME NEW S, NEW ms \in Seq(S), NEW n \in Nat, n <= Len(ms)
    PROVE  /\ SubSeq(ms, n + 1, Len(ms)) \in Seq(S)
           /\ Len(SubSeq(ms, n + 1, Len(ms))) = Len(ms) - n
           /\ n = 0 => SubSeq(ms, n + 1, Len(ms)) = ms
<1>1. SubSeq(ms, n + 1, Len(ms)) \in Seq(S)
  OBVIOUS
<1>2. Len(SubSeq(ms, n + 1, Len(ms))) = Len(ms) - n
  OBVIOUS
<1>3. SubSeq(ms, 1, Len(ms)) = ms
  OBVIOUS
<1>4. n = 0 => n + 1 = 1
  OBVIOUS
<1>5. n = 0 => SubSeq(ms, n + 1, Len(ms)) = ms
  BY <1>3, <1>4, Zenon
<1>6. QED
  BY <1>1, <1>2, <1>5

LEMMA PrefixRest ==
    ASSUME NEW S, NEW s \in Seq(S), NEW ms \in Seq(S), IsPrefix(s, ms)
    PROVE  Len(s) <= Len(ms) /\ ms = s \o SubSeq(ms, Len(s) + 1, Len(ms))
<1>1. Len(s) <= Len(ms) /\ SubSeq(s, 1, Len(s)) = SubSeq(ms, 1, Len(s))
  BY DEF IsPrefix
<1>2. s = SubSeq(ms, 1, Len(s))
  BY <1>1
<1>3. ms = SubSeq(ms, 1, Len(s)) \o SubSeq(ms, Len(s) + 1, Len(ms))
  <2>1. Len(s) \in 0..Len(ms)
    BY <1>1
  <2>2. QED
    BY <2>1, BeginningRead
<1>4. QED
  BY <1>1, <1>2, <1>3, Zenon

LEMMA MetaIs ==
    ASSUME NEW d \in Flags
    PROVE  /\ Meta(d) \in Records /\ <<Meta(d)>> \in Seq(Records) /\ ~IsMsg(Meta(d))
           /\ MsgsIn(<<Meta(d)>>) = <<>> /\ Scanned(<<Meta(d)>>).done = d /\ d # "none"
<1>1. Meta(d) \in Records
  BY DEF Records
<1>2. IsMeta(Meta(d)) /\ Meta(d).done = d /\ ~IsMsg(Meta(d))
  BY DEF IsMeta, IsMsg, Meta
<1>3. Scanned(<<Meta(d)>>) = [msgs |-> <<>>, done |-> d]
  BY <1>1, <1>2, ScannedOne
<1>4. QED
  BY <1>1, <1>2, <1>3 DEF MsgsIn, Flags

LEMMA NoFlagMessages ==
    ASSUME NEW ms \in Seq(Messages)
    PROVE  ms \in Seq(Records) /\ MsgsIn(ms) = ms /\ Scanned(ms).done = "none"
<1>1. ms \in Seq(Records) /\ Scanned(ms) = [msgs |-> ms, done |-> "none"]
  BY ScannedMessages
<1>2. QED
  BY <1>1 DEF MsgsIn

\* A file written anew
LEMMA MetaFirst ==
    ASSUME NEW ms \in Seq(Messages), NEW d \in Flags
    PROVE  /\ <<Meta(d)>> \o ms \in Seq(Records) /\ Headed(<<Meta(d)>> \o ms)
           /\ MsgsIn(<<Meta(d)>> \o ms) = ms
           /\ Scanned(<<Meta(d)>> \o ms).done = d /\ FlagIn(<<Meta(d)>> \o ms) = d
           /\ Len(<<Meta(d)>> \o ms) = Len(ms) + 1 /\ <<Meta(d)>> \o ms # <<>>
<1> DEFINE first == <<Meta(d)>>
<1>1. /\ first \in Seq(Records) /\ ~IsMsg(first[1]) /\ Len(first) = 1 /\ d # "none"
      /\ MsgsIn(first) = <<>> /\ Scanned(first).done = d
  BY MetaIs
<1>2. ms \in Seq(Records) /\ MsgsIn(ms) = ms /\ Scanned(ms).done = "none"
  BY NoFlagMessages
<1> HIDE DEF first
<1>3. MsgsIn(first \o ms) = ms /\ first \o ms \in Seq(Records)
  <2>1. MsgsIn(first \o ms) = MsgsIn(first) \o MsgsIn(ms) /\ first \o ms \in Seq(Records)
    BY <1>1, <1>2, MsgsInTwo
  <2>2. MsgsIn(first \o ms) = <<>> \o ms
    BY <1>1, <1>2, <2>1, Zenon
  <2>3. <<>> \o ms = ms
    OBVIOUS
  <2>4. QED
    BY <2>1, <2>2, <2>3, Zenon
<1>4. Scanned(first \o ms).done = d
  <2>1. Scanned(first \o ms) = Joined(Scanned(first), Scanned(ms))
    BY <1>1, <1>2, ScannedTwo
  <2>2. QED
    BY <1>1, <1>2, <2>1, JoinedParts
<1>5. (first \o ms)[1] = first[1] /\ Len(first \o ms) = Len(ms) + 1
  <2>1. (first \o ms)[1] = first[1] /\ Len(first \o ms) = Len(first) + Len(ms)
    BY <1>1, <1>2, ConcatIs, Zenon
  <2>2. Len(ms) \in Nat
    BY <1>2, SingleLine
  <2>3. QED
    BY <1>1, <2>1, <2>2
<1>6. first \o ms # <<>>
  <2>1. Len(ms) \in Nat /\ Len(<<>>) = 0
    BY <1>2
  <2>2. QED
    BY <1>5, <2>1
<1>7. Headed(first \o ms)
  BY <1>1, <1>5 DEF Headed
<1>8. FlagIn(first \o ms) = d
  BY <1>1, <1>4 DEF FlagIn
<1>9. QED
  BY <1>3, <1>4, <1>5, <1>6, <1>7, <1>8 DEF first

LEMMA MetaLast ==
    ASSUME NEW ms \in Seq(Messages), NEW d \in Flags
    PROVE  /\ ms \o <<Meta(d)>> \in Seq(Records)
           /\ MsgsIn(ms \o <<Meta(d)>>) = ms /\ Scanned(ms \o <<Meta(d)>>).done = d
           /\ ms \o <<Meta(d)>> # <<>>
<1> DEFINE last == <<Meta(d)>>
<1>1. /\ last \in Seq(Records) /\ Len(last) = 1 /\ d # "none"
      /\ MsgsIn(last) = <<>> /\ Scanned(last).done = d
  BY MetaIs
<1>2. ms \in Seq(Records) /\ MsgsIn(ms) = ms /\ Scanned(ms).done = "none"
  BY NoFlagMessages
<1> HIDE DEF last
<1>3. MsgsIn(ms \o last) = ms /\ ms \o last \in Seq(Records)
  <2>1. MsgsIn(ms \o last) = MsgsIn(ms) \o MsgsIn(last) /\ ms \o last \in Seq(Records)
    BY <1>1, <1>2, MsgsInTwo
  <2>2. MsgsIn(ms \o last) = ms \o <<>>
    BY <1>1, <1>2, <2>1, Zenon
  <2>3. ms \o <<>> = ms
    OBVIOUS
  <2>4. QED
    BY <2>1, <2>2, <2>3, Zenon
<1>4. Scanned(ms \o last).done = d
  <2>1. Scanned(ms \o last) = Joined(Scanned(ms), Scanned(last))
    BY <1>1, <1>2, ScannedTwo
  <2>2. QED
    BY <1>1, <1>2, <2>1, JoinedParts
<1>5. ms \o last # <<>>
  <2>1. Len(ms \o last) = Len(ms) + Len(last)
    BY <1>1, <1>2, ConcatIs, Zenon
  <2>2. Len(ms) \in Nat /\ Len(<<>>) = 0
    BY <1>2, SingleLine
  <2>3. QED
    BY <1>1, <2>1, <2>2
<1>6. QED
  BY <1>3, <1>4, <1>5 DEF last

\* What _append adds
LEMMA AddedWays ==
    ASSUME NEW f, NEW known, NEW new \in Seq(Messages), NEW d \in Flags
    PROVE  /\ f.lines = <<>> => AppendedRecords(f, known, new, d) = <<Meta(d)>> \o new
           /\ f.lines # <<>> /\ d # known => AppendedRecords(f, known, new, d) = new \o <<Meta(d)>>
           /\ f.lines # <<>> /\ d = known => AppendedRecords(f, known, new, d) = new
<1> DEFINE recs == AppendedRecords(f, known, new, d)
<1>1. ASSUME f.lines = <<>> PROVE recs = <<Meta(d)>> \o new
  <2>1. recs = <<Meta(d)>> \o new \o <<>>
    BY <1>1 DEF AppendedRecords, NonEmpty
  <2>2. <<Meta(d)>> \o new \in Seq(Records)
    BY MetaFirst
  <2>3. QED
    BY <2>1, <2>2
<1>2. ASSUME f.lines # <<>>, d # known PROVE recs = new \o <<Meta(d)>>
  <2>1. recs = <<>> \o new \o <<Meta(d)>>
    BY <1>2 DEF AppendedRecords, NonEmpty
  <2>2. <<>> \o new = new
    OBVIOUS
  <2>3. QED
    BY <2>1, <2>2, Zenon
<1>3. ASSUME f.lines # <<>>, d = known PROVE recs = new
  <2>1. recs = <<>> \o new \o <<>>
    BY <1>3 DEF AppendedRecords, NonEmpty
  <2>2. QED
    BY <2>1
<1>4. QED
  BY <1>1, <1>2, <1>3, Zenon

LEMMA AddedIs ==
    ASSUME NEW f, NEW known, NEW new \in Seq(Messages), NEW d \in Flags,
           NEW recs, recs = AppendedRecords(f, known, new, d)
    PROVE  /\ recs \in Seq(Records) /\ MsgsIn(recs) = new
           /\ f.lines = <<>> => Headed(recs)
           /\ f.lines = <<>> \/ d # known => Scanned(recs).done = d /\ recs # <<>>
           /\ f.lines # <<>> /\ d = known => recs = new /\ Scanned(recs).done = "none"
<1>1. CASE f.lines = <<>>
  <2>1. recs = <<Meta(d)>> \o new
    BY <1>1, AddedWays, Zenon
  <2>2. QED
    BY <1>1, <2>1, MetaFirst
<1>2. CASE f.lines # <<>> /\ d # known
  <2>1. recs = new \o <<Meta(d)>>
    BY <1>2, AddedWays, Zenon
  <2>2. QED
    BY <1>2, <2>1, MetaLast
<1>3. CASE f.lines # <<>> /\ d = known
  <2>1. recs = new
    BY <1>3, AddedWays, Zenon
  <2>2. QED
    BY <1>3, <2>1, NoFlagMessages
<1>4. QED
  BY <1>1, <1>2, <1>3

\* The messages that are not counted yet
Rest(ms, w) == SubSeq(ms, w + 1, Len(ms))

LEMMA Remaining ==
    ASSUME NEW ms \in Seq(Messages), NEW w \in Nat, ~(Len(ms) < w)
    PROVE  /\ Rest(ms, w) \in Seq(Messages) /\ Len(Rest(ms, w)) \in Nat /\ Len(ms) \in Nat
           /\ w + Len(Rest(ms, w)) = Len(ms)
           /\ w = 0 => Rest(ms, w) = ms
           /\ Rest(ms, w) = <<>> => w = Len(ms)
<1> DEFINE new == Rest(ms, w)
<1>1. Len(ms) \in Nat
  BY SingleLine
<1>2. w <= Len(ms)
  BY <1>1
<1>3. new \in Seq(Messages) /\ Len(new) = Len(ms) - w /\ (w = 0 => new = ms)
  BY <1>2, RestOf DEF Rest
<1>4. Len(new) \in Nat /\ (new = <<>> => Len(new) = 0)
  BY <1>3, SingleLine
<1> DEFINE a == Len(ms)
           b == Len(new)
<1>5. a \in Nat /\ b \in Nat /\ b = a - w
  BY <1>1, <1>3, <1>4
<1>6. (w = 0 => new = ms) /\ (new = <<>> => b = 0)
  BY <1>3, <1>4
<1> HIDE DEF a, b, new
<1>7. w + b = a /\ (b = 0 => w = a)
  BY <1>5
<1>8. QED
  BY <1>1, <1>3, <1>4, <1>6, <1>7 DEF a, b, new

\* The three ways of save(): the file is written anew, left alone, or added to.
LEMMA SaveWays ==
    ASSUME NEW f, NEW st \in Stores, NEW ms \in Seq(Messages), NEW d \in Flags
    PROVE  LET new == Rest(ms, st.written)
               out == SaveOutcome(f, st, ms, d)
           IN  /\ Len(ms) < st.written =>
                      /\ out.file = RewrittenFile(ms, d) /\ out.recs = <<>>
                      /\ out.st \in Stores /\ out.st.written = Len(ms) /\ out.st.done = d
               /\ ~(Len(ms) < st.written) /\ new = <<>> /\ st.done = d =>
                      out.file = f /\ out.recs = <<>> /\ out.st = st
               /\ ~(Len(ms) < st.written) /\ ~(new = <<>> /\ st.done = d) =>
                      /\ out.recs = AppendedRecords(f, st.done, new, d)
                      /\ out.file = AppendRecords(f, out.recs)
                      /\ out.st \in Stores /\ out.st.written = Len(ms) /\ out.st.done = d
<1> DEFINE new == Rest(ms, st.written)
           out == SaveOutcome(f, st, ms, d)
<1> SUFFICES /\ Len(ms) < st.written =>
                    /\ out.file = RewrittenFile(ms, d) /\ out.recs = <<>>
                    /\ out.st \in Stores /\ out.st.written = Len(ms) /\ out.st.done = d
             /\ ~(Len(ms) < st.written) /\ new = <<>> /\ st.done = d =>
                    out.file = f /\ out.recs = <<>> /\ out.st = st
             /\ ~(Len(ms) < st.written) /\ ~(new = <<>> /\ st.done = d) =>
                    /\ out.recs = AppendedRecords(f, st.done, new, d)
                    /\ out.file = AppendRecords(f, out.recs)
                    /\ out.st \in Stores /\ out.st.written = Len(ms) /\ out.st.done = d
  BY Zenon
<1> HIDE DEF new, out
<1>0. Len(ms) \in Nat /\ st.written \in Nat
  BY SingleLine DEF Stores
<1>1. CASE Len(ms) < st.written
  <2> DEFINE g == RewrittenFile(ms, d)
             t == Fields(Len(ms), d, TRUE)
  <2>1. out = [file |-> g, st |-> t, recs |-> <<>>]
    BY <1>1, Zenon DEF SaveOutcome, Rest, new, out
  <2> HIDE DEF g, t
  <2>2. out.file = g /\ out.recs = <<>> /\ out.st = t
    BY <2>1
  <2>3. t \in Stores /\ t.written = Len(ms) /\ t.done = d
    BY <1>0 DEF t, Fields, Stores
  <2>4. QED
    BY <1>1, <2>2, <2>3, Zenon DEF g
<1>2. CASE ~(Len(ms) < st.written) /\ new = <<>> /\ st.done = d
  <2>1. out = [file |-> f, st |-> st, recs |-> <<>>]
    BY <1>2, Zenon DEF SaveOutcome, Rest, new, out
  <2>2. out.file = f /\ out.recs = <<>> /\ out.st = st
    BY <2>1
  <2>3. QED
    BY <1>2, <2>2, Zenon
<1>3. CASE ~(Len(ms) < st.written) /\ ~(new = <<>> /\ st.done = d)
  <2> DEFINE r == AppendedRecords(f, st.done, new, d)
             g == AppendRecords(f, r)
             t == Fields(st.written + Len(new), d, TRUE)
  <2>1. out = [file |-> g, st |-> t, recs |-> r]
    BY <1>3, Zenon DEF SaveOutcome, Rest, new, out
  <2> HIDE DEF g, t, r
  <2>2. out.file = g /\ out.recs = r /\ out.st = t
    BY <2>1
  <2>3. t \in Stores /\ t.written = Len(ms) /\ t.done = d
    <3>1. st.written + Len(new) = Len(ms)
      BY <1>0, <1>3, Remaining DEF new
    <3>2. t = Fields(Len(ms), d, TRUE)
      BY <3>1, Zenon DEF t
    <3>3. QED
      BY <1>0, <3>2 DEF Fields, Stores
  <2>4. QED
    BY <1>3, <2>2, <2>3, Zenon DEF g, r
<1>4. QED
  BY <1>1, <1>2, <1>3, Zenon

LEMMA RewrittenIs ==
    ASSUME NEW ms \in Seq(Messages), NEW d \in Flags, NEW f, f = RewrittenFile(ms, d)
    PROVE  /\ FileOK(f) /\ f.nl /\ f.lines = <<Meta(d)>> \o ms
           /\ MsgsIn(f.lines) = ms /\ FlagIn(f.lines) = d /\ Len(f.lines) = Len(ms) + 1
<1> DEFINE lines == <<Meta(d)>> \o ms
<1>1. f = [lines |-> lines, nl |-> TRUE]
  BY DEF RewrittenFile
<1>2. /\ lines \in Seq(Records) /\ Headed(lines) /\ lines # <<>>
      /\ MsgsIn(lines) = ms /\ FlagIn(lines) = d /\ Len(lines) = Len(ms) + 1
  BY MetaFirst
<1> HIDE DEF lines
<1>3. f.lines = lines /\ f.nl
  BY <1>1
<1>4. FileOK(f)
  BY <1>1, <1>2, <1>3 DEF FileOK
<1>5. QED
  BY <1>2, <1>3, <1>4 DEF lines

\* Whatever the store believes, the file keeps its form and the store counts the
\* whole transcript.
LEMMA SaveType ==
    ASSUME NEW f, FileOK(f), NEW st \in Stores, NEW ms \in Seq(Messages), NEW d \in Flags,
           NEW out, out = SaveOutcome(f, st, ms, d),
           Len(MsgsIn(f.lines)) <= st.written
    PROVE  /\ FileOK(out.file) /\ out.st \in Stores /\ out.st.written = Len(ms)
           /\ out.recs \in Seq(Records) /\ (f.lines = <<>> => Headed(out.recs))
           /\ Len(MsgsIn(out.file.lines)) <= Len(ms)
           /\ \/ out.recs = <<>>
              \/ Len(MsgsIn(f.lines)) + Len(MsgsIn(out.recs)) <= Len(ms)
<1> DEFINE new == Rest(ms, st.written)
<1>0. st.written \in Nat /\ Len(ms) \in Nat
  BY SingleLine DEF Stores
<1>1. f.lines \in Seq(Records) /\ Len(MsgsIn(f.lines)) \in Nat
  BY MsgsInType DEF FileOK
<1>2. <<>> \in Seq(Records) /\ Headed(<<>>)
  BY DEF Headed
<1>3. CASE Len(ms) < st.written
  <2>1. out.file = RewrittenFile(ms, d) /\ out.recs = <<>>
    BY <1>3, SaveWays
  <2>2. out.st \in Stores /\ out.st.written = Len(ms)
    BY <1>3, SaveWays
  <2>3. FileOK(out.file) /\ MsgsIn(out.file.lines) = ms
    BY <2>1, RewrittenIs
  <2>4. Len(MsgsIn(out.file.lines)) <= Len(ms)
    BY <1>0, <2>3
  <2>5. QED
    BY <1>2, <2>1, <2>2, <2>3, <2>4, Zenon
<1>4. CASE ~(Len(ms) < st.written)
  <2>1. /\ new \in Seq(Messages) /\ Len(new) \in Nat
        /\ st.written + Len(new) = Len(ms) /\ (new = <<>> => st.written = Len(ms))
    BY <1>0, <1>4, Remaining
  <2> HIDE DEF new
  <2>2. CASE new = <<>> /\ st.done = d
    <3>1. out.file = f /\ out.recs = <<>> /\ out.st = st
      BY <1>4, <2>2, SaveWays DEF new
    <3>2. st.written = Len(ms)
      BY <2>1, <2>2
    <3>3. Len(MsgsIn(f.lines)) <= Len(ms)
      BY <3>2, Zenon
    <3>4. QED
      BY <1>2, <3>1, <3>2, <3>3, Zenon
  <2>3. CASE ~(new = <<>> /\ st.done = d)
    <3>1. /\ out.recs = AppendedRecords(f, st.done, new, d)
          /\ out.file = AppendRecords(f, out.recs)
          /\ out.st \in Stores /\ out.st.written = Len(ms)
      BY <1>4, <2>3, SaveWays DEF new
    <3>2. /\ out.recs \in Seq(Records) /\ MsgsIn(out.recs) = new
          /\ (f.lines = <<>> => Headed(out.recs))
      BY <2>1, <3>1, AddedIs
    <3>3. /\ FileOK(out.file)
          /\ Len(MsgsIn(out.file.lines)) <= Len(MsgsIn(f.lines)) + Len(MsgsIn(out.recs))
      BY <3>1, <3>2, AppendIs
    <3>6. Len(MsgsIn(out.recs)) = Len(new)
      BY <3>2, Zenon
    <3>7. Len(MsgsIn(f.lines)) + Len(MsgsIn(out.recs)) <= Len(ms)
      <4> DEFINE a == Len(MsgsIn(f.lines))
                 b == Len(new)
                 c == Len(ms)
      <4>1. a \in Nat /\ b \in Nat /\ c \in Nat /\ a <= st.written /\ st.written + b = c
        BY <1>0, <1>1, <2>1
      <4> HIDE DEF a, b, c
      <4>2. a + b <= c
        BY <1>0, <4>1
      <4>3. QED
        BY <3>6, <4>2, Zenon DEF a, b, c
    <3>8. Len(MsgsIn(out.file.lines)) \in Nat /\ Len(MsgsIn(out.recs)) \in Nat
      BY <3>2, <3>3, MsgsInType DEF FileOK
    <3>9. Len(MsgsIn(out.file.lines)) <= Len(ms)
      <4> DEFINE a == Len(MsgsIn(f.lines))
                 b == Len(MsgsIn(out.recs))
                 c == Len(ms)
                 e == Len(MsgsIn(out.file.lines))
      <4>1. a \in Nat /\ b \in Nat /\ c \in Nat /\ e \in Nat /\ a + b <= c /\ e <= a + b
        BY <1>0, <1>1, <3>3, <3>7, <3>8
      <4> HIDE DEF a, b, c, e
      <4>2. e <= c
        BY <4>1
      <4>3. QED
        BY <4>2, Zenon DEF c, e
    <3>10. QED
      BY <3>1, <3>2, <3>3, <3>7, <3>9, Zenon
  <2>4. QED
    BY <2>2, <2>3
<1>5. QED
  BY <1>3, <1>4

\* A file whose flag and messages are those of ms and d
Holds(f, ms, d) == Len(f.lines) > 1 /\ MsgsIn(f.lines) = ms /\ FlagIn(f.lines) = d

LEMMA HoldsKnows ==
    ASSUME NEW f, NEW ms, NEW d \in Flags, Holds(f, ms, d),
           NEW st, st.written = Len(ms), st.done = d
    PROVE  Knows(f, st)
<1>1. d # "none"
  BY DEF Flags
<1>2. QED
  BY <1>1 DEF Holds, Knows

LEMMA ShortOrLong ==
    ASSUME NEW n \in Nat, NEW m \in Nat
    PROVE  /\ n # 0 => n + 1 > 1
           /\ n # 0 /\ m # 0 => n + m > 1
           /\ n > 1 => n + m > 1
           /\ ~(n < m) => m <= n
  OBVIOUS

LEMMA NothingMore ==
    ASSUME NEW S, NEW s \in Seq(S)
    PROVE  s \o <<>> = s /\ <<>> \o s = s
  OBVIOUS

\* What is counted and what is not are the transcript.
LEMMA TakenUp ==
    ASSUME NEW have \in Seq(Messages), NEW ms \in Seq(Messages), NEW w, w = Len(have),
           w = 0 \/ IsPrefix(have, ms)
    PROVE  ms = have \o Rest(ms, w)
<1>1. CASE w = 0
  <2>1. have = <<>> /\ ~(Len(ms) < w)
    <3>1. have = <<>>
      BY <1>1, SingleLine
    <3>2. Len(ms) \in Nat
      BY SingleLine
    <3>3. ~(Len(ms) < 0)
      BY <3>2
    <3>4. QED
      BY <1>1, <3>1, <3>3
  <2>2. Rest(ms, w) = ms
    BY <1>1, <2>1, Remaining
  <2>3. <<>> \o ms = ms
    BY NothingMore
  <2>4. QED
    BY <2>1, <2>2, <2>3, Zenon
<1>2. CASE w # 0
  <2>1. ms = have \o SubSeq(ms, Len(have) + 1, Len(ms))
    BY <1>2, PrefixRest
  <2>2. QED
    BY <2>1, Zenon DEF Rest
<1>3. QED
  BY <1>1, <1>2

\* The fields describe the file, and nothing added goes astray: the file holds the
\* transcript and the flag, and the fields describe it.
LEMMA SaveIs ==
    ASSUME NEW f, FileOK(f), NEW st \in Stores, Knows(f, st),
           NEW ms \in Seq(Messages), ms # <<>>, NEW d \in Flags,
           NEW out, out = SaveOutcome(f, st, ms, d),
           ~(Len(ms) < st.written) => /\ f.nl \/ out.recs = <<>>
                                      /\ st.written = 0 \/ IsPrefix(MsgsIn(f.lines), ms)
    PROVE  Holds(out.file, ms, d) /\ Knows(out.file, out.st)
<1> DEFINE new == Rest(ms, st.written)
<1>0. st.written \in Nat /\ Len(ms) \in Nat /\ Len(ms) # 0
  BY SingleLine DEF Stores
<1>1. f.lines \in Seq(Records) /\ MsgsIn(f.lines) \in Seq(Messages)
  BY MsgsInType DEF FileOK
<1>2. Len(f.lines) \in Nat
  BY <1>1, SingleLine
<1>3. st.written = Len(MsgsIn(f.lines))
  BY DEF Knows
<1>4. CASE Len(ms) < st.written
  <2>1. out.file = RewrittenFile(ms, d) /\ out.st.written = Len(ms) /\ out.st.done = d
    BY <1>4, SaveWays
  <2>2. /\ MsgsIn(out.file.lines) = ms /\ FlagIn(out.file.lines) = d
        /\ Len(out.file.lines) = Len(ms) + 1
    BY <2>1, RewrittenIs
  <2>3. Len(out.file.lines) > 1
    BY <1>0, <2>2
  <2>4. Holds(out.file, ms, d)
    BY <2>2, <2>3 DEF Holds
  <2>5. QED
    BY <2>1, <2>4, HoldsKnows
<1>5. CASE ~(Len(ms) < st.written)
  <2>1. /\ new \in Seq(Messages) /\ (st.written = 0 => new = ms)
        /\ (new = <<>> => st.written = Len(ms))
    BY <1>0, <1>5, Remaining
  <2>2. ms = MsgsIn(f.lines) \o new
    BY <1>1, <1>3, <1>5, TakenUp
  <2> HIDE DEF new
  <2>3. CASE new = <<>> /\ st.done = d
    <3>1. out.file = f /\ out.st = st
      BY <1>5, <2>3, SaveWays DEF new
    <3>2. d # "none"
      BY DEF Flags
    <3>3. Len(f.lines) > 1 /\ FlagIn(f.lines) = d
      BY <2>3, <3>2, Zenon DEF Knows
    <3>4. MsgsIn(f.lines) \o <<>> = MsgsIn(f.lines)
      BY <1>1, NothingMore
    <3>5. MsgsIn(f.lines) = ms
      BY <2>2, <2>3, <3>4, Zenon
    <3>6. Holds(out.file, ms, d)
      BY <3>1, <3>3, <3>5, Zenon DEF Holds
    <3>7. QED
      BY <3>1, <3>6, Zenon
  <2>4. CASE ~(new = <<>> /\ st.done = d)
    <3>1. /\ out.recs = AppendedRecords(f, st.done, new, d)
          /\ out.file = AppendRecords(f, out.recs)
          /\ out.st.written = Len(ms) /\ out.st.done = d
      BY <1>5, <2>4, SaveWays DEF new
    <3> DEFINE recs == out.recs
    <3>2. /\ recs \in Seq(Records) /\ MsgsIn(recs) = new
          /\ (f.lines = <<>> => Headed(recs))
          /\ (f.lines = <<>> \/ d # st.done => Scanned(recs).done = d /\ recs # <<>>)
          /\ (f.lines # <<>> /\ d = st.done => recs = new /\ Scanned(recs).done = "none")
      BY <2>1, <3>1, AddedIs
    <3> HIDE DEF recs
    <3>3. f.lines = <<>> => recs = <<Meta(d)>> \o new
      BY <2>1, <3>1, AddedWays, Zenon DEF recs
    <3>4. f.nl \/ recs = <<>>
      BY <1>5 DEF recs
    <3>5. out.file.lines = f.lines \o recs
      BY <3>1, <3>2, <3>4, AppendIs DEF recs
    <3>6. /\ MsgsIn(f.lines \o recs) = MsgsIn(f.lines) \o MsgsIn(recs)
          /\ (Scanned(recs).done = "none" => FlagIn(f.lines \o recs) = FlagIn(f.lines))
          /\ (Scanned(recs).done # "none" => FlagIn(f.lines \o recs) = Scanned(recs).done)
      BY <1>1, <3>2, MsgsInTwo
    <3>7. MsgsIn(out.file.lines) = ms
      BY <2>2, <3>2, <3>5, <3>6, Zenon
    <3>8. d # "none"
      BY DEF Flags
    <3>9. FlagIn(out.file.lines) = d
      <4>1. CASE f.lines = <<>> \/ d # st.done
        BY <3>2, <3>5, <3>6, <3>8, <4>1, Zenon
      <4>2. CASE ~(f.lines = <<>> \/ d # st.done)
        <5>1. FlagIn(f.lines) = d
          BY <3>8, <4>2, Zenon DEF Knows
        <5>2. QED
          BY <3>2, <3>5, <3>6, <4>2, <5>1, Zenon
      <4>3. QED
        BY <4>1, <4>2
    <3>10. Len(out.file.lines) > 1
      <4>1. /\ Len(out.file.lines) = Len(f.lines) + Len(recs)
            /\ Len(recs) \in Nat /\ (recs # <<>> => Len(recs) # 0)
            /\ (f.lines # <<>> => Len(f.lines) # 0) /\ (f.lines = <<>> => Len(f.lines) = 0)
        BY <1>1, <3>2, <3>5, ConcatIs, SingleLine, Zenon
      <4>2. CASE f.lines = <<>>
        <5>1. Len(f.lines) = 0 /\ MsgsIn(f.lines) = <<>>
          BY <4>1, <4>2, ScannedNone DEF MsgsIn, NothingRead
        <5>2. <<>> \o new = new
          BY <2>1, NothingMore
        <5>3. new = ms
          BY <2>2, <5>1, <5>2, Zenon
        <5>4. recs = <<Meta(d)>> \o ms
          BY <3>3, <4>2, <5>3, Zenon
        <5>5. Len(recs) = Len(ms) + 1
          BY <5>4, MetaFirst
        <5> DEFINE a == Len(out.file.lines)
                   b == Len(ms)
                   c == Len(recs)
                   e == Len(f.lines)
        <5>6. b \in Nat /\ b # 0 /\ c = b + 1 /\ a = e + c /\ e = 0
          BY <1>0, <4>1, <5>1, <5>5
        <5> HIDE DEF a, b, c, e
        <5>7. a > 1
          BY <5>6
        <5>8. QED
          BY <5>7 DEF a
      <4>3. CASE f.lines # <<>> /\ d # st.done
        <5> DEFINE a == Len(out.file.lines)
                   c == Len(recs)
                   e == Len(f.lines)
        <5>1. a = e + c /\ e \in Nat /\ e # 0 /\ c \in Nat /\ c # 0
          BY <1>2, <3>2, <4>1, <4>3, Zenon
        <5> HIDE DEF a, c, e
        <5>2. a > 1
          BY <5>1
        <5>3. QED
          BY <5>2 DEF a
      <4>4. CASE f.lines # <<>> /\ d = st.done
        <5> DEFINE a == Len(out.file.lines)
                   c == Len(recs)
                   e == Len(f.lines)
        <5>1. a = e + c /\ e \in Nat /\ c \in Nat /\ e > 1
          BY <1>2, <3>8, <4>1, <4>4, Zenon DEF Knows
        <5> HIDE DEF a, c, e
        <5>2. a > 1
          BY <5>1
        <5>3. QED
          BY <5>2 DEF a
      <4>5. QED
        BY <4>2, <4>3, <4>4
    <3>11. Holds(out.file, ms, d)
      BY <3>7, <3>9, <3>10 DEF Holds
    <3>12. QED
      BY <3>1, <3>11, HoldsKnows
  <2>5. QED
    BY <2>3, <2>4
<1>6. QED
  BY <1>4, <1>5

-------------------------------------------------------------------------------
(* The invariant                                                              *)

TypeInv == /\ FileOK(file) /\ store \in Stores
           /\ mem \in Seq(Messages) /\ Len(mem) <= MaxLen
           /\ replaced \in BOOLEAN /\ astray \in BOOLEAN
           /\ acked \in [msgs : Seq(Messages), done : Flags \cup {"unknown"}]
           /\ crashes \in 0..MaxCrashes

\* No more is stored than the store counts, so that no append makes the file hold
\* more messages than a transcript.
CountInv == /\ Len(MsgsIn(file.lines)) <= MaxLen /\ store.written <= MaxLen
            /\ store.synced => Len(MsgsIn(file.lines)) <= store.written

\* Unless something went astray, what the store believes of the file is so.
KnowsInv == store.synced /\ ~astray => Knows(file, store)

IInv == TypeInv /\ CountInv /\ KnowsInv /\ SavedIsLoaded

LEMMA EmptyIs ==
    /\ FileOK(EmptyFile) /\ MsgsIn(EmptyFile.lines) = <<>> /\ EmptyFile.lines = <<>> /\ EmptyFile.nl
    /\ LoadResult(EmptyFile) = None /\ None.msgs = <<>> /\ None.done = "open"
<1>1. EmptyFile = [lines |-> <<>>, nl |-> TRUE] /\ EmptyFile.lines = <<>> /\ EmptyFile.nl
  BY DEF EmptyFile
<1>2. <<>> \in Seq(Records) /\ Headed(<<>>)
  BY DEF Headed
<1>3. FileOK(EmptyFile)
  BY <1>1, <1>2 DEF FileOK
<1>4. MsgsIn(<<>>) = <<>>
  BY ScannedNone DEF MsgsIn, NothingRead
<1>5. LoadResult(EmptyFile) = None
  BY <1>1, <1>3, LoadIs
<1>6. QED
  BY <1>1, <1>3, <1>4, <1>5 DEF None

LEMMA V1FileIs ==
    ASSUME NEW v \in V1Files, NEW f, f = [lines |-> <<V1(v.msgs)>>, nl |-> v.nl]
    PROVE  FileOK(f) /\ MsgsIn(f.lines) = <<>>
<1> DEFINE l == V1(v.msgs)
<1>1. l \in Records /\ ~IsMsg(l) /\ ~IsMeta(l) /\ v.nl \in BOOLEAN
  BY ConstantsAssumption DEF Records, V1, IsMsg, IsMeta
<1> HIDE DEF l
<1>2. <<l>> \in Seq(Records) /\ <<l>>[1] = l /\ <<l>> # <<>>
  BY <1>1
<1>3. Headed(<<l>>)
  BY <1>1, <1>2 DEF Headed
<1>4. f = [lines |-> <<l>>, nl |-> v.nl]
  BY DEF l
<1>5. f.lines = <<l>> /\ f.nl = v.nl
  BY <1>4
<1>6. FileOK(f)
  BY <1>1, <1>2, <1>3, <1>4, <1>5 DEF FileOK
<1>7. Scanned(<<l>>) = NothingRead
  BY <1>1, ScannedOne
<1>8. MsgsIn(<<l>>) = <<>>
  BY <1>7 DEF MsgsIn, NothingRead
<1>9. QED
  BY <1>5, <1>6, <1>8

LEMMA InitIInv == Init => IInv
<1> SUFFICES ASSUME Init PROVE IInv
  OBVIOUS
<1>0. MaxLen \in Nat /\ MaxCrashes \in Nat /\ Len(<<>>) = 0
  BY ConstantsAssumption
<1>1. FileOK(file) /\ MsgsIn(file.lines) = <<>>
  <2>1. CASE file = EmptyFile
    BY <2>1, EmptyIs
  <2>2. ASSUME NEW v \in V1Files, file = [lines |-> <<V1(v.msgs)>>, nl |-> v.nl]
        PROVE  FileOK(file) /\ MsgsIn(file.lines) = <<>>
    BY <2>2, V1FileIs
  <2>3. QED
    BY <2>1, <2>2 DEF Init
<1>2. store \in Stores /\ store.written = 0 /\ ~store.synced
  BY DEF Init, NewStore, Fields, Stores
<1>3. /\ mem = <<>> /\ replaced \in BOOLEAN /\ astray \in BOOLEAN /\ crashes = 0
      /\ acked = Nothing
  BY DEF Init
<1>4. <<>> \in Seq(Messages)
  OBVIOUS
<1>5. Nothing \in [msgs : Seq(Messages), done : Flags \cup {"unknown"}]
  BY <1>4 DEF Nothing
<1>6. TypeInv
  BY <1>0, <1>1, <1>2, <1>3, <1>4, <1>5 DEF TypeInv
<1>7. CountInv
  BY <1>0, <1>1, <1>2 DEF CountInv
<1>8. KnowsInv
  BY <1>2 DEF KnowsInv
<1>9. SavedIsLoaded
  BY <1>3 DEF SavedIsLoaded
<1>10. QED
  BY <1>6, <1>7, <1>8, <1>9 DEF IInv

\* What save() believes when it has looked at the file
LEMMA BeforeSave ==
    ASSUME TypeInv, CountInv, KnowsInv
    PROVE  /\ StoreBeforeSave \in Stores
           /\ Len(MsgsIn(file.lines)) <= StoreBeforeSave.written
           /\ ~astray \/ ~store.synced => Knows(file, StoreBeforeSave)
<1>1. CASE store.synced
  <2>1. StoreBeforeSave = store
    BY <1>1 DEF StoreBeforeSave
  <2>2. QED
    BY <1>1, <2>1 DEF TypeInv, CountInv, KnowsInv
<1>2. CASE ~store.synced
  <2>1. StoreBeforeSave = AfterReconcile(file)
    BY <1>2 DEF StoreBeforeSave
  <2>2. /\ AfterReconcile(file) \in Stores /\ Knows(file, AfterReconcile(file))
        /\ AfterReconcile(file).written = Len(MsgsIn(file.lines))
    BY ReconcileKnows DEF TypeInv
  <2>3. Len(MsgsIn(file.lines)) \in Nat
    BY MsgsInType DEF TypeInv, FileOK
  <2>4. Len(MsgsIn(file.lines)) <= AfterReconcile(file).written
    BY <2>2, <2>3
  <2>5. QED
    BY <2>1, <2>2, <2>4, Zenon
<1>3. QED
  BY <1>1, <1>2

LEMMA NotAstray ==
    ASSUME FileOK(file), NEW st \in Stores, Knows(file, st), NEW recs,
           ~AddsAstray(st.written, recs)
    PROVE  /\ file.nl \/ recs = <<>>
           /\ st.written = 0 \/ IsPrefix(MsgsIn(file.lines), mem)
<1>1. file.nl \/ recs = <<>>
  BY DEF AddsAstray
<1>2. CASE st.written # 0
  <2>1. st.written > 0
    BY <1>2 DEF Stores
  <2>2. IsPrefix(Stored.msgs, mem)
    BY <2>1 DEF AddsAstray
  <2>3. Stored.msgs = LoadResult(file).msgs
    BY DEF Stored
  <2>4. Len(file.lines) > 1
    <3>1. SUFFICES ASSUME ~(Len(file.lines) > 1) PROVE FALSE
      OBVIOUS
    <3>2. MsgsIn(file.lines) = <<>> /\ Len(<<>>) = 0
      BY <3>1, LoadIs
    <3>3. QED
      BY <1>2, <3>2 DEF Knows
  <2>5. LoadResult(file).msgs = MsgsIn(file.lines)
    BY <2>4, LoadIs
  <2>6. QED
    BY <1>1, <2>2, <2>3, <2>5, Zenon
<1>3. QED
  BY <1>1, <1>2

\* What a call of save() that returns leaves behind
LEMMA AfterSave ==
    ASSUME TypeInv, CountInv, KnowsInv, NEW d \in Flags, Savable(d),
           NEW st, st = StoreBeforeSave, NEW out, out = SaveOutcome(file, st, mem, d)
    PROVE  /\ FileOK(out.file) /\ out.st \in Stores /\ out.st.written = Len(mem)
           /\ out.recs \in Seq(Records) /\ (file.lines = <<>> => Headed(out.recs))
           /\ Len(MsgsIn(out.file.lines)) <= Len(mem)
           /\ out.recs = <<>> \/ Len(MsgsIn(file.lines)) + Len(MsgsIn(out.recs)) <= Len(mem)
           /\ Len(mem) < st.written \/ (~astray /\ ~AddsAstray(st.written, out.recs)) =>
                  Holds(out.file, mem, d) /\ Knows(out.file, out.st)
<1>1. /\ st \in Stores /\ Len(MsgsIn(file.lines)) <= st.written
      /\ (~astray \/ ~store.synced => Knows(file, st))
  BY BeforeSave
<1>2. FileOK(file) /\ mem \in Seq(Messages) /\ mem # <<>>
  BY DEF TypeInv, Savable
<1>3. /\ FileOK(out.file) /\ out.st \in Stores /\ out.st.written = Len(mem)
      /\ out.recs \in Seq(Records) /\ (file.lines = <<>> => Headed(out.recs))
      /\ Len(MsgsIn(out.file.lines)) <= Len(mem)
      /\ out.recs = <<>> \/ Len(MsgsIn(file.lines)) + Len(MsgsIn(out.recs)) <= Len(mem)
  BY <1>1, <1>2, SaveType
<1>4. ASSUME Len(mem) < st.written
      PROVE  Holds(out.file, mem, d) /\ Knows(out.file, out.st)
  <2>1. out.file = RewrittenFile(mem, d) /\ out.st.written = Len(mem) /\ out.st.done = d
    BY <1>1, <1>2, <1>4, SaveWays
  <2>2. /\ MsgsIn(out.file.lines) = mem /\ FlagIn(out.file.lines) = d
        /\ Len(out.file.lines) = Len(mem) + 1
    BY <1>2, <2>1, RewrittenIs
  <2>3. Len(mem) \in Nat /\ Len(mem) # 0
    BY <1>2, SingleLine
  <2>4. Len(out.file.lines) > 1
    BY <2>2, <2>3
  <2>5. Holds(out.file, mem, d)
    BY <2>2, <2>4 DEF Holds
  <2>6. QED
    BY <2>1, <2>5, HoldsKnows
<1>5. ASSUME ~astray, ~AddsAstray(st.written, out.recs)
      PROVE  Holds(out.file, mem, d) /\ Knows(out.file, out.st)
  <2>1. Knows(file, st)
    BY <1>1, <1>5
  <2>2. (file.nl \/ out.recs = <<>>) /\ (st.written = 0 \/ IsPrefix(MsgsIn(file.lines), mem))
    BY <1>1, <1>2, <1>5, <2>1, NotAstray
  <2>3. QED
    BY <1>1, <1>2, <2>1, <2>2, SaveIs
<1>6. QED
  BY <1>3, <1>4, <1>5

LEMMA SaveStep == ASSUME IInv, NEW d \in Flags, Save(d) PROVE IInv'
<1> DEFINE st  == StoreBeforeSave
           out == SaveOutcome(file, st, mem, d)
<1>1. TypeInv /\ CountInv /\ KnowsInv
  BY DEF IInv
<1>2. /\ Savable(d) /\ file' = out.file /\ store' = out.st /\ replaced' = FALSE
      /\ acked' = [msgs |-> mem, done |-> d] /\ mem' = mem /\ crashes' = crashes
  BY DEF Save
<1>3. astray' = (Len(mem) >= st.written /\ (astray \/ AddsAstray(st.written, out.recs)))
  BY DEF Save
<1>4. /\ FileOK(out.file) /\ out.st \in Stores /\ out.st.written = Len(mem)
      /\ Len(MsgsIn(out.file.lines)) <= Len(mem)
      /\ (Len(mem) < st.written \/ (~astray /\ ~AddsAstray(st.written, out.recs)) =>
              Holds(out.file, mem, d) /\ Knows(out.file, out.st))
  BY <1>1, <1>2, AfterSave
<1>5. st.written \in Nat /\ Len(mem) \in Nat /\ mem \in Seq(Messages) /\ Len(mem) <= MaxLen
  BY <1>1, BeforeSave, SingleLine DEF TypeInv, Stores
<1>6. ~(Len(mem) >= st.written) => Len(mem) < st.written
  BY <1>5
<1> HIDE DEF st, out
<1>7. astray' \in BOOLEAN
  BY <1>3
<1>8. ~astray' => Len(mem) < st.written \/ (~astray /\ ~AddsAstray(st.written, out.recs))
  BY <1>3, <1>6
<1>9. ~astray' => Holds(file', mem, d) /\ Knows(file', store')
  BY <1>2, <1>4, <1>8, Zenon
<1>10. acked' \in [msgs : Seq(Messages), done : Flags \cup {"unknown"}]
  BY <1>2, <1>5
<1>11. TypeInv'
  BY <1>1, <1>2, <1>4, <1>5, <1>7, <1>10 DEF TypeInv
<1>12. CountInv'
  <2>1. Len(MsgsIn(file'.lines)) <= Len(mem) /\ store'.written = Len(mem)
    BY <1>2, <1>4
  <2>2. Len(MsgsIn(file'.lines)) \in Nat /\ MaxLen \in Nat
    BY <1>11, MsgsInType, ConstantsAssumption DEF TypeInv, FileOK
  <2> DEFINE a == Len(MsgsIn(file'.lines))
             b == Len(mem)
  <2>3. a \in Nat /\ b \in Nat /\ a <= b /\ b <= MaxLen /\ MaxLen \in Nat
    BY <1>5, <2>1, <2>2
  <2> HIDE DEF a, b
  <2>4. a <= MaxLen
    BY <2>3
  <2>5. QED
    BY <2>1, <2>3, <2>4, Zenon DEF CountInv, a, b
<1>13. KnowsInv'
  BY <1>9, Zenon DEF KnowsInv
<1>14. SavedIsLoaded'
  <2>1. SUFFICES ASSUME ~astray' PROVE Stored' = acked'
    BY Zenon DEF SavedIsLoaded
  <2>2. Holds(file', mem, d)
    BY <1>9, <2>1
  <2>3. LoadResult(file').msgs = mem /\ LoadResult(file').done = d
    BY <1>11, <2>2, LoadIs DEF Holds, TypeInv
  <2>4. QED
    BY <1>2, <2>3, Zenon DEF Stored
<1>15. QED
  BY <1>11, <1>12, <1>13, <1>14 DEF IInv

LEMMA LoadStep == ASSUME IInv, Load PROVE IInv'
<1>1. TypeInv /\ CountInv /\ KnowsInv /\ SavedIsLoaded
  BY DEF IInv
<1>2. /\ LoadResult(file).ok /\ mem' = LoadResult(file).msgs
      /\ replaced' = FALSE /\ astray' = FALSE /\ store' = AfterLoad(file)
      /\ acked' = (IF astray THEN Nothing ELSE acked)
      /\ file' = file /\ crashes' = crashes
  BY DEF Load
<1>3. FileOK(file) /\ Len(MsgsIn(file.lines)) <= MaxLen /\ Len(MsgsIn(file.lines)) \in Nat
  BY <1>1, MsgsInType DEF TypeInv, CountInv, FileOK
<1>4. mem' \in Seq(Messages) /\ Len(mem') <= MaxLen
  BY <1>2, <1>3, LoadType
<1>5. store' \in Stores /\ Knows(file, store') /\ store'.written = Len(MsgsIn(file.lines))
  BY <1>2, <1>3, LoadKnows
<1>6. acked' \in [msgs : Seq(Messages), done : Flags \cup {"unknown"}]
  <2>1. <<>> \in Seq(Messages)
    OBVIOUS
  <2>2. Nothing \in [msgs : Seq(Messages), done : Flags \cup {"unknown"}]
    BY <2>1 DEF Nothing
  <2>3. QED
    BY <1>1, <1>2, <2>2 DEF TypeInv
<1>7. TypeInv'
  BY <1>1, <1>2, <1>4, <1>5, <1>6 DEF TypeInv
<1>8. CountInv'
  BY <1>2, <1>3, <1>5 DEF CountInv
<1>9. KnowsInv'
  BY <1>2, <1>5, Zenon DEF KnowsInv
<1>10. SavedIsLoaded'
  <2>1. Stored' = Stored
    BY <1>2 DEF Stored
  <2>2. CASE astray
    BY <1>2, <2>2 DEF SavedIsLoaded
  <2>3. CASE ~astray
    <3>1. acked' = acked
      BY <1>2, <2>3
    <3>2. acked # Nothing => Stored = acked
      BY <1>1, <2>3 DEF SavedIsLoaded
    <3>3. QED
      BY <2>1, <3>1, <3>2, Zenon DEF SavedIsLoaded
  <2>4. QED
    BY <2>2, <2>3
<1>11. QED
  BY <1>7, <1>8, <1>9, <1>10 DEF IInv

LEMMA RestartStep ==
    ASSUME IInv, Restart, FileOK(file'), Len(MsgsIn(file'.lines)) <= MaxLen,
           acked' = Nothing \/ (~astray /\ acked' = acked /\ file' = file)
    PROVE  IInv'
<1>1. TypeInv /\ CountInv /\ KnowsInv /\ SavedIsLoaded
  BY DEF IInv
<1>2. /\ crashes < MaxCrashes /\ crashes' = crashes + 1 /\ mem' = <<>>
      /\ replaced' = FALSE /\ astray' = FALSE /\ store' = NewStore
  BY DEF Restart
<1>3. store' \in Stores /\ store'.written = 0 /\ ~store'.synced
  BY <1>2 DEF NewStore, Fields, Stores
<1>4. /\ <<>> \in Seq(Messages) /\ Len(<<>>) = 0 /\ Len(<<>>) <= MaxLen
      /\ MaxLen \in Nat /\ 0 <= MaxLen /\ MaxCrashes \in Nat
  BY ConstantsAssumption
<1>5. acked' \in [msgs : Seq(Messages), done : Flags \cup {"unknown"}]
  <2>1. Nothing \in [msgs : Seq(Messages), done : Flags \cup {"unknown"}]
    BY <1>4 DEF Nothing
  <2>2. QED
    BY <1>1, <2>1 DEF TypeInv
<1>6. crashes' \in 0..MaxCrashes
  BY <1>1, <1>2, <1>4 DEF TypeInv
<1>7. TypeInv'
  <2>1. mem' \in Seq(Messages) /\ Len(mem') <= MaxLen
    BY <1>2, <1>4, Zenon
  <2>2. replaced' \in BOOLEAN /\ astray' \in BOOLEAN
    BY <1>2
  <2>3. QED
    BY <1>3, <1>5, <1>6, <2>1, <2>2 DEF TypeInv
<1>8. CountInv'
  BY <1>3, <1>4 DEF CountInv
<1>9. KnowsInv'
  BY <1>3 DEF KnowsInv
<1>10. SavedIsLoaded'
  <2>1. CASE acked' = Nothing
    BY <2>1 DEF SavedIsLoaded
  <2>2. CASE ~astray /\ acked' = acked /\ file' = file
    <3>1. Stored' = Stored
      BY <2>2 DEF Stored
    <3>2. acked # Nothing => Stored = acked
      BY <1>1, <2>2 DEF SavedIsLoaded
    <3>3. QED
      BY <2>2, <3>1, <3>2, Zenon DEF SavedIsLoaded
  <2>3. QED
    BY <2>1, <2>2
<1>11. QED
  BY <1>7, <1>8, <1>9, <1>10 DEF IInv

LEMMA CrashStep == ASSUME IInv, Crash PROVE IInv'
<1>1. Restart /\ file' = file /\ acked' = (IF astray THEN Nothing ELSE acked)
  BY DEF Crash
<1>2. FileOK(file') /\ Len(MsgsIn(file'.lines)) <= MaxLen
  BY <1>1 DEF IInv, TypeInv, CountInv
<1>3. acked' = Nothing \/ (~astray /\ acked' = acked /\ file' = file)
  BY <1>1
<1>4. QED
  BY <1>1, <1>2, <1>3, RestartStep

LEMMA CrashInSaveStep == ASSUME IInv, NEW d \in Flags, CrashInSave(d) PROVE IInv'
<1> DEFINE out == SaveOutcome(file, StoreBeforeSave, mem, d)
<1>1. TypeInv /\ CountInv /\ KnowsInv
  BY DEF IInv
<1>2. Savable(d) /\ Restart /\ acked' = Nothing
  BY DEF CrashInSave
<1>3. file' \in {out.file} \cup CleanCuts(file, out.recs) \cup TornCuts(file, out.recs)
  BY DEF CrashInSave
<1>4. /\ FileOK(out.file) /\ Len(MsgsIn(out.file.lines)) <= Len(mem)
      /\ out.recs \in Seq(Records) /\ (file.lines = <<>> => Headed(out.recs))
      /\ out.recs = <<>> \/ Len(MsgsIn(file.lines)) + Len(MsgsIn(out.recs)) <= Len(mem)
  BY <1>1, <1>2, AfterSave
<1> HIDE DEF out
<1>5. /\ Len(mem) \in Nat /\ Len(mem) <= MaxLen /\ MaxLen \in Nat
      /\ Len(MsgsIn(file.lines)) \in Nat /\ Len(MsgsIn(file.lines)) <= MaxLen
      /\ Len(MsgsIn(out.recs)) \in Nat /\ Len(MsgsIn(<<>>)) = 0
  <2>1. MsgsIn(<<>>) = <<>> /\ Len(<<>>) = 0
    BY ScannedNone DEF MsgsIn, NothingRead
  <2>2. Len(mem) \in Nat /\ Len(mem) <= MaxLen
    BY <1>1, SingleLine DEF TypeInv
  <2>3. Len(MsgsIn(file.lines)) \in Nat /\ Len(MsgsIn(out.recs)) \in Nat
    BY <1>1, <1>4, MsgsInType DEF TypeInv, FileOK
  <2>4. QED
    BY <1>1, <2>1, <2>2, <2>3, ConstantsAssumption DEF CountInv
<1>6. CASE file' = out.file
  <2>1. FileOK(file') /\ Len(MsgsIn(file'.lines)) <= Len(mem)
    BY <1>4, <1>6
  <2>2. Len(MsgsIn(file'.lines)) \in Nat
    BY <2>1, MsgsInType DEF FileOK
  <2>3. Len(MsgsIn(file'.lines)) <= MaxLen
    BY <1>5, <2>1, <2>2
  <2>4. QED
    BY <1>2, <2>1, <2>3, RestartStep
<1>7. CASE file' \in CleanCuts(file, out.recs) \cup TornCuts(file, out.recs)
  <2>1. /\ FileOK(file')
        /\ Len(MsgsIn(file'.lines)) <= Len(MsgsIn(file.lines)) + Len(MsgsIn(out.recs))
    BY <1>1, <1>4, <1>7, CutsAre DEF TypeInv
  <2>2. Len(MsgsIn(file'.lines)) \in Nat
    BY <2>1, MsgsInType DEF FileOK
  <2>3. Len(MsgsIn(file.lines)) + Len(MsgsIn(out.recs)) <= MaxLen
    <3> DEFINE a == Len(MsgsIn(file.lines))
               b == Len(MsgsIn(out.recs))
               c == Len(mem)
    <3>1. CASE out.recs = <<>>
      <4>1. b = 0 /\ a \in Nat /\ a <= MaxLen
        BY <1>5, <3>1
      <4> HIDE DEF a, b, c
      <4>2. a + b <= MaxLen
        BY <4>1
      <4>3. QED
        BY <4>2 DEF a, b
    <3>2. CASE out.recs # <<>>
      <4>1. /\ a + b <= c /\ a \in Nat /\ b \in Nat /\ c \in Nat /\ c <= MaxLen
            /\ MaxLen \in Nat
        BY <1>4, <1>5, <3>2
      <4> HIDE DEF a, b, c
      <4>2. a + b <= MaxLen
        BY <4>1
      <4>3. QED
        BY <4>2 DEF a, b
    <3>3. QED
      BY <3>1, <3>2
  <2>4. Len(MsgsIn(file'.lines)) <= MaxLen
    BY <1>5, <2>1, <2>2, <2>3
  <2>5. QED
    BY <1>2, <2>1, <2>4, RestartStep
<1>8. QED
  BY <1>3, <1>6, <1>7

LEMMA ClearStep == ASSUME IInv, Clear PROVE IInv'
<1>1. TypeInv /\ CountInv
  BY DEF IInv
<1>2. /\ file' = EmptyFile /\ store' = Fields(0, "none", TRUE) /\ astray' = FALSE
      /\ acked' = [msgs |-> <<>>, done |-> "open"]
      /\ mem' = mem /\ replaced' = replaced /\ crashes' = crashes
  BY DEF Clear
<1>3. /\ FileOK(file') /\ MsgsIn(file'.lines) = <<>>
      /\ LoadResult(file').msgs = <<>> /\ LoadResult(file').done = "open"
  BY <1>2, EmptyIs
<1>4. store' \in Stores /\ store'.written = 0 /\ store'.done = "none"
  BY <1>2 DEF Fields, Stores
<1>5. <<>> \in Seq(Messages) /\ Len(<<>>) = 0 /\ MaxLen \in Nat
  BY ConstantsAssumption
<1>6. acked' \in [msgs : Seq(Messages), done : Flags \cup {"unknown"}]
  BY <1>2, <1>5 DEF Flags
<1>7. TypeInv'
  BY <1>1, <1>2, <1>3, <1>4, <1>6 DEF TypeInv
<1>8. CountInv'
  BY <1>3, <1>4, <1>5 DEF CountInv
<1>9. KnowsInv'
  BY <1>3, <1>4, <1>5 DEF KnowsInv, Knows
<1>10. SavedIsLoaded'
  BY <1>2, <1>3 DEF SavedIsLoaded, Stored
<1>11. QED
  BY <1>7, <1>8, <1>9, <1>10 DEF IInv

\* The transcript changes, the file does not.
LEMMA EditStep ==
    ASSUME IInv, mem' \in Seq(Messages), Len(mem') <= MaxLen, replaced' \in BOOLEAN,
           UNCHANGED <<file, store, astray, acked, crashes>>
    PROVE  IInv'
<1>1. TypeInv /\ CountInv /\ KnowsInv /\ SavedIsLoaded
  BY DEF IInv
<1>2. /\ file' = file /\ store' = store /\ astray' = astray /\ acked' = acked
      /\ crashes' = crashes
  OBVIOUS
<1>3. TypeInv'
  BY <1>1, <1>2 DEF TypeInv
<1>4. CountInv'
  BY <1>1, <1>2 DEF CountInv
<1>5. KnowsInv'
  BY <1>1, <1>2 DEF KnowsInv
<1>6. SavedIsLoaded'
  BY <1>1, <1>2 DEF SavedIsLoaded, Stored
<1>7. QED
  BY <1>3, <1>4, <1>5, <1>6 DEF IInv

LEMMA ReplaceStep == ASSUME IInv, NEW p \in Payload, Replace(<<Msg(p)>>) PROVE IInv'
<1>1. Msg(p) \in Messages
  BY DEF Messages
<1>2. <<Msg(p)>> \in Seq(Messages) /\ Len(<<Msg(p)>>) <= MaxLen
  BY <1>1, ConstantsAssumption
<1>3. QED
  BY <1>2, EditStep DEF Replace

LEMMA GrowStep == ASSUME IInv, NEW p \in Payload, Grow(p) PROVE IInv'
<1>1. Msg(p) \in Messages
  BY DEF Messages
<1>2. mem \in Seq(Messages) /\ Len(mem) < MaxLen /\ mem' = Append(mem, Msg(p)) /\ MaxLen \in Nat
  BY ConstantsAssumption DEF Grow, IInv, TypeInv
<1>3. mem' \in Seq(Messages) /\ Len(mem') = Len(mem) + 1 /\ Len(mem) \in Nat
  BY <1>1, <1>2
<1>4. Len(mem') <= MaxLen
  BY <1>2, <1>3
<1>5. replaced' \in BOOLEAN
  BY DEF Grow, IInv, TypeInv
<1>6. QED
  BY <1>3, <1>4, <1>5, EditStep DEF Grow

LEMMA NextIInv == IInv /\ [Next]_vars => IInv'
<1> SUFFICES ASSUME IInv, [Next]_vars PROVE IInv'
  OBVIOUS
<1>1. ASSUME NEW p \in Payload, Replace(<<Msg(p)>>) PROVE IInv'
  BY <1>1, ReplaceStep
<1>2. ASSUME NEW p \in Payload, Grow(p) PROVE IInv'
  BY <1>2, GrowStep
<1>3. CASE Load
  BY <1>3, LoadStep
<1>4. ASSUME NEW d \in Flags, Save(d) PROVE IInv'
  BY <1>4, SaveStep
<1>5. ASSUME NEW d \in Flags, CrashInSave(d) PROVE IInv'
  BY <1>5, CrashInSaveStep
<1>6. CASE Crash
  BY <1>6, CrashStep
<1>7. CASE Clear
  BY <1>7, ClearStep
<1>8. CASE UNCHANGED vars
  <2>1. mem' \in Seq(Messages) /\ Len(mem') <= MaxLen /\ replaced' \in BOOLEAN
    BY <1>8 DEF vars, IInv, TypeInv
  <2>2. QED
    BY <1>8, <2>1, EditStep DEF vars
<1>9. QED
  BY <1>1, <1>2, <1>3, <1>4, <1>5, <1>6, <1>7, <1>8 DEF Next

LEMMA Invariance == Spec => []IInv
<1>1. QED
  BY InitIInv, NextIInv, PTL DEF Spec

\* The store never counts more messages than a transcript can hold, and its fields
\* have the values session.py gives them, whatever crashes, torn lines and version 1
\* files there are.
THEOREM Typing == Spec => []TypeOK
<1>1. IInv => TypeOK
  <2> SUFFICES ASSUME IInv PROVE TypeOK
    OBVIOUS
  <2>1. TypeInv /\ CountInv
    BY DEF IInv
  <2>2. file \in [lines : Seq(Records), nl : BOOLEAN]
    BY <2>1 DEF TypeInv, FileOK
  <2>3. store.written \in 0..MaxLen
    BY <2>1, ConstantsAssumption DEF TypeInv, CountInv, Stores
  <2>4. store \in [written : 0..MaxLen, done : Flags \cup {"none"}, synced : BOOLEAN]
    BY <2>1, <2>3 DEF TypeInv, Stores
  <2>5. QED
    BY <2>1, <2>2, <2>4 DEF TypeInv, TypeOK
<1>2. QED
  BY Invariance, <1>1, PTL

\* session.py:4-6 and :18-20: once save() has returned, load() finds what it was
\* given: for every set of payloads, every bound, with crashes between and inside
\* the lines that are written, transcripts that take the place of others, and
\* version 1 files.  Only what was added to an unterminated line, or to a transcript
\* save() did not see replaced, is excepted, and only until the next load, rewrite
\* or restart.
THEOREM SavesAreLoaded == Spec => []SavedIsLoaded
<1>1. IInv => SavedIsLoaded
  BY DEF IInv
<1>2. QED
  BY Invariance, <1>1, PTL

-------------------------------------------------------------------------------
(* The refinement                                                             *)

\* While no line is torn and no transcript is replaced by one that save() takes for
\* its continuation, nothing goes astray.
RInv == /\ file.nl /\ ~astray
        /\ replaced => Len(mem) < Len(MsgsIn(file.lines)) \/ MsgsIn(file.lines) = <<>>
        /\ ~replaced => mem = <<>> \/ IsPrefix(MsgsIn(file.lines), mem)

Transcripts == UNION {[1..n -> Messages] : n \in 0..MaxLen}

LEMMA InTranscripts ==
    ASSUME NEW ms \in Seq(Messages), Len(ms) <= MaxLen PROVE ms \in Transcripts
<1>1. Len(ms) \in 0..MaxLen
  BY ConstantsAssumption, SingleLine
<1>2. ms \in [1..Len(ms) -> Messages]
  OBVIOUS
<1>3. QED
  BY <1>1, <1>2 DEF Transcripts

LEMMA IsBeginning ==
    ASSUME NEW S, NEW s \in Seq(S), NEW t \in Seq(S)
    PROVE  IsPrefix(s, s \o t) /\ s \in Prefixes(s \o t)
<1>1. Len(s) <= Len(s \o t) /\ Len(s) \in 0..Len(s \o t)
  OBVIOUS
<1>2. SubSeq(s \o t, 1, Len(s)) = s
  OBVIOUS
<1>3. SubSeq(s, 1, Len(s)) = s
  OBVIOUS
<1>4. QED
  BY <1>1, <1>2, <1>3 DEF IsPrefix, Prefixes

\* Without version 1 files, load() finds what is in the lines, or nothing.
LEMMA LoadOfLines ==
    ASSUME V1Files = {}, NEW f, FileOK(f)
    PROVE  LoadResult(f).msgs = MsgsIn(f.lines) /\ LoadResult(f).done \in Flags
<1>1. FlagIn(f.lines) \in Flags /\ "open" \in Flags
  BY MsgsInType DEF FileOK, Flags
<1>2. CASE Len(f.lines) > 1
  BY <1>1, <1>2, LoadIs
<1>3. CASE ~(Len(f.lines) > 1)
  <2>1. MsgsIn(f.lines) = <<>> /\ LoadResult(f).msgs = <<>> /\ LoadResult(f).done = "open"
    BY <1>3, LoadIs
  <2>2. QED
    BY <1>1, <2>1
<1>4. QED
  BY <1>2, <1>3

\* What save() does when nothing goes astray
LEMMA CleanSave ==
    ASSUME V1Files = {}, IInv, RInv, NEW d \in Flags, Savable(d),
           NEW st, st = StoreBeforeSave, NEW out, out = SaveOutcome(file, st, mem, d)
    PROVE  /\ Len(mem) < st.written \/ (~astray /\ ~AddsAstray(st.written, out.recs))
           /\ Holds(out.file, mem, d) /\ FileOK(out.file) /\ out.file.nl
           /\ out.recs \in Seq(Records) /\ (file.lines = <<>> => Headed(out.recs))
           /\ out.recs # <<>> => mem = MsgsIn(file.lines) \o MsgsIn(out.recs)
<1>0. TypeInv /\ CountInv /\ KnowsInv
  BY DEF IInv
<1>1. st \in Stores /\ Knows(file, st) /\ st.written = Len(MsgsIn(file.lines))
  BY <1>0, BeforeSave DEF RInv, Knows
<1>2. /\ FileOK(file) /\ mem \in Seq(Messages) /\ mem # <<>> /\ file.nl /\ ~astray
      /\ MsgsIn(file.lines) \in Seq(Messages)
  BY <1>0, MsgsInType DEF TypeInv, FileOK, Savable, RInv
<1>3. ASSUME ~(Len(mem) < st.written)
      PROVE  st.written = 0 \/ IsPrefix(MsgsIn(file.lines), mem)
  <2>1. CASE replaced
    <3>1. MsgsIn(file.lines) = <<>> /\ Len(<<>>) = 0
      BY <1>1, <1>3, <2>1 DEF RInv
    <3>2. QED
      BY <1>1, <3>1
  <2>2. CASE ~replaced
    BY <1>2, <2>2 DEF RInv
  <2>3. QED
    BY <2>1, <2>2
<1>4. ASSUME ~(Len(mem) < st.written) PROVE ~AddsAstray(st.written, out.recs)
  <2>1. Stored.msgs = MsgsIn(file.lines)
    BY <1>2, LoadOfLines DEF Stored
  <2>2. st.written = 0 \/ IsPrefix(Stored.msgs, mem)
    BY <1>3, <1>4, <2>1, Zenon
  <2>3. st.written = 0 => ~(st.written > 0)
    OBVIOUS
  <2>4. QED
    BY <1>2, <2>2, <2>3, Zenon DEF AddsAstray
<1>5. /\ FileOK(out.file) /\ Holds(out.file, mem, d)
      /\ out.recs \in Seq(Records) /\ (file.lines = <<>> => Headed(out.recs))
  BY <1>0, <1>2, <1>4, AfterSave
<1> DEFINE new == Rest(mem, st.written)
<1>6. CASE Len(mem) < st.written
  <2>1. out.file = RewrittenFile(mem, d) /\ out.recs = <<>>
    BY <1>1, <1>2, <1>6, SaveWays
  <2>2. out.file.nl
    BY <1>2, <2>1, RewrittenIs
  <2>3. QED
    BY <1>5, <1>6, <2>1, <2>2
<1>7. CASE ~(Len(mem) < st.written)
  <2>1. mem = MsgsIn(file.lines) \o new
    BY <1>1, <1>2, <1>3, <1>7, TakenUp
  <2>2. st.written \in Nat
    BY <1>1 DEF Stores
  <2>3. new \in Seq(Messages)
    BY <1>2, <1>7, <2>2, Remaining
  <2> HIDE DEF new
  <2>4. CASE new = <<>> /\ st.done = d
    <3>1. out.file = file /\ out.recs = <<>>
      BY <1>1, <1>2, <1>7, <2>4, SaveWays DEF new
    <3>2. QED
      BY <1>2, <1>4, <1>5, <1>7, <3>1
  <2>5. CASE ~(new = <<>> /\ st.done = d)
    <3>1. out.recs = AppendedRecords(file, st.done, new, d) /\ out.file = AppendRecords(file, out.recs)
      BY <1>1, <1>2, <1>7, <2>5, SaveWays DEF new
    <3>2. MsgsIn(out.recs) = new
      BY <2>3, <3>1, AddedIs
    <3>3. out.file.nl
      BY <1>2, <1>5, <3>1, AppendIs
    <3>4. mem = MsgsIn(file.lines) \o MsgsIn(out.recs)
      BY <2>1, <3>2, Zenon
    <3>5. QED
      BY <1>2, <1>4, <1>5, <1>7, <3>3, <3>4
  <2>6. QED
    BY <2>4, <2>5
<1>8. QED
  BY <1>6, <1>7

LEMMA InitRefines == ASSUME V1Files = {}, Init PROVE RInv /\ Abs!Init
<1>1. file = EmptyFile /\ mem = <<>> /\ replaced = FALSE /\ astray = FALSE
  BY DEF Init
<1>2. /\ FileOK(file) /\ MsgsIn(file.lines) = <<>> /\ file.nl
      /\ LoadResult(file).msgs = <<>> /\ LoadResult(file).done = "open"
  BY <1>1, EmptyIs
<1>3. RInv
  BY <1>1, <1>2 DEF RInv
<1>4. <<>> \in Seq(Messages) /\ Len(<<>>) <= MaxLen
  BY ConstantsAssumption
<1>5. <<>> \in Transcripts
  BY <1>4, InTranscripts
<1>6. Abs!Init
  BY <1>1, <1>2, <1>5 DEF Abs!Init, Stored, Transcripts
<1>7. QED
  BY <1>3, <1>6

\* The transcript changes.
LEMMA EditRefines ==
    ASSUME V1Files = {}, IInv, RInv, IInv', file' = file, astray' = astray,
           replaced' => Len(mem') < Len(MsgsIn(file.lines)) \/ MsgsIn(file.lines) = <<>>,
           ~replaced' => mem' = <<>> \/ IsPrefix(MsgsIn(file.lines), mem')
    PROVE  RInv' /\ Abs!Next
<1>1. RInv'
  BY DEF RInv
<1>2. mem' \in Transcripts
  BY InTranscripts DEF IInv, TypeInv
<1>3. Stored' = Stored
  BY DEF Stored
<1>4. Abs!Edit
  BY <1>2, <1>3 DEF Abs!Edit, Transcripts
<1>5. QED
  BY <1>1, <1>4 DEF Abs!Next

LEMMA ReplaceRefines ==
    ASSUME ~Diverging, V1Files = {}, IInv, RInv, IInv', NEW p \in Payload, Replace(<<Msg(p)>>)
    PROVE  RInv' /\ Abs!Next
<1>1. Stored.msgs = MsgsIn(file.lines)
  BY LoadOfLines DEF Stored, IInv, TypeInv
<1>2. /\ file' = file /\ astray' = astray /\ replaced' /\ mem' = <<Msg(p)>>
      /\ Len(mem') < Len(MsgsIn(file.lines)) \/ MsgsIn(file.lines) = <<>>
  BY <1>1 DEF Replace
<1>3. QED
  BY <1>2, EditRefines

LEMMA PrefixGrows ==
    ASSUME NEW S, NEW s \in Seq(S), NEW ms \in Seq(S), NEW l \in S, IsPrefix(s, ms)
    PROVE  IsPrefix(s, Append(ms, l))
<1>1. Len(s) <= Len(ms) /\ SubSeq(s, 1, Len(s)) = SubSeq(ms, 1, Len(s))
  BY DEF IsPrefix
<1>2. Len(s) <= Len(Append(ms, l))
  BY <1>1
<1>3. SubSeq(Append(ms, l), 1, Len(s)) = SubSeq(ms, 1, Len(s))
  BY <1>1
<1>4. QED
  BY <1>1, <1>2, <1>3 DEF IsPrefix

LEMMA GrowRefines ==
    ASSUME V1Files = {}, IInv, RInv, IInv', NEW p \in Payload, Grow(p)
    PROVE  RInv' /\ Abs!Next
<1>1. /\ file' = file /\ astray' = astray /\ ~replaced' /\ ~replaced
      /\ mem' = Append(mem, Msg(p)) /\ IsPrefix(MsgsIn(file.lines), mem)
  BY DEF Grow, RInv
<1>2. mem \in Seq(Messages) /\ Msg(p) \in Messages /\ MsgsIn(file.lines) \in Seq(Messages)
  BY MsgsInType DEF IInv, TypeInv, FileOK, Messages
<1>3. IsPrefix(MsgsIn(file.lines), Append(mem, Msg(p)))
  BY <1>1, <1>2, PrefixGrows
<1>4. QED
  BY <1>1, <1>3, EditRefines

LEMMA LoadRefines == ASSUME V1Files = {}, IInv, RInv, Load PROVE RInv' /\ Abs!Next
<1>1. /\ mem' = LoadResult(file).msgs /\ replaced' = FALSE /\ astray' = FALSE /\ file' = file
  BY DEF Load
<1>2. mem' = MsgsIn(file.lines) /\ MsgsIn(file.lines) \in Seq(Messages)
  BY <1>1, LoadOfLines, MsgsInType DEF IInv, TypeInv, FileOK
<1>3. IsPrefix(MsgsIn(file.lines), MsgsIn(file.lines))
  BY <1>2 DEF IsPrefix
<1>4. RInv'
  BY <1>1, <1>2, <1>3 DEF RInv
<1>5. Abs!Load
  BY <1>1 DEF Abs!Load, Stored
<1>6. QED
  BY <1>4, <1>5 DEF Abs!Next

LEMMA SaveRefines ==
    ASSUME V1Files = {}, IInv, RInv, NEW d \in Flags, Save(d) PROVE RInv' /\ Abs!Next
<1> DEFINE st  == StoreBeforeSave
           out == SaveOutcome(file, st, mem, d)
<1>1. /\ Savable(d) /\ file' = out.file /\ replaced' = FALSE /\ mem' = mem
      /\ astray' = (Len(mem) >= st.written /\ (astray \/ AddsAstray(st.written, out.recs)))
  BY DEF Save
<1>2. /\ Len(mem) < st.written \/ (~astray /\ ~AddsAstray(st.written, out.recs))
      /\ Holds(out.file, mem, d) /\ FileOK(out.file) /\ out.file.nl
  BY <1>1, CleanSave
<1>3. st.written \in Nat /\ Len(mem) \in Nat /\ mem \in Seq(Messages)
  BY BeforeSave, SingleLine DEF IInv, TypeInv, Stores
<1> HIDE DEF st, out
<1>4. Len(mem) < st.written => ~(Len(mem) >= st.written)
  BY <1>3
<1>5. ~astray'
  BY <1>1, <1>2, <1>4
<1>6. MsgsIn(file'.lines) = mem
  BY <1>1, <1>2, Zenon DEF Holds
<1>7. IsPrefix(mem, mem)
  BY <1>3 DEF IsPrefix
<1>8. RInv'
  BY <1>1, <1>2, <1>5, <1>6, <1>7 DEF RInv
<1>9. LoadResult(file').msgs = mem /\ LoadResult(file').done = d
  BY <1>1, <1>2, LoadIs DEF Holds
<1>10. Abs!Save
  BY <1>1, <1>9 DEF Abs!Save, Stored, Flags
<1>11. QED
  BY <1>8, <1>10 DEF Abs!Next

LEMMA CrashRefines ==
    ASSUME V1Files = {}, IInv, IInv', RInv, Restart, file'.nl,
           \/ MsgsIn(file'.lines) = MsgsIn(file.lines) /\ file' = file
           \/ MsgsIn(file'.lines) \in {MsgsIn(file.lines), mem}
                  \cup {p \in Prefixes(mem) : IsPrefix(MsgsIn(file.lines), p)}
    PROVE  RInv' /\ Abs!Next
<1>1. mem' = <<>> /\ replaced' = FALSE /\ astray' = FALSE
  BY DEF Restart
<1>2. RInv'
  BY <1>1 DEF RInv
<1>3. FileOK(file) /\ FileOK(file')
  BY DEF IInv, TypeInv
<1>4. /\ Stored.msgs = MsgsIn(file.lines) /\ Stored'.msgs = MsgsIn(file'.lines)
      /\ Stored'.done \in {"open", "done"}
  BY <1>3, LoadOfLines DEF Stored, Flags
<1>5. file' = file => Stored' = Stored
  BY DEF Stored
<1>6. Abs!Crash
  <2>1. CASE file' = file
    <3>1. Stored'.msgs = Stored.msgs /\ Stored'.done = Stored.done
      BY <1>5, <2>1
    <3>2. QED
      BY <1>1, <3>1 DEF Abs!Crash
  <2>2. CASE MsgsIn(file'.lines) \in {MsgsIn(file.lines), mem}
                 \cup {p \in Prefixes(mem) : IsPrefix(MsgsIn(file.lines), p)}
    <3>1. Stored'.msgs \in {Stored.msgs, mem} \cup {p \in Prefixes(mem) : IsPrefix(Stored.msgs, p)}
      BY <1>4, <2>2, Zenon
    <3>2. QED
      BY <1>1, <1>4, <3>1, Zenon DEF Abs!Crash, Abs!Prefixes, Abs!IsPrefix, Prefixes, IsPrefix
  <2>3. QED
    BY <2>1, <2>2
<1>7. QED
  BY <1>2, <1>6 DEF Abs!Next

LEMMA CrashInSaveRefines ==
    ASSUME ~TornWrites, V1Files = {}, IInv, IInv', RInv, NEW d \in Flags, CrashInSave(d)
    PROVE  RInv' /\ Abs!Next
<1> DEFINE out  == SaveOutcome(file, StoreBeforeSave, mem, d)
           have == MsgsIn(file.lines)
<1>1. Savable(d) /\ Restart /\ file' \in {out.file} \cup CleanCuts(file, out.recs)
  BY DEF CrashInSave
<1>2. /\ Holds(out.file, mem, d) /\ out.file.nl
      /\ out.recs \in Seq(Records) /\ (file.lines = <<>> => Headed(out.recs))
      /\ (out.recs # <<>> => mem = have \o MsgsIn(out.recs))
  BY <1>1, CleanSave
<1>3. FileOK(file) /\ file.nl /\ file.lines \in Seq(Records) /\ have \in Seq(Messages)
  BY MsgsInType DEF IInv, TypeInv, RInv, FileOK
<1> HIDE DEF out
<1>4. CASE file' = out.file
  <2>1. MsgsIn(file'.lines) = mem /\ file'.nl
    BY <1>2, <1>4 DEF Holds
  <2>2. QED
    BY <1>1, <2>1, CrashRefines
<1>5. CASE file' \in CleanCuts(file, out.recs)
  <2>1. PICK n \in 0..Len(out.recs) : file' = AppendRecords(file, SubSeq(out.recs, 1, n))
    BY <1>5 DEF CleanCuts
  <2> DEFINE s == SubSeq(out.recs, 1, n)
             t == SubSeq(out.recs, n + 1, Len(out.recs))
  <2>2. /\ s \in Seq(Records) /\ t \in Seq(Records) /\ out.recs = s \o t /\ Len(s) = n
    BY <1>2, BeginningRead
  <2>3. file.lines = <<>> => Headed(s)
    <3>1. n # 0 => s[1] = out.recs[1] /\ out.recs # <<>>
      BY <1>2
    <3>2. n = 0 => s = <<>>
      BY <2>2, SingleLine
    <3>3. QED
      BY <1>2, <3>1, <3>2 DEF Headed
  <2> HIDE DEF s, t
  <2>4. file' = AppendRecords(file, s)
    BY <2>1 DEF s
  <2>5. CASE s = <<>>
    <3>1. file' = file
      BY <2>4, <2>5 DEF AppendRecords
    <3>2. QED
      BY <1>1, <1>3, <3>1, CrashRefines
  <2>6. CASE s # <<>>
    <3>1. file'.lines = file.lines \o s /\ file'.nl
      BY <1>3, <2>2, <2>3, <2>4, AppendIs
    <3>2. MsgsIn(file'.lines) = have \o MsgsIn(s)
      BY <1>3, <2>2, <3>1, MsgsInTwo
    <3>3. MsgsIn(out.recs) = MsgsIn(s) \o MsgsIn(t)
      BY <2>2, MsgsInTwo
    <3>4. MsgsIn(s) \in Seq(Messages) /\ MsgsIn(t) \in Seq(Messages)
      BY <2>2, MsgsInType
    <3>5. out.recs # <<>>
      <4>1. Len(s) # 0 /\ Len(s) \in Nat
        BY <2>2, <2>6, SingleLine
      <4>2. Len(out.recs) = Len(s) + Len(t) /\ Len(t) \in Nat
        BY <2>2, ConcatIs, SingleLine
      <4>3. Len(out.recs) # 0
        BY <4>1, <4>2
      <4>4. QED
        BY <1>2, <4>3, SingleLine
    <3> DEFINE p == have \o MsgsIn(s)
    <3>6. p \in Seq(Messages) /\ IsPrefix(have, p)
      BY <1>3, <3>4, IsBeginning
    <3>7. mem = have \o (MsgsIn(s) \o MsgsIn(t))
      BY <1>2, <3>3, <3>5, Zenon
    <3>8. mem = p \o MsgsIn(t)
      BY <1>3, <3>4, <3>7
    <3>9. p \in Prefixes(mem)
      BY <3>4, <3>6, <3>8, IsBeginning
    <3> HIDE DEF p
    <3>10. MsgsIn(file'.lines) = p
      BY <3>2 DEF p
    <3>11. MsgsIn(file'.lines) \in {q \in Prefixes(mem) : IsPrefix(have, q)}
      BY <3>6, <3>9, <3>10
    <3>12. QED
      BY <1>1, <3>1, <3>11, CrashRefines
  <2>7. QED
    BY <2>5, <2>6
<1>6. QED
  BY <1>1, <1>4, <1>5

LEMMA ClearRefines == ASSUME IInv, RInv, Clear PROVE RInv' /\ Abs!Next
<1>1. file' = EmptyFile /\ astray' = FALSE /\ mem' = mem /\ replaced' = replaced
  BY DEF Clear
<1>2. /\ MsgsIn(file'.lines) = <<>> /\ file'.nl
      /\ LoadResult(file').msgs = <<>> /\ LoadResult(file').done = "open"
  BY <1>1, EmptyIs
<1>3. IsPrefix(<<>>, mem)
  <2>1. mem \in Seq(Messages) /\ <<>> \in Seq(Messages)
    BY DEF IInv, TypeInv
  <2>2. <<>> \o mem = mem
    BY <2>1
  <2>3. QED
    BY <2>1, <2>2, IsBeginning
<1>4. RInv'
  BY <1>1, <1>2, <1>3 DEF RInv
<1>5. Abs!Clear
  BY <1>1, <1>2 DEF Abs!Clear, Stored
<1>6. QED
  BY <1>4, <1>5 DEF Abs!Next

LEMMA NextRefines ==
    ASSUME ~TornWrites, ~Diverging, V1Files = {}, IInv, IInv', RInv, [Next]_vars
    PROVE  RInv' /\ [Abs!Next]_(Abs!vars)
<1>1. ASSUME NEW p \in Payload, Replace(<<Msg(p)>>) PROVE RInv' /\ Abs!Next
  BY <1>1, ReplaceRefines
<1>2. ASSUME NEW p \in Payload, Grow(p) PROVE RInv' /\ Abs!Next
  BY <1>2, GrowRefines
<1>3. ASSUME Load PROVE RInv' /\ Abs!Next
  BY <1>3, LoadRefines
<1>4. ASSUME NEW d \in Flags, Save(d) PROVE RInv' /\ Abs!Next
  BY <1>4, SaveRefines
<1>5. ASSUME NEW d \in Flags, CrashInSave(d) PROVE RInv' /\ Abs!Next
  BY <1>5, CrashInSaveRefines
<1>6. ASSUME Crash PROVE RInv' /\ Abs!Next
  BY <1>6, CrashRefines DEF Crash, RInv
<1>7. ASSUME Clear PROVE RInv' /\ Abs!Next
  BY <1>7, ClearRefines
<1>8. ASSUME UNCHANGED vars PROVE RInv' /\ UNCHANGED (Abs!vars)
  BY <1>8 DEF vars, RInv, Abs!vars, Stored
<1>9. QED
  BY <1>1, <1>2, <1>3, <1>4, <1>5, <1>6, <1>7, <1>8 DEF Next

\* session.py:20-22: the file, read with load(), is a DurableTranscript: a crash in
\* the middle of a save leaves the transcript of before, that of after, or the
\* former with some of what was being added.  This is for files of the present
\* format, appended to line by line, and a caller that replaces a transcript only by
\* one that is shorter than what is stored.
THEOREM Refinement ==
    ASSUME ~TornWrites, ~Diverging, V1Files = {}
    PROVE  Spec => ImplementsDurableTranscript
<1>1. Init => RInv /\ Abs!Init
  BY InitRefines
<1>2. IInv /\ IInv' /\ RInv /\ [Next]_vars => RInv' /\ [Abs!Next]_(Abs!vars)
  BY NextRefines
<1>3. QED
  BY Invariance, <1>1, <1>2, PTL DEF Spec, ImplementsDurableTranscript, Abs!Spec
=============================================================================
