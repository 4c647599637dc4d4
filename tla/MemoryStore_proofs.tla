--------------------------- MODULE MemoryStore_proofs ---------------------------
(* Theorems about the two sides of MemoryStore, for any bounds: MemoryStore,    *)
(* for any clients, names and bodies, and MemoryRecall, for any memories and    *)
(* any threads that recall, save and delete.                                    *)
EXTENDS MemoryStore, MemoryRecall, TLAPS, WellFoundedInduction

-------------------------------------------------------------------------------
(* The files and the index                                                    *)

\* An operation has a slug, and only a save has a body.
PlaceInv ==
    \A c \in Clients :
        /\ op[c].at # "idle" => op[c].slug \in Slugs
        /\ op[c].at \in {"exists", "unlink", "lock index"} => op[c].body = None

\* The index is written as it was read: nobody else writes it in between.
ReadInv == \A c \in Clients : op[c].at = "write index" => op[c].read = index

\* The slug a save without overwrite has found free stays free until it writes.
FreeInv ==
    \A c \in Clients : (op[c].at = "write" /\ ~op[c].overwrite) => files[op[c].slug] = None

\* On the way to the pointer of s: inside the lock, or, having removed the file,
\* waiting for it.
AtIndex(c, s) == op[c].slug = s /\ op[c].at \in {"read index", "write index"}
AtLock(c, s) == op[c].slug = s /\ op[c].at = "lock index"

\* What holds of one memory: it agrees with its pointer, or the operation on the way
\* to the index, or a deleter behind it, will see to it.
Settling(s) ==
    /\ (\A c \in Clients : ~AtIndex(c, s) /\ ~AtLock(c, s)) => index[s] = files[s]
    /\ \A c \in Clients :
           AtIndex(c, s) => \/ files[s] = op[c].body
                            \/ files[s] = None /\ \E d \in Clients : AtLock(d, s)
    /\ (\E d \in Clients : AtLock(d, s)) => files[s] = None

SettleInv == \A s \in Slugs \ gaps : Settling(s)

IInv == TypeOK /\ PlaceInv /\ ReadInv /\ FreeInv /\ SettleInv
-------------------------------------------------------------------------------
\* The invariant holds at the start.
LEMMA InitIInv == Init => IInv
<1>1. NoFiles \in [Slugs -> MaybeBody]
  BY DEF NoFiles, MaybeBody
<1>2. Idle \in Ops /\ Idle.at = "idle"
  BY <1>1 DEF Idle, Op, Ops, Places, NoSlug, MaybeBody
<1>3. ASSUME Init PROVE \A c \in Clients : op[c].at = "idle"
  BY <1>2, <1>3 DEF Init
<1>4. ASSUME Init PROVE TypeOK
  <2>1. \A c \in Clients : ~Inside(c) /\ lock # c
    BY <1>3, <1>4, ConstantsAssumption DEF Init, Inside, ConstantsAssumption
  <2>2. QED
    BY <1>1, <1>2, <1>4, <2>1, ConstantsAssumption DEF Init, ConstantsAssumption, TypeOK
<1>5. Init => PlaceInv /\ ReadInv /\ FreeInv
  BY <1>3 DEF PlaceInv, ReadInv, FreeInv
<1>6. Init => SettleInv
  BY <1>3 DEF Init, SettleInv, Settling, AtIndex, AtLock
<1>7. QED
  BY <1>4, <1>5, <1>6 DEF IInv
-------------------------------------------------------------------------------
(* The slug that a save takes                                                 *)

\* A set of slugs that is not empty has one with the smallest suffix.
LEMMA Smallest ==
    ASSUME NEW S \in SUBSET Slugs, S # {}
    PROVE  \E s \in S : \A t \in S : s[2] <= t[2]
<1> DEFINE T == {s[2] : s \in S}
<1>1. \A s \in S : s[2] \in Nat
  BY DEF Slugs
<1>2. T \subseteq Nat /\ T # {}
  BY <1>1
<1>3. PICK m \in T : \A k \in T : <<k, m>> \notin OpToRel(<, Nat)
  BY <1>2, WFMin, NatLessThanWellFounded, Zenon
<1>4. \A k \in T : ~(k < m)
  BY <1>2, <1>3, Zenon DEF OpToRel
<1>5. PICK s \in S : s[2] = m
  OBVIOUS
<1>6. ASSUME NEW t \in S PROVE s[2] <= t[2]
  <2>1. t[2] \in T /\ t[2] \in Nat /\ s[2] \in Nat
    BY <1>1
  <2>2. ~(t[2] < s[2])
    BY <1>4, <1>5, <2>1
  <2>3. QED
    BY <2>1, <2>2
<1>7. QED
  BY <1>6

\* A save without overwrite takes a slug that has no file.
LEMMA SlugForIsFree ==
    ASSUME NEW n \in Names, NEW w \in BOOLEAN, w \/ FreeSlugs(n) # {}
    PROVE  /\ SlugFor(n, w) \in Slugs
           /\ ~w => files[SlugFor(n, w)] = None
<1>1. CASE w
  BY <1>1, ConstantsAssumption DEF SlugFor, Slugs, ConstantsAssumption
<1>2. CASE ~w
  <2>1. FreeSlugs(n) \in SUBSET Slugs /\ FreeSlugs(n) # {}
    BY <1>2 DEF FreeSlugs
  <2>2. \E s \in FreeSlugs(n) : \A t \in FreeSlugs(n) : s[2] <= t[2]
    BY <2>1, Smallest
  <2>3. SlugFor(n, w) \in FreeSlugs(n)
    BY <1>2, <2>2 DEF SlugFor
  <2>4. QED
    BY <2>1, <2>3 DEF FreeSlugs, Exists
<1>3. QED
  BY <1>1, <1>2
-------------------------------------------------------------------------------
(* The types                                                                  *)

OpType == op \in [Clients -> Ops]

\* The lock is held by the one client that is inside it.
LockType == /\ lock \in Clients \cup {Nobody}
            /\ \A c \in Clients : Inside(c) <=> lock = c

InsidePlaces == {"resolve", "write", "read index", "write index"}

\* One client goes on to r, taking, keeping or dropping the lock as its place says.
LEMMA Moved ==
    ASSUME OpType, LockType, NEW c \in Clients, NEW r \in Ops, op' = [op EXCEPT ![c] = r],
           \/ lock' = lock /\ (Inside(c) <=> r.at \in InsidePlaces)
           \/ lock = Nobody /\ lock' = c /\ r.at \in InsidePlaces
           \/ lock = c /\ lock' = Nobody /\ r.at \notin InsidePlaces
    PROVE  OpType' /\ LockType'
<1>1. OpType'
  BY DEF OpType
<1>2. /\ Inside(c)' <=> r.at \in InsidePlaces
      /\ \A d \in Clients \ {c} : Inside(d)' <=> Inside(d)
  BY DEF OpType, Inside, InsidePlaces
<1>3. lock' \in Clients \cup {Nobody} /\ Nobody \notin Clients
  BY ConstantsAssumption DEF LockType, ConstantsAssumption
<1>4. ASSUME NEW d \in Clients PROVE Inside(d)' <=> lock' = d
  BY <1>2, <1>3 DEF LockType
<1>5. QED
  BY <1>1, <1>3, <1>4 DEF LockType

\* A client that only changes its place
LEMMA Gone ==
    ASSUME OpType, LockType, NEW c \in Clients, NEW at \in Places, Goto(c, at),
           \/ lock' = lock /\ (Inside(c) <=> at \in InsidePlaces)
           \/ lock = Nobody /\ lock' = c /\ at \in InsidePlaces
    PROVE  OpType' /\ LockType'
<1> DEFINE r == [op[c] EXCEPT !.at = at]
<1>1. r \in Ops /\ r.at = at
  BY DEF OpType, Ops
<1>2. op' = [op EXCEPT ![c] = r]
  BY DEF Goto
<1> HIDE DEF r
<1>3. QED
  BY <1>1, <1>2, Moved

\* The types of the remaining variables
RestType == /\ files \in [Slugs -> MaybeBody] /\ index \in [Slugs -> MaybeBody]
            /\ gaps \subseteq Slugs
            /\ ops \in 0..MaxOps /\ crashes \in 0..MaxCrashes

LEMMA TypeParts == /\ TypeOK => OpType /\ LockType /\ RestType
                   /\ OpType' /\ LockType' /\ RestType' => TypeOK'
  BY DEF TypeOK, OpType, LockType, RestType

\* No files, and no operation, are well typed.
LEMMA IdleIs == NoFiles \in [Slugs -> MaybeBody] /\ Idle \in Ops /\ Idle.at = "idle"
<1>1. NoFiles \in [Slugs -> MaybeBody]
  BY DEF NoFiles, MaybeBody
<1>2. QED
  BY <1>1 DEF Idle, Op, Ops, Places, NoSlug, MaybeBody

LEMMA OpIs ==
    ASSUME NEW at \in Places, NEW s \in Slugs, NEW b \in MaybeBody, NEW w \in BOOLEAN
    PROVE  Op(at, s, b, w) \in Ops /\ Op(at, s, b, w).at = at
  BY IdleIs DEF Op, Ops

LEMMA StepType == ASSUME IInv, [Next]_vars PROVE TypeOK'
<1>1. OpType /\ LockType /\ RestType
  BY TypeParts DEF IInv
<1>2. ASSUME NEW c \in Clients, NEW o \in Ops, Begin(c, o), o.at \in {"lock", "exists"}
      PROVE  TypeOK'
  <2>1. RestType'
    BY <1>1, <1>2, ConstantsAssumption DEF RestType, Begin, ConstantsAssumption
  <2>2. OpType' /\ LockType'
    BY <1>1, <1>2, Moved DEF Begin, Inside, InsidePlaces
  <2>3. QED
    BY <2>1, <2>2, TypeParts
<1>3. ASSUME NEW c \in Clients, BeginSave(c) PROVE TypeOK'
  <2>1. PICK n \in Names, b \in Bodies, w \in BOOLEAN : Begin(c, Op("lock", <<n, 1>>, b, w))
    BY <1>3 DEF BeginSave
  <2>2. <<n, 1>> \in Slugs /\ b \in MaybeBody /\ "lock" \in Places
    BY ConstantsAssumption DEF Slugs, MaybeBody, Places, ConstantsAssumption
  <2>3. /\ Op("lock", <<n, 1>>, b, w) \in Ops
        /\ Op("lock", <<n, 1>>, b, w).at = "lock"
    BY <2>2, OpIs
  <2>4. QED
    BY <1>2, <2>1, <2>3
<1>4. ASSUME NEW c \in Clients, BeginDelete(c) PROVE TypeOK'
  <2>1. PICK s \in Slugs : Begin(c, Op("exists", s, None, FALSE))
    BY <1>4 DEF BeginDelete
  <2>2. Op("exists", s, None, FALSE) \in Ops /\ Op("exists", s, None, FALSE).at = "exists"
    BY OpIs DEF MaybeBody, Places
  <2>3. QED
    BY <1>2, <2>1, <2>2
<1>5. ASSUME NEW c \in Clients, NEW here, NEW next \in InsidePlaces, Lock(c, here, next)
      PROVE  TypeOK'
  <2>1. next \in Places /\ Goto(c, next)
    BY <1>5 DEF Places, InsidePlaces, Lock
  <2>2. OpType' /\ LockType'
    BY <1>1, <1>5, <2>1, Gone DEF Lock, LockAvailable
  <2>3. RestType'
    BY <1>1, <1>5 DEF RestType, Lock
  <2>4. QED
    BY <2>2, <2>3, TypeParts
<1>6. ASSUME NEW c \in Clients, Resolve(c) PROVE TypeOK'
  <2>1. op[c] \in Ops /\ op[c].slug \in Slugs /\ op[c].overwrite \in BOOLEAN
    BY <1>1, <1>6 DEF OpType, Ops, IInv, PlaceInv, Resolve
  <2> DEFINE s == SlugFor(op[c].slug[1], op[c].overwrite)
             r == [op[c] EXCEPT !.at = "write", !.slug = s]
  <2>2. s \in Slugs
    BY <1>6, <2>1, SlugForIsFree DEF Resolve, Slugs
  <2>3. op' = [op EXCEPT ![c] = r]
    BY <1>6 DEF Resolve
  <2> HIDE DEF s
  <2>4. r \in Ops /\ r.at = "write"
    BY <2>1, <2>2 DEF Ops, Places
  <2>5. Inside(c)
    BY <1>6 DEF Resolve, Inside
  <2> HIDE DEF r
  <2>6. OpType' /\ LockType'
    BY <1>1, <1>6, <2>3, <2>4, <2>5, Moved DEF Resolve, InsidePlaces
  <2>7. RestType'
    BY <1>1, <1>6 DEF RestType, Resolve
  <2>8. QED
    BY <2>6, <2>7, TypeParts
<1>7. ASSUME NEW c \in Clients, Write(c) PROVE TypeOK'
  <2>1. OpType' /\ LockType'
    BY <1>1, <1>7, Gone DEF Write, Inside, InsidePlaces, Places
  <2>2. op[c].slug \in Slugs /\ op[c].body \in MaybeBody
    BY <1>1, <1>7 DEF Write, IInv, PlaceInv, OpType, Ops
  <2>3. RestType'
    BY <1>1, <1>7, <2>2 DEF RestType, Write
  <2>4. QED
    BY <2>1, <2>3, TypeParts
<1>8. ASSUME NEW c \in Clients, ReadIndex(c) PROVE TypeOK'
  <2> DEFINE r == [op[c] EXCEPT !.at = "write index", !.read = index]
  <2>1. op' = [op EXCEPT ![c] = r]
    BY <1>8 DEF ReadIndex
  <2>2. r \in Ops /\ r.at = "write index"
    BY <1>1 DEF OpType, RestType, Ops, Places
  <2> HIDE DEF r
  <2>3. OpType' /\ LockType'
    BY <1>1, <1>8, <2>1, <2>2, Moved DEF ReadIndex, Inside, InsidePlaces
  <2>4. RestType'
    BY <1>1, <1>8 DEF RestType, ReadIndex
  <2>5. QED
    BY <2>3, <2>4, TypeParts
<1>9. ASSUME NEW c \in Clients, WriteIndex(c) PROVE TypeOK'
  <2>1. op[c] \in Ops
    BY <1>1 DEF OpType
  <2>2. LinesWithout(op[c].slug, op[c].read) \in [Slugs -> MaybeBody]
    BY <2>1 DEF LinesWithout, Ops, MaybeBody
  <2>3. index' \in [Slugs -> MaybeBody]
    BY <1>9, <2>1, <2>2 DEF WriteIndex, Ops
  <2>4. lock = c /\ lock' = Nobody
    BY <1>1, <1>9 DEF WriteIndex, Released, LockType, Inside
  <2>5. OpType' /\ LockType'
    BY <1>1, <1>9, <2>4, IdleIs, Moved DEF WriteIndex, InsidePlaces
  <2>6. RestType'
    BY <1>1, <1>9, <2>3 DEF RestType, WriteIndex
  <2>7. QED
    BY <2>5, <2>6, TypeParts
<1>10. ASSUME NEW c \in Clients, LookBeforeDelete(c) PROVE TypeOK'
  <2> DEFINE r == [op[c] EXCEPT !.at = "unlink", !.existed = Exists(op[c].slug)]
  <2>1. op' = [op EXCEPT ![c] = r]
    BY <1>10 DEF LookBeforeDelete
  <2>2. Exists(op[c].slug) \in BOOLEAN
    BY DEF Exists
  <2>3. r \in Ops /\ r.at = "unlink"
    BY <1>1, <2>2 DEF OpType, Ops, Places
  <2> HIDE DEF r
  <2>4. OpType' /\ LockType'
    BY <1>1, <1>10, <2>1, <2>3, Moved DEF LookBeforeDelete, Inside, InsidePlaces
  <2>5. RestType'
    BY <1>1, <1>10 DEF RestType, LookBeforeDelete
  <2>6. QED
    BY <2>4, <2>5, TypeParts
<1>11. ASSUME NEW c \in Clients, Unlink(c) PROVE TypeOK'
  <2>1. ~Inside(c) /\ lock' = lock
    BY <1>11 DEF Unlink, Inside
  <2>2. ASSUME op[c].existed PROVE OpType' /\ LockType'
    BY <1>1, <1>11, <2>1, <2>2, Gone DEF Unlink, AfterUnlink, InsidePlaces, Places
  <2>3. ASSUME ~op[c].existed PROVE OpType' /\ LockType'
    BY <1>1, <1>11, <2>1, <2>3, IdleIs, Moved DEF Unlink, AfterUnlink, InsidePlaces
  <2>4. op[c].slug \in Slugs
    BY <1>11 DEF Unlink, IInv, PlaceInv
  <2>5. RestType'
    BY <1>1, <1>11, <2>4 DEF Unlink, RestType, MaybeBody
  <2>6. QED
    BY <2>2, <2>3, <2>5, TypeParts
<1>12. ASSUME NEW c \in Clients, Crash(c) PROVE TypeOK'
  <2>1. op[c].slug \in Slugs
    BY <1>12 DEF Crash, IInv, PlaceInv
  <2>2. RestType'
    <3>0. crashes < MaxCrashes /\ crashes' = crashes + 1
      BY <1>12 DEF Crash
    <3>1. crashes' \in 0..MaxCrashes
      BY <1>1, <3>0, ConstantsAssumption DEF RestType, ConstantsAssumption
    <3>2. gaps' \subseteq Slugs
      BY <1>1, <1>12, <2>1 DEF RestType, Crash
    <3>3. QED
      BY <1>1, <1>12, <3>1, <3>2 DEF RestType, Crash
  <2>3. OpType' /\ LockType'
    BY <1>1, <1>12, IdleIs, Moved DEF Crash, InsidePlaces, LockType
  <2>4. QED
    BY <2>2, <2>3, TypeParts
<1>13. CASE UNCHANGED vars
  BY <1>1, <1>13, TypeParts DEF vars, OpType, LockType, RestType, Inside
<1>14. QED
  BY <1>3, <1>4, <1>5, <1>6, <1>7, <1>8, <1>9, <1>10, <1>11, <1>12, <1>13
     DEF Next, Step, InsidePlaces
-------------------------------------------------------------------------------
(* The other parts of the invariant, one lemma per action                     *)

Rest == PlaceInv /\ ReadInv /\ FreeInv /\ SettleInv

\* Two clients are not inside the lock together.
LEMMA Alone ==
    ASSUME IInv, NEW c \in Clients, NEW d \in Clients, Inside(c), Inside(d) PROVE c = d
  BY DEF IInv, TypeOK

\* What c does leaves the others where they are.
Others(c) == \A d \in Clients \ {c} : op'[d] = op[d]

\* A memory stays settled in a step that changes neither its file nor its pointer, nor
\* who is on the way to them.
LEMMA SettlingKept ==
    ASSUME NEW s, Settling(s), files'[s] = files[s], index'[s] = index[s],
           \A d \in Clients : /\ AtIndex(d, s)' <=> AtIndex(d, s)
                              /\ AtLock(d, s)' <=> AtLock(d, s)
                              /\ AtIndex(d, s) => op'[d].body = op[d].body
    PROVE  Settling(s)'
  BY DEF Settling

LEMMA BeginRest ==
    ASSUME IInv, NEW c \in Clients, BeginSave(c) \/ BeginDelete(c) PROVE Rest'
<1>1. PICK o : /\ Begin(c, o) /\ o.slug \in Slugs
               /\ o.at = "lock" \/ (o.at = "exists" /\ o.body = None)
  <2>1. CASE BeginSave(c)
    <3>1. PICK n \in Names, b \in Bodies, w \in BOOLEAN : Begin(c, Op("lock", <<n, 1>>, b, w))
      BY <2>1 DEF BeginSave
    <3>2. <<n, 1>> \in Slugs
      BY ConstantsAssumption DEF Slugs, ConstantsAssumption
    <3>3. QED
      BY <3>1, <3>2 DEF Op
  <2>2. CASE BeginDelete(c)
    BY <2>2 DEF BeginDelete, Op
  <2>3. QED
    BY <2>1, <2>2
<1>2. /\ op[c].at = "idle" /\ op'[c] = o /\ Others(c)
      /\ files' = files /\ index' = index /\ gaps' = gaps
  BY <1>1 DEF Begin, IInv, TypeOK, Others
<1>3. PlaceInv' /\ ReadInv' /\ FreeInv'
  BY <1>1, <1>2 DEF IInv, PlaceInv, ReadInv, FreeInv, Others
<1>4. ASSUME NEW s \in Slugs \ gaps PROVE Settling(s)'
  <2>1. \A d \in Clients : /\ AtIndex(d, s)' <=> AtIndex(d, s)
                           /\ AtLock(d, s)' <=> AtLock(d, s)
                           /\ AtIndex(d, s) => op'[d].body = op[d].body
    BY <1>1, <1>2 DEF AtIndex, AtLock, Others
  <2>2. QED
    BY <1>2, <2>1, SettlingKept DEF IInv, SettleInv
<1>5. QED
  BY <1>2, <1>3, <1>4 DEF Rest, SettleInv

\* The places and the slug of a client that goes on to another place
LEMMA GotoIs ==
    ASSUME IInv, NEW c \in Clients, NEW at, Goto(c, at)
    PROVE  /\ op'[c].at = at /\ op'[c].slug = op[c].slug /\ op'[c].body = op[c].body
           /\ op'[c].overwrite = op[c].overwrite /\ op'[c].read = op[c].read /\ Others(c)
<1> DEFINE r == [op[c] EXCEPT !.at = at]
<1>1. op[c] \in Ops /\ op \in [Clients -> Ops]
  BY DEF IInv, TypeOK
<1>2. /\ r.at = at /\ r.slug = op[c].slug /\ r.body = op[c].body
      /\ r.overwrite = op[c].overwrite /\ r.read = op[c].read
  BY <1>1 DEF Ops
<1>3. op' = [op EXCEPT ![c] = r]
  BY DEF Goto
<1> HIDE DEF r
<1>4. op'[c] = r /\ Others(c)
  BY <1>1, <1>3 DEF Others
<1>5. QED
  BY <1>2, <1>4

LEMMA LockForSaveRest ==
    ASSUME IInv, NEW c \in Clients, Lock(c, "lock", "resolve") PROVE Rest'
<1>1. /\ op[c].at = "lock" /\ op'[c].at = "resolve" /\ op'[c].slug = op[c].slug
      /\ Others(c) /\ files' = files /\ index' = index /\ gaps' = gaps
  BY GotoIs DEF Lock
<1>2. PlaceInv' /\ ReadInv' /\ FreeInv'
  BY <1>1 DEF IInv, PlaceInv, ReadInv, FreeInv, Others
<1>3. ASSUME NEW s \in Slugs \ gaps PROVE Settling(s)'
  <2>1. \A d \in Clients : /\ AtIndex(d, s)' <=> AtIndex(d, s)
                           /\ AtLock(d, s)' <=> AtLock(d, s)
                           /\ AtIndex(d, s) => op'[d].body = op[d].body
    BY <1>1 DEF AtIndex, AtLock, Others
  <2>2. QED
    BY <1>1, <2>1, SettlingKept DEF IInv, SettleInv
<1>4. QED
  BY <1>1, <1>2, <1>3 DEF Rest, SettleInv

\* The deleter that gets the lock finds the file still gone: its pointer goes too.
LEMMA LockForDeleteRest ==
    ASSUME IInv, NEW c \in Clients, Lock(c, "lock index", "read index") PROVE Rest'
<1>1. /\ lock = Nobody /\ op[c].at = "lock index" /\ op'[c].at = "read index"
      /\ op'[c].slug = op[c].slug /\ op'[c].body = op[c].body /\ op[c].body = None
      /\ Others(c) /\ files' = files /\ index' = index /\ gaps' = gaps
  BY GotoIs DEF Lock, LockAvailable, IInv, PlaceInv
<1>2. \A d \in Clients : ~Inside(d)
  BY <1>1, ConstantsAssumption DEF IInv, TypeOK, ConstantsAssumption
<1>3. PlaceInv' /\ ReadInv' /\ FreeInv'
  BY <1>1 DEF IInv, PlaceInv, ReadInv, FreeInv, Others
<1>4. ASSUME NEW s \in Slugs \ gaps PROVE Settling(s)'
  <2>1. Settling(s) /\ \A d \in Clients : ~AtIndex(d, s)
    BY <1>2, <1>4 DEF IInv, SettleInv, Inside, AtIndex
  <2>2. CASE op[c].slug = s
    <3>1. AtLock(c, s) /\ files[s] = None /\ AtIndex(c, s)'
      BY <1>1, <2>1, <2>2 DEF AtLock, AtIndex, Settling
    <3>2. \A d \in Clients \ {c} : ~AtIndex(d, s)'
      BY <1>1, <2>1 DEF AtIndex, Others
    <3>3. QED
      BY <1>1, <3>1, <3>2 DEF Settling
  <2>3. CASE op[c].slug # s
    <3>1. \A d \in Clients : /\ AtIndex(d, s)' <=> AtIndex(d, s)
                             /\ AtLock(d, s)' <=> AtLock(d, s)
      BY <1>1, <2>3 DEF AtIndex, AtLock, Others
    <3>2. QED
      BY <1>1, <2>1, <3>1, SettlingKept
  <2>4. QED
    BY <2>2, <2>3
<1>5. QED
  BY <1>1, <1>3, <1>4 DEF Rest, SettleInv

LEMMA ResolveRest == ASSUME IInv, NEW c \in Clients, Resolve(c) PROVE Rest'
<1>1. /\ op[c] \in Ops /\ op \in [Clients -> Ops] /\ op[c].slug \in Slugs
      /\ op[c].overwrite \in BOOLEAN /\ op[c].at = "resolve"
  BY DEF IInv, TypeOK, PlaceInv, Resolve, Ops
<1> DEFINE new == SlugFor(op[c].slug[1], op[c].overwrite)
           r == [op[c] EXCEPT !.at = "write", !.slug = new]
<1>2. new \in Slugs /\ (~op[c].overwrite => files[new] = None)
  BY <1>1, SlugForIsFree DEF Resolve, Slugs
<1>3. op' = [op EXCEPT ![c] = r]
  BY DEF Resolve
<1> HIDE DEF new
<1>4. r.at = "write" /\ r.slug = new /\ r.overwrite = op[c].overwrite
  BY <1>1 DEF Ops
<1> HIDE DEF r
<1>5. op'[c] = r /\ Others(c) /\ files' = files /\ index' = index /\ gaps' = gaps
  BY <1>1, <1>3 DEF Others, Resolve
<1>6. PlaceInv' /\ ReadInv' /\ FreeInv'
  BY <1>1, <1>2, <1>4, <1>5 DEF IInv, PlaceInv, ReadInv, FreeInv, Others
<1>7. ASSUME NEW s \in Slugs \ gaps PROVE Settling(s)'
  <2>1. \A d \in Clients : /\ AtIndex(d, s)' <=> AtIndex(d, s)
                           /\ AtLock(d, s)' <=> AtLock(d, s)
                           /\ AtIndex(d, s) => op'[d].body = op[d].body
    BY <1>1, <1>4, <1>5 DEF AtIndex, AtLock, Others
  <2>2. QED
    BY <1>5, <2>1, SettlingKept DEF IInv, SettleInv
<1>8. QED
  BY <1>5, <1>6, <1>7 DEF Rest, SettleInv

\* A file is written; a deleter that waits to remove its pointer is a gap.
LEMMA WriteRest == ASSUME IInv, NEW c \in Clients, Write(c) PROVE Rest'
<1>1. /\ op[c].at = "write" /\ op[c].slug \in Slugs /\ Inside(c)
      /\ op'[c].at = "read index" /\ op'[c].slug = op[c].slug /\ op'[c].body = op[c].body
      /\ Others(c) /\ index' = index /\ op \in [Clients -> Ops] /\ files \in [Slugs -> MaybeBody]
  BY GotoIs DEF Write, Inside, IInv, TypeOK, PlaceInv
<1>2. /\ files' = [files EXCEPT ![op[c].slug] = op[c].body]
      /\ gaps' = gaps \cup {t \in {op[c].slug} : DeleteWillDropPointer(t)}
  BY DEF Write
<1>3. \A d \in Clients \ {c} : ~Inside(d)
  BY <1>1, Alone
<1>4. PlaceInv' /\ ReadInv'
  BY <1>1 DEF IInv, PlaceInv, ReadInv, Others
<1>5. FreeInv'
  BY <1>1, <1>3 DEF FreeInv, Others, Inside
<1>6. ASSUME NEW s \in Slugs \ gaps' PROVE Settling(s)'
  <2>1. s \notin gaps /\ Settling(s)
    BY <1>2, <1>6 DEF IInv, SettleInv
  <2>2. \A d \in Clients \ {c} : /\ ~AtIndex(d, s)' /\ ~AtIndex(d, s)
                                 /\ AtLock(d, s)' <=> AtLock(d, s)
    BY <1>1, <1>3 DEF AtIndex, AtLock, Others, Inside
  <2>3. CASE s = op[c].slug
    <3>1. \A d \in Clients : ~AtLock(d, s)
      BY <1>2, <1>6, <2>3 DEF DeleteWillDropPointer, AtLock
    <3>2. AtIndex(c, s)' /\ ~AtLock(c, s)' /\ files'[s] = op'[c].body
      BY <1>1, <1>2, <2>3 DEF AtIndex, AtLock
    <3>3. QED
      BY <2>2, <3>1, <3>2 DEF Settling
  <2>4. CASE s # op[c].slug
    <3>1. files'[s] = files[s] /\ ~AtIndex(c, s)' /\ ~AtIndex(c, s)
          /\ ~AtLock(c, s)' /\ ~AtLock(c, s)
      BY <1>1, <1>2, <2>4 DEF AtIndex, AtLock
    <3>2. QED
      BY <1>1, <2>1, <2>2, <3>1, SettlingKept
  <2>5. QED
    BY <2>3, <2>4
<1>7. QED
  BY <1>4, <1>5, <1>6 DEF Rest, SettleInv

LEMMA ReadIndexRest == ASSUME IInv, NEW c \in Clients, ReadIndex(c) PROVE Rest'
<1> DEFINE r == [op[c] EXCEPT !.at = "write index", !.read = index]
<1>1. op[c] \in Ops /\ op \in [Clients -> Ops] /\ op[c].at = "read index"
  BY DEF IInv, TypeOK, ReadIndex
<1>2. op' = [op EXCEPT ![c] = r]
  BY DEF ReadIndex
<1>3. r.at = "write index" /\ r.slug = op[c].slug /\ r.body = op[c].body /\ r.read = index
  BY <1>1 DEF Ops
<1> HIDE DEF r
<1>4. op'[c] = r /\ Others(c) /\ files' = files /\ index' = index /\ gaps' = gaps
  BY <1>1, <1>2 DEF Others, ReadIndex
<1>5. PlaceInv' /\ ReadInv' /\ FreeInv'
  BY <1>1, <1>3, <1>4 DEF IInv, PlaceInv, ReadInv, FreeInv, Others
<1>6. ASSUME NEW s \in Slugs \ gaps PROVE Settling(s)'
  <2>1. \A d \in Clients : /\ AtIndex(d, s)' <=> AtIndex(d, s)
                           /\ AtLock(d, s)' <=> AtLock(d, s)
                           /\ AtIndex(d, s) => op'[d].body = op[d].body
    BY <1>1, <1>3, <1>4 DEF AtIndex, AtLock, Others
  <2>2. QED
    BY <1>4, <2>1, SettlingKept DEF IInv, SettleInv
<1>7. QED
  BY <1>4, <1>5, <1>6 DEF Rest, SettleInv

\* The pointer is written, and no other memory's changes that is not a gap.
LEMMA WriteIndexRest == ASSUME IInv, NEW c \in Clients, WriteIndex(c) PROVE Rest'
<1> DEFINE own == op[c].slug
           lines == LinesWithout(own, op[c].read)
<1>1. /\ op[c].at = "write index" /\ own \in Slugs /\ Inside(c) /\ op[c].read = index
      /\ op'[c].at = "idle" /\ Others(c) /\ files' = files
  BY IdleIs DEF WriteIndex, Inside, IInv, TypeOK, PlaceInv, ReadInv, Others
<1>2. /\ index' = [lines EXCEPT ![own] = op[c].body]
      /\ gaps' = gaps \cup {t \in Slugs \ {own} : lines[t] # op[c].read[t]}
  BY DEF WriteIndex
<1>3. DOMAIN lines = Slugs
  BY DEF LinesWithout
<1> HIDE DEF lines
<1>4. \A d \in Clients \ {c} : ~Inside(d)
  BY <1>1, Alone
<1>5. PlaceInv' /\ FreeInv'
  BY <1>1 DEF IInv, PlaceInv, FreeInv, Others
<1>6. ReadInv'
  BY <1>1, <1>4 DEF ReadInv, Others, Inside
<1>7. ASSUME NEW s \in Slugs \ gaps' PROVE Settling(s)'
  <2>1. s \notin gaps /\ Settling(s)
    BY <1>2, <1>7 DEF IInv, SettleInv
  <2>2. ~AtIndex(c, s)' /\ ~AtLock(c, s)' /\ ~AtLock(c, s)
    BY <1>1 DEF AtIndex, AtLock
  <2>3. \A d \in Clients \ {c} : /\ ~AtIndex(d, s)' /\ ~AtIndex(d, s)
                                 /\ AtLock(d, s)' <=> AtLock(d, s)
    BY <1>1, <1>4 DEF AtIndex, AtLock, Others, Inside
  <2>4. CASE s = own
    <3>1. index'[s] = op[c].body
      BY <1>2, <1>3, <1>7, <2>4
    <3>2. AtIndex(c, s)
      BY <1>1, <2>4 DEF AtIndex
    <3>3. (\A d \in Clients : ~AtLock(d, s)) => files[s] = op[c].body
      BY <2>1, <3>2 DEF Settling
    <3>4. QED
      BY <1>1, <2>1, <2>2, <2>3, <3>1, <3>3 DEF Settling
  <2>5. CASE s # own
    <3>1. lines[s] = op[c].read[s]
      BY <1>2, <1>7, <2>5
    <3>2. index'[s] = index[s]
      BY <1>1, <1>2, <1>3, <1>7, <2>5, <3>1
    <3>3. ~AtIndex(c, s)
      BY <2>5 DEF AtIndex
    <3>4. QED
      BY <1>1, <2>1, <2>2, <2>3, <3>2, <3>3, SettlingKept
  <2>6. QED
    BY <2>4, <2>5
<1>8. QED
  BY <1>5, <1>6, <1>7 DEF Rest, SettleInv

LEMMA LookBeforeDeleteRest ==
    ASSUME IInv, NEW c \in Clients, LookBeforeDelete(c) PROVE Rest'
<1> DEFINE r == [op[c] EXCEPT !.at = "unlink", !.existed = Exists(op[c].slug)]
<1>1. op[c] \in Ops /\ op \in [Clients -> Ops] /\ op[c].at = "exists"
  BY DEF IInv, TypeOK, LookBeforeDelete
<1>2. op' = [op EXCEPT ![c] = r]
  BY DEF LookBeforeDelete
<1>3. r.at = "unlink" /\ r.slug = op[c].slug /\ r.body = op[c].body
  BY <1>1 DEF Ops
<1> HIDE DEF r
<1>4. op'[c] = r /\ Others(c) /\ files' = files /\ index' = index /\ gaps' = gaps
  BY <1>1, <1>2 DEF Others, LookBeforeDelete
<1>5. PlaceInv' /\ ReadInv' /\ FreeInv'
  BY <1>1, <1>3, <1>4 DEF IInv, PlaceInv, ReadInv, FreeInv, Others
<1>6. ASSUME NEW s \in Slugs \ gaps PROVE Settling(s)'
  <2>1. \A d \in Clients : /\ AtIndex(d, s)' <=> AtIndex(d, s)
                           /\ AtLock(d, s)' <=> AtLock(d, s)
                           /\ AtIndex(d, s) => op'[d].body = op[d].body
    BY <1>1, <1>3, <1>4 DEF AtIndex, AtLock, Others
  <2>2. QED
    BY <1>4, <2>1, SettlingKept DEF IInv, SettleInv
<1>7. QED
  BY <1>4, <1>5, <1>6 DEF Rest, SettleInv

\* The file is gone: a deleter that saw it waits for the lock, and one that did not
\* leaves a gap.
LEMMA UnlinkRest == ASSUME IInv, NEW c \in Clients, Unlink(c) PROVE Rest'
<1> DEFINE own == op[c].slug
<1>1. /\ op[c].at = "unlink" /\ own \in Slugs /\ op[c].body = None /\ index' = index
      /\ files \in [Slugs -> MaybeBody]
  BY DEF Unlink, IInv, TypeOK, PlaceInv
<1>2. /\ files' = [files EXCEPT ![own] = None]
      /\ gaps' = gaps \cup {t \in {own} : Exists(t) /\ ~op[c].existed}
  BY DEF Unlink
<1>3. /\ Others(c) /\ op'[c].at \in {"lock index", "idle"}
      /\ op'[c].at = "lock index" => op'[c].slug = own /\ op'[c].body = None
      /\ op[c].existed => op'[c].at = "lock index"
  <2>1. CASE op[c].existed
    BY <1>1, <2>1, GotoIs DEF Unlink, AfterUnlink
  <2>2. CASE ~op[c].existed
    BY <2>2, IdleIs DEF Unlink, AfterUnlink, IInv, TypeOK, Others
  <2>3. QED
    BY <2>1, <2>2
<1>4. PlaceInv' /\ ReadInv'
  BY <1>1, <1>3 DEF IInv, PlaceInv, ReadInv, Others
<1>5. FreeInv'
  BY <1>1, <1>2, <1>3 DEF IInv, FreeInv, PlaceInv, Others
<1>6. ASSUME NEW s \in Slugs \ gaps' PROVE Settling(s)'
  <2>1. s \notin gaps /\ Settling(s)
    BY <1>2, <1>6 DEF IInv, SettleInv
  <2>2. ~AtIndex(c, s)' /\ ~AtIndex(c, s) /\ ~AtLock(c, s)
    BY <1>1, <1>3 DEF AtIndex, AtLock
  <2>3. \A d \in Clients \ {c} : /\ AtIndex(d, s)' <=> AtIndex(d, s)
                                 /\ AtLock(d, s)' <=> AtLock(d, s)
                                 /\ op'[d].body = op[d].body
    BY <1>3 DEF AtIndex, AtLock, Others
  <2>4. CASE s = own /\ op[c].existed
    <3>1. files'[s] = None /\ AtLock(c, s)'
      BY <1>1, <1>2, <1>3, <2>4 DEF AtLock
    <3>2. QED
      BY <3>1 DEF Settling
  <2>5. CASE s # own \/ ~op[c].existed
    <3>1. files'[s] = files[s]
      BY <1>1, <1>2, <1>6, <2>5 DEF Exists
    <3>2. CASE AtLock(c, s)'
      <4>1. s = own
        BY <1>3, <3>2 DEF AtLock
      <4>2. files'[s] = None
        BY <1>1, <1>2, <4>1
      <4>3. QED
        BY <3>2, <4>2 DEF Settling
    <3>3. CASE ~AtLock(c, s)'
      BY <1>1, <2>1, <2>2, <2>3, <3>1, <3>3, SettlingKept
    <3>4. QED
      BY <3>2, <3>3
  <2>6. QED
    BY <2>4, <2>5
<1>7. QED
  BY <1>4, <1>5, <1>6 DEF Rest, SettleInv

\* A client that dies between file and pointer leaves a gap; elsewhere it leaves none.
LEMMA CrashRest == ASSUME IInv, NEW c \in Clients, Crash(c) PROVE Rest'
<1>1. /\ op'[c].at = "idle" /\ Others(c) /\ files' = files /\ index' = index
      /\ gaps' = gaps \cup {t \in {op[c].slug} :
                               op[c].at \in {"read index", "write index", "lock index"}}
  BY IdleIs DEF Crash, IInv, TypeOK, Others
<1>2. PlaceInv' /\ ReadInv' /\ FreeInv'
  BY <1>1 DEF IInv, PlaceInv, ReadInv, FreeInv, Others
<1>3. ASSUME NEW s \in Slugs \ gaps' PROVE Settling(s)'
  <2>1. ~AtIndex(c, s) /\ ~AtLock(c, s) /\ s \notin gaps
    BY <1>1, <1>3 DEF AtIndex, AtLock
  <2>2. \A d \in Clients : /\ AtIndex(d, s)' <=> AtIndex(d, s)
                           /\ AtLock(d, s)' <=> AtLock(d, s)
                           /\ AtIndex(d, s) => op'[d].body = op[d].body
    BY <1>1, <2>1 DEF AtIndex, AtLock, Others
  <2>3. QED
    BY <1>1, <2>1, <2>2, SettlingKept DEF IInv, SettleInv
<1>4. QED
  BY <1>1, <1>2, <1>3 DEF Rest, SettleInv

LEMMA StepRest == ASSUME IInv, [Next]_vars PROVE Rest'
<1>1. CASE UNCHANGED vars
  <2>1. PlaceInv' /\ ReadInv' /\ FreeInv'
    BY <1>1 DEF vars, IInv, PlaceInv, ReadInv, FreeInv
  <2>2. ASSUME NEW s \in Slugs \ gaps PROVE Settling(s)'
    BY <1>1, <2>2, SettlingKept DEF vars, IInv, SettleInv, AtIndex, AtLock
  <2>3. QED
    BY <1>1, <2>1, <2>2 DEF vars, Rest, SettleInv
<1>2. CASE Next
  BY <1>2, BeginRest, LockForSaveRest, LockForDeleteRest, ResolveRest, WriteRest, ReadIndexRest,
     WriteIndexRest, LookBeforeDeleteRest, UnlinkRest, CrashRest DEF Next, Step
<1>3. QED
  BY <1>1, <1>2
-------------------------------------------------------------------------------
\* The invariant is inductive.
LEMMA Inductive == Spec => []IInv
<1>1. ASSUME IInv, [Next]_vars PROVE IInv'
  BY <1>1, StepType, StepRest DEF IInv, Rest
<1>2. QED
  BY <1>1, InitIInv, PTL DEF Spec

\* filelock.py:73-90: however many savers and deleters run and die, every reachable
\* state is well typed, and the lock on MEMORY.md is held by the client inside it.
THEOREM MemoryTyping == Spec => []TypeOK
<1>1. IInv => TypeOK
  BY DEF IInv
<1>2. QED
  BY <1>1, Inductive, PTL

\* memdir.py:270-284: for any number of clients and names and any descriptions, no
\* update of MEMORY.md is lost, and a memory that is not one of the recorded gaps has
\* its pointer whenever nobody is on the way to it.
THEOREM Agreement == Spec => []PointersAgree
<1>1. IInv => PointersAgree
  BY DEF IInv, SettleInv, Settling, AtIndex, AtLock, PointersAgree, Unsettled
<1>2. QED
  BY <1>1, Inductive, PTL

\* memdir.py:186-189: for any number of savers, the slug that a save without overwrite
\* found free is free when it writes.
THEOREM NoOverwriting == Spec => NothingOverwritten
<1>1. IInv => \A c \in Clients : (op[c].at = "write" /\ ~op[c].overwrite)
                                    => files[op[c].slug] = None
  BY DEF IInv, FreeInv
<1>2. IInv => [\A c \in Clients : (op[c].at = "write" /\ ~op[c].overwrite
                                       /\ op'[c].at = "read index")
                                      => files[op[c].slug] = None]_vars
  BY <1>1
<1>3. QED
  BY <1>2, Inductive, PTL DEF NothingOverwritten

-------------------------------------------------------------------------------
(* The cache and the recalls                                                  *)

WriterPlaces == {"rest", "index", "invalidate", "invalidate, then index", "last index"}

RecallerPlaces == {"idle", "gate", "stat", "scan", "load", "store", "drop", "assign", "query",
                   "done", "raised"}

Recalls == [at : RecallerPlaces, seen : [Memories -> Versions], todo : SUBSET Memories,
            read : SUBSET (Memories \X Versions), changed : BOOLEAN,
            built : [Memories -> Versions], found : [Memories -> Versions]]

Entries == [sig : Versions, mem : Versions]

RecallTypes ==
    /\ stored \in [Memories -> Versions] /\ version \in Versions /\ dirSig \in BOOLEAN
    /\ cache \in [Memories -> Entries]
    /\ postings \in [Memories -> Versions]
    /\ rec \in [Recallers -> Recalls]
    /\ asked \in [Recallers -> SUBSET Memories] /\ torn \in BOOLEAN

\* A recall is asked for what nobody is writing.
WriterInv ==
    /\ writer \in [Writers -> [does : WriterPlaces, slug : Memories \cup {"none"}]]
    /\ \A w \in Writers : IF writer[w].does = "rest" THEN writer[w] = NoWrite
                                                     ELSE writer[w].slug \in Memories
    /\ \A r \in Recallers : \A s \in asked[r], w \in Writers :
           writer[w].does # "rest" => writer[w].slug # s

\* Version v of s is what is stored or came before it.
Before(v, s) == v \in Versions \ {Absent} /\ v <= version /\ (stored[s] = Absent \/ v <= stored[s])

\* An entry's content is no older than its signature.
EntryInv ==
    \A s \in Memories :
        /\ stored[s] <= version
        /\ Cached(s) => cache[s].sig # Absent /\ cache[s].sig <= cache[s].mem
                        /\ Before(cache[s].mem, s)

\* What a recall knows at each of its places
Reader(r) ==
    /\ rec[r].at \in {"gate", "stat", "scan"} => ~rec[r].changed
    /\ rec[r].at # "store" => rec[r].read = {}
    /\ rec[r].at = "store" =>
          /\ rec[r].changed
          /\ \E s \in Memories, v \in Versions :
                 /\ rec[r].read = {<<s, v>>} /\ rec[r].seen[s] # Absent
                 /\ v # Absent => rec[r].seen[s] <= v /\ Before(v, s)
    /\ rec[r].at \in {"load", "store"} => \A s \in rec[r].todo : rec[r].seen[s] # Absent
    /\ rec[r].at = "drop" => \A s \in rec[r].todo : rec[r].seen[s] = Absent
    /\ \A s \in Memories : rec[r].seen[s] # Absent => Before(rec[r].seen[s], s)

ReaderInv == \A r \in Recallers : Reader(r)

\* One recall sweeps at a time.
Lone == \A r, q \in Recallers : Sweeping(r) /\ Sweeping(q) => r = q

\* The cache has what is stored, ...
Good(s) == IF stored[s] = Absent THEN ~Cached(s)
           ELSE cache[s] = [sig |-> stored[s], mem |-> stored[s]]

\* ... and the postings find it.
Found(s) == Good(s) /\ (stored[s] # Absent => postings[s] = stored[s])

\* The memories that nobody has written since r looked at the directory
Calm(r) == {s \in Memories : dirSig \/ \E q \in Recallers : /\ s \in asked[q]
                                                            /\ q = r \/ rec[q].at = "query"}

\* The postings are those of the cache, unless a sweep is changing it.
Indexed == (\A r \in Recallers : Sweeping(r) => ~rec[r].changed) =>
               \A s \in Memories : Cached(s) => postings[s] = cache[s].mem

\* While the directory has the time that was kept, the cache has what is in it.
DirInv == dirSig /\ (\A r \in Recallers : Sweeping(r) => rec[r].at = "stat") =>
              \A s \in Memories : Good(s)

QueryInv == \A r \in Recallers : rec[r].at = "query" => \A s \in asked[r] : Found(s)

BuiltInv ==
    \A r \in Recallers : rec[r].at = "assign" =>
        \A s \in Memories : Cached(s) => rec[r].built[s] = cache[s].mem

\* How far a sweep is with s
Swept(r, s) ==
    /\ rec[r].at \in {"load", "store", "drop", "assign"} => rec[r].seen[s] = stored[s]
    /\ rec[r].at = "load" /\ stored[s] # Absent /\ s \notin rec[r].todo => Good(s)
    /\ rec[r].at = "store" =>
          \A z \in Memories, v \in Versions :
              rec[r].read = {<<z, v>>} =>
                  IF z = s THEN v = stored[s]
                  ELSE stored[s] # Absent /\ s \notin rec[r].todo => Good(s)
    /\ rec[r].at = "drop" /\ (stored[s] # Absent \/ s \notin rec[r].todo) => Good(s)
    /\ rec[r].at = "assign" => Good(s)

SweepInv == \A r \in Recallers : \A s \in Calm(r) : Swept(r, s)

DoneInv ==
    \A r \in Recallers : rec[r].at = "done" => \A s \in asked[r] : rec[r].found[s] = stored[s]

Undisturbed == Lone /\ Indexed /\ DirInv /\ QueryInv /\ BuiltInv /\ SweepInv /\ DoneInv

RecallInv == RecallTypes /\ WriterInv /\ EntryInv /\ ReaderInv /\ (~torn => Undisturbed)

LEMMA VersionsAre == Versions \subseteq Nat /\ Absent \in Versions /\ MaxWrites \in Nat
BY RecallConstants DEF RecallConstants, Versions, Absent

LEMMA RecallInitInv == RecallInit => RecallInv
<1> SUFFICES ASSUME RecallInit PROVE RecallInv
  OBVIOUS
<1> USE DEF RecallInit
<1>1. Nothing \in [Memories -> Versions] /\ \A s \in Memories : Nothing[s] = Absent
  BY VersionsAre DEF Nothing
<1>2. NoEntry \in Entries
  BY VersionsAre DEF NoEntry, Entries
<1>3. /\ NoRecall \in Recalls /\ NoRecall.at = "idle" /\ NoRecall.read = {}
      /\ NoRecall.seen = Nothing
  BY <1>1 DEF NoRecall, Recalls, RecallerPlaces
<1>4. \A r \in Recallers : rec[r] = NoRecall /\ asked[r] = {}
  OBVIOUS
<1>5. \A s \in Memories : ~Cached(s) /\ stored[s] = Absent
  BY <1>1 DEF Cached
<1>6. RecallTypes
  BY <1>1, <1>2, <1>3, VersionsAre DEF RecallTypes, Absent
<1>7. WriterInv
  BY <1>4 DEF WriterInv, WriterPlaces, NoWrite
<1>8. EntryInv
  BY <1>5, VersionsAre DEF EntryInv, Absent
<1>9. ReaderInv
  BY <1>1, <1>3, <1>4 DEF ReaderInv, Reader
<1>10. Undisturbed
  <2>1. \A r \in Recallers : rec[r].at = "idle" /\ ~Sweeping(r)
    BY <1>3, <1>4 DEF Sweeping
  <2>2. Lone /\ QueryInv /\ BuiltInv /\ DoneInv
    BY <2>1 DEF Lone, QueryInv, BuiltInv, DoneInv
  <2>3. Indexed /\ DirInv
    BY <1>5 DEF Indexed, DirInv, Good
  <2>4. SweepInv
    BY <2>1 DEF SweepInv, Swept
  <2> QED BY <2>2, <2>3, <2>4 DEF Undisturbed
<1> QED BY <1>6, <1>7, <1>8, <1>9, <1>10 DEF RecallInv

\* A write of s, by whatever step, concerns nobody who was asked for another.
LEMMA Disturbance ==
    ASSUME RecallInv, NEW s \in Memories, dirSig' = FALSE,
           UNCHANGED <<postings, rec, torn>>,
           \A z \in Memories \ {s} : stored'[z] = stored[z] /\ cache'[z] = cache[z],
           cache'[s] \in {cache[s], NoEntry},
           \A r \in Recallers : asked'[r] \subseteq asked[r] \ {s},
           \A r \in Recallers : asked[r] \subseteq Memories
    PROVE  ~torn' => Undisturbed'
<1> SUFFICES ASSUME ~torn PROVE Undisturbed'
  OBVIOUS
<1>1. Lone /\ Indexed /\ QueryInv /\ BuiltInv /\ SweepInv /\ DoneInv
  BY DEF RecallInv, Undisturbed
<1>2. \A r \in Recallers : rec'[r] = rec[r] /\ (Sweeping(r)' <=> Sweeping(r))
  BY DEF Sweeping
<1>3. ASSUME NEW z \in Memories, z # s
      PROVE  (Good(z)' <=> Good(z)) /\ (Found(z)' <=> Found(z)) /\ stored'[z] = stored[z]
  BY <1>3 DEF Good, Found, Cached
<1>4. \A z \in Memories : Cached(z)' => Cached(z) /\ cache'[z] = cache[z]
  BY DEF Cached
<1>5. Lone'
  BY <1>1, <1>2, Zenon DEF Lone
<1>6. Indexed'
  BY <1>1, <1>2, <1>4, Zenon DEF Indexed
<1>7. DirInv'
  BY DEF DirInv
<1>8. QueryInv'
  <2>1. ASSUME NEW r \in Recallers, rec'[r].at = "query", NEW z \in asked'[r] PROVE Found(z)'
    <3>1. z \in asked[r] /\ z \in Memories /\ z # s
      BY <2>1
    <3> QED BY <1>1, <1>2, <1>3, <2>1, <3>1 DEF QueryInv
  <2> QED BY <2>1 DEF QueryInv
<1>9. BuiltInv'
  BY <1>1, <1>2, <1>4, Zenon DEF BuiltInv
<1>10. SweepInv'
  <2>1. ASSUME NEW r \in Recallers, NEW z \in Calm(r)' PROVE Swept(r, z)'
    <3>1. z \in Memories /\ \E q \in Recallers : z \in asked'[q] /\ (q = r \/ rec'[q].at = "query")
      BY <2>1 DEF Calm
    <3>2. z # s /\ z \in Calm(r)
      BY <3>1, <1>2 DEF Calm
    <3>3. Swept(r, z)
      BY <3>2, <1>1 DEF SweepInv
    <3>4. (Good(z)' <=> Good(z)) /\ stored'[z] = stored[z] /\ rec'[r] = rec[r]
      BY <3>1, <3>2, <1>2, <1>3
    <3> QED BY <3>3, <3>4, Zenon DEF Swept
  <2> QED BY <2>1 DEF SweepInv
<1>11. DoneInv'
  <2>1. ASSUME NEW r \in Recallers, rec'[r].at = "done", NEW z \in asked'[r]
        PROVE  rec'[r].found[z] = stored'[z]
    <3>1. z \in asked[r] /\ z \in Memories /\ z # s
      BY <2>1
    <3> QED BY <1>1, <1>2, <1>3, <2>1, <3>1 DEF DoneInv
  <2> QED BY <2>1 DEF DoneInv
<1> QED BY <1>5, <1>6, <1>7, <1>8, <1>9, <1>10, <1>11 DEF Undisturbed

LEMMA RecallTypesAre ==
    ASSUME RecallInv
    PROVE  /\ stored \in [Memories -> Versions] /\ version \in Versions /\ dirSig \in BOOLEAN
           /\ cache \in [Memories -> Entries]
           /\ postings \in [Memories -> Versions]
           /\ rec \in [Recallers -> Recalls]
           /\ asked \in [Recallers -> SUBSET Memories] /\ torn \in BOOLEAN
           /\ \A r \in Recallers : asked[r] \subseteq Memories
BY DEF RecallInv, RecallTypes

\* A new version is later than all others.
LEMMA FileWritten ==
    ASSUME RecallInv, NEW s \in Memories, version < MaxWrites, NEW v \in Written(s),
           WriteFile(s, v), UNCHANGED <<cache, rec, postings, torn>>, dirSig' = FALSE
    PROVE  /\ RecallTypes' /\ EntryInv' /\ ReaderInv' /\ (~torn' => Undisturbed')
           /\ \A r \in Recallers : asked'[r] = asked[r] \ {s}
<1> USE VersionsAre
<1>1. /\ stored \in [Memories -> Versions] /\ version \in Versions
      /\ asked \in [Recallers -> SUBSET Memories]
      /\ \A r \in Recallers : asked[r] \subseteq Memories
  BY RecallTypesAre
<1>2. /\ stored' = [stored EXCEPT ![s] = v] /\ version' = version + 1
      /\ asked' = [r \in Recallers |-> asked[r] \ {s}]
  BY Zenon DEF WriteFile
<1>3. v = version + 1 \/ v = Absent
  BY DEF Written
<1>4. v \in Versions /\ version' \in Versions /\ v <= version' /\ version <= version'
  BY <1>1, <1>2, <1>3 DEF Versions, Absent
<1>5. stored'[s] = v /\ \A z \in Memories \ {s} : stored'[z] = stored[z]
  BY <1>1, <1>2
<1>6. RecallTypes'
  <2>1. stored' \in [Memories -> Versions] /\ asked' \in [Recallers -> SUBSET Memories]
    BY <1>1, <1>2, <1>4
  <2>2. dirSig' \in BOOLEAN
    OBVIOUS
  <2> QED BY <1>4, <2>1, <2>2, Zenon DEF RecallInv, RecallTypes
<1>7. ASSUME NEW z \in Memories, NEW k, Before(k, z) PROVE Before(k, z)'
  <2>1. k \in Versions \ {Absent} /\ k <= version /\ (stored[z] = Absent \/ k <= stored[z])
    BY <1>7 DEF Before
  <2>2. k <= version'
    BY <1>1, <1>4, <2>1
  <2>3. stored'[z] = Absent \/ k <= stored'[z]
    <3>1. CASE z = s
      BY <3>1, <1>1, <1>2, <1>3, <1>5, <2>1
    <3>2. CASE z # s
      BY <3>2, <1>5, <2>1
    <3> QED BY <3>1, <3>2
  <2> QED BY <2>1, <2>2, <2>3 DEF Before
<1>8. EntryInv'
  <2>1. ASSUME NEW z \in Memories PROVE stored'[z] <= version'
    <3>1. stored[z] <= version /\ stored[z] \in Versions
      BY <1>1 DEF RecallInv, EntryInv
    <3>2. CASE z = s
      BY <3>2, <1>4, <1>5
    <3>3. CASE z # s
      <4>1. stored'[z] = stored[z] /\ version \in Nat /\ version' \in Nat /\ stored[z] \in Nat
        BY <3>1, <3>3, <1>1, <1>4, <1>5
      <4> QED BY <4>1, <3>1, <1>4
    <3> QED BY <3>2, <3>3
  <2> QED BY <2>1, <1>7 DEF RecallInv, EntryInv, Cached
<1>9. ReaderInv'
  <2>1. ASSUME NEW r \in Recallers PROVE Reader(r)'
    <3>1. Reader(r) /\ rec' = rec
      BY DEF RecallInv, ReaderInv
    <3> HIDE DEF Before
    <3> QED BY <1>7, <3>1 DEF Reader
  <2> QED BY <2>1 DEF ReaderInv
<1>10. \A r \in Recallers : asked'[r] = asked[r] \ {s}
  BY <1>2
<1>11. ~torn' => Undisturbed'
  BY <1>1, <1>5, <1>10, Disturbance
<1> QED BY <1>6, <1>8, <1>9, <1>10, <1>11

LEMMA BeginWriteInv ==
    ASSUME RecallInv, NEW w \in Writers, NEW s \in Memories, BeginWrite(w, s) PROVE RecallInv'
<1>1. /\ version < MaxWrites /\ dirSig' = FALSE /\ UNCHANGED <<cache, postings, rec, torn>>
      /\ \E v \in Written(s) :
            /\ WriteFile(s, v)
            /\ writer' = [writer EXCEPT ![w] =
                   [does |-> IF v = Absent THEN "invalidate, then index" ELSE "index",
                    slug |-> s]]
  BY DEF BeginWrite
<1>2. PICK v \in Written(s) :
            /\ WriteFile(s, v)
            /\ writer' = [writer EXCEPT ![w] =
                   [does |-> IF v = Absent THEN "invalidate, then index" ELSE "index",
                    slug |-> s]]
  BY <1>1
<1>3. /\ RecallTypes' /\ EntryInv' /\ ReaderInv' /\ (~torn' => Undisturbed')
      /\ \A r \in Recallers : asked'[r] = asked[r] \ {s}
  BY <1>1, <1>2, FileWritten
<1>4. WriterInv'
  <2>1. WriterInv
    BY DEF RecallInv
  <2> DEFINE d == IF v = Absent THEN "invalidate, then index" ELSE "index"
  <2>2. d \in WriterPlaces \ {"rest"}
    BY DEF WriterPlaces
  <2>3. writer' = [writer EXCEPT ![w] = [does |-> d, slug |-> s]]
    BY <1>2
  <2> HIDE DEF d
  <2> QED BY <1>3, <2>1, <2>2, <2>3 DEF WriterInv
<1> QED BY <1>3, <1>4 DEF RecallInv

LEMMA ForeignWriteInv ==
    ASSUME RecallInv, NEW s \in Memories, ForeignWrite(s) PROVE RecallInv'
<1>1. /\ version < MaxWrites /\ dirSig' = FALSE /\ UNCHANGED <<cache, postings, rec, writer, torn>>
      /\ \E v \in Written(s) : WriteFile(s, v)
  BY DEF ForeignWrite
<1>2. /\ RecallTypes' /\ EntryInv' /\ ReaderInv' /\ (~torn' => Undisturbed')
      /\ \A r \in Recallers : asked'[r] = asked[r] \ {s}
  BY <1>1, FileWritten
<1>3. WriterInv'
  BY <1>1, <1>2 DEF RecallInv, WriterInv
<1> QED BY <1>2, <1>3 DEF RecallInv

\* The rest of a write: MEMORY.md and the invalidation
LEMMA WriteGoesOn ==
    ASSUME RecallInv, NEW w \in Writers, writer[w].does # "rest", dirSig' = FALSE,
           UNCHANGED <<stored, version, postings, rec, asked, torn>>,
           cache' = cache \/ cache' = [cache EXCEPT ![writer[w].slug] = NoEntry],
           writer' \in [Writers -> [does : WriterPlaces, slug : Memories \cup {"none"}]],
           \A x \in Writers \ {w} : writer'[x] = writer[x],
           \/ writer'[w] = NoWrite
           \/ writer'[w].does # "rest" /\ writer'[w].slug = writer[w].slug
    PROVE  RecallInv'
<1> DEFINE s == writer[w].slug
<1>1. /\ s \in Memories /\ \A r \in Recallers : s \notin asked[r]
  BY DEF RecallInv, WriterInv
<1>2. /\ cache \in [Memories -> Entries] /\ RecallTypes
      /\ \A r \in Recallers : asked[r] \subseteq Memories
  BY RecallTypesAre DEF RecallInv
<1>3. NoEntry \in Entries
  BY VersionsAre DEF NoEntry, Entries
<1> HIDE DEF s
<1>4. cache' = cache \/ cache' = [cache EXCEPT ![s] = NoEntry]
  BY DEF s
<1>5. /\ \A z \in Memories \ {s} : cache'[z] = cache[z]
      /\ cache'[s] \in {cache[s], NoEntry} /\ cache' \in [Memories -> Entries]
  BY <1>1, <1>2, <1>3, <1>4
<1>6. RecallTypes'
  BY <1>2, <1>5 DEF RecallTypes
<1>7. WriterInv'
  <2>1. \A r \in Recallers : \A z \in asked[r] : z \in Memories
    BY <1>2
  <2>2. writer'[w] = NoWrite \/ writer'[w].slug = s
    BY DEF s
  <2>3. WriterInv
    BY DEF RecallInv
  <2>4. ASSUME NEW x \in Writers
        PROVE  IF writer'[x].does = "rest" THEN writer'[x] = NoWrite
                                           ELSE writer'[x].slug \in Memories
    BY <1>1, <2>3, NoWrite.does = "rest" DEF WriterInv, NoWrite, s
  <2>5. ASSUME NEW r \in Recallers, NEW z \in asked[r], NEW x \in Writers,
               writer'[x].does # "rest"
        PROVE  writer'[x].slug # z
    <3>1. CASE x # w
      BY <3>1, <2>3, <2>5 DEF WriterInv
    <3>2. CASE x = w /\ writer'[w].slug = s
      BY <3>2, <1>1
    <3>3. CASE x = w /\ writer'[w] = NoWrite
      BY <3>3, <2>5 DEF NoWrite
    <3> QED BY <3>1, <3>2, <3>3, <2>2
  <2> QED BY <2>4, <2>5 DEF WriterInv
<1>8. EntryInv'
  BY <1>5 DEF RecallInv, EntryInv, Cached, Before
<1>9. ReaderInv'
  <2>1. ASSUME NEW r \in Recallers PROVE Reader(r)'
    <3>1. Reader(r) /\ rec' = rec
      BY DEF RecallInv, ReaderInv
    <3>2. \A z, k : Before(k, z) => Before(k, z)'
      BY DEF Before
    <3> HIDE DEF Before
    <3> QED BY <3>1, <3>2 DEF Reader
  <2> QED BY <2>1 DEF ReaderInv
<1>10. ~torn' => Undisturbed'
  <2>1. \A r \in Recallers : asked'[r] \subseteq asked[r] \ {s}
    BY <1>1
  <2>2. \A z \in Memories \ {s} : stored'[z] = stored[z] /\ cache'[z] = cache[z]
    BY <1>5
  <2> QED BY <1>1, <1>2, <1>5, <2>1, <2>2, Disturbance
<1> QED BY <1>6, <1>7, <1>8, <1>9, <1>10 DEF RecallInv

LEMMA IndexWrittenInv ==
    ASSUME RecallInv, NEW w \in Writers, IndexWritten(w) PROVE RecallInv'
<1>1. /\ writer[w].does \in {"index", "last index"} /\ dirSig' = FALSE
      /\ UNCHANGED <<stored, version, cache, postings, rec, asked, torn>>
      /\ writer' = [writer EXCEPT ![w] = IF @.does = "index" THEN [@ EXCEPT !.does = "invalidate"]
                                         ELSE NoWrite]
  BY DEF IndexWritten
<1>2. writer \in [Writers -> [does : WriterPlaces, slug : Memories \cup {"none"}]]
  BY DEF RecallInv, WriterInv
<1> DEFINE x == IF writer[w].does = "index" THEN [writer[w] EXCEPT !.does = "invalidate"] ELSE NoWrite
<1>3. writer' = [writer EXCEPT ![w] = x]
  BY <1>1, Zenon
<1>4. /\ x \in [does : WriterPlaces, slug : Memories \cup {"none"}]
      /\ x = NoWrite \/ (x.does # "rest" /\ x.slug = writer[w].slug)
  BY <1>2 DEF WriterPlaces, NoWrite
<1> HIDE DEF x
<1>5. /\ writer' \in [Writers -> [does : WriterPlaces, slug : Memories \cup {"none"}]]
      /\ writer'[w] = x /\ \A y \in Writers \ {w} : writer'[y] = writer[y]
  BY <1>2, <1>3, <1>4
<1> QED BY <1>1, <1>4, <1>5, WriteGoesOn

LEMMA InvalidateInv ==
    ASSUME RecallInv, NEW w \in Writers, Invalidate(w) PROVE RecallInv'
<1>1. /\ writer[w].does \in {"invalidate", "invalidate, then index"} /\ dirSig' = FALSE
      /\ UNCHANGED <<stored, version, postings, rec, asked, torn>>
      /\ cache' = [cache EXCEPT ![writer[w].slug] = NoEntry]
      /\ writer' = [writer EXCEPT ![w] = IF @.does = "invalidate" THEN NoWrite
                                         ELSE [@ EXCEPT !.does = "last index"]]
  BY DEF Invalidate, Invalidating
<1>2. writer \in [Writers -> [does : WriterPlaces, slug : Memories \cup {"none"}]]
  BY DEF RecallInv, WriterInv
<1> DEFINE x == IF writer[w].does = "invalidate" THEN NoWrite
                ELSE [writer[w] EXCEPT !.does = "last index"]
<1>3. writer' = [writer EXCEPT ![w] = x]
  BY <1>1, Zenon
<1>4. /\ x \in [does : WriterPlaces, slug : Memories \cup {"none"}]
      /\ x = NoWrite \/ (x.does # "rest" /\ x.slug = writer[w].slug)
  BY <1>2 DEF WriterPlaces, NoWrite
<1> HIDE DEF x
<1>5. /\ writer' \in [Writers -> [does : WriterPlaces, slug : Memories \cup {"none"}]]
      /\ writer'[w] = x /\ \A y \in Writers \ {w} : writer'[y] = writer[y]
  BY <1>2, <1>3, <1>4
<1> QED BY <1>1, <1>4, <1>5, WriteGoesOn

\* A step of recall r, and of no other
OnlyRecall(r) == /\ rec' \in [Recallers -> Recalls]
                 /\ \A q \in Recallers \ {r} : rec'[q] = rec[q]

LEMMA RecallChanges ==
    ASSUME RecallInv, NEW r \in Recallers, NEW x \in Recalls, rec' = [rec EXCEPT ![r] = x]
    PROVE  OnlyRecall(r) /\ rec'[r] = x
BY RecallTypesAre DEF OnlyRecall

LEMMA RecallGoes ==
    ASSUME RecallInv, NEW r \in Recallers, NEW a \in RecallerPlaces, Goes(r, a)
    PROVE  /\ OnlyRecall(r) /\ rec'[r].at = a
           /\ rec'[r].seen = rec[r].seen /\ rec'[r].todo = rec[r].todo
           /\ rec'[r].read = rec[r].read /\ rec'[r].changed = rec[r].changed
           /\ rec'[r].built = rec[r].built /\ rec'[r].found = rec[r].found
<1> DEFINE x == [rec[r] EXCEPT !.at = a]
<1>1. rec[r] \in Recalls
  BY RecallTypesAre
<1>2. x \in Recalls
  BY <1>1 DEF Recalls
<1>3. rec' = [rec EXCEPT ![r] = x]
  BY DEF Goes
<1>4. /\ x.at = a /\ x.seen = rec[r].seen /\ x.todo = rec[r].todo /\ x.read = rec[r].read
      /\ x.changed = rec[r].changed /\ x.built = rec[r].built /\ x.found = rec[r].found
  BY <1>1 DEF Recalls
<1> HIDE DEF x
<1>5. OnlyRecall(r) /\ rec'[r] = x
  BY <1>2, <1>3, RecallChanges
<1> QED BY <1>4, <1>5

\* What the others know is untouched by what r does.
LEMMA ReaderStep ==
    ASSUME RecallInv, NEW r \in Recallers, OnlyRecall(r), UNCHANGED <<stored, version>>, Reader(r)'
    PROVE  ReaderInv'
<1>1. ASSUME NEW q \in Recallers \ {r} PROVE Reader(q)'
  <2>1. Reader(q) /\ rec'[q] = rec[q]
    BY DEF RecallInv, ReaderInv, OnlyRecall
  <2>2. \A z, k : Before(k, z) => Before(k, z)'
    BY DEF Before
  <2> HIDE DEF Before
  <2> QED BY <2>1, <2>2 DEF Reader
<1> QED BY <1>1 DEF ReaderInv

\* While r sweeps, nobody else does.
LEMMA SweeperStep ==
    ASSUME RecallInv, NEW r \in Recallers, Sweeping(r), OnlyRecall(r), ~torn,
           UNCHANGED <<stored, asked>>, rec'[r].at # "done",
           (Sweeping(r)' => ~rec'[r].changed)
               => \A s \in Memories : Cached(s)' => postings'[s] = cache'[s].mem,
           dirSig' /\ (Sweeping(r)' => rec'[r].at = "stat") => \A s \in Memories : Good(s)',
           \A q \in Recallers \ {r} : rec[q].at = "query" => \A s \in asked[q] : Found(s)',
           rec'[r].at = "query" => \A s \in asked[r] : Found(s)',
           rec'[r].at = "assign" => \A s \in Memories : Cached(s)' => rec'[r].built[s] = cache'[s].mem,
           \A s \in Calm(r)' : Swept(r, s)'
    PROVE  Undisturbed'
<1>1. \A q \in Recallers \ {r} : rec'[q] = rec[q]
  BY DEF OnlyRecall
<1>2. Lone /\ DoneInv
  BY DEF RecallInv, Undisturbed
<1>3. \A q \in Recallers \ {r} : ~Sweeping(q) /\ ~Sweeping(q)'
  <2>1. \A q \in Recallers \ {r} : ~Sweeping(q)
    BY <1>2 DEF Lone
  <2> QED BY <2>1, <1>1 DEF Sweeping
<1>4. Lone'
  BY <1>3 DEF Lone
<1>5. Indexed' /\ DirInv'
  BY <1>3, Zenon DEF Indexed, DirInv
<1>6. QueryInv'
  BY <1>1 DEF QueryInv
<1>7. BuiltInv'
  <2>1. \A q \in Recallers \ {r} : rec'[q].at # "assign"
    BY <1>3 DEF Sweeping
  <2> QED BY <2>1 DEF BuiltInv
<1>8. SweepInv'
  <2>1. \A q \in Recallers \ {r} : rec'[q].at \notin {"load", "store", "drop", "assign"}
    BY <1>3 DEF Sweeping
  <2>2. \A q \in Recallers \ {r} : \A s : Swept(q, s)'
    BY <2>1 DEF Swept
  <2> QED BY <2>2 DEF SweepInv
<1>9. DoneInv'
  BY <1>1, <1>2 DEF DoneInv
<1> QED BY <1>4, <1>5, <1>6, <1>7, <1>8, <1>9 DEF Undisturbed

\* What a sweep relies on
LEMMA SweeperKnows ==
    ASSUME RecallInv, NEW r \in Recallers, Sweeping(r), ~torn
    PROVE  /\ ~rec[r].changed => \A s \in Memories : Cached(s) => postings[s] = cache[s].mem
           /\ \A q \in Recallers : rec[q].at = "query" =>
                  q # r /\ \A s \in asked[q] : s \in Calm(r) /\ Found(s)
           /\ \A s \in asked[r] : s \in Calm(r)
           /\ dirSig => Calm(r) = Memories
           /\ Calm(r) \subseteq Memories
           /\ \A s \in Calm(r) : Swept(r, s)
<1>1. Lone /\ Indexed /\ QueryInv /\ SweepInv
  BY DEF RecallInv, Undisturbed
<1>2. \A q \in Recallers : asked[q] \subseteq Memories
  BY RecallTypesAre
<1>3. ~rec[r].changed => \A s \in Memories : Cached(s) => postings[s] = cache[s].mem
  <2>1. ~rec[r].changed => \A q \in Recallers : Sweeping(q) => ~rec[q].changed
    BY <1>1 DEF Lone
  <2> QED BY <1>1, <2>1, Zenon DEF Indexed
<1>4. \A q \in Recallers : rec[q].at = "query" => q # r
  BY DEF Sweeping
<1>5. \A q \in Recallers : rec[q].at = "query" => \A s \in asked[q] : s \in Calm(r) /\ Found(s)
  BY <1>1, <1>2 DEF QueryInv, Calm
<1>6. \A s \in asked[r] : s \in Calm(r)
  BY <1>2 DEF Calm
<1>7. (dirSig => Calm(r) = Memories) /\ Calm(r) \subseteq Memories
  BY DEF Calm
<1>8. \A s \in Calm(r) : Swept(r, s)
  BY <1>1 DEF SweepInv
<1> QED BY <1>3, <1>4, <1>5, <1>6, <1>7, <1>8

\* Who goes from one place of a sweep to another is given the same peace.
LEMMA CalmStays ==
    ASSUME RecallInv, NEW r \in Recallers, Sweeping(r), OnlyRecall(r), UNCHANGED <<asked, dirSig>>
    PROVE  Calm(r)' = Calm(r)
<1>1. /\ \A q \in Recallers \ {r} : rec'[q] = rec[q]
      /\ rec[r].at # "query"
  BY DEF OnlyRecall, Sweeping
<1>2. ASSUME NEW s \in Memories
      PROVE  (\E q \in Recallers : s \in asked[q] /\ (q = r \/ rec'[q].at = "query"))
                 <=> \E q \in Recallers : s \in asked[q] /\ (q = r \/ rec[q].at = "query")
  BY <1>1
<1> QED BY <1>2 DEF Calm

\* Every step of a recall but its begin
Recalling(r) == /\ r \in Recallers /\ OnlyRecall(r)
                /\ UNCHANGED <<stored, version, writer, asked>>
                /\ dirSig' \in BOOLEAN /\ torn' \in BOOLEAN /\ (torn => torn')

LEMMA RecallStepInv ==
    ASSUME RecallInv, NEW r, Recalling(r), cache' \in [Memories -> Entries],
           postings' \in [Memories -> Versions],
           UNCHANGED cache \/ EntryInv', Reader(r)', ~torn' => Undisturbed'
    PROVE  RecallInv'
<1>1. RecallTypes'
  BY Zenon DEF RecallInv, RecallTypes, Recalling, OnlyRecall
<1>2. WriterInv'
  BY Zenon DEF RecallInv, WriterInv, Recalling
<1>3. EntryInv'
  <2>1. CASE UNCHANGED cache
    <3>1. UNCHANGED <<stored, version>>
      BY DEF Recalling
    <3> QED BY <2>1, <3>1 DEF RecallInv, EntryInv, Cached, Before
  <2> QED BY <2>1
<1>4. ReaderInv'
  BY ReaderStep DEF Recalling
<1> QED BY <1>1, <1>2, <1>3, <1>4 DEF RecallInv

LEMMA ReaderIs ==
    ASSUME RecallInv, NEW r \in Recallers
    PROVE  /\ Reader(r) /\ rec[r] \in Recalls
           /\ rec[r].todo \subseteq Memories /\ rec[r].seen \in [Memories -> Versions]
           /\ rec[r].changed \in BOOLEAN
           /\ cache \in [Memories -> Entries] /\ postings \in [Memories -> Versions]
           /\ dirSig \in BOOLEAN /\ torn \in BOOLEAN
<1>1. rec[r] \in Recalls
  BY RecallTypesAre
<1> QED BY <1>1, RecallTypesAre DEF Recalls, RecallInv, ReaderInv

\* What is good stays good where nothing of it changes.
LEMMA StaysGood ==
    ASSUME NEW s, stored'[s] = stored[s], cache'[s] = cache[s]
    PROVE  /\ Good(s)' <=> Good(s)
           /\ postings'[s] = postings[s] => (Found(s)' <=> Found(s))
BY DEF Good, Found, Cached

LEMMA StatInv == ASSUME RecallInv, NEW r \in Recallers, Stat(r) PROVE RecallInv'
<1>1. /\ rec[r].at = "stat" /\ dirSig' = TRUE /\ Goes(r, "scan")
      /\ torn' = (torn \/ OthersSweep(r))
      /\ UNCHANGED <<stored, version, cache, postings, writer, asked>>
  BY DEF Stat
<1>2. /\ OnlyRecall(r) /\ rec'[r].at = "scan"
      /\ rec'[r].seen = rec[r].seen /\ rec'[r].todo = rec[r].todo
      /\ rec'[r].read = rec[r].read /\ rec'[r].changed = rec[r].changed
  BY <1>1, RecallGoes DEF RecallerPlaces
<1>3. Reader(r) /\ cache \in [Memories -> Entries] /\ postings \in [Memories -> Versions]
  BY ReaderIs
<1>4. Reader(r)'
  <2>1. \A z, k : Before(k, z) => Before(k, z)'
    BY <1>1 DEF Before
  <2> HIDE DEF Before
  <2> QED BY <1>1, <1>2, <1>3, <2>1 DEF Reader
<1>5. Recalling(r)
  BY <1>1, <1>2, Zenon DEF Recalling
<1>6. ASSUME ~torn' PROVE Undisturbed'
  <2>1. ~torn /\ Sweeping(r) /\ Sweeping(r)' /\ (rec[r].at = "stat" => ~rec[r].changed)
    BY <1>1, <1>2, <1>3, <1>6 DEF Sweeping, Reader
  <2>2. /\ ~rec[r].changed => \A s \in Memories : Cached(s) => postings[s] = cache[s].mem
        /\ \A q \in Recallers : rec[q].at = "query" => q # r /\ \A s \in asked[q] : Found(s)
    BY <2>1, SweeperKnows
  <2>3. \A s : (Cached(s)' <=> Cached(s)) /\ (Found(s)' <=> Found(s))
    BY <1>1 DEF Cached, Found, Good
  <2>4. \A s : Swept(r, s)'
    BY <1>2 DEF Swept
  <2> QED BY <1>1, <1>2, <2>1, <2>2, <2>3, <2>4, SweeperStep
<1> QED BY <1>1, <1>3, <1>4, <1>5, <1>6, RecallStepInv

LEMMA ScanInv == ASSUME RecallInv, NEW r \in Recallers, Scan(r) PROVE RecallInv'
<1> DEFINE x == [rec[r] EXCEPT !.at = "load", !.seen = stored,
                               !.todo = {s \in Memories : stored[s] # Absent}]
<1>1. /\ rec[r].at = "scan" /\ rec' = [rec EXCEPT ![r] = x]
      /\ UNCHANGED <<stored, version, dirSig, cache, postings, writer, asked, torn>>
  BY DEF Scan
<1>2. /\ Reader(r) /\ cache \in [Memories -> Entries] /\ postings \in [Memories -> Versions]
      /\ rec[r] \in Recalls /\ dirSig \in BOOLEAN /\ torn \in BOOLEAN
  BY ReaderIs
<1>3. stored \in [Memories -> Versions] /\ version \in Versions
  BY RecallTypesAre
<1>4. /\ x \in Recalls /\ x.at = "load" /\ x.seen = stored /\ x.read = rec[r].read
      /\ x.todo = {s \in Memories : stored[s] # Absent} /\ x.changed = rec[r].changed
  BY <1>2, <1>3 DEF Recalls, RecallerPlaces
<1> HIDE DEF x
<1>5. OnlyRecall(r) /\ rec'[r] = x
  BY <1>1, <1>4, RecallChanges
<1>6. Recalling(r)
  BY <1>1, <1>2, <1>5, Zenon DEF Recalling
<1>7. Reader(r)'
  <2>1. \A s \in Memories : \A k : k = stored[s] /\ k # Absent => Before(k, s)'
    <3>1. \A s \in Memories : stored[s] \in Versions /\ stored[s] <= version
      BY <1>3 DEF RecallInv, EntryInv
    <3>2. \A s \in Memories : stored[s] <= stored[s]
      <4>1. \A n \in Nat : n <= n
        OBVIOUS
      <4> QED BY <3>1, <4>1, VersionsAre, Zenon
    <3>3. stored' = stored /\ version' = version
      BY <1>1
    <3> QED BY <3>1, <3>2, <3>3 DEF Before
  <2>2. rec[r].read = {}
    BY <1>1, <1>2 DEF Reader
  <2>3. /\ rec'[r].at = "load" /\ rec'[r].read = {} /\ rec'[r].seen = stored
        /\ \A s \in rec'[r].todo : rec'[r].seen[s] # Absent
    BY <1>4, <1>5, <2>2
  <2> HIDE DEF Before
  <2>4. \A s \in Memories : rec'[r].seen[s] # Absent => Before(rec[r].seen[s], s)'
    BY <2>1, <2>3
  <2> QED BY <2>3, <2>4 DEF Reader
<1>8. ASSUME ~torn' PROVE Undisturbed'
  <2>1. ~torn /\ Sweeping(r) /\ Sweeping(r)' /\ rec'[r].at = "load" /\ ~rec[r].changed
        /\ ~rec'[r].changed
    BY <1>1, <1>2, <1>4, <1>5, <1>8 DEF Sweeping, Reader
  <2>2. /\ \A s \in Memories : Cached(s) => postings[s] = cache[s].mem
        /\ \A q \in Recallers : rec[q].at = "query" => \A s \in asked[q] : Found(s)
    BY <2>1, SweeperKnows
  <2>3. \A s : (Cached(s)' <=> Cached(s)) /\ (Found(s)' <=> Found(s))
    BY <1>1 DEF Cached, Found, Good
  <2>4. ASSUME NEW s \in Calm(r)' PROVE Swept(r, s)'
    <3>1. s \in Memories
      BY DEF Calm
    <3> QED BY <1>1, <1>4, <1>5, <3>1 DEF Swept
  <2> QED BY <1>1, <1>5, <2>1, <2>2, <2>3, <2>4, SweeperStep
<1> QED BY <1>1, <1>2, <1>6, <1>7, <1>8, RecallStepInv

LEMMA KeepInv ==
    ASSUME RecallInv, NEW r \in Recallers, NEW s \in Memories, Keep(r, s) PROVE RecallInv'
<1> DEFINE x == [rec[r] EXCEPT !.todo = @ \ {s}]
<1>1. /\ rec[r].at = "load" /\ s \in rec[r].todo /\ rec' = [rec EXCEPT ![r] = x]
      /\ Cached(s) /\ cache[s].sig = rec[r].seen[s]
      /\ UNCHANGED <<stored, version, dirSig, cache, postings, writer, asked, torn>>
  BY DEF Keep
<1>2. /\ Reader(r) /\ cache \in [Memories -> Entries] /\ postings \in [Memories -> Versions]
      /\ rec[r] \in Recalls /\ dirSig \in BOOLEAN /\ torn \in BOOLEAN
      /\ stored \in [Memories -> Versions]
  BY ReaderIs, RecallTypesAre
<1>3. /\ x \in Recalls /\ x.at = "load" /\ x.seen = rec[r].seen /\ x.read = rec[r].read
      /\ x.todo = rec[r].todo \ {s} /\ x.changed = rec[r].changed
  BY <1>1, <1>2 DEF Recalls, RecallerPlaces
<1> HIDE DEF x
<1>4. OnlyRecall(r) /\ rec'[r] = x
  BY <1>1, <1>3, RecallChanges
<1>5. Recalling(r)
  BY <1>1, <1>2, <1>4, Zenon DEF Recalling
<1>6. Reader(r)'
  <2>1. \A z, k : Before(k, z) => Before(k, z)'
    BY <1>1 DEF Before
  <2> HIDE DEF Before
  <2> QED BY <1>1, <1>2, <1>3, <1>4, <2>1 DEF Reader
<1>7. ASSUME ~torn' PROVE Undisturbed'
  <2>1. ~torn /\ Sweeping(r) /\ Sweeping(r)' /\ rec'[r].at = "load"
    BY <1>1, <1>3, <1>4, <1>7 DEF Sweeping
  <2>2. /\ ~rec[r].changed => \A z \in Memories : Cached(z) => postings[z] = cache[z].mem
        /\ \A q \in Recallers : rec[q].at = "query" => \A z \in asked[q] : Found(z)
        /\ \A z \in Calm(r) : Swept(r, z)
        /\ Calm(r) \subseteq Memories
    BY <2>1, SweeperKnows
  <2>3. \A z : (Cached(z)' <=> Cached(z)) /\ (Found(z)' <=> Found(z)) /\ (Good(z)' <=> Good(z))
    BY <1>1 DEF Cached, Found, Good
  <2>4. Calm(r)' = Calm(r)
    BY <1>1, <1>4, <2>1, CalmStays
  <2>5. ASSUME NEW z \in Calm(r) PROVE Swept(r, z)'
    <3>1. Swept(r, z) /\ z \in Memories /\ rec[r].seen[z] = stored[z]
      BY <1>1, <2>2 DEF Swept
    <3>2. stored[z] # Absent /\ z \notin rec[r].todo \ {s} => Good(z)
      <4>1. CASE z = s
        <5>1. rec[r].seen[s] # Absent /\ cache[s].sig = stored[s] /\ stored[s] # Absent
          BY <1>1, <1>2, <3>1, <4>1 DEF Reader
        <5>2. cache[s].sig <= cache[s].mem /\ cache[s].mem <= stored[s]
          BY <1>1, <5>1 DEF RecallInv, EntryInv, Before
        <5>3. cache[s] \in Entries /\ stored[s] \in Nat
          BY <1>2, VersionsAre
        <5>4. cache[s].mem = stored[s]
          <6>1. cache[s].mem \in Nat
            BY <5>3, VersionsAre DEF Entries
          <6>2. \A a, b \in Nat : a <= b /\ b <= a => a = b
            OBVIOUS
          <6> QED BY <5>1, <5>2, <5>3, <6>1, <6>2, Zenon
        <5> QED BY <4>1, <5>1, <5>3, <5>4 DEF Good, Entries
      <4>2. CASE z # s
        BY <1>1, <3>1, <4>2 DEF Swept
      <4> QED BY <4>1, <4>2
    <3> QED BY <1>1, <1>3, <1>4, <2>3, <3>1, <3>2 DEF Swept
  <2> QED BY <1>1, <1>3, <1>4, <2>1, <2>2, <2>3, <2>4, <2>5, SweeperStep
<1> QED BY <1>1, <1>2, <1>5, <1>6, <1>7, RecallStepInv

LEMMA ReadFileInv ==
    ASSUME RecallInv, NEW r \in Recallers, NEW s \in Memories, Read(r, s) PROVE RecallInv'
<1> DEFINE x == [rec[r] EXCEPT !.at = "store", !.changed = TRUE, !.todo = @ \ {s},
                               !.read = {<<s, stored[s]>>}]
<1>1. /\ rec[r].at = "load" /\ s \in rec[r].todo /\ rec' = [rec EXCEPT ![r] = x]
      /\ UNCHANGED <<stored, version, dirSig, cache, postings, writer, asked, torn>>
  BY DEF Read
<1>2. /\ Reader(r) /\ cache \in [Memories -> Entries] /\ postings \in [Memories -> Versions]
      /\ rec[r] \in Recalls /\ dirSig \in BOOLEAN /\ torn \in BOOLEAN
      /\ stored \in [Memories -> Versions] /\ version \in Versions
  BY ReaderIs, RecallTypesAre
<1>3. /\ x \in Recalls /\ x.at = "store" /\ x.seen = rec[r].seen /\ x.read = {<<s, stored[s]>>}
      /\ x.todo = rec[r].todo \ {s} /\ x.changed = TRUE
  <2>1. {<<s, stored[s]>>} \in SUBSET (Memories \X Versions)
    BY <1>2
  <2> QED BY <1>1, <1>2, <2>1 DEF Recalls, RecallerPlaces
<1> HIDE DEF x
<1>4. OnlyRecall(r) /\ rec'[r] = x
  BY <1>1, <1>3, RecallChanges
<1>5. Recalling(r)
  BY <1>1, <1>2, <1>4, Zenon DEF Recalling
<1>6. Reader(r)'
  <2>1. \A z, k : Before(k, z) => Before(k, z)'
    BY <1>1 DEF Before
  <2>2. rec[r].seen[s] # Absent /\ Before(rec[r].seen[s], s) /\ stored[s] \in Versions
    BY <1>1, <1>2 DEF Reader
  <2>3. stored[s] # Absent => rec[r].seen[s] <= stored[s] /\ Before(stored[s], s)
    <3>1. stored[s] <= version /\ stored[s] \in Nat
      BY <2>2, VersionsAre DEF RecallInv, EntryInv
    <3>2. rec[r].seen[s] <= stored[s] \/ stored[s] = Absent
      BY <2>2 DEF Before
    <3>3. stored[s] <= stored[s]
      BY <3>1
    <3> QED BY <2>2, <3>1, <3>2, <3>3 DEF Before
  <2> HIDE DEF Before
  <2> QED BY <1>1, <1>2, <1>3, <1>4, <2>1, <2>2, <2>3 DEF Reader
<1>7. ASSUME ~torn' PROVE Undisturbed'
  <2>1. ~torn /\ Sweeping(r) /\ Sweeping(r)' /\ rec'[r].at = "store" /\ rec'[r].changed
    BY <1>1, <1>3, <1>4, <1>7 DEF Sweeping
  <2>2. /\ \A q \in Recallers : rec[q].at = "query" => \A z \in asked[q] : Found(z)
        /\ \A z \in Calm(r) : Swept(r, z)
        /\ Calm(r) \subseteq Memories
    BY <2>1, SweeperKnows
  <2>3. \A z : (Found(z)' <=> Found(z)) /\ (Good(z)' <=> Good(z))
    BY <1>1 DEF Cached, Found, Good
  <2>4. Calm(r)' = Calm(r)
    BY <1>1, <1>4, <2>1, CalmStays
  <2>5. ASSUME NEW z \in Calm(r) PROVE Swept(r, z)'
    <3>1. Swept(r, z) /\ z \in Memories
      BY <2>2
    <3>2. \A y \in Memories, v \in Versions : x.read = {<<y, v>>} => y = s /\ v = stored[s]
      <4>1. \A y, v : <<y, v>> \in x.read => y = s /\ v = stored[s]
        BY <1>3
      <4>2. \A y, v : x.read = {<<y, v>>} => <<y, v>> \in x.read
        OBVIOUS
      <4> QED BY <4>1, <4>2, Zenon
    <3> QED BY <1>1, <1>3, <1>4, <2>3, <3>1, <3>2 DEF Swept
  <2> QED BY <1>1, <1>4, <2>1, <2>2, <2>3, <2>4, <2>5, SweeperStep
<1> QED BY <1>1, <1>2, <1>5, <1>6, <1>7, RecallStepInv

LEMMA StoreInv == ASSUME RecallInv, NEW r \in Recallers, Store(r) PROVE RecallInv'
<1> DEFINE x == [rec[r] EXCEPT !.at = "load", !.read = {}]
<1>1. /\ rec[r].at = "store" /\ rec' = [rec EXCEPT ![r] = x]
      /\ \E read \in rec[r].read :
           cache' = [cache EXCEPT ![read[1]] =
                        IF read[2] = Absent THEN NoEntry
                        ELSE [sig |-> rec[r].seen[read[1]], mem |-> read[2]]]
      /\ UNCHANGED <<stored, version, dirSig, postings, writer, asked, torn>>
  BY DEF Store
<1>2. /\ Reader(r) /\ cache \in [Memories -> Entries] /\ postings \in [Memories -> Versions]
      /\ rec[r] \in Recalls /\ dirSig \in BOOLEAN /\ torn \in BOOLEAN
      /\ rec[r].seen \in [Memories -> Versions]
  BY ReaderIs
<1>3. PICK s \in Memories, v \in Versions :
          /\ rec[r].read = {<<s, v>>} /\ rec[r].seen[s] # Absent
          /\ v # Absent => rec[r].seen[s] <= v /\ Before(v, s)
  BY <1>1, <1>2 DEF Reader
<1> DEFINE new == IF v = Absent THEN NoEntry ELSE [sig |-> rec[r].seen[s], mem |-> v]
<1>4. cache' = [cache EXCEPT ![s] = new]
  <2>1. PICK y \in rec[r].read :
           cache' = [cache EXCEPT ![y[1]] =
                        IF y[2] = Absent THEN NoEntry
                        ELSE [sig |-> rec[r].seen[y[1]], mem |-> y[2]]]
    BY <1>1
  <2>2. y = <<s, v>>
    BY <1>3
  <2>3. y[1] = s /\ y[2] = v
    BY <2>2
  <2> QED BY <2>1, <2>3
<1>5. new \in Entries
  BY <1>2, VersionsAre DEF Entries, NoEntry
<1>6. /\ x \in Recalls /\ x.at = "load" /\ x.seen = rec[r].seen /\ x.read = {}
      /\ x.todo = rec[r].todo /\ x.changed = rec[r].changed
  BY <1>1, <1>2 DEF Recalls, RecallerPlaces
<1> HIDE DEF x, new
<1>7. OnlyRecall(r) /\ rec'[r] = x
  BY <1>1, <1>6, RecallChanges
<1>8. Recalling(r)
  BY <1>1, <1>2, <1>7, Zenon DEF Recalling
<1>9. /\ cache' \in [Memories -> Entries] /\ cache'[s] = new
      /\ \A z \in Memories \ {s} : cache'[z] = cache[z]
  BY <1>2, <1>4, <1>5
<1>10. \A z, k : Before(k, z) => Before(k, z)'
  BY <1>1 DEF Before
<1>11. Reader(r)'
  <2>1. /\ \A z \in Memories : rec[r].seen[z] # Absent => Before(rec[r].seen[z], z)
        /\ rec[r].todo \subseteq Memories
    BY <1>2, ReaderIs DEF Reader
  <2>2. \A z \in rec[r].todo : rec[r].seen[z] # Absent
    BY <1>1, <1>2 DEF Reader
  <2> HIDE DEF Before
  <2> QED BY <1>6, <1>7, <1>10, <2>1, <2>2 DEF Reader
<1>12. EntryInv'
  <2>1. ASSUME NEW z \in Memories, Cached(z)'
        PROVE  /\ cache'[z].sig # Absent /\ cache'[z].sig <= cache'[z].mem
               /\ \A k : k = cache'[z].mem => Before(k, z)'
    <3>1. CASE z = s
      <4>1. v # Absent /\ new = [sig |-> rec[r].seen[s], mem |-> v]
        BY <2>1, <3>1, <1>9 DEF Cached, new
      <4> HIDE DEF Before
      <4> QED BY <3>1, <4>1, <1>3, <1>9, <1>10
    <3>2. CASE z # s
      <4>1. Cached(z) /\ cache'[z] = cache[z]
        BY <3>2, <2>1, <1>9 DEF Cached
      <4>2. /\ cache[z].sig # Absent /\ cache[z].sig <= cache[z].mem
            /\ Before(cache[z].mem, z)
        BY <4>1 DEF RecallInv, EntryInv
      <4> HIDE DEF Before
      <4> QED BY <4>1, <4>2, <1>10
    <3> QED BY <3>1, <3>2
  <2>2. \A z \in Memories : stored'[z] <= version'
    BY <1>1 DEF RecallInv, EntryInv
  <2> HIDE DEF Before
  <2> QED BY <2>1, <2>2 DEF EntryInv
<1>13. ASSUME ~torn' PROVE Undisturbed'
  <2>1. ~torn /\ Sweeping(r) /\ Sweeping(r)' /\ rec'[r].at = "load" /\ rec'[r].changed
    BY <1>1, <1>2, <1>6, <1>7, <1>13 DEF Sweeping, Reader
  <2>2. /\ \A q \in Recallers : rec[q].at = "query" =>
              q # r /\ \A z \in asked[q] : z \in Calm(r) /\ Found(z)
        /\ \A z \in Calm(r) : Swept(r, z)
        /\ Calm(r) \subseteq Memories
    BY <2>1, SweeperKnows
  <2>3. Calm(r)' = Calm(r)
    BY <1>1, <1>7, <2>1, CalmStays
  <2>4. ASSUME s \in Calm(r) PROVE Good(s)' /\ rec[r].seen[s] = stored[s]
    <3>1. v = stored[s] /\ rec[r].seen[s] = stored[s]
      BY <1>1, <1>3, <2>2, <2>4 DEF Swept
    <3> QED BY <1>1, <1>9, <3>1 DEF Good, Cached, new
  <2>5. ASSUME NEW z \in Calm(r) PROVE Swept(r, z)'
    <3>1. Swept(r, z) /\ z \in Memories /\ rec[r].seen[z] = stored[z]
      BY <1>1, <2>2 DEF Swept
    <3>2. stored[z] # Absent /\ z \notin rec[r].todo => Good(z)'
      <4>1. CASE z = s
        BY <4>1, <2>4, <2>5
      <4>2. CASE z # s
        <5>1. stored[z] # Absent /\ z \notin rec[r].todo => Good(z)
          BY <1>1, <1>3, <3>1, <4>2 DEF Swept
        <5>2. Good(z)' <=> Good(z)
          BY <1>1, <1>9, <3>1, <4>2, StaysGood
        <5> QED BY <5>1, <5>2
      <4> QED BY <4>1, <4>2
    <3> QED BY <1>1, <1>6, <1>7, <3>1, <3>2 DEF Swept
  <2>6. ASSUME NEW q \in Recallers, rec[q].at = "query", NEW z \in asked[q] PROVE Found(z)'
    <3>1. z \in Calm(r) /\ Found(z) /\ z \in Memories
      BY <2>2, <2>6
    <3>2. Good(z)'
      <4>1. CASE z = s
        BY <4>1, <2>4, <3>1
      <4>2. CASE z # s
        <5>1. Good(z)' <=> Good(z)
          BY <1>1, <1>9, <3>1, <4>2, StaysGood
        <5> QED BY <5>1, <3>1 DEF Found
      <4> QED BY <4>1, <4>2
    <3> QED BY <1>1, <3>1, <3>2 DEF Found
  <2> QED BY <1>1, <1>7, <2>1, <2>3, <2>5, <2>6, SweeperStep
<1> QED BY <1>1, <1>2, <1>8, <1>9, <1>11, <1>12, <1>13, RecallStepInv

LEMMA FindGoneInv == ASSUME RecallInv, NEW r \in Recallers, FindGone(r) PROVE RecallInv'
<1> DEFINE x == [rec[r] EXCEPT !.at = "drop", !.todo = {s \in Keys : rec[r].seen[s] = Absent}]
<1>1. /\ rec[r].at = "load" /\ rec[r].todo = {} /\ rec' = [rec EXCEPT ![r] = x]
      /\ UNCHANGED <<stored, version, dirSig, cache, postings, writer, asked, torn>>
  BY DEF FindGone
<1>2. /\ Reader(r) /\ cache \in [Memories -> Entries] /\ postings \in [Memories -> Versions]
      /\ rec[r] \in Recalls /\ dirSig \in BOOLEAN /\ torn \in BOOLEAN
  BY ReaderIs
<1>3. /\ x \in Recalls /\ x.at = "drop" /\ x.seen = rec[r].seen /\ x.read = rec[r].read
      /\ x.todo = {s \in Keys : rec[r].seen[s] = Absent} /\ x.changed = rec[r].changed
  <2>1. {s \in Keys : rec[r].seen[s] = Absent} \in SUBSET Memories
    BY DEF Keys
  <2> QED BY <1>1, <1>2, <2>1 DEF Recalls, RecallerPlaces
<1> HIDE DEF x
<1>4. OnlyRecall(r) /\ rec'[r] = x
  BY <1>1, <1>3, RecallChanges
<1>5. Recalling(r)
  BY <1>1, <1>2, <1>4, Zenon DEF Recalling
<1>6. Reader(r)'
  <2>1. \A z, k : Before(k, z) => Before(k, z)'
    BY <1>1 DEF Before
  <2> HIDE DEF Before
  <2> QED BY <1>1, <1>2, <1>3, <1>4, <2>1 DEF Reader
<1>7. ASSUME ~torn' PROVE Undisturbed'
  <2>1. ~torn /\ Sweeping(r) /\ Sweeping(r)' /\ rec'[r].at = "drop"
    BY <1>1, <1>3, <1>4, <1>7 DEF Sweeping
  <2>2. /\ ~rec[r].changed => \A z \in Memories : Cached(z) => postings[z] = cache[z].mem
        /\ \A q \in Recallers : rec[q].at = "query" => \A z \in asked[q] : Found(z)
        /\ \A z \in Calm(r) : Swept(r, z)
        /\ Calm(r) \subseteq Memories
    BY <2>1, SweeperKnows
  <2>3. \A z : (Cached(z)' <=> Cached(z)) /\ (Found(z)' <=> Found(z)) /\ (Good(z)' <=> Good(z))
    BY <1>1 DEF Cached, Found, Good
  <2>4. Calm(r)' = Calm(r)
    BY <1>1, <1>4, <2>1, CalmStays
  <2>5. ASSUME NEW z \in Calm(r) PROVE Swept(r, z)'
    <3>1. /\ z \in Memories /\ rec[r].seen[z] = stored[z]
          /\ stored[z] # Absent => Good(z)
      BY <1>1, <2>2 DEF Swept
    <3>2. stored[z] = Absent /\ z \notin x.todo => Good(z)
      BY <1>3, <3>1 DEF Keys, Good
    <3> QED BY <1>1, <1>3, <1>4, <2>3, <3>1, <3>2 DEF Swept
  <2> QED BY <1>1, <1>3, <1>4, <2>1, <2>2, <2>3, <2>4, <2>5, SweeperStep
<1> QED BY <1>1, <1>2, <1>5, <1>6, <1>7, RecallStepInv

LEMMA DropInv == ASSUME RecallInv, NEW r \in Recallers, Drop(r) PROVE RecallInv'
<1>1. /\ rec[r].at = "drop"
      /\ UNCHANGED <<stored, version, dirSig, postings, writer, asked>>
  BY DEF Drop
<1>2. /\ Reader(r) /\ cache \in [Memories -> Entries] /\ postings \in [Memories -> Versions]
      /\ rec[r] \in Recalls /\ dirSig \in BOOLEAN /\ torn \in BOOLEAN
      /\ rec[r].todo \subseteq Memories
  BY ReaderIs
<1>3. PICK s \in rec[r].todo :
        IF Cached(s)
        THEN /\ cache' = [cache EXCEPT ![s] = NoEntry]
             /\ rec' = [rec EXCEPT ![r].todo = @ \ {s}, ![r].changed = TRUE]
             /\ UNCHANGED torn
        ELSE Goes(r, "raised") /\ torn' = TRUE /\ UNCHANGED cache
  BY DEF Drop
<1>4. \A z, k : Before(k, z) => Before(k, z)'
  BY <1>1 DEF Before
<1>5. CASE ~Cached(s)
  <2>1. Goes(r, "raised") /\ torn' = TRUE /\ UNCHANGED cache
    BY <1>3, <1>5
  <2>2. /\ OnlyRecall(r) /\ rec'[r].at = "raised"
        /\ rec'[r].seen = rec[r].seen /\ rec'[r].read = rec[r].read
    BY <2>1, RecallGoes DEF RecallerPlaces
  <2>3. Recalling(r)
    BY <1>1, <1>2, <2>1, <2>2, Zenon DEF Recalling
  <2>4. Reader(r)'
    <3> HIDE DEF Before
    <3> QED BY <1>1, <1>2, <1>4, <2>2 DEF Reader
  <2> QED BY <1>1, <1>2, <2>1, <2>3, <2>4, RecallStepInv
<1>6. CASE Cached(s)
  <2> DEFINE x == [rec[r] EXCEPT !.todo = @ \ {s}, !.changed = TRUE]
  <2>1. cache' = [cache EXCEPT ![s] = NoEntry] /\ rec' = [rec EXCEPT ![r] = x] /\ UNCHANGED torn
    BY <1>3, <1>6
  <2>2. /\ x \in Recalls /\ x.at = "drop" /\ x.seen = rec[r].seen /\ x.read = rec[r].read
        /\ x.todo = rec[r].todo \ {s} /\ x.changed = TRUE
    BY <1>1, <1>2 DEF Recalls, RecallerPlaces
  <2> HIDE DEF x
  <2>3. OnlyRecall(r) /\ rec'[r] = x
    BY <2>1, <2>2, RecallChanges
  <2>4. Recalling(r)
    BY <1>1, <1>2, <2>1, <2>3, Zenon DEF Recalling
  <2>5. /\ cache' \in [Memories -> Entries] /\ cache'[s] = NoEntry
        /\ \A z \in Memories \ {s} : cache'[z] = cache[z]
    <3>1. NoEntry \in Entries
      BY VersionsAre DEF NoEntry, Entries
    <3> QED BY <1>2, <2>1, <3>1
  <2>6. Reader(r)'
    <3> HIDE DEF Before
    <3> QED BY <1>1, <1>2, <1>4, <2>2, <2>3 DEF Reader
  <2>7. EntryInv'
    <3>1. \A z \in Memories : Cached(z)' => Cached(z) /\ cache'[z] = cache[z]
      BY <2>5 DEF Cached
    <3> QED BY <1>1, <1>4, <3>1 DEF RecallInv, EntryInv
  <2>8. ASSUME ~torn' PROVE Undisturbed'
    <3>1. ~torn /\ Sweeping(r) /\ Sweeping(r)' /\ rec'[r].at = "drop" /\ rec'[r].changed
      BY <1>1, <2>1, <2>2, <2>3, <2>8 DEF Sweeping
    <3>2. /\ \A q \in Recallers : rec[q].at = "query" =>
                \A z \in asked[q] : z \in Calm(r) /\ Found(z)
          /\ \A z \in Calm(r) : Swept(r, z)
          /\ Calm(r) \subseteq Memories
      BY <3>1, SweeperKnows
    <3>3. Calm(r)' = Calm(r)
      BY <1>1, <2>1, <2>3, <3>1, CalmStays
    <3>4. ASSUME s \in Calm(r) PROVE Good(s)' /\ stored[s] = Absent
      <4>1. stored[s] = Absent
        BY <1>1, <1>2, <3>2, <3>4 DEF Swept, Reader
      <4> QED BY <4>1, <1>1, <2>5 DEF Good, Cached
    <3>5. ASSUME NEW z \in Memories, z # s
          PROVE  (Good(z)' <=> Good(z)) /\ (Found(z)' <=> Found(z))
      BY <3>5, <1>1, <2>5, StaysGood
    <3>6. ASSUME NEW z \in Calm(r) PROVE Swept(r, z)'
      <4>1. Swept(r, z) /\ z \in Memories
        BY <3>2
      <4>2. CASE z = s
        BY <4>1, <4>2, <1>1, <2>2, <2>3, <3>4, <3>6 DEF Swept
      <4>3. CASE z # s
        BY <4>1, <4>3, <1>1, <2>2, <2>3, <3>5 DEF Swept
      <4> QED BY <4>2, <4>3
    <3>7. ASSUME NEW q \in Recallers, rec[q].at = "query", NEW z \in asked[q] PROVE Found(z)'
      <4>1. z \in Calm(r) /\ Found(z) /\ z \in Memories
        BY <3>2, <3>7
      <4>2. CASE z = s
        BY <4>1, <4>2, <1>1, <3>4 DEF Found
      <4>3. CASE z # s
        BY <4>1, <4>3, <3>5
      <4> QED BY <4>2, <4>3
    <3> QED BY <1>1, <2>3, <3>1, <3>3, <3>6, <3>7, SweeperStep
  <2> QED BY <1>1, <1>2, <2>4, <2>5, <2>6, <2>7, <2>8, RecallStepInv
<1> QED BY <1>5, <1>6

LEMMA RebuildInv == ASSUME RecallInv, NEW r \in Recallers, Rebuild(r) PROVE RecallInv'
<1>1. /\ rec[r].at = "drop" /\ rec[r].todo = {}
      /\ UNCHANGED <<stored, version, dirSig, cache, postings, writer, asked, torn>>
  BY DEF Rebuild
<1>2. /\ Reader(r) /\ cache \in [Memories -> Entries] /\ postings \in [Memories -> Versions]
      /\ rec[r] \in Recalls /\ dirSig \in BOOLEAN /\ torn \in BOOLEAN
  BY ReaderIs
<1>3. \A z, k : Before(k, z) => Before(k, z)'
  BY <1>1 DEF Before
<1>4. \A z : (Cached(z)' <=> Cached(z)) /\ (Found(z)' <=> Found(z)) /\ (Good(z)' <=> Good(z))
  BY <1>1 DEF Cached, Found, Good
<1>5. ASSUME ~torn
      PROVE  /\ ~rec[r].changed => \A z \in Memories : Cached(z) => postings[z] = cache[z].mem
             /\ \A q \in Recallers : rec[q].at = "query" => \A z \in asked[q] : Found(z)
             /\ \A z \in asked[r] : z \in Calm(r)
             /\ dirSig => Calm(r) = Memories
             /\ Calm(r) \subseteq Memories
             /\ \A z \in Calm(r) : Good(z) /\ rec[r].seen[z] = stored[z]
  <2>1. Sweeping(r)
    BY <1>1 DEF Sweeping
  <2>2. \A z \in Calm(r) : Swept(r, z)
    BY <1>5, <2>1, SweeperKnows
  <2>3. \A z \in Calm(r) : Good(z) /\ rec[r].seen[z] = stored[z]
    BY <1>1, <2>2 DEF Swept
  <2> QED BY <1>5, <2>1, <2>3, SweeperKnows
<1>6. CASE MustRebuild(r)
  <2> DEFINE x == [rec[r] EXCEPT !.at = "assign", !.todo = Keys,
                                 !.built = [s \in Memories |-> cache[s].mem]]
  <2>1. rec' = [rec EXCEPT ![r] = x]
    BY <1>6 DEF Rebuild
  <2>2. /\ x \in Recalls /\ x.at = "assign" /\ x.seen = rec[r].seen /\ x.read = rec[r].read
        /\ x.changed = rec[r].changed /\ \A z \in Memories : x.built[z] = cache[z].mem
    <3>1. [s \in Memories |-> cache[s].mem] \in [Memories -> Versions] /\ Keys \in SUBSET Memories
      BY <1>2 DEF Entries, Keys
    <3> QED BY <1>2, <3>1 DEF Recalls, RecallerPlaces
  <2> HIDE DEF x
  <2>3. OnlyRecall(r) /\ rec'[r] = x
    BY <2>1, <2>2, RecallChanges
  <2>4. Recalling(r)
    BY <1>1, <1>2, <2>3, Zenon DEF Recalling
  <2>5. Reader(r)'
    <3> HIDE DEF Before
    <3> QED BY <1>1, <1>2, <1>3, <2>2, <2>3 DEF Reader
  <2>6. ASSUME ~torn' PROVE Undisturbed'
    <3>1. ~torn /\ Sweeping(r) /\ Sweeping(r)' /\ rec'[r].at = "assign"
      BY <1>1, <2>2, <2>3, <2>6 DEF Sweeping
    <3>2. Calm(r)' = Calm(r)
      BY <1>1, <2>3, <3>1, CalmStays
    <3>3. ASSUME NEW z \in Calm(r) PROVE Swept(r, z)'
      BY <1>1, <1>4, <1>5, <2>2, <2>3, <3>1 DEF Swept
    <3>4. \A z \in Memories : Cached(z)' => rec'[r].built[z] = cache'[z].mem
      BY <1>1, <2>2, <2>3
    <3> QED BY <1>1, <1>4, <1>5, <2>2, <2>3, <3>1, <3>2, <3>3, <3>4, SweeperStep
  <2> QED BY <1>1, <1>2, <2>4, <2>5, <2>6, RecallStepInv
<1>7. CASE ~MustRebuild(r)
  <2>1. Goes(r, "query")
    BY <1>7 DEF Rebuild
  <2>2. /\ OnlyRecall(r) /\ rec'[r].at = "query"
        /\ rec'[r].seen = rec[r].seen /\ rec'[r].read = rec[r].read
        /\ rec'[r].changed = rec[r].changed
    BY <2>1, RecallGoes DEF RecallerPlaces
  <2>3. Recalling(r)
    BY <1>1, <1>2, <2>2, Zenon DEF Recalling
  <2>4. Reader(r)'
    <3> HIDE DEF Before
    <3> QED BY <1>1, <1>2, <1>3, <2>2 DEF Reader
  <2>5. ASSUME ~torn' PROVE Undisturbed'
    <3>1. ~torn /\ Sweeping(r) /\ ~Sweeping(r)' /\ ~rec[r].changed
      BY <1>1, <1>7, <2>2, <2>5 DEF Sweeping, MustRebuild
    <3>2. \A z \in Memories : Cached(z) => postings[z] = cache[z].mem
      BY <1>5, <3>1
    <3>3. ASSUME NEW z \in asked[r] PROVE Found(z)
      <4>1. Good(z) /\ z \in Memories
        BY <1>5, <3>1
      <4>2. CASE stored[z] # Absent
        <5>1. cache[z] = [sig |-> stored[z], mem |-> stored[z]]
          BY <4>1, <4>2 DEF Good
        <5>2. Cached(z) /\ cache[z].mem = stored[z]
          BY <4>2, <5>1 DEF Cached, NoEntry
        <5> QED BY <3>2, <4>1, <5>2 DEF Found
      <4>3. CASE stored[z] = Absent
        BY <4>1, <4>3 DEF Found
      <4> QED BY <4>2, <4>3
    <3>4. \A z : Swept(r, z)'
      BY <2>2 DEF Swept
    <3>5. dirSig' => \A z \in Memories : Good(z)'
      BY <1>1, <1>4, <1>5, <3>1
    <3>6. \A z \in Memories : Cached(z)' => postings'[z] = cache'[z].mem
      BY <1>1, <1>4, <3>2
    <3> QED BY <1>1, <1>4, <1>5, <2>2, <3>1, <3>3, <3>4, <3>5, <3>6, SweeperStep
  <2> QED BY <1>1, <1>2, <2>3, <2>4, <2>5, RecallStepInv
<1> QED BY <1>6, <1>7

LEMMA AssignInv == ASSUME RecallInv, NEW r \in Recallers, Assign(r) PROVE RecallInv'
<1>1. /\ rec[r].at = "assign"
      /\ UNCHANGED <<stored, version, dirSig, cache, writer, asked>>
  BY DEF Assign
<1>2. /\ Reader(r) /\ cache \in [Memories -> Entries] /\ postings \in [Memories -> Versions]
      /\ rec[r] \in Recalls /\ dirSig \in BOOLEAN /\ torn \in BOOLEAN
      /\ rec[r].built \in [Memories -> Versions]
  BY ReaderIs DEF Recalls
<1>3. \A z, k : Before(k, z) => Before(k, z)'
  BY <1>1 DEF Before
<1>4. CASE Goes(r, "raised") /\ torn' = TRUE /\ UNCHANGED postings
  <2>1. /\ OnlyRecall(r) /\ rec'[r].at = "raised"
        /\ rec'[r].seen = rec[r].seen /\ rec'[r].read = rec[r].read
    BY <1>4, RecallGoes DEF RecallerPlaces
  <2>2. Recalling(r)
    BY <1>1, <1>2, <1>4, <2>1, Zenon DEF Recalling
  <2>3. Reader(r)'
    <3> HIDE DEF Before
    <3> QED BY <1>1, <1>2, <1>3, <2>1 DEF Reader
  <2> QED BY <1>1, <1>2, <1>4, <2>2, <2>3, RecallStepInv
<1>5. CASE postings' = rec[r].built /\ Goes(r, "query") /\ UNCHANGED torn
  <2>1. /\ OnlyRecall(r) /\ rec'[r].at = "query"
        /\ rec'[r].seen = rec[r].seen /\ rec'[r].read = rec[r].read
    BY <1>5, RecallGoes DEF RecallerPlaces
  <2>2. Recalling(r)
    BY <1>1, <1>2, <1>5, <2>1, Zenon DEF Recalling
  <2>3. Reader(r)'
    <3> HIDE DEF Before
    <3> QED BY <1>1, <1>2, <1>3, <2>1 DEF Reader
  <2>4. ASSUME ~torn' PROVE Undisturbed'
    <3>1. ~torn /\ Sweeping(r) /\ ~Sweeping(r)'
      BY <1>1, <1>5, <2>1, <2>4 DEF Sweeping
    <3>2. /\ \A q \in Recallers : rec[q].at = "query" => \A z \in asked[q] : z \in Calm(r)
          /\ \A z \in asked[r] : z \in Calm(r)
          /\ dirSig => Calm(r) = Memories
          /\ Calm(r) \subseteq Memories
          /\ \A z \in Calm(r) : Swept(r, z)
      BY <3>1, SweeperKnows
    <3>3. \A z : (Cached(z)' <=> Cached(z)) /\ (Good(z)' <=> Good(z))
      BY <1>1 DEF Cached, Good
    <3>4. \A z \in Memories : Cached(z) => rec[r].built[z] = cache[z].mem
      BY <1>1, <3>1 DEF RecallInv, Undisturbed, BuiltInv
    <3>5. ASSUME NEW z \in Calm(r) PROVE Good(z)' /\ Found(z)'
      <4>1. Good(z) /\ z \in Memories
        BY <1>1, <3>2 DEF Swept
      <4>2. CASE stored[z] # Absent
        <5>1. cache[z] = [sig |-> stored[z], mem |-> stored[z]]
          BY <4>1, <4>2 DEF Good
        <5>2. Cached(z) /\ cache[z].mem = stored[z]
          BY <4>2, <5>1 DEF Cached, NoEntry
        <5> QED BY <1>1, <1>5, <3>3, <3>4, <4>1, <5>2 DEF Found
      <4>3. CASE stored[z] = Absent
        BY <1>1, <3>3, <4>1, <4>3 DEF Found
      <4> QED BY <4>2, <4>3
    <3>6. \A z : Swept(r, z)'
      BY <2>1 DEF Swept
    <3>7. \A z \in Memories : Cached(z)' => postings'[z] = cache'[z].mem
      BY <1>1, <1>5, <3>3, <3>4
    <3>8. dirSig' => \A z \in Memories : Good(z)'
      BY <1>1, <3>2, <3>5
    <3> QED BY <1>1, <2>1, <3>1, <3>2, <3>5, <3>6, <3>7, <3>8, SweeperStep
  <2> QED BY <1>1, <1>2, <1>5, <2>2, <2>3, <2>4, RecallStepInv
<1> QED BY <1>4, <1>5 DEF Assign

\* Who does not sweep changes nothing that others rely on.
LEMMA BystanderStep ==
    ASSUME RecallInv, NEW r \in Recallers, OnlyRecall(r), ~Sweeping(r), ~Sweeping(r)', ~torn,
           UNCHANGED <<stored, cache, postings, dirSig>>,
           rec'[r].at # "query",
           \A q \in Recallers \ {r} : asked'[q] = asked[q],
           rec'[r].at = "done" => \A s \in asked'[r] : rec'[r].found[s] = stored[s]
    PROVE  Undisturbed'
<1>1. Lone /\ Indexed /\ DirInv /\ QueryInv /\ BuiltInv /\ SweepInv /\ DoneInv
  BY DEF RecallInv, Undisturbed
<1>2. /\ \A q \in Recallers \ {r} : rec'[q] = rec[q]
      /\ \A q \in Recallers : Sweeping(q)' <=> Sweeping(q)
      /\ \A q \in Recallers : Sweeping(q) => q # r
  BY DEF OnlyRecall, Sweeping
<1>3. \A z : (Cached(z)' <=> Cached(z)) /\ (Found(z)' <=> Found(z)) /\ (Good(z)' <=> Good(z))
  BY DEF Cached, Found, Good
<1>4. Lone'
  BY <1>1, <1>2 DEF Lone
<1>5. Indexed'
  <2>1. ASSUME \A q \in Recallers : Sweeping(q)' => ~rec'[q].changed
        PROVE  \A q \in Recallers : Sweeping(q) => ~rec[q].changed
    BY <1>2, <2>1
  <2> QED BY <1>1, <1>3, <2>1 DEF Indexed
<1>6. DirInv'
  <2>1. ASSUME \A q \in Recallers : Sweeping(q)' => rec'[q].at = "stat"
        PROVE  \A q \in Recallers : Sweeping(q) => rec[q].at = "stat"
    BY <1>2, <2>1
  <2> QED BY <1>1, <1>3, <2>1 DEF DirInv
<1>7. QueryInv'
  BY <1>1, <1>2, <1>3 DEF QueryInv
<1>8. BuiltInv'
  <2>1. rec'[r].at # "assign"
    BY DEF Sweeping
  <2> QED BY <1>1, <1>2, <1>3, <2>1 DEF BuiltInv
<1>9. SweepInv'
  <2>1. \A z : Swept(r, z)'
    BY DEF Sweeping, Swept
  <2>2. ASSUME NEW q \in Recallers \ {r}, NEW z \in Calm(q)' PROVE Swept(q, z)'
    <3>1. z \in Calm(q)
      BY <1>2, <2>2 DEF Calm
    <3>2. Swept(q, z) /\ rec'[q] = rec[q]
      BY <1>1, <1>2, <3>1 DEF SweepInv
    <3>3. Good(z)' <=> Good(z)
      BY <1>3
    <3> QED BY <3>2, <3>3, Zenon DEF Swept
  <2> QED BY <2>1, <2>2 DEF SweepInv
<1>10. DoneInv'
  BY <1>1, <1>2 DEF DoneInv
<1> QED BY <1>4, <1>5, <1>6, <1>7, <1>8, <1>9, <1>10 DEF Undisturbed

LEMMA BeginRecallInv ==
    ASSUME RecallInv, NEW r \in Recallers, BeginRecall(r) PROVE RecallInv'
<1> DEFINE x == [NoRecall EXCEPT !.at = "gate"]
           a == {s \in Memories : \A w \in Writers : writer[w].slug # s}
<1>1. /\ rec[r].at \in {"idle", "done", "raised"} /\ rec' = [rec EXCEPT ![r] = x]
      /\ asked' = [asked EXCEPT ![r] = a]
      /\ UNCHANGED <<stored, version, dirSig, cache, postings, writer, torn>>
  BY DEF BeginRecall
<1>2. Nothing \in [Memories -> Versions] /\ \A s \in Memories : Nothing[s] = Absent
  BY VersionsAre DEF Nothing
<1>3. x \in Recalls /\ x.at = "gate" /\ x.seen = Nothing /\ x.read = {} /\ x.changed = FALSE
  BY <1>2 DEF NoRecall, Recalls, RecallerPlaces
<1>4. a \in SUBSET Memories /\ \A s \in a, w \in Writers : writer[w].slug # s
  OBVIOUS
<1> HIDE DEF x, a
<1>5. OnlyRecall(r) /\ rec'[r] = x
  BY <1>1, <1>3, RecallChanges
<1>6. /\ asked' \in [Recallers -> SUBSET Memories] /\ asked'[r] = a
      /\ \A q \in Recallers \ {r} : asked'[q] = asked[q]
  BY <1>1, <1>4, RecallTypesAre
<1>7. RecallTypes'
  BY <1>1, <1>5, <1>6, Zenon DEF RecallInv, RecallTypes, OnlyRecall
<1>8. WriterInv'
  <2>1. WriterInv
    BY DEF RecallInv
  <2>2. ASSUME NEW q \in Recallers, NEW s \in asked'[q], NEW w \in Writers, writer[w].does # "rest"
        PROVE  writer[w].slug # s
    BY <1>4, <1>6, <2>1, <2>2 DEF WriterInv
  <2> QED BY <1>1, <2>1, <2>2 DEF WriterInv
<1>9. EntryInv'
  BY <1>1 DEF RecallInv, EntryInv, Cached, Before
<1>10. ReaderInv'
  <2>1. Reader(r)'
    BY <1>2, <1>3, <1>5 DEF Reader
  <2> QED BY <1>1, <1>5, <2>1, ReaderStep
<1>11. ASSUME ~torn' PROVE Undisturbed'
  <2>1. ~Sweeping(r) /\ ~Sweeping(r)' /\ rec'[r].at = "gate"
    BY <1>1, <1>3, <1>5 DEF Sweeping
  <2> QED BY <1>1, <1>5, <1>6, <1>11, <2>1, BystanderStep
<1> QED BY <1>7, <1>8, <1>9, <1>10, <1>11 DEF RecallInv

LEMMA QueryStepInv == ASSUME RecallInv, NEW r \in Recallers, Query(r) PROVE RecallInv'
<1>1. /\ rec[r].at = "query"
      /\ UNCHANGED <<stored, version, dirSig, cache, postings, writer, asked, torn>>
  BY DEF Query
<1>2. /\ Reader(r) /\ cache \in [Memories -> Entries] /\ postings \in [Memories -> Versions]
      /\ rec[r] \in Recalls /\ dirSig \in BOOLEAN /\ torn \in BOOLEAN
  BY ReaderIs
<1> DEFINE f == [s \in Memories |-> IF Cached(s) /\ postings[s] = cache[s].mem
                                    THEN cache[s].mem ELSE Absent]
           x == [NoRecall EXCEPT !.at = "done", !.found = f]
<1>3. CASE rec' = [rec EXCEPT ![r] = x]
  <2>1. f \in [Memories -> Versions]
    BY <1>2, VersionsAre DEF Entries
  <2>2. \A s \in Memories : f[s] = IF Cached(s) /\ postings[s] = cache[s].mem
                                   THEN cache[s].mem ELSE Absent
    OBVIOUS
  <2> HIDE DEF f
  <2>3. Nothing \in [Memories -> Versions] /\ \A s \in Memories : Nothing[s] = Absent
    BY VersionsAre DEF Nothing
  <2>4. x \in Recalls /\ x.at = "done" /\ x.found = f /\ x.seen = Nothing /\ x.read = {}
    BY <2>1, <2>3 DEF NoRecall, Recalls, RecallerPlaces
  <2> HIDE DEF x
  <2>5. OnlyRecall(r) /\ rec'[r] = x
    BY <1>3, <2>4, RecallChanges
  <2>6. Recalling(r)
    BY <1>1, <1>2, <2>5, Zenon DEF Recalling
  <2>7. Reader(r)'
    BY <2>3, <2>4, <2>5 DEF Reader
  <2>8. ASSUME ~torn' PROVE Undisturbed'
    <3>1. ASSUME NEW s \in asked[r] PROVE f[s] = stored[s]
      <4>1. Found(s) /\ s \in Memories
        BY <1>1, <2>8, RecallTypesAre DEF RecallInv, Undisturbed, QueryInv
      <4>2. CASE stored[s] # Absent
        <5>1. cache[s] = [sig |-> stored[s], mem |-> stored[s]] /\ postings[s] = stored[s]
          BY <4>1, <4>2 DEF Found, Good
        <5>2. Cached(s) /\ cache[s].mem = stored[s]
          BY <4>2, <5>1 DEF Cached, NoEntry
        <5> QED BY <2>2, <4>1, <5>1, <5>2
      <4>3. CASE stored[s] = Absent
        BY <2>2, <4>1, <4>3 DEF Found, Good
      <4> QED BY <4>2, <4>3
    <3>2. ~Sweeping(r) /\ ~Sweeping(r)' /\ rec'[r].at = "done" /\ rec'[r].found = f
      BY <1>1, <2>4, <2>5 DEF Sweeping
    <3> QED BY <1>1, <2>5, <2>8, <3>1, <3>2, BystanderStep
  <2> QED BY <1>1, <1>2, <2>6, <2>7, <2>8, RecallStepInv
<1>4. CASE Goes(r, "raised")
  <2>1. /\ OnlyRecall(r) /\ rec'[r].at = "raised"
        /\ rec'[r].seen = rec[r].seen /\ rec'[r].read = rec[r].read
    BY <1>4, RecallGoes DEF RecallerPlaces
  <2>2. Recalling(r)
    BY <1>1, <1>2, <2>1, Zenon DEF Recalling
  <2>3. Reader(r)'
    <3>1. \A z, k : Before(k, z) => Before(k, z)'
      BY <1>1 DEF Before
    <3> HIDE DEF Before
    <3> QED BY <1>1, <1>2, <2>1, <3>1 DEF Reader
  <2>4. ASSUME ~torn' PROVE Undisturbed'
    <3>1. ~Sweeping(r) /\ ~Sweeping(r)'
      BY <1>1, <2>1 DEF Sweeping
    <3> QED BY <1>1, <2>1, <2>4, <3>1, BystanderStep
  <2> QED BY <1>1, <1>2, <2>2, <2>3, <2>4, RecallStepInv
<1> QED BY <1>3, <1>4 DEF Query

LEMMA GateStepInv == ASSUME RecallInv, NEW r \in Recallers, Gate(r) PROVE RecallInv'
<1>1. /\ rec[r].at = "gate" /\ torn' = (torn \/ OthersSweep(r))
      /\ UNCHANGED <<stored, version, dirSig, cache, postings, writer, asked>>
  BY DEF Gate
<1>2. /\ Reader(r) /\ cache \in [Memories -> Entries] /\ postings \in [Memories -> Versions]
      /\ rec[r] \in Recalls /\ dirSig \in BOOLEAN /\ torn \in BOOLEAN
  BY ReaderIs
<1>3. \A z, k : Before(k, z) => Before(k, z)'
  BY <1>1 DEF Before
<1>4. \A z : (Cached(z)' <=> Cached(z)) /\ (Found(z)' <=> Found(z)) /\ (Good(z)' <=> Good(z))
  BY <1>1 DEF Cached, Found, Good
<1>5. ASSUME NEW a \in {"query", "stat"}, Goes(r, a), a = "query" => Fresh
      PROVE  RecallInv'
  <2>1. /\ OnlyRecall(r) /\ rec'[r].at = a
        /\ rec'[r].seen = rec[r].seen /\ rec'[r].todo = rec[r].todo
        /\ rec'[r].read = rec[r].read /\ rec'[r].changed = rec[r].changed
    BY <1>5, RecallGoes DEF RecallerPlaces
  <2>2. Recalling(r)
    BY <1>1, <1>2, <2>1, Zenon DEF Recalling
  <2>3. Reader(r)'
    <3> HIDE DEF Before
    <3> QED BY <1>1, <1>2, <1>3, <2>1 DEF Reader
  <2>4. ASSUME ~torn' PROVE Undisturbed'
    <3>1. ~torn /\ ~OthersSweep(r)
      BY <1>1, <2>4
    <3>2. /\ \A q \in Recallers : ~Sweeping(q)
          /\ \A q \in Recallers \ {r} : rec'[q] = rec[q]
      BY <1>1, <2>1, <3>1 DEF Sweeping, OthersSweep, OnlyRecall
    <3>3. /\ \A q \in Recallers \ {r} : ~Sweeping(q)'
          /\ \A q \in Recallers :
                 rec'[q].at \notin {"load", "store", "drop", "assign"}
      BY <2>1, <3>2 DEF Sweeping
    <3>4. /\ Indexed /\ DirInv /\ QueryInv /\ DoneInv
      BY <3>1 DEF RecallInv, Undisturbed
    <3>5. /\ \A z \in Memories : Cached(z) => postings[z] = cache[z].mem
          /\ dirSig => \A z \in Memories : Good(z)
      BY <3>2, <3>4, Zenon DEF Indexed, DirInv
    <3>6. Lone'
      BY <3>3 DEF Lone
    <3>7. Indexed' /\ DirInv'
      BY <1>1, <1>4, <3>5 DEF Indexed, DirInv
    <3>8. BuiltInv' /\ SweepInv'
      BY <3>3 DEF BuiltInv, SweepInv, Swept
    <3>9. DoneInv'
      BY <1>1, <2>1, <3>2, <3>4 DEF DoneInv
    <3>10. QueryInv'
      <4>1. ASSUME a = "query", NEW z \in asked[r] PROVE Found(z)
        <5>1. Good(z) /\ z \in Memories
          BY <1>5, <3>5, <4>1, RecallTypesAre DEF Fresh
        <5>2. CASE stored[z] # Absent
          <6>1. cache[z] = [sig |-> stored[z], mem |-> stored[z]]
            BY <5>1, <5>2 DEF Good
          <6>2. Cached(z) /\ cache[z].mem = stored[z]
            BY <5>2, <6>1 DEF Cached, NoEntry
          <6> QED BY <3>5, <5>1, <6>2 DEF Found
        <5>3. CASE stored[z] = Absent
          BY <5>1, <5>3 DEF Found
        <5> QED BY <5>2, <5>3
      <4> QED BY <1>1, <1>4, <2>1, <3>2, <3>4, <4>1 DEF QueryInv
    <3> QED BY <3>6, <3>7, <3>8, <3>9, <3>10 DEF Undisturbed
  <2> QED BY <1>1, <1>2, <2>2, <2>3, <2>4, RecallStepInv
<1> QED BY <1>5 DEF Gate

LEMMA RecallNextInv == RecallInv /\ [RecallNext]_recallVars => RecallInv'
<1> SUFFICES ASSUME RecallInv, [RecallNext]_recallVars PROVE RecallInv'
  OBVIOUS
<1>1. ASSUME NEW w \in Writers, WriterStep(w) PROVE RecallInv'
  <2>1. ASSUME NEW s \in Memories, BeginWrite(w, s) PROVE RecallInv'
    BY <2>1, BeginWriteInv
  <2>2. CASE IndexWritten(w)
    BY <2>2, IndexWrittenInv
  <2>3. CASE Invalidate(w)
    BY <2>3, InvalidateInv
  <2> QED BY <1>1, <2>1, <2>2, <2>3 DEF WriterStep
<1>2. ASSUME NEW s \in Memories, ForeignWrite(s) PROVE RecallInv'
  BY <1>2, ForeignWriteInv
<1>3. ASSUME NEW r \in Recallers, RecallStep(r) PROVE RecallInv'
  <2>1. CASE BeginRecall(r)
    BY <2>1, BeginRecallInv
  <2>2. CASE Gate(r)
    BY <2>2, GateStepInv
  <2>3. CASE Stat(r)
    BY <2>3, StatInv
  <2>4. CASE Scan(r)
    BY <2>4, ScanInv
  <2>5. ASSUME NEW s \in Memories, Keep(r, s) \/ Read(r, s) PROVE RecallInv'
    BY <2>5, KeepInv, ReadFileInv
  <2>6. CASE Store(r)
    BY <2>6, StoreInv
  <2>7. CASE FindGone(r)
    BY <2>7, FindGoneInv
  <2>8. CASE Drop(r)
    BY <2>8, DropInv
  <2>9. CASE Rebuild(r)
    BY <2>9, RebuildInv
  <2>10. CASE Assign(r)
    BY <2>10, AssignInv
  <2>11. CASE Query(r)
    BY <2>11, QueryStepInv
  <2> QED BY <1>3, <2>1, <2>2, <2>3, <2>4, <2>5, <2>6, <2>7, <2>8, <2>9, <2>10, <2>11
          DEF RecallStep
<1>4. CASE UNCHANGED recallVars
  <2>1. UNCHANGED <<stored, version, dirSig, cache, postings, rec, writer, asked, torn>>
    BY <1>4 DEF recallVars
  <2>2. RecallTypes' /\ WriterInv'
    BY <2>1, Zenon DEF RecallInv, RecallTypes, WriterInv
  <2>3. EntryInv'
    BY <2>1 DEF RecallInv, EntryInv, Cached, Before
  <2>4. ReaderInv'
    <3>1. ASSUME NEW r \in Recallers PROVE Reader(r)'
      <4>1. Reader(r) /\ \A z, k : Before(k, z) => Before(k, z)'
        BY <2>1 DEF RecallInv, ReaderInv, Before
      <4> HIDE DEF Before
      <4> QED BY <2>1, <4>1 DEF Reader
    <3> QED BY <3>1 DEF ReaderInv
  <2>5. ASSUME ~torn' PROVE Undisturbed'
    <3>1. Lone /\ Indexed /\ DirInv /\ QueryInv /\ BuiltInv /\ SweepInv /\ DoneInv
      BY <2>1, <2>5 DEF RecallInv, Undisturbed
    <3>2. \A z : (Cached(z)' <=> Cached(z)) /\ (Found(z)' <=> Found(z)) /\ (Good(z)' <=> Good(z))
      BY <2>1 DEF Cached, Found, Good
    <3>3. \A r : Sweeping(r)' <=> Sweeping(r)
      BY <2>1 DEF Sweeping
    <3>4. Lone' /\ DoneInv'
      BY <2>1, <3>1, <3>3 DEF Lone, DoneInv
    <3>5. Indexed' /\ DirInv'
      BY <2>1, <3>1, <3>2, <3>3 DEF Indexed, DirInv
    <3>6. QueryInv' /\ BuiltInv'
      BY <2>1, <3>1, <3>2 DEF QueryInv, BuiltInv
    <3>7. SweepInv'
      <4>1. ASSUME NEW r \in Recallers, NEW z \in Calm(r)' PROVE Swept(r, z)'
        <5>1. Swept(r, z)
          BY <2>1, <3>1, <4>1 DEF SweepInv, Calm
        <5>2. Good(z)' <=> Good(z)
          BY <3>2
        <5> QED BY <2>1, <5>1, <5>2, Zenon DEF Swept
      <4> QED BY <4>1 DEF SweepInv
    <3> QED BY <3>4, <3>5, <3>6, <3>7 DEF Undisturbed
  <2> QED BY <2>2, <2>3, <2>4, <2>5 DEF RecallInv
<1> QED BY <1>1, <1>2, <1>3, <1>4 DEF RecallNext

LEMMA RecallInvariant == RecallSpec => []RecallInv
<1>1. RecallInit => RecallInv
  BY RecallInitInv
<1>2. RecallInv /\ [RecallNext]_recallVars => RecallInv'
  BY RecallNextInv
<1> QED BY <1>1, <1>2, PTL DEF RecallSpec

\* The cache, the postings and every recall are well typed, and what the cache keeps is
\* no older than the signature it is kept under (memdir.py:379-389).
THEOREM RecallTyping == RecallSpec => []RecallTypeOK
<1>1. RecallInv => RecallTypeOK
  <2> SUFFICES ASSUME RecallInv PROVE RecallTypeOK
    OBVIOUS
  <2>1. RecallTypes /\ \A s \in Memories : Cached(s) => cache[s].sig <= cache[s].mem
    BY DEF RecallInv, EntryInv
  <2>2. \A w \in Writers : writer[w] = NoWrite \/ writer[w].slug \in Memories
    BY DEF RecallInv, WriterInv
  <2> QED BY <2>1, <2>2, Zenon DEF RecallTypeOK, RecallTypes, Entries, Recalls, RecallerPlaces
<1> QED BY <1>1, RecallInvariant, PTL

\* memdir.py:143-145 and :353-356: whatever saves and deletes of this process or another
\* interleave with a recall and with those before it, it finds what is on disk, unless
\* a sweep failed half-way or ran into another.
THEOREM RecallsAreCurrent == RecallSpec => []RecallsWhatWasSaved
<1>1. RecallInv => RecallsWhatWasSaved
  BY DEF RecallInv, Undisturbed, DoneInv, RecallsWhatWasSaved
<1> QED BY <1>1, RecallInvariant, PTL
=================================================================================
