------------------------------ MODULE MemoryStore ------------------------------
(* engine/memory/memdir.py, class MemoryStore, on disk: a file per memory and *)
(* the index MEMORY.md that points at them, written by concurrent savers and  *)
(* deleters (worker threads of one process, or processes) under the OS lock   *)
(* of engine/filelock.py.  atomic_write_text makes each write of a file one   *)
(* step.  One action is what happens up to the next look at the disk.         *)
EXTENDS Integers, FiniteSets

CONSTANTS Clients,      \* threads or processes with an operation to run
          Names,        \* the slugs that _slug makes of the names in use
          MaxSuffix,    \* bound: `slug-N` for N up to this
          Bodies,       \* what is saved: description and text
          Mentions,     \* [Bodies -> SUBSET Slugs]: "(slug.md)" is in the description
          MaxOps,       \* bound: operations begun
          MaxCrashes    \* bound: crashes

\* The slug of a name, and with a suffix where the name was taken.
Slugs == Names \X (1..MaxSuffix)

None == "none"
Nobody == "nobody"

ASSUME ConstantsAssumption ==
    /\ MaxSuffix \in Nat \ {0} /\ Mentions \in [Bodies -> SUBSET Slugs]
    /\ MaxOps \in Nat /\ MaxCrashes \in Nat
    /\ None \notin Bodies /\ Nobody \notin Clients

VARIABLES
    files,      \* the body in each memory's file
    index,      \* the body whose description each pointer line of MEMORY.md shows
    lock,       \* who holds the lock on MEMORY.md
    op,         \* each client's operation, and how far it is
    gaps,       \* history: the slugs whose file and pointer the code let come apart
    ops, crashes

vars == <<files, index, lock, op, gaps, ops, crashes>>

NoFiles == [s \in Slugs |-> None]

\* `read` is the index as read; `existed` what delete saw.
Op(at, slug, body, overwrite) ==
    [at |-> at, slug |-> slug, body |-> body, overwrite |-> overwrite,
     existed |-> FALSE, read |-> NoFiles]

NoSlug == <<None, 0>>

Idle == Op("idle", NoSlug, None, FALSE)

Init == /\ files = NoFiles
        /\ index = NoFiles
        /\ lock = Nobody
        /\ op = [c \in Clients |-> Idle]
        /\ gaps = {}
        /\ ops = 0 /\ crashes = 0

Goto(c, at) == op' = [op EXCEPT ![c].at = at]

Begin(c, o) ==
    /\ op[c].at = "idle" /\ ops < MaxOps
    /\ op' = [op EXCEPT ![c] = o]
    /\ ops' = ops + 1
    /\ UNCHANGED <<files, index, lock, gaps, crashes>>

BeginSave(c) == \E n \in Names, b \in Bodies, w \in BOOLEAN :
                   Begin(c, Op("lock", <<n, 1>>, b, w))

BeginDelete(c) == \E s \in Slugs : Begin(c, Op("exists", s, None, FALSE))

\* Mutant: the lock is not taken exclusively.
LockShared == TRUE

LockAvailable == lock = Nobody

\* file_lock: waits until the system gives the lock.
Lock(c, here, next) ==
    /\ op[c].at = here /\ LockAvailable
    /\ lock' = c
    /\ Goto(c, next)
    /\ UNCHANGED <<files, index, gaps, ops, crashes>>
-------------------------------------------------------------------------------
(* save *)
Exists(s) == files[s] # None

FreeSlugs(n) == {s \in Slugs : s[1] = n /\ ~Exists(s)}

\* Mutant: the suffix that is tried first is not looked for on disk.
SlugOverwriting(n, overwrite) == <<n, 1>>

\* The slug a save takes: the plain one, or the one with the first free suffix.
SlugFor(n, overwrite) ==
    IF overwrite THEN <<n, 1>>
    ELSE CHOOSE s \in FreeSlugs(n) : \A t \in FreeSlugs(n) : s[2] <= t[2]

Resolve(c) ==
    LET n == op[c].slug[1]
    IN  /\ op[c].at = "resolve"
        /\ op[c].overwrite \/ FreeSlugs(n) # {}      \* MaxSuffix
        /\ op' = [op EXCEPT ![c].at = "write", ![c].slug = SlugFor(n, op[c].overwrite)]
        /\ UNCHANGED <<files, index, lock, gaps, ops, crashes>>

\* A delete that removed the file waits for the lock, and will then remove the
\* pointer whatever was saved in between.
DeleteWillDropPointer(s) == \E d \in Clients : op[d].at = "lock index" /\ op[d].slug = s

Write(c) ==
    LET s == op[c].slug
    IN  /\ op[c].at = "write"
        /\ files' = [files EXCEPT ![s] = op[c].body]
        /\ gaps' = gaps \cup {t \in {s} : DeleteWillDropPointer(t)}
        /\ Goto(c, "read index")
        /\ UNCHANGED <<index, lock, ops, crashes>>
-------------------------------------------------------------------------------
(* The index, under the lock: _write_index_line, and delete's removal. *)
ReadIndex(c) ==
    /\ op[c].at = "read index"
    /\ op' = [op EXCEPT ![c].at = "write index", ![c].read = index]
    /\ UNCHANGED <<files, index, lock, gaps, ops, crashes>>

\* The lines that do not have "(slug.md)" anywhere in them.
LinesWithout(s, lines) ==
    [t \in Slugs |-> IF t = s \/ (lines[t] # None /\ s \in Mentions[lines[t]])
                     THEN None ELSE lines[t]]

\* Mutant: the lock is not released after a line was removed.
ReleasedBySavers(c) == IF op[c].body = None THEN lock ELSE Nobody

Released(c) == Nobody

WriteIndex(c) ==
    LET s     == op[c].slug
        lines == LinesWithout(s, op[c].read)
    IN  /\ op[c].at = "write index"
        /\ index' = [lines EXCEPT ![s] = op[c].body]
        /\ gaps' = gaps \cup {t \in Slugs \ {s} : lines[t] # op[c].read[t]}
        /\ lock' = Released(c)
        /\ op' = [op EXCEPT ![c] = Idle]
        /\ UNCHANGED <<files, ops, crashes>>
-------------------------------------------------------------------------------
(* delete, up to the lock *)
LookBeforeDelete(c) ==
    /\ op[c].at = "exists"
    /\ op' = [op EXCEPT ![c].at = "unlink", ![c].existed = Exists(op[c].slug)]
    /\ UNCHANGED <<files, index, lock, gaps, ops, crashes>>

\* delete goes on to the index if it saw the file before.
AfterUnlink(c) == IF op[c].existed THEN Goto(c, "lock index") ELSE op' = [op EXCEPT ![c] = Idle]

\* A file saved after the look is removed, and its pointer stays.
Unlink(c) ==
    LET s == op[c].slug
    IN  /\ op[c].at = "unlink"
        /\ files' = [files EXCEPT ![s] = None]
        /\ AfterUnlink(c)
        /\ gaps' = gaps \cup {t \in {s} : Exists(t) /\ ~op[c].existed}
        /\ UNCHANGED <<index, lock, ops, crashes>>

\* The process dies: the system drops its lock.  Between a file and its pointer
\* nothing brings them together again.
Crash(c) ==
    /\ op[c].at # "idle" /\ crashes < MaxCrashes
    /\ crashes' = crashes + 1
    /\ lock' = IF lock = c THEN Nobody ELSE lock
    /\ gaps' = gaps \cup {t \in {op[c].slug} :
                             op[c].at \in {"read index", "write index", "lock index"}}
    /\ op' = [op EXCEPT ![c] = Idle]
    /\ UNCHANGED <<files, index, ops>>

Step(c) == \/ Lock(c, "lock", "resolve") \/ Lock(c, "lock index", "read index")
           \/ Resolve(c) \/ Write(c) \/ ReadIndex(c) \/ WriteIndex(c)
           \/ LookBeforeDelete(c) \/ Unlink(c)

Next == \E c \in Clients : BeginSave(c) \/ BeginDelete(c) \/ Step(c) \/ Crash(c)

Spec == Init /\ [][Next]_vars

\* Every client is scheduled, and the system hands a lock that stays free to
\* a waiter.  Nothing makes anyone begin an operation.
FairSpec == Spec /\ \A c \in Clients : WF_vars(Step(c))
-------------------------------------------------------------------------------
(* Properties *)
MaybeBody == Bodies \cup {None}

Places == {"idle", "lock", "resolve", "write", "read index", "write index",
           "exists", "unlink", "lock index"}

Ops == [at : Places, slug : Slugs \cup {NoSlug}, body : MaybeBody, overwrite : BOOLEAN,
        existed : BOOLEAN, read : [Slugs -> MaybeBody]]

Inside(c) == op[c].at \in {"resolve", "write", "read index", "write index"}

\* The types; the lock is held by the one client that is inside it.
TypeOK == /\ files \in [Slugs -> MaybeBody] /\ index \in [Slugs -> MaybeBody]
          /\ lock \in Clients \cup {Nobody}
          /\ \A c \in Clients : Inside(c) <=> lock = c
          /\ op \in [Clients -> Ops]
          /\ gaps \subseteq Slugs
          /\ ops \in 0..MaxOps /\ crashes \in 0..MaxCrashes

\* An operation on the slug that has changed the file and not yet the index.
Unsettled(s) == \E c \in Clients : /\ op[c].slug = s
                                   /\ op[c].at \in {"read index", "write index", "lock index"}

\* A memory and its pointer agree as soon as no operation on that memory is
\* between the two, whatever the others do: no saver or deleter loses another's
\* line in the read-modify-write of MEMORY.md, and no pointer outlives its file
\* (memdir.py:270-284) -- except where the code lets them come apart: a save
\* between delete's look, unlink and lock, a description that mentions another
\* memory's file, a crash between file and index.
PointersAgree == \A s \in Slugs \ gaps : ~Unsettled(s) => index[s] = files[s]

\* What a save without overwrite finds is never replaced by it, however the
\* savers interleave (memdir.py:186-189).
NothingOverwritten ==
    [][\A c \in Clients : (op[c].at = "write" /\ ~op[c].overwrite /\ op'[c].at = "read index")
                             => files[op[c].slug] = None]_vars

\* An operation under way ends: the lock on MEMORY.md is always released, also
\* by a process that dies.  (MaxSuffix >= MaxOps: a suffix is always free.)
OperationsEnd == \A c \in Clients : op[c].at # "idle" ~> op[c].at = "idle"
===============================================================================
