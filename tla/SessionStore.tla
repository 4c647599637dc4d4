----------------------------- MODULE SessionStore -----------------------------
(* engine/session.py, class SessionStore: the transcript of a run kept as an  *)
(* append-only file, rewritten when the transcript got shorter.  One store is *)
(* one object of one process; a crash ends the process and the next one makes *)
(* a new object over the same file.                                           *)
EXTENDS AppendLog, TLC

CONSTANTS Payload,      \* what distinguishes two messages
          MaxLen,       \* bound: messages in a transcript
          MaxLines,     \* bound: lines of the session file
          MaxCrashes,   \* bound: crashes
          TornWrites,   \* a crash may fall inside the line being written
          Diverging,    \* the caller may replace the transcript by one that is not shorter
          V1Files       \* version 1 files that may be found at the start:
                        \* [msgs |-> ..., nl |-> the file ends in a newline]

Msg(p)  == [k |-> "msg", p |-> p]
Messages == {Msg(p) : p \in Payload}

ASSUME ConstantsAssumption ==
    /\ MaxLen \in Nat \ {0} /\ MaxLines \in Nat /\ MaxCrashes \in Nat
    /\ TornWrites \in BOOLEAN /\ Diverging \in BOOLEAN
    /\ \A v \in V1Files : v.msgs \in Seq(Messages) /\ Len(v.msgs) <= MaxLen /\ v.nl \in BOOLEAN

VARIABLES file,         \* the session file
          store,        \* the SessionStore object
          mem,          \* the transcript of the running loop
          replaced,     \* mem was begun or compacted and not saved since
          astray,       \* history: since the store last read or rewrote the file, it
                        \* added to an unterminated line, or to messages that are not
                        \* the beginning of its transcript
          acked,        \* history: what the last save that returned was given, unless
                        \* it went astray and that is over
          crashes

vars == <<file, store, mem, replaced, astray, acked, crashes>>

\* The fields _written (messages believed to be on disk), _done ("none" for None)
\* and _synced (the file has been looked at).
Fields(w, d, s) == [written |-> w, done |-> d, synced |-> s]

NewStore == Fields(0, "none", FALSE)

\* The `done` flag of a session.
Flags == {"open", "done"}

Meta(d) == [k |-> "meta", done |-> d]
V1(ms)  == [k |-> "v1", msgs |-> ms]   \* one JSON object holding everything, not done

IsMsg(l)  == l.k = "msg"
IsMeta(l) == l.k = "meta"

None == [ok |-> FALSE, msgs |-> <<>>, done |-> "open"]

NothingRead == [msgs |-> <<>>, done |-> "none"]

\* One line more of load()'s loop; a line that parses as neither is passed over.
Read(have, l) ==
    CASE IsMsg(l)  -> [have EXCEPT !.msgs = Append(@, l)]
      [] IsMeta(l) -> [have EXCEPT !.done = l.done]
      [] OTHER     -> have

Scanned(lines) ==
    LET have[n \in 0..Len(lines)] ==
            IF n = 0 THEN NothingRead ELSE Read(have[n - 1], lines[n])
    IN  have[Len(lines)]

\* load() and _load_v1(): a file of one line can only be a version 1 file.
LoadResult(f) ==
    LET have == Scanned(f.lines)
    IN  CASE Len(f.lines) = 1 /\ f.lines[1].k = "v1" ->
                 [ok |-> TRUE, msgs |-> f.lines[1].msgs, done |-> "open"]
          [] Len(f.lines) > 1 /\ have # NothingRead ->
                 [ok |-> TRUE, msgs |-> have.msgs,
                  done |-> IF have.done = "none" THEN "open" ELSE have.done]
          [] OTHER -> None

\* The store's fields after load(): a version 1 file leaves them as new.
AfterLoad(f) ==
    LET r == LoadResult(f)
    IN  IF ~r.ok THEN store
        ELSE IF Len(f.lines) = 1 THEN NewStore
        ELSE Fields(Len(r.msgs), r.done, TRUE)

\* _reconcile()
AfterReconcile(f) ==
    IF ~NonEmpty(f) \/ ~LoadResult(f).ok THEN Fields(0, "none", TRUE) ELSE AfterLoad(f)

\* The records one call of _append adds: the first meta line, the messages, the
\* meta line of a changed flag.
AppendedRecords(f, known, new, d) ==
    LET first == IF NonEmpty(f) THEN <<>> ELSE <<Meta(d)>>
        flag  == IF NonEmpty(f) /\ d # known THEN <<Meta(d)>> ELSE <<>>
    IN  first \o new \o flag

RewrittenFile(ms, d) == [lines |-> <<Meta(d)>> \o ms, nl |-> TRUE]

\* Mutant: appends to whatever is there, however short the transcript is.
SaveNeverRewrites(f, st, ms, d) ==
    LET recs == AppendedRecords(f, st.done, SubSeq(ms, st.written + 1, Len(ms)), d)
    IN  [file |-> AppendRecords(f, recs), st |-> Fields(Len(ms), d, TRUE), recs |-> recs]

\* Mutant: an append counts the whole transcript again.
SaveCountsAll(f, st, ms, d) ==
    LET new  == SubSeq(ms, st.written + 1, Len(ms))
        recs == AppendedRecords(f, st.done, new, d)
    IN  IF Len(ms) < st.written
        THEN [file |-> RewrittenFile(ms, d), st |-> Fields(Len(ms), d, TRUE), recs |-> <<>>]
        ELSE [file |-> AppendRecords(f, recs), st |-> Fields(st.written + Len(ms), d, TRUE),
              recs |-> recs]

\* What save(ms, d) does, given the fields after _reconcile.
SaveOutcome(f, st, ms, d) ==
    LET new  == SubSeq(ms, st.written + 1, Len(ms))
        recs == AppendedRecords(f, st.done, new, d)
    IN  IF Len(ms) < st.written
        THEN [file |-> RewrittenFile(ms, d), st |-> Fields(Len(ms), d, TRUE), recs |-> <<>>]
        ELSE IF new = <<>> /\ st.done = d
        THEN [file |-> f, st |-> st, recs |-> <<>>]
        ELSE [file |-> AppendRecords(f, recs), st |-> Fields(st.written + Len(new), d, TRUE),
              recs |-> recs]

StoreBeforeSave == IF store.synced THEN store ELSE AfterReconcile(file)

Nothing == [msgs |-> <<>>, done |-> "unknown"]

Stored == [msgs |-> LoadResult(file).msgs, done |-> LoadResult(file).done]
-------------------------------------------------------------------------------
Init == /\ \/ file = EmptyFile
           \/ \E v \in V1Files : file = [lines |-> <<V1(v.msgs)>>, nl |-> v.nl]
        /\ store = NewStore
        /\ mem = <<>>
        /\ replaced = FALSE /\ astray = FALSE
        /\ acked = Nothing
        /\ crashes = 0

\* A list that is not a continuation of what is stored takes its place: a new
\* task, or the compacted form of the transcript.
Replace(ms) ==
    /\ Diverging \/ Len(ms) < Len(Stored.msgs) \/ Stored.msgs = <<>>
    /\ mem' = ms
    /\ replaced' = TRUE
    /\ UNCHANGED <<file, store, astray, acked, crashes>>

\* The loop saves a list it has put in place before it adds to it.
Grow(p) ==
    /\ mem # <<>> /\ ~replaced /\ Len(mem) < MaxLen
    /\ mem' = Append(mem, Msg(p))
    /\ UNCHANGED <<file, store, replaced, astray, acked, crashes>>

Load ==
    /\ LoadResult(file).ok
    /\ mem' = LoadResult(file).msgs
    /\ replaced' = FALSE /\ astray' = FALSE
    /\ store' = AfterLoad(file)
    /\ acked' = IF astray THEN Nothing ELSE acked
    /\ UNCHANGED <<file, crashes>>

\* The loop sets `done` on a transcript that ends on the model's answer.
Savable(d) == mem # <<>> /\ (d = "done" => Len(mem) > 1)

\* What is added goes astray.  A version 1 file has no messages of this format.
AddsAstray(known, recs) ==
    \/ ~file.nl /\ recs # <<>>
    \/ known > 0 /\ ~IsPrefix(Stored.msgs, mem)

Save(d) ==
    LET out == SaveOutcome(file, StoreBeforeSave, mem, d)
    IN  /\ Savable(d)
        /\ Len(out.file.lines) <= MaxLines
        /\ file' = out.file
        /\ store' = out.st
        /\ replaced' = FALSE
        /\ astray' = (Len(mem) >= StoreBeforeSave.written
                      /\ (astray \/ AddsAstray(StoreBeforeSave.written, out.recs)))
        /\ acked' = [msgs |-> mem, done |-> d]
        /\ UNCHANGED <<mem, crashes>>

Restart == /\ crashes < MaxCrashes
           /\ crashes' = crashes + 1
           /\ mem' = <<>>
           /\ replaced' = FALSE /\ astray' = FALSE
           /\ store' = NewStore

Crash == Restart /\ file' = file /\ acked' = IF astray THEN Nothing ELSE acked

\* Mutant: a rewrite truncates the file and writes it anew, line by line.
CrashInSaveInPlace(d) ==
    LET out == SaveOutcome(file, StoreBeforeSave, mem, d)
    IN  /\ Savable(d)
        /\ Len(out.file.lines) <= MaxLines
        /\ Restart
        /\ file' \in {out.file} \cup CleanCuts(file, out.recs)
                     \cup (IF out.recs = <<>> /\ out.file # file
                           THEN CleanCuts(EmptyFile, out.file.lines) ELSE {})
        /\ acked' = Nothing

\* The crash falls inside save(): the append got only so far.  A rewrite is a
\* temporary file and an os.replace, so it happened or it did not.
CrashInSave(d) ==
    LET out == SaveOutcome(file, StoreBeforeSave, mem, d)
    IN  /\ Savable(d)
        /\ Len(out.file.lines) <= MaxLines
        /\ Restart
        /\ file' \in {out.file} \cup CleanCuts(file, out.recs)
                     \cup (IF TornWrites THEN TornCuts(file, out.recs) ELSE {})
        /\ acked' = Nothing

Clear == /\ file' = EmptyFile
         /\ store' = Fields(0, "none", TRUE)
         /\ astray' = FALSE
         /\ acked' = [msgs |-> <<>>, done |-> "open"]
         /\ UNCHANGED <<mem, replaced, crashes>>

Next == \/ \E p \in Payload : Replace(<<Msg(p)>>) \/ Grow(p)
        \/ Load
        \/ \E d \in Flags : Save(d) \/ CrashInSave(d)
        \/ Crash
        \/ Clear

Spec == Init /\ [][Next]_vars
-------------------------------------------------------------------------------
Records == Messages \cup {Meta(d) : d \in Flags} \cup {Junk}
           \cup {V1(v.msgs) : v \in V1Files}

\* The store never counts more messages than a transcript can hold, and its
\* fields have the values the code gives them.
TypeOK == /\ file \in [lines : Seq(Records), nl : BOOLEAN]
          /\ store \in [written : 0..MaxLen, done : Flags \cup {"none"}, synced : BOOLEAN]
          /\ mem \in Seq(Messages) /\ Len(mem) <= MaxLen
          /\ replaced \in BOOLEAN /\ astray \in BOOLEAN
          /\ acked \in [msgs : Seq(Messages), done : Flags \cup {"unknown"}]
          /\ crashes \in 0..MaxCrashes

\* session.py:4-6 and :18-20: once save() has returned, what a later load()
\* finds is the transcript and the flag it was given, whatever crashes, restarts,
\* resumptions and compactions came between.  (Not while the file has gone astray;
\* it is right again from the next load, rewrite or restart on.)
SavedIsLoaded == acked # Nothing /\ ~astray => Stored = acked

\* session.py:20-22: the file, read with load(), is a DurableTranscript; a crash in
\* the middle of a save loses nothing stored before, unless that save was replacing it.
Abs == INSTANCE DurableTranscript
         WITH Transcript <- UNION {[1..n -> Messages] : n \in 0..MaxLen},
              msgs <- Stored.msgs, done <- Stored.done
ImplementsDurableTranscript == Abs!Spec
===============================================================================
