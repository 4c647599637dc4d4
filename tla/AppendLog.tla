------------------------------ MODULE AppendLog ------------------------------
(* A JSON-lines file as the engine writes it: records are appended in text    *)
(* mode "a", one per line, the newline after the record.  Used by the session *)
(* store, the tool journal and the audit log.                                 *)
(*                                                                            *)
(* A file is [lines |-> a sequence of records, nl |-> "the last line ends in  *)
(* a newline"].  A line no reader can parse is the record Junk.  The writer   *)
(* never looks at nl, so what it writes first continues an unterminated line. *)
EXTENDS Sequences, SequencesExt, Integers

Junk == [k |-> "junk"]

EmptyFile == [lines |-> <<>>, nl |-> TRUE]

\* Path.exists() and st_size > 0
NonEmpty(f) == f.lines # <<>>

\* One uninterrupted append.  Two JSON texts on one line parse as neither.
AppendRecords(f, recs) ==
    IF recs = <<>> THEN f
    ELSE [lines |-> IF f.nl THEN f.lines \o recs
                            ELSE Front(f.lines) \o <<Junk>> \o Tail(recs),
          nl    |-> TRUE]

\* The writer stops inside the record after `f`: some of its text is there, or
\* all of it but not its newline.
CutInside(f, rec) ==
    IF f.nl THEN {[lines |-> Append(f.lines, l), nl |-> FALSE] : l \in {Junk, rec}}
            ELSE {[lines |-> Append(Front(f.lines), Junk), nl |-> FALSE]}

\* What a crash during the append can leave when it falls between two records.
CleanCuts(f, recs) == {AppendRecords(f, SubSeq(recs, 1, n)) : n \in 0..Len(recs)}

\* What a crash can leave when it may also fall inside one.
TornCuts(f, recs) ==
    UNION {CutInside(AppendRecords(f, SubSeq(recs, 1, n - 1)), recs[n]) : n \in 1..Len(recs)}
==============================================================================
