-------------------------- MODULE DurableTranscript --------------------------
(* What the session file promises its user: load() returns the transcript of  *)
(* the last save, and a save cut short by a crash leaves the transcript of    *)
(* before, that of after, or the former with some of what was being added.    *)
EXTENDS Sequences, SequencesExt, Integers

CONSTANTS Transcript        \* the set of transcripts (sequences of messages)

VARIABLES mem,              \* the caller's transcript
          msgs, done        \* what is stored (nothing yet: <<>> and "open")

vars == <<mem, msgs, done>>

Init == /\ mem = <<>>
        /\ msgs \in Transcript
        /\ done = "open"

\* The conversation goes on, is compacted, or a new one is begun.
Edit == /\ mem' \in Transcript
        /\ UNCHANGED <<msgs, done>>

Load == /\ mem' = msgs
        /\ UNCHANGED <<msgs, done>>

Save == /\ msgs' = mem
        /\ done' \in {"open", "done"}
        /\ UNCHANGED mem

\* The process stops: between two saves, or in the middle of one.
Crash == /\ mem' = <<>>
         /\ \/ UNCHANGED <<msgs, done>>
            \/ /\ msgs' \in {msgs, mem} \cup {p \in Prefixes(mem) : IsPrefix(msgs, p)}
               /\ done' \in {"open", "done"}

Clear == /\ msgs' = <<>>
         /\ done' = "open"
         /\ UNCHANGED mem

Next == Edit \/ Load \/ Save \/ Crash \/ Clear

Spec == Init /\ [][Next]_vars
==============================================================================
