------------------------------ MODULE FileCopy ------------------------------
(***************************************************************************)
(* What a transfer promises to the two people at its ends, without chunks, *)
(* keys, messages or a stream.  Transfer implements it.                    *)
(***************************************************************************)
EXTENDS Naturals, Sequences

CONSTANT Files   \* the contents a file may have

VARIABLES
  source,    \* the file to be copied
  changed,   \* someone has changed it since the sender opened it
  nothing,   \* the sender found it empty
  copy,      \* the receiver's file
  sender,    \* "new", "running", "finished" or "failed"
  receiver   \* the same, as the two ends report it

vars == <<source, changed, nothing, copy, sender, receiver>>

Init ==
  /\ source \in Files
  /\ changed = FALSE /\ nothing = TRUE
  /\ copy = <<>>
  /\ sender = "new" /\ receiver = "running"

\* s is a beginning of t.
Begins(s, t) == Len(s) <= Len(t) /\ \A i \in 1 .. Len(s) : s[i] = t[i]

Open ==
  /\ sender = "new"
  /\ sender' = "running"
  /\ nothing' = (source = <<>>)
  /\ UNCHANGED <<source, changed, copy, receiver>>

\* Nothing is promised about the contents of a copy of a changing file.
Change ==
  /\ sender = "running"
  /\ source' \in Files
  /\ changed' = TRUE
  /\ UNCHANGED <<nothing, copy, sender, receiver>>

\* The copy grows with the next bytes of the source; nothing that was written
\* is taken back.  A receiver may fail in the middle of it.
Grow ==
  /\ receiver = "running"
  /\ Begins(copy, copy')
  /\ ~changed => Begins(copy', source)
  /\ receiver' \in {"running", "failed"}
  /\ UNCHANGED <<source, changed, nothing, sender>>

\* The receiver reports success for a complete copy only ...
Receive ==
  /\ receiver = "running"
  /\ ~changed => copy = source
  /\ receiver' = "finished"
  /\ UNCHANGED <<source, changed, nothing, copy, sender>>

\* ... and the sender only after the receiver has, or when there was nothing
\* to send.
Send ==
  /\ sender = "running"
  /\ receiver = "finished" \/ nothing
  /\ sender' = "finished"
  /\ UNCHANGED <<source, changed, nothing, copy, receiver>>

SenderFails ==
  /\ sender \in {"new", "running"}
  /\ sender' = "failed"
  /\ UNCHANGED <<source, changed, nothing, copy, receiver>>

Next == Open \/ Change \/ Grow \/ Receive \/ Send \/ SenderFails

Spec == Init /\ [][Next]_vars
=============================================================================
