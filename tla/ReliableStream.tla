--------------------------- MODULE ReliableStream ---------------------------
(***************************************************************************)
(* What a reliable transport function promises the two applications: the   *)
(* receiver reads what the sender wrote, in order, once each, unchanged,   *)
(* and nothing before it is written.                                       *)
(***************************************************************************)
EXTENDS Naturals, Sequences

CONSTANT Message

VARIABLES written, read

Init == written = << >> /\ read = << >>

Write(m) == written' = Append(written, m) /\ UNCHANGED read

Read ==
    /\ Len(read) < Len(written)
    /\ read' = Append(read, written[Len(read) + 1])
    /\ UNCHANGED written

Next == (\E m \in Message : Write(m)) \/ Read

Spec == Init /\ [][Next]_<<written, read>>
=============================================================================
