----------------------------- MODULE NetMonitor -----------------------------
(***************************************************************************)
(* The network monitor (net_monitor/net_monitor.c): nm_report_rtt(),       *)
(* nm_report_loss() and nm_report_stats() run ping and cut its summary     *)
(* into the files .rtt and .loss with shell commands, one at a time.  The  *)
(* files are those of the working directory, whoever else works there.     *)
(***************************************************************************)
EXTENDS Naturals, Sequences, SequencesExt

NoFile == <<>>               \* a file that is not there; <<lines>> is one that is
NmNames == {".temp.txt", ".rtt", ".loss"}
NoFiles == [f \in NmNames |-> NoFile]

\* A line of a summary is the word grep looks for and the fields cut -f
\* finds in it.
Cut(text, word, n) ==
    LET found == SelectSeq(text, LAMBDA l : l.word = word)
    IN  [i \in DOMAIN found |-> IF n \in DOMAIN found[i].fields THEN found[i].fields[n] ELSE "none"]

(* The commands of the three functions, in their order. *)
RttCommands(i) == <<[do |-> "cut", file |-> ".rtt", word |-> "rtt", n |-> i],
                    [do |-> "read", file |-> ".rtt", to |-> <<"min", "avg", "max">>[i]],
                    [do |-> "rm", file |-> ".rtt"]>>
SecondField == 2
LossField == 3
LossCommands == <<[do |-> "cut", file |-> ".loss", word |-> "loss", n |-> LossField],
                  [do |-> "read", file |-> ".loss", to |-> "loss"],
                  [do |-> "rm", file |-> ".loss"]>>
Around(commands) == <<[do |-> "ping", file |-> ".temp.txt"]>> \o commands \o <<[do |-> "rm", file |-> ".temp.txt"]>>
AllRtt == RttCommands(1) \o RttCommands(2) \o RttCommands(3)

Script(fn) ==
    CASE fn = "nm_report_rtt" -> Around(AllRtt)
      [] fn = "nm_report_loss" -> Around(LossCommands)
      [] fn = "nm_report_stats" -> Around(AllRtt \o LossCommands)

\* A caller: what is left to do, the buffer c (junk until something is read
\* into it), and what it returns; ping prints `prints`.
Caller(fn, prints) ==
    [todo |-> Script(fn), c |-> "junk", stat |-> [v \in {"min", "avg", "max", "loss"} |-> "unset"],
     prints |-> prints, over |-> FALSE]

\* fread() of an empty file leaves the buffer as it was; otherwise the
\* number ends at the newline, whatever the buffer still holds after it.
Fread(c, lines) == IF lines = <<>> THEN c ELSE lines[1]

(* One command of a caller, and the files afterwards.  "fails" is a        *)
(* system() that cannot run a shell; fopen() fails when the file is gone.  *)
(* Both end the process with exit(0).                                      *)
MonitorStep(files, p, fails) ==
    LET cmd == Head(p.todo)
        next == [p EXCEPT !.todo = Tail(@)]
        Did(f, q) == [files |-> f, p |-> q]
        exit == Did(files, [p EXCEPT !.over = TRUE, !.todo = <<>>])
        written == IF cmd.do = "ping" THEN p.prints
                   ELSE Cut(IF files[".temp.txt"] = NoFile THEN <<>> ELSE files[".temp.txt"][1], cmd.word, cmd.n)
    IN  CASE cmd.do \in {"ping", "cut"} -> IF fails THEN exit ELSE Did([files EXCEPT ![cmd.file] = <<written>>], next)
          [] cmd.do = "rm" -> Did(IF fails THEN files ELSE [files EXCEPT ![cmd.file] = NoFile], next)
          [] cmd.do = "read" ->
                 IF files[cmd.file] = NoFile THEN exit
                 ELSE LET c == Fread(p.c, files[cmd.file][1])
                      IN  Did(files, [next EXCEPT !.c = c, !.stat[cmd.to] = c])

=============================================================================
