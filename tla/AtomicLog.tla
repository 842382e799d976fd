------------------------------ MODULE AtomicLog ------------------------------
(***************************************************************************)
(* What logging.h:47-52 promises of the log file: lines are added "as an   *)
(* atomic unit".  The log is a sequence of whole lines; one step appends   *)
(* one line, of a call that has not been logged before, and nothing else   *)
(* ever changes.                                                           *)
(***************************************************************************)
EXTENDS Naturals, Sequences

CONSTANT Call   \* the calls of the logging interface that are ever made

VARIABLE lines

\* The three pieces that log_varg() prints for a call, in order.
Line(c) == << [call |-> c, part |-> "time"],
              [call |-> c, part |-> "name"],
              [call |-> c, part |-> "body"] >>

Logged(c) == \E i \in 1 .. Len(lines) : lines[i] = Line(c)

Init == lines = << >>

LogLine(c) == /\ ~ Logged(c)
              /\ lines' = Append(lines, Line(c))

Next == \E c \in Call : LogLine(c)

Spec == Init /\ [][Next]_lines
==============================================================================
