-------------------------------- MODULE Letters --------------------------------
(***************************************************************************)
(* The letter counter of hw3 (letter_counter() in letters.c) as a client   *)
(* of the linked list library: it builds a list with a node for every      *)
(* letter, finds the node of each letter of its file by the offset from    *)
(* the head, and walks down the list to report the letters that occur      *)
(* LETTER_COUNT_TARGET times.  Module Hw3 is about its life as a thread.   *)
(*                                                                         *)
(* Characters are their ASCII codes, and the alphabet may end before Z.    *)
(***************************************************************************)
EXTENDS LinkedList

CONSTANTS LastLetter,           \* 'Z'
          Character,            \* the characters of which files consist
          LETTER_COUNT_TARGET,
          MaxFile               \* bound: the length of a file

FirstLetter == 65               \* 'A'
Alphabet    == FirstLetter .. LastLetter

ASSUME LettersAssumption == /\ LastLetter \in 66 .. 90
                            /\ Cardinality(Node) >= Cardinality(Alphabet)
                            /\ Cardinality(Alphabet) <= MaxOffset
                            /\ Character \subseteq 0 .. 255
                            /\ LETTER_COUNT_TARGET \in Nat \ {0} /\ MaxFile \in Nat

VARIABLES pc,             \* what letter_counter() does next
          ch,             \* its variables
          p_count,
          letter, count,  \* letter[n], count[n]: of the count_t that contains node n
          file,           \* the characters read so far
          reported        \* the letters that it has reported

counterVars == << pc, ch, p_count, letter, count, file, reported >>

CounterInit == /\ Init
               /\ ch = LastLetter
               /\ p_count = NULL
               /\ letter = [n \in Node |-> 0]
               /\ count = [n \in Node |-> 0]
               /\ file = << >>
               /\ reported = << >>

LettersInit == CounterInit /\ pc = "open"
------------------------------------------------------------------------------
OpenFile == /\ pc = "open"
            /\ pc' \in {"allocate", "return"}
            /\ UNCHANGED << vars, ch, p_count, letter, count, file, reported >>

AllocateCount == /\ pc = "allocate" /\ ch >= FirstLetter
                 /\ \E n \in Node : /\ Malloc(n)
                                    /\ p_count' = n
                                    /\ letter' = [letter EXCEPT ![n] = ch]
                                    /\ count' = [count EXCEPT ![n] = 0]
                 /\ pc' = "insert"
                 /\ UNCHANGED << ch, file, reported >>

\* Mutant: the letters are put into the list in their order.
InsertCountAtEnd == /\ pc = "insert"
                    /\ insert_at_end(p_count)
                    /\ ch' = ch - 1
                    /\ pc' = "allocate"
                    /\ UNCHANGED << memVars, p_count, letter, count, file, reported >>

InsertCount == /\ pc = "insert"
               /\ insert_at_beginning(p_count)
               /\ ch' = ch - 1
               /\ pc' = "allocate"
               /\ UNCHANGED << memVars, p_count, letter, count, file, reported >>

ListBuilt == /\ pc = "allocate" /\ ch < FirstLetter
             /\ pc' = "read"
             /\ UNCHANGED << vars, ch, p_count, letter, count, file, reported >>

\* inchar & ~0x20: bit 5 is cleared, which turns lower case into upper case.
Upper(c) == IF (c \div 32) % 2 = 1 THEN c - 32 ELSE c

CountChar == /\ pc = "read" /\ Len(file) < MaxFile
             /\ \E c \in Character :
                   /\ file' = Append(file, c)
                   /\ IF Upper(c) \in Alphabet
                      THEN LET n == get_offset(prev, next, p_head, Upper(c) - FirstLetter)
                           IN  /\ p_count' = n
                               /\ count' = [count EXCEPT ![n] = @ + 1]
                      ELSE UNCHANGED << p_count, count >>
             /\ UNCHANGED << vars, pc, ch, letter, reported >>

EndOfFile == /\ pc = "read"
             /\ pc' = "report"
             /\ walking' = TRUE
             /\ UNCHANGED << prev, next, p_head, allocated, ch, p_count, letter, count,
                             file, reported >>

ReportCount == /\ pc = "report" /\ p_head # NULL
               /\ p_count' = p_head
               /\ reported' = IF count[p_head] = LETTER_COUNT_TARGET
                              THEN Append(reported, letter[p_head]) ELSE reported
               /\ p_head' = next[p_head]
               /\ UNCHANGED << prev, next, memVars, pc, ch, letter, count, file >>

\* The nodes are never freed.
Return == /\ pc = "report" /\ p_head = NULL
          /\ pc' = "return"
          /\ UNCHANGED << vars, ch, p_count, letter, count, file, reported >>

LettersNext == \/ OpenFile \/ AllocateCount \/ InsertCount \/ ListBuilt
               \/ CountChar \/ EndOfFile \/ ReportCount \/ Return

LettersSpec == LettersInit /\ [][LettersNext]_<< vars, counterVars >>
------------------------------------------------------------------------------
Occurrences(l) == Cardinality({i \in 1 .. Len(file) : file[i] \in {l, l + 32}})

\* When the counter returns it has reported, in the order of the alphabet, the
\* letters that occur in the file so many times, in upper or lower case, each of
\* them once, and characters just outside of the alphabet have been counted for
\* none (letters.c:41-63).
ReportsExact ==
    pc = "return" =>
        /\ \A i \in 2 .. Len(reported) : reported[i - 1] < reported[i]
        /\ {reported[i] : i \in 1 .. Len(reported)}
               = {l \in Alphabet : Occurrences(l) = LETTER_COUNT_TARGET}
==============================================================================
