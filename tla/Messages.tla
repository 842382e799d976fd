------------------------------- MODULE Messages -------------------------------
(***************************************************************************)
(* The messages of hw4/p2 (messages.c): a header with a type and a data    *)
(* length, and data of that length.  A message is copied into a flat       *)
(* buffer to be sent, and out of one when it has been received; what a     *)
(* process has received it prints.                                         *)
(*                                                                         *)
(* Memory is a sequence of cells, which hold numbers: a cell for each      *)
(* field of the header, then one for each byte of the data.                *)
(***************************************************************************)
EXTENDS Naturals, Sequences

CONSTANT TextLength  \* strlen(test_string)

ASSUME MessagesAssumption == TextLength \in Nat

MSG_STRING == 0
MSG_LED    == 1
LED_ON     == 1
NUL        == 0

HeaderSize == 2

\* The messages that the processes build.  The characters of the string are 1,
\* 2 and so on.
Sent ==
    [parent |-> [type |-> MSG_LED, data_len |-> 1, data |-> << LED_ON >>],
     child  |-> [type |-> MSG_STRING, data_len |-> TextLength + 1,
                 data |-> [i \in 1 .. TextLength + 1 |-> IF i <= TextLength THEN i ELSE NUL]]]

\* memcpy(): buf, with s written over its beginning.
Overwrite(buf, s) == [i \in 1 .. Len(buf) |-> IF i <= Len(s) THEN s[i] ELSE buf[i]]

\* Mutant: the data begins where the second field of the header does.
FlatShort(msg) == << msg.type >> \o [i \in 1 .. msg.data_len |-> msg.data[i]]

\* The cells that msg_to_msgbuf() writes, and whose number it returns.
Flat(msg) == << msg.type, msg.data_len >> \o [i \in 1 .. msg.data_len |-> msg.data[i]]

msg_to_msgbuf(buf, msg) == Overwrite(buf, Flat(msg))

\* Mutant: the data is taken to be all that follows the header.
FromAllOfBuffer(buf) ==
    [type |-> buf[1], data_len |-> Len(buf) - HeaderSize,
     data |-> [i \in 1 .. Len(buf) - HeaderSize |-> buf[HeaderSize + i]]]

msgbuf_to_msg(buf) == [type |-> buf[1], data_len |-> buf[2],
                       data |-> [i \in 1 .. buf[2] |-> buf[HeaderSize + i]]]

\* What is printed instead of a string that is not terminated; nothing printed.
Garbage == << MSG_STRING >>
Nothing == << >>

\* The line that msg_to_str() makes: for a string its length as the header has
\* it, and its characters; for an LED its state; the type of any other message.
msg_to_str(msg) ==
    CASE msg.type = MSG_STRING ->
            IF \E n \in 1 .. msg.data_len : msg.data[n] = NUL
            THEN LET n == CHOOSE n \in 1 .. msg.data_len :
                             msg.data[n] = NUL /\ \A i \in 1 .. n - 1 : msg.data[i] # NUL
                 IN  << msg.type, msg.data_len >> \o [i \in 1 .. n - 1 |-> msg.data[i]]
            ELSE Garbage
      [] msg.type = MSG_LED -> << msg.type, msg.data[1] >>
      [] OTHER              -> << msg.type >>

\* Who sent what has been printed as line?
Author(line) == CASE line = Nothing                    -> "nobody"
                  [] line = msg_to_str(Sent["parent"]) -> "parent"
                  [] line = msg_to_str(Sent["child"])  -> "child"
                  [] OTHER                             -> "unknown"
==============================================================================
