----------------------------- MODULE MessagesProofs -----------------------------
(***************************************************************************)
(* Proofs about Messages: what is taken out of a buffer is what was put    *)
(* into it, and the printed lines tell their senders.                      *)
(***************************************************************************)
EXTENDS Messages, TLAPS

\* A message with n bytes of data.
Message(t, n, d) == [type |-> t, data_len |-> n, data |-> d]

LEMMA ConcatCells ==
    ASSUME NEW s \in Seq(Nat), NEW u \in Seq(Nat)
    PROVE  /\ s \o u \in Seq(Nat) /\ Len(s \o u) = Len(s) + Len(u)
           /\ \A i \in 1 .. Len(s) : (s \o u)[i] = s[i]
           /\ \A i \in 1 .. Len(u) : (s \o u)[Len(s) + i] = u[i]
  OBVIOUS

\* What msg_to_msgbuf() writes: the header's fields, then the data.
LEMMA FlatCells ==
    ASSUME NEW t \in Nat, NEW n \in Nat, NEW d \in [1 .. n -> Nat]
    PROVE  /\ Flat(Message(t, n, d)) \in Seq(Nat)
           /\ Len(Flat(Message(t, n, d))) = 2 + n
           /\ Flat(Message(t, n, d))[1] = t
           /\ Flat(Message(t, n, d))[2] = n
           /\ \A i \in 1 .. n : Flat(Message(t, n, d))[2 + i] = d[i]
<1> DEFINE h == << t, n >>
           e == [i \in 1 .. n |-> d[i]]
<1>1. h \in Seq(Nat) /\ Len(h) = 2 /\ h[1] = t /\ h[2] = n
  OBVIOUS
<1>2. e \in Seq(Nat) /\ Len(e) = n /\ \A i \in 1 .. n : e[i] = d[i]
  OBVIOUS
<1>3. Flat(Message(t, n, d)) = h \o e
  BY DEF Flat, Message
<1> HIDE DEF h, e
<1>4. /\ h \o e \in Seq(Nat) /\ Len(h \o e) = 2 + n
      /\ \A i \in 1 .. 2 : (h \o e)[i] = h[i]
      /\ \A i \in 1 .. n : (h \o e)[2 + i] = e[i]
  <2>1. /\ h \o e \in Seq(Nat) /\ Len(h \o e) = Len(h) + Len(e)
        /\ \A i \in 1 .. Len(h) : (h \o e)[i] = h[i]
        /\ \A i \in 1 .. Len(e) : (h \o e)[Len(h) + i] = e[i]
    BY <1>1, <1>2, ConcatCells
  <2> QED
    BY <1>1, <1>2, <2>1
<1> QED
  BY <1>1, <1>2, <1>3, <1>4, SMTT(40)

LEMMA OverwriteCells ==
    ASSUME NEW b \in Seq(Nat), NEW s \in Seq(Nat), Len(s) <= Len(b)
    PROVE  /\ Overwrite(b, s) \in Seq(Nat) /\ Len(Overwrite(b, s)) = Len(b)
           /\ \A i \in 1 .. Len(s) : Overwrite(b, s)[i] = s[i]
           /\ SubSeq(Overwrite(b, s), 1, Len(s)) = s
<1> DEFINE o == Overwrite(b, s)
<1>1. \A i \in 1 .. Len(b) : (IF i <= Len(s) THEN s[i] ELSE b[i]) \in Nat
  OBVIOUS
<1>2. o \in Seq(Nat) /\ Len(o) = Len(b) /\ \A i \in 1 .. Len(s) : o[i] = s[i]
  BY <1>1 DEF Overwrite
<1> HIDE DEF o
<1>3. SubSeq(o, 1, Len(s)) = s
  BY <1>2
<1> QED
  BY <1>2, <1>3 DEF o

\* A message that was copied to the beginning of a buffer, whatever was in it,
\* is the one that is read from it, if there was room (messages.c:62-76).
THEOREM RoundTrip ==
    ASSUME NEW t \in Nat, NEW n \in Nat, NEW d \in [1 .. n -> Nat],
           NEW buf \in Seq(Nat), HeaderSize + n <= Len(buf)
    PROVE  msgbuf_to_msg(msg_to_msgbuf(buf, Message(t, n, d))) = Message(t, n, d)
<1> DEFINE f == Flat(Message(t, n, d))
           o == Overwrite(buf, f)
<1>1. /\ f \in Seq(Nat)
      /\ Len(f) = 2 + n
      /\ f[1] = t
      /\ f[2] = n
      /\ \A i \in 1 .. n : f[2 + i] = d[i]
  BY FlatCells, ZenonT(60)
<1>2. \A i \in 1 .. n : f[2 + i] = d[i]
  BY <1>1, Zenon
<1> HIDE DEF f
<1>3. \A i \in 1 .. 2 + n : o[i] = f[i]
  <2>1. Len(f) <= Len(buf)
    BY <1>1 DEF HeaderSize
  <2>2. \A i \in 1 .. Len(f) : o[i] = f[i]
    BY <1>1, <2>1, OverwriteCells
  <2> QED
    BY <1>1, <2>2
<1> HIDE DEF o
<1>4. o[1] = t /\ o[2] = n
  BY <1>1, <1>3
<1>5. \A i \in 1 .. n : o[2 + i] = d[i]
  <2> SUFFICES ASSUME NEW i \in 1 .. n
               PROVE  o[2 + i] = d[i]
    OBVIOUS
  <2>1. 2 + i \in 1 .. 2 + n
    OBVIOUS
  <2>2. o[2 + i] = f[2 + i]
    BY <1>3, <2>1, Zenon
  <2> QED
    BY <1>2, <2>2
<1>6. [i \in 1 .. n |-> o[2 + i]] = d
  BY <1>5
<1>7. msgbuf_to_msg(o) = Message(t, n, d)
  BY <1>4, <1>6 DEF msgbuf_to_msg, Message, HeaderSize
<1>8. msg_to_msgbuf(buf, Message(t, n, d)) = o
  BY DEF msg_to_msgbuf, o, f
<1> QED
  BY <1>7, <1>8
------------------------------------------------------------------------------
\* The messages that the processes send.

LEMMA ParentMessage == Sent["parent"] = Message(1, 1, << 1 >>) /\ << 1 >> \in [1 .. 1 -> Nat]
<1>1. << 1 >> \in [1 .. 1 -> Nat]
  OBVIOUS
<1>2. Sent["parent"] = Message(1, 1, << 1 >>)
  BY DEF Sent, Message, MSG_LED, LED_ON
<1> QED
  BY <1>1, <1>2

Characters == [i \in 1 .. TextLength + 1 |-> IF i <= TextLength THEN i ELSE NUL]

LEMMA ChildMessage ==
    /\ TextLength + 1 \in Nat
    /\ Characters \in [1 .. TextLength + 1 -> Nat]
    /\ Sent["child"] = Message(0, TextLength + 1, Characters)
<1>1. TextLength + 1 \in Nat
  BY MessagesAssumption
<1>2. Characters \in [1 .. TextLength + 1 -> Nat]
  BY MessagesAssumption DEF Characters, NUL
<1>3. Sent["child"] = Message(0, TextLength + 1, Characters)
  BY DEF Sent, Message, Characters, MSG_STRING
<1> QED
  BY <1>1, <1>2, <1>3

LEMMA SentMessages ==
    ASSUME NEW p \in {"parent", "child"}
    PROVE  \E t \in Nat, n \in Nat : \E d \in [1 .. n -> Nat] : Sent[p] = Message(t, n, d)
<1>1. CASE p = "parent"
  BY <1>1, ParentMessage
<1>2. CASE p = "child"
  BY <1>2, ChildMessage
<1> QED
  BY <1>1, <1>2

\* The cells that are sent.
LEMMA SentFlat ==
    ASSUME NEW p \in {"parent", "child"}
    PROVE  /\ Sent[p].data_len \in Nat
           /\ Flat(Sent[p]) \in Seq(Nat)
           /\ Len(Flat(Sent[p])) = HeaderSize + Sent[p].data_len
<1>1. PICK t \in Nat, n \in Nat : \E d \in [1 .. n -> Nat] : Sent[p] = Message(t, n, d)
  BY SentMessages
<1>2. PICK d \in [1 .. n -> Nat] : Sent[p] = Message(t, n, d)
  BY <1>1
<1>3. Sent[p].data_len = n
  BY <1>2 DEF Message
<1>4. Flat(Message(t, n, d)) \in Seq(Nat) /\ Len(Flat(Message(t, n, d))) = 2 + n
  BY FlatCells, ZenonT(60)
<1> QED
  BY <1>2, <1>3, <1>4 DEF HeaderSize

\* What is read of them from a buffer that they fit in.
LEMMA SentArrives ==
    ASSUME NEW p \in {"parent", "child"}, NEW buf \in Seq(Nat),
           HeaderSize + Sent[p].data_len <= Len(buf)
    PROVE  msgbuf_to_msg(Overwrite(buf, Flat(Sent[p]))) = Sent[p]
<1>1. PICK t \in Nat, n \in Nat : \E d \in [1 .. n -> Nat] : Sent[p] = Message(t, n, d)
  BY SentMessages
<1>2. PICK d \in [1 .. n -> Nat] : Sent[p] = Message(t, n, d)
  BY <1>1
<1>3. Sent[p].data_len = n
  BY <1>2 DEF Message
<1>4. msgbuf_to_msg(msg_to_msgbuf(buf, Message(t, n, d))) = Message(t, n, d)
  BY <1>3, RoundTrip
<1> QED
  BY <1>2, <1>4 DEF msg_to_msgbuf

\* The part of the sender's buffer that is sent.
LEMMA SentPart ==
    ASSUME NEW p \in {"parent", "child"}, NEW buf \in Seq(Nat),
           HeaderSize + Sent[p].data_len <= Len(buf)
    PROVE  SubSeq(msg_to_msgbuf(buf, Sent[p]), 1, HeaderSize + Sent[p].data_len) = Flat(Sent[p])
<1>1. /\ Flat(Sent[p]) \in Seq(Nat)
      /\ Len(Flat(Sent[p])) = HeaderSize + Sent[p].data_len
  BY SentFlat
<1>2. SubSeq(Overwrite(buf, Flat(Sent[p])), 1, Len(Flat(Sent[p]))) = Flat(Sent[p])
  BY <1>1, OverwriteCells
<1> QED
  BY <1>1, <1>2 DEF msg_to_msgbuf

\* A buffer of size N that p's message fits in, as its sender and its receiver use it.
LEMMA SentBuffer ==
    ASSUME NEW p \in {"parent", "child"}, NEW N \in Nat, NEW b \in [1 .. N -> Nat],
           HeaderSize + Sent[p].data_len <= N
    PROVE  /\ Overwrite(b, Flat(Sent[p])) \in [1 .. N -> Nat]
           /\ msgbuf_to_msg(Overwrite(b, Flat(Sent[p]))) = Sent[p]
           /\ SubSeq(msg_to_msgbuf(b, Sent[p]), 1, HeaderSize + Sent[p].data_len) = Flat(Sent[p])
<1>1. b \in Seq(Nat) /\ Len(b) = N
  OBVIOUS
<1>2. HeaderSize + Sent[p].data_len <= Len(b)
  BY <1>1
<1>3. Flat(Sent[p]) \in Seq(Nat) /\ Len(Flat(Sent[p])) <= Len(b)
  BY <1>2, SentFlat
<1>4. /\ Overwrite(b, Flat(Sent[p])) \in Seq(Nat)
      /\ Len(Overwrite(b, Flat(Sent[p]))) = N
  BY <1>1, <1>3, OverwriteCells
<1>5. Overwrite(b, Flat(Sent[p])) \in [1 .. N -> Nat]
  BY <1>4
<1> QED
  BY <1>1, <1>2, <1>5, SentArrives, SentPart

LEMMA FlatsDiffer == Flat(Sent["parent"]) # Flat(Sent["child"])
<1>1. Flat(Sent["parent"])[1] = 1
  <2>1. Flat(Message(1, 1, << 1 >>))[1] = 1
    BY ParentMessage, FlatCells, ZenonT(60)
  <2> QED
    BY <2>1, ParentMessage
<1>2. Flat(Sent["child"])[1] = 0
  <2>1. Flat(Message(0, TextLength + 1, Characters))[1] = 0
    BY ChildMessage, FlatCells, ZenonT(60)
  <2> QED
    BY <2>1, ChildMessage
<1> QED
  BY <1>1, <1>2
------------------------------------------------------------------------------
\* The lines that are printed.

LEMMA ParentLine ==
    /\ msg_to_str(Sent["parent"]) = << 1, 1 >>
    /\ << 1, 1 >> \in Seq(Nat) /\ Len(<< 1, 1 >>) = 2 /\ << 1, 1 >>[1] = 1
<1>1. msg_to_str(Message(1, 1, << 1 >>)) = << 1, 1 >>
  BY DEF msg_to_str, Message, MSG_LED, MSG_STRING
<1>2. << 1, 1 >> \in Seq(Nat) /\ Len(<< 1, 1 >>) = 2 /\ << 1, 1 >>[1] = 1
  OBVIOUS
<1> QED
  BY <1>1, <1>2, ParentMessage

LEMMA ChildLine ==
    /\ msg_to_str(Sent["child"]) \in Seq(Nat)
    /\ Len(msg_to_str(Sent["child"])) >= 2
    /\ msg_to_str(Sent["child"])[1] = 0
<1> DEFINE L == TextLength + 1
           C == Characters
           M == Message(0, L, C)
           e == CHOOSE n \in 1 .. M.data_len :
                   M.data[n] = NUL /\ \A i \in 1 .. n - 1 : M.data[i] # NUL
           chars == [i \in 1 .. e - 1 |-> M.data[i]]
           h == << M.type, M.data_len >>
<1>1. L \in Nat /\ L >= 1 /\ L \in 1 .. L
  BY MessagesAssumption
<1>2. C \in [1 .. L -> Nat]
  BY ChildMessage
<1>3. C[L] = NUL /\ \A i \in 1 .. L - 1 : C[i] # NUL
  <2>1. C[L] = NUL
    BY MessagesAssumption DEF Characters
  <2>2. ASSUME NEW i \in 1 .. L - 1
        PROVE  C[i] # NUL
    <3>1. i \in 1 .. TextLength + 1 /\ i <= TextLength /\ i # 0
      BY MessagesAssumption
    <3> QED
      BY <3>1 DEF Characters, NUL
  <2> QED
    BY <2>1, <2>2
<1>4. M.type = 0 /\ M.data_len = L /\ M.data = C
  BY DEF Message
<1>5. Sent["child"] = M
  BY ChildMessage
<1> HIDE DEF L, C, M
<1>6. M.data[L] = NUL /\ \A i \in 1 .. L - 1 : M.data[i] # NUL
  BY <1>3, <1>4
<1>7. msg_to_str(M) = h \o chars
  <2>1. \E n \in 1 .. M.data_len : M.data[n] = NUL
    BY <1>1, <1>4, <1>6
  <2>2. M.type = MSG_STRING /\ M.type # MSG_LED
    BY <1>4 DEF MSG_STRING, MSG_LED
  <2> QED
    BY <2>1, <2>2, Zenon DEF msg_to_str
<1>8. e \in 1 .. L
  BY <1>1, <1>4, <1>6
<1> HIDE DEF e
<1>9. chars \in Seq(Nat)
  <2>1. e - 1 \in Nat /\ \A i \in 1 .. e - 1 : M.data[i] \in Nat
    BY <1>1, <1>2, <1>4, <1>8
  <2> QED
    BY <2>1
<1>10. h \in Seq(Nat) /\ Len(h) = 2 /\ h[1] = 0
  BY <1>1, <1>4
<1> HIDE DEF h, chars
<1> DEFINE line == h \o chars
<1>11. line \in Seq(Nat) /\ Len(line) >= 2 /\ line[1] = 0
  <2>1. /\ line \in Seq(Nat) /\ Len(line) = Len(h) + Len(chars)
        /\ \A i \in 1 .. Len(h) : line[i] = h[i]
    BY <1>9, <1>10, ConcatCells
  <2>2. Len(chars) \in Nat
    BY <1>9
  <2> HIDE DEF line
  <2> QED
    BY <1>10, <2>1, <2>2
<1> HIDE DEF line
<1>12. msg_to_str(Sent["child"]) = line
  BY <1>5, <1>7 DEF line
<1> QED
  BY <1>11, <1>12

\* Every line is known for its sender's.
LEMMA Authors ==
    /\ Author(Nothing) = "nobody"
    /\ \A p \in {"parent", "child"} :
          /\ Author(msg_to_str(Sent[p])) = p
          /\ msg_to_str(Sent[p]) \in Seq(Nat)
          /\ msg_to_str(Sent[p]) # Nothing
<1> DEFINE a == msg_to_str(Sent["parent"])
           b == msg_to_str(Sent["child"])
<1>1. a \in Seq(Nat) /\ Len(a) = 2 /\ a[1] = 1
  BY ParentLine
<1>2. b \in Seq(Nat) /\ Len(b) >= 2 /\ b[1] = 0
  BY ChildLine
<1>3. Nothing \in Seq(Nat) /\ Len(Nothing) = 0
  BY DEF Nothing
<1> HIDE DEF a, b
<1>4. a # Nothing /\ b # Nothing
  BY <1>1, <1>2, <1>3
<1>5. a # b
  BY <1>1, <1>2
<1>6. Author(Nothing) = "nobody"
  BY <1>4 DEF Author, a, b
<1>7. Author(a) = "parent"
  BY <1>4, <1>5 DEF Author, a, b
<1>8. Author(b) = "child"
  BY <1>4, <1>5 DEF Author, a, b
<1> QED
  BY <1>1, <1>2, <1>4, <1>6, <1>7, <1>8 DEF a, b
==============================================================================
