----------------------------- MODULE ShmemProofs -----------------------------
(***************************************************************************)
(* Proofs about Shmem: its types, that a process finds the message of the  *)
(* other one in its mailbox, and that it implements Exchange, for every    *)
(* length of the text, every size of the segments, every number of         *)
(* executions and every choice of the calls that may fail.                 *)
(***************************************************************************)
EXTENDS Shmem, MessagesProofs, WellFoundedInduction

\* Where in its program a process does what.
HeaderAt     == [parent |-> 5,  child |-> 8]
DataAt       == [parent |-> 6,  child |-> 9]
PostAt       == [parent |-> 7,  child |-> 10]
WaitAt       == [parent |-> 8,  child |-> 5]
ReadHeaderAt == [parent |-> 9,  child |-> 6]
ReadDataAt   == [parent |-> 10, child |-> 7]

\* p has executed the label at position k.
Past(p, k) == pc[p] > k /\ pc[p] # Failed

Beginning(cells) == SubSeq(cells, 1, HeaderSize)
FlatOf(p)        == Flat(Sent[p])
Line(p)          == msg_to_str(Sent[Peer[p]])
Headers          == {<< 0, 0 >>, Beginning(FlatOf("parent")), Beginning(FlatOf("child"))}
------------------------------------------------------------------------------
\* Of every execution: the handles that a process has where it is,
HandlesOK ==
    \A p \in Process :
        /\ Past(p, 1) => write_sem[p] # None
        /\ Past(p, 2) => read_sem[p]  # None
        /\ Past(p, 3) => read_shm[p]  # None
        /\ Past(p, 4) => write_shm[p] # None
        /\ pc[p] <= 1 => write_sem[p] = None
        /\ pc[p] <= 2 => read_sem[p]  = None
        /\ pc[p] <= 3 => read_shm[p]  = None
        /\ pc[p] <= 4 => write_shm[p] = None

\* how often each of them has posted, and has created a semaphore or a segment,
\* at most,
Posts(p) == IF pc[p] > PostAt[p] THEN 1 ELSE 0
SemOpens(p) == IF pc[p] > 2 THEN 2 ELSE pc[p] - 1
ShmOpens(p) == IF pc[p] > 4 THEN 2 ELSE IF pc[p] = 4 THEN 1 ELSE 0

CountOK == \A o \in Object : count[o] <= 2 * (run - 1) + Posts("parent") + Posts("child")
MadeOK  == /\ made.sem <= 4 * (run - 1) + SemOpens("parent") + SemOpens("child")
           /\ made.shm <= 4 * (run - 1) + ShmOpens("parent") + ShmOpens("child")

\* and the headers that there are in mailboxes and that are read from them.
ContentsOK == /\ \A o \in Object : Beginning(mail[o]) \in Headers
              /\ \A p \in Process : pc[p] = ReadDataAt[p] => header[p] \in Headers

\* Of the first execution: the objects that are or were under the name of n's
\* mailbox, and are open by a process, are one object; that of the other mailbox
\* is another one; a name that is gone was not there yet, or had been opened by
\* both processes.
Under(name, reads, writes, n) == {name[n], reads[n], writes[Peer[n]]}

NamesOK(name, reads, writes, m) ==
    \A n \in Process :
        /\ \A a \in Under(name, reads, writes, n) : a <= m
        /\ \A a, b \in Under(name, reads, writes, n) : a # None /\ b # None => a = b
        /\ \A a \in Under(name, reads, writes, n), b \in Under(name, reads, writes, Peer[n]) :
              a = b => a = None
        /\ name[n] = None => (reads[n] = None <=> writes[Peer[n]] = None)

ShmNames == Fresh => NamesOK(shm, read_shm, write_shm, made.shm)
SemNames == Fresh => NamesOK(sem, read_sem, write_sem, made.sem)

\* A process passes its sem_wait() only when the other one has posted.
WaitOK == Fresh =>
    /\ \A o \in Object : count[o] > 0 =>
          \E q \in Process : Past(q, PostAt[q]) /\ write_sem[q] = o
    /\ \A p \in Process : Past(p, WaitAt[p]) => Past(Peer[p], PostAt[Peer[p]])

\* What a process has written is there, and what it has read is that.
MailOK == Fresh =>
    \A p \in Process :
        /\ Past(p, 4) => size[write_shm[p]]
        /\ Past(p, HeaderAt[p]) => Beginning(mail[write_shm[p]]) = Beginning(FlatOf(p))
        /\ Past(p, DataAt[p]) => SubSeq(mail[write_shm[p]], 1, Len(FlatOf(p))) = FlatOf(p)

ReadOK == Fresh =>
    \A p \in Process :
        /\ pc[p] # Sigbus
        /\ pc[p] = ReadDataAt[p] => header[p] = Beginning(FlatOf(Peer[p]))
        /\ printed[p] \in {Nothing, Line(p)}
        /\ printed[p] # Nothing => Past(p, ReadDataAt[p])

IInv == /\ TypeOK /\ HandlesOK /\ CountOK /\ MadeOK /\ ContentsOK
        /\ ShmNames /\ SemNames /\ WaitOK /\ MailOK /\ ReadOK
------------------------------------------------------------------------------
LEMMA Peers == \A p \in Process : Peer[p] \in Process /\ Peer[p] # p /\ Peer[Peer[p]] = p
  BY DEF Process, Peer

\* Which label is at a position.
ParentLabel(k) ==
    CASE k = 1 -> << "open_write_sem", "child" >> [] k = 2 -> << "open_read_sem", "parent" >>
      [] k = 3 -> << "map_read", "parent" >>      [] k = 4 -> << "map_write", "child" >>
      [] k = 5 -> << "write_header", "child" >>   [] k = 6 -> << "write_data", "child" >>
      [] k = 7 -> << "post", "child" >>           [] k = 8 -> << "wait", "parent" >>
      [] k = 9 -> << "read_header", "parent" >>   [] k = 10 -> << "read_data", "parent" >>
      [] k = 11 -> << "unlink_shm", "parent" >>   [] k = 12 -> << "unlink_shm", "child" >>
      [] k = 13 -> << "unlink_sem", "child" >>    [] k = 14 -> << "unlink_sem", "parent" >>
      [] k = 15 -> << "done", "parent" >>

LEMMA ParentLabels == \A k \in 1 .. 15 : Program["parent"][k] = ParentLabel(k)
  BY DEF Program, ParentLabel, UnlinkAll, Peer

ChildLabel(k) ==
    CASE k = 1 -> << "open_write_sem", "parent" >> [] k = 2 -> << "open_read_sem", "child" >>
      [] k = 3 -> << "map_read", "child" >>        [] k = 4 -> << "map_write", "parent" >>
      [] k = 5 -> << "wait", "child" >>            [] k = 6 -> << "read_header", "child" >>
      [] k = 7 -> << "read_data", "child" >>       [] k = 8 -> << "write_header", "parent" >>
      [] k = 9 -> << "write_data", "parent" >>     [] k = 10 -> << "post", "parent" >>
      [] k = 11 -> << "unlink_shm", "child" >>     [] k = 12 -> << "unlink_shm", "parent" >>
      [] k = 13 -> << "unlink_sem", "child" >>     [] k = 14 -> << "unlink_sem", "parent" >>
      [] k = 15 -> << "done", "child" >>

LEMMA ChildLabels == \A k \in 1 .. 15 : Program["child"][k] = ChildLabel(k)
  BY DEF Program, ChildLabel, UnlinkAll, Peer

\* Where a process is when it executes a label, and for whose mailbox.
LEMMA Where ==
    ASSUME TypeOK, NEW p \in Process, NEW n \in Process
    PROVE  /\ At(p, "open_write_sem", n) => pc[p] = 1 /\ n = Peer[p]
           /\ At(p, "open_read_sem", n)  => pc[p] = 2 /\ n = p
           /\ At(p, "map_read", n)       => pc[p] = 3 /\ n = p
           /\ At(p, "map_write", n)      => pc[p] = 4 /\ n = Peer[p]
           /\ At(p, "write_header", n)   => pc[p] = HeaderAt[p]
           /\ At(p, "write_data", n)     => pc[p] = DataAt[p]
           /\ At(p, "post", n)           => pc[p] = PostAt[p]
           /\ At(p, "wait", n)           => pc[p] = WaitAt[p]
           /\ At(p, "read_header", n)    => pc[p] = ReadHeaderAt[p]
           /\ At(p, "read_data", n)      => pc[p] = ReadDataAt[p]
           /\ At(p, "unlink_shm", n)     => pc[p] \in 11 .. 12
           /\ At(p, "unlink_sem", n)     => pc[p] \in 13 .. 14
<1>1. pc[p] \in 1 .. 17
  BY DEF TypeOK, Sigbus
<1>2. CASE p = "parent"
  <2>1. \A l : At(p, l, n) => pc[p] \in 1 .. 15 /\ ParentLabel(pc[p]) = << l, n >>
    BY <1>1, <1>2, ParentLabels DEF At, Last
  <2> QED
    BY <1>2, <2>1 DEF ParentLabel, Peer, HeaderAt, DataAt, PostAt, WaitAt, ReadHeaderAt, ReadDataAt
<1>3. CASE p = "child"
  <2>1. \A l : At(p, l, n) => pc[p] \in 1 .. 15 /\ ChildLabel(pc[p]) = << l, n >>
    BY <1>1, <1>3, ChildLabels DEF At, Last
  <2> QED
    BY <1>3, <2>1 DEF ChildLabel, Peer, HeaderAt, DataAt, PostAt, WaitAt, ReadHeaderAt, ReadDataAt
<1> QED
  BY <1>2, <1>3 DEF Process

\* The order in which a process comes there.
LEMMA Order ==
    \A p \in Process :
        /\ {HeaderAt[p], DataAt[p], PostAt[p], WaitAt[p], ReadHeaderAt[p], ReadDataAt[p]}
              \subseteq 5 .. 10
        /\ DataAt[p] = HeaderAt[p] + 1 /\ PostAt[p] = DataAt[p] + 1
        /\ ReadHeaderAt[p] = WaitAt[p] + 1 /\ ReadDataAt[p] = ReadHeaderAt[p] + 1
  BY DEF Process, HeaderAt, DataAt, PostAt, WaitAt, ReadHeaderAt, ReadDataAt
------------------------------------------------------------------------------
\* What is in the cells of a mailbox.

LEMMA Boxes == Cells \subseteq Seq(Nat) /\ \A c \in Cells : Len(c) = SHM_SIZE
  BY ShmemAssumption DEF Cells

\* The header of p's message, and the message.
LEMMA Flats ==
    ASSUME NEW p \in Process
    PROVE  /\ FlatOf(p) \in Seq(Nat)
           /\ Len(FlatOf(p)) \in 2 .. SHM_SIZE
           /\ Beginning(FlatOf(p)) \in Seq(Nat) /\ Len(Beginning(FlatOf(p))) = 2
           /\ \A i \in 1 .. 2 : Beginning(FlatOf(p))[i] = FlatOf(p)[i]
<1>1. /\ Sent[p].data_len \in Nat
      /\ FlatOf(p) \in Seq(Nat)
      /\ Len(FlatOf(p)) = 2 + Sent[p].data_len
  BY SentFlat DEF Process, FlatOf, HeaderSize
<1>2. 2 + Sent[p].data_len <= SHM_SIZE
  BY ShmemAssumption DEF HeaderSize, Process
<1> HIDE DEF FlatOf
<1>3. SHM_SIZE \in Nat
  BY ShmemAssumption
<1>4. Len(FlatOf(p)) \in 2 .. SHM_SIZE
  BY <1>1, <1>2, <1>3
<1> QED
  BY <1>1, <1>4 DEF Beginning, HeaderSize

\* A buffer that begins with a sequence.
LEMMA BeginsWith ==
    ASSUME NEW c \in Seq(Nat), NEW s \in Seq(Nat), NEW k \in Nat,
           k <= Len(c), k <= Len(s)
    PROVE  /\ SubSeq(c, 1, k) = SubSeq(s, 1, k) <=> \A i \in 1 .. k : c[i] = s[i]
           /\ SubSeq(s, 1, Len(s)) = s
<1>1. SubSeq(c, 1, k) = [i \in 1 .. k |-> c[i]]
  OBVIOUS
<1>2. SubSeq(s, 1, k) = [i \in 1 .. k |-> s[i]]
  OBVIOUS
<1>3. SubSeq(s, 1, Len(s)) = s
  OBVIOUS
<1>4. ASSUME [i \in 1 .. k |-> c[i]] = [i \in 1 .. k |-> s[i]], NEW i \in 1 .. k
      PROVE  c[i] = s[i]
  <2>1. [j \in 1 .. k |-> c[j]][i] = [j \in 1 .. k |-> s[j]][i]
    BY <1>4
  <2> QED
    BY <2>1
<1>5. ASSUME \A i \in 1 .. k : c[i] = s[i]
      PROVE  [i \in 1 .. k |-> c[i]] = [i \in 1 .. k |-> s[i]]
  BY <1>5
<1> QED
  BY <1>1, <1>2, <1>3, <1>4, <1>5

LEMMA HeaderWritten ==
    ASSUME NEW p \in Process, NEW c \in Cells
    PROVE  /\ Overwrite(c, Beginning(FlatOf(p))) \in Cells
           /\ Beginning(Overwrite(c, Beginning(FlatOf(p)))) = Beginning(FlatOf(p))
<1> DEFINE h == Beginning(FlatOf(p))
           o == Overwrite(c, h)
<1>1. h \in Seq(Nat) /\ Len(h) = 2 /\ Len(h) <= SHM_SIZE
  BY Flats, ShmemAssumption
<1>2. c \in Seq(Nat) /\ Len(c) = SHM_SIZE
  BY Boxes
<1>3. o \in Seq(Nat) /\ Len(o) = SHM_SIZE /\ SubSeq(o, 1, Len(h)) = h
  BY <1>1, <1>2, OverwriteCells
<1> HIDE DEF o, h
<1> QED
  BY <1>1, <1>3 DEF Cells, Beginning, HeaderSize, o, h

LEMMA DataWritten ==
    ASSUME NEW p \in Process, NEW c \in Cells
    PROVE  LET d == Overwrite(msg_to_msgbuf(c, Sent[p]), Beginning(c))
           IN  /\ d \in Cells
               /\ Beginning(d) = Beginning(c)
               /\ Beginning(c) = Beginning(FlatOf(p))
                     => SubSeq(d, 1, Len(FlatOf(p))) = FlatOf(p)
<1> DEFINE f == FlatOf(p)
           m == Overwrite(c, f)
           h == Beginning(c)
           d == Overwrite(m, h)
<1>1. /\ f \in Seq(Nat) /\ Len(f) \in 2 .. SHM_SIZE
      /\ c \in Seq(Nat) /\ Len(c) = SHM_SIZE
  BY Flats, Boxes
<1>2. /\ m \in Seq(Nat) /\ Len(m) = SHM_SIZE
      /\ \A i \in 1 .. Len(f) : m[i] = f[i]
  <2> HIDE DEF f
  <2> QED
    BY <1>1, OverwriteCells, ShmemAssumption
<1>3. h \in Seq(Nat) /\ Len(h) = 2 /\ \A i \in 1 .. 2 : h[i] = c[i]
  BY <1>1, ShmemAssumption DEF Beginning, HeaderSize
<1>4. /\ d \in Seq(Nat) /\ Len(d) = SHM_SIZE
      /\ \A i \in 1 .. 2 : d[i] = c[i]
      /\ SubSeq(d, 1, 2) = h
  <2> HIDE DEF h, m
  <2>1. m \in Seq(Nat) /\ h \in Seq(Nat) /\ Len(h) <= Len(m)
    BY <1>1, <1>2, <1>3, ShmemAssumption
  <2>2. /\ d \in Seq(Nat) /\ Len(d) = Len(m)
        /\ \A i \in 1 .. Len(h) : d[i] = h[i]
        /\ SubSeq(d, 1, Len(h)) = h
    BY <2>1, OverwriteCells
  <2> QED
    BY <1>2, <1>3, <2>2
<1>5. \A i \in 1 .. Len(f) : d[i] = IF i <= 2 THEN h[i] ELSE m[i]
  BY <1>1, <1>2, <1>3, ShmemAssumption DEF Overwrite
<1>6. ASSUME h = Beginning(f)
      PROVE  SubSeq(d, 1, Len(f)) = f
  <2>1. \A i \in 1 .. 2 : h[i] = f[i]
    BY <1>6, Flats
  <2>2. ASSUME NEW i \in 1 .. Len(f)
        PROVE  d[i] = f[i]
    <3>1. CASE i <= 2
      <4>1. i \in 1 .. 2
        BY <1>1, <3>1
      <4> HIDE DEF d, h, f, m
      <4> QED
        BY <1>5, <2>1, <3>1, <4>1
    <3>2. CASE ~ (i <= 2)
      <4> HIDE DEF d, h, f, m
      <4> QED
        BY <1>2, <1>5, <3>2
    <3> QED
      BY <3>1, <3>2
  <2> HIDE DEF d, f, h
  <2> QED
    BY <1>1, <1>4, <2>2, BeginsWith, ShmemAssumption
<1>7. d = Overwrite(msg_to_msgbuf(c, Sent[p]), Beginning(c))
  BY DEF msg_to_msgbuf, FlatOf
<1> HIDE DEF d, f, h
<1>8. d \in Cells /\ Beginning(d) = Beginning(c)
  BY <1>4 DEF Cells, Beginning, HeaderSize, h
<1> QED
  BY <1>6, <1>7, <1>8 DEF f, h

LEMMA MessageRead ==
    ASSUME NEW p \in Process, NEW c \in Cells,
           SubSeq(c, 1, Len(FlatOf(p))) = FlatOf(p)
    PROVE  msgbuf_to_msg(Overwrite(c, Beginning(FlatOf(p)))) = Sent[p]
<1> DEFINE f == FlatOf(p)
           h == Beginning(f)
<1>1. /\ f \in Seq(Nat) /\ Len(f) \in 2 .. SHM_SIZE
      /\ c \in Seq(Nat) /\ Len(c) = SHM_SIZE
      /\ h \in Seq(Nat) /\ Len(h) = 2 /\ \A i \in 1 .. 2 : h[i] = f[i]
  BY Flats, Boxes
<1>2. \A i \in 1 .. Len(f) : c[i] = f[i]
  <2> HIDE DEF f
  <2>1. SubSeq(c, 1, Len(f)) = SubSeq(f, 1, Len(f))
    BY <1>1, BeginsWith DEF f
  <2> QED
    BY <1>1, <2>1, BeginsWith
<1> HIDE DEF f, h
<1>3. Overwrite(c, h) = c /\ Overwrite(c, f) = c
  <2>1. \A i \in 1 .. Len(c) : (IF i <= Len(h) THEN h[i] ELSE c[i]) = c[i]
    <3>1. \A i \in 1 .. 2 : h[i] = c[i]
      <4>1. \A i \in 1 .. 2 : i \in 1 .. Len(f) /\ h[i] = f[i]
        BY <1>1, ShmemAssumption
      <4> QED
        BY <1>2, <4>1
    <3>2. \A i \in 1 .. Len(c) : i <= Len(h) => i \in 1 .. 2
      BY <1>1
    <3> QED
      BY <3>1, <3>2
  <2>2. \A i \in 1 .. Len(c) : (IF i <= Len(f) THEN f[i] ELSE c[i]) = c[i]
    <3>1. Len(f) \in Int
      BY <1>1
    <3>2. \A i \in 1 .. Len(c) : i <= Len(f) => i \in 1 .. Len(f)
      BY <3>1
    <3> QED
      BY <1>2, <3>2
  <2>3. c = [i \in 1 .. Len(c) |-> c[i]]
    BY <1>1
  <2> QED
    BY <2>1, <2>2, <2>3 DEF Overwrite
<1>4. msgbuf_to_msg(Overwrite(c, f)) = Sent[p]
  <2>1. HeaderSize + Sent[p].data_len <= Len(c)
    BY <1>1, ShmemAssumption DEF Process
  <2> QED
    BY <1>1, <2>1, SentArrives DEF f, FlatOf, Process
<1> QED
  BY <1>3, <1>4 DEF f, h

\* Every nonempty set of natural numbers has a least element.
LEMMA Least ==
    ASSUME NEW T \in SUBSET Nat, T # {}
    PROVE  \E n \in T : \A i \in T : n <= i
<1> DEFINE R == OpToRel(<, Nat)
<1>1. \E n \in T : \A i \in T : ~ (<< i, n >> \in R)
  <2> HIDE DEF R
  <2>1. IsWellFoundedOn(R, Nat)
    BY NatLessThanWellFounded DEF R
  <2> QED
    BY <2>1, WFMin
<1>2. \A i \in T, n \in T : i < n => << i, n >> \in R
  BY DEF OpToRel
<1> HIDE DEF R
<1>3. PICK n \in T : \A i \in T : ~ (<< i, n >> \in R)
  BY <1>1
<1>4. ASSUME NEW i \in T PROVE n <= i
  <2>1. ~ (i < n)
    BY <1>2, <1>3
  <2>2. n \in Nat /\ i \in Nat
    OBVIOUS
  <2> QED
    BY <2>1, <2>2
<1> QED
  BY <1>4

LEMMA HeaderCells ==
    /\ Beginning(FlatOf("parent")) = << 1, 1 >>
    /\ Beginning(FlatOf("child")) = << 0, TextLength + 1 >>
<1>1. /\ FlatOf("parent")[1] = 1 /\ FlatOf("parent")[2] = 1
  <2> USE ParentMessage
  <2>1. Flat(Message(1, 1, << 1 >>))[1] = 1 /\ Flat(Message(1, 1, << 1 >>))[2] = 1
    BY FlatCells, ZenonT(60)
  <2> QED
    BY <2>1 DEF FlatOf
<1>2. /\ FlatOf("child")[1] = 0 /\ FlatOf("child")[2] = TextLength + 1
  <2>1. /\ Flat(Message(0, TextLength + 1, Characters))[1] = 0
        /\ Flat(Message(0, TextLength + 1, Characters))[2] = TextLength + 1
    BY ChildMessage, FlatCells, ZenonT(60)
  <2> QED
    BY <2>1, ChildMessage DEF FlatOf
<1>3. \A p \in Process :
         Beginning(FlatOf(p)) = << FlatOf(p)[1], FlatOf(p)[2] >>
  <2> TAKE p \in Process
  <2> DEFINE h == Beginning(FlatOf(p))
  <2>1. h \in Seq(Nat) /\ Len(h) = 2 /\ h[1] = FlatOf(p)[1] /\ h[2] = FlatOf(p)[2]
    BY Flats
  <2> HIDE DEF h
  <2>2. h = << h[1], h[2] >>
    BY <2>1
  <2> QED
    BY <2>1, <2>2 DEF h
<1> QED
  BY <1>1, <1>2, <1>3 DEF Process

\* Whatever is in a mailbox under one of these headers can be printed.
LEMMA StringLine ==
    ASSUME NEW n \in Nat, NEW d \in [1 .. n -> Nat]
    PROVE  msg_to_str(Message(0, n, d)) \in Seq(Nat)
<1> DEFINE M == Message(0, n, d)
           Ends == {k \in 1 .. n : d[k] = NUL}
           e == CHOOSE k \in 1 .. M.data_len :
                   M.data[k] = NUL /\ \A i \in 1 .. k - 1 : M.data[i] # NUL
           chars == [i \in 1 .. e - 1 |-> M.data[i]]
           h == << M.type, M.data_len >>
<1>1. M.type = 0 /\ M.data_len = n /\ M.data = d
  BY DEF Message
<1>2. M.type = MSG_STRING /\ M.type # MSG_LED
  BY <1>1 DEF MSG_STRING, MSG_LED
<1>3. CASE Ends = {}
  <2>1. ~ \E k \in 1 .. n : d[k] = NUL
    BY <1>3
  <2> HIDE DEF M
  <2>2. ~ \E k \in 1 .. M.data_len : M.data[k] = NUL
    BY <1>1, <2>1
  <2>3. msg_to_str(M) = Garbage
    BY <1>2, <2>2, Zenon DEF msg_to_str
  <2>4. Garbage \in Seq(Nat)
    BY DEF Garbage, MSG_STRING
  <2> QED
    BY <2>3, <2>4 DEF M
<1>4. CASE Ends # {}
  <2>1. PICK k \in Ends : \A i \in Ends : k <= i
    <3>1. Ends \in SUBSET Nat
      OBVIOUS
    <3> HIDE DEF Ends
    <3> QED
      BY <1>4, <3>1, Least
  <2>2. k \in 1 .. n /\ d[k] = NUL
    BY <2>1
  <2>3. \A i \in 1 .. k - 1 : d[i] # NUL
    BY <2>1
  <2> HIDE DEF M, Ends
  <2>4. k \in 1 .. M.data_len /\ M.data[k] = NUL /\ \A i \in 1 .. k - 1 : M.data[i] # NUL
    BY <1>1, <2>2, <2>3
  <2>5. msg_to_str(M) = h \o chars
    BY <1>2, <2>4, Zenon DEF msg_to_str
  <2>6. e \in 1 .. n
    BY <1>1, <2>4
  <2> HIDE DEF e
  <2>7. chars \in Seq(Nat)
    <3>1. e - 1 \in Nat /\ \A i \in 1 .. e - 1 : M.data[i] \in Nat
      BY <1>1, <2>6
    <3> QED
      BY <3>1
  <2>8. h \in Seq(Nat)
    BY <1>1
  <2> HIDE DEF h, chars
  <2> QED
    BY <2>5, <2>7, <2>8, ConcatCells DEF M
<1> QED
  BY <1>3, <1>4

LEMMA LinesPrinted ==
    ASSUME NEW c \in Cells, NEW h \in Headers
    PROVE  msg_to_str(msgbuf_to_msg(Overwrite(c, h))) \in Seq(Nat)
<1> DEFINE b == Overwrite(c, h)
           d == [i \in 1 .. b[2] |-> b[HeaderSize + i]]
<1>1. /\ 2 + (TextLength + 1) <= SHM_SIZE
      /\ 3 <= SHM_SIZE
      /\ SHM_SIZE \in Nat /\ TextLength \in Nat
  BY ShmemAssumption, MessagesAssumption DEF HeaderSize, Sent
<1>2. h = << 0, 0 >> \/ h = << 1, 1 >> \/ h = << 0, TextLength + 1 >>
  BY HeaderCells DEF Headers
<1>3. h \in Seq(Nat) /\ Len(h) = 2
  <2>1. \A k, l \in Nat : << k, l >> \in Seq(Nat) /\ Len(<< k, l >>) = 2
    OBVIOUS
  <2>2. TextLength + 1 \in Nat
    BY <1>1
  <2> QED
    BY <1>2, <2>1, <2>2
<1>4. /\ b \in Seq(Nat) /\ Len(b) = SHM_SIZE /\ b[1] = h[1] /\ b[2] = h[2]
  <2>1. c \in Seq(Nat) /\ Len(c) = SHM_SIZE /\ Len(h) <= Len(c)
    BY <1>1, <1>3, Boxes
  <2>2. /\ b \in Seq(Nat) /\ Len(b) = Len(c)
        /\ \A i \in 1 .. Len(h) : b[i] = h[i]
    BY <1>3, <2>1, OverwriteCells
  <2> HIDE DEF b
  <2> QED
    BY <1>3, <2>1, <2>2
<1>5. msgbuf_to_msg(b) = Message(b[1], b[2], d)
  BY DEF msgbuf_to_msg, Message
<1> HIDE DEF b
<1>6. CASE h = << 1, 1 >>
  <2>1. b[1] = 1 /\ b[2] = 1 /\ b[HeaderSize + 1] \in Nat
    BY <1>1, <1>4, <1>6 DEF HeaderSize
  <2>2. msg_to_str(Message(1, 1, d)) = << 1, d[1] >>
    BY DEF msg_to_str, Message, MSG_LED, MSG_STRING
  <2>3. d[1] = b[HeaderSize + 1]
    BY <2>1
  <2> HIDE DEF d
  <2>4. << 1, d[1] >> \in Seq(Nat)
    BY <2>1, <2>3
  <2> QED
    BY <1>5, <2>1, <2>2, <2>4 DEF b
<1>7. CASE h # << 1, 1 >>
  <2>1. b[1] = 0 /\ b[2] \in Nat /\ 2 + b[2] <= SHM_SIZE
    BY <1>1, <1>2, <1>4, <1>7
  <2>2. d \in [1 .. b[2] -> Nat]
    BY <1>1, <1>4, <2>1 DEF HeaderSize
  <2> HIDE DEF d
  <2> QED
    BY <1>1, <1>5, <2>1, <2>2, StringLine DEF b
<1> QED
  BY <1>6, <1>7
------------------------------------------------------------------------------
\* Names and objects.  o is opened under the name of n; m objects have been made.
Opened(name, m, name1, m1, n, o) ==
    \/ name[n] # None /\ o = name[n] /\ name1 = name /\ m1 = m
    \/ name[n] = None /\ o = m + 1 /\ name1 = [name EXCEPT ![n] = o] /\ m1 = o

LEMMA NamesOpened ==
    ASSUME NEW m \in Nat, NEW name \in [Process -> Nat],
           NEW reads \in [Process -> Nat], NEW writes \in [Process -> Nat],
           NamesOK(name, reads, writes, m),
           NEW n \in Process, NEW o, NEW name1, NEW m1, Opened(name, m, name1, m1, n, o),
           reads[n] = None \/ writes[Peer[n]] = None
    PROVE  /\ NamesOK(name1, [reads EXCEPT ![n] = o], writes, m1)
           /\ NamesOK(name1, reads, [writes EXCEPT ![Peer[n]] = o], m1)
           /\ NamesOK(name1, reads, writes, m1)
<1> DEFINE q == Peer[n]
<1>1. q \in Process /\ q # n /\ Peer[q] = n /\ Process = {n, q}
  BY Peers DEF Process
<1>2. /\ name1 = [name EXCEPT ![n] = o] /\ o \in Nat /\ m1 \in Nat /\ o # None /\ m <= m1 /\ o <= m1
      /\ name[n] # None => o = name[n]
      /\ name[n] = None => o > m
  BY DEF Opened, NamesOK, Under, None
<1>3. \A x \in Process : Peer[x] = IF x = n THEN q ELSE n
  BY <1>1
<1>4. name1 \in [Process -> Nat] /\ name1[n] = o /\ name1[q] = name[q]
  BY <1>1, <1>2
<1> HIDE DEF q
<1>5. /\ \A a \in {name[n], reads[n], writes[q], name[q], reads[q], writes[n]} : a <= m
      /\ \A a \in {reads[n], writes[q]} : a # None => a = o
      /\ \A a, b \in {name[q], reads[q], writes[n]} : a # None /\ b # None => a = b
      /\ \A b \in {name[q], reads[q], writes[n]} : b # o
      /\ name[q] = None => (reads[q] = None <=> writes[n] = None)
  <2>1. /\ \A a \in {name[n], reads[n], writes[q]} : a <= m
        /\ \A a, b \in {name[n], reads[n], writes[q]} : a # None /\ b # None => a = b
        /\ \A a \in {name[n], reads[n], writes[q]}, b \in {name[q], reads[q], writes[n]} :
              a = b => a = None
        /\ name[n] = None => (reads[n] = None <=> writes[q] = None)
    BY <1>1 DEF NamesOK, Under, q
  <2>2. /\ \A a \in {name[q], reads[q], writes[n]} : a <= m
        /\ \A a, b \in {name[q], reads[q], writes[n]} : a # None /\ b # None => a = b
        /\ name[q] = None => (reads[q] = None <=> writes[n] = None)
    BY <1>1 DEF NamesOK, Under, q
  <2>3. reads[n] = None \/ writes[q] = None
    BY DEF q
  <2>4. \A x \in {name[n], reads[n], writes[q], name[q], reads[q], writes[n]} : x \in Nat
    BY <1>1
  <2>5. \A a \in {reads[n], writes[q]} : a # None => a = o
    BY <1>2, <2>1, <2>3, <2>4 DEF None
  <2>6. \A b \in {name[q], reads[q], writes[n]} : b # o
    <3>1. CASE name[n] # None
      BY <1>2, <2>1, <3>1
    <3>2. CASE name[n] = None
      BY <1>2, <2>2, <2>4, <3>2 DEF None
    <3> QED
      BY <3>1, <3>2
  <2> QED
    BY <2>1, <2>2, <2>5, <2>6
<1>6. ASSUME NEW rs \in [Process -> Nat], NEW ws \in [Process -> Nat],
             rs[n] \in {None, o}, ws[q] \in {None, o}, rs[q] = reads[q], ws[n] = writes[n]
      PROVE  NamesOK(name1, rs, ws, m1)
  BY <1>1, <1>2, <1>3, <1>4, <1>5, <1>6 DEF NamesOK, Under, None
<1>7. reads[n] \in {None, o} /\ writes[q] \in {None, o}
  BY <1>5
<1> DEFINE rs1 == [reads EXCEPT ![n] = o]
           ws1 == [writes EXCEPT ![q] = o]
<1>8. /\ rs1 \in [Process -> Nat] /\ rs1[n] = o /\ rs1[q] = reads[q]
      /\ ws1 \in [Process -> Nat] /\ ws1[q] = o /\ ws1[n] = writes[n]
  BY <1>1, <1>2
<1> HIDE DEF rs1, ws1
<1>9. NamesOK(name1, rs1, writes, m1) /\ NamesOK(name1, reads, ws1, m1)
  BY <1>6, <1>7, <1>8
<1>10. NamesOK(name1, reads, writes, m1)
  BY <1>6, <1>7
<1> QED
  BY <1>9, <1>10 DEF q, rs1, ws1

LEMMA NamesUnlinked ==
    ASSUME NEW m \in Nat, NEW name \in [Process -> Nat],
           NEW reads \in [Process -> Nat], NEW writes \in [Process -> Nat],
           NamesOK(name, reads, writes, m),
           NEW n \in Process, reads[n] # None, writes[Peer[n]] # None
    PROVE  NamesOK([name EXCEPT ![n] = None], reads, writes, m)
<1> DEFINE q == Peer[n]
           name1 == [name EXCEPT ![n] = None]
<1>1. q \in Process /\ q # n /\ Peer[q] = n /\ Process = {n, q}
  BY Peers DEF Process
<1>2. name1 \in [Process -> Nat] /\ name1[n] = None /\ name1[q] = name[q]
  BY <1>1 DEF None
<1> HIDE DEF q, name1
<1> QED
  BY <1>1, <1>2 DEF NamesOK, Under, None, q, name1
------------------------------------------------------------------------------
\* Where a process goes with a step.
LEMMA Moves ==
    ASSUME TypeOK, NEW p \in Process, Step(p)
    PROVE  /\ run' = run
           /\ pc[p] \in 1 .. 14
           /\ pc' = [pc EXCEPT ![p] = pc'[p]]
           /\ \/ pc'[p] = pc[p] + 1
              \/ pc'[p] = Failed /\ pc[p] \in 3 .. 4
              \/ pc'[p] = Sigbus /\ pc[p] = ReadHeaderAt[p] /\ ~ size[read_shm[p]]
<1> PICK n \in Process :
    \/ OpenWriteSem(p, n) \/ OpenReadSem(p, n) \/ MapRead(p, n) \/ MapWrite(p, n)
    \/ WriteHeader(p, n) \/ WriteData(p, n) \/ Post(p, n)
    \/ Wait(p, n) \/ ReadHeader(p, n) \/ ReadData(p, n)
    \/ UnlinkShm(p, n) \/ UnlinkSem(p, n) \/ Fail(p, n)
  BY DEF Step
<1>1. pc \in [Process -> 1 .. 17]
  BY DEF TypeOK, Sigbus
<1>2. {HeaderAt[p], DataAt[p], PostAt[p], WaitAt[p], ReadHeaderAt[p], ReadDataAt[p]} \subseteq 1 .. 14
  BY Order
<1>3. CASE OpenWriteSem(p, n) \/ OpenReadSem(p, n) \/ MapRead(p, n) \/ MapWrite(p, n)
  BY <1>1, <1>3, Where DEF OpenWriteSem, OpenReadSem, MapRead, MapWrite, Advance
<1>4. CASE WriteHeader(p, n) \/ WriteData(p, n) \/ Post(p, n) \/ Wait(p, n) \/ ReadData(p, n)
  BY <1>1, <1>2, <1>4, Where DEF WriteHeader, WriteData, Post, Wait, ReadData, Advance
<1>5. CASE ReadHeader(p, n)
  BY <1>1, <1>2, <1>5, Where DEF ReadHeader, Advance
<1>6. CASE UnlinkShm(p, n) \/ UnlinkSem(p, n)
  BY <1>1, <1>6, Where DEF UnlinkShm, UnlinkSem, Advance
<1>7. CASE Fail(p, n)
  BY <1>1, <1>7, Where DEF Fail
<1> QED
  BY <1>3, <1>4, <1>5, <1>6, <1>7

LEMMA ControlStep ==
    ASSUME TypeOK, NEW p \in Process, Step(p)
    PROVE  run' \in 1 .. MaxRuns /\ pc' \in [Process -> 1 .. Sigbus]
<1>1. /\ run' = run /\ pc[p] \in 1 .. 14 /\ pc' = [pc EXCEPT ![p] = pc'[p]]
      /\ \/ pc'[p] = pc[p] + 1
         \/ pc'[p] = Failed
         \/ pc'[p] = Sigbus
  BY Moves
<1>2. pc'[p] \in 1 .. Sigbus
  BY <1>1 DEF Failed, Sigbus
<1> QED
  BY <1>1, <1>2 DEF TypeOK

\* What opening does to the objects.
LEMMA SemOpened ==
    ASSUME TypeOK, NEW n \in Process, NEW o \in Object, SemOpen(n, o)
    PROVE  /\ sem' \in [Process -> Object \cup {None}]
           /\ made' = [made EXCEPT !.sem = made'.sem]
           /\ made'.sem \in 0 .. 4 * MaxRuns /\ made'.sem <= made.sem + 1
           /\ Opened(sem, made.sem, sem', made'.sem, n, o)
<1>1. made.sem \in 0 .. 4 * MaxRuns /\ made = [made EXCEPT !.sem = made.sem]
  BY DEF TypeOK
<1>2. CASE sem[n] # None /\ o = sem[n] /\ UNCHANGED << sem, made >>
  BY <1>1, <1>2, ShmemAssumption DEF TypeOK, Opened
<1>3. CASE /\ sem[n] = None /\ o = made.sem + 1
           /\ sem' = [sem EXCEPT ![n] = o] /\ made' = [made EXCEPT !.sem = o]
  <2>1. made'.sem = o
    BY <1>3 DEF TypeOK
  <2> QED
    BY <1>1, <1>3, <2>1, ShmemAssumption, SMTT(40) DEF TypeOK, Opened, Object
<1> QED
  BY <1>2, <1>3 DEF SemOpen

LEMMA ShmOpened ==
    ASSUME TypeOK, NEW n \in Process, NEW o \in Object, ShmOpen(n, o)
    PROVE  /\ shm' \in [Process -> Object \cup {None}]
           /\ made' = [made EXCEPT !.shm = made'.shm]
           /\ made'.shm \in 0 .. 4 * MaxRuns /\ made'.shm <= made.shm + 1
           /\ Opened(shm, made.shm, shm', made'.shm, n, o)
<1>1. made.shm \in 0 .. 4 * MaxRuns /\ made = [made EXCEPT !.shm = made.shm]
  BY DEF TypeOK
<1>2. CASE shm[n] # None /\ o = shm[n] /\ UNCHANGED << shm, made >>
  BY <1>1, <1>2, ShmemAssumption DEF TypeOK, Opened
<1>3. CASE /\ shm[n] = None /\ o = made.shm + 1
           /\ shm' = [shm EXCEPT ![n] = o] /\ made' = [made EXCEPT !.shm = o]
  <2>1. made'.shm = o
    BY <1>3 DEF TypeOK
  <2> QED
    BY <1>1, <1>3, <2>1, ShmemAssumption, SMTT(40) DEF TypeOK, Opened, Object
<1> QED
  BY <1>2, <1>3 DEF ShmOpen

\* The actions that open nothing.
Uses(p, n) == \/ WriteHeader(p, n) \/ WriteData(p, n) \/ Post(p, n) \/ Wait(p, n)
              \/ ReadHeader(p, n) \/ ReadData(p, n) \/ UnlinkShm(p, n) \/ UnlinkSem(p, n)

ObjectsOK == /\ shm \in [Process -> Object \cup {None}]
             /\ sem \in [Process -> Object \cup {None}]
             /\ size \in [Object -> BOOLEAN]
             /\ made \in [shm : 0 .. 4 * MaxRuns, sem : 0 .. 4 * MaxRuns]
             /\ read_shm \in [Process -> Object \cup {None}]
             /\ write_shm \in [Process -> Object \cup {None}]
             /\ read_sem \in [Process -> Object \cup {None}]
             /\ write_sem \in [Process -> Object \cup {None}]

LEMMA ObjectsStep ==
    ASSUME TypeOK, NEW p \in Process, Step(p)
    PROVE  ObjectsOK'
<1> PICK n \in Process :
    \/ OpenWriteSem(p, n) \/ OpenReadSem(p, n) \/ MapRead(p, n) \/ MapWrite(p, n)
    \/ Uses(p, n) \/ Fail(p, n)
  BY DEF Step, Uses
<1>1. CASE OpenWriteSem(p, n)
  <2>1. PICK o \in Object : SemOpen(n, o) /\ write_sem' = [write_sem EXCEPT ![p] = o]
    BY <1>1 DEF OpenWriteSem
  <2> QED
    BY <1>1, <2>1, SemOpened DEF OpenWriteSem, TypeOK, ObjectsOK
<1>2. CASE OpenReadSem(p, n)
  <2>1. PICK o \in Object : SemOpen(n, o) /\ read_sem' = [read_sem EXCEPT ![p] = o]
    BY <1>2 DEF OpenReadSem
  <2> QED
    BY <1>2, <2>1, SemOpened DEF OpenReadSem, TypeOK, ObjectsOK
<1>3. CASE MapRead(p, n)
  <2>1. PICK o \in Object : ShmOpen(n, o) /\ read_shm' = [read_shm EXCEPT ![p] = o]
    BY <1>3 DEF MapRead
  <2> QED
    BY <1>3, <2>1, ShmOpened DEF MapRead, TypeOK, ObjectsOK
<1>4. CASE MapWrite(p, n)
  <2>1. PICK o \in Object : /\ ShmOpen(n, o) /\ write_shm' = [write_shm EXCEPT ![p] = o]
                            /\ size' = [size EXCEPT ![o] = TRUE]
    BY <1>4 DEF MapWrite
  <2> QED
    BY <1>4, <2>1, ShmOpened DEF MapWrite, TypeOK, ObjectsOK
<1>5. CASE Fail(p, n)
  <2>1. UNCHANGED << sem, read_shm, write_shm, read_sem, write_sem >>
    BY <1>5 DEF Fail, localVars, handleVars
  <2>2. CASE UNCHANGED << shm, made, size >>
    BY <2>1, <2>2 DEF TypeOK, ObjectsOK
  <2>3. CASE \E o \in Object, l \in {"map_read", "map_write"} :
                ShmOpen(n, o) /\ size' = [size EXCEPT ![o] = @ \/ l = "map_write"]
    <3>1. PICK o \in Object, l \in {"map_read", "map_write"} :
             ShmOpen(n, o) /\ size' = [size EXCEPT ![o] = size[o] \/ l = "map_write"]
      BY <2>3
    <3>2. size' \in [Object -> BOOLEAN]
      BY <3>1 DEF TypeOK
    <3> QED
      BY <2>1, <3>1, <3>2, ShmOpened DEF TypeOK, ObjectsOK
  <2> QED
    BY <1>5, <2>2, <2>3 DEF Fail
<1>6. CASE Uses(p, n)
  BY <1>6 DEF Uses, WriteHeader, WriteData, Post, Wait, ReadHeader, ReadData, UnlinkShm,
              UnlinkSem, localVars, handleVars, kernelVars, TypeOK, ObjectsOK
<1> QED
  BY <1>1, <1>2, <1>3, <1>4, <1>5, <1>6

\* A process is where it can use a handle only when it has it.
LEMMA HandlesStep ==
    ASSUME IInv, NEW p \in Process, Step(p)
    PROVE  HandlesOK'
<1> PICK n \in Process :
    \/ OpenWriteSem(p, n) \/ OpenReadSem(p, n) \/ MapRead(p, n) \/ MapWrite(p, n)
    \/ Uses(p, n) \/ Fail(p, n)
  BY DEF Step, Uses
<1>1. /\ pc[p] \in 1 .. 14 /\ pc' = [pc EXCEPT ![p] = pc'[p]] /\ pc \in [Process -> 1 .. 17]
      /\ \/ pc'[p] = pc[p] + 1
         \/ pc'[p] = Failed /\ pc[p] \in 3 .. 4
         \/ pc'[p] = Sigbus /\ pc[p] = ReadHeaderAt[p]
  BY Moves DEF IInv, TypeOK, Sigbus
<1>2. TypeOK /\ HandlesOK /\ ReadHeaderAt[p] \in 5 .. 10
  BY Order DEF IInv
<1>3. \A q \in Process \ {p} : pc'[q] = pc[q]
  BY <1>1
<1>4. \A o \in Object : o # None
  BY DEF Object, None
<1>5. pc'[p] \in 1 .. 17 /\ pc' \in [Process -> 1 .. 17]
  BY <1>1 DEF Failed, Sigbus
<1> USE DEF HandlesOK, Past
<1>6. CASE OpenWriteSem(p, n)
  <2>1. PICK o \in Object : write_sem' = [write_sem EXCEPT ![p] = o]
    BY <1>6 DEF OpenWriteSem
  <2>2. UNCHANGED << read_sem, read_shm, write_shm >> /\ pc[p] = 1 /\ pc'[p] = 2
    BY <1>1, <1>2, <1>6, Where DEF OpenWriteSem, Advance
  <2>3. write_sem'[p] = o /\ \A q \in Process \ {p} : write_sem'[q] = write_sem[q]
    BY <1>2, <2>1 DEF TypeOK
  <2> QED
    BY <1>2, <1>3, <1>4, <2>2, <2>3 DEF Failed
<1>7. CASE OpenReadSem(p, n)
  <2>1. PICK o \in Object : read_sem' = [read_sem EXCEPT ![p] = o]
    BY <1>7 DEF OpenReadSem
  <2>2. UNCHANGED << write_sem, read_shm, write_shm >> /\ pc[p] = 2 /\ pc'[p] = 3
    BY <1>1, <1>2, <1>7, Where DEF OpenReadSem, Advance
  <2>3. read_sem'[p] = o /\ \A q \in Process \ {p} : read_sem'[q] = read_sem[q]
    BY <1>2, <2>1 DEF TypeOK
  <2> QED
    BY <1>2, <1>3, <1>4, <2>2, <2>3 DEF Failed
<1>8. CASE MapRead(p, n)
  <2>1. PICK o \in Object : read_shm' = [read_shm EXCEPT ![p] = o]
    BY <1>8 DEF MapRead
  <2>2. UNCHANGED << write_sem, read_sem, write_shm >> /\ pc[p] = 3 /\ pc'[p] = 4
    BY <1>1, <1>2, <1>8, Where DEF MapRead, Advance
  <2>3. read_shm'[p] = o /\ \A q \in Process \ {p} : read_shm'[q] = read_shm[q]
    BY <1>2, <2>1 DEF TypeOK
  <2> QED
    BY <1>2, <1>3, <1>4, <2>2, <2>3 DEF Failed
<1>9. CASE MapWrite(p, n)
  <2>1. PICK o \in Object : write_shm' = [write_shm EXCEPT ![p] = o]
    BY <1>9 DEF MapWrite
  <2>2. UNCHANGED << write_sem, read_sem, read_shm >> /\ pc[p] = 4 /\ pc'[p] = 5
    BY <1>1, <1>2, <1>9, Where DEF MapWrite, Advance
  <2>3. write_shm'[p] = o /\ \A q \in Process \ {p} : write_shm'[q] = write_shm[q]
    BY <1>2, <2>1 DEF TypeOK
  <2> QED
    BY <1>2, <1>3, <1>4, <2>2, <2>3 DEF Failed
<1>10. CASE Fail(p, n)
  <2>1. UNCHANGED handleVars /\ pc'[p] = Failed
    BY <1>1, <1>10 DEF Fail, localVars
  <2> QED
    BY <1>2, <1>3, <2>1 DEF handleVars, Failed
<1>11. CASE Uses(p, n)
  <2>1. UNCHANGED handleVars /\ pc[p] >= 5 /\ pc'[p] > pc[p] /\ pc'[p] # Failed
    <3>1. UNCHANGED handleVars
      BY <1>11 DEF Uses, WriteHeader, WriteData, Post, Wait, ReadHeader, ReadData, UnlinkShm,
                   UnlinkSem, localVars
    <3>2. pc[p] >= 5
      BY <1>2, <1>11, Where, Order
         DEF Uses, WriteHeader, WriteData, Post, Wait, ReadHeader, ReadData, UnlinkShm, UnlinkSem
    <3> QED
      BY <1>1, <3>1, <3>2 DEF Failed, Sigbus
  <2> QED
    BY <1>1, <1>2, <1>3, <1>5, <2>1 DEF handleVars, Failed
<1> QED
  BY <1>6, <1>7, <1>8, <1>9, <1>10, <1>11

\* No semaphore is posted more than once by each process in an execution, so
\* that the bound on the counts is none.
LEMMA CountStep ==
    ASSUME IInv, NEW p \in Process, Step(p)
    PROVE  count' \in [Object -> 0 .. 2 * MaxRuns] /\ CountOK'
<1> PICK n \in Process :
    \/ OpenWriteSem(p, n) \/ OpenReadSem(p, n) \/ MapRead(p, n) \/ MapWrite(p, n)
    \/ Uses(p, n) \/ Fail(p, n)
  BY DEF Step, Uses
<1>1. /\ run' = run /\ run \in 1 .. MaxRuns /\ MaxRuns \in Nat
      /\ count \in [Object -> 0 .. 2 * MaxRuns] /\ TypeOK /\ CountOK
      /\ pc' \in [Process -> 1 .. 17] /\ pc \in [Process -> 1 .. 17]
  BY Moves, ControlStep, ShmemAssumption DEF IInv, TypeOK, Sigbus
<1>2. \A q \in Process : PostAt[q] \in 5 .. 10 /\ (pc[q] > PostAt[q] => pc'[q] > PostAt[q])
  BY <1>1, Moves, Order DEF Failed, Sigbus
<1>3. CASE UNCHANGED count
  BY <1>1, <1>2, <1>3 DEF CountOK, Posts, Process
<1>4. CASE Post(p, n)
  <2>1. pc[p] = PostAt[p] /\ pc'[p] = PostAt[p] + 1 /\ \A q \in Process \ {p} : pc'[q] = pc[q]
    BY <1>1, <1>4, Where DEF Post, Advance
  <2>2. Past(p, 1)
    BY <1>2, <2>1 DEF Past, Failed
  <2>3. write_sem[p] \in Object
    BY <2>2 DEF IInv, HandlesOK, TypeOK
  <2>4. count' = [count EXCEPT ![write_sem[p]] = count[write_sem[p]] + 1]
    BY <1>4 DEF Post
  <2>5. Posts("parent")' + Posts("child")' = Posts("parent") + Posts("child") + 1
    BY <1>1, <1>2, <2>1 DEF Posts, Process
  <2>6. /\ Posts("parent") + Posts("child") + 1 <= 2
        /\ \A q \in Process : Posts(q) \in 0 .. 1 /\ Posts(q)' \in 0 .. 1
    BY <2>1, <1>1, <1>2 DEF Posts, Process
  <2>7. \A o \in Object : count'[o] \in Nat /\ count'[o] <= count[o] + 1
    BY <1>1, <2>3, <2>4
  <2>8. \A o \in Object : count[o] <= 2 * (run - 1) + Posts("parent") + Posts("child")
    BY <1>1 DEF CountOK
  <2>9. DOMAIN count' = Object /\ count' = [o \in Object |-> count'[o]]
    BY <1>1, <2>4
  <2>10. ASSUME NEW o \in Object
         PROVE  /\ count'[o] <= 2 * (run' - 1) + Posts("parent")' + Posts("child")'
                /\ count'[o] \in 0 .. 2 * MaxRuns
    <3>1. /\ Posts("parent") \in 0 .. 1 /\ Posts("child") \in 0 .. 1
          /\ Posts("parent")' \in 0 .. 1 /\ Posts("child")' \in 0 .. 1
      BY <2>6 DEF Process
    <3>2. /\ count[o] \in Nat /\ count'[o] \in Nat /\ count'[o] <= count[o] + 1
          /\ count[o] <= 2 * (run - 1) + Posts("parent") + Posts("child")
      BY <1>1, <2>7, <2>8
    <3> QED
      BY <1>1, <2>5, <2>6, <3>1, <3>2
  <2>11. CountOK'
    BY <2>10 DEF CountOK
  <2> QED
    BY <2>9, <2>10, <2>11, Zenon
<1>5. CASE Wait(p, n)
  <2>1. pc[p] = WaitAt[p]
    BY <1>1, <1>5, Where DEF Wait
  <2>2. Past(p, 2)
    BY <2>1, Order DEF Past, Failed
  <2>3. read_sem[p] \in Object /\ count[read_sem[p]] > 0
    BY <1>5, <2>2 DEF Wait, IInv, HandlesOK, TypeOK
  <2>4. count' = [count EXCEPT ![read_sem[p]] = count[read_sem[p]] - 1]
    BY <1>5 DEF Wait
  <2>5. \A o \in Object : count'[o] \in 0 .. 2 * MaxRuns /\ count'[o] <= count[o]
    BY <1>1, <2>3, <2>4
  <2>6. \A q \in Process : Posts(q) \in 0 .. 1 /\ Posts(q)' \in 0 .. 1 /\ Posts(q) <= Posts(q)'
    BY <1>2 DEF Posts
  <2>7. ASSUME NEW o \in Object
        PROVE  count'[o] <= 2 * (run' - 1) + Posts("parent")' + Posts("child")'
    <3>1. /\ Posts("parent") \in 0 .. 1 /\ Posts("child") \in 0 .. 1
          /\ Posts("parent")' \in 0 .. 1 /\ Posts("child")' \in 0 .. 1
          /\ Posts("parent") <= Posts("parent")' /\ Posts("child") <= Posts("child")'
      BY <2>6 DEF Process
    <3>2. /\ count[o] \in Nat /\ count'[o] \in Nat /\ count'[o] <= count[o]
          /\ count[o] <= 2 * (run - 1) + Posts("parent") + Posts("child")
      BY <1>1, <2>5 DEF CountOK
    <3> QED
      BY <1>1, <3>1, <3>2
  <2>8. count' = [o \in Object |-> count'[o]]
    BY <1>1, <2>4
  <2>9. CountOK'
    BY <2>7 DEF CountOK
  <2> QED
    BY <2>5, <2>8, <2>9, Zenon
<1>6. CASE Uses(p, n)
  BY <1>3, <1>4, <1>5, <1>6 DEF Uses, WriteHeader, WriteData, ReadHeader, ReadData, UnlinkShm,
                            UnlinkSem, kernelVars
<1>7. CASE OpenWriteSem(p, n) \/ OpenReadSem(p, n) \/ MapRead(p, n) \/ MapWrite(p, n) \/ Fail(p, n)
  BY <1>3, <1>7 DEF OpenWriteSem, OpenReadSem, MapRead, MapWrite, Fail
<1> QED
  BY <1>6, <1>7

\* Neither is that on the number of objects.
LEMMA MadeStep ==
    ASSUME IInv, NEW p \in Process, Step(p)
    PROVE  MadeOK'
<1> PICK n \in Process :
    \/ OpenWriteSem(p, n) \/ OpenReadSem(p, n) \/ MapRead(p, n) \/ MapWrite(p, n)
    \/ Uses(p, n) \/ Fail(p, n)
  BY DEF Step, Uses
<1>1. /\ run' = run /\ run \in 1 .. MaxRuns /\ MaxRuns \in Nat /\ TypeOK /\ MadeOK
      /\ made.sem \in Nat /\ made.shm \in Nat
      /\ pc' \in [Process -> 1 .. 17] /\ pc \in [Process -> 1 .. 17]
  <2>1. TypeOK /\ MadeOK /\ MaxRuns \in Nat
    BY ShmemAssumption DEF IInv
  <2>2. run' = run /\ pc' \in [Process -> 1 .. Sigbus]
    BY <2>1, Moves, ControlStep
  <2>3. made.sem \in Nat /\ made.shm \in Nat /\ run \in 1 .. MaxRuns /\ pc \in [Process -> 1 .. Sigbus]
    BY <2>1 DEF TypeOK
  <2> QED
    BY <2>1, <2>2, <2>3 DEF Sigbus
<1>2. /\ \A q \in Process \ {p} : pc'[q] = pc[q]
      /\ pc[p] < pc'[p]
  BY <1>1, Moves, Order DEF Failed, Sigbus
\* The opens of both processes together.
<1> DEFINE Sems == SemOpens("parent") + SemOpens("child")
           Shms == ShmOpens("parent") + ShmOpens("child")
<1>3. /\ Sems \in Nat /\ Sems' \in Nat /\ Sems <= Sems'
      /\ Shms \in Nat /\ Shms' \in Nat /\ Shms <= Shms'
      /\ SemOpens(p) < SemOpens(p)' => Sems < Sems'
      /\ ShmOpens(p) < ShmOpens(p)' => Shms < Shms'
  <2>1. \A q \in Process : /\ SemOpens(q) \in Nat /\ SemOpens(q)' \in Nat
                           /\ SemOpens(q) <= SemOpens(q)'
                           /\ q # p => SemOpens(q)' = SemOpens(q)
    BY <1>1, <1>2 DEF SemOpens
  <2>2. \A q \in Process : /\ ShmOpens(q) \in Nat /\ ShmOpens(q)' \in Nat
                           /\ ShmOpens(q) <= ShmOpens(q)'
                           /\ q # p => ShmOpens(q)' = ShmOpens(q)
    BY <1>1, <1>2 DEF ShmOpens
  <2> QED
    BY <2>1, <2>2 DEF Process
<1>4. /\ made.sem <= 4 * (run - 1) + Sems /\ made.shm <= 4 * (run - 1) + Shms
       /\ run - 1 \in Nat
  <2>1. made.sem <= 4 * (run - 1) + SemOpens("parent") + SemOpens("child")
        /\ made.shm <= 4 * (run - 1) + ShmOpens("parent") + ShmOpens("child")
    BY <1>1 DEF MadeOK
  <2>2. /\ SemOpens("parent") \in Nat /\ SemOpens("child") \in Nat
        /\ ShmOpens("parent") \in Nat /\ ShmOpens("child") \in Nat
    BY <1>1 DEF SemOpens, ShmOpens, Process
  <2> QED
    BY <1>1, <2>1, <2>2
<1>5. ASSUME made'.sem <= 4 * (run - 1) + Sems', made'.shm <= 4 * (run - 1) + Shms'
       PROVE  MadeOK'
  <2>1. /\ SemOpens("parent")' \in Nat /\ SemOpens("child")' \in Nat
        /\ ShmOpens("parent")' \in Nat /\ ShmOpens("child")' \in Nat
    BY <1>1 DEF SemOpens, ShmOpens, Process
  <2>2. 4 * (run - 1) \in Int
    BY <1>1
  <2>3. /\ made'.sem <= 4 * (run - 1) + SemOpens("parent")' + SemOpens("child")'
        /\ made'.shm <= 4 * (run - 1) + ShmOpens("parent")' + ShmOpens("child")'
    BY <1>5, <2>1, <2>2
  <2> QED
    BY <1>1, <2>3 DEF MadeOK
<1> HIDE DEF Sems, Shms
<1>6. CASE UNCHANGED made
  <2>1. 4 * (run - 1) \in Int
    BY <1>1
  <2>2. made'.sem <= 4 * (run - 1) + Sems' /\ made'.shm <= 4 * (run - 1) + Shms'
    BY <1>1, <1>6, <1>3, <1>4, <2>1
  <2> QED
    BY <1>5, <2>2
<1>7. CASE OpenWriteSem(p, n) \/ OpenReadSem(p, n)
  <2>1. made'.sem <= made.sem + 1 /\ made'.sem \in Nat /\ made'.shm = made.shm
    <3>1. PICK o \in Object : SemOpen(n, o)
      BY <1>7 DEF OpenWriteSem, OpenReadSem
    <3>2. /\ made' = [made EXCEPT !.sem = made'.sem]
          /\ made'.sem \in 0 .. 4 * MaxRuns /\ made'.sem <= made.sem + 1
      BY <1>1, <3>1, SemOpened
    <3>3. 4 * MaxRuns \in Nat
      BY <1>1
    <3> QED
      BY <1>1, <3>2, <3>3 DEF TypeOK
  <2>2. pc[p] \in 1 .. 2 /\ pc'[p] = pc[p] + 1
    BY <1>1, <1>7, Where DEF OpenWriteSem, OpenReadSem, Advance
  <2>3. Sems < Sems'
    BY <1>3, <2>2 DEF SemOpens
  <2>4. made'.sem <= 4 * (run - 1) + Sems' /\ made'.shm <= 4 * (run - 1) + Shms'
    BY <1>1, <1>3, <1>4, <2>1, <2>3
  <2> QED
    BY <1>5, <2>4
<1>8. CASE /\ pc[p] \in 3 .. 4 /\ pc'[p] \in {pc[p] + 1, Failed}
           /\ \E o \in Object : ShmOpen(n, o)
  <2>1. made'.shm <= made.shm + 1 /\ made'.shm \in Nat /\ made'.sem = made.sem
    <3>1. PICK o \in Object : ShmOpen(n, o)
      BY <1>8
    <3>2. /\ made' = [made EXCEPT !.shm = made'.shm]
          /\ made'.shm \in 0 .. 4 * MaxRuns /\ made'.shm <= made.shm + 1
      BY <1>1, <3>1, ShmOpened
    <3> QED
      BY <1>1, <3>2 DEF TypeOK
  <2>2. Shms < Shms'
    BY <1>1, <1>8, <1>3 DEF ShmOpens, Failed
  <2>3. made'.sem <= 4 * (run - 1) + Sems' /\ made'.shm <= 4 * (run - 1) + Shms'
    BY <1>1, <1>3, <1>4, <2>1, <2>2
  <2> QED
    BY <1>5, <2>3
<1>9. CASE MapRead(p, n) \/ MapWrite(p, n)
  BY <1>1, <1>8, <1>9, Where DEF MapRead, MapWrite, Advance
<1>10. CASE Fail(p, n)
  BY <1>1, <1>6, <1>8, <1>10, Where DEF Fail
<1>11. CASE Uses(p, n)
  BY <1>6, <1>11 DEF Uses, WriteHeader, WriteData, Post, Wait, ReadHeader, ReadData, UnlinkShm,
                    UnlinkSem, kernelVars
<1> QED
  BY <1>7, <1>9, <1>10, <1>11
------------------------------------------------------------------------------
\* What a step does to the mailboxes.
LEMMA MailChange ==
    ASSUME IInv, NEW p \in Process, Step(p)
    PROVE  \/ /\ UNCHANGED mail
              /\ pc[p] # HeaderAt[p] /\ pc[p] # DataAt[p]
           \/ /\ pc[p] = HeaderAt[p] /\ pc'[p] = pc[p] + 1 /\ write_shm[p] \in Object
              /\ mail' = [mail EXCEPT ![write_shm[p]] =
                             Overwrite(mail[write_shm[p]], Beginning(FlatOf(p)))]
           \/ /\ pc[p] = DataAt[p] /\ pc'[p] = pc[p] + 1 /\ write_shm[p] \in Object
              /\ mail' = [mail EXCEPT ![write_shm[p]] =
                             Overwrite(msg_to_msgbuf(mail[write_shm[p]], Sent[p]),
                                       Beginning(mail[write_shm[p]]))]
<1> PICK n \in Process :
    \/ OpenWriteSem(p, n) \/ OpenReadSem(p, n) \/ MapRead(p, n) \/ MapWrite(p, n)
    \/ Uses(p, n) \/ Fail(p, n)
  BY DEF Step, Uses
<1>1. TypeOK /\ HandlesOK /\ pc \in [Process -> 1 .. 17] /\ write_shm \in [Process -> Object \cup {None}]
  BY DEF IInv, TypeOK, Sigbus
<1>2. pc[p] \in 5 .. 10 => write_shm[p] \in Object
  BY <1>1 DEF HandlesOK, Past, Failed
<1>3. /\ HeaderAt[p] \in 5 .. 10 /\ DataAt[p] \in 5 .. 10 /\ HeaderAt[p] # DataAt[p]
      /\ \A k \in {PostAt[p], WaitAt[p], ReadHeaderAt[p], ReadDataAt[p]} :
            k # HeaderAt[p] /\ k # DataAt[p]
  BY DEF Process, HeaderAt, DataAt, PostAt, WaitAt, ReadHeaderAt, ReadDataAt
<1>4. CASE WriteHeader(p, n)
  <2>1. pc[p] = HeaderAt[p] /\ pc'[p] = pc[p] + 1
    BY <1>1, <1>4, Where DEF WriteHeader, Advance
  <2>2. mail' = [mail EXCEPT ![write_shm[p]] =
                    Overwrite(mail[write_shm[p]], Beginning(FlatOf(p)))]
    BY <1>4 DEF WriteHeader, Beginning, FlatOf
  <2> QED
    BY <1>2, <1>3, <2>1, <2>2
<1>5. CASE WriteData(p, n)
  <2>1. pc[p] = DataAt[p] /\ pc'[p] = pc[p] + 1
    BY <1>1, <1>5, Where DEF WriteData, Advance
  <2>2. mail' = [mail EXCEPT ![write_shm[p]] =
                    Overwrite(msg_to_msgbuf(mail[write_shm[p]], Sent[p]),
                              Beginning(mail[write_shm[p]]))]
    BY <1>5 DEF WriteData, Beginning
  <2> QED
    BY <1>2, <1>3, <2>1, <2>2
<1>6. CASE UNCHANGED mail /\ ~ WriteHeader(p, n) /\ ~ WriteData(p, n)
  <2>1. pc[p] # HeaderAt[p] /\ pc[p] # DataAt[p]
    BY <1>1, <1>3, <1>6, Where
       DEF Uses, Post, Wait, ReadHeader, ReadData, UnlinkShm, UnlinkSem,
           OpenWriteSem, OpenReadSem, MapRead, MapWrite, Fail
  <2> QED
    BY <1>6, <2>1
<1> QED
  BY <1>4, <1>5, <1>6 DEF Uses, Post, Wait, ReadHeader, ReadData, UnlinkShm, UnlinkSem,
           OpenWriteSem, OpenReadSem, MapRead, MapWrite, Fail, kernelVars

LEMMA MailStep ==
    ASSUME IInv, NEW p \in Process, Step(p)
    PROVE  /\ mail' \in [Object -> Cells]
           /\ \A o \in Object : Beginning(mail'[o]) \in Headers
<1> DEFINE w == write_shm[p]
<1>1. /\ mail \in [Object -> Cells]
      /\ \A o \in Object : Beginning(mail[o]) \in Headers
  BY DEF IInv, TypeOK, ContentsOK
<1>2. ASSUME NEW c \in Cells, Beginning(c) \in Headers, w \in Object,
             mail' = [mail EXCEPT ![w] = c]
      PROVE  /\ mail' \in [Object -> Cells]
             /\ \A o \in Object : Beginning(mail'[o]) \in Headers
  <2>1. /\ mail' \in [Object -> Cells]
        /\ \A o \in Object : mail'[o] = c \/ mail'[o] = mail[o]
    BY <1>1, <1>2
  <2> QED
    BY <1>1, <1>2, <2>1
<1>3. CASE UNCHANGED mail
  BY <1>1, <1>3
<1>4. CASE w \in Object /\ mail' = [mail EXCEPT ![w] = Overwrite(mail[w], Beginning(FlatOf(p)))]
  <2> DEFINE c == Overwrite(mail[w], Beginning(FlatOf(p)))
  <2>1. c \in Cells /\ Beginning(c) = Beginning(FlatOf(p))
    BY <1>1, <1>4, HeaderWritten
  <2>2. Beginning(FlatOf(p)) \in Headers
    BY DEF Headers, Process
  <2>3. mail' = [mail EXCEPT ![w] = c]
    BY <1>4
  <2> HIDE DEF c
  <2> QED
    BY <1>2, <1>4, <2>1, <2>2, <2>3
<1>5. CASE w \in Object /\ mail' = [mail EXCEPT ![w] =
                 Overwrite(msg_to_msgbuf(mail[w], Sent[p]), Beginning(mail[w]))]
  <2> DEFINE c == Overwrite(msg_to_msgbuf(mail[w], Sent[p]), Beginning(mail[w]))
  <2>1. c \in Cells /\ Beginning(c) = Beginning(mail[w])
    BY <1>1, <1>5, DataWritten
  <2>2. mail' = [mail EXCEPT ![w] = c]
    BY <1>5
  <2> HIDE DEF c
  <2> QED
    BY <1>1, <1>2, <1>5, <2>1, <2>2
<1> QED
  BY <1>3, <1>4, <1>5, MailChange

\* What it does to the header that p has read, and to what p has printed.
LEMMA LocalChange ==
    ASSUME IInv, NEW p \in Process, Step(p)
    PROVE  \/ UNCHANGED << header, printed >> /\ pc[p] # ReadDataAt[p] /\ pc'[p] # ReadDataAt[p]
           \/ /\ pc[p] = ReadHeaderAt[p] /\ read_shm[p] \in Object
              /\ header' = [header EXCEPT ![p] = Beginning(mail[read_shm[p]])]
              /\ UNCHANGED printed
           \/ /\ pc[p] = ReadDataAt[p] /\ pc'[p] = pc[p] + 1 /\ read_shm[p] \in Object
              /\ header' = [header EXCEPT ![p] = Nothing]
              /\ printed' = [printed EXCEPT ![p] = msg_to_str(msgbuf_to_msg(
                                Overwrite(mail[read_shm[p]], header[p])))]
<1> PICK n \in Process :
    \/ OpenWriteSem(p, n) \/ OpenReadSem(p, n) \/ MapRead(p, n) \/ MapWrite(p, n)
    \/ Uses(p, n) \/ Fail(p, n)
  BY DEF Step, Uses
<1>1. TypeOK /\ HandlesOK /\ pc \in [Process -> 1 .. 17] /\ read_shm \in [Process -> Object \cup {None}]
  BY DEF IInv, TypeOK, Sigbus
<1>2. /\ pc[p] \in 5 .. 10 => read_shm[p] \in Object
      /\ pc[p] \in 1 .. 14
      /\ pc'[p] = pc[p] + 1 \/ pc'[p] = Failed \/ pc'[p] = Sigbus
  BY <1>1, Moves DEF HandlesOK, Past, Failed
<1>3. /\ ReadHeaderAt[p] \in 5 .. 10 /\ ReadDataAt[p] \in 5 .. 10 /\ ReadDataAt[p] = ReadHeaderAt[p] + 1
      /\ \A k \in {PostAt[p], WaitAt[p], HeaderAt[p], DataAt[p]} :
            k # ReadHeaderAt[p] /\ k # ReadDataAt[p]
  BY DEF Process, HeaderAt, DataAt, PostAt, WaitAt, ReadHeaderAt, ReadDataAt
<1>4. CASE ReadHeader(p, n) /\ size[read_shm[p]]
  <2>1. pc[p] = ReadHeaderAt[p]
    BY <1>1, <1>4, Where DEF ReadHeader
  <2> QED
    BY <1>2, <1>3, <1>4, <2>1 DEF ReadHeader, Beginning
<1>5. CASE ReadHeader(p, n) /\ ~ size[read_shm[p]]
  <2>1. pc[p] = ReadHeaderAt[p]
    BY <1>1, <1>5, Where DEF ReadHeader
  <2>2. UNCHANGED << header, printed >> /\ pc'[p] = Sigbus
    BY <1>1, <1>5 DEF ReadHeader
  <2> QED
    BY <1>3, <2>1, <2>2 DEF Sigbus
<1>6. CASE ReadData(p, n)
  <2>1. pc[p] = ReadDataAt[p] /\ pc'[p] = pc[p] + 1
    BY <1>1, <1>6, Where DEF ReadData, Advance
  <2> QED
    BY <1>2, <1>3, <1>6, <2>1 DEF ReadData
<1>7. CASE ~ ReadHeader(p, n) /\ ~ ReadData(p, n)
  <2>1. pc[p] # ReadHeaderAt[p] /\ pc[p] # ReadDataAt[p]
    BY <1>1, <1>3, <1>7, Where
       DEF Uses, Post, Wait, WriteHeader, WriteData, UnlinkShm, UnlinkSem,
           OpenWriteSem, OpenReadSem, MapRead, MapWrite, Fail
  <2>2. pc'[p] # ReadDataAt[p]
    BY <1>2, <1>3, <2>1 DEF Failed, Sigbus
  <2>3. UNCHANGED << header, printed >>
    BY <1>7 DEF Uses, Post, Wait, WriteHeader, WriteData, UnlinkShm, UnlinkSem,
           OpenWriteSem, OpenReadSem, MapRead, MapWrite, Fail, localVars
  <2> QED
    BY <2>1, <2>2, <2>3
<1> QED
  BY <1>4, <1>5, <1>6, <1>7

LEMMA LocalStep ==
    ASSUME IInv, NEW p \in Process, Step(p)
    PROVE  /\ header' \in [Process -> Seq(Nat)] /\ printed' \in [Process -> Seq(Nat)]
           /\ \A q \in Process : pc'[q] = ReadDataAt[q] => header'[q] \in Headers
<1>1. /\ header \in [Process -> Seq(Nat)] /\ printed \in [Process -> Seq(Nat)]
      /\ mail \in [Object -> Cells] /\ pc \in [Process -> 1 .. Sigbus]
      /\ \A o \in Object : Beginning(mail[o]) \in Headers
      /\ \A q \in Process : pc[q] = ReadDataAt[q] => header[q] \in Headers
  BY DEF IInv, TypeOK, ContentsOK
<1>2. \A q \in Process \ {p} : pc'[q] = pc[q]
  BY <1>1, Moves DEF IInv
<1>3. CASE UNCHANGED << header, printed >> /\ pc'[p] # ReadDataAt[p]
  BY <1>1, <1>2, <1>3
<1>4. CASE /\ read_shm[p] \in Object
           /\ header' = [header EXCEPT ![p] = Beginning(mail[read_shm[p]])]
           /\ UNCHANGED printed
  <2> DEFINE h == Beginning(mail[read_shm[p]])
  <2>1. h \in Headers
    BY <1>1, <1>4
  <2>2. h \in Seq(Nat)
    <3>1. mail[read_shm[p]] \in Seq(Nat) /\ Len(mail[read_shm[p]]) = SHM_SIZE
      BY <1>1, <1>4, Boxes
    <3>2. SHM_SIZE \in Nat /\ SHM_SIZE >= 2
      BY ShmemAssumption, SentFlat DEF HeaderSize
    <3> QED
      BY <3>1, <3>2 DEF Beginning, HeaderSize
  <2>3. header' = [header EXCEPT ![p] = h]
    BY <1>4
  <2> HIDE DEF h
  <2> QED
    BY <1>1, <1>2, <1>4, <2>1, <2>2, <2>3
<1>5. CASE /\ pc[p] = ReadDataAt[p] /\ pc'[p] = pc[p] + 1 /\ read_shm[p] \in Object
           /\ header' = [header EXCEPT ![p] = Nothing]
           /\ printed' = [printed EXCEPT ![p] = msg_to_str(msgbuf_to_msg(
                             Overwrite(mail[read_shm[p]], header[p])))]
  <2> DEFINE l == msg_to_str(msgbuf_to_msg(Overwrite(mail[read_shm[p]], header[p])))
  <2>1. l \in Seq(Nat)
    BY <1>1, <1>5, LinesPrinted
  <2>2. printed' = [printed EXCEPT ![p] = l]
    BY <1>5
  <2> HIDE DEF l
  <2>3. Nothing \in Seq(Nat) /\ pc'[p] # ReadDataAt[p]
    BY <1>5, Order DEF Nothing
  <2> QED
    BY <1>1, <1>2, <1>5, <2>1, <2>2, <2>3
<1> QED
  BY <1>3, <1>4, <1>5, LocalChange
------------------------------------------------------------------------------
\* The first execution.

LEMMA BothOpen ==
    ASSUME IInv, Fresh, NEW p \in Process, pc[p] \in 11 .. 14
    PROVE  \A q \in Process : /\ write_sem[q] # None /\ read_sem[q] # None
                              /\ read_shm[q] # None /\ write_shm[q] # None
<1>0. pc \in [Process -> 1 .. 17]
  BY DEF IInv, TypeOK, Sigbus
<1>1. Past(p, WaitAt[p]) /\ Past(p, 4)
  BY Order DEF Past, Failed
<1>2. Past(Peer[p], PostAt[Peer[p]])
  BY <1>1 DEF IInv, WaitOK
<1>3. \A q \in Process : pc[q] > 4 /\ pc[q] # Failed
  <2>1. PostAt[Peer[p]] > 4 /\ pc[Peer[p]] \in 1 .. 17 /\ Peer[p] \in Process
    BY <1>0, Peers, Order
  <2>2. Process = {p, Peer[p]}
    BY Peers DEF Process
  <2>3. pc[Peer[p]] > 4 /\ pc[Peer[p]] # Failed
    BY <1>2, <2>1, Order DEF Past
  <2> QED
    BY <1>1, <2>2, <2>3 DEF Past
<1>4. \A q \in Process : Past(q, 1) /\ Past(q, 2) /\ Past(q, 3) /\ Past(q, 4)
  BY <1>0, <1>3 DEF Past
<1> QED
  BY <1>4 DEF IInv, HandlesOK

LEMMA ObjectNumbers ==
    ASSUME TypeOK
    PROVE  /\ shm \in [Process -> Nat] /\ sem \in [Process -> Nat]
           /\ read_shm \in [Process -> Nat] /\ write_shm \in [Process -> Nat]
           /\ read_sem \in [Process -> Nat] /\ write_sem \in [Process -> Nat]
           /\ made.shm \in Nat /\ made.sem \in Nat
<1>1. Object \cup {None} \subseteq Nat
  BY ShmemAssumption DEF Object, None
<1> QED
  BY <1>1 DEF TypeOK

LEMMA ShmNamesStep ==
    ASSUME IInv, Fresh, NEW p \in Process, Step(p)
    PROVE  ShmNames'
<1> PICK n \in Process :
    \/ OpenWriteSem(p, n) \/ OpenReadSem(p, n) \/ MapRead(p, n) \/ MapWrite(p, n)
    \/ Uses(p, n) \/ Fail(p, n)
  BY DEF Step, Uses
<1>1. TypeOK /\ HandlesOK /\ NamesOK(shm, read_shm, write_shm, made.shm)
  BY DEF IInv, ShmNames
<1>2. Peer[p] \in Process /\ Peer[Peer[p]] = p
  BY Peers
<1> SUFFICES NamesOK(shm', read_shm', write_shm', made'.shm)
  BY DEF ShmNames
<1>3. CASE UNCHANGED << shm, read_shm, write_shm >> /\ made'.shm = made.shm
  BY <1>1, <1>3
<1>4. CASE MapRead(p, n)
  <2>1. PICK o \in Object : ShmOpen(n, o) /\ read_shm' = [read_shm EXCEPT ![p] = o]
    BY <1>4 DEF MapRead
  <2>2. n = p /\ pc[p] = 3 /\ write_shm' = write_shm
    BY <1>1, <1>4, Where DEF MapRead
  <2>3. read_shm[n] = None
    BY <1>1, <2>2 DEF HandlesOK
  <2>4. Opened(shm, made.shm, shm', made'.shm, n, o)
    BY <1>1, <2>1, ShmOpened
  <2>5. NamesOK(shm', [read_shm EXCEPT ![n] = o], write_shm, made'.shm)
    BY <1>1, <2>3, <2>4, NamesOpened, ObjectNumbers
  <2> QED
    BY <2>1, <2>2, <2>5
<1>5. CASE MapWrite(p, n)
  <2>1. PICK o \in Object : ShmOpen(n, o) /\ write_shm' = [write_shm EXCEPT ![p] = o]
    BY <1>5 DEF MapWrite
  <2>2. n = Peer[p] /\ Peer[n] = p /\ pc[p] = 4 /\ read_shm' = read_shm
    BY <1>1, <1>2, <1>5, Where DEF MapWrite
  <2>3. write_shm[Peer[n]] = None
    BY <1>1, <2>2 DEF HandlesOK
  <2>4. Opened(shm, made.shm, shm', made'.shm, n, o)
    BY <1>1, <2>1, ShmOpened
  <2>5. NamesOK(shm', read_shm, [write_shm EXCEPT ![Peer[n]] = o], made'.shm)
    BY <1>1, <2>3, <2>4, NamesOpened, ObjectNumbers
  <2> QED
    BY <2>1, <2>2, <2>5
<1>6. CASE Fail(p, n)
  <2>1. UNCHANGED << read_shm, write_shm >>
    BY <1>6 DEF Fail, localVars, handleVars
  <2>2. CASE UNCHANGED << shm, made >>
    BY <1>3, <2>1, <2>2
  <2>3. CASE \E o \in Object : ShmOpen(n, o)
    <3>1. PICK o \in Object : ShmOpen(n, o)
      BY <2>3
    <3>2. read_shm[n] = None \/ write_shm[Peer[n]] = None
      <4>1. At(p, "map_read", n) \/ At(p, "map_write", n)
        BY <1>6 DEF Fail
      <4>2. (n = p /\ pc[p] = 3) \/ (n = Peer[p] /\ pc[p] = 4)
        BY <1>1, <4>1, Where
      <4> QED
        BY <1>1, <1>2, <4>2 DEF HandlesOK
    <3>3. Opened(shm, made.shm, shm', made'.shm, n, o)
      BY <1>1, <3>1, ShmOpened
    <3>4. NamesOK(shm', read_shm, write_shm, made'.shm)
      BY <1>1, <3>2, <3>3, NamesOpened, ObjectNumbers
    <3> QED
      BY <2>1, <3>4
  <2> QED
    BY <1>6, <2>2, <2>3 DEF Fail
<1>7. CASE OpenWriteSem(p, n) \/ OpenReadSem(p, n)
  <2>1. PICK o \in Object : SemOpen(n, o)
    BY <1>7 DEF OpenWriteSem, OpenReadSem
  <2>2. made'.shm = made.shm
    BY <1>1, <2>1 DEF SemOpen, TypeOK
  <2> QED
    BY <1>3, <1>7, <2>2 DEF OpenWriteSem, OpenReadSem
<1>8. CASE UnlinkShm(p, n)
  <2>1. pc[p] \in 11 .. 14
    BY <1>1, <1>8, Where DEF UnlinkShm
  <2>2. read_shm[n] # None /\ write_shm[Peer[n]] # None
    BY <2>1, BothOpen, Peers
  <2>3. NamesOK([shm EXCEPT ![n] = None], read_shm, write_shm, made.shm)
    BY <1>1, <2>2, NamesUnlinked, ObjectNumbers
  <2> QED
    BY <1>8, <2>3 DEF UnlinkShm, localVars, handleVars
<1>9. CASE Uses(p, n) /\ ~ UnlinkShm(p, n)
  BY <1>3, <1>9 DEF Uses, WriteHeader, WriteData, Post, Wait, ReadHeader, ReadData, UnlinkSem,
                    localVars, handleVars, kernelVars
<1> QED
  BY <1>4, <1>5, <1>6, <1>7, <1>8, <1>9

LEMMA SemNamesStep ==
    ASSUME IInv, Fresh, NEW p \in Process, Step(p)
    PROVE  SemNames'
<1> PICK n \in Process :
    \/ OpenWriteSem(p, n) \/ OpenReadSem(p, n) \/ MapRead(p, n) \/ MapWrite(p, n)
    \/ Uses(p, n) \/ Fail(p, n)
  BY DEF Step, Uses
<1>1. TypeOK /\ HandlesOK /\ NamesOK(sem, read_sem, write_sem, made.sem)
  BY DEF IInv, SemNames
<1>2. Peer[p] \in Process /\ Peer[Peer[p]] = p
  BY Peers
<1> SUFFICES NamesOK(sem', read_sem', write_sem', made'.sem)
  BY DEF SemNames
<1>3. CASE UNCHANGED << sem, read_sem, write_sem >> /\ made'.sem = made.sem
  BY <1>1, <1>3
<1>4. CASE OpenReadSem(p, n)
  <2>1. PICK o \in Object : SemOpen(n, o) /\ read_sem' = [read_sem EXCEPT ![p] = o]
    BY <1>4 DEF OpenReadSem
  <2>2. n = p /\ pc[p] = 2 /\ write_sem' = write_sem
    BY <1>1, <1>4, Where DEF OpenReadSem
  <2>3. read_sem[n] = None
    BY <1>1, <2>2 DEF HandlesOK
  <2>4. Opened(sem, made.sem, sem', made'.sem, n, o)
    BY <1>1, <2>1, SemOpened
  <2>5. NamesOK(sem', [read_sem EXCEPT ![n] = o], write_sem, made'.sem)
    BY <1>1, <2>3, <2>4, NamesOpened, ObjectNumbers
  <2> QED
    BY <2>1, <2>2, <2>5
<1>5. CASE OpenWriteSem(p, n)
  <2>1. PICK o \in Object : SemOpen(n, o) /\ write_sem' = [write_sem EXCEPT ![p] = o]
    BY <1>5 DEF OpenWriteSem
  <2>2. n = Peer[p] /\ Peer[n] = p /\ pc[p] = 1 /\ read_sem' = read_sem
    BY <1>1, <1>2, <1>5, Where DEF OpenWriteSem
  <2>3. write_sem[Peer[n]] = None
    BY <1>1, <2>2 DEF HandlesOK
  <2>4. Opened(sem, made.sem, sem', made'.sem, n, o)
    BY <1>1, <2>1, SemOpened
  <2>5. NamesOK(sem', read_sem, [write_sem EXCEPT ![Peer[n]] = o], made'.sem)
    BY <1>1, <2>3, <2>4, NamesOpened, ObjectNumbers
  <2> QED
    BY <2>1, <2>2, <2>5
<1>6. CASE MapRead(p, n) \/ MapWrite(p, n) \/ Fail(p, n)
  <2>1. made'.sem = made.sem
    <3>1. UNCHANGED made \/ \E o \in Object : ShmOpen(n, o)
      BY <1>6 DEF MapRead, MapWrite, Fail
    <3> QED
      BY <1>1, <3>1 DEF ShmOpen, TypeOK
  <2> QED
    BY <1>3, <1>6, <2>1 DEF MapRead, MapWrite, Fail, localVars, handleVars
<1>7. CASE UnlinkSem(p, n)
  <2>1. pc[p] \in 11 .. 14
    BY <1>1, <1>7, Where DEF UnlinkSem
  <2>2. read_sem[n] # None /\ write_sem[Peer[n]] # None
    BY <2>1, BothOpen, Peers
  <2>3. NamesOK([sem EXCEPT ![n] = None], read_sem, write_sem, made.sem)
    BY <1>1, <2>2, NamesUnlinked, ObjectNumbers
  <2> QED
    BY <1>7, <2>3 DEF UnlinkSem, localVars, handleVars
<1>8. CASE Uses(p, n) /\ ~ UnlinkSem(p, n)
  BY <1>3, <1>8 DEF Uses, WriteHeader, WriteData, Post, Wait, ReadHeader, ReadData, UnlinkShm,
                    localVars, handleVars, kernelVars
<1> QED
  BY <1>4, <1>5, <1>6, <1>7, <1>8

\* What a process finds in its mailbox when it reads.
LEMMA Present ==
    ASSUME IInv, Fresh, NEW p \in Process, pc[p] \in {ReadHeaderAt[p], ReadDataAt[p]}
    PROVE  LET c == mail[read_shm[p]]
           IN  /\ read_shm[p] \in Object /\ size[read_shm[p]]
               /\ SubSeq(c, 1, Len(FlatOf(Peer[p]))) = FlatOf(Peer[p])
               /\ Beginning(c) = Beginning(FlatOf(Peer[p]))
<1> DEFINE q == Peer[p]
<1>0. pc \in [Process -> 1 .. 17] /\ q \in Process
  BY Peers DEF IInv, TypeOK, Sigbus
<1>1. Past(p, WaitAt[p]) /\ Past(p, 3)
  BY <1>0, Order DEF Past, Failed
<1>2. Past(q, PostAt[q])
  BY <1>1 DEF IInv, WaitOK
<1>3. Past(q, HeaderAt[q]) /\ Past(q, DataAt[q]) /\ Past(q, 4)
  BY <1>0, <1>2, Order DEF Past
<1>4. read_shm[p] # None /\ write_shm[q] # None
  BY <1>0, <1>1, <1>3 DEF IInv, HandlesOK
<1>5. read_shm[p] = write_shm[q]
  BY <1>4 DEF IInv, ShmNames, NamesOK, Under
<1>6. read_shm[p] \in Object
  BY <1>4 DEF IInv, TypeOK
<1> QED
  BY <1>0, <1>3, <1>5, <1>6 DEF IInv, MailOK

\* No process is killed, none fails once it is past its opening.
LEMMA FreshMoves ==
    ASSUME IInv, Fresh, NEW p \in Process, Step(p)
    PROVE  /\ pc' \in [Process -> 1 .. 17] /\ pc[p] \in 1 .. 14
           /\ pc'[p] = pc[p] + 1 \/ (pc'[p] = Failed /\ pc[p] \in 3 .. 4)
           /\ \A q \in Process \ {p} : pc'[q] = pc[q]
           /\ \A q \in Process, k \in 4 .. 10 :
                 Past(q, k)' <=> Past(q, k) \/ (q = p /\ pc[p] = k /\ pc'[p] = k + 1)
<1>1. TypeOK /\ pc \in [Process -> 1 .. 17]
  BY DEF IInv, TypeOK, Sigbus
<1>2. pc[p] \in {ReadHeaderAt[p]} => size[read_shm[p]]
  BY Present
<1>3. /\ pc[p] \in 1 .. 14 /\ pc' = [pc EXCEPT ![p] = pc'[p]]
      /\ pc'[p] = pc[p] + 1 \/ (pc'[p] = Failed /\ pc[p] \in 3 .. 4)
  BY <1>1, <1>2, Moves
<1>4. \A q \in Process \ {p} : pc'[q] = pc[q]
  BY <1>1, <1>3
<1>5. pc' \in [Process -> 1 .. 17]
  BY <1>1, <1>3 DEF Failed
<1>6. ASSUME NEW q \in Process, NEW k \in 4 .. 10
      PROVE  Past(q, k)' <=> Past(q, k) \/ (q = p /\ pc[p] = k /\ pc'[p] = k + 1)
  <2>1. CASE q = p
    <3>1. pc[q] \in 1 .. 14 /\ (pc'[q] = pc[q] + 1 \/ (pc'[q] = 16 /\ pc[q] \in 3 .. 4))
      BY <1>3, <2>1 DEF Failed
    <3> QED
      BY <2>1, <3>1 DEF Past, Failed
  <2>2. CASE q # p
    BY <1>4, <2>2 DEF Past
  <2> QED
    BY <2>1, <2>2
<1> QED
  BY <1>3, <1>4, <1>5, <1>6

LEMMA HandlesStay ==
    ASSUME IInv, NEW p \in Process, Step(p), NEW q \in Process, Past(q, 4)
    PROVE  /\ write_shm'[q] = write_shm[q] /\ read_shm'[q] = read_shm[q]
           /\ write_sem'[q] = write_sem[q] /\ read_sem'[q] = read_sem[q]
<1> PICK n \in Process :
    \/ OpenWriteSem(p, n) \/ OpenReadSem(p, n) \/ MapRead(p, n) \/ MapWrite(p, n)
    \/ Uses(p, n) \/ Fail(p, n)
  BY DEF Step, Uses
<1>1. TypeOK /\ pc[q] \in 1 .. 17 /\ pc[q] > 4
  BY DEF IInv, TypeOK, Sigbus, Past
<1>2. CASE Uses(p, n) \/ Fail(p, n)
  BY <1>2 DEF Uses, WriteHeader, WriteData, Post, Wait, ReadHeader, ReadData, UnlinkShm,
              UnlinkSem, Fail, localVars, handleVars
<1>3. CASE OpenWriteSem(p, n)
  <2>1. q # p /\ UNCHANGED << read_sem, read_shm, write_shm >>
    BY <1>1, <1>3, Where DEF OpenWriteSem
  <2> QED
    BY <1>1, <1>3, <2>1 DEF OpenWriteSem, TypeOK
<1>4. CASE OpenReadSem(p, n)
  <2>1. q # p /\ UNCHANGED << write_sem, read_shm, write_shm >>
    BY <1>1, <1>4, Where DEF OpenReadSem
  <2> QED
    BY <1>1, <1>4, <2>1 DEF OpenReadSem, TypeOK
<1>5. CASE MapRead(p, n)
  <2>1. q # p /\ UNCHANGED << write_sem, read_sem, write_shm >>
    BY <1>1, <1>5, Where DEF MapRead
  <2> QED
    BY <1>1, <1>5, <2>1 DEF MapRead, TypeOK
<1>6. CASE MapWrite(p, n)
  <2>1. q # p /\ UNCHANGED << write_sem, read_sem, read_shm >>
    BY <1>1, <1>6, Where DEF MapWrite
  <2> QED
    BY <1>1, <1>6, <2>1 DEF MapWrite, TypeOK
<1> QED
  BY <1>2, <1>3, <1>4, <1>5, <1>6

\* What a step does to the semaphores.
LEMMA CountChange ==
    ASSUME IInv, NEW p \in Process, Step(p)
    PROVE  \/ UNCHANGED count /\ pc[p] # WaitAt[p]
           \/ /\ pc[p] = PostAt[p] /\ pc'[p] = pc[p] + 1 /\ pc[p] # WaitAt[p]
              /\ \A o \in Object : o # write_sem[p] => count'[o] = count[o]
           \/ /\ pc[p] = WaitAt[p] /\ count[read_sem[p]] > 0
              /\ \A o \in Object : count'[o] > 0 => count[o] > 0
<1> PICK n \in Process :
    \/ OpenWriteSem(p, n) \/ OpenReadSem(p, n) \/ MapRead(p, n) \/ MapWrite(p, n)
    \/ Uses(p, n) \/ Fail(p, n)
  BY DEF Step, Uses
<1>1. TypeOK /\ pc \in [Process -> 1 .. 17] /\ count \in [Object -> 0 .. 2 * MaxRuns]
  BY DEF IInv, TypeOK, Sigbus
<1>2. /\ WaitAt[p] \in 5 .. 10
      /\ \A k \in {PostAt[p], HeaderAt[p], DataAt[p], ReadHeaderAt[p], ReadDataAt[p]} :
            k # WaitAt[p]
  BY DEF Process, HeaderAt, DataAt, PostAt, WaitAt, ReadHeaderAt, ReadDataAt
<1>3. CASE Post(p, n)
  <2>1. pc[p] = PostAt[p] /\ pc'[p] = pc[p] + 1
    BY <1>1, <1>3, Where DEF Post, Advance
  <2>2. count' = [count EXCEPT ![write_sem[p]] = count[write_sem[p]] + 1]
    BY <1>3 DEF Post
  <2> QED
    BY <1>1, <1>2, <2>1, <2>2
<1>4. CASE Wait(p, n)
  <2>1. pc[p] = WaitAt[p]
    BY <1>1, <1>4, Where DEF Wait
  <2>2. count' = [count EXCEPT ![read_sem[p]] = count[read_sem[p]] - 1] /\ count[read_sem[p]] > 0
    BY <1>4 DEF Wait
  <2>3. ASSUME NEW o \in Object, count'[o] > 0
        PROVE  count[o] > 0
    <3>1. CASE o = read_sem[p]
      BY <2>2, <3>1
    <3>2. CASE o # read_sem[p]
      BY <1>1, <2>2, <2>3, <3>2
    <3> QED
      BY <3>1, <3>2
  <2> QED
    BY <2>1, <2>2, <2>3
<1>5. CASE ~ Post(p, n) /\ ~ Wait(p, n)
  <2>1. pc[p] # WaitAt[p]
    BY <1>1, <1>2, <1>5, Where
       DEF Uses, WriteHeader, WriteData, ReadHeader, ReadData, UnlinkShm, UnlinkSem,
           OpenWriteSem, OpenReadSem, MapRead, MapWrite, Fail
  <2>2. UNCHANGED count
    BY <1>5 DEF Uses, WriteHeader, WriteData, ReadHeader, ReadData, UnlinkShm, UnlinkSem,
           OpenWriteSem, OpenReadSem, MapRead, MapWrite, Fail, kernelVars
  <2> QED
    BY <2>1, <2>2
<1> QED
  BY <1>3, <1>4, <1>5

LEMMA WaitStep ==
    ASSUME IInv, Fresh, NEW p \in Process, Step(p)
    PROVE  WaitOK'
<1>1. /\ \A o \in Object : count[o] > 0 =>
            \E q \in Process : Past(q, PostAt[q]) /\ write_sem[q] = o
      /\ \A q \in Process : Past(q, WaitAt[q]) => Past(Peer[q], PostAt[Peer[q]])
  BY DEF IInv, WaitOK
<1>2. \A q \in Process : /\ PostAt[q] \in 5 .. 10 /\ WaitAt[q] \in 5 .. 10
                         /\ Peer[q] \in Process /\ Peer[q] # q
                         /\ Process = {q, Peer[q]}
  BY Order, Peers DEF Process
<1>3. \A q \in Process : Past(q, PostAt[q]) =>
         Past(q, 4) /\ Past(q, PostAt[q])' /\ write_sem'[q] = write_sem[q]
  <2> TAKE q \in Process
  <2> HAVE Past(q, PostAt[q])
  <2>1. Past(q, 4)
    <3>1. pc[q] \in 1 .. 17
      BY DEF IInv, TypeOK, Sigbus
    <3> QED
      BY <1>2, <3>1 DEF Past
  <2>2. Past(q, PostAt[q])'
    BY <1>2, FreshMoves
  <2> QED
    BY <2>1, <2>2, HandlesStay
<1>4. \A o \in Object : count'[o] > 0 =>
         \E q \in Process : Past(q, PostAt[q])' /\ write_sem'[q] = o
  <2> SUFFICES ASSUME NEW o \in Object, count'[o] > 0
               PROVE  \E q \in Process : Past(q, PostAt[q])' /\ write_sem'[q] = o
    OBVIOUS
  <2>1. CASE count[o] > 0
    BY <1>1, <1>3, <2>1
  <2>2. CASE ~ (count[o] > 0)
    <3>1. pc[p] = PostAt[p] /\ pc'[p] = pc[p] + 1 /\ o = write_sem[p]
      BY <2>2, CountChange
    <3>2. Past(p, PostAt[p])'
      BY <1>2, <3>1, FreshMoves
    <3>3. Past(p, 4)
      BY <1>2, <3>1 DEF Past, Failed
    <3> QED
      BY <3>1, <3>2, <3>3, HandlesStay
  <2> QED
    BY <2>1, <2>2
<1>5. ASSUME NEW q \in Process, Past(q, WaitAt[q])'
      PROVE  Past(Peer[q], PostAt[Peer[q]])'
  <2>1. CASE Past(q, WaitAt[q])
    BY <1>1, <1>2, <1>3, <2>1
  <2>2. CASE ~ Past(q, WaitAt[q])
    <3>1. q = p /\ pc[p] = WaitAt[p]
      BY <1>2, <1>5, <2>2, FreshMoves
    <3>2. count[read_sem[p]] > 0
      BY <3>1, CountChange
    <3>3. Past(p, 2)
      BY <1>2, <3>1 DEF Past, Failed
    <3>4. read_sem[p] \in Object /\ read_sem[p] # None
      BY <3>3 DEF IInv, HandlesOK, TypeOK
    <3>5. PICK r \in Process : Past(r, PostAt[r]) /\ write_sem[r] = read_sem[p]
      BY <1>1, <3>2, <3>4
    <3>6. r # p
      <4>1. NamesOK(sem, read_sem, write_sem, made.sem)
        BY DEF IInv, SemNames
      <4>2. Peer[p] \in Process /\ Peer[Peer[p]] = p
        BY Peers
      <4>3. write_sem[p] = read_sem[p] => read_sem[p] = None
        BY <4>1, <4>2 DEF NamesOK, Under
      <4> QED
        BY <3>4, <3>5, <4>3
    <3> QED
      BY <1>2, <1>3, <3>1, <3>5, <3>6
  <2> QED
    BY <2>1, <2>2
<1> QED
  BY <1>4, <1>5 DEF WaitOK

LEMMA SizeStep ==
    ASSUME IInv, NEW p \in Process, Step(p)
    PROVE  /\ \A o \in Object : size[o] => size'[o]
           /\ pc[p] = 4 /\ pc'[p] = 5 => size'[write_shm'[p]]
<1> PICK n \in Process :
    \/ OpenWriteSem(p, n) \/ OpenReadSem(p, n) \/ MapRead(p, n) \/ MapWrite(p, n)
    \/ Uses(p, n) \/ Fail(p, n)
  BY DEF Step, Uses
<1>1. TypeOK /\ pc \in [Process -> 1 .. 17] /\ size \in [Object -> BOOLEAN]
  BY DEF IInv, TypeOK, Sigbus
<1>2. CASE MapWrite(p, n)
  <2>1. PICK o \in Object : /\ write_shm' = [write_shm EXCEPT ![p] = o]
                            /\ size' = [size EXCEPT ![o] = TRUE]
    BY <1>2 DEF MapWrite
  <2>2. write_shm'[p] = o
    BY <1>1, <2>1 DEF TypeOK
  <2> QED
    BY <1>1, <2>1, <2>2
<1>3. CASE Fail(p, n)
  <2>1. pc'[p] = 16
    BY <1>1, <1>3 DEF Fail, Failed
  <2>2. CASE UNCHANGED size
    BY <2>1, <2>2
  <2>3. CASE \E o \in Object, l \in {"map_read", "map_write"} :
                size' = [size EXCEPT ![o] = size[o] \/ l = "map_write"]
    BY <1>1, <2>1, <2>3
  <2> QED
    BY <1>3, <2>2, <2>3 DEF Fail
<1>4. CASE ~ MapWrite(p, n) /\ ~ Fail(p, n)
  <2>1. UNCHANGED size
    BY <1>4 DEF Uses, WriteHeader, WriteData, Post, Wait, ReadHeader, ReadData, UnlinkShm,
                UnlinkSem, OpenWriteSem, OpenReadSem, MapRead, kernelVars
  <2>2. pc[p] # 4
    BY <1>1, <1>4, Where, Order
       DEF Uses, WriteHeader, WriteData, Post, Wait, ReadHeader, ReadData, UnlinkShm,
           UnlinkSem, OpenWriteSem, OpenReadSem, MapRead
  <2> QED
    BY <2>1, <2>2
<1> QED
  BY <1>2, <1>3, <1>4

LEMMA FreshMailStep ==
    ASSUME IInv, Fresh, NEW p \in Process, Step(p)
    PROVE  MailOK'
<1>0. pc' \in [Process -> 1 .. 17] /\ pc \in [Process -> 1 .. 17] /\ mail \in [Object -> Cells]
  BY FreshMoves DEF IInv, TypeOK, Sigbus
<1>1. \A q \in Process :
         /\ Past(q, 4) => size[write_shm[q]]
         /\ Past(q, HeaderAt[q]) => Beginning(mail[write_shm[q]]) = Beginning(FlatOf(q))
         /\ Past(q, DataAt[q]) => SubSeq(mail[write_shm[q]], 1, Len(FlatOf(q))) = FlatOf(q)
  BY DEF IInv, MailOK
<1>2. \A q \in Process : Past(q, 4) => write_shm[q] \in Object /\ write_shm[q] # None
  BY DEF IInv, HandlesOK, TypeOK
<1>3. \A q \in Process : HeaderAt[q] \in 5 .. 10 /\ DataAt[q] = HeaderAt[q] + 1
                          /\ DataAt[q] \in 5 .. 10
  BY Order
<1>4. ASSUME NEW q \in Process, Past(q, 4)'
      PROVE  size'[write_shm'[q]]
  <2>1. CASE Past(q, 4)
    BY <1>1, <1>2, <2>1, HandlesStay, SizeStep
  <2>2. CASE ~ Past(q, 4)
    <3>1. q = p /\ pc[p] = 4 /\ pc'[p] = 5
      BY <1>4, <2>2, FreshMoves
    <3> QED
      BY <3>1, SizeStep
  <2> QED
    BY <2>1, <2>2
<1>5. ASSUME NEW q \in Process, q # p, Past(q, 4)
      PROVE  mail'[write_shm[q]] = mail[write_shm[q]]
  <2>1. CASE UNCHANGED mail
    BY <2>1
  <2>2. CASE pc[p] \in 5 .. 10
    <3>1. Past(p, 4)
      BY <1>0, <2>2 DEF Past, Failed
    <3>2. write_shm[p] # write_shm[q]
      <4>1. NamesOK(shm, read_shm, write_shm, made.shm)
        BY DEF IInv, ShmNames
      <4>2. q = Peer[p] /\ Peer[q] = p
        BY <1>5, Peers DEF Process
      <4>3. write_shm[p] = write_shm[q] => write_shm[q] = None
        BY <4>1, <4>2 DEF NamesOK, Under
      <4> QED
        BY <1>2, <1>5, <4>3
    <3>3. \A o \in Object : o # write_shm[p] => mail'[o] = mail[o]
      BY <1>0, <1>2, <3>1, MailChange
    <3> QED
      BY <1>2, <1>5, <3>2, <3>3
  <2> QED
    BY <1>3, <2>1, <2>2, MailChange
<1>6. ASSUME NEW q \in Process, Past(q, HeaderAt[q])'
      PROVE  Beginning(mail'[write_shm'[q]]) = Beginning(FlatOf(q))
  <2>1. Past(q, 4)
    <3>1. Past(q, HeaderAt[q]) \/ (q = p /\ pc[p] = HeaderAt[p])
      BY <1>3, <1>6, FreshMoves
    <3> QED
      BY <1>0, <1>3, <3>1 DEF Past, Failed
  <2>2. write_shm'[q] = write_shm[q] /\ write_shm[q] \in Object
    BY <1>2, <2>1, HandlesStay
  <2> DEFINE c == mail[write_shm[q]]
  <2>3. c \in Cells
    BY <1>0, <2>2
  <2>4. CASE Past(q, HeaderAt[q])
    <3>1. Beginning(c) = Beginning(FlatOf(q))
      BY <1>1, <2>4
    <3>2. CASE q # p
      BY <1>5, <2>1, <2>2, <3>1, <3>2
    <3>3. CASE q = p
      <4>1. pc[p] # HeaderAt[p]
        BY <2>4, <3>3, <1>0, <1>3 DEF Past
      <4>2. CASE UNCHANGED mail
        BY <2>2, <3>1, <4>2
      <4>3. CASE mail' = [mail EXCEPT ![write_shm[p]] =
                    Overwrite(msg_to_msgbuf(mail[write_shm[p]], Sent[p]), Beginning(mail[write_shm[p]]))]
        <5>1. mail'[write_shm[q]] = Overwrite(msg_to_msgbuf(c, Sent[q]), Beginning(c))
          BY <1>0, <2>2, <3>3, <4>3
        <5> QED
          BY <2>2, <2>3, <3>1, <5>1, DataWritten
      <4> QED
        BY <4>1, <4>2, <4>3, MailChange
    <3> QED
      BY <3>2, <3>3
  <2>5. CASE ~ Past(q, HeaderAt[q])
    <3>1. q = p /\ pc[p] = HeaderAt[p]
      BY <1>3, <1>6, <2>5, FreshMoves
    <3>2. pc[p] # DataAt[p]
      BY <1>3, <3>1
    <3>3. mail' = [mail EXCEPT ![write_shm[p]] = Overwrite(mail[write_shm[p]], Beginning(FlatOf(p)))]
      BY <3>1, <3>2, MailChange
    <3>4. mail'[write_shm[q]] = Overwrite(c, Beginning(FlatOf(q)))
      BY <1>0, <2>2, <3>1, <3>3
    <3> QED
      BY <2>2, <2>3, <3>4, HeaderWritten
  <2> QED
    BY <2>4, <2>5
<1>7. ASSUME NEW q \in Process, Past(q, DataAt[q])'
      PROVE  SubSeq(mail'[write_shm'[q]], 1, Len(FlatOf(q))) = FlatOf(q)
  <2>1. Past(q, HeaderAt[q]) /\ Past(q, 4) /\ (Past(q, DataAt[q]) \/ (q = p /\ pc[p] = DataAt[p]))
    <3>1. Past(q, DataAt[q]) \/ (q = p /\ pc[p] = DataAt[p])
      BY <1>3, <1>7, FreshMoves
    <3> QED
      BY <1>0, <1>3, <3>1 DEF Past, Failed
  <2>2. write_shm'[q] = write_shm[q] /\ write_shm[q] \in Object
    BY <1>2, <2>1, HandlesStay
  <2> DEFINE c == mail[write_shm[q]]
  <2>3. c \in Cells /\ Beginning(c) = Beginning(FlatOf(q))
    BY <1>0, <1>1, <2>1, <2>2
  <2>4. CASE q # p
    BY <1>1, <1>5, <2>1, <2>2, <2>4
  <2>5. CASE q = p
    <3>1. pc[p] # HeaderAt[p]
      BY <2>1, <2>5, <1>0, <1>3 DEF Past
    <3>2. CASE UNCHANGED mail /\ pc[p] # DataAt[p]
      BY <1>1, <2>1, <2>2, <2>5, <3>2
    <3>3. CASE mail' = [mail EXCEPT ![write_shm[p]] =
                  Overwrite(msg_to_msgbuf(mail[write_shm[p]], Sent[p]), Beginning(mail[write_shm[p]]))]
      <4>1. mail'[write_shm[q]] = Overwrite(msg_to_msgbuf(c, Sent[q]), Beginning(c))
        BY <1>0, <2>2, <2>5, <3>3
      <4> QED
        BY <2>2, <2>3, <4>1, DataWritten
    <3> QED
      BY <3>1, <3>2, <3>3, MailChange
  <2> QED
    BY <2>4, <2>5
<1> QED
  BY <1>4, <1>6, <1>7 DEF MailOK

\* A process prints the message of the other one, once.
LEMMA PrintStep ==
    ASSUME IInv, Fresh, NEW p \in Process, Step(p)
    PROVE  \/ UNCHANGED printed
           \/ /\ printed[p] = Nothing /\ printed' = [printed EXCEPT ![p] = Line(p)]
              /\ pc[p] = ReadDataAt[p] /\ pc'[p] = pc[p] + 1
<1>1. CASE /\ pc[p] = ReadDataAt[p] /\ pc'[p] = pc[p] + 1
           /\ printed' = [printed EXCEPT ![p] = msg_to_str(msgbuf_to_msg(
                             Overwrite(mail[read_shm[p]], header[p])))]
  <2>1. /\ header[p] = Beginning(FlatOf(Peer[p]))
        /\ mail[read_shm[p]] \in Cells
        /\ SubSeq(mail[read_shm[p]], 1, Len(FlatOf(Peer[p]))) = FlatOf(Peer[p])
    BY <1>1, Present DEF IInv, ReadOK, TypeOK
  <2>2. msgbuf_to_msg(Overwrite(mail[read_shm[p]], header[p])) = Sent[Peer[p]]
    BY <2>1, MessageRead, Peers
  <2>3. ~ Past(p, ReadDataAt[p])
    BY <1>1, Order DEF Past
  <2>4. printed[p] = Nothing
    BY <2>3 DEF IInv, ReadOK
  <2> QED
    BY <1>1, <2>2, <2>4 DEF Line
<1> QED
  BY <1>1, LocalChange

LEMMA ReadStep ==
    ASSUME IInv, Fresh, NEW p \in Process, Step(p)
    PROVE  ReadOK'
<1>0. /\ pc' \in [Process -> 1 .. 17] /\ pc \in [Process -> 1 .. 17]
      /\ header \in [Process -> Seq(Nat)] /\ printed \in [Process -> Seq(Nat)]
      /\ mail \in [Object -> Cells]
  BY FreshMoves DEF IInv, TypeOK, Sigbus
<1>1. \A q \in Process :
         /\ pc[q] # Sigbus
         /\ pc[q] = ReadDataAt[q] => header[q] = Beginning(FlatOf(Peer[q]))
         /\ printed[q] \in {Nothing, Line(q)}
         /\ printed[q] # Nothing => Past(q, ReadDataAt[q])
  BY DEF IInv, ReadOK
<1>2. \A q \in Process : ReadDataAt[q] \in 5 .. 10 /\ ReadDataAt[q] = ReadHeaderAt[q] + 1
  BY Order
<1>3. ASSUME NEW q \in Process
      PROVE  pc'[q] # Sigbus
  BY <1>1, FreshMoves DEF Sigbus, Failed
<1>4. \A q \in Process : Past(q, ReadDataAt[q]) => Past(q, ReadDataAt[q])'
  BY <1>2, FreshMoves
<1>5. ASSUME NEW q \in Process, q # p
      PROVE  /\ pc'[q] = ReadDataAt[q] => header'[q] = Beginning(FlatOf(Peer[q]))
             /\ printed'[q] = printed[q]
  <2>1. header'[q] = header[q] /\ printed'[q] = printed[q]
    BY <1>0, <1>5, LocalChange
  <2>2. pc'[q] = pc[q]
    BY <1>5, FreshMoves
  <2> QED
    BY <1>1, <2>1, <2>2
<1>6. /\ pc'[p] = ReadDataAt[p] => header'[p] = Beginning(FlatOf(Peer[p]))
      /\ \/ printed'[p] = printed[p]
         \/ printed'[p] = Line(p) /\ Past(p, ReadDataAt[p])'
  <2>1. CASE UNCHANGED << header, printed >> /\ pc'[p] # ReadDataAt[p]
    BY <2>1
  <2>2. CASE /\ pc[p] = ReadHeaderAt[p]
             /\ header' = [header EXCEPT ![p] = Beginning(mail[read_shm[p]])]
             /\ UNCHANGED printed
    <3>1. Beginning(mail[read_shm[p]]) = Beginning(FlatOf(Peer[p]))
      BY <2>2, Present
    <3> QED
      BY <1>0, <2>2, <3>1
  <2>3. CASE /\ pc[p] = ReadDataAt[p] /\ pc'[p] = pc[p] + 1
    <3>1. printed'[p] = printed[p] \/ printed'[p] = Line(p)
      BY <1>0, PrintStep
    <3>2. Past(p, ReadDataAt[p])' /\ pc'[p] # ReadDataAt[p]
      <4>1. ReadDataAt[p] \in 5 .. 10 /\ pc'[p] = ReadDataAt[p] + 1
        BY <1>2, <2>3
      <4> QED
        BY <4>1 DEF Past, Failed
    <3> QED
      BY <3>1, <3>2
  <2> QED
    BY <2>1, <2>2, <2>3, LocalChange
<1>7. ASSUME NEW q \in Process
      PROVE  /\ pc'[q] = ReadDataAt[q] => header'[q] = Beginning(FlatOf(Peer[q]))
             /\ printed'[q] \in {Nothing, Line(q)}
             /\ printed'[q] # Nothing => Past(q, ReadDataAt[q])'
  <2>1. CASE q = p
    BY <1>1, <1>4, <1>6, <2>1
  <2>2. CASE q # p
    BY <1>1, <1>4, <1>5, <2>2
  <2> QED
    BY <2>1, <2>2
<1>8. \A q \in Process : Line(q)' = Line(q) /\ FlatOf(Peer[q])' = FlatOf(Peer[q])
  BY DEF Line, FlatOf
<1> QED
  BY <1>3, <1>7, <1>8 DEF ReadOK
------------------------------------------------------------------------------
LEMMA StepPreserves == ASSUME IInv, NEW p \in Process, Step(p) PROVE IInv'
<1>1. TypeOK
  BY DEF IInv
<1>2. ObjectsOK'
  BY <1>1, ObjectsStep
<1>3. TypeOK'
  BY <1>1, <1>2, ControlStep, CountStep, MailStep, LocalStep DEF TypeOK, ObjectsOK
<1>4. HandlesOK' /\ CountOK' /\ MadeOK'
  BY HandlesStep, CountStep, MadeStep
<1>5. ContentsOK'
  <2>1. \A o \in Object : Beginning(mail'[o]) \in Headers
    BY MailStep
  <2>2. \A q \in Process : pc'[q] = ReadDataAt[q] => header'[q] \in Headers
    BY LocalStep
  <2> QED
    BY <2>1, <2>2 DEF ContentsOK
<1>6. CASE Fresh
  BY <1>3, <1>4, <1>5, <1>6, ShmNamesStep, SemNamesStep, WaitStep, FreshMailStep, ReadStep DEF IInv
<1>7. CASE ~ Fresh
  <2>1. ~ Fresh'
    BY <1>1, <1>7, Moves DEF Fresh
  <2>2. ShmNames' /\ SemNames' /\ WaitOK' /\ MailOK' /\ ReadOK'
    BY <2>1 DEF ShmNames, SemNames, WaitOK, MailOK, ReadOK
  <2> QED
    BY <1>3, <1>4, <1>5, <2>2 DEF IInv
<1> QED
  BY <1>6, <1>7

LEMMA RerunPreserves == ASSUME IInv, Rerun PROVE IInv'
<1>1. /\ TypeOK /\ CountOK /\ MadeOK /\ MaxRuns \in Nat
      /\ run \in 1 .. MaxRuns /\ run' = run + 1 /\ run' \in 1 .. MaxRuns
      /\ UNCHANGED kernelVars /\ run < MaxRuns
  BY ShmemAssumption DEF IInv, TypeOK, Rerun
<1>2. pc' \in [Process -> {1, 16}]
  BY DEF Rerun, Forked, Process, Failed
<1>3. /\ read_shm' = Closed /\ write_shm' = Closed
      /\ read_sem' = Closed /\ write_sem' = Closed
      /\ header' = [p \in Process |-> Nothing] /\ printed' = [p \in Process |-> Nothing]
  BY DEF Rerun
<1>4. TypeOK'
  <2>1. Closed \in [Process -> Object \cup {None}] /\ Nothing \in Seq(Nat)
    BY DEF Closed, Nothing
  <2> QED
    BY <1>1, <1>2, <1>3, <2>1 DEF TypeOK, kernelVars, Sigbus
<1>5. HandlesOK'
  BY <1>2, <1>3 DEF HandlesOK, Past, Closed, Failed
<1>6. \A q \in Process : Posts(q) \in 0 .. 1 /\ Posts(q)' \in 0 .. 1
  BY DEF Posts
<1>7. CountOK'
  <2>1. ASSUME NEW o \in Object
        PROVE  count'[o] <= 2 * (run' - 1) + Posts("parent")' + Posts("child")'
    <3>1. count'[o] = count[o] /\ count[o] \in Nat
      BY <1>1 DEF kernelVars, TypeOK
    <3>2. count[o] <= 2 * (run - 1) + Posts("parent") + Posts("child")
      BY <1>1 DEF CountOK
    <3>3. /\ Posts("parent") \in 0 .. 1 /\ Posts("child") \in 0 .. 1
          /\ Posts("parent")' \in 0 .. 1 /\ Posts("child")' \in 0 .. 1
      BY <1>6 DEF Process
    <3> QED
      BY <1>1, <3>1, <3>2, <3>3
  <2> QED
    BY <2>1 DEF CountOK
<1>8. MadeOK'
  <2>1. pc \in [Process -> 1 .. 17]
    BY <1>1 DEF TypeOK, Sigbus
  <2>2. \A q \in Process : /\ SemOpens(q) \in 0 .. 2 /\ SemOpens(q)' \in 0 .. 2
                           /\ ShmOpens(q) \in 0 .. 2 /\ ShmOpens(q)' \in 0 .. 2
    BY <1>2, <2>1 DEF SemOpens, ShmOpens
  <2>3. /\ SemOpens("parent") \in 0 .. 2 /\ SemOpens("child") \in 0 .. 2
        /\ ShmOpens("parent") \in 0 .. 2 /\ ShmOpens("child") \in 0 .. 2
        /\ SemOpens("parent")' \in 0 .. 2 /\ SemOpens("child")' \in 0 .. 2
        /\ ShmOpens("parent")' \in 0 .. 2 /\ ShmOpens("child")' \in 0 .. 2
    BY <2>2 DEF Process
  <2>4. made' = made /\ made.sem \in Nat /\ made.shm \in Nat
    BY <1>1 DEF kernelVars, TypeOK
  <2>5. /\ made.sem <= 4 * (run - 1) + SemOpens("parent") + SemOpens("child")
        /\ made.shm <= 4 * (run - 1) + ShmOpens("parent") + ShmOpens("child")
    BY <1>1 DEF MadeOK
  <2>6. /\ made'.sem <= 4 * (run' - 1) + SemOpens("parent")' + SemOpens("child")'
        /\ made'.shm <= 4 * (run' - 1) + ShmOpens("parent")' + ShmOpens("child")'
    BY <1>1, <2>3, <2>4, <2>5
  <2> QED
    BY <2>6 DEF MadeOK
<1>9. ContentsOK'
  <2>1. \A o \in Object : Beginning(mail'[o]) \in Headers
    BY <1>1 DEF kernelVars, IInv, ContentsOK
  <2>2. \A p \in Process : pc'[p] # ReadDataAt[p]
    BY <1>2, Order
  <2> QED
    BY <2>1, <2>2 DEF ContentsOK
<1>10. ~ Fresh'
  BY <1>1 DEF Fresh
<1>11. ShmNames' /\ SemNames' /\ WaitOK' /\ MailOK' /\ ReadOK'
  BY <1>10 DEF ShmNames, SemNames, WaitOK, MailOK, ReadOK
<1> QED
  BY <1>4, <1>5, <1>7, <1>8, <1>9, <1>11 DEF IInv

LEMMA Initial == ASSUME Init PROVE IInv
<1>1. pc \in [Process -> {1, 16}] /\ run = 1 /\ MaxRuns \in Nat \ {0} /\ SHM_SIZE \in Nat
  BY ShmemAssumption DEF Init, Forked, Process, Failed
<1>2. TypeOK
  <2>1. Closed \in [Process -> Object \cup {None}] /\ Nothing \in Seq(Nat) /\ Zeros \in Cells
    BY <1>1 DEF Closed, Nothing, Zeros, Cells
  <2> QED
    BY <1>1, <2>1 DEF Init, TypeOK, Sigbus
<1>3. HandlesOK
  BY <1>1 DEF Init, HandlesOK, Past, Closed, Failed
<1>4. CountOK /\ MadeOK
  BY <1>1 DEF Init, CountOK, MadeOK, Posts, SemOpens, ShmOpens, Process
<1>5. ContentsOK
  <2>1. Beginning(Zeros) = << 0, 0 >>
    <3>1. SHM_SIZE >= 2
      BY <1>1, ShmemAssumption, SentFlat DEF HeaderSize
    <3>2. Zeros \in Seq(Nat) /\ Len(Zeros) = SHM_SIZE /\ Zeros[1] = 0 /\ Zeros[2] = 0
      BY <1>1, <3>1 DEF Zeros
    <3> HIDE DEF Zeros
    <3> DEFINE h == SubSeq(Zeros, 1, 2)
    <3>3. h \in Seq(Nat) /\ Len(h) = 2 /\ h[1] = 0 /\ h[2] = 0
      BY <3>1, <3>2
    <3> HIDE DEF h
    <3>4. h = << h[1], h[2] >>
      BY <3>3
    <3>5. h = << 0, 0 >>
      BY <3>3, <3>4
    <3> QED
      BY <3>5 DEF Beginning, HeaderSize, h
  <2>2. \A p \in Process : pc[p] # ReadDataAt[p]
    BY <1>1, Order
  <2>3. \A o \in Object : mail[o] = Zeros
    BY DEF Init
  <2> HIDE DEF Zeros
  <2> QED
    BY <2>1, <2>2, <2>3 DEF ContentsOK, Headers
<1>6. ShmNames /\ SemNames
  BY Peers DEF Init, ShmNames, SemNames, NamesOK, Under, Closed, None
<1>7. WaitOK /\ MailOK
  <2>1. \A p \in Process : \A k \in 1 .. 10 : ~ Past(p, k)
    BY <1>1 DEF Past, Failed
  <2>2. \A o \in Object : ~ count[o] > 0
    BY DEF Init
  <2>3. \A p \in Process : ~ Past(p, 4) /\ ~ Past(p, HeaderAt[p]) /\ ~ Past(p, DataAt[p])
                           /\ ~ Past(p, WaitAt[p])
    <3> TAKE p \in Process
    <3>1. HeaderAt[p] \in 1 .. 10 /\ DataAt[p] \in 1 .. 10 /\ WaitAt[p] \in 1 .. 10
      BY Order
    <3> QED
      BY <2>1, <3>1
  <2> QED
    BY <2>2, <2>3 DEF WaitOK, MailOK
<1>8. ReadOK
  BY <1>1, Order DEF Init, ReadOK, Sigbus
<1> QED
  BY <1>2, <1>3, <1>4, <1>5, <1>6, <1>7, <1>8 DEF IInv

LEMMA Invariance == Spec => []IInv
<1>1. Init => IInv
  BY Initial
<1>2. IInv /\ [Next]_vars => IInv'
  <2>1. ASSUME IInv, UNCHANGED vars PROVE IInv'
    <3> USE <2>1 DEF vars, kernelVars, localVars, handleVars, IInv
    <3>1. TypeOK' /\ HandlesOK' /\ CountOK' /\ MadeOK' /\ ContentsOK'
      BY DEF TypeOK, HandlesOK, Past, CountOK, Posts, MadeOK, SemOpens, ShmOpens, ContentsOK
    <3>2. ShmNames' /\ SemNames'
      BY DEF ShmNames, SemNames, Fresh
    <3>3. WaitOK' /\ MailOK' /\ ReadOK'
      BY DEF WaitOK, MailOK, ReadOK, Past, Fresh
    <3> QED
      BY <3>1, <3>2, <3>3
  <2> QED
    BY <2>1, StepPreserves, RerunPreserves DEF Next
<1> QED
  BY <1>1, <1>2, PTL DEF Spec

\* Every variable of Shmem has its type in every reachable state, whatever
\* earlier executions left: above all, what a process prints is a line, although
\* it may read a mailbox without a message, or with half of one
\* (hw4p2_shmem.c:136-144, 203-211).
THEOREM TypeCorrect == Spec => []TypeOK
<1>1. IInv => TypeOK
  BY DEF IInv
<1> QED
  BY <1>1, Invariance, PTL

\* The number of objects bounds nothing: whenever a process opens a name there is
\* an object left for it (hw4p2_shmem.c:84-127, 171-199).
THEOREM ObjectsSuffice ==
    Spec => [](\A p, n \in Process :
                  /\ At(p, "open_write_sem", n) \/ At(p, "open_read_sem", n)
                        => made.sem + 1 \in Object
                  /\ At(p, "map_read", n) \/ At(p, "map_write", n)
                        => made.shm + 1 \in Object)
<1> DEFINE Left == \A p, n \in Process :
                  /\ At(p, "open_write_sem", n) \/ At(p, "open_read_sem", n)
                        => made.sem + 1 \in Object
                  /\ At(p, "map_read", n) \/ At(p, "map_write", n)
                        => made.shm + 1 \in Object
<1>1. IInv => Left
  <2> SUFFICES ASSUME IInv, NEW p \in Process, NEW n \in Process
               PROVE  /\ At(p, "open_write_sem", n) \/ At(p, "open_read_sem", n)
                            => made.sem + 1 \in Object
                      /\ At(p, "map_read", n) \/ At(p, "map_write", n)
                            => made.shm + 1 \in Object
    OBVIOUS
  <2>1. /\ TypeOK /\ MadeOK /\ run \in 1 .. MaxRuns /\ MaxRuns \in Nat
        /\ pc \in [Process -> 1 .. 17] /\ made.sem \in Nat /\ made.shm \in Nat
    BY ShmemAssumption DEF IInv, TypeOK, Sigbus
  <2>2. pc[p] <= 2 => made.sem + 1 \in Object
    BY <2>1 DEF MadeOK, SemOpens, Process, Object
  <2>3. pc[p] <= 4 => made.shm + 1 \in Object
    BY <2>1 DEF MadeOK, ShmOpens, Process, Object
  <2> QED
    BY <2>1, <2>2, <2>3, Where
<1> QED
  BY <1>1, Invariance, PTL

\* In a fresh system the message is in the mailbox when a process reads it,
\* whatever the order in which the two create and unlink the names
\* (hw4p2_shmem.c:81, 136-137, 203-208).
THEOREM PresentHolds == Spec => []MessagePresent
<1>1. IInv => MessagePresent
  <2> SUFFICES ASSUME IInv, Fresh, NEW p \in Process, NEW n \in Process,
                      At(p, "read_header", n) \/ At(p, "read_data", n)
               PROVE  /\ size[read_shm[p]]
                      /\ SubSeq(mail[read_shm[p]], 1, Len(Flat(Sent[Peer[p]]))) = Flat(Sent[Peer[p]])
    BY DEF MessagePresent
  <2>1. pc[p] \in {ReadHeaderAt[p], ReadDataAt[p]}
    BY Where DEF IInv
  <2> QED
    BY <2>1, Present DEF FlatOf
<1> QED
  BY <1>1, Invariance, PTL

\* In a fresh system a process that prints a message prints that of its peer,
\* whole, and once; and nothing is claimed of the later executions: every step of
\* Shmem is one of Exchange or leaves the printed messages alone
\* (hw4p2_shmem.c:65-67, 136-154, 203-215).
THEOREM ExchangeRefinement == Spec => PeersExchange
<1>1. Init => X!Init
  BY Authors DEF Init, X!Init, got, X!Process, Process
<1>2. ASSUME IInv, [Next]_vars PROVE [X!Next]_got
  <2>1. CASE Rerun
    <3>1. ~ Fresh'
      BY <1>2, <2>1 DEF Rerun, Fresh, IInv, TypeOK
    <3>2. got' = [p \in Process |-> "nobody"]
      BY <3>1 DEF got
    <3> QED
      BY <3>2 DEF X!Next, X!Restart, X!Process, Process
  <2>2. ASSUME NEW p \in Process, Step(p), Fresh, printed[p] = Nothing,
               printed' = [printed EXCEPT ![p] = Line(p)]
        PROVE  X!Receive(p)
    <3>1. Fresh'
      BY <1>2, <2>2, Moves DEF Fresh, IInv
    <3>2. got[p] = "nobody"
      BY <2>2, Authors DEF got
    <3>3. Author(Line(p)) = Peer[p]
      BY Peers, Authors DEF Line, Process
    <3>4. \A q \in Process : printed'[q] = IF q = p THEN Line(p) ELSE printed[q]
      BY <1>2, <2>2 DEF IInv, TypeOK
    <3>5. got' = [q \in Process |-> IF q = p THEN Peer[p] ELSE Author(printed[q])]
      BY <3>1, <3>3, <3>4 DEF got
    <3>6. got' = [got EXCEPT ![p] = Peer[p]]
      BY <2>2, <3>5 DEF got
    <3> QED
      BY <3>2, <3>6 DEF X!Receive, X!Peer, Peer
  <2>3. CASE run' = run /\ (printed' = printed \/ ~ Fresh)
    BY <2>3 DEF got, Fresh
  <2>4. CASE UNCHANGED vars
    BY <2>3, <2>4 DEF vars, localVars
  <2>5. ASSUME NEW p \in Process, Step(p)
        PROVE  [X!Next]_got
    <3>1. run' = run
      BY <1>2, <2>5, Moves DEF IInv
    <3>2. CASE Fresh /\ printed' # printed
      <4>1. X!Receive(p)
        BY <1>2, <2>2, <2>5, <3>2, PrintStep
      <4> QED
        BY <4>1 DEF X!Next, X!Process, Process
    <3> QED
      BY <2>3, <3>1, <3>2
  <2> QED
    BY <1>2, <2>1, <2>4, <2>5 DEF Next
<1> QED
  BY <1>1, <1>2, Invariance, PTL DEF Spec, PeersExchange, X!Spec
==============================================================================
