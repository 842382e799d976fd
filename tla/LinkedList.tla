------------------------------ MODULE LinkedList ------------------------------
(***************************************************************************)
(* The doubly-linked list library (linked_list.c, used by hw2/p6 and by    *)
(* the letter counter of hw3).  A list is nothing but the prev and next    *)
(* pointers of its nodes; a client keeps p_head, passes it or another node *)
(* of the list to the library, and stores the head that it gets back.      *)
(*                                                                         *)
(* A client inserts only nodes that it has allocated and that are not in   *)
(* its list.  A deleted node keeps its pointers, which may point into the  *)
(* list, until it is inserted again or freed; those of a node that has     *)
(* just been allocated may be anything.                                    *)
(***************************************************************************)
EXTENDS Integers, Sequences, FiniteSets

CONSTANTS Node,      \* the nodes that a client has
          NULL,
          MaxOffset  \* bound: the offsets passed are in -MaxOffset .. MaxOffset

ASSUME LinkedListAssumption == /\ IsFiniteSet(Node) /\ NULL \notin Node
                               /\ MaxOffset \in Nat

VARIABLES prev, next,  \* prev[n], next[n]: n->prev, n->next
          p_head,      \* the client's list
          allocated,   \* the nodes whose containers are allocated
          walking      \* does p_head walk down the list, in DESTROY or in a
                       \* loop of the client?

memVars == << allocated, walking >>
vars    == << prev, next, p_head, memVars >>

Pointer == Node \cup {NULL}
Offset  == -MaxOffset .. MaxOffset

\* The pointers of memory that is not allocated do not matter; NULL will do.
Init == /\ prev = [n \in Node |-> NULL]
        /\ next = [n \in Node |-> NULL]
        /\ p_head = NULL
        /\ allocated = {}
        /\ walking = FALSE
------------------------------------------------------------------------------
\* The walks of get_offset(), get_head(), get_tail() and size(): where one is
\* after k steps along link from p.  No walk is longer than there are nodes.
Walk(link, p) ==
    LET at[k \in 0 .. MaxOffset + Cardinality(Node)] ==
            IF k = 0 THEN p
            ELSE IF at[k - 1] = NULL THEN NULL ELSE link[at[k - 1]]
    IN  at

get_offset(prv, nxt, p, offset) ==
    IF offset >= 0 THEN Walk(nxt, p)[offset] ELSE Walk(prv, p)[-offset]

\* The last node of a walk.
End(link, p) ==
    IF p = NULL THEN NULL
    ELSE CHOOSE n \in Node :
            link[n] = NULL /\ \E k \in 0 .. Cardinality(Node) : Walk(link, p)[k] = n

get_head(prv, p) == End(prv, p)
get_tail(nxt, p) == End(nxt, p)

\* The number of nodes that the loop of size() meets.
Steps(p) == Cardinality({k \in 0 .. Cardinality(Node) : Walk(next, p)[k] # NULL})

size(p) == Steps(get_head(prev, p))

\* Pointer assignment through a pointer that may be NULL.
Set(link, p, q) == [link EXCEPT ![p] = q]
SetIf(link, p, q) == IF p = NULL THEN link ELSE Set(link, p, q)
------------------------------------------------------------------------------
\* The list that the client sees: the nodes from p_head on.
List == [i \in 1 .. Steps(p_head) |-> Walk(next, p_head)[i - 1]]

InList(p)  == \E i \in 1 .. Len(List) : List[i] = p
Index(p)   == CHOOSE i \in 1 .. Len(List) : List[i] = p
Fresh(n)   == n \in allocated /\ ~ InList(n)

\* What a client may pass as a base: any node of its list, or NULL if it is
\* empty.
Base == {p \in Pointer : IF p = NULL THEN p_head = NULL ELSE InList(p)}

insert_at_beginning(n) ==
    /\ Fresh(n)
    /\ next' = Set(next, n, p_head)
    /\ prev' = SetIf(Set(prev, n, NULL), p_head, n)
    /\ p_head' = n

insert_at_end(n) ==
    LET p_last == get_tail(next, p_head)
    IN  /\ Fresh(n)
        /\ next' = SetIf(Set(next, n, NULL), p_last, n)
        /\ prev' = Set(prev, n, p_last)
        /\ p_head' = get_head(prev', n)

\* Mutant: the node at the offset does not get its link back.
AtPositionUnlinked(p_base, n, offset) ==
    LET p_node == get_offset(prev, next, p_base, offset)
    IN  /\ Fresh(n)
        /\ p_node # NULL
        /\ next' = SetIf(Set(next, n, p_node), prev[p_node], n)
        /\ prev' = Set(prev, n, prev[p_node])
        /\ p_head' = get_head(prev', n)

\* The node goes before the one at the offset; nowhere if there is none.
insert_at_position(p_base, n, offset) ==
    LET p_node == get_offset(prev, next, p_base, offset)
    IN  /\ Fresh(n)
        /\ IF p_base = NULL
           THEN next' = Set(next, n, NULL) /\ prev' = Set(prev, n, NULL) /\ p_head' = n
           ELSE IF p_node = NULL
           THEN p_head' = get_head(prev, p_base) /\ UNCHANGED << prev, next >>
           ELSE /\ next' = SetIf(Set(next, n, p_node), prev[p_node], n)
                /\ prev' = Set(Set(prev, n, prev[p_node]), p_node, n)
                /\ p_head' = get_head(prev', n)

delete_from_beginning ==
    IF p_head = NULL
    THEN UNCHANGED vars
    ELSE /\ prev' = SetIf(prev, next[p_head], NULL)
         /\ p_head' = next[p_head]
         /\ UNCHANGED next

delete_from_end ==
    LET p_tail == get_tail(next, p_head)
    IN  IF p_tail = NULL
        THEN UNCHANGED vars
        ELSE /\ next' = SetIf(next, prev[p_tail], NULL)
             /\ p_head' = IF prev[p_tail] = NULL THEN NULL ELSE get_head(prev, p_tail)
             /\ UNCHANGED prev

\* Mutant: the head is looked up from the base, even if that is deleted.
FromPositionBase(p_base, offset) ==
    LET p_node == get_offset(prev, next, p_base, offset)
    IN  /\ p_node # NULL
        /\ next' = SetIf(next, prev[p_node], next[p_node])
        /\ prev' = SetIf(prev, next[p_node], prev[p_node])
        /\ p_head' = get_head(prev', p_base)

\* The head is looked up from a neighbour of the deleted node; if it has none,
\* from p_base, which may be the deleted node itself.
delete_from_position(p_base, offset) ==
    LET p_node == get_offset(prev, next, p_base, offset)
    IN  IF p_node = NULL
        THEN p_head' = get_head(prev, p_base) /\ UNCHANGED << prev, next >>
        ELSE LET p == prev[p_node]
                 q == next[p_node]
             IN  /\ next' = SetIf(next, p, q)
                 /\ prev' = SetIf(prev, q, p)
                 /\ p_head' = get_head(prev', IF q # NULL THEN q
                                              ELSE IF p # NULL THEN p ELSE p_base)

Call == /\ ~ walking
        /\ \/ \E n \in Node : insert_at_beginning(n) \/ insert_at_end(n)
           \/ \E n \in Node, p \in Base, k \in Offset : insert_at_position(p, n, k)
           \/ delete_from_beginning \/ delete_from_end
           \/ \E p \in Base, k \in Offset : delete_from_position(p, k)
        /\ UNCHANGED memVars
------------------------------------------------------------------------------
\* The client allocates a node; what is in the memory is arbitrary (here the
\* same in both places).
Malloc(n) ==
    /\ n \notin allocated
    /\ allocated' = allocated \cup {n}
    /\ \E p \in Pointer : prev' = Set(prev, n, p) /\ next' = Set(next, n, p)
    /\ UNCHANGED << p_head, walking >>

Released(n) == /\ allocated' = allocated \ {n}
               /\ prev' = Set(prev, n, NULL)
               /\ next' = Set(next, n, NULL)

\* It frees one that it has deleted or never inserted.
Free(n) ==
    /\ Fresh(n)
    /\ Released(n)
    /\ UNCHANGED << p_head, walking >>

\* DESTROY.
BeginDestroy == /\ ~ walking
                /\ walking' = TRUE
                /\ UNCHANGED << prev, next, p_head, allocated >>

\* Mutant: the next node is read from the memory that has been freed.
DestroyNodeFirst ==
    /\ p_head # NULL
    /\ Released(p_head)
    /\ p_head' \in Pointer
    /\ UNCHANGED walking

DestroyNode ==
    /\ p_head # NULL
    /\ p_head' = next[p_head]
    /\ Released(p_head)
    /\ UNCHANGED walking

EndDestroy == /\ p_head = NULL
              /\ walking' = FALSE
              /\ UNCHANGED << prev, next, p_head, allocated >>

Memory == \/ ~ walking /\ \E n \in Node : Malloc(n) \/ Free(n)
          \/ BeginDestroy
          \/ walking /\ (DestroyNode \/ EndDestroy)

Next == Call \/ Memory

Spec == Init /\ [][Next]_vars
------------------------------------------------------------------------------
\* Pointers point to nodes, p_head to an allocated one, and unless it walks
\* down its list to one without a predecessor.
TypeOK == /\ prev \in [Node -> Pointer]
          /\ next \in [Node -> Pointer]
          /\ allocated \subseteq Node
          /\ walking \in BOOLEAN
          /\ p_head \in allocated \cup {NULL}
          /\ p_head # NULL => walking \/ prev[p_head] = NULL

\* Within the list, the nodes that are linked forward are those that are linked
\* back, and both ends are marked.
DoublyLinked ==
    \A i \in 1 .. Len(List) :
        /\ prev[List[i]] = IF i = 1 THEN NULL ELSE List[i - 1]
        /\ next[List[i]] = IF i = Len(List) THEN NULL ELSE List[i + 1]

\* From every node of the list the library finds the same head and tail, counts
\* the same nodes, and an offset leads to the node so many places on, or to
\* NULL.
SameFromAnywhere ==
    \A i \in 1 .. Len(List) :
        /\ get_head(prev, List[i]) = List[1]
        /\ get_tail(next, List[i]) = List[Len(List)]
        /\ size(List[i]) = Len(List)
        /\ \A k \in Offset : get_offset(prev, next, List[i], k) =
                                IF i + k \in 1 .. Len(List) THEN List[i + k] ELSE NULL

\* Whatever pointers deleted nodes still hold and whatever new memory contains,
\* between calls the pointers of the list are sound, nothing in it has been
\* freed, and every walk of the library finds what it looks for
\* (linked_list.c:22-210).
WellLinked == /\ \A i \in 1 .. Len(List) : List[i] \in allocated
              /\ ~ walking => DoublyLinked /\ SameFromAnywhere

InsertAt(s, i, n) == SubSeq(s, 1, i - 1) \o << n >> \o SubSeq(s, i, Len(s))
RemoveAt(s, i)    == SubSeq(s, 1, i - 1) \o SubSeq(s, i + 1, Len(s))

\* Is there a node at that offset from p?
AtOffset(p, offset) == p # NULL /\ Index(p) + offset \in 1 .. Len(List)

\* What a step does to the sequence of nodes, by the function that takes it.
SequenceStep ==
    IF walking
    THEN allocated' # allocated =>
            allocated' = allocated \ {List[1]} /\ List' = RemoveAt(List, 1)
    ELSE
    /\ \A n \in Node : /\ insert_at_beginning(n) => List' = << n >> \o List
                       /\ insert_at_end(n) => List' = List \o << n >>
    /\ \A n \in Node, p \in Base, k \in Offset : insert_at_position(p, n, k) =>
          IF p = NULL THEN List' = << n >>
          ELSE IF AtOffset(p, k) THEN List' = InsertAt(List, Index(p) + k, n)
          ELSE UNCHANGED << prev, next >>
    /\ delete_from_beginning => List' = RemoveAt(List, 1)
    /\ delete_from_end => List' = RemoveAt(List, Len(List))
    /\ \A p \in Base, k \in Offset : delete_from_position(p, k) =>
          IF ~ AtOffset(p, k) THEN List' = List
          ELSE Len(List) > 1 => List' = RemoveAt(List, Index(p) + k)

\* Every function makes of the sequence of nodes what its description says
\* (linked_list.h:66-117), in all cases but the two in which it returns another
\* pointer than its description: nothing is said here of the head that
\* insert_at_position() returns if there is no node at the offset (90), nor of
\* what delete_from_position() makes of the only node (110-115); module Returns
\* is about them.  DESTROY frees the nodes of the list one by one, and nothing
\* else (38-54).
SequenceSemantics == [][SequenceStep]_vars
==============================================================================
