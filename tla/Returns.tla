------------------------------- MODULE Returns -------------------------------
(***************************************************************************)
(* The list library with a history variable: what the descriptions of its  *)
(* functions (linked_list.h) say of the pointer that they return.          *)
(***************************************************************************)
EXTENDS LinkedList

VARIABLE documentsNull  \* history: should the last call have returned NULL?

historyVars == << vars, documentsNull >>

ReturnsInit == Init /\ documentsNull = TRUE

\* "Pointer to the head of the linked list, or NULL if bad offset" (90); for a
\* deletion "Pointer to the head of the linked list (or NULL)" (98, 106, 115),
\* which is NULL when no node is left.
ReturnsCall ==
    /\ ~ walking
    /\ \/ /\ \E n \in Node : insert_at_beginning(n) \/ insert_at_end(n)
          /\ documentsNull' = FALSE
       \/ \E n \in Node, p \in Base, k \in Offset :
             /\ insert_at_position(p, n, k)
             /\ documentsNull' = (p # NULL /\ ~ AtOffset(p, k))
       \/ /\ delete_from_beginning \/ delete_from_end
          /\ documentsNull' = (Len(List) <= 1)
       \/ \E p \in Base, k \in Offset :
             /\ delete_from_position(p, k)
             /\ documentsNull' = (List = << >> \/ (Len(List) = 1 /\ AtOffset(p, k)))
    /\ UNCHANGED memVars

\* DESTROY leaves NULL (62).
ReturnsNext == \/ ReturnsCall
               \/ Memory /\ documentsNull' = (documentsNull \/ walking)

ReturnsSpec == ReturnsInit /\ [][ReturnsNext]_historyVars

\* The head that a client stores is what the descriptions say the last function
\* returns (linked_list.h:66-117): NULL if an insertion found no place or
\* nothing is left of the list, and otherwise a node.  It is not:
\* delete_from_position() looks the head up from a neighbour of the deleted node
\* and without one from p_base, which is the deleted node itself
\* (linked_list.c:143-155), and insert_at_position() returns the head when the
\* offset is bad (74-79).
ReturnsAsDocumented == ~ walking => (p_head = NULL <=> documentsNull)
==============================================================================
