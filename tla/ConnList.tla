------------------------------- MODULE ConnList -------------------------------
(***************************************************************************)
(* CCConList: a doubly linked list with a cursor.  The listener keeps its  *)
(* connections in one.  A node is an address; a node that is deleted is    *)
(* handed out again; which of the free ones new returns does not matter.   *)
(***************************************************************************)
EXTENDS Naturals

CONSTANTS
    Nodes,  \* addresses of CCConListNode
    Items,  \* what the list points to
    Nil     \* the null pointer

Link == Nodes \cup {Nil}
Cell == [prev : Link, next : Link, ptr : Items] \* what a node in use holds

ASSUME NilAssumption == Nil \notin Nodes /\ Nil \notin Items /\ Nil \notin Cell

VARIABLES
    first, current, last, count,
    node    \* the heap: [prev, next, ptr] of every node in use, Nil of a free one

listVars == <<first, current, last, count, node>>

Used == {n \in Nodes : node[n] # Nil}

ListTypeOK ==
    /\ first \in Link
    /\ current \in Link
    /\ last \in Link
    /\ count \in Nat
    /\ node \in [Nodes -> Cell \cup {Nil}]

ListInit ==
    /\ first = Nil
    /\ current = Nil
    /\ last = Nil
    /\ count = 0
    /\ node = [n \in Nodes |-> Nil]

\* GetFirstItem, GetNextItem and GetCurrentItem: whether they find an item
HasFirst   == count # 0
HasNext    == count # 0 /\ current # Nil /\ node[current].next # Nil
HasCurrent == count # 0 /\ current # Nil

ToFirst ==
    /\ HasFirst
    /\ current' = first
    /\ UNCHANGED <<first, last, count, node>>

ToNext ==
    /\ HasNext
    /\ current' = node[current].next
    /\ UNCHANGED <<first, last, count, node>>

\* new: one of the free addresses, it does not matter which
NewOf(free) == CHOOSE a \in free : TRUE

\* AddItem: at the end; the cursor goes there
AddItem(item) ==
    /\ Nodes # Used
    /\ LET n == NewOf(Nodes \ Used) IN
        /\ count' = count + 1
        /\ current' = n
        /\ last' = n
        /\ \/ /\ count = 0
              /\ first' = n
              /\ node' = [node EXCEPT ![n] = [prev |-> Nil, next |-> Nil, ptr |-> item]]
           \/ /\ count # 0
              /\ first' = first
              /\ node' = [node EXCEPT ![n] = [prev |-> last, next |-> Nil, ptr |-> item],
                                      ![last].next = n]

\* variant: the previous node is linked to the next one, and not the next to
\* the previous
UnlinkedForward(n) ==
    [m \in Nodes |->
        IF m = n THEN Nil
        ELSE IF m = node[n].prev THEN [node[m] EXCEPT !.next = node[n].next]
        ELSE node[m]]

\* the neighbours of n are linked to each other and n is freed
Unlinked(n) ==
    [m \in Nodes |->
        IF m = n THEN Nil
        ELSE IF m = node[n].prev THEN [node[m] EXCEPT !.next = node[n].next]
        ELSE IF m = node[n].next THEN [node[m] EXCEPT !.prev = node[n].prev]
        ELSE node[m]]

\* DeleteCurrentItem: the cursor goes to the next item
DeleteCurrentItem ==
    /\ count # 0
    /\ current # Nil
    /\ node' = Unlinked(current)
    /\ first' = IF current = first THEN node[current].next ELSE first
    /\ last' = IF current = last THEN node[current].prev ELSE last
    /\ current' = node[current].next
    /\ count' = count - 1

-----------------------------------------------------------------------------
\* the nodes that are reached from the first one, in order
Walk ==
    LET n[i \in 1 .. count] ==
            IF i = 1 THEN first
            ELSE IF n[i - 1] \in Used THEN node[n[i - 1]].next ELSE Nil
    IN  n

\* what the list holds
Content == [i \in 1 .. count |-> IF Walk[i] \in Used THEN node[Walk[i]].ptr ELSE Nil]

\* The list is one chain of the nodes in use, count of them, linked the same
\* way in both directions, and the cursor is on it or past its end (AddItem,
\* DeleteCurrentItem).
WellLinked ==
    /\ Used = {Walk[i] : i \in 1 .. count}
    /\ \A i, j \in 1 .. count : i # j => Walk[i] # Walk[j]
    /\ \A i \in 1 .. count :
          /\ node[Walk[i]].prev = IF i = 1 THEN Nil ELSE Walk[i - 1]
          /\ node[Walk[i]].next = IF i = count THEN Nil ELSE Walk[i + 1]
    /\ count # 0 => last = Walk[count]
    /\ count = 0 => last = Nil /\ first = Nil
    /\ current \in Used \cup {Nil}
=============================================================================
