--------------------------- MODULE ConnList_proofs ---------------------------
(***************************************************************************)
(* Lemmas about CCConList, for any heap.  Walk is recursive, and what it   *)
(* gives is hard to reason about; a chain says the same of the list        *)
(* without recursion.  Every operation turns a chain into a chain, and     *)
(* what is reached from the first node is the chain, so that the list is   *)
(* well linked.                                                            *)
(***************************************************************************)
EXTENDS ConnList, WellFoundedInduction, TLAPS

\* w gives the nodes in use, each once, in the order in which they are linked.
Chain(w) ==
    /\ w \in [1 .. count -> Used]
    /\ \A n \in Used : \E i \in 1 .. count : w[i] = n
    /\ \A i, j \in 1 .. count : w[i] = w[j] => i = j
    /\ \A i \in 1 .. count :
          /\ node[w[i]].prev = IF i = 1 THEN Nil ELSE w[i - 1]
          /\ node[w[i]].next = IF i = count THEN Nil ELSE w[i + 1]
    /\ count # 0 => first = w[1] /\ last = w[count]
    /\ count = 0 => first = Nil /\ last = Nil

LEMMA EmptyChain ==
    ASSUME ListInit
    PROVE  Chain(<<>>)
<1>1. Used = {} /\ count = 0 /\ first = Nil /\ last = Nil
  BY DEF ListInit, Used
<1>2. 1 .. 0 = {} /\ <<>> \in [{} -> {}]
  OBVIOUS
<1> QED
  BY <1>1, <1>2 DEF Chain

\* AddItem puts the new node at the end.
LEMMA AddChain ==
    ASSUME ListTypeOK, NEW w, Chain(w), NEW item \in Items, AddItem(item),
           NEW n, n = current',
           NEW v, v = [i \in 1 .. count + 1 |-> IF i = count + 1 THEN n ELSE w[i]]
    PROVE  /\ Chain(v)' /\ ListTypeOK'
           /\ n \in Nodes \ Used /\ Used' = Used \cup {n} /\ count' = count + 1
           /\ node'[n].ptr = item
           /\ \A k \in Used : node'[k].ptr = node[k].ptr
<1> USE NilAssumption DEF ListTypeOK
<1>1. n \in Nodes \ Used /\ count' = count + 1 /\ last' = n
  BY DEF AddItem, NewOf, Used
<1>2. CASE count = 0
  <2>1. Used = {}
    BY <1>2 DEF Chain
  <2>2. /\ first' = n
        /\ node' = [node EXCEPT ![n] = [prev |-> Nil, next |-> Nil, ptr |-> item]]
    BY <1>2 DEF AddItem
  <2>3. node'[n] \in Cell /\ ListTypeOK'
    BY <1>1, <2>2 DEF Link, Cell
  <2>4. Used' = {n}
    BY <1>1, <2>1, <2>2, <2>3 DEF Used
  <2>5. v = [i \in 1 .. 1 |-> n] /\ count' = 1
    BY <1>1, <1>2
  <2>6. Chain(v)'
    <3>1. v \in [1 .. 1 -> {n}] /\ v[1] = n
      BY <2>5
    <3>2. node'[n].prev = Nil /\ node'[n].next = Nil /\ first' = n /\ last' = n
      BY <1>1, <2>2
    <3>3. \A i \in 1 .. 1 : i = 1
      OBVIOUS
    <3> QED
      BY <2>4, <2>5, <3>1, <3>2, <3>3 DEF Chain
  <2> QED
    BY <1>1, <2>1, <2>2, <2>3, <2>4, <2>6
<1>3. CASE count # 0
  <2>1. /\ first' = first
        /\ node' = [node EXCEPT ![n] = [prev |-> last, next |-> Nil, ptr |-> item],
                                ![last].next = n]
    BY <1>3 DEF AddItem
  <2>2. last = w[count] /\ last \in Used /\ last # n
    BY <1>1, <1>3 DEF Chain
  <2>3. /\ node'[n] = [prev |-> last, next |-> Nil, ptr |-> item]
        /\ node'[last] = [node[last] EXCEPT !.next = n]
        /\ \A m \in Nodes \ {n, last} : node'[m] = node[m]
    BY <1>1, <2>1, <2>2 DEF Used
  <2>4. node[last] \in Cell
    BY <2>2 DEF Used
  <2>5. ListTypeOK' /\ node'[n] \in Cell /\ node'[last] \in Cell
    <3>1. node'[n] \in Cell
      BY <2>2, <2>3 DEF Link, Cell, Used
    <3>2. node'[last] \in Cell
      BY <1>1, <2>3, <2>4 DEF Link, Cell
    <3>3. node' \in [Nodes -> Cell \cup {Nil}]
      BY <2>1, <2>3, <3>1, <3>2
    <3> QED
      BY <1>1, <2>1, <3>1, <3>2, <3>3 DEF Link
  <2>6. Used' = Used \cup {n}
    BY <1>1, <2>2, <2>3, <2>5 DEF Used
  <2>7. \A m \in Used : node'[m].ptr = node[m].ptr /\ node'[m].prev = node[m].prev
    BY <1>1, <2>2, <2>3, <2>4 DEF Used, Cell
  <2>8. /\ v \in [1 .. count' -> Used'] /\ v[count + 1] = n
        /\ \A i \in 1 .. count : v[i] = w[i] /\ v[i] \in Used
    BY <1>1, <2>6 DEF Chain
  <2>9. \A m \in Used' : \E i \in 1 .. count' : v[i] = m
    BY <1>1, <2>6, <2>8 DEF Chain
  <2>10. \A i, j \in 1 .. count' : v[i] = v[j] => i = j
    BY <1>1, <2>8 DEF Chain
  <2>11. ASSUME NEW i \in 1 .. count'
         PROVE  /\ node'[v[i]].prev = IF i = 1 THEN Nil ELSE v[i - 1]
                /\ node'[v[i]].next = IF i = count' THEN Nil ELSE v[i + 1]
    <3>1. CASE i = count + 1
      BY <1>1, <1>3, <2>2, <2>3, <2>8, <3>1
    <3>2. CASE i = count
      BY <1>1, <1>3, <2>2, <2>3, <2>4, <2>7, <2>8, <3>2 DEF Chain, Cell
    <3>3. CASE i < count
      <4>1. v[i] \in Nodes \ {n, last} /\ node'[v[i]] = node[v[i]]
        BY <1>1, <1>3, <2>2, <2>3, <2>8, <3>3 DEF Chain, Used
      <4> QED
        BY <1>1, <2>8, <3>3, <4>1 DEF Chain
    <3> QED
      BY <1>1, <3>1, <3>2, <3>3
  <2>12. first' = v[1]
    BY <1>3, <2>1, <2>8 DEF Chain
  <2>13. Chain(v)'
    BY <1>1, <2>8, <2>9, <2>10, <2>11, <2>12 DEF Chain
  <2> QED
    BY <1>1, <2>3, <2>5, <2>6, <2>7, <2>13
<1> QED
  BY <1>2, <1>3

\* DeleteCurrentItem takes the node at the cursor out, and the cursor goes on.
LEMMA DeleteChain ==
    ASSUME ListTypeOK, NEW w, Chain(w), NEW k \in 1 .. count, current = w[k],
           DeleteCurrentItem,
           NEW v, v = [i \in 1 .. count - 1 |-> IF i < k THEN w[i] ELSE w[i + 1]]
    PROVE  /\ Chain(v)' /\ ListTypeOK'
           /\ Used' = Used \ {current} /\ count' = count - 1
           /\ current' \in Used' \cup {Nil}
           /\ \A n \in Used' : node'[n].ptr = node[n].ptr
<1> USE NilAssumption DEF ListTypeOK
<1>1. /\ w \in [1 .. count -> Used] /\ w[k] \in Used
      /\ \A i, j \in 1 .. count : w[i] = w[j] => i = j
  BY DEF Chain
<1>2. \A n \in Used : n \in Nodes /\ node[n] \in Cell
  BY DEF Used
<1>3. \A i \in 1 .. count :
          /\ node[w[i]].prev = IF i = 1 THEN Nil ELSE w[i - 1]
          /\ node[w[i]].next = IF i = count THEN Nil ELSE w[i + 1]
  BY DEF Chain
<1>4. /\ node'[w[k]] = Nil
      /\ \A i \in 1 .. count :
            /\ i = k - 1 => node'[w[i]] = [node[w[i]] EXCEPT !.next = node[w[k]].next]
            /\ i = k + 1 => node'[w[i]] = [node[w[i]] EXCEPT !.prev = node[w[k]].prev]
            /\ i < k - 1 \/ i > k + 1 => node'[w[i]] = node[w[i]]
  <2>1. node' = Unlinked(w[k])
    BY DEF DeleteCurrentItem
  <2>2. ASSUME NEW i \in 1 .. count
        PROVE  /\ w[i] \in Nodes /\ w[i] # Nil
               /\ w[i] = node[w[k]].prev <=> i = k - 1
               /\ w[i] = node[w[k]].next <=> i = k + 1
               /\ w[i] = w[k] <=> i = k
    <3>1. w[i] \in Nodes /\ w[i] # Nil
      BY <1>1, <1>2
    <3>2. w[i] = node[w[k]].prev <=> i = k - 1
      BY <1>1, <1>3, <3>1
    <3>3. w[i] = node[w[k]].next <=> i = k + 1
      BY <1>1, <1>3, <3>1
    <3> QED
      BY <1>1, <3>1, <3>2, <3>3
  <2> QED
    BY <2>1, <2>2 DEF Unlinked
<1>5. \A n \in Nodes \ Used : node'[n] = Nil
  <2>1. ASSUME NEW n \in Nodes \ Used
        PROVE  n # node[w[k]].prev /\ n # node[w[k]].next /\ node[n] = Nil
    BY <1>1, <1>3 DEF Used
  <2> QED
    BY <2>1 DEF DeleteCurrentItem, Unlinked, Used
<1>6. \A i \in 1 .. count : i # k =>
          node'[w[i]] \in Cell /\ node'[w[i]].ptr = node[w[i]].ptr
  <2>1. ASSUME NEW i \in 1 .. count, i # k
        PROVE  node'[w[i]] \in Cell /\ node'[w[i]].ptr = node[w[i]].ptr
    <3>1. node[w[i]] \in Cell /\ node[w[k]].next \in Link /\ node[w[k]].prev \in Link
      BY <1>1, <1>2 DEF Cell
    <3>2. CASE i = k - 1
      BY <1>4, <3>1, <3>2 DEF Cell
    <3>3. CASE i = k + 1
      BY <1>4, <3>1, <3>3 DEF Cell
    <3>4. CASE i < k - 1 \/ i > k + 1
      BY <1>4, <3>1, <3>4
    <3> QED
      BY <2>1, <3>2, <3>3, <3>4
  <2> QED
    BY <2>1
<1>7. Used' = Used \ {w[k]}
  BY <1>4, <1>5, <1>6 DEF Chain, Used
<1>8. count' = count - 1 /\ count' \in Nat
  BY DEF DeleteCurrentItem
<1>9. /\ v \in [1 .. count' -> Used']
      /\ \A i \in 1 .. count' : v[i] = IF i < k THEN w[i] ELSE w[i + 1]
  BY <1>1, <1>7, <1>8
<1>10. \A n \in Used' : \E i \in 1 .. count' : v[i] = n
  <2> SUFFICES ASSUME NEW n \in Used'
               PROVE  \E i \in 1 .. count' : v[i] = n
    OBVIOUS
  <2>1. PICK j \in 1 .. count : w[j] = n
    BY <1>7 DEF Chain
  <2>2. j # k
    BY <1>7, <2>1
  <2>3. CASE j < k
    <3>1. j \in 1 .. count' /\ v[j] = n
      BY <1>8, <1>9, <2>1, <2>3
    <3> QED
      BY <3>1
  <2>4. CASE j > k
    <3>1. j - 1 \in 1 .. count' /\ v[j - 1] = n
      BY <1>8, <1>9, <2>1, <2>4
    <3> QED
      BY <3>1
  <2>5. j < k \/ j > k
    BY <2>2
  <2> QED
    BY <2>3, <2>4, <2>5
<1>11. ASSUME NEW i \in 1 .. count', NEW j \in 1 .. count', v[i] = v[j]
       PROVE  i = j
  <2> DEFINE a == IF i < k THEN i ELSE i + 1
             b == IF j < k THEN j ELSE j + 1
  <2>1. a \in 1 .. count /\ b \in 1 .. count
    BY <1>8
  <2>2. w[a] = w[b]
    BY <1>9, <1>11
  <2>3. a = b
    BY <1>1, <2>1, <2>2
  <2> QED
    BY <1>8, <2>3
<1>12. ASSUME NEW i \in 1 .. count'
       PROVE  /\ node'[v[i]].prev = IF i = 1 THEN Nil ELSE v[i - 1]
              /\ node'[v[i]].next = IF i = count' THEN Nil ELSE v[i + 1]
  <2>1. /\ i \in 1 .. count /\ i + 1 \in 1 .. count
        /\ v[i] = IF i < k THEN w[i] ELSE w[i + 1]
        /\ i # 1 => v[i - 1] = IF i - 1 < k THEN w[i - 1] ELSE w[i]
        /\ i # count' => v[i + 1] = IF i + 1 < k THEN w[i + 1] ELSE w[i + 2]
    <3>1. i \in 1 .. count /\ i + 1 \in 1 .. count
      BY <1>8
    <3>2. i # 1 => i - 1 \in 1 .. count'
      BY <1>8
    <3>3. i # count' => i + 1 \in 1 .. count' /\ (i + 1) + 1 = i + 2
      BY <1>8
    <3>4. i # 1 => v[i - 1] = IF i - 1 < k THEN w[i - 1] ELSE w[(i - 1) + 1]
      BY <1>9, <3>2
    <3>5. i # count' => v[i + 1] = IF i + 1 < k THEN w[i + 1] ELSE w[(i + 1) + 1]
      BY <1>9, <3>3
    <3> QED
      BY <1>9, <3>1, <3>3, <3>4, <3>5
  <2>2. /\ node[w[i]].prev = IF i = 1 THEN Nil ELSE w[i - 1]
        /\ node[w[i]].next = w[i + 1]
        /\ node[w[i + 1]].prev = w[i]
        /\ node[w[i + 1]].next = IF i = count' THEN Nil ELSE w[i + 2]
        /\ node[w[k]].prev = IF k = 1 THEN Nil ELSE w[k - 1]
        /\ node[w[k]].next = IF k = count THEN Nil ELSE w[k + 1]
    <3>1. /\ node[w[i + 1]].prev = w[(i + 1) - 1]
          /\ node[w[i + 1]].next = IF i + 1 = count THEN Nil ELSE w[(i + 1) + 1]
      BY <1>3, <1>8, <2>1
    <3>2. (i + 1) - 1 = i /\ (i + 1) + 1 = i + 2 /\ (i + 1 = count <=> i = count') /\ i # count
      BY <1>8
    <3> QED
      BY <1>3, <2>1, <3>1, <3>2
  <2>3. CASE i < k - 1
    <3>1. i \in 1 .. count /\ v[i] = w[i]
      BY <2>1, <2>3
    <3>2. node'[v[i]] = node[w[i]]
      BY <1>4, <2>3, <3>1
    <3> QED
      BY <1>8, <2>1, <2>2, <2>3, <3>2
  <2>4. CASE i = k - 1
    <3>0. i \in 1 .. count /\ v[i] = w[i]
      BY <2>1, <2>4
    <3>1. node'[v[i]] = [node[w[i]] EXCEPT !.next = node[w[k]].next]
      BY <1>4, <2>4, <3>0
    <3>2. node[w[i]] \in Cell
      BY <1>1, <1>2, <2>1
    <3>3. node'[v[i]].prev = node[w[i]].prev /\ node'[v[i]].next = node[w[k]].next
      BY <3>1, <3>2 DEF Cell
    <3> QED
      BY <1>8, <2>1, <2>2, <2>4, <3>3
  <2>5. CASE i = k
    <3>0. i + 1 \in 1 .. count /\ i + 1 = k + 1 /\ v[i] = w[i + 1]
      BY <2>1, <2>5
    <3>1. node'[v[i]] = [node[w[i + 1]] EXCEPT !.prev = node[w[k]].prev]
      BY <1>4, <3>0
    <3>2. node[w[i + 1]] \in Cell
      BY <1>1, <1>2, <2>1
    <3>3. node'[v[i]].prev = node[w[k]].prev /\ node'[v[i]].next = node[w[i + 1]].next
      BY <3>1, <3>2 DEF Cell
    <3> QED
      BY <1>8, <2>1, <2>2, <2>5, <3>3
  <2>6. CASE i > k
    <3>1. i + 1 \in 1 .. count /\ i + 1 > k + 1 /\ v[i] = w[i + 1]
      BY <2>1, <2>6
    <3>2. node'[v[i]] = node[w[i + 1]]
      BY <1>4, <3>1
    <3> QED
      BY <1>8, <2>1, <2>2, <2>6, <3>2
  <2> QED
    BY <1>8, <2>3, <2>4, <2>5, <2>6
<1>13. /\ count' # 0 => first' = v[1] /\ last' = v[count']
       /\ count' = 0 => first' = Nil /\ last' = Nil
  <2>1. /\ first = w[1] /\ last = w[count]
    BY DEF Chain
  <2>2. /\ first' = IF k = 1 THEN node[w[k]].next ELSE w[1]
        /\ last' = IF k = count THEN node[w[k]].prev ELSE w[count]
    BY <1>1, <2>1 DEF DeleteCurrentItem
  <2> QED
    BY <1>3, <1>8, <1>9, <2>2
<1>14. current' \in Used' \cup {Nil} /\ first' \in Link /\ last' \in Link
  <2>1. current' = IF k = count THEN Nil ELSE w[k + 1]
    BY <1>3 DEF DeleteCurrentItem
  <2>2. Used' \subseteq Nodes
    BY <1>2, <1>7
  <2>3. current' \in Used' \cup {Nil}
    BY <1>1, <1>7, <2>1
  <2>4. first' \in Used' \cup {Nil} /\ last' \in Used' \cup {Nil}
    BY <1>8, <1>9, <1>13
  <2> QED
    BY <2>2, <2>3, <2>4 DEF Link
<1>15. node' \in [Nodes -> Cell \cup {Nil}]
  <2>1. \A n \in Used : \E i \in 1 .. count : w[i] = n
    BY DEF Chain
  <2>2. \A n \in Nodes : node'[n] \in Cell \cup {Nil}
    BY <1>4, <1>5, <1>6, <2>1
  <2>3. node' = [m \in Nodes |-> node'[m]]
    BY DEF DeleteCurrentItem, Unlinked
  <2> QED
    BY <2>2, <2>3
<1>16. \A n \in Used' : node'[n].ptr = node[n].ptr
  BY <1>6, <1>7 DEF Chain
<1>17. Chain(v)'
  BY <1>9, <1>10, <1>11, <1>12, <1>13 DEF Chain
<1>18. current' \in Link
  BY <1>2, <1>7, <1>14 DEF Link
<1> QED
  BY <1>7, <1>8, <1>14, <1>15, <1>16, <1>17, <1>18

-----------------------------------------------------------------------------
(* Walk.                                                                    *)

\* A set of numbers has a smallest element.
LEMMA LeastOf ==
    ASSUME NEW S \in SUBSET Nat, S # {}
    PROVE  \E m \in S : \A x \in S : m <= x
<1> DEFINE R == {ss \in Nat \X Nat : ss[1] < ss[2]}
<1>1. IsWellFoundedOn(R, Nat)
  BY NatLessThanWellFounded, Zenon DEF OpToRel
<1>2. PICK m \in S : \A y \in S : ~ (<<y, m>> \in R)
  BY <1>1, WFMin, Zenon
<1>3. ASSUME NEW y \in S
      PROVE  m <= y
  <2>1. y < m => <<y, m>> \in R
    OBVIOUS
  <2> QED
    BY <1>2, <2>1
<1> QED
  BY <1>3

\* The nodes reached from the first one, one after the other.
Steps(n) ==
    n = [i \in 1 .. count |->
            IF i = 1 THEN first
            ELSE IF n[i - 1] \in Used THEN node[n[i - 1]].next ELSE Nil]

LEMMA WalkSteps ==
    ASSUME NEW w, Steps(w)
    PROVE  Steps(Walk)
<1> DEFINE n == CHOOSE n : Steps(n)
<1>1. Walk = n
  BY DEF Walk, Steps
<1>2. Steps(n)
  BY DEF Steps
<1> QED
  BY <1>1, <1>2 DEF Steps

\* They are the chain.
LEMMA WalkIs ==
    ASSUME ListTypeOK, NEW w, Chain(w)
    PROVE  Walk = w
<1> USE DEF ListTypeOK
<1>1. /\ w \in [1 .. count -> Used] /\ (count # 0 => first = w[1])
      /\ \A i \in 1 .. count : node[w[i]].next = IF i = count THEN Nil ELSE w[i + 1]
  BY DEF Chain
<1>2. ASSUME NEW i \in 1 .. count, i # 1
      PROVE  i - 1 \in 1 .. count /\ w[i - 1] \in Used /\ node[w[i - 1]].next = w[i]
  <2>1. i - 1 \in 1 .. count /\ i - 1 # count /\ (i - 1) + 1 = i
    BY <1>2
  <2> QED
    BY <1>1, <2>1
<1>3. Steps(w)
  <2>1. \A i \in 1 .. count :
            w[i] = IF i = 1 THEN first
                   ELSE IF w[i - 1] \in Used THEN node[w[i - 1]].next ELSE Nil
    BY <1>1, <1>2
  <2> QED
    BY <1>1, <2>1 DEF Steps
<1>4. ASSUME NEW n, Steps(n)
      PROVE  \A i \in 1 .. count : n[i] = w[i]
  <2>1. \A i \in 1 .. count :
            n[i] = IF i = 1 THEN first
                   ELSE IF n[i - 1] \in Used THEN node[n[i - 1]].next ELSE Nil
    BY <1>4 DEF Steps
  <2> DEFINE S == {i \in 1 .. count : n[i] # w[i]}
  <2> SUFFICES ASSUME S # {}
               PROVE  FALSE
    OBVIOUS
  <2>2. PICK m \in S : \A x \in S : m <= x
    <3>1. S \in SUBSET Nat
      OBVIOUS
    <3> HIDE DEF S
    <3> QED
      BY <3>1, LeastOf
  <2>3. m # 1
    <3>1. m \in 1 .. count /\ n[m] # w[m]
      OBVIOUS
    <3>2. m = 1 => n[m] = first /\ count # 0
      BY <2>1, <3>1
    <3> QED
      BY <1>1, <3>1, <3>2
  <2>4. n[m - 1] = w[m - 1]
    BY <1>2, <2>2, <2>3
  <2>5. m \in 1 .. count /\ n[m] # w[m]
    OBVIOUS
  <2>6. n[m] = node[w[m - 1]].next
    BY <1>2, <2>1, <2>3, <2>4, <2>5
  <2> QED
    BY <1>2, <2>3, <2>5, <2>6
<1>5. Steps(Walk)
  BY <1>3, WalkSteps
<1>6. Walk = [i \in 1 .. count |-> Walk[i]] /\ w = [i \in 1 .. count |-> w[i]]
  BY <1>1, <1>5 DEF Steps
<1> QED
  BY <1>4, <1>5, <1>6

\* A chain makes the list well linked, and its content is the chain's.
LEMMA ChainLinks ==
    ASSUME ListTypeOK, NEW w, Chain(w), current \in Used \cup {Nil}
    PROVE  WellLinked /\ Content = [i \in 1 .. count |-> node[w[i]].ptr]
<1>1. Walk = w /\ w \in [1 .. count -> Used]
  BY WalkIs DEF Chain
<1>2. Content = [i \in 1 .. count |-> node[w[i]].ptr]
  BY <1>1 DEF Content
<1>3. WellLinked
  <2>1. Used = {w[i] : i \in 1 .. count}
    BY <1>1 DEF Chain
  <2> QED
    BY <1>1, <2>1 DEF Chain, WellLinked
<1> QED
  BY <1>2, <1>3

=============================================================================
