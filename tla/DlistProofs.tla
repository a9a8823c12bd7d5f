----------------------------- MODULE DlistProofs -----------------------------
(***************************************************************************)
(* The links, owners and lengths of the lists agree, and each list is the  *)
(* sequence that Queues makes of the calls, for any number of nodes, lists *)
(* and mailboxes.  The argument for the second is a ring: some sequences,  *)
(* one for each list, that the links run through node by node; an          *)
(* insertion or a removal in the links makes the same of the sequences.    *)
(***************************************************************************)
EXTENDS DlistProps, FiniteSetTheorems, SequenceTheorems, WellFoundedInduction, TLAPS

Types ==
    /\ next \in [Cell -> Cell \cup {NULL}]
    /\ prev \in [Cell -> Cell \cup {NULL}]
    /\ owner \in [Cell -> List \cup {NULL}]
    /\ len \in [Mailbox -> Int]
    /\ freed \in BOOLEAN

\* The parts of WellLinked.
LinksAgree == \A c \in Cell : IF owner[c] = NULL THEN next[c] = NULL /\ prev[c] = NULL
                                                 ELSE Linked(c)
HeadersOwned == \A l \in List : owner[l] = l
LengthsAgree == \A b \in Mailbox : len[b] = Cardinality(Members(b))

Good == Types /\ WellLinked

---------------------------------------------------------------------------
(* The three operations on links.                                          *)

\* dlnode_insertnext keeps the rings.
LEMMA InsertnextLinks ==
    ASSUME Types, LinksAgree, HeadersOwned,
           NEW n \in Cell, NEW new \in Node,
           owner[n] # NULL, Unlinked(new), dlnode_insertnext(n, new)
    PROVE  /\ next' \in [Cell -> Cell \cup {NULL}]
           /\ prev' \in [Cell -> Cell \cup {NULL}]
           /\ owner' \in [Cell -> List \cup {NULL}]
           /\ LinksAgree' /\ HeadersOwned'
           /\ owner' = [owner EXCEPT ![new] = owner[n]]
<1> DEFINE m == next[n]
<1>1. /\ new \in Cell /\ new \notin List /\ n # new /\ NULL \notin Cell
      /\ m \in Cell /\ m # new /\ owner[m] = owner[n] /\ prev[m] = n
      /\ owner[n] \in List
  BY DlistAssumption DEF Types, LinksAgree, Linked, HeadersOwned, Unlinked, Cell, List
<1>2. /\ next' = [next EXCEPT ![new] = m, ![n] = new]
      /\ prev' = [prev EXCEPT ![m] = new, ![new] = n]
      /\ owner' = [owner EXCEPT ![new] = owner[n]]
  BY DEF dlnode_insertnext
<1>3. /\ next' \in [Cell -> Cell \cup {NULL}]
      /\ prev' \in [Cell -> Cell \cup {NULL}]
      /\ owner' \in [Cell -> List \cup {NULL}]
  BY <1>1, <1>2 DEF Types
<1>4. HeadersOwned'
  BY <1>1, <1>2, DlistAssumption DEF HeadersOwned, Types, Cell
<1>5. ASSUME NEW c \in Cell
      PROVE  IF owner'[c] = NULL THEN next'[c] = NULL /\ prev'[c] = NULL ELSE Linked(c)'
  <2>1. CASE c = new
    BY <1>1, <1>2, <2>1 DEF Types, Linked
  <2>2. CASE c # new /\ owner[c] = NULL
    BY <1>1, <1>2, <2>2 DEF Types, LinksAgree
  <2>3. CASE c # new /\ owner[c] # NULL
    <3>1. Linked(c) /\ next[c] # new /\ prev[c] # new
      BY <2>3, <1>1 DEF LinksAgree, Linked, Unlinked
    <3>2. owner'[c] = owner[c]
      BY <2>3, <1>2 DEF Types
    <3>3. next'[c] \in Cell /\ owner'[next'[c]] = owner'[c] /\ prev'[next'[c]] = c
      BY <1>1, <1>2, <2>3, <3>1, <3>2 DEF Types, Linked
    <3>4. prev'[c] \in Cell /\ owner'[prev'[c]] = owner'[c] /\ next'[prev'[c]] = c
      BY <1>1, <1>2, <2>3, <3>1, <3>2 DEF Types, Linked
    <3> QED BY <2>3, <3>2, <3>3, <3>4 DEF Linked
  <2> QED BY <2>1, <2>2, <2>3
<1> QED BY <1>2, <1>3, <1>4, <1>5 DEF LinksAgree

\* dlnode_insertprev keeps the rings.
LEMMA InsertprevLinks ==
    ASSUME Types, LinksAgree, HeadersOwned,
           NEW n \in Cell, NEW new \in Node,
           owner[n] # NULL, Unlinked(new), dlnode_insertprev(n, new)
    PROVE  /\ next' \in [Cell -> Cell \cup {NULL}]
           /\ prev' \in [Cell -> Cell \cup {NULL}]
           /\ owner' \in [Cell -> List \cup {NULL}]
           /\ LinksAgree' /\ HeadersOwned'
           /\ owner' = [owner EXCEPT ![new] = owner[n]]
<1> DEFINE m == prev[n]
<1>1. /\ new \in Cell /\ new \notin List /\ n # new /\ NULL \notin Cell
      /\ m \in Cell /\ m # new /\ owner[m] = owner[n] /\ next[m] = n
      /\ owner[n] \in List
  BY DlistAssumption DEF Types, LinksAgree, Linked, HeadersOwned, Unlinked, Cell, List
<1>2. /\ prev' = [prev EXCEPT ![new] = m, ![n] = new]
      /\ next' = [next EXCEPT ![m] = new, ![new] = n]
      /\ owner' = [owner EXCEPT ![new] = owner[n]]
  BY DEF dlnode_insertprev
<1>3. /\ next' \in [Cell -> Cell \cup {NULL}]
      /\ prev' \in [Cell -> Cell \cup {NULL}]
      /\ owner' \in [Cell -> List \cup {NULL}]
  BY <1>1, <1>2 DEF Types
<1>4. HeadersOwned'
  BY <1>1, <1>2, DlistAssumption DEF HeadersOwned, Types, Cell
<1>5. ASSUME NEW c \in Cell
      PROVE  IF owner'[c] = NULL THEN next'[c] = NULL /\ prev'[c] = NULL ELSE Linked(c)'
  <2>1. CASE c = new
    BY <1>1, <1>2, <2>1 DEF Types, Linked
  <2>2. CASE c # new /\ owner[c] = NULL
    BY <1>1, <1>2, <2>2 DEF Types, LinksAgree
  <2>3. CASE c # new /\ owner[c] # NULL
    <3>1. Linked(c) /\ next[c] # new /\ prev[c] # new
      BY <2>3, <1>1 DEF LinksAgree, Linked, Unlinked
    <3>2. owner'[c] = owner[c]
      BY <2>3, <1>2 DEF Types
    <3>3. next'[c] \in Cell /\ owner'[next'[c]] = owner'[c] /\ prev'[next'[c]] = c
      BY <1>1, <1>2, <2>3, <3>1, <3>2 DEF Types, Linked
    <3>4. prev'[c] \in Cell /\ owner'[prev'[c]] = owner'[c] /\ next'[prev'[c]] = c
      BY <1>1, <1>2, <2>3, <3>1, <3>2 DEF Types, Linked
    <3> QED BY <2>3, <3>2, <3>3, <3>4 DEF Linked
  <2> QED BY <2>1, <2>2, <2>3
<1> QED BY <1>2, <1>3, <1>4, <1>5 DEF LinksAgree

\* dlnode_remove keeps types, for a header as well.
LEMMA RemoveTypes ==
    ASSUME Types, LinksAgree, NEW n \in Cell, owner[n] # NULL, dlnode_remove(n)
    PROVE  /\ next' \in [Cell -> Cell \cup {NULL}]
           /\ prev' \in [Cell -> Cell \cup {NULL}]
           /\ owner' \in [Cell -> List \cup {NULL}]
  BY DEF Types, LinksAgree, Linked, dlnode_remove

\* dlnode_remove of a node keeps the rings.
LEMMA RemoveLinks ==
    ASSUME Types, LinksAgree, HeadersOwned,
           NEW n \in Node, owner[n] # NULL, dlnode_remove(n)
    PROVE  /\ LinksAgree' /\ HeadersOwned'
           /\ owner' = [owner EXCEPT ![n] = NULL]
<1> DEFINE p == prev[n]
           s == next[n]
<1>1. n \in Cell /\ n \notin List /\ NULL \notin Cell /\ Linked(n)
  BY DlistAssumption DEF LinksAgree, Cell, List
<1>2. /\ next' = [next EXCEPT ![p] = s, ![n] = NULL]
      /\ prev' = [prev EXCEPT ![s] = p, ![n] = NULL]
      /\ owner' = [owner EXCEPT ![n] = NULL]
  BY DEF dlnode_remove
<1>3. HeadersOwned'
  BY <1>1, <1>2 DEF HeadersOwned, Types, Cell
<1>4. ASSUME NEW c \in Cell
      PROVE  IF owner'[c] = NULL THEN next'[c] = NULL /\ prev'[c] = NULL ELSE Linked(c)'
  <2>1. CASE c = n
    BY <1>1, <1>2, <2>1 DEF Types
  <2>2. CASE c # n /\ owner[c] = NULL
    BY <1>1, <1>2, <2>2 DEF Types, LinksAgree, Linked
  <2>3. CASE c # n /\ owner[c] # NULL
    <3>1. Linked(c) /\ owner'[c] = owner[c]
      BY <2>3, <1>2 DEF LinksAgree, Types
    <3>2. next'[c] \in Cell /\ owner'[next'[c]] = owner'[c] /\ prev'[next'[c]] = c
      <4>1. CASE c = p
        BY <1>1, <1>2, <2>3, <3>1, <4>1 DEF Types, Linked
      <4>2. CASE c # p
        BY <1>1, <1>2, <2>3, <3>1, <4>2 DEF Types, Linked
      <4> QED BY <4>1, <4>2
    <3>3. prev'[c] \in Cell /\ owner'[prev'[c]] = owner'[c] /\ next'[prev'[c]] = c
      <4>1. CASE c = s
        BY <1>1, <1>2, <2>3, <3>1, <4>1 DEF Types, Linked
      <4>2. CASE c # s
        BY <1>1, <1>2, <2>3, <3>1, <4>2 DEF Types, Linked
      <4> QED BY <4>1, <4>2
    <3> QED BY <2>3, <3>1, <3>2, <3>3 DEF Linked
  <2> QED BY <2>1, <2>2, <2>3
<1> QED BY <1>2, <1>3, <1>4 DEF LinksAgree

---------------------------------------------------------------------------
(* The lengths.                                                            *)

LEMMA MembersFinite == \A l \in List : IsFiniteSet(Members(l))
  BY DlistAssumption, FS_Subset DEF Members

\* A node that changes owner changes the number of members of two lists at most.
LEMMA MembersChange ==
    ASSUME Types, NEW n \in Node, NEW o, NEW l \in List,
           owner' = [owner EXCEPT ![n] = o], o # owner[n]
    PROVE  Cardinality(Members(l))' =
               IF l = o THEN Cardinality(Members(l)) + 1
               ELSE IF l = owner[n] THEN Cardinality(Members(l)) - 1
               ELSE Cardinality(Members(l))
<1>1. IsFiniteSet(Members(l)) /\ Cardinality(Members(l)) \in Nat
  BY MembersFinite, FS_CardinalityType
<1>2. \A m \in Node : owner'[m] = IF m = n THEN o ELSE owner[m]
  BY DEF Types, Cell
<1>3. CASE l = o
  <2>1. Members(l)' = Members(l) \cup {n} /\ n \notin Members(l)
    BY <1>2, <1>3 DEF Members
  <2> QED BY <1>1, <1>3, <2>1, FS_AddElement
<1>4. CASE l # o /\ l = owner[n]
  <2>1. Members(l)' = Members(l) \ {n} /\ n \in Members(l)
    BY <1>2, <1>4 DEF Members
  <2> QED BY <1>1, <1>4, <2>1, FS_RemoveElement
<1>5. CASE l # o /\ l # owner[n]
  <2>1. Members(l)' = Members(l)
    BY <1>2, <1>5 DEF Members
  <2> QED BY <1>5, <2>1
<1> QED BY <1>3, <1>4, <1>5

---------------------------------------------------------------------------
(* The calls.                                                              *)

Lists == <<next, prev, owner>>

\* An insertion into a plain list, wherever.
LEMMA InsertionGood ==
    ASSUME Good, ~ freed, NEW n \in Cell, NEW new \in Node,
           owner[n] \in PlainList, Unlinked(new),
           dlnode_insertnext(n, new) \/ dlnode_insertprev(n, new),
           UNCHANGED <<len, freed>>
    PROVE  Good'
<1>1. Types /\ LinksAgree /\ HeadersOwned /\ LengthsAgree
  BY DEF Good, WellLinked, LinksAgree, HeadersOwned, LengthsAgree
<1>2. owner[n] # NULL /\ owner[n] \in List /\ owner[n] \notin Mailbox /\ owner[new] = NULL
      /\ NULL \notin List
  BY DlistAssumption DEF List, Unlinked
<1>3. Types' /\ LinksAgree' /\ HeadersOwned' /\ owner' = [owner EXCEPT ![new] = owner[n]]
  <2>1. CASE dlnode_insertnext(n, new)
    BY <1>1, <1>2, <2>1, InsertnextLinks DEF Types
  <2>2. CASE dlnode_insertprev(n, new)
    BY <1>1, <1>2, <2>2, InsertprevLinks DEF Types
  <2> QED BY <2>1, <2>2
<1>4. LengthsAgree'
  <2>1. \A b \in Mailbox : b \in List /\ b # owner[n] /\ b # NULL
    BY <1>2 DEF List
  <2>2. ASSUME NEW b \in Mailbox PROVE Cardinality(Members(b))' = Cardinality(Members(b))
    BY <1>1, <1>2, <1>3, <2>1, MembersChange
  <2> QED BY <1>1, <2>2 DEF LengthsAgree
<1> QED BY <1>3, <1>4 DEF Good, WellLinked, LinksAgree, HeadersOwned, LengthsAgree

\* A post.
LEMMA PostGood ==
    ASSUME Good, ~ freed, mbox_msg_post
    PROVE  Good'
<1>1. Types /\ LinksAgree /\ HeadersOwned /\ LengthsAgree
  BY DEF Good, WellLinked, LinksAgree, HeadersOwned, LengthsAgree
<1>2. PICK b \in Mailbox, new \in Node :
          /\ Unlinked(new) /\ dlnode_insertprev(b, new)
          /\ len' = [len EXCEPT ![b] = @ + 1] /\ UNCHANGED freed
  BY DEF mbox_msg_post, dlist_insertlast
<1>3. b \in List /\ b \in Cell /\ owner[b] = b /\ b # NULL /\ owner[new] = NULL /\ NULL \notin List
  BY <1>1, <1>2, DlistAssumption DEF HeadersOwned, List, Cell, Unlinked
<1>4. Types' /\ LinksAgree' /\ HeadersOwned' /\ owner' = [owner EXCEPT ![new] = b]
  BY <1>1, <1>2, <1>3, InsertprevLinks DEF Types
<1>5. LengthsAgree'
  <2>1. \A d \in Mailbox : d \in List /\ d # NULL
    BY DlistAssumption DEF List
  <2>2. ASSUME NEW d \in Mailbox
        PROVE  Cardinality(Members(d))' =
                   IF d = b THEN Cardinality(Members(d)) + 1 ELSE Cardinality(Members(d))
    BY <1>1, <1>3, <1>4, <2>1, MembersChange
  <2> QED BY <1>1, <1>2, <2>2 DEF LengthsAgree, Types
<1> QED BY <1>4, <1>5 DEF Good, WellLinked, LinksAgree, HeadersOwned, LengthsAgree

\* A removal from a plain list.
LEMMA RemoveGood ==
    ASSUME Good, ~ freed, Remove
    PROVE  Good'
<1>1. Types /\ LinksAgree /\ HeadersOwned /\ LengthsAgree
  BY DEF Good, WellLinked, LinksAgree, HeadersOwned, LengthsAgree
<1>2. PICK n \in Node : owner[n] \in PlainList /\ dlnode_remove(n)
  BY DEF Remove
<1>3. owner[n] # NULL /\ n \in Cell /\ owner[n] \notin Mailbox /\ NULL \notin List
  BY <1>2, DlistAssumption DEF List, Cell
<1>4. Types' /\ LinksAgree' /\ HeadersOwned' /\ owner' = [owner EXCEPT ![n] = NULL]
  BY <1>1, <1>2, <1>3, RemoveTypes, RemoveLinks DEF Types, Remove
<1>5. LengthsAgree'
  <2>1. \A b \in Mailbox : b \in List /\ b # owner[n] /\ b # NULL
    BY <1>3 DEF List
  <2>2. ASSUME NEW b \in Mailbox PROVE Cardinality(Members(b))' = Cardinality(Members(b))
    BY <1>1, <1>3, <1>4, <2>1, MembersChange
  <2> QED BY <1>1, <2>2 DEF LengthsAgree, Remove
<1> QED BY <1>4, <1>5 DEF Good, WellLinked, LinksAgree, HeadersOwned, LengthsAgree

\* A get: of a message, or of the header of an empty mailbox.
LEMMA GetGood ==
    ASSUME Good, ~ freed, mbox_msg_get
    PROVE  Good'
<1>1. Types /\ LinksAgree /\ HeadersOwned /\ LengthsAgree
  BY DEF Good, WellLinked, LinksAgree, HeadersOwned, LengthsAgree
<1>2. PICK b \in Mailbox :
          /\ dlnode_remove(next[b])
          /\ len' = [len EXCEPT ![b] = @ - 1]
          /\ freed' = (next[b] \notin Node)
  BY DEF mbox_msg_get, dlist_first
<1>3. /\ b \in List /\ b \in Cell /\ owner[b] = b /\ b # NULL /\ NULL \notin List
      /\ next[b] \in Cell /\ owner[next[b]] = b
  BY <1>1, DlistAssumption DEF HeadersOwned, LinksAgree, Linked, List, Cell
<1>4. Types'
  BY <1>1, <1>2, <1>3, RemoveTypes DEF Types
<1>5. CASE next[b] \notin Node
  BY <1>2, <1>4, <1>5 DEF Good, WellLinked
<1>6. CASE next[b] \in Node
  <2>1. PICK m \in Node : m = next[b]
    BY <1>6
  <2>2. LinksAgree' /\ HeadersOwned' /\ owner' = [owner EXCEPT ![m] = NULL]
    BY <1>1, <1>2, <1>3, <2>1, RemoveLinks
  <2>3. owner[m] = b /\ \A d \in Mailbox : d \in List /\ d # NULL
    BY <1>3, <2>1, DlistAssumption DEF List
  <2>4. ASSUME NEW d \in Mailbox
        PROVE  Cardinality(Members(d))' =
                   IF d = b THEN Cardinality(Members(d)) - 1 ELSE Cardinality(Members(d))
    BY <1>1, <1>3, <2>2, <2>3, MembersChange
  <2>5. LengthsAgree'
    BY <1>1, <1>2, <2>4 DEF LengthsAgree, Types
  <2> QED BY <1>4, <2>2, <2>5 DEF Good, WellLinked, LinksAgree, HeadersOwned, LengthsAgree
<1> QED BY <1>5, <1>6

---------------------------------------------------------------------------
LEMMA GoodInit == Init => Good
<1> SUFFICES ASSUME Init PROVE Good
  OBVIOUS
<1>1. Types
  <2>1. next \in [Cell -> Cell \cup {NULL}]
    BY DEF Init, Cell
  <2>2. next \in [Cell -> List \cup {NULL}]
    BY DEF Init
  <2>3. len \in [Mailbox -> Int]
    <3>1. len = [b \in Mailbox |-> 0]
      BY DEF Init
    <3> QED BY <3>1
  <2>4. freed \in BOOLEAN
    BY DEF Init
  <2> QED BY <2>1, <2>2, <2>3, <2>4 DEF Init, Types
<1>2. LinksAgree
  BY DlistAssumption DEF Init, LinksAgree, Linked, Cell, List
<1>3. HeadersOwned
  BY DEF Init, HeadersOwned, Cell
<1>4. LengthsAgree
  <2>1. \A b \in Mailbox : Members(b) = {}
    BY DlistAssumption DEF Init, Members, Cell, List
  <2> QED BY <2>1, FS_EmptySet DEF LengthsAgree, Init
<1> QED BY <1>1, <1>2, <1>3, <1>4 DEF Good, WellLinked, LinksAgree, HeadersOwned, LengthsAgree

LEMMA GoodNext == Good /\ [Next]_vars => Good'
<1> SUFFICES ASSUME Good, [Next]_vars PROVE Good'
  OBVIOUS
<1>1. CASE ~ freed /\ Insert
  BY <1>1, InsertionGood DEF Insert
<1>2. CASE ~ freed /\ InsertAtEnd
  <2>1. PICK l \in PlainList, new \in Node :
            /\ Unlinked(new)
            /\ dlnode_insertnext(l, new) \/ dlnode_insertprev(l, new)
            /\ UNCHANGED <<len, freed>>
    BY <1>2 DEF InsertAtEnd, dlist_insertfirst, dlist_insertlast
  <2>2. l \in Cell /\ owner[l] \in PlainList
    BY <1>2 DEF Good, WellLinked, List, Cell
  <2> QED BY <1>2, <2>1, <2>2, InsertionGood
<1>3. CASE ~ freed /\ Remove
  BY <1>3, RemoveGood
<1>4. CASE ~ freed /\ mbox_msg_post
  BY <1>4, PostGood
<1>5. CASE ~ freed /\ mbox_msg_get
  BY <1>5, GetGood
<1>6. CASE UNCHANGED vars
  BY <1>6 DEF vars, Good, Types, WellLinked, Linked, Members
<1> QED BY <1>1, <1>2, <1>3, <1>4, <1>5, <1>6 DEF Next

\* Links, owners and lengths agree in every reachable state, whatever the number of
\* nodes and lists (dlist.h, mbox_msg_post, mbox_msg_get).
THEOREM WellLinkedAlways == Spec => []WellLinked
<1>1. Good => WellLinked
  BY DEF Good
<1> QED BY <1>1, GoodInit, GoodNext, PTL DEF Spec

---------------------------------------------------------------------------
(* The sequence a list is.                                                 *)

\* The cell at a position of the list l, the header being at 0.
CellAt(s, l, i) == IF i = 0 THEN l ELSE s[i]

\* The nodes of s are those of the list l in the order of its links, from the header on, and
\* after the last comes no node.
Along(l, s) ==
    /\ \A i \in 1 .. Len(s) : owner[s[i]] = l
    /\ \A i, j \in 1 .. Len(s) : s[i] = s[j] => i = j
    /\ \A i \in 0 .. Len(s) - 1 : next[CellAt(s, l, i)] = s[i + 1]
    /\ next[CellAt(s, l, Len(s))] \notin Node

\* Each node is on its owner's list.
Placed(q) ==
    \A n \in Node : IF owner[n] = NULL THEN next[n] \notin Node
                                       ELSE \E i \in 1 .. Len(q[owner[n]]) : q[owner[n]][i] = n

\* The sequences q are the lists.
Ring(q) == (\A l \in List : Along(l, q[l])) /\ Placed(q)

RingInv == \E q \in [List -> Seq(Node)] : Ring(q)

\* What follows the pointers from each cell.
Follows(g) == g = [n \in Cell \cup {NULL} |-> IF n \in Node THEN <<n>> \o g[next[n]] ELSE <<>>]

\* A chain, by the pointers followed from the header on.
LEMMA ChainIs == ASSUME NEW l PROVE Chain(l) = (CHOOSE g : Follows(g))[next[l]]
  BY DEF Chain, Follows

\* The pointers from a node on give what is left of its list.
LEMMA ChainSuffix ==
    ASSUME Types, NEW q \in [List -> Seq(Node)], Ring(q), NEW g, Follows(g), NEW l \in List
    PROVE  \A i \in 1 .. Len(q[l]) : g[q[l][i]] = SubSeq(q[l], i, Len(q[l]))
<1> DEFINE s == q[l]
           P(i) == g[s[i]] = SubSeq(s, i, Len(s))
<1>1. s \in Seq(Node) /\ Len(s) \in Nat
  BY LenProperties
<1>2. \A i \in 1 .. Len(s) : s[i] \in Node
  BY <1>1, ElementOfSeq
<1>3. ASSUME NEW i \in 1 .. Len(s)
      PROVE  /\ i = Len(s) => next[s[i]] \notin Node
             /\ i # Len(s) => next[s[i]] = s[i + 1]
  <2>1. i \in 0 .. Len(s) /\ CellAt(s, l, i) = s[i]
    BY <1>1 DEF CellAt
  <2>2. /\ \A j \in 0 .. Len(q[l]) - 1 : next[CellAt(q[l], l, j)] = q[l][j + 1]
        /\ next[CellAt(q[l], l, Len(q[l]))] \notin Node
    BY DEF Ring, Along
  <2> QED
    BY <1>1, <2>1, <2>2
<1>4. \A n \in Cell \cup {NULL} : g[n] = IF n \in Node THEN <<n>> \o g[next[n]] ELSE <<>>
  BY DEF Follows
<1>5. ASSUME NEW i \in 1 .. Len(s), i # Len(s) => P(i + 1) PROVE P(i)
  <2>1. s[i] \in Node /\ s[i] \in Cell /\ next[s[i]] \in Cell \cup {NULL}
    BY <1>2 DEF Types, Cell
  <2>2. g[s[i]] = <<s[i]>> \o g[next[s[i]]]
    BY <1>4, <2>1
  <2>3. SubSeq(s, i, Len(s)) = <<s[i]>> \o SubSeq(s, i + 1, Len(s))
    BY <1>1, SubSeqRecursiveFirst
  <2>4. g[next[s[i]]] = SubSeq(s, i + 1, Len(s))
    <3>1. CASE i = Len(s)
      <4>1. g[next[s[i]]] = <<>>
        BY <1>3, <1>4, <2>1, <3>1
      <4>2. SubSeq(s, i + 1, Len(s)) = <<>>
        BY <1>1, <3>1, SubSeqEmpty
      <4> QED
        BY <4>1, <4>2
    <3>2. CASE i # Len(s)
      BY <1>3, <1>5, <3>2
    <3> QED
      BY <3>1, <3>2
  <2> QED
    BY <2>2, <2>3, <2>4
<1> DEFINE Bad == {k \in Nat : Len(s) - k \in 1 .. Len(s) /\ ~ P(Len(s) - k)}
           R == OpToRel(<, Nat)
           N == Nat
<1>6. IsWellFoundedOn(R, N)
  BY NatLessThanWellFounded
<1>7. \A i \in Nat, j \in Nat : <<i, j>> \in R <=> i < j
  BY DEF OpToRel
<1>8. Bad \subseteq N
  OBVIOUS
<1>9. \A k \in Bad : k \in Nat /\ Len(s) - k \in 1 .. Len(s) /\ ~ P(Len(s) - k)
  OBVIOUS
<1>10. \A k \in Nat : Len(s) - k \in 1 .. Len(s) /\ ~ P(Len(s) - k) => k \in Bad
  OBVIOUS
<1> HIDE DEF Bad, R, N, P, s
<1>11. Bad = {}
  <2> SUFFICES ASSUME Bad # {} PROVE FALSE
    OBVIOUS
  <2>1. \E k \in Bad : \A j \in Bad : ~ (<<j, k>> \in R)
    BY <1>6, <1>8, WFMin
  <2>2. PICK k \in Bad : \A j \in Bad : ~ (<<j, k>> \in R)
    BY <2>1
  <2>3. k \in Nat /\ Len(s) - k \in 1 .. Len(s) /\ ~ P(Len(s) - k)
    BY <1>9, <2>2
  <2>4. ~ (Len(s) - k # Len(s) => P(Len(s) - k + 1))
    BY <1>5, <2>3
  <2>5. k - 1 \in Nat /\ Len(s) - (k - 1) = Len(s) - k + 1 /\ Len(s) - (k - 1) \in 1 .. Len(s)
    BY <1>1, <2>3, <2>4
  <2>6. k - 1 \in Bad
    BY <1>10, <2>4, <2>5
  <2>7. k - 1 < k
    BY <2>3
  <2>8. <<k - 1, k>> \in R
    BY <1>7, <2>3, <2>5, <2>7
  <2> QED
    BY <2>2, <2>6, <2>8
<1>12. ASSUME NEW i \in 1 .. Len(s) PROVE P(i)
  <2>1. Len(s) - i \in Nat /\ Len(s) - (Len(s) - i) = i
    BY <1>1
  <2> QED
    BY <1>10, <1>11, <2>1
<1> QED
  BY <1>12 DEF P, s

\* Some function follows the pointers: what is left of the list from each of its nodes on, and
\* a node on no list alone.
LEMMA SomeFollows ==
    ASSUME Types, NEW q \in [List -> Seq(Node)], Ring(q)
    PROVE  \E g : Follows(g)
<1> DEFINE Place(n) == CHOOSE i \in 1 .. Len(q[owner[n]]) : q[owner[n]][i] = n
           Rest(n) == IF owner[n] = NULL THEN <<n>>
                      ELSE SubSeq(q[owner[n]], Place(n), Len(q[owner[n]]))
           g == [n \in Cell \cup {NULL} |-> IF n \in Node THEN Rest(n) ELSE <<>>]
<1>1. \A n \in Cell \cup {NULL} : g[n] = IF n \in Node THEN Rest(n) ELSE <<>>
  OBVIOUS
<1>2. ASSUME NEW n \in Node PROVE Rest(n) = <<n>> \o g[next[n]]
  <2>1. n \in Cell /\ next[n] \in Cell \cup {NULL}
    BY DEF Types, Cell
  <2>2. CASE owner[n] = NULL
    <3>1. next[n] \notin Node
      BY <2>2 DEF Ring, Placed
    <3>2. g[next[n]] = <<>>
      BY <1>1, <2>1, <3>1
    <3>3. <<n>> \o <<>> = <<n>>
      BY ConcatEmptySeq, <<n>> \in Seq(Node)
    <3> QED
      BY <2>2, <3>2, <3>3
  <2>3. CASE owner[n] # NULL
    <3> DEFINE s == q[owner[n]]
               p == Place(n)
    <3>1. owner[n] \in List /\ s \in Seq(Node) /\ Len(s) \in Nat
      BY <2>1, <2>3, LenProperties DEF Types
    <3>2. p \in 1 .. Len(s) /\ s[p] = n
      <4>1. \E i \in 1 .. Len(s) : s[i] = n
        BY <2>3 DEF Ring, Placed
      <4> QED
        BY <4>1
    <3> HIDE DEF p
    <3>3. SubSeq(s, p, Len(s)) = <<n>> \o SubSeq(s, p + 1, Len(s))
      BY <3>1, <3>2, SubSeqRecursiveFirst
    <3>4. p \in 0 .. Len(s) /\ CellAt(s, owner[n], p) = n
      BY <3>1, <3>2 DEF CellAt
    <3>5. CASE p = Len(s)
      <4>1. next[n] \notin Node
        BY <3>1, <3>4, <3>5 DEF Ring, Along
      <4>2. g[next[n]] = <<>>
        BY <1>1, <2>1, <4>1
      <4>3. SubSeq(s, p + 1, Len(s)) = <<>>
        BY <3>1, <3>5, SubSeqEmpty
      <4> QED
        BY <2>3, <3>3, <4>2, <4>3 DEF p
    <3>6. CASE p # Len(s)
      <4>1. p + 1 \in 1 .. Len(s) /\ p \in 0 .. Len(s) - 1
        BY <3>1, <3>2, <3>6
      <4>2. next[n] = s[p + 1]
        BY <3>1, <3>4, <4>1 DEF Ring, Along
      <4>3. s[p + 1] \in Node /\ s[p + 1] \in Cell
        BY <3>1, <4>1, ElementOfSeq DEF Cell
      <4>4. owner[s[p + 1]] = owner[n] /\ owner[s[p + 1]] # NULL
        BY <2>3, <3>1, <4>1 DEF Ring, Along
      <4>5. Place(s[p + 1]) = p + 1
        <5>1. \A i \in 1 .. Len(s) : s[i] = s[p + 1] => i = p + 1
          BY <3>1, <4>1 DEF Ring, Along
        <5>2. Place(s[p + 1]) = CHOOSE i \in 1 .. Len(s) : s[i] = s[p + 1]
          BY <4>4
        <5> HIDE DEF Place
        <5> QED
          BY <4>1, <5>1, <5>2
      <4>6. Rest(s[p + 1]) = SubSeq(s, p + 1, Len(s))
        BY <4>4, <4>5
      <4>7. g[next[n]] = SubSeq(s, p + 1, Len(s))
        BY <1>1, <4>2, <4>3, <4>6
      <4> QED
        BY <2>3, <3>3, <4>7 DEF p
    <3> QED
      BY <3>5, <3>6
  <2> QED
    BY <2>2, <2>3
<1>3. Follows(g)
  <2>1. g = [n \in Cell \cup {NULL} |-> IF n \in Node THEN Rest(n) ELSE <<>>]
    OBVIOUS
  <2> HIDE DEF g, Rest
  <2> QED
    BY <1>2, <2>1 DEF Follows
<1> QED
  BY <1>3

\* The refinement mapping.
Queue == [l \in List |-> Chain(l)]

\* The mapping gives the sequences of the ring.
Describes == \A q \in [List -> Seq(Node)] : Types /\ Ring(q) => Queue = q

LEMMA RingDescribes == Describes
<1> SUFFICES ASSUME NEW q \in [List -> Seq(Node)], Types, Ring(q)
             PROVE  Queue = q
  BY DEF Describes
<1>1. PICK g : g = CHOOSE h : Follows(h)
  OBVIOUS
<1>2. Follows(g)
  BY <1>1, SomeFollows
<1>3. ASSUME NEW l \in List PROVE Chain(l) = q[l]
  <2>1. Chain(l) = g[next[l]]
    BY <1>1, ChainIs
  <2>2. q[l] \in Seq(Node) /\ Len(q[l]) \in Nat
    BY LenProperties
  <2>3. next[l] \in Cell \cup {NULL}
    BY DEF Types, Cell
  <2>4. CASE q[l] = <<>>
    <3>1. Len(q[l]) = 0
      BY <2>4, EmptySeq
    <3>2. next[l] \notin Node
      BY <3>1 DEF Ring, Along, CellAt
    <3> QED
      BY <1>2, <2>1, <2>3, <2>4, <3>2 DEF Follows
  <2>5. CASE q[l] # <<>>
    <3>1. 1 \in 1 .. Len(q[l]) /\ 0 \in 0 .. Len(q[l]) - 1
      BY <2>2, <2>5, EmptySeq
    <3>2. next[l] = q[l][1]
      <4>1. next[CellAt(q[l], l, 0)] = q[l][0 + 1]
        BY <3>1 DEF Ring, Along
      <4> QED
        BY <4>1 DEF CellAt
    <3>3. g[q[l][1]] = SubSeq(q[l], 1, Len(q[l]))
      BY <1>2, <3>1, ChainSuffix
    <3>4. SubSeq(q[l], 1, Len(q[l])) = q[l]
      BY <2>2, SubSeqFull
    <3> QED
      BY <2>1, <3>2, <3>3, <3>4
  <2> QED
    BY <2>4, <2>5
<1> QED
  BY <1>3 DEF Queue

---------------------------------------------------------------------------
(* Insertions and removals, in sequences and in rings.                     *)

\* A concatenation, element by element.
LEMMA Joined ==
    ASSUME NEW s \in Seq(Node), NEW t \in Seq(Node)
    PROVE  /\ s \o t \in Seq(Node) /\ Len(s \o t) = Len(s) + Len(t)
           /\ \A k \in 1 .. Len(s) : (s \o t)[k] = s[k]
           /\ \A k \in 1 .. Len(t) : (s \o t)[Len(s) + k] = t[k]
<1> DEFINE u == s \o t
           m == Len(s)
           n == Len(t)
<1>1. m \in Nat /\ n \in Nat
  BY LenProperties
<1>2. /\ u \in Seq(Node) /\ Len(u) = m + n
      /\ \A k \in 1 .. m + n : u[k] = IF k <= m THEN s[k] ELSE t[k - m]
  BY ConcatProperties
<1> HIDE DEF u, m, n
<1>3. \A k \in 1 .. m : u[k] = s[k]
  BY <1>1, <1>2
<1>4. ASSUME NEW k \in 1 .. n PROVE u[m + k] = t[k]
  <2>1. m + k \in 1 .. m + n /\ ~ (m + k <= m) /\ (m + k) - m = k
    BY <1>1
  <2> QED
    BY <1>2, <2>1
<1> QED
  BY <1>2, <1>3, <1>4 DEF u, m, n

\* InsertAt, element by element.
LEMMA Inserted ==
    ASSUME NEW s \in Seq(Node), NEW p \in 1 .. Len(s) + 1, NEW e \in Node
    PROVE  LET t == Abstract!InsertAt(s, p, e)
           IN  /\ t \in Seq(Node) /\ Len(t) = Len(s) + 1
               /\ \A k \in 1 .. p - 1 : t[k] = s[k]
               /\ t[p] = e
               /\ \A k \in p + 1 .. Len(s) + 1 : t[k] = s[k - 1]
<1> DEFINE a == SubSeq(s, 1, p - 1)
           b == SubSeq(s, p, Len(s))
<1>1. Len(s) \in Nat /\ \A k \in 1 .. Len(s) : s[k] \in Node
  BY ElementOfSeq, LenProperties
<1>2. /\ a \in Seq(Node) /\ Len(a) = p - 1
      /\ \A k \in 1 .. p - 1 : a[k] = s[k]
  <2>1. \A k \in 1 .. p - 1 : s[k] \in Node
    BY <1>1
  <2>2. /\ a \in Seq(Node) /\ Len(a) = IF 1 <= p - 1 THEN (p - 1) - 1 + 1 ELSE 0
        /\ \A k \in 1 .. (p - 1) - 1 + 1 : a[k] = s[1 + k - 1]
    BY <1>1, <2>1, SubSeqProperties
  <2> HIDE DEF a
  <2> QED
    BY <1>1, <2>2
<1>3. /\ b \in Seq(Node) /\ Len(b) = Len(s) - p + 1
      /\ \A k \in 1 .. Len(s) - p + 1 : b[k] = s[p + k - 1]
  <2>1. \A k \in p .. Len(s) : s[k] \in Node
    BY <1>1
  <2>2. /\ b \in Seq(Node) /\ Len(b) = IF p <= Len(s) THEN Len(s) - p + 1 ELSE 0
        /\ \A k \in 1 .. Len(s) - p + 1 : b[k] = s[p + k - 1]
    BY <1>1, <2>1, SubSeqProperties
  <2> HIDE DEF b
  <2> QED
    BY <1>1, <2>2
<1>4. <<e>> \in Seq(Node) /\ Len(<<e>>) = 1 /\ <<e>>[1] = e
  OBVIOUS
<1> HIDE DEF a, b
<1> DEFINE c == a \o <<e>>
<1>5. /\ c \in Seq(Node) /\ Len(c) = p
      /\ \A k \in 1 .. p - 1 : c[k] = s[k]
      /\ c[p] = e
  <2>1. /\ c \in Seq(Node) /\ Len(c) = Len(a) + Len(<<e>>)
        /\ \A k \in 1 .. Len(a) : c[k] = a[k]
        /\ \A k \in 1 .. Len(<<e>>) : c[Len(a) + k] = <<e>>[k]
    BY <1>2, <1>4, Joined
  <2> HIDE DEF c
  <2>2. c[Len(a) + 1] = e
    BY <1>4, <2>1
  <2> QED
    BY <1>1, <1>2, <1>4, <2>1, <2>2
<1> HIDE DEF c
<1> DEFINE t == c \o b
<1>6. /\ t \in Seq(Node) /\ Len(t) = p + (Len(s) - p + 1)
      /\ \A k \in 1 .. p : t[k] = c[k]
      /\ \A k \in 1 .. Len(s) - p + 1 : t[p + k] = b[k]
  <2>1. /\ t \in Seq(Node) /\ Len(t) = Len(c) + Len(b)
        /\ \A k \in 1 .. Len(c) : t[k] = c[k]
        /\ \A k \in 1 .. Len(b) : t[Len(c) + k] = b[k]
    BY <1>3, <1>5, Joined
  <2> HIDE DEF t
  <2> QED
    BY <1>3, <1>5, <2>1
<1>7. t = Abstract!InsertAt(s, p, e)
  BY DEF Abstract!InsertAt, a, b, c
<1> HIDE DEF t
<1>8. ASSUME NEW k \in p + 1 .. Len(s) + 1 PROVE t[k] = s[k - 1]
  <2>1. k - p \in 1 .. Len(s) - p + 1 /\ p + (k - p) - 1 = k - 1 /\ p + (k - p) = k
    BY <1>1
  <2>2. t[k] = b[k - p]
    BY <1>1, <1>6
  <2> QED
    BY <1>3, <2>1, <2>2
<1> QED
  BY <1>1, <1>5, <1>6, <1>7, <1>8

\* RemoveAt, element by element.
LEMMA Removed ==
    ASSUME NEW s \in Seq(Node), NEW p \in 1 .. Len(s)
    PROVE  LET t == Abstract!RemoveAt(s, p)
           IN  /\ t \in Seq(Node) /\ Len(t) = Len(s) - 1
               /\ \A k \in 1 .. p - 1 : t[k] = s[k]
               /\ \A k \in p .. Len(s) - 1 : t[k] = s[k + 1]
<1> DEFINE a == SubSeq(s, 1, p - 1)
           b == SubSeq(s, p + 1, Len(s))
<1>1. Len(s) \in Nat /\ \A k \in 1 .. Len(s) : s[k] \in Node
  BY ElementOfSeq, LenProperties
<1>2. /\ a \in Seq(Node) /\ Len(a) = p - 1
      /\ \A k \in 1 .. p - 1 : a[k] = s[k]
  <2>1. \A k \in 1 .. p - 1 : s[k] \in Node
    BY <1>1
  <2>2. /\ a \in Seq(Node) /\ Len(a) = IF 1 <= p - 1 THEN (p - 1) - 1 + 1 ELSE 0
        /\ \A k \in 1 .. (p - 1) - 1 + 1 : a[k] = s[1 + k - 1]
    BY <1>1, <2>1, SubSeqProperties
  <2> HIDE DEF a
  <2> QED
    BY <1>1, <2>2
<1>3. /\ b \in Seq(Node) /\ Len(b) = Len(s) - p
      /\ \A k \in 1 .. Len(s) - p : b[k] = s[p + k]
  <2>1. \A k \in p + 1 .. Len(s) : s[k] \in Node
    BY <1>1
  <2>2. /\ b \in Seq(Node) /\ Len(b) = IF p + 1 <= Len(s) THEN Len(s) - (p + 1) + 1 ELSE 0
        /\ \A k \in 1 .. Len(s) - (p + 1) + 1 : b[k] = s[p + 1 + k - 1]
    BY <1>1, <2>1, SubSeqProperties
  <2> HIDE DEF b
  <2> QED
    BY <1>1, <2>2
<1> HIDE DEF a, b
<1> DEFINE t == a \o b
<1>4. /\ t \in Seq(Node) /\ Len(t) = Len(s) - 1
      /\ \A k \in 1 .. p - 1 : t[k] = a[k]
      /\ \A k \in 1 .. Len(s) - p : t[(p - 1) + k] = b[k]
  <2>1. /\ t \in Seq(Node) /\ Len(t) = Len(a) + Len(b)
        /\ \A k \in 1 .. Len(a) : t[k] = a[k]
        /\ \A k \in 1 .. Len(b) : t[Len(a) + k] = b[k]
    BY <1>2, <1>3, Joined
  <2> HIDE DEF t
  <2> QED
    BY <1>1, <1>2, <1>3, <2>1
<1>5. t = Abstract!RemoveAt(s, p)
  BY DEF Abstract!RemoveAt, a, b
<1> HIDE DEF t
<1>6. ASSUME NEW k \in p .. Len(s) - 1 PROVE t[k] = s[k + 1]
  <2>1. /\ k - (p - 1) \in 1 .. Len(s) - p /\ p + (k - (p - 1)) = k + 1
        /\ (p - 1) + (k - (p - 1)) = k
    BY <1>1
  <2>2. t[k] = b[k - (p - 1)]
    BY <1>1, <1>4
  <2> QED
    BY <1>3, <2>1, <2>2
<1> QED
  BY <1>1, <1>2, <1>4, <1>5, <1>6

\* Inserting after the last appends.
LEMMA InsertedLast ==
    ASSUME NEW s \in Seq(Node), NEW e \in Node
    PROVE  Abstract!InsertAt(s, Len(s) + 1, e) = Append(s, e)
<1> DEFINE t == Abstract!InsertAt(s, Len(s) + 1, e)
           u == Append(s, e)
<1>1. Len(s) \in Nat /\ Len(s) + 1 \in 1 .. Len(s) + 1
  BY LenProperties
<1>2. /\ t \in Seq(Node) /\ Len(t) = Len(s) + 1
      /\ \A k \in 1 .. Len(s) + 1 - 1 : t[k] = s[k]
      /\ t[Len(s) + 1] = e
  BY <1>1, Inserted
<1>3. /\ u \in Seq(Node) /\ Len(u) = Len(s) + 1
      /\ \A k \in 1 .. Len(s) : u[k] = s[k]
      /\ u[Len(s) + 1] = e
  BY AppendProperties
<1> HIDE DEF t, u
<1>4. \A k \in 1 .. Len(t) : t[k] = u[k]
  BY <1>1, <1>2, <1>3
<1>5. t = u
  BY <1>2, <1>3, <1>4, SeqEqual
<1> QED
  BY <1>5 DEF t, u

\* Removing the first leaves the tail.
LEMMA RemovedFirst ==
    ASSUME NEW s \in Seq(Node), s # <<>>
    PROVE  Abstract!RemoveAt(s, 1) = Tail(s)
<1> DEFINE t == Abstract!RemoveAt(s, 1)
           u == Tail(s)
<1>1. Len(s) \in Nat /\ 1 \in 1 .. Len(s)
  BY LenProperties, EmptySeq
<1>2. /\ t \in Seq(Node) /\ Len(t) = Len(s) - 1
      /\ \A k \in 1 .. Len(s) - 1 : t[k] = s[k + 1]
  BY <1>1, Removed
<1>3. /\ u \in Seq(Node) /\ Len(u) = Len(s) - 1
      /\ \A k \in 1 .. Len(u) : u[k] = s[k + 1]
  BY HeadTailProperties
<1> HIDE DEF t, u
<1>4. \A k \in 1 .. Len(t) : t[k] = u[k]
  BY <1>1, <1>2, <1>3
<1>5. t = u
  BY <1>2, <1>3, <1>4, SeqEqual
<1> QED
  BY <1>5 DEF t, u

\* Header and nodes of a list: all its own, and none twice.
LEMMA CellsOf ==
    ASSUME HeadersOwned, NEW l \in List, NEW s \in Seq(Node), Along(l, s)
    PROVE  /\ \A i \in 0 .. Len(s) : CellAt(s, l, i) \in Cell /\ owner[CellAt(s, l, i)] = l
           /\ \A i, j \in 0 .. Len(s) : CellAt(s, l, i) = CellAt(s, l, j) => i = j
<1>1. Len(s) \in Nat /\ \A i \in 1 .. Len(s) : s[i] \in Node
  BY ElementOfSeq, LenProperties
<1>2. ASSUME NEW i \in 0 .. Len(s)
      PROVE  /\ CellAt(s, l, i) \in Cell /\ owner[CellAt(s, l, i)] = l
             /\ i # 0 => CellAt(s, l, i) = s[i] /\ s[i] \in Node /\ i \in 1 .. Len(s)
             /\ i = 0 => CellAt(s, l, i) = l
  BY <1>1 DEF CellAt, Cell, HeadersOwned, Along
<1>3. ASSUME NEW i \in 0 .. Len(s), NEW j \in 0 .. Len(s), CellAt(s, l, i) = CellAt(s, l, j)
      PROVE  i = j
  BY <1>2, <1>3, DlistAssumption DEF Along
<1> QED
  BY <1>2, <1>3

\* A step that spares the cells of a list spares the list.
LEMMA ListSpared ==
    ASSUME HeadersOwned, NEW k \in List, NEW s \in Seq(Node), Along(k, s),
           \A c \in Cell : owner[c] = k => next'[c] = next[c] /\ owner'[c] = k
    PROVE  Along(k, s)'
<1>1. Len(s) \in Nat
  BY LenProperties
<1>2. \A i \in 0 .. Len(s) : /\ next'[CellAt(s, k, i)] = next[CellAt(s, k, i)]
                             /\ owner'[CellAt(s, k, i)] = k
  BY CellsOf
<1>3. \A i \in 1 .. Len(s) : owner'[s[i]] = k
  BY <1>1, <1>2 DEF CellAt
<1>4. \A i \in 0 .. Len(s) - 1 : next'[CellAt(s, k, i)] = s[i + 1]
  BY <1>1, <1>2 DEF Along
<1>5. next'[CellAt(s, k, Len(s))] \notin Node
  BY <1>1, <1>2 DEF Along
<1> QED
  BY <1>3, <1>4, <1>5 DEF Along

\* An insertion next to the cell before a position inserts at that position.
LEMMA RingInsert ==
    ASSUME Types, HeadersOwned, NEW q \in [List -> Seq(Node)], Ring(q),
           NEW l \in List, NEW p \in 1 .. Len(q[l]) + 1, NEW new \in Node, Unlinked(new),
           dlnode_insertnext(CellAt(q[l], l, p - 1), new)
    PROVE  Ring([q EXCEPT ![l] = Abstract!InsertAt(q[l], p, new)])'
<1> DEFINE s == q[l]
           t == Abstract!InsertAt(s, p, new)
           n == CellAt(s, l, p - 1)
           r == [q EXCEPT ![l] = t]
<1>1. /\ s \in Seq(Node) /\ Len(s) \in Nat /\ Along(l, s)
      /\ \A i \in 1 .. Len(s) : s[i] \in Node
  BY ElementOfSeq, LenProperties DEF Ring
<1>2. /\ t \in Seq(Node) /\ Len(t) = Len(s) + 1
      /\ \A k \in 1 .. p - 1 : t[k] = s[k]
      /\ t[p] = new
      /\ \A k \in p + 1 .. Len(s) + 1 : t[k] = s[k - 1]
  BY <1>1, Inserted
<1>3. /\ p - 1 \in 0 .. Len(s)
      /\ \A i \in 0 .. Len(s) : CellAt(s, l, i) \in Cell /\ owner[CellAt(s, l, i)] = l
      /\ \A i, j \in 0 .. Len(s) : CellAt(s, l, i) = CellAt(s, l, j) => i = j
  BY <1>1, CellsOf
<1>4. /\ n \in Cell /\ owner[n] = l /\ new \in Cell /\ new # n /\ owner[new] = NULL
      /\ NULL \notin List /\ l # NULL
  BY <1>3, DlistAssumption DEF Unlinked, Cell
<1>5. /\ \A c \in Cell : next'[c] = IF c = n THEN new ELSE IF c = new THEN next[n] ELSE next[c]
      /\ \A c \in Cell : owner'[c] = IF c = new THEN l ELSE owner[c]
  BY <1>4 DEF dlnode_insertnext, Types
<1>6. r \in [List -> Seq(Node)] /\ r[l] = t /\ \A k \in List : k # l => r[k] = q[k]
  BY <1>2
<1>7. \A i \in 1 .. Len(s) : s[i] # new /\ s[i] \in Cell
  BY <1>1, <1>4 DEF Along, Cell
<1> HIDE DEF t, n, r
<1>8. Along(l, t)'
  <2>1. \A i \in 1 .. Len(t) : owner'[t[i]] = l
    <3>1. \A i \in 1 .. Len(s) : owner'[s[i]] = l
      BY <1>1, <1>5, <1>7 DEF Along
    <3>2. ASSUME NEW i \in 1 .. Len(t) PROVE owner'[t[i]] = l
      <4>1. CASE i < p
        BY <1>1, <1>2, <3>1, <4>1
      <4>2. CASE i = p
        BY <1>2, <1>4, <1>5, <4>2
      <4>3. CASE i > p
        <5>1. i - 1 \in 1 .. Len(s) /\ t[i] = s[i - 1]
          BY <1>1, <1>2, <4>3
        <5> QED
          BY <3>1, <5>1
      <4> QED
        BY <1>2, <4>1, <4>2, <4>3
    <3> QED
      BY <3>2
  <2>2. ASSUME NEW i \in 1 .. Len(t), NEW j \in 1 .. Len(t), t[i] = t[j] PROVE i = j
    <3> DEFINE Old(k) == IF k < p THEN k ELSE k - 1
    <3>1. \A k \in 1 .. Len(t) : k # p => Old(k) \in 1 .. Len(s) /\ t[k] = s[Old(k)]
      BY <1>1, <1>2
    <3>2. \A k \in 1 .. Len(t) : k # p => t[k] # new
      BY <1>7, <3>1
    <3>3. CASE i = p \/ j = p
      BY <1>2, <2>2, <3>2, <3>3
    <3>4. CASE i # p /\ j # p
      <4>1. Old(i) = Old(j)
        <5> HIDE DEF Old
        <5> QED
          BY <1>1, <2>2, <3>1, <3>4 DEF Along
      <4> QED
        BY <1>1, <3>4, <4>1
    <3> QED
      BY <3>3, <3>4
  <2>3. ASSUME NEW i \in 0 .. Len(t)
        PROVE  /\ i < p => i \in 0 .. Len(s) /\ CellAt(t, l, i) = CellAt(s, l, i)
               /\ i = p => CellAt(t, l, i) = new
               /\ i > p => i - 1 \in 0 .. Len(s) /\ CellAt(t, l, i) = CellAt(s, l, i - 1)
    <3>1. CASE i = 0
      BY <1>1, <3>1 DEF CellAt
    <3>2. CASE i # 0
      BY <1>1, <1>2, <3>2 DEF CellAt
    <3> QED
      BY <3>1, <3>2
  <2>4. \A i \in 0 .. Len(s) - 1 : next[CellAt(s, l, i)] = s[i + 1]
    BY <1>1 DEF Along
  <2>5. next[CellAt(s, l, Len(s))] \notin Node
    BY <1>1 DEF Along
  <2>6. ASSUME NEW i \in 0 .. Len(s), i # p - 1
        PROVE  next'[CellAt(s, l, i)] = next[CellAt(s, l, i)]
    <3>1. CellAt(s, l, i) # n /\ CellAt(s, l, i) \in Cell /\ CellAt(s, l, i) # new
      BY <1>3, <1>4, <2>6 DEF n
    <3> QED
      BY <1>5, <3>1
  <2>7. next'[n] = new /\ next'[new] = next[n]
    BY <1>4, <1>5
  <2>8. ASSUME NEW i \in 0 .. Len(t) - 1 PROVE next'[CellAt(t, l, i)] = t[i + 1]
    <3>1. CASE i < p - 1
      <4>1. CellAt(t, l, i) = CellAt(s, l, i) /\ i \in 0 .. Len(s) /\ i \in 0 .. Len(s) - 1
        BY <1>1, <1>2, <2>3, <3>1
      <4>2. next'[CellAt(t, l, i)] = s[i + 1]
        BY <2>4, <2>6, <3>1, <4>1
      <4>3. t[i + 1] = s[i + 1]
        BY <1>1, <1>2, <3>1
      <4> QED
        BY <4>2, <4>3
    <3>2. CASE i = p - 1
      <4>1. CellAt(t, l, i) = n
        BY <1>1, <1>2, <2>3, <3>2 DEF n
      <4>2. t[i + 1] = new
        BY <1>2, <3>2
      <4> QED
        BY <2>7, <4>1, <4>2
    <3>3. CASE i = p
      <4>1. CellAt(t, l, i) = new /\ p - 1 \in 0 .. Len(s) - 1 /\ (p - 1) + 1 = p
        BY <1>1, <1>2, <2>3, <3>3
      <4>2. next[n] = s[p]
        BY <2>4, <4>1 DEF n
      <4>3. t[i + 1] = s[p]
        <5>1. i + 1 \in p + 1 .. Len(s) + 1 /\ (i + 1) - 1 = p
          BY <1>1, <1>2, <3>3
        <5> QED
          BY <1>2, <5>1
      <4> QED
        BY <2>7, <4>1, <4>2, <4>3
    <3>4. CASE i > p
      <4>1. /\ CellAt(t, l, i) = CellAt(s, l, i - 1) /\ i - 1 \in 0 .. Len(s)
            /\ i - 1 # p - 1 /\ i - 1 \in 0 .. Len(s) - 1 /\ (i - 1) + 1 = i
        BY <1>1, <1>2, <2>3, <3>4
      <4>2. next'[CellAt(t, l, i)] = s[i]
        BY <2>4, <2>6, <4>1
      <4>3. t[i + 1] = s[i]
        <5>1. i + 1 \in p + 1 .. Len(s) + 1 /\ (i + 1) - 1 = i
          BY <1>1, <1>2, <3>4
        <5> QED
          BY <1>2, <5>1
      <4> QED
        BY <4>2, <4>3
    <3> QED
      BY <1>1, <1>2, <3>1, <3>2, <3>3, <3>4
  <2>9. next'[CellAt(t, l, Len(t))] \notin Node
    <3>1. Len(t) \in 0 .. Len(t) /\ Len(t) - 1 = Len(s)
      BY <1>1, <1>2
    <3>2. CASE p = Len(t)
      BY <1>2, <2>3, <2>5, <2>7, <3>1, <3>2 DEF n
    <3>3. CASE p # Len(t)
      <4>1. CellAt(t, l, Len(t)) = CellAt(s, l, Len(s)) /\ Len(s) # p - 1 /\ Len(s) \in 0 .. Len(s)
        BY <1>1, <1>2, <2>3, <3>1, <3>3
      <4> QED
        BY <2>5, <2>6, <4>1
    <3> QED
      BY <3>2, <3>3
  <2> QED
    BY <2>1, <2>2, <2>8, <2>9 DEF Along
<1>9. ASSUME NEW k \in List, k # l PROVE Along(k, q[k])'
  <2>1. q[k] \in Seq(Node) /\ Along(k, q[k])
    BY DEF Ring
  <2>2. \A c \in Cell : owner[c] = k => next'[c] = next[c] /\ owner'[c] = k
    BY <1>4, <1>5, <1>9
  <2> QED
    BY <2>1, <2>2, ListSpared
<1>10. Placed(r)'
  <2> SUFFICES ASSUME NEW m \in Node
               PROVE  IF owner'[m] = NULL THEN next'[m] \notin Node
                      ELSE \E i \in 1 .. Len(r[owner'[m]]) : r[owner'[m]][i] = m
    BY DEF Placed
  <2>1. m \in Cell
    BY DEF Cell
  <2>2. CASE m = new
    <3>1. owner'[m] = l /\ p \in 1 .. Len(t)
      BY <1>1, <1>2, <1>4, <1>5, <2>2
    <3> QED
      BY <1>2, <1>4, <1>6, <2>2, <3>1
  <2>3. CASE m # new /\ owner[m] = NULL
    BY <1>4, <1>5, <2>1, <2>3 DEF Ring, Placed
  <2>4. CASE m # new /\ owner[m] # NULL
    <3>1. owner'[m] = owner[m] /\ owner[m] \in List
      BY <1>5, <2>1, <2>4 DEF Types
    <3>2. PICK i \in 1 .. Len(q[owner[m]]) : q[owner[m]][i] = m
      BY <2>4 DEF Ring, Placed
    <3>3. CASE owner[m] # l
      BY <1>6, <2>4, <3>1, <3>2, <3>3
    <3>4. CASE owner[m] = l
      <4>1. CASE i < p
        <5>1. t[i] = m /\ i \in 1 .. Len(t)
          BY <1>1, <1>2, <3>2, <3>4, <4>1
        <5> QED
          BY <1>6, <2>4, <3>1, <3>4, <5>1
      <4>2. CASE i >= p
        <5>1. i + 1 \in p + 1 .. Len(s) + 1 /\ (i + 1) - 1 = i /\ i + 1 \in 1 .. Len(t)
          BY <1>1, <1>2, <3>2, <3>4, <4>2
        <5>2. t[i + 1] = m
          BY <1>2, <3>2, <3>4, <5>1
        <5> QED
          BY <1>6, <2>4, <3>1, <3>4, <5>1, <5>2
      <4> QED
        BY <3>2, <3>4, <1>1, <4>1, <4>2
    <3> QED
      BY <3>3, <3>4
  <2> QED
    BY <2>2, <2>3, <2>4
<1>11. \A k \in List : Along(k, r[k])'
  <2>1. ASSUME NEW k \in List PROVE Along(k, r[k])'
    <3>1. CASE k = l
      BY <1>6, <1>8, <3>1
    <3>2. CASE k # l
      BY <1>6, <1>9, <3>2
    <3> QED
      BY <3>1, <3>2
  <2> QED
    BY <2>1
<1> QED
  BY <1>10, <1>11 DEF Ring, r, t

\* A removal from the ring removes at the node's position.
LEMMA RingRemove ==
    ASSUME Types, LinksAgree, HeadersOwned, NEW q \in [List -> Seq(Node)], Ring(q),
           NEW l \in List, NEW p \in 1 .. Len(q[l]), dlnode_remove(q[l][p])
    PROVE  Ring([q EXCEPT ![l] = Abstract!RemoveAt(q[l], p)])'
<1> DEFINE s == q[l]
           t == Abstract!RemoveAt(s, p)
           n == CellAt(s, l, p - 1)
           old == s[p]
           r == [q EXCEPT ![l] = t]
<1>1. /\ s \in Seq(Node) /\ Len(s) \in Nat /\ Along(l, s)
      /\ \A i \in 1 .. Len(s) : s[i] \in Node
  BY ElementOfSeq, LenProperties DEF Ring
<1>2. /\ t \in Seq(Node) /\ Len(t) = Len(s) - 1
      /\ \A k \in 1 .. p - 1 : t[k] = s[k]
      /\ \A k \in p .. Len(s) - 1 : t[k] = s[k + 1]
  BY <1>1, Removed
<1>3. /\ p - 1 \in 0 .. Len(s) /\ p \in 0 .. Len(s) /\ CellAt(s, l, p) = old
      /\ \A i \in 0 .. Len(s) : CellAt(s, l, i) \in Cell /\ owner[CellAt(s, l, i)] = l
      /\ \A i, j \in 0 .. Len(s) : CellAt(s, l, i) = CellAt(s, l, j) => i = j
  <2>1. p - 1 \in 0 .. Len(s) /\ p \in 0 .. Len(s) /\ CellAt(s, l, p) = old
    BY <1>1 DEF CellAt
  <2> QED
    BY <1>1, <2>1, CellsOf
<1>4. /\ n \in Cell /\ owner[n] = l /\ old \in Cell /\ old # n /\ owner[old] = l
      /\ NULL \notin List /\ l # NULL /\ NULL \notin Node
  BY <1>1, <1>3, DlistAssumption
<1>5. next[n] = old /\ prev[old] = n
  <2>1. p - 1 \in 0 .. Len(s) - 1 /\ (p - 1) + 1 = p
    BY <1>1
  <2>2. next[n] = old
    BY <1>1, <2>1 DEF Along
  <2>3. prev[next[n]] = n
    BY <1>4 DEF LinksAgree, Linked
  <2> QED
    BY <2>2, <2>3
<1> HIDE DEF t, n, r
<1>6. /\ \A c \in Cell : next'[c] = IF c = old THEN NULL ELSE IF c = n THEN next[old] ELSE next[c]
      /\ \A c \in Cell : owner'[c] = IF c = old THEN NULL ELSE owner[c]
  BY <1>4, <1>5 DEF dlnode_remove, Types
<1>7. r \in [List -> Seq(Node)] /\ r[l] = t /\ \A k \in List : k # l => r[k] = q[k]
  BY <1>2 DEF r
<1>8. Along(l, t)'
  <2> DEFINE From(k) == IF k < p THEN k ELSE k + 1
  <2>1. \A k \in 1 .. Len(t) : From(k) \in 1 .. Len(s) /\ From(k) # p /\ t[k] = s[From(k)]
    BY <1>1, <1>2
  <2>2. \A k \in 0 .. Len(t) : From(k) \in 0 .. Len(s) /\ From(k) # p
    BY <1>1, <1>2
  <2>3. \A k \in 0 .. Len(t) : CellAt(t, l, k) = CellAt(s, l, From(k))
    <3>1. From(0) = 0
      OBVIOUS
    <3>2. \A k \in 0 .. Len(t) : k # 0 => k \in 1 .. Len(t) /\ From(k) # 0
      BY <1>1, <1>2
    <3> HIDE DEF From
    <3> QED
      BY <2>1, <3>1, <3>2 DEF CellAt
  <2>4. ASSUME NEW i \in 0 .. Len(s), i # p
        PROVE  /\ CellAt(s, l, i) # old /\ CellAt(s, l, i) \in Cell
               /\ owner'[CellAt(s, l, i)] = l
               /\ i = p - 1 => next'[CellAt(s, l, i)] = next[old]
               /\ i # p - 1 => next'[CellAt(s, l, i)] = next[CellAt(s, l, i)]
    <3>1. CellAt(s, l, i) # old /\ CellAt(s, l, i) \in Cell /\ owner[CellAt(s, l, i)] = l
      BY <1>3, <2>4
    <3>2. i = p - 1 <=> CellAt(s, l, i) = n
      BY <1>3 DEF n
    <3> QED
      BY <1>6, <3>1, <3>2
  <2>5. \A i \in 1 .. Len(t) : owner'[t[i]] = l
    <3>1. ASSUME NEW i \in 1 .. Len(t) PROVE owner'[t[i]] = l
      <4>1. /\ i \in 0 .. Len(t) /\ i # 0 /\ From(i) \in 0 .. Len(s) /\ From(i) # p
        BY <1>1, <1>2, <2>2
      <4>2. owner'[CellAt(t, l, i)] = l
        <5> HIDE DEF From
        <5> QED
          BY <2>3, <2>4, <4>1
      <4> QED
        BY <4>1, <4>2 DEF CellAt
    <3> QED
      BY <3>1
  <2>6. \A i, j \in 1 .. Len(t) : t[i] = t[j] => i = j
    <3>1. ASSUME NEW i \in 1 .. Len(t), NEW j \in 1 .. Len(t), t[i] = t[j] PROVE i = j
      <4>1. From(i) = From(j)
        <5> HIDE DEF From
        <5> QED
          BY <1>1, <2>1, <3>1 DEF Along
      <4> QED
        BY <1>1, <1>2, <4>1
    <3> QED
      BY <3>1
  <2>7. /\ \A i \in 0 .. Len(s) - 1 : next[CellAt(s, l, i)] = s[i + 1]
        /\ next[CellAt(s, l, Len(s))] \notin Node
    BY <1>1 DEF Along
  <2>8. ASSUME NEW i \in 0 .. Len(t) - 1 PROVE next'[CellAt(t, l, i)] = t[i + 1]
    <3>1. i \in 0 .. Len(t) /\ i + 1 \in 1 .. Len(t)
      BY <1>1, <1>2
    <3>2. next'[CellAt(t, l, i)] = next'[CellAt(s, l, From(i))] /\ t[i + 1] = s[From(i + 1)]
      <4> HIDE DEF From
      <4> QED
        BY <2>1, <2>3, <3>1
    <3>3. CASE i = p - 1
      <4>1. From(i) = p - 1 /\ From(i + 1) = p + 1 /\ p \in 0 .. Len(s) - 1 /\ p - 1 # p
        BY <1>1, <1>2, <3>3
      <4>2. next[old] = s[p + 1]
        BY <1>3, <2>7, <4>1
      <4>3. next'[CellAt(s, l, p - 1)] = next[old]
        BY <1>3, <2>4, <4>1
      <4> QED
        BY <3>2, <4>1, <4>2, <4>3
    <3>4. CASE i # p - 1
      <4>1. /\ From(i) \in 0 .. Len(s) /\ From(i) # p /\ From(i) # p - 1
            /\ From(i) \in 0 .. Len(s) - 1 /\ From(i) + 1 = From(i + 1)
        BY <1>1, <1>2, <3>4
      <4> HIDE DEF From
      <4>2. next'[CellAt(s, l, From(i))] = s[From(i) + 1]
        BY <2>4, <2>7, <4>1
      <4> QED
        BY <3>2, <4>1, <4>2
    <3> QED
      BY <3>3, <3>4
  <2>9. next'[CellAt(t, l, Len(t))] \notin Node
    <3>1. Len(t) \in 0 .. Len(t) /\ Len(t) + 1 = Len(s)
      BY <1>1, <1>2
    <3>2. CellAt(t, l, Len(t)) = CellAt(s, l, From(Len(t)))
      <4> HIDE DEF From
      <4> QED
        BY <2>3, <3>1
    <3>3. CASE p = Len(s)
      <4>1. From(Len(t)) = p - 1 /\ p - 1 # p
        BY <1>1, <3>1, <3>3
      <4>2. next'[CellAt(s, l, p - 1)] = next[old]
        BY <1>3, <2>4, <4>1
      <4>3. next[old] \notin Node
        BY <1>3, <2>7, <3>3
      <4> QED
        BY <3>2, <4>1, <4>2, <4>3
    <3>4. CASE p # Len(s)
      <4>1. From(Len(t)) = Len(s) /\ Len(s) # p /\ Len(s) # p - 1 /\ Len(s) \in 0 .. Len(s)
        BY <1>1, <3>1, <3>4
      <4>2. next'[CellAt(s, l, Len(s))] = next[CellAt(s, l, Len(s))]
        BY <2>4, <4>1
      <4> QED
        BY <2>7, <3>2, <4>1, <4>2
    <3> QED
      BY <3>3, <3>4
  <2> QED
    BY <2>5, <2>6, <2>8, <2>9 DEF Along
<1>9. ASSUME NEW k \in List, k # l PROVE Along(k, q[k])'
  <2>1. q[k] \in Seq(Node) /\ Along(k, q[k])
    BY DEF Ring
  <2>2. \A c \in Cell : owner[c] = k => next'[c] = next[c] /\ owner'[c] = k
    BY <1>4, <1>6, <1>9
  <2> QED
    BY <2>1, <2>2, ListSpared
<1>10. Placed(r)'
  <2> SUFFICES ASSUME NEW m \in Node
               PROVE  IF owner'[m] = NULL THEN next'[m] \notin Node
                      ELSE \E i \in 1 .. Len(r[owner'[m]]) : r[owner'[m]][i] = m
    BY DEF Placed
  <2>1. m \in Cell
    BY DEF Cell
  <2>2. CASE m = old
    BY <1>4, <1>6, <2>1, <2>2
  <2>3. CASE m # old /\ owner[m] = NULL
    BY <1>4, <1>6, <2>1, <2>3 DEF Ring, Placed
  <2>4. CASE m # old /\ owner[m] # NULL
    <3>1. owner'[m] = owner[m] /\ owner[m] \in List
      BY <1>6, <2>1, <2>4 DEF Types
    <3>2. PICK i \in 1 .. Len(q[owner[m]]) : q[owner[m]][i] = m
      BY <2>4 DEF Ring, Placed
    <3>3. CASE owner[m] # l
      BY <1>7, <2>4, <3>1, <3>2, <3>3
    <3>4. CASE owner[m] = l
      <4>1. i # p /\ i \in 1 .. Len(s) /\ s[i] = m
        BY <2>4, <3>2, <3>4
      <4>2. CASE i < p
        <5>1. t[i] = m /\ i \in 1 .. Len(t)
          BY <1>1, <1>2, <4>1, <4>2
        <5> QED
          BY <1>7, <2>4, <3>1, <3>4, <5>1
      <4>3. CASE i > p
        <5>1. i - 1 \in p .. Len(s) - 1 /\ (i - 1) + 1 = i /\ i - 1 \in 1 .. Len(t)
          BY <1>1, <1>2, <4>1, <4>3
        <5>2. t[i - 1] = m
          BY <1>2, <4>1, <5>1
        <5> QED
          BY <1>7, <2>4, <3>1, <3>4, <5>1, <5>2
      <4> QED
        BY <1>1, <4>1, <4>2, <4>3
    <3> QED
      BY <3>3, <3>4
  <2> QED
    BY <2>2, <2>3, <2>4
<1>11. \A k \in List : Along(k, r[k])'
  <2>1. ASSUME NEW k \in List PROVE Along(k, r[k])'
    <3>1. CASE k = l
      BY <1>7, <1>8, <3>1
    <3>2. CASE k # l
      BY <1>7, <1>9, <3>2
    <3> QED
      BY <3>1, <3>2
  <2> QED
    BY <2>1
<1> QED
  BY <1>10, <1>11 DEF Ring, r, t

\* Where a cell of a list is.
LEMMA PlaceOf ==
    ASSUME HeadersOwned, NEW q \in [List -> Seq(Node)], Ring(q),
           NEW n \in Cell, NEW l \in List, owner[n] = l
    PROVE  \E p \in 1 .. Len(q[l]) + 1 : n = CellAt(q[l], l, p - 1)
<1>1. Len(q[l]) \in Nat /\ l # NULL
  BY LenProperties, DlistAssumption
<1>2. CASE n \in List
  <2>1. n = l /\ 1 \in 1 .. Len(q[l]) + 1 /\ CellAt(q[l], l, 1 - 1) = l
    BY <1>1, <1>2 DEF HeadersOwned, CellAt
  <2> QED
    BY <2>1
<1>3. CASE n \in Node
  <2>1. PICK i \in 1 .. Len(q[l]) : q[l][i] = n
    BY <1>1, <1>3 DEF Ring, Placed
  <2>2. i + 1 \in 1 .. Len(q[l]) + 1 /\ CellAt(q[l], l, (i + 1) - 1) = n
    BY <1>1, <2>1 DEF CellAt
  <2> QED
    BY <2>2
<1> QED
  BY <1>2, <1>3 DEF Cell

\* An insertion before is one after the node before.
LEMMA InsertprevIsNext ==
    ASSUME Types, LinksAgree, NEW n \in Cell, NEW new \in Node,
           owner[n] # NULL, Unlinked(new), dlnode_insertprev(n, new)
    PROVE  /\ prev[n] \in Cell /\ owner[prev[n]] = owner[n] /\ next[prev[n]] = n
           /\ dlnode_insertnext(prev[n], new)
<1>1. prev[n] \in Cell /\ owner[prev[n]] = owner[n] /\ next[prev[n]] = n
  BY DEF LinksAgree, Linked
<1> DEFINE m == prev[n]
<1>2. new \in Cell /\ m # new /\ n # new /\ m \in Cell /\ next[m] = n /\ owner[m] = owner[n]
  BY <1>1 DEF Unlinked, Cell
<1>3. /\ prev' = [prev EXCEPT ![new] = m, ![n] = new]
      /\ next' = [next EXCEPT ![m] = new, ![new] = n]
      /\ owner' = [owner EXCEPT ![new] = owner[n]]
  BY DEF dlnode_insertprev
<1> HIDE DEF m
<1>4. next' = [next EXCEPT ![new] = n, ![m] = new]
  BY <1>2, <1>3 DEF Types
<1>5. prev' = [prev EXCEPT ![n] = new, ![new] = m]
  BY <1>2, <1>3 DEF Types
<1>6. dlnode_insertnext(m, new)
  BY <1>2, <1>3, <1>4, <1>5 DEF dlnode_insertnext
<1> QED
  BY <1>1, <1>6 DEF m

---------------------------------------------------------------------------
(* The calls, on the sequences.                                            *)

\* A node goes next to one of a list.
LEMMA InsertionQueue ==
    ASSUME Types, LinksAgree, HeadersOwned, NEW q \in [List -> Seq(Node)], Ring(q),
           NEW l \in List, NEW n \in Cell, owner[n] = l, NEW new \in Node, Unlinked(new),
           dlnode_insertnext(n, new) \/ dlnode_insertprev(n, new)
    PROVE  \E p \in 1 .. Len(q[l]) + 1 : Ring([q EXCEPT ![l] = Abstract!InsertAt(q[l], p, new)])'
<1>1. PICK m \in Cell : owner[m] = l /\ dlnode_insertnext(m, new)
  <2>1. owner[n] # NULL
    BY DlistAssumption
  <2>2. CASE dlnode_insertnext(n, new)
    BY <2>2
  <2>3. CASE dlnode_insertprev(n, new)
    BY <2>1, <2>3, InsertprevIsNext
  <2> QED
    BY <2>2, <2>3
<1>2. PICK p \in 1 .. Len(q[l]) + 1 : m = CellAt(q[l], l, p - 1)
  BY <1>1, PlaceOf
<1>3. Ring([q EXCEPT ![l] = Abstract!InsertAt(q[l], p, new)])'
  BY <1>1, <1>2, RingInsert
<1> QED
  BY <1>2, <1>3

\* Before the header is the end.
LEMMA PostQueue ==
    ASSUME Types, LinksAgree, HeadersOwned, NEW q \in [List -> Seq(Node)], Ring(q),
           NEW b \in List, NEW new \in Node, Unlinked(new), dlnode_insertprev(b, new)
    PROVE  Ring([q EXCEPT ![b] = Append(q[b], new)])'
<1>1. /\ b \in Cell /\ b \notin Node /\ owner[b] = b /\ owner[b] # NULL
      /\ q[b] \in Seq(Node) /\ Len(q[b]) \in Nat
  BY DlistAssumption, LenProperties DEF Cell, HeadersOwned
<1> DEFINE m == prev[b]
<1>2. /\ m \in Cell /\ owner[m] = b /\ next[m] = b /\ dlnode_insertnext(m, new)
  BY <1>1, InsertprevIsNext
<1> HIDE DEF m
<1>3. PICK p \in 1 .. Len(q[b]) + 1 : m = CellAt(q[b], b, p - 1)
  BY <1>2, PlaceOf
<1>4. p = Len(q[b]) + 1
  <2> SUFFICES ASSUME p # Len(q[b]) + 1 PROVE FALSE
    OBVIOUS
  <2>1. p \in 1 .. Len(q[b]) /\ p - 1 \in 0 .. Len(q[b]) - 1 /\ (p - 1) + 1 = p
    BY <1>1, <1>3
  <2>2. next[m] = q[b][p]
    BY <1>3, <2>1 DEF Ring, Along
  <2>3. q[b][p] \in Node
    BY <1>1, <2>1, ElementOfSeq
  <2> QED
    BY <1>1, <1>2, <2>2, <2>3
<1>5. Ring([q EXCEPT ![b] = Abstract!InsertAt(q[b], p, new)])'
  BY <1>2, <1>3, RingInsert
<1>6. Abstract!InsertAt(q[b], p, new) = Append(q[b], new)
  BY <1>1, <1>4, InsertedLast
<1> QED
  BY <1>5, <1>6

\* After the header is the first, or the header again.
LEMMA GetQueue ==
    ASSUME Types, LinksAgree, HeadersOwned, NEW q \in [List -> Seq(Node)], Ring(q),
           NEW b \in List, dlnode_remove(next[b])
    PROVE  /\ next[b] \in Node => q[b] # <<>> /\ Ring([q EXCEPT ![b] = Tail(q[b])])'
           /\ next[b] \notin Node => Ring(q)'
<1>1. /\ q[b] \in Seq(Node) /\ Len(q[b]) \in Nat /\ Along(b, q[b])
      /\ b \in Cell /\ b \notin Node /\ owner[b] = b /\ owner[b] # NULL /\ NULL \notin Cell
      /\ Linked(b)
  BY LenProperties, DlistAssumption DEF Ring, Cell, List, HeadersOwned, LinksAgree
<1>2. ASSUME next[b] \in Node PROVE q[b] # <<>> /\ Ring([q EXCEPT ![b] = Tail(q[b])])'
  <2>1. q[b] # <<>>
    <3> SUFFICES ASSUME q[b] = <<>> PROVE FALSE
      OBVIOUS
    <3>1. Len(q[b]) = 0
      BY EmptySeq
    <3> QED
      BY <1>1, <1>2, <3>1 DEF Along, CellAt
  <2>2. 1 \in 1 .. Len(q[b]) /\ 0 \in 0 .. Len(q[b]) - 1
    BY <1>1, <2>1, EmptySeq
  <2>3. next[b] = q[b][1]
    <3>1. next[CellAt(q[b], b, 0)] = q[b][0 + 1]
      BY <1>1, <2>2 DEF Along
    <3> QED
      BY <3>1 DEF CellAt
  <2>4. Ring([q EXCEPT ![b] = Abstract!RemoveAt(q[b], 1)])'
    BY <2>2, <2>3, RingRemove
  <2>5. Abstract!RemoveAt(q[b], 1) = Tail(q[b])
    BY <1>1, <2>1, RemovedFirst
  <2> QED
    BY <2>1, <2>4, <2>5
<1>3. ASSUME next[b] \notin Node PROVE Ring(q)'
  <2>1. next[b] = b /\ prev[b] = b
    BY <1>1, <1>3 DEF Linked, Cell, HeadersOwned
  <2>2. /\ \A c \in Cell : next'[c] = IF c = b THEN NULL ELSE next[c]
        /\ \A c \in Cell : owner'[c] = IF c = b THEN NULL ELSE owner[c]
    BY <1>1, <2>1 DEF dlnode_remove, Types
  <2>3. \A c \in Node : next'[c] = next[c] /\ owner'[c] = owner[c]
    BY <1>1, <2>2 DEF Cell
  <2>4. \A k \in List : next'[k] = next[k] \/ (next[k] \notin Node /\ next'[k] \notin Node)
    BY <1>1, <1>3, <2>2 DEF Cell
  <2>5. ASSUME NEW k \in List PROVE Along(k, q[k])'
    <3>1. /\ q[k] \in Seq(Node) /\ Len(q[k]) \in Nat /\ Along(k, q[k])
          /\ \A i \in 1 .. Len(q[k]) : q[k][i] \in Node
      BY LenProperties, ElementOfSeq DEF Ring
    <3>2. \A i \in 1 .. Len(q[k]) : owner'[q[k][i]] = k
      BY <2>3, <3>1 DEF Along
    <3>3. ASSUME NEW i \in 0 .. Len(q[k])
          PROVE  \/ next'[CellAt(q[k], k, i)] = next[CellAt(q[k], k, i)]
                 \/ /\ next[CellAt(q[k], k, i)] \notin Node
                    /\ next'[CellAt(q[k], k, i)] \notin Node
      <4>1. CASE i = 0
        BY <2>4, <4>1 DEF CellAt
      <4>2. CASE i # 0
        BY <2>3, <3>1, <4>2 DEF CellAt
      <4> QED
        BY <4>1, <4>2
    <3>4. ASSUME NEW i \in 0 .. Len(q[k]) - 1 PROVE next'[CellAt(q[k], k, i)] = q[k][i + 1]
      <4>1. i \in 0 .. Len(q[k]) /\ i + 1 \in 1 .. Len(q[k])
        BY <3>1
      <4>2. next[CellAt(q[k], k, i)] = q[k][i + 1] /\ q[k][i + 1] \in Node
        BY <3>1, <4>1 DEF Along
      <4> QED
        BY <3>3, <4>1, <4>2
    <3>5. next'[CellAt(q[k], k, Len(q[k]))] \notin Node
      <4>1. Len(q[k]) \in 0 .. Len(q[k])
        BY <3>1
      <4>2. next[CellAt(q[k], k, Len(q[k]))] \notin Node
        BY <3>1 DEF Along
      <4> QED
        BY <3>3, <4>1, <4>2
    <3> QED
      BY <3>1, <3>2, <3>4, <3>5 DEF Along
  <2>6. Placed(q)'
    BY <2>3 DEF Ring, Placed
  <2> QED
    BY <2>5, <2>6 DEF Ring
<1> QED
  BY <1>2, <1>3

\* A node to be inserted is in no sequence yet.
LEMMA NowhereElse ==
    ASSUME NEW q \in [List -> Seq(Node)], Ring(q), NEW new \in Node, Unlinked(new)
    PROVE  \A l \in List : ~ Abstract!Contains(q[l], new)
  BY DlistAssumption DEF Ring, Along, Unlinked, Abstract!Contains

LEMMA DescribesNext == Describes'
  BY RingDescribes, PTL

\* What a step does to the sequences is a step of Queues, or none.
Implemented(q, r) ==
    \/ r = q
    \/ \E l \in PlainList, n \in Node : \E i \in 1 .. Len(q[l]) + 1 :
          /\ \A k \in List : ~ Abstract!Contains(q[k], n)
          /\ r = [q EXCEPT ![l] = Abstract!InsertAt(q[l], i, n)]
    \/ \E l \in PlainList : \E i \in 1 .. Len(q[l]) :
          r = [q EXCEPT ![l] = Abstract!RemoveAt(q[l], i)]
    \/ \E b \in Mailbox, n \in Node :
          /\ \A k \in List : ~ Abstract!Contains(q[k], n)
          /\ r = [q EXCEPT ![b] = Append(q[b], n)]
    \/ \E b \in Mailbox : q[b] # <<>> /\ r = [q EXCEPT ![b] = Tail(q[b])]

\* Through the mapping, that is a step of Queues.
LEMMA ImplementedIsNext ==
    ASSUME NEW q \in [List -> Seq(Node)], Queue = q, Implemented(q, Queue')
    PROVE  [Abstract!Next]_Queue
<1>1. Abstract!List = List
  BY DEF Abstract!List, List
<1>2. Queue = [l \in List |-> Chain(l)] /\ Queue' = [l \in List |-> Chain(l)]'
  BY DEF Queue
<1>3. CASE Queue' = q
  BY <1>3
<1>4. CASE \E l \in PlainList, n \in Node : \E i \in 1 .. Len(q[l]) + 1 :
               /\ \A k \in List : ~ Abstract!Contains(q[k], n)
               /\ Queue' = [q EXCEPT ![l] = Abstract!InsertAt(q[l], i, n)]
  <2>0. PICK l \in PlainList, n \in Node : \E i \in 1 .. Len(q[l]) + 1 :
               /\ \A k \in List : ~ Abstract!Contains(q[k], n)
               /\ Queue' = [q EXCEPT ![l] = Abstract!InsertAt(q[l], i, n)]
    BY <1>4
  <2>1. PICK i \in 1 .. Len(q[l]) + 1 :
               /\ \A k \in List : ~ Abstract!Contains(q[k], n)
               /\ Queue' = [q EXCEPT ![l] = Abstract!InsertAt(q[l], i, n)]
    BY <2>0
  <2>2. Abstract!PutIn(l)
    BY <1>1, <1>2, <2>1 DEF Abstract!PutIn, Abstract!Unlinked
  <2> QED
    BY <2>2 DEF Abstract!Next
<1>5. CASE \E l \in PlainList : \E i \in 1 .. Len(q[l]) :
               Queue' = [q EXCEPT ![l] = Abstract!RemoveAt(q[l], i)]
  <2>0. PICK l \in PlainList : \E i \in 1 .. Len(q[l]) :
               Queue' = [q EXCEPT ![l] = Abstract!RemoveAt(q[l], i)]
    BY <1>5
  <2>1. PICK i \in 1 .. Len(q[l]) : Queue' = [q EXCEPT ![l] = Abstract!RemoveAt(q[l], i)]
    BY <2>0
  <2>2. DOMAIN q[l] = 1 .. Len(q[l])
    BY LenProperties DEF List
  <2>3. Abstract!TakeOut(l)
    BY <1>1, <1>2, <2>1, <2>2 DEF Abstract!TakeOut
  <2> QED
    BY <2>3 DEF Abstract!Next
<1>6. CASE \E b \in Mailbox, n \in Node :
               /\ \A k \in List : ~ Abstract!Contains(q[k], n)
               /\ Queue' = [q EXCEPT ![b] = Append(q[b], n)]
  <2>1. PICK b \in Mailbox, n \in Node :
               /\ \A k \in List : ~ Abstract!Contains(q[k], n)
               /\ Queue' = [q EXCEPT ![b] = Append(q[b], n)]
    BY <1>6
  <2>2. Abstract!Post(b)
    BY <1>1, <1>2, <2>1 DEF Abstract!Post, Abstract!Unlinked
  <2> QED
    BY <2>2 DEF Abstract!Next
<1>7. CASE \E b \in Mailbox : q[b] # <<>> /\ Queue' = [q EXCEPT ![b] = Tail(q[b])]
  <2>1. PICK b \in Mailbox : q[b] # <<>> /\ Queue' = [q EXCEPT ![b] = Tail(q[b])]
    BY <1>7
  <2>2. Abstract!Get(b)
    BY <1>2, <2>1 DEF Abstract!Get
  <2> QED
    BY <2>2 DEF Abstract!Next
<1> QED
  BY <1>3, <1>4, <1>5, <1>6, <1>7 DEF Implemented

---------------------------------------------------------------------------
RingGood == Good /\ RingInv

LEMMA RingGoodInit == Init => RingGood /\ Abstract!Init
<1> SUFFICES ASSUME Init PROVE RingGood /\ Abstract!Init
  OBVIOUS
<1> DEFINE q == [l \in List |-> <<>>]
<1>1. q \in [List -> Seq(Node)] /\ \A l \in List : q[l] = <<>>
  OBVIOUS
<1>2. Good
  BY GoodInit
<1> HIDE DEF q
<1>3. Ring(q)
  <2>1. ASSUME NEW l \in List PROVE Along(l, q[l])
    <3>1. Len(q[l]) = 0
      BY <1>1, EmptySeq
    <3>2. next[l] = l /\ l \notin Node
      BY DlistAssumption DEF Init, Cell
    <3> QED
      BY <3>1, <3>2 DEF Along, CellAt
  <2>2. Placed(q)
    BY DlistAssumption DEF Init, Cell, Placed
  <2> QED
    BY <2>1, <2>2 DEF Ring
<1>4. Queue = q
  BY <1>1, <1>2, <1>3, RingDescribes DEF Describes, Good
<1>5. Abstract!Init
  <2>1. [l \in List |-> Chain(l)] = [l \in List |-> <<>>]
    BY <1>4 DEF Queue, q
  <2> QED
    BY <2>1 DEF Abstract!Init, Abstract!List, List
<1> QED
  BY <1>1, <1>2, <1>3, <1>5 DEF RingGood, RingInv

\* Each step leaves sequences that a step of Queues could have made of those before.
LEMMA StepImplemented ==
    ASSUME Good, NEW q \in [List -> Seq(Node)], Ring(q), [Next]_vars
    PROVE  \E r \in [List -> Seq(Node)] : Ring(r)' /\ Implemented(q, r)
<1> DEFINE Goal == \E r \in [List -> Seq(Node)] : Ring(r)' /\ Implemented(q, r)
<1>1. \A l \in List : q[l] \in Seq(Node) /\ Len(q[l]) \in Nat
  BY LenProperties
<1>2. Implemented(q, q)
  BY DEF Implemented
<1>3. CASE UNCHANGED vars
  <2>1. Ring(q)'
    BY <1>3 DEF vars, Ring, Along, Placed
  <2> QED
    BY <1>2, <2>1
<1>4. CASE ~ freed /\ Next
  <2>1. Types /\ LinksAgree /\ HeadersOwned
    BY <1>4 DEF Good, WellLinked, LinksAgree, HeadersOwned
  <2>2. ASSUME NEW l \in PlainList, NEW n \in Cell, NEW new \in Node, owner[n] = l,
               Unlinked(new), dlnode_insertnext(n, new) \/ dlnode_insertprev(n, new)
        PROVE  Goal
    <3>1. l \in List
      BY DEF List
    <3>2. PICK p \in 1 .. Len(q[l]) + 1 :
              Ring([q EXCEPT ![l] = Abstract!InsertAt(q[l], p, new)])'
      BY <2>1, <2>2, <3>1, InsertionQueue
    <3>3. Abstract!InsertAt(q[l], p, new) \in Seq(Node)
      BY <1>1, <3>1, <3>2, Inserted
    <3> DEFINE r == [q EXCEPT ![l] = Abstract!InsertAt(q[l], p, new)]
    <3>4. r \in [List -> Seq(Node)]
      BY <3>3
    <3>5. Implemented(q, r)
      <4>1. \A k \in List : ~ Abstract!Contains(q[k], new)
        BY <2>2, NowhereElse
      <4> QED
        BY <3>2, <4>1 DEF Implemented
    <3> QED
      BY <3>2, <3>4, <3>5
  <2>3. CASE Insert
    <3>1. PICK n \in Cell, new \in Node :
              /\ Unlinked(new) /\ owner[n] \in PlainList
              /\ dlnode_insertnext(n, new) \/ dlnode_insertprev(n, new)
      BY <2>3 DEF Insert
    <3> QED
      BY <2>2, <3>1
  <2>4. CASE InsertAtEnd
    <3>1. PICK l \in PlainList, new \in Node :
              /\ Unlinked(new)
              /\ dlnode_insertnext(l, new) \/ dlnode_insertprev(l, new)
      BY <2>4 DEF InsertAtEnd, dlist_insertfirst, dlist_insertlast
    <3>2. l \in Cell /\ owner[l] = l
      BY <2>1 DEF HeadersOwned, List, Cell
    <3> QED
      BY <2>2, <3>1, <3>2
  <2>5. CASE Remove
    <3>1. PICK n \in Node : owner[n] \in PlainList /\ dlnode_remove(n)
      BY <2>5 DEF Remove
    <3>2. PICK l \in PlainList : l = owner[n] /\ l \in List /\ l # NULL
      BY <3>1, DlistAssumption DEF List
    <3>3. PICK p \in 1 .. Len(q[l]) : q[l][p] = n
      BY <3>2 DEF Ring, Placed
    <3>4. Ring([q EXCEPT ![l] = Abstract!RemoveAt(q[l], p)])'
      BY <2>1, <3>1, <3>2, <3>3, RingRemove
    <3>5. Abstract!RemoveAt(q[l], p) \in Seq(Node)
      BY <1>1, <3>2, <3>3, Removed
    <3> DEFINE r == [q EXCEPT ![l] = Abstract!RemoveAt(q[l], p)]
    <3>6. r \in [List -> Seq(Node)]
      BY <3>5
    <3>7. Implemented(q, r)
      BY <3>2, <3>3 DEF Implemented
    <3> QED
      BY <3>4, <3>6, <3>7
  <2>6. CASE mbox_msg_post
    <3>1. PICK b \in Mailbox, new \in Node : Unlinked(new) /\ dlnode_insertprev(b, new)
      BY <2>6 DEF mbox_msg_post, dlist_insertlast
    <3>2. b \in List
      BY DEF List
    <3>3. Ring([q EXCEPT ![b] = Append(q[b], new)])'
      BY <2>1, <3>1, <3>2, PostQueue
    <3> DEFINE r == [q EXCEPT ![b] = Append(q[b], new)]
    <3>4. r \in [List -> Seq(Node)]
      <4>1. Append(q[b], new) \in Seq(Node)
        BY <1>1, <3>2, AppendProperties
      <4> QED
        BY <4>1
    <3>5. Implemented(q, r)
      <4>1. \A k \in List : ~ Abstract!Contains(q[k], new)
        BY <3>1, NowhereElse
      <4> QED
        BY <4>1 DEF Implemented
    <3> QED
      BY <3>3, <3>4, <3>5
  <2>7. CASE mbox_msg_get
    <3>1. PICK b \in Mailbox : dlnode_remove(next[b])
      BY <2>7 DEF mbox_msg_get, dlist_first
    <3>2. b \in List
      BY DEF List
    <3>3. /\ next[b] \in Node => q[b] # <<>> /\ Ring([q EXCEPT ![b] = Tail(q[b])])'
          /\ next[b] \notin Node => Ring(q)'
      BY <2>1, <3>1, <3>2, GetQueue
    <3>4. CASE next[b] \notin Node
      BY <1>2, <3>3, <3>4
    <3>5. CASE next[b] \in Node
      <4> DEFINE r == [q EXCEPT ![b] = Tail(q[b])]
      <4>1. q[b] # <<>> /\ Ring(r)'
        BY <3>3, <3>5
      <4>2. r \in [List -> Seq(Node)]
        <5>1. Tail(q[b]) \in Seq(Node)
          BY <1>1, <3>2, <4>1, HeadTailProperties
        <5> QED
          BY <5>1
      <4>3. Implemented(q, r)
        BY <4>1 DEF Implemented
      <4> QED
        BY <4>1, <4>2, <4>3
    <3> QED
      BY <3>4, <3>5
  <2> QED
    BY <1>4, <2>3, <2>4, <2>5, <2>6, <2>7 DEF Next
<1> QED
  BY <1>3, <1>4 DEF Next

LEMMA RingGoodNext == RingGood /\ [Next]_vars => RingGood' /\ [Abstract!Next]_Queue
<1> SUFFICES ASSUME RingGood, [Next]_vars PROVE RingGood' /\ [Abstract!Next]_Queue
  OBVIOUS
<1>1. PICK q \in [List -> Seq(Node)] : Ring(q)
  BY DEF RingGood, RingInv
<1>2. Good /\ Good'
  BY GoodNext DEF RingGood
<1>3. PICK r \in [List -> Seq(Node)] : Ring(r)' /\ Implemented(q, r)
  BY <1>1, <1>2, StepImplemented
<1>4. Queue = q
  BY <1>1, <1>2, RingDescribes DEF Describes, Good
<1>5. Queue' = r
  BY <1>2, <1>3, DescribesNext DEF Describes, Good
<1>6. [Abstract!Next]_Queue
  BY <1>1, <1>3, <1>4, <1>5, ImplementedIsNext
<1>7. RingInv'
  BY <1>3 DEF RingInv
<1> QED
  BY <1>2, <1>6, <1>7 DEF RingGood

\* Following the pointers always gives a sequence that the calls could have made, whatever the
\* number of nodes and lists: anywhere in a plain list, and first in first out in a mailbox
\* (dlist.h, mbox_msg_post, mbox_msg_get).
THEOREM IsQueueAlways == Spec => IsQueue
<1>1. [Abstract!Next]_Queue => [Abstract!Next]_([l \in List |-> Chain(l)])
  BY DEF Queue
<1> QED
  BY <1>1, RingGoodInit, RingGoodNext, PTL DEF Spec, IsQueue, Abstract!Spec
=============================================================================
