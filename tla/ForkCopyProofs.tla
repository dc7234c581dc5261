--------------------------- MODULE ForkCopyProofs ---------------------------
(***************************************************************************)
(* Proofs about createForkMutations (state.ts): the lines it writes load,  *)
(* and load as the copy of the session or the path of one of its entries.  *)
(*                                                                         *)
(* A fork starts from a state that a session can be in (Sane).  ForkLines  *)
(* says which lines it writes, ForkLoads what state they load as, and      *)
(* BranchIsPath which entries a branch takes along.                        *)
(***************************************************************************)
EXTENDS SessionReplayProofs

-----------------------------------------------------------------------------
(* Loading a fork.                                                         *)

\* order lists every element of S.
Lists(order, S) ==
  /\ Cardinality(S) \in Nat /\ order \in [1 .. Cardinality(S) -> S]
  /\ \A x \in S : \E i \in 1 .. Cardinality(S) : order[i] = x

\* What a fork takes from the theory of finite sets; SessionForkProofs proves it
\* from the theorem library.
Counted ==
  /\ \A d \in Nat : Cardinality(0 .. (d - 1)) = d
  /\ \A N \in Nat : \A P \in SUBSET (1 .. N) : Lists(Ascending(P), P)
  /\ \A st : IsFiniteSet(DOMAIN st.lanes) => Lists(LaneOrder(st), DOMAIN st.lanes)

LEMMA AscendingFacts ==
  ASSUME Counted, NEW N \in Nat, NEW P \in SUBSET (1 .. N)
  PROVE  /\ Cardinality(P) \in Nat /\ Ascending(P) \in [1 .. Cardinality(P) -> P]
         /\ \A p \in P : \E i \in 1 .. Cardinality(P) : Ascending(P)[i] = p
BY Zenon DEF Counted, Lists

LEMMA LaneOrderFacts ==
  ASSUME Counted, NEW st, IsFiniteSet(DOMAIN st.lanes)
  PROVE  /\ Cardinality(DOMAIN st.lanes) \in Nat
         /\ LaneOrder(st) \in [1 .. Cardinality(DOMAIN st.lanes) -> DOMAIN st.lanes]
         /\ \A lane \in DOMAIN st.lanes :
              \E i \in 1 .. Cardinality(DOMAIN st.lanes) : LaneOrder(st)[i] = lane
BY Zenon DEF Counted, Lists

-----------------------------------------------------------------------------
(* The lines of a fork.                                                    *)

\* What a fork's lines say of the source.
LaneLines(lines, lanes) ==
  /\ \A n \in 1 .. Len(lines) : lines[n].kind = "lane" =>
       \E i \in 1 .. Len(lanes) : lines[n].lane = lanes[i].lane /\ lines[n].leafId = lanes[i].leafId
  /\ \A i \in 1 .. Len(lanes) : \E n \in 1 .. Len(lines) :
       lines[n].kind = "lane" /\ lines[n].lane = lanes[i].lane /\ lines[n].leafId = lanes[i].leafId
NameLines(lines, st) ==
  /\ \A n \in 1 .. Len(lines) : lines[n].kind = "name" => lines[n].name = st.name
  /\ st.name # Null => \E n \in 1 .. Len(lines) : lines[n].kind = "name"
  /\ st.name = Null => \A n \in 1 .. Len(lines) : lines[n].kind # "name"
LabelLines(lines, copied, st) ==
  /\ \A n \in 1 .. Len(lines) : lines[n].kind = "label" =>
       \E i \in 1 .. Len(copied) : /\ copied[i].id \in DOMAIN st.labels /\ lines[n].targetId = copied[i].id
                                   /\ lines[n].label = st.labels[copied[i].id]
  /\ \A i \in 1 .. Len(copied) : copied[i].id \in DOMAIN st.labels =>
       \E n \in 1 .. Len(lines) : lines[n].kind = "label" /\ lines[n].targetId = copied[i].id
ForkFacts(lines, copied, lanes, st) ==
  /\ lines \in Seq(Mutations) /\ Len(copied) <= Len(lines)
  /\ \A n \in 1 .. Len(lines) :
       /\ lines[n].seq = n
       /\ n > Len(copied) => lines[n].kind \in {"lane", "name", "label"}
  /\ \A n \in 1 .. Len(copied) :
       /\ lines[n].kind = "entry" /\ lines[n].lane = Null
       /\ lines[n].id = copied[n].id /\ lines[n].parentId = copied[n].parentId /\ lines[n].type = copied[n].type
  /\ LaneLines(lines, lanes) /\ NameLines(lines, st) /\ LabelLines(lines, copied, st)

LEMMA ForkEntries ==
  ASSUME NEW copied \in Seq(Mutations), Rooted(copied)
  PROVE  LET a == [i \in DOMAIN copied |-> [copied[i] EXCEPT !.lane = Null]] IN
         /\ a \in Seq(Mutations) /\ Len(a) = Len(copied)
         /\ \A i \in 1 .. Len(copied) :
              /\ a[i].kind = "entry" /\ a[i].lane = Null
              /\ a[i].id = copied[i].id /\ a[i].parentId = copied[i].parentId /\ a[i].type = copied[i].type
<1> DEFINE a == [i \in DOMAIN copied |-> [copied[i] EXCEPT !.lane = Null]]
<1>1. DOMAIN copied = 1 .. Len(copied) /\ Len(copied) \in Nat
  OBVIOUS
<1>2. ASSUME NEW i \in 1 .. Len(copied)
      PROVE  /\ a[i] \in Mutations /\ a[i].kind = "entry" /\ a[i].lane = Null
             /\ a[i].id = copied[i].id /\ a[i].parentId = copied[i].parentId /\ a[i].type = copied[i].type
  <2> DEFINE m == copied[i]
  <2>1. m \in Mutations /\ m.kind = "entry" /\ a[i] = [m EXCEPT !.lane = Null]
    BY <1>1 DEF Rooted
  <2> HIDE DEF m
  <2>2. m \in [kind : {"entry"}, seq : Nat, id : Ids, parentId : Ids \cup {Null},
               lane : Lanes \cup {Null}, type : EntryTypes]
    BY <2>1 DEF Mutations, MutationsAt
  <2>3. [m EXCEPT !.lane = Null]
          = [kind |-> "entry", seq |-> m.seq, id |-> m.id, parentId |-> m.parentId, lane |-> Null, type |-> m.type]
    BY <2>2
  <2>4. [m EXCEPT !.lane = Null] \in Mutations
    BY <2>2, <2>3 DEF Mutations, MutationsAt
  <2> HIDE DEF a
  <2> QED BY <2>1, <2>3, <2>4 DEF m
<1>3. a \in Seq(Mutations) /\ Len(a) = Len(copied)
  <2>1. a \in [1 .. Len(copied) -> Mutations]
    BY <1>1, <1>2
  <2> HIDE DEF a
  <2> QED BY <1>1, <2>1
<1> HIDE DEF a
<1>4. /\ a \in Seq(Mutations) /\ Len(a) = Len(copied)
      /\ \A i \in 1 .. Len(copied) :
           /\ a[i].kind = "entry" /\ a[i].lane = Null
           /\ a[i].id = copied[i].id /\ a[i].parentId = copied[i].parentId /\ a[i].type = copied[i].type
  BY <1>2, <1>3
<1> QED BY <1>4, Zenon DEF a

LEMMA ForkNameFacts ==
  ASSUME NEW st \in States
  PROVE  /\ ForkName(st) \in Seq(Mutations)
         /\ \A i \in 1 .. Len(ForkName(st)) : ForkName(st)[i].kind = "name" /\ ForkName(st)[i].name = st.name
         /\ st.name # Null => 1 \in 1 .. Len(ForkName(st))
         /\ st.name = Null => Len(ForkName(st)) = 0
<1>1. CASE st.name = Null
  BY <1>1 DEF ForkName
<1>2. CASE st.name # Null
  <2> DEFINE m == NameMutation(0, st.name)
  <2>1. st.name \in Labels \cup {Null}
    BY DEF States
  <2>2. m \in Mutations /\ m.kind = "name" /\ m.name = st.name
    BY <2>1 DEF NameMutation, Mutations, MutationsAt
  <2>3. ForkName(st) = <<m>>
    BY <1>2 DEF ForkName
  <2> HIDE DEF m
  <2> QED BY <1>2, <2>2, <2>3
<1> QED BY <1>1, <1>2

LEMMA ForkLabelsFacts ==
  ASSUME Counted, NEW st \in States, NEW copied \in Seq(Mutations), Rooted(copied)
  PROVE  LET d == ForkLabels(st, copied) IN
         /\ d \in Seq(Mutations)
         /\ \A n \in 1 .. Len(d) :
              /\ d[n].kind = "label"
              /\ \E i \in 1 .. Len(copied) : /\ copied[i].id \in DOMAIN st.labels /\ d[n].targetId = copied[i].id
                                             /\ d[n].label = st.labels[copied[i].id]
         /\ \A i \in 1 .. Len(copied) : copied[i].id \in DOMAIN st.labels =>
              \E n \in 1 .. Len(d) : d[n].targetId = copied[i].id
<1> DEFINE d == ForkLabels(st, copied)
           P == {i \in DOMAIN copied : copied[i].id \in DOMAIN st.labels}
           at == Ascending(P)
           k == Cardinality(P)
<1>0. DOMAIN copied = 1 .. Len(copied) /\ Len(copied) \in Nat
  OBVIOUS
<1>1. P \in SUBSET (1 .. Len(copied))
  BY <1>0
<1>2. k \in Nat /\ at \in [1 .. k -> P] /\ \A p \in P : \E i \in 1 .. k : at[i] = p
  <2> HIDE DEF P
  <2> QED BY <1>0, <1>1, AscendingFacts, Zenon
<1>3. d = [i \in 1 .. k |-> LabelMutation(0, copied[at[i]].id, st.labels[copied[at[i]].id])]
  <2>1. d = [i \in DOMAIN at |-> LabelMutation(0, copied[at[i]].id, st.labels[copied[at[i]].id])]
    BY Zenon DEF ForkLabels
  <2>2. DOMAIN at = 1 .. k
    BY <1>2
  <2> HIDE DEF d, at, k
  <2> QED BY <2>1, <2>2
<1>4. ASSUME NEW i \in P
      PROVE  LET m == LabelMutation(0, copied[i].id, st.labels[copied[i].id]) IN
             /\ m \in Mutations /\ m.kind = "label" /\ m.targetId = copied[i].id
             /\ m.label = st.labels[copied[i].id]
  <2>1. copied[i] \in Mutations /\ copied[i].kind = "entry" /\ copied[i].id \in DOMAIN st.labels
    BY DEF Rooted
  <2>2. copied[i].id \in Ids
    BY <2>1, KindFacts, Zenon
  <2>3. st.labels[copied[i].id] \in Labels
    BY <2>1 DEF States
  <2> QED BY <2>2, <2>3, Zenon DEF LabelMutation, Mutations, MutationsAt
<1> HIDE DEF d, at, k
<1>5. ASSUME NEW n \in 1 .. k
      PROVE  /\ d[n] \in Mutations /\ d[n].kind = "label" /\ at[n] \in P /\ d[n].targetId = copied[at[n]].id
             /\ d[n].label = st.labels[copied[at[n]].id]
  <2>1. at[n] \in P
    BY <1>2
  <2> HIDE DEF P
  <2> QED BY <1>3, <1>4, <2>1, Zenon
<1>6. d \in Seq(Mutations) /\ Len(d) = k
  <2>1. d \in [1 .. k -> Mutations]
    BY <1>3, <1>5, Zenon
  <2> QED BY <1>2, <2>1
<1>7. ASSUME NEW i \in 1 .. Len(copied), copied[i].id \in DOMAIN st.labels
      PROVE  \E n \in 1 .. Len(d) : d[n].targetId = copied[i].id
  <2>1. i \in P
    BY <1>0, <1>7
  <2> HIDE DEF P
  <2>2. PICK n \in 1 .. k : at[n] = i
    BY <1>2, <2>1
  <2> QED BY <1>5, <1>6, <2>2
<1>8. ASSUME NEW n \in 1 .. Len(d)
      PROVE  /\ d[n].kind = "label"
             /\ \E i \in 1 .. Len(copied) : /\ copied[i].id \in DOMAIN st.labels /\ d[n].targetId = copied[i].id
                                            /\ d[n].label = st.labels[copied[i].id]
  <2>1. n \in 1 .. k
    BY <1>6
  <2>2. at[n] \in P /\ d[n].kind = "label" /\ d[n].targetId = copied[at[n]].id
        /\ d[n].label = st.labels[copied[at[n]].id]
    BY <1>5, <2>1
  <2>3. at[n] \in 1 .. Len(copied) /\ copied[at[n]].id \in DOMAIN st.labels
    BY <1>0, <2>2
  <2> QED BY <2>2, <2>3
<1>9. /\ d \in Seq(Mutations)
      /\ \A n \in 1 .. Len(d) :
           /\ d[n].kind = "label"
           /\ \E i \in 1 .. Len(copied) : /\ copied[i].id \in DOMAIN st.labels /\ d[n].targetId = copied[i].id
                                          /\ d[n].label = st.labels[copied[i].id]
      /\ \A i \in 1 .. Len(copied) : copied[i].id \in DOMAIN st.labels =>
           \E n \in 1 .. Len(d) : d[n].targetId = copied[i].id
  BY <1>6, <1>7, <1>8
<1> QED BY <1>9, Zenon DEF d

\* The lanes of a fork: mutations whose leaf is null or one of the copies.
LanesFit(lanes, copied) ==
  /\ lanes \in Seq(Mutations)
  /\ \A i \in 1 .. Len(lanes) :
       /\ lanes[i].kind = "lane"
       /\ lanes[i].leafId = Null \/ \E j \in 1 .. Len(copied) : copied[j].id = lanes[i].leafId

LEMMA ForkLines ==
  ASSUME Counted, NEW st \in States, NEW options, Copied(st, options) \in Seq(Mutations), Rooted(Copied(st, options)),
         LanesFit(ForkLanes(st, options), Copied(st, options))
  PROVE  ForkFacts(CreateForkMutations(st, options), Copied(st, options), ForkLanes(st, options), st)
<1> DEFINE copied == Copied(st, options)
           a == [i \in DOMAIN copied |-> [copied[i] EXCEPT !.lane = Null]]
           b == ForkLanes(st, options)
           c == ForkName(st)
           d == ForkLabels(st, copied)
           s == a \o b \o c \o d
           t == Renumber(s)
           k == Len(copied)
<1>1. CreateForkMutations(st, options) = t
  BY DEF CreateForkMutations
<1>2. /\ a \in Seq(Mutations) /\ Len(a) = k
      /\ \A i \in 1 .. k :
           /\ a[i].kind = "entry" /\ a[i].lane = Null
           /\ a[i].id = copied[i].id /\ a[i].parentId = copied[i].parentId /\ a[i].type = copied[i].type
  <2> HIDE DEF copied
  <2> QED BY ForkEntries, Zenon DEF copied
<1>3. b \in Seq(Mutations) /\ \A i \in 1 .. Len(b) : b[i].kind = "lane"
  BY Zenon DEF LanesFit
<1>4. /\ c \in Seq(Mutations)
      /\ \A i \in 1 .. Len(c) : c[i].kind = "name" /\ c[i].name = st.name
      /\ st.name # Null => 1 \in 1 .. Len(c)
      /\ st.name = Null => Len(c) = 0
  BY ForkNameFacts, Zenon
<1>5. /\ d \in Seq(Mutations)
      /\ \A n \in 1 .. Len(d) :
           /\ d[n].kind = "label"
           /\ \E i \in 1 .. k : /\ copied[i].id \in DOMAIN st.labels /\ d[n].targetId = copied[i].id
                                /\ d[n].label = st.labels[copied[i].id]
      /\ \A i \in 1 .. k : copied[i].id \in DOMAIN st.labels => \E n \in 1 .. Len(d) : d[n].targetId = copied[i].id
  <2> HIDE DEF copied
  <2> QED BY ForkLabelsFacts, Zenon DEF copied
<1>6. copied \in Seq(Mutations)
  OBVIOUS
<1> HIDE DEF a, b, c, d, copied
<1>7. InOrder(s, a, b, c, d)
  BY <1>2, <1>3, <1>4, <1>5, JoinedInOrder, Zenon
<1> HIDE DEF s
<1>8. s \in Seq(Mutations)
  BY <1>7, Zenon DEF InOrder
<1>9. /\ t \in Seq(Mutations) /\ Len(t) = Len(s)
      /\ \A n \in 1 .. Len(s) : t[n].seq = n /\ Same(t[n], s[n])
  BY <1>8, RenumberFacts
<1> HIDE DEF t
<1> DEFINE N == Len(s)
           q == k + Len(b)
           r == q + Len(c)
<1>10. k \in Nat /\ Len(b) \in Nat /\ Len(c) \in Nat /\ Len(d) \in Nat /\ N = r + Len(d) /\ Len(t) = N
  BY <1>2, <1>3, <1>4, <1>5, <1>6, <1>7, <1>9, SMTT(30) DEF InOrder
<1>11. /\ \A i \in 1 .. k : s[i] = a[i]
       /\ \A i \in 1 .. Len(b) : s[k + i] = b[i]
       /\ \A i \in 1 .. Len(c) : s[q + i] = c[i]
       /\ \A i \in 1 .. Len(d) : s[r + i] = d[i]
  BY <1>2, <1>7, Zenon DEF InOrder
<1>12. /\ \A i \in 1 .. k : i \in 1 .. N
       /\ \A i \in 1 .. Len(b) : k + i \in 1 .. N
       /\ \A i \in 1 .. Len(c) : q + i \in 1 .. N
       /\ \A i \in 1 .. Len(d) : r + i \in 1 .. N
  BY <1>10
<1>13. \A n \in 1 .. N : \/ n <= k /\ s[n].kind = "entry"
                         \/ n > k /\ s[n].kind = "lane" /\ \E i \in 1 .. Len(b) : s[n] = b[i]
                         \/ n > k /\ s[n].kind = "name" /\ \E i \in 1 .. Len(c) : s[n] = c[i]
                         \/ n > k /\ s[n].kind = "label" /\ \E i \in 1 .. Len(d) : s[n] = d[i]
  <2> SUFFICES ASSUME NEW n \in 1 .. Len(s)
               PROVE  \/ n <= k /\ s[n].kind = "entry"
                      \/ n > k /\ s[n].kind = "lane" /\ \E i \in 1 .. Len(b) : s[n] = b[i]
                      \/ n > k /\ s[n].kind = "name" /\ \E i \in 1 .. Len(c) : s[n] = c[i]
                      \/ n > k /\ s[n].kind = "label" /\ \E i \in 1 .. Len(d) : s[n] = d[i]
    BY Zenon
  <2>1. \/ n <= Len(a) /\ n \in 1 .. Len(a) /\ s[n] = a[n]
        \/ n > Len(a) /\ \E i \in 1 .. Len(b) : s[n] = b[i]
        \/ n > Len(a) /\ \E i \in 1 .. Len(c) : s[n] = c[i]
        \/ n > Len(a) /\ \E i \in 1 .. Len(d) : s[n] = d[i]
    BY <1>2, <1>3, <1>4, <1>5, <1>7, Placed, SMTT(30)
  <2> HIDE DEF k
  <2>2. CASE n <= Len(a) /\ n \in 1 .. Len(a) /\ s[n] = a[n]
    BY <1>2, <2>2, Zenon
  <2>3. CASE n > Len(a) /\ \E i \in 1 .. Len(b) : s[n] = b[i]
    BY <1>2, <1>3, <2>3, Zenon
  <2>4. CASE n > Len(a) /\ \E i \in 1 .. Len(c) : s[n] = c[i]
    BY <1>2, <1>4, <2>4, Zenon
  <2>5. CASE n > Len(a) /\ \E i \in 1 .. Len(d) : s[n] = d[i]
    <3>1. PICK i \in 1 .. Len(d) : s[n] = d[i]
      BY <2>5
    <3> QED BY <1>2, <1>5, <2>5, <3>1, SMTT(30)
  <2> QED BY <2>1, <2>2, <2>3, <2>4, <2>5, Zenon
<1>14. \A n \in 1 .. N : /\ t[n].kind = s[n].kind
                         /\ s[n].kind = "lane" => t[n].lane = s[n].lane /\ t[n].leafId = s[n].leafId
                         /\ s[n].kind = "name" => t[n].name = s[n].name
                         /\ s[n].kind = "label" => t[n].targetId = s[n].targetId /\ t[n].label = s[n].label
                         /\ s[n].kind = "entry" => /\ t[n].id = s[n].id /\ t[n].parentId = s[n].parentId
                                                   /\ t[n].lane = s[n].lane /\ t[n].type = s[n].type
  BY <1>9, SMTT(30) DEF Same
<1>15. k <= N
  BY <1>10
<1> HIDE DEF N, q, r, k
<1>16. LaneLines(t, b)
  <2>1. ASSUME NEW n \in 1 .. N, t[n].kind = "lane"
        PROVE  \E i \in 1 .. Len(b) : t[n].lane = b[i].lane /\ t[n].leafId = b[i].leafId
    <3>1. PICK i \in 1 .. Len(b) : s[n] = b[i]
      BY <1>13, <1>14, <2>1, Zenon
    <3> QED BY <1>3, <1>14, <3>1, SMTT(30)
  <2>2. ASSUME NEW i \in 1 .. Len(b)
        PROVE  \E n \in 1 .. N : t[n].kind = "lane" /\ t[n].lane = b[i].lane /\ t[n].leafId = b[i].leafId
    <3> DEFINE n == k + i
    <3>1. n \in 1 .. N /\ s[n] = b[i]
      BY <1>11, <1>12, Zenon
    <3> HIDE DEF n
    <3> QED BY <1>3, <1>14, <3>1, SMTT(30)
  <2> QED BY <1>10, <2>1, <2>2, Zenon DEF LaneLines
<1>17. NameLines(t, st)
  <2>1. ASSUME NEW n \in 1 .. N, t[n].kind = "name" PROVE t[n].name = st.name /\ st.name # Null
    <3>1. PICK i \in 1 .. Len(c) : s[n] = c[i]
      BY <1>13, <1>14, <2>1, ZenonT(30)
    <3>2. Len(c) # 0
      BY <1>10, <3>1
    <3> QED BY <1>4, <1>14, <3>1, <3>2, SMTT(30)
  <2>2. ASSUME st.name # Null PROVE \E n \in 1 .. N : t[n].kind = "name"
    <3> DEFINE n == q + 1
    <3>1. n \in 1 .. N /\ s[n] = c[1] /\ c[1].kind = "name"
      BY <1>4, <1>11, <1>12, <2>2, Zenon
    <3> HIDE DEF n
    <3> QED BY <1>14, <3>1, SMTT(30)
  <2> QED BY <1>10, <2>1, <2>2, Zenon DEF NameLines
<1>18. LabelLines(t, copied, st)
  <2>1. ASSUME NEW n \in 1 .. N, t[n].kind = "label"
        PROVE  \E i \in 1 .. k : /\ copied[i].id \in DOMAIN st.labels /\ t[n].targetId = copied[i].id
                                 /\ t[n].label = st.labels[copied[i].id]
    <3>1. PICK i \in 1 .. Len(d) : s[n] = d[i]
      BY <1>13, <1>14, <2>1, Zenon
    <3>2. PICK j \in 1 .. k : /\ copied[j].id \in DOMAIN st.labels /\ d[i].targetId = copied[j].id
                             /\ d[i].label = st.labels[copied[j].id]
      BY <1>5, Zenon
    <3>3. t[n].targetId = d[i].targetId /\ t[n].label = d[i].label
      BY <1>14, <2>1, <3>1, Zenon
    <3> QED BY <3>2, <3>3, Zenon
  <2>2. ASSUME NEW i \in 1 .. k, copied[i].id \in DOMAIN st.labels
        PROVE  \E n \in 1 .. N : t[n].kind = "label" /\ t[n].targetId = copied[i].id
    <3>1. PICK j \in 1 .. Len(d) : d[j].targetId = copied[i].id
      BY <1>5, <2>2, Zenon
    <3> DEFINE n == r + j
    <3>2. n \in 1 .. N /\ s[n] = d[j] /\ d[j].kind = "label"
      BY <1>5, <1>11, <1>12, Zenon
    <3> HIDE DEF n
    <3> QED BY <1>14, <3>1, <3>2, SMTT(30)
  <2> QED BY <1>10, <2>1, <2>2, Zenon DEF LabelLines, k
<1>19. ASSUME NEW n \in 1 .. k
       PROVE  /\ t[n].kind = "entry" /\ t[n].lane = Null
              /\ t[n].id = copied[n].id /\ t[n].parentId = copied[n].parentId /\ t[n].type = copied[n].type
  <2>1. n \in 1 .. N /\ s[n] = a[n]
    BY <1>11, <1>12, Zenon
  <2> QED BY <1>2, <1>14, <2>1, SMTT(30)
<1>20. ASSUME NEW n \in 1 .. N PROVE t[n].seq = n /\ (n > k => t[n].kind \in {"lane", "name", "label"})
  <2>1. t[n].seq = n
    BY <1>9 DEF N
  <2>2. ASSUME n > k PROVE s[n].kind \in {"lane", "name", "label"}
    <3>1. n \in Int /\ ~(n <= k)
      BY <1>10, <2>2
    <3> QED BY <1>13, <3>1, Zenon
  <2> QED BY <1>14, <2>1, <2>2, Zenon
<1>21. ForkFacts(t, copied, b, st)
  BY <1>9, <1>10, <1>15, <1>16, <1>17, <1>18, <1>19, <1>20, ZenonT(30) DEF ForkFacts, k, N
<1> QED BY <1>1, <1>21 DEF copied, b

LEMMA ForkIsLoadable ==
  ASSUME NEW st \in States, NEW copied \in Seq(Mutations), Rooted(copied),
         NEW lanes, LanesFit(lanes, copied), NEW lines, ForkFacts(lines, copied, lanes, st)
  PROVE  Loadable(lines, Len(copied))
<1> DEFINE k == Len(copied)
<1>0. /\ lines \in Seq(Mutations) /\ k \in Nat /\ k <= Len(lines) /\ DOMAIN lines = 1 .. Len(lines)
      /\ DOMAIN copied = 1 .. k
  BY SMTT(30) DEF ForkFacts
<1>1. \A n \in 1 .. k :
        /\ lines[n].kind = "entry" /\ lines[n].lane = Null
        /\ lines[n].id = copied[n].id /\ lines[n].parentId = copied[n].parentId
  BY Zenon DEF ForkFacts
<1>2. \A n \in 1 .. Len(lines) :
        lines[n] \in Mutations /\ lines[n].seq = n /\ (n > k => lines[n].kind \in {"lane", "name", "label"})
  BY <1>0, SMTT(30) DEF ForkFacts
<1> HIDE DEF k
<1>3. ASSUME NEW n \in 1 .. Len(lines), n > k, NEW j \in 1 .. k PROVE Earlier(lines, n, copied[j].id)
  <2>1. j \in 1 .. (n - 1)
    BY <1>0, <1>3
  <2> QED BY <1>1, <2>1, Zenon DEF Earlier
<1>4. ASSUME NEW n \in DOMAIN lines
      PROVE  /\ lines[n].kind # "record" /\ (lines[n].kind = "entry" <=> n <= k)
             /\ lines[n].kind = "entry" =>
                  /\ lines[n].lane = Null /\ Earlier(lines, n, lines[n].parentId)
                  /\ \A j \in 1 .. (n - 1) : lines[j].kind = "entry" => lines[j].id # lines[n].id
             /\ lines[n].kind = "lane" => Earlier(lines, n, lines[n].leafId)
             /\ lines[n].kind = "label" => Earlier(lines, n, lines[n].targetId) /\ lines[n].label # Null
  <2>0. n \in 1 .. Len(lines) /\ n \in Int
    BY <1>0
  <2>1. CASE n <= k
    <3>1. n \in 1 .. k /\ n \in DOMAIN copied /\ \A j \in 1 .. (n - 1) : j \in 1 .. k
      BY <1>0, <2>0, <2>1
    <3>2. /\ \A j \in 1 .. (n - 1) : copied[j].id # copied[n].id
          /\ copied[n].parentId # Null => \E j \in 1 .. (n - 1) : copied[j].id = copied[n].parentId
      BY <3>1, Zenon DEF Rooted
    <3>3. lines[n].kind = "entry" /\ lines[n].lane = Null
      BY <1>1, <3>1, Zenon
    <3>4. \A j \in 1 .. (n - 1) : lines[j].id # lines[n].id
      BY <1>1, <3>1, <3>2, Zenon
    <3>5. Earlier(lines, n, lines[n].parentId)
      BY <1>1, <3>1, <3>2, Zenon DEF Earlier
    <3> QED BY <2>1, <3>3, <3>4, <3>5, Zenon
  <2>2. CASE n > k
    <3>1. ~(n <= k) /\ lines[n].kind \in {"lane", "name", "label"}
      BY <1>0, <1>2, <2>0, <2>2, SMTT(30)
    <3>2. ASSUME lines[n].kind = "lane" PROVE Earlier(lines, n, lines[n].leafId)
      <4>1. PICK i \in 1 .. Len(lanes) : lines[n].leafId = lanes[i].leafId
        BY <2>0, <3>2, SMTT(30) DEF ForkFacts, LaneLines
      <4>2. lanes[i].leafId = Null \/ \E j \in 1 .. k : copied[j].id = lanes[i].leafId
        BY DEF LanesFit, k
      <4> QED BY <1>3, <2>0, <2>2, <4>1, <4>2, Zenon DEF Earlier
    <3>3. ASSUME lines[n].kind = "label" PROVE Earlier(lines, n, lines[n].targetId) /\ lines[n].label # Null
      <4>1. PICK i \in 1 .. k : /\ copied[i].id \in DOMAIN st.labels /\ lines[n].targetId = copied[i].id
                                /\ lines[n].label = st.labels[copied[i].id]
        BY <2>0, <3>3, Zenon DEF ForkFacts, LabelLines, k
      <4>2. st.labels[copied[i].id] \in Labels
        BY <4>1, SMTT(30) DEF States
      <4> QED BY <1>3, <2>0, <2>2, <4>1, <4>2, SessionAssumption, ZenonT(30)
    <3> QED BY <3>1, <3>2, <3>3, Zenon
  <2> QED BY <1>0, <2>0, <2>1, <2>2, SMTT(30)
<1> QED BY <1>0, <1>2, <1>4, Zenon DEF Loadable, k

\* What a fork loads as.
Copies(copy, copied, lanes, st) ==
  LET ids == {copied[i].id : i \in 1 .. Len(copied)} IN
  /\ copy \in States /\ Len(copy.entries) = Len(copied) /\ EntryIds(copy) = ids
  /\ \A i \in 1 .. Len(copied) : /\ copy.entries[i].id = copied[i].id
                                 /\ copy.entries[i].parentId = copied[i].parentId
                                 /\ copy.entries[i].type = copied[i].type
  /\ DOMAIN copy.lanes = {Main} \cup {lanes[i].lane : i \in 1 .. Len(lanes)}
  /\ \A i \in 1 .. Len(lanes) : \E j \in 1 .. Len(lanes) :
       lanes[j].lane = lanes[i].lane /\ copy.lanes[lanes[i].lane] = lanes[j].leafId
  /\ copy.name = st.name
  /\ DOMAIN copy.labels = DOMAIN st.labels \cap ids
  /\ \A id \in DOMAIN copy.labels : copy.labels[id] = st.labels[id]

LEMMA ForkLoads ==
  ASSUME WellOrdered, NEW st \in States, NEW copied \in Seq(Mutations), Rooted(copied),
         NEW lanes, LanesFit(lanes, copied), NEW lines, ForkFacts(lines, copied, lanes, st)
  PROVE  Replay(lines).ok /\ Copies(Replay(lines).st, copied, lanes, st)
<1> DEFINE k == Len(copied)
           N == Len(lines)
           copy == Replay(lines).st
           ids == {copied[i].id : i \in 1 .. k}
<1>0. lines \in Seq(Mutations) /\ k \in Nat /\ k <= N /\ N \in Nat
  BY SMTT(30) DEF ForkFacts
<1>1. Loadable(lines, k)
  BY ForkIsLoadable
<1>2. Replay(lines).ok /\ Loaded(copy, lines, N, k)
  BY <1>0, <1>1, Loads
<1> HIDE DEF copy
<1>3. /\ \A n \in 1 .. k : /\ lines[n].kind = "entry" /\ lines[n].lane = Null
                           /\ lines[n].id = copied[n].id /\ lines[n].parentId = copied[n].parentId
                           /\ lines[n].type = copied[n].type
      /\ \A n \in 1 .. N : n > k => lines[n].kind \in {"lane", "name", "label"}
      /\ LaneLines(lines, lanes) /\ NameLines(lines, st) /\ LabelLines(lines, copied, st)
  BY Zenon DEF ForkFacts
<1>4. /\ copy \in States /\ IdsAgree(copy, lines, N) /\ LanesAgree(copy, lines, N)
      /\ EntriesAgree(copy, lines, N, k) /\ FactsAgree(copy, lines, N)
  BY <1>2 DEF Loaded
<1> HIDE DEF k, N
<1>7. \A n \in At(lines, N, {"entry"}) : n \in 1 .. k
  <2> SUFFICES ASSUME NEW n \in At(lines, N, {"entry"}) PROVE n \in 1 .. k
    OBVIOUS
  <2>1. n \in 1 .. N /\ lines[n].kind = "entry"
    BY DEF At
  <2>2. ~(n > k)
    BY <1>3, <2>1, Zenon
  <2> QED BY <1>0, <2>1, <2>2
<1>8. \A n \in 1 .. k : n \in At(lines, N, {"entry"})
  <2> SUFFICES ASSUME NEW n \in 1 .. k PROVE n \in At(lines, N, {"entry"})
    OBVIOUS
  <2>1. n \in 1 .. N /\ lines[n].kind = "entry"
    BY <1>0, <1>3, SMTT(30)
  <2> QED BY <2>1, Zenon DEF At
<1>9. Len(copy.entries) = k /\ \A i \in 1 .. k : copy.entries[i] = lines[i]
  BY <1>0, <1>4, SMTT(30) DEF EntriesAgree
<1>10. EntryIds(copy) = ids
  <2>1. EntryIds(copy) = {lines[i].id : i \in At(lines, N, {"entry"})}
    BY <1>4, Zenon DEF IdsAgree
  <2> QED BY <1>3, <1>7, <1>8, <2>1, SMTT(30)
<1>11. ASSUME NEW i \in 1 .. k
       PROVE  /\ copy.entries[i].id = copied[i].id /\ copy.entries[i].parentId = copied[i].parentId
              /\ copy.entries[i].type = copied[i].type
  BY <1>3, <1>9, Zenon
<1>12. DOMAIN copy.lanes \subseteq Lanes /\ \A i \in 1 .. Len(lanes) : lanes[i].lane \in Lanes
  <2>1. DOMAIN copy.lanes \subseteq Lanes
    BY <1>4, Zenon DEF States
  <2>2. ASSUME NEW i \in 1 .. Len(lanes) PROVE lanes[i].lane \in Lanes
    <3>1. lanes[i] \in Mutations /\ lanes[i].kind = "lane"
      BY DEF LanesFit
    <3> QED BY <3>1, KindFacts, Zenon
  <2> QED BY <2>1, <2>2
<1>13. \A lane \in Lanes : (\E n \in At(lines, N, {"lane"}) : lines[n].lane = lane)
                             <=> \E i \in 1 .. Len(lanes) : lanes[i].lane = lane
  <2> SUFFICES ASSUME NEW lane \in Lanes
               PROVE  (\E n \in At(lines, N, {"lane"}) : lines[n].lane = lane)
                        <=> \E i \in 1 .. Len(lanes) : lanes[i].lane = lane
    BY Zenon
  <2>1. ASSUME NEW n \in At(lines, N, {"lane"}), lines[n].lane = lane
        PROVE  \E i \in 1 .. Len(lanes) : lanes[i].lane = lane
    <3>1. n \in 1 .. N /\ lines[n].kind = "lane"
      BY DEF At
    <3> QED BY <1>3, <2>1, <3>1, ZenonT(30) DEF LaneLines, N
  <2>2. ASSUME NEW i \in 1 .. Len(lanes), lanes[i].lane = lane
        PROVE  \E n \in At(lines, N, {"lane"}) : lines[n].lane = lane
    <3>1. PICK n \in 1 .. N : lines[n].kind = "lane" /\ lines[n].lane = lane
      BY <1>3, <2>2, Zenon DEF LaneLines, N
    <3> QED BY <3>1 DEF At
  <2> QED BY <2>1, <2>2, Zenon
<1>14. DOMAIN copy.lanes = {Main} \cup {lanes[i].lane : i \in 1 .. Len(lanes)}
  <2>1. \A lane \in Lanes : lane \in DOMAIN copy.lanes <=>
          lane = Main \/ \E i \in At(lines, N, {"lane"}) : lines[i].lane = lane
    BY <1>4, Zenon DEF LanesAgree
  <2> QED BY <1>12, <1>13, <2>1, SessionAssumption, Zenon
<1>15. ASSUME NEW i \in 1 .. Len(lanes)
       PROVE  \E j \in 1 .. Len(lanes) :
                lanes[j].lane = lanes[i].lane /\ copy.lanes[lanes[i].lane] = lanes[j].leafId
  <2> DEFINE lane == lanes[i].lane
  <2>1. lane \in DOMAIN copy.lanes /\ lane \in Lanes /\ lane # Null
    BY <1>12, <1>14, SessionAssumption, Zenon
  <2>2. ASSUME NEW n \in Moves(lines, N, lane)
        PROVE  n \in 1 .. N /\ lines[n].kind = "lane" /\ lines[n].lane = lane
    <3>1. n \in 1 .. N /\ lines[n].kind \in {"entry", "lane"} /\ lines[n].lane = lane
      BY DEF Moves, At
    <3>2. lines[n].kind # "entry"
      <4> SUFFICES ASSUME lines[n].kind = "entry" PROVE FALSE
        OBVIOUS
      <4>1. n \in 1 .. k
        BY <1>7, <3>1 DEF At
      <4> QED BY <1>3, <2>1, <3>1, <4>1, Zenon
    <3> QED BY <3>1, <3>2, ZenonT(30)
  <2>3. Moves(lines, N, lane) # {}
    <3>1. PICK n \in At(lines, N, {"lane"}) : lines[n].lane = lane
      BY <1>13, <2>1, Zenon
    <3> QED BY <3>1 DEF Moves, At
  <2>4. PICK n \in Moves(lines, N, lane) : copy.lanes[lane] = Leaf(lines[n])
    BY <1>4, <2>1, <2>3, Zenon DEF LanesAgree
  <2>5. n \in 1 .. N /\ lines[n].kind = "lane" /\ lines[n].lane = lane /\ copy.lanes[lane] = lines[n].leafId
    BY <2>2, <2>4, Zenon DEF Leaf
  <2>6. PICK j \in 1 .. Len(lanes) : lines[n].lane = lanes[j].lane /\ lines[n].leafId = lanes[j].leafId
    BY <1>3, <2>5, ZenonT(30) DEF LaneLines, N
  <2> QED BY <2>5, <2>6, Zenon
<1>16. copy.name = st.name
  <2>1. \/ copy.name = Null /\ At(lines, N, {"name"}) = {}
        \/ \E i \in At(lines, N, {"name"}) : copy.name = lines[i].name
    BY <1>4, Zenon DEF FactsAgree
  <2>2. CASE st.name = Null
    <3>1. At(lines, N, {"name"}) = {}
      BY <1>3, <2>2, Zenon DEF NameLines, N, At
    <3> QED BY <2>1, <2>2, <3>1, Zenon
  <2>3. CASE st.name # Null
    <3>1. At(lines, N, {"name"}) # {}
      BY <1>3, <2>3, Zenon DEF NameLines, N, At
    <3>2. \A i \in At(lines, N, {"name"}) : lines[i].name = st.name
      BY <1>3, Zenon DEF NameLines, N, At
    <3> QED BY <2>1, <3>1, <3>2, Zenon
  <2> QED BY <2>2, <2>3
<1>17. DOMAIN copy.labels = DOMAIN st.labels \cap ids /\ \A id \in DOMAIN copy.labels : copy.labels[id] = st.labels[id]
  <2>1. /\ DOMAIN copy.labels = {lines[i].targetId : i \in At(lines, N, {"label"})}
        /\ \A id \in DOMAIN copy.labels :
             \E i \in At(lines, N, {"label"}) : lines[i].targetId = id /\ copy.labels[id] = lines[i].label
    BY <1>4, Zenon DEF FactsAgree
  <2>2. ASSUME NEW n \in At(lines, N, {"label"})
        PROVE  /\ lines[n].targetId \in DOMAIN st.labels \cap ids
               /\ lines[n].label = st.labels[lines[n].targetId]
    <3>0. n \in 1 .. N /\ lines[n].kind = "label"
      BY Zenon DEF At
    <3>1. PICK i \in 1 .. k : /\ copied[i].id \in DOMAIN st.labels /\ lines[n].targetId = copied[i].id
                              /\ lines[n].label = st.labels[copied[i].id]
      BY <1>3, <3>0, Zenon DEF LabelLines, N, k
    <3> QED BY <3>1, Zenon
  <2>3. ASSUME NEW id \in DOMAIN st.labels \cap ids PROVE id \in DOMAIN copy.labels
    <3>1. PICK i \in 1 .. k : copied[i].id = id
      BY Zenon
    <3>2. PICK n \in 1 .. N : lines[n].kind = "label" /\ lines[n].targetId = id
      BY <1>3, <3>1, ZenonT(30) DEF LabelLines, N, k
    <3>3. n \in At(lines, N, {"label"})
      BY <3>2 DEF At
    <3> QED BY <2>1, <3>2, <3>3, Zenon
  <2> HIDE DEF ids
  <2> QED BY <2>1, <2>2, <2>3, SMTT(30)
<1>18. Copies(copy, copied, lanes, st)
  BY <1>4, <1>9, <1>10, <1>11, <1>14, <1>15, <1>16, <1>17, ZenonT(30) DEF Copies, k
<1> QED BY <1>2, <1>18 DEF copy

-----------------------------------------------------------------------------
(* The path of a branch.                                                   *)

\* The path of an entry: distinct entries of st, each the parent of the next.
Path(b, st, id) ==
  /\ b \in Seq(Mutations) /\ Rooted(b) /\ Len(b) >= 1 /\ b[Len(b)].id = id
  /\ \A i \in 1 .. Len(b) : /\ EntryOf(st, b[i].id) = b[i] /\ b[i].id \in EntryIds(st)
                            /\ b[i].parentId = IF i = 1 THEN Null ELSE b[i - 1].id

LEMMA BranchIsPath ==
  ASSUME WellOrdered, Counted, NEW st \in States, Sane(st), NEW id \in EntryIds(st)
  PROVE  Path(BranchTo(st, id), st, id)
<1> DEFINE N == Len(st.entries)
<1>0. N \in Nat
  BY DEF States
<1>a. PICK f : Traced(f, st, id)
  BY <1>0, PathExists, Zenon
<1>1. /\ Climbs(f, st, id, N)
      /\ LET ids == {n \in 0 .. N : f[n] # Null} IN
         BranchTo(st, id) = [i \in 1 .. Cardinality(ids) |-> EntryOf(st, f[Cardinality(ids) - i])]
  BY <1>a, Zenon DEF Traced
<1> DEFINE P(n) == Pos(st, f[n])
           Fits(n) == /\ f[n] \in EntryIds(st) /\ P(n) + n <= N
                      /\ \A m \in 0 .. (n - 1) : f[m] \in EntryIds(st) /\ P(n) < P(m)
           S == {n \in 0 .. N : f[n] = Null \/ Fits(n)}
<1>2. Null \notin EntryIds(st)
  <2>1. \A i \in DOMAIN st.entries : st.entries[i].id \in Ids
    <3> SUFFICES ASSUME NEW i \in DOMAIN st.entries PROVE st.entries[i].id \in Ids
      OBVIOUS
    <3>1. st.entries[i] \in Mutations /\ st.entries[i].kind = "entry"
      BY SMTT(30) DEF Sane, Rooted, States
    <3> QED BY <3>1, KindFacts
  <2> QED BY <2>1, SessionAssumption DEF EntryIds
<1>3. \A n \in 0 .. N : f[n] \in EntryIds(st) => P(n) \in 1 .. N
  BY Found, Zenon
<1> HIDE DEF N
<1>4. 0 \in S
  <2>1. f[0] = id /\ 0 .. (0 - 1) = {} /\ 0 \in 0 .. N
    BY <1>0, <1>1 DEF Climbs
  <2>2. P(0) \in 1 .. N
    BY <1>3, <2>1
  <2> HIDE DEF P
  <2>3. P(0) + 0 <= N
    BY <1>0, <2>2
  <2> QED BY <2>1, <2>3
<1>5. ASSUME NEW n \in 0 .. N, n \in S, n < N PROVE n + 1 \in S
  <2>1. n + 1 \in 1 .. N /\ n + 1 \in 0 .. N /\ (n + 1) - 1 = n
    BY <1>0, <1>5
  <2>2. f[n + 1] = IF f[n] = Null THEN Null ELSE EntryOf(st, f[n]).parentId
    BY <1>1, <2>1, Zenon DEF Climbs
  <2>3. CASE f[n + 1] = Null
    BY <2>1, <2>3
  <2>4. CASE f[n + 1] # Null
    <3>1. f[n] # Null /\ f[n + 1] = EntryOf(st, f[n]).parentId /\ Fits(n)
      BY <1>5, <2>2, <2>4, Zenon
    <3>2. f[n + 1] \in EntryIds(st) /\ P(n + 1) < P(n)
      BY <2>4, <3>1, Found, Zenon
    <3>3. P(n) \in 1 .. N /\ P(n + 1) \in 1 .. N
      BY <1>3, <2>1, <3>1, <3>2, Zenon
    <3>4. P(n) + n <= N /\ \A m \in 0 .. (n - 1) : m \in 0 .. N /\ f[m] \in EntryIds(st) /\ P(n) < P(m)
      BY <1>0, <3>1, SMTT(30)
    <3>5. \A m \in 0 .. (n - 1) : P(m) \in 1 .. N
      BY <1>3, <3>4
    <3> HIDE DEF P
    <3>6. P(n + 1) + (n + 1) <= N
      BY <1>0, <3>2, <3>3, <3>4
    <3>7. \A m \in 0 .. ((n + 1) - 1) : f[m] \in EntryIds(st) /\ P(n + 1) < P(m)
      <4> SUFFICES ASSUME NEW m \in 0 .. n PROVE f[m] \in EntryIds(st) /\ P(n + 1) < P(m)
        BY <2>1
      <4>1. CASE m = n
        BY <3>1, <3>2, <4>1, ZenonT(30)
      <4>2. CASE m # n
        <5>1. m \in 0 .. (n - 1)
          BY <4>2
        <5> QED BY <3>2, <3>3, <3>4, <3>5, <5>1
      <4> QED BY <4>1, <4>2
    <3> QED BY <2>1, <3>2, <3>6, <3>7
  <2> QED BY <2>3, <2>4
<1>6. \A n \in 0 .. N : f[n] = Null \/ Fits(n)
  <2>1. \A n \in 0 .. N : n \in S
    <3> HIDE DEF S
    <3> QED BY <1>0, <1>4, <1>5, Induction
  <2> HIDE DEF Fits
  <2> QED BY <2>1
<1>7. f[N] = Null
  <2> SUFFICES ASSUME Fits(N) PROVE FALSE
    BY <1>0, <1>6
  <2>1. P(N) \in 1 .. N /\ P(N) + N <= N
    BY <1>0, <1>3
  <2> HIDE DEF P
  <2> QED BY <1>0, <2>1
<1>8. PICK d \in 0 .. N : f[d] = Null /\ \A n \in 0 .. N : f[n] = Null => d <= n
  <2> DEFINE T == {n \in 0 .. N : f[n] = Null}
  <2>1. T \in SUBSET Nat /\ T # {}
    BY <1>0, <1>7
  <2>2. PICK d \in T : \A n \in T : d <= n
    <3> HIDE DEF T
    <3> QED BY <2>1, LeastOf
  <2> QED BY <2>2
<1>9. d # 0 /\ d \in Nat /\ d <= N /\ \A n \in 0 .. (d - 1) : n \in 0 .. N /\ f[n] # Null /\ Fits(n)
  <2>1. d # 0
    BY <1>1, <1>2, <1>8 DEF Climbs
  <2>2. \A n \in 0 .. (d - 1) : n \in 0 .. N /\ f[n] # Null
    BY <1>0, <1>8
  <2> HIDE DEF Fits
  <2> QED BY <1>0, <1>6, <1>8, <2>1, <2>2
<1>10. {n \in 0 .. N : f[n] # Null} = 0 .. (d - 1)
  <2>1. ASSUME NEW n \in 0 .. N, f[n] # Null PROVE n \in 0 .. (d - 1)
    <3> SUFFICES ASSUME ~(n < d) PROVE FALSE
      BY <1>9
    <3>1. n # d
      BY <1>8, <2>1
    <3>2. d \in 0 .. (n - 1)
      BY <1>9, <3>1
    <3>3. f[d] \in EntryIds(st)
      BY <1>6, <2>1, <3>2
    <3> QED BY <1>2, <1>8, <3>3
  <2> HIDE DEF Fits
  <2> QED BY <1>9, <2>1
<1>11. Cardinality(0 .. (d - 1)) = d
  BY <1>9 DEF Counted
<1> DEFINE b == BranchTo(st, id)
<1>12. b = [i \in 1 .. d |-> EntryOf(st, f[d - i])]
  BY <1>1, <1>10, <1>11, Zenon
<1> HIDE DEF b
<1>13. ASSUME NEW i \in 1 .. d
       PROVE  /\ d - i \in 0 .. (d - 1) /\ f[d - i] \in EntryIds(st)
              /\ b[i] \in Mutations /\ b[i].kind = "entry" /\ b[i].id = f[d - i]
              /\ b[i] = EntryOf(st, f[d - i])
              /\ b[i].parentId = IF i = 1 THEN Null ELSE f[d - (i - 1)]
  <2>1. d - i \in 0 .. (d - 1) /\ d - i \in 0 .. N
    BY <1>9
  <2>2. f[d - i] \in EntryIds(st) /\ f[d - i] # Null
    BY <1>9, <2>1
  <2>3. b[i] = EntryOf(st, f[d - i])
    BY <1>12
  <2>4. b[i] \in Mutations /\ b[i].kind = "entry" /\ b[i].id = f[d - i]
    BY <2>2, <2>3, Found, SMTT(30)
  <2>5. d - (i - 1) \in 1 .. N /\ (d - (i - 1)) - 1 = d - i /\ (i = 1 => d - (i - 1) = d)
    BY <1>0, <1>9
  <2>6. f[d - (i - 1)] = EntryOf(st, f[d - i]).parentId
    BY <1>1, <2>2, <2>5, ZenonT(30) DEF Climbs
  <2> QED BY <1>8, <2>1, <2>2, <2>3, <2>4, <2>5, <2>6, ZenonT(30)
<1>14. b \in Seq(Mutations) /\ Len(b) = d
  <2>1. b \in [1 .. d -> Mutations]
    BY <1>12, <1>13, Zenon
  <2> QED BY <1>9, <2>1
<1>15. ASSUME NEW i \in 1 .. d, NEW j \in 1 .. (i - 1) PROVE b[j].id # b[i].id
  <2>1. j \in 1 .. d /\ d - i \in 0 .. (d - 1) /\ d - j \in 0 .. (d - 1) /\ d - i \in 0 .. ((d - j) - 1)
    BY <1>9
  <2>2. Fits(d - j)
    <3> HIDE DEF Fits
    <3> QED BY <1>9, <2>1
  <2>3. P(d - j) < P(d - i) /\ P(d - j) \in 1 .. N
    BY <1>3, <1>9, <2>1, <2>2
  <2>4. b[j].id = f[d - j] /\ b[i].id = f[d - i]
    BY <1>13, <2>1, ZenonT(30)
  <2>5. ~(P(d - j) < P(d - j))
    BY <2>3
  <2> QED BY <2>3, <2>4, <2>5, Zenon
<1>16. ASSUME NEW i \in 1 .. d PROVE b[i].parentId = IF i = 1 THEN Null ELSE b[i - 1].id
  <2>1. CASE i = 1
    BY <1>13, <2>1, Zenon
  <2>2. CASE i # 1
    <3>1. i - 1 \in 1 .. d
      BY <1>9, <2>2
    <3> QED BY <1>13, <2>2, <3>1
  <2> QED BY <2>1, <2>2
<1>17. Rooted(b)
  <2>1. ASSUME NEW i \in 1 .. d, b[i].parentId # Null PROVE \E j \in 1 .. (i - 1) : b[j].id = b[i].parentId
    <3>1. i # 1
      BY <1>16, <2>1
    <3>2. i - 1 \in 1 .. (i - 1) /\ b[i].parentId = b[i - 1].id
      BY <1>9, <1>16, <3>1, SMTT(30)
    <3> QED BY <3>2
  <2>2. DOMAIN b = 1 .. d
    BY <1>14
  <2> QED BY <1>13, <1>15, <2>1, <2>2, Zenon DEF Rooted
<1>18. d >= 1 /\ b[d].id = id
  <2>1. d \in 1 .. d /\ d - d = 0 /\ d >= 1
    BY <1>9
  <2>2. b[d].id = f[d - d]
    BY <1>13, <2>1, ZenonT(30)
  <2> QED BY <1>1, <2>1, <2>2, Zenon DEF Climbs
<1>19. \A i \in 1 .. d : EntryOf(st, b[i].id) = b[i] /\ b[i].id \in EntryIds(st)
  BY <1>13, Zenon
<1>20. Path(b, st, id)
  BY <1>14, <1>16, <1>17, <1>18, <1>19, ZenonT(30) DEF Path
<1> QED BY <1>20 DEF b
-----------------------------------------------------------------------------
(* What a fork of either scope copies.                                     *)

LEMMA LaneMutationFacts ==
  ASSUME NEW lane \in Lanes, NEW leaf \in Ids \cup {Null}
  PROVE  LET m == LaneMutation(0, lane, leaf) IN
         m \in Mutations /\ m.kind = "lane" /\ m.lane = lane /\ m.leafId = leaf
  BY Zenon DEF LaneMutation, Mutations, MutationsAt

LEMMA StateFacts ==
  ASSUME NEW st \in States
  PROVE  /\ st.entries \in Seq(Mutations) /\ Len(st.entries) \in Nat /\ DOMAIN st.entries = 1 .. Len(st.entries)
         /\ DOMAIN st.lanes \subseteq Lanes /\ st.lanes \in [DOMAIN st.lanes -> Ids \cup {Null}]
         /\ st.labels \in [DOMAIN st.labels -> Labels]
  BY DEF States

Tree == [scope |-> "tree"]
TreeLanes(lanes, st) ==
  /\ \A i \in 1 .. Len(lanes) : lanes[i].lane \in DOMAIN st.lanes /\ lanes[i].leafId = st.lanes[lanes[i].lane]
  /\ \A lane \in DOMAIN st.lanes : \E i \in 1 .. Len(lanes) : lanes[i].lane = lane

LEMMA TreeFits ==
  ASSUME Counted, NEW st \in States, Sane(st)
  PROVE  /\ Copied(st, Tree) = st.entries /\ LanesFit(ForkLanes(st, Tree), st.entries)
         /\ TreeLanes(ForkLanes(st, Tree), st)
<1> DEFINE order == LaneOrder(st)
           lanes == ForkLanes(st, Tree)
           k == Cardinality(DOMAIN st.lanes)
           e == st.entries
<1>0. Tree.scope = "tree" /\ Copied(st, Tree) = st.entries
  BY Zenon DEF Tree, Copied
<1>1. /\ k \in Nat /\ order \in [1 .. k -> DOMAIN st.lanes]
      /\ \A lane \in DOMAIN st.lanes : \E i \in 1 .. k : order[i] = lane
  BY LaneOrderFacts, Zenon DEF Sane
<1>2. lanes = [i \in 1 .. k |-> LaneMutation(0, order[i], st.lanes[order[i]])]
  <2>1. lanes = [i \in DOMAIN order |-> LaneMutation(0, order[i], st.lanes[order[i]])]
    BY <1>0, Zenon DEF ForkLanes
  <2>2. DOMAIN order = 1 .. k
    BY <1>1
  <2> HIDE DEF lanes, order, k
  <2> QED BY <2>1, <2>2
<1> HIDE DEF lanes, order, k
<1>3. ASSUME NEW i \in 1 .. k
      PROVE  /\ order[i] \in DOMAIN st.lanes /\ lanes[i] \in Mutations /\ lanes[i].kind = "lane"
             /\ lanes[i].lane = order[i] /\ lanes[i].leafId = st.lanes[order[i]]
  <2>1. order[i] \in DOMAIN st.lanes
    BY <1>1
  <2>2. order[i] \in Lanes /\ st.lanes[order[i]] \in Ids \cup {Null}
    BY <2>1, StateFacts
  <2>3. lanes[i] = LaneMutation(0, order[i], st.lanes[order[i]])
    BY <1>2, Zenon
  <2> QED BY <2>1, <2>2, <2>3, LaneMutationFacts, SMTT(30)
<1>4. lanes \in Seq(Mutations) /\ Len(lanes) = k
  <2>1. lanes \in [1 .. k -> Mutations]
    BY <1>2, <1>3
  <2> QED BY <1>1, <2>1
<1>5. ASSUME NEW i \in 1 .. k
      PROVE  lanes[i].leafId = Null \/ \E j \in 1 .. Len(e) : e[j].id = lanes[i].leafId
  <2>1. lanes[i].leafId = Null \/ lanes[i].leafId \in EntryIds(st)
    BY <1>3 DEF Sane, LeavesExist, IsTarget
  <2>2. EntryIds(st) = {e[j].id : j \in 1 .. Len(e)}
    BY StateFacts, Zenon DEF EntryIds
  <2> QED BY <2>1, <2>2
<1>6. LanesFit(lanes, e)
  BY <1>3, <1>4, <1>5 DEF LanesFit
<1>7. TreeLanes(lanes, st)
  BY <1>1, <1>3, <1>4 DEF TreeLanes
<1> QED BY <1>0, <1>6, <1>7 DEF lanes

LEMMA OptionFacts ==
  ASSUME NEW st \in States, Sane(st), NEW options \in ForkOptions(st)
  PROVE  \/ options = Tree
         \/ options.scope = "branch" /\ options.target \in EntryIds(st) \cup {Null}
<1>1. CASE options \in {[scope |-> "tree"]}
  BY <1>1 DEF Tree
<1>2. CASE options = [scope |-> "branch", target |-> st.lanes[Main]]
  <2>1. st.lanes[Main] \in EntryIds(st) \cup {Null}
    BY DEF Sane, LeavesExist, IsTarget
  <2> QED BY <1>2, <2>1
<1>3. ASSUME NEW i \in DOMAIN st.entries, NEW t, t \in {st.entries[i].id, st.entries[i].parentId},
             options = [scope |-> "branch", target |-> t]
      PROVE  options.scope = "branch" /\ options.target \in EntryIds(st) \cup {Null}
  <2> DEFINE e == st.entries
  <2>0. i \in 1 .. Len(e) /\ \A j \in 1 .. (i - 1) : j \in DOMAIN e
    BY StateFacts
  <2>1. e[i].id \in EntryIds(st) /\ \A j \in 1 .. (i - 1) : e[j].id \in EntryIds(st)
    BY <2>0 DEF EntryIds
  <2>2. e[i].parentId \in EntryIds(st) \cup {Null}
    BY <2>1, ZenonT(30) DEF Sane, Rooted
  <2> QED BY <1>3, <2>1, <2>2, ZenonT(30)
<1>4. ASSUME NEW m \in {st.entries[i] : i \in {j \in DOMAIN st.entries : st.entries[j].type = "message"}},
             options \in {[scope |-> "branch", target |-> m.id], [scope |-> "branch", target |-> m.parentId]}
      PROVE  options.scope = "branch" /\ options.target \in EntryIds(st) \cup {Null}
  <2>1. PICK i \in DOMAIN st.entries : m = st.entries[i]
    BY <1>4, Zenon
  <2>2. PICK t \in {m.id, m.parentId} : options = [scope |-> "branch", target |-> t]
    BY <1>4
  <2> QED BY <1>3, <2>1, <2>2
<1> QED BY <1>1, <1>2, <1>4, Zenon DEF ForkOptions

LEMMA BranchFits ==
  ASSUME WellOrdered, Counted, NEW st \in States, Sane(st), NEW options, options.scope = "branch",
         options.target \in EntryIds(st) \cup {Null}
  PROVE  LET copied == Copied(st, options)
             lanes == ForkLanes(st, options)
         IN /\ copied \in Seq(Mutations) /\ Rooted(copied) /\ LanesFit(lanes, copied)
            /\ Len(lanes) = 1 /\ lanes[1].lane = Main /\ lanes[1].leafId = options.target
            /\ IF options.target = Null THEN copied = <<>> ELSE Path(copied, st, options.target)
<1> DEFINE copied == Copied(st, options)
           lanes == ForkLanes(st, options)
           t == options.target
           m == LaneMutation(0, Main, t)
<1>1. copied = (IF t = Null THEN <<>> ELSE BranchTo(st, t)) /\ lanes = <<m>>
  BY Zenon DEF Copied, ForkLanes
<1>2. t \in Ids \cup {Null}
  <2>1. ASSUME NEW i \in DOMAIN st.entries PROVE st.entries[i].id \in Ids
    <3>1. st.entries[i] \in Mutations /\ st.entries[i].kind = "entry"
      BY StateFacts, SMTT(30) DEF Sane, Rooted
    <3> QED BY <3>1, KindFacts, Zenon
  <2> QED BY <2>1 DEF EntryIds
<1>3. m \in Mutations /\ m.kind = "lane" /\ m.lane = Main /\ m.leafId = t
  BY <1>2, LaneMutationFacts, SessionAssumption
<1>4. IF t = Null THEN copied = <<>> ELSE Path(copied, st, t)
  BY <1>1, BranchIsPath
<1> HIDE DEF m, copied, lanes, t
<1>5. lanes \in Seq(Mutations) /\ Len(lanes) = 1 /\ lanes[1] = m
  BY <1>1, <1>3, SMTT(30)
<1>6. copied \in Seq(Mutations) /\ Rooted(copied)
  <2>1. CASE t = Null
    <3>1. copied = <<>> /\ DOMAIN copied = {}
      BY <1>4, <2>1
    <3> QED BY <3>1 DEF Rooted
  <2>2. CASE t # Null
    BY <1>4, <2>2 DEF Path
  <2> QED BY <2>1, <2>2
<1>7. t = Null \/ \E j \in 1 .. Len(copied) : copied[j].id = t
  <2>1. ASSUME t # Null PROVE Len(copied) \in 1 .. Len(copied) /\ copied[Len(copied)].id = t
    BY <1>4, <2>1 DEF Path
  <2> QED BY <2>1
<1>8. LanesFit(lanes, copied)
  BY <1>3, <1>5, <1>7, SMTT(30) DEF LanesFit
<1>9. lanes[1].lane = Main /\ lanes[1].leafId = t
  BY <1>3, <1>5
<1> QED BY <1>4, <1>5, <1>6, <1>8, <1>9, Zenon DEF copied, lanes, t

\* The fork that a scope makes can be loaded and copies what the scope says.
LEMMA ForkCopies ==
  ASSUME WellOrdered, Counted, NEW st \in States, NEW options, NEW copied, copied = Copied(st, options), copied \in Seq(Mutations),
         Rooted(copied), LanesFit(ForkLanes(st, options), copied)
  PROVE  LET load == Replay(CreateForkMutations(st, options)) IN
         load.ok /\ Copies(load.st, copied, ForkLanes(st, options), st)
<1> DEFINE lines == CreateForkMutations(st, options)
           lanes == ForkLanes(st, options)
<1>1. ForkFacts(lines, copied, lanes, st)
  BY ForkLines
<1> HIDE DEF lines, lanes
<1>2. LanesFit(lanes, copied)
  BY DEF lanes
<1>3. Replay(lines).ok /\ Copies(Replay(lines).st, copied, lanes, st)
  BY <1>1, <1>2, ForkLoads
<1> QED BY <1>3 DEF lines, lanes

LEMMA TreeCopy ==
  ASSUME WellOrdered, Counted, NEW st \in States, Sane(st)
  PROVE  LET load == Replay(CreateForkMutations(st, Tree))
             copy == load.st
         IN /\ load.ok
            /\ Len(copy.entries) = Len(st.entries)
            /\ \A i \in DOMAIN st.entries : Content(copy.entries[i]) = Content(st.entries[i])
            /\ copy.lanes = st.lanes /\ copy.name = st.name /\ copy.labels = st.labels
<1> DEFINE lanes == ForkLanes(st, Tree)
           load == Replay(CreateForkMutations(st, Tree))
           copy == load.st
           e == st.entries
           ids == {e[i].id : i \in 1 .. Len(e)}
<1>1. Copied(st, Tree) = e /\ LanesFit(lanes, e) /\ TreeLanes(lanes, st)
  BY TreeFits
<1>2. e \in Seq(Mutations) /\ DOMAIN e = 1 .. Len(e) /\ Rooted(e) /\ EntryIds(st) = ids
  BY StateFacts, Zenon DEF Sane, EntryIds
<1>3. load.ok /\ Copies(copy, e, lanes, st)
  <2> HIDE DEF e
  <2> QED BY <1>1, <1>2, ForkCopies, Zenon
<1> HIDE DEF lanes, load
<1>4. /\ copy \in States /\ Len(copy.entries) = Len(e)
      /\ \A i \in 1 .. Len(e) : /\ copy.entries[i].id = e[i].id /\ copy.entries[i].parentId = e[i].parentId
                                /\ copy.entries[i].type = e[i].type
      /\ copy.name = st.name
  BY <1>3, Zenon DEF Copies
<1>5. /\ DOMAIN copy.lanes = {Main} \cup {lanes[i].lane : i \in 1 .. Len(lanes)}
      /\ \A i \in 1 .. Len(lanes) : \E j \in 1 .. Len(lanes) :
           lanes[j].lane = lanes[i].lane /\ copy.lanes[lanes[i].lane] = lanes[j].leafId
  BY <1>3, Zenon DEF Copies
<1>6. DOMAIN copy.labels = DOMAIN st.labels \cap ids /\ \A id \in DOMAIN copy.labels : copy.labels[id] = st.labels[id]
  BY <1>3, Zenon DEF Copies
<1> HIDE DEF copy, ids
<1>7. copy.lanes = st.lanes
  <2>1. DOMAIN copy.lanes = DOMAIN st.lanes
    <3>1. \A i \in 1 .. Len(lanes) : lanes[i].lane \in DOMAIN st.lanes
      BY <1>1 DEF TreeLanes
    <3>2. \A lane \in DOMAIN st.lanes : \E i \in 1 .. Len(lanes) : lanes[i].lane = lane
      BY <1>1, Zenon DEF TreeLanes
    <3>3. Main \in DOMAIN st.lanes
      BY DEF Sane
    <3>4. ASSUME NEW lane \in DOMAIN copy.lanes PROVE lane \in DOMAIN st.lanes
      BY <1>5, <3>1, <3>3
    <3>5. ASSUME NEW lane \in DOMAIN st.lanes PROVE lane \in DOMAIN copy.lanes
      BY <1>5, <3>2
    <3> QED BY <3>4, <3>5, Zenon
  <2>2. ASSUME NEW lane \in DOMAIN st.lanes PROVE copy.lanes[lane] = st.lanes[lane]
    <3>1. PICK i \in 1 .. Len(lanes) : lanes[i].lane = lane
      BY <1>1, Zenon DEF TreeLanes
    <3>2. PICK j \in 1 .. Len(lanes) : lanes[j].lane = lane /\ copy.lanes[lane] = lanes[j].leafId
      BY <1>5, <3>1
    <3> QED BY <1>1, <3>2, ZenonT(30) DEF TreeLanes
  <2>3. /\ copy.lanes \in [DOMAIN copy.lanes -> Ids \cup {Null}]
        /\ st.lanes \in [DOMAIN st.lanes -> Ids \cup {Null}]
    BY <1>4, StateFacts, ZenonT(30)
  <2> QED BY <2>1, <2>2, <2>3
<1>8. copy.labels = st.labels
  <2>1. DOMAIN copy.labels = DOMAIN st.labels
    BY <1>2, <1>6, Zenon DEF Sane
  <2>2. copy.labels \in [DOMAIN copy.labels -> Labels] /\ st.labels \in [DOMAIN st.labels -> Labels]
    BY <1>4, StateFacts, Zenon
  <2> QED BY <1>6, <2>1, <2>2
<1>9. \A i \in DOMAIN e : Content(copy.entries[i]) = Content(e[i])
  BY <1>2, <1>4, Zenon DEF Content
<1> HIDE DEF e
<1>10. load.ok
  BY <1>3
<1> QED BY <1>4, <1>7, <1>8, <1>9, <1>10, ZenonT(30) DEF copy, load, e

BranchCopied(load, st, target) ==
  LET copy == load.st
      ids == EntryIds(copy)
      ParentOf(id) == EntryOf(st, id).parentId
  IN /\ load.ok
     /\ copy.lanes = [lane \in {Main} |-> target]
     /\ target \in ids \cup {Null}
     /\ \A id \in ids : ParentOf(id) \in ids \cup {Null}
     /\ \A id \in ids \ {target} : \E child \in ids : ParentOf(child) = id
     /\ \A id \in DOMAIN copy.labels : copy.labels[id] = st.labels[id]
     /\ DOMAIN copy.labels = DOMAIN st.labels \cap ids

LEMMA BranchCopy ==
  ASSUME WellOrdered, Counted, NEW st \in States, Sane(st), NEW options, options.scope = "branch",
         options.target \in EntryIds(st) \cup {Null}
  PROVE  BranchCopied(Replay(CreateForkMutations(st, options)), st, options.target)
<1> DEFINE lanes == ForkLanes(st, options)
           b == Copied(st, options)
           load == Replay(CreateForkMutations(st, options))
           copy == load.st
           t == options.target
           ids == EntryIds(copy)
           Parent(id) == EntryOf(st, id).parentId
<1>1. /\ b \in Seq(Mutations) /\ Rooted(b) /\ LanesFit(lanes, b)
      /\ Len(lanes) = 1 /\ lanes[1].lane = Main /\ lanes[1].leafId = t
      /\ IF t = Null THEN b = <<>> ELSE Path(b, st, t)
  BY BranchFits, Zenon
<1>2. load.ok /\ Copies(copy, b, lanes, st)
  <2> HIDE DEF b
  <2> QED BY <1>1, ForkCopies, Zenon DEF b
<1> HIDE DEF lanes, load, b, t
<1>3. /\ copy \in States /\ ids = {b[i].id : i \in 1 .. Len(b)}
      /\ DOMAIN copy.labels = DOMAIN st.labels \cap ids
      /\ \A id \in DOMAIN copy.labels : copy.labels[id] = st.labels[id]
  BY <1>2, Zenon DEF Copies
<1>4. /\ DOMAIN copy.lanes = {Main} \cup {lanes[i].lane : i \in 1 .. Len(lanes)}
      /\ \A i \in 1 .. Len(lanes) : \E j \in 1 .. Len(lanes) :
           lanes[j].lane = lanes[i].lane /\ copy.lanes[lanes[i].lane] = lanes[j].leafId
  BY <1>2, Zenon DEF Copies
<1>5. load.ok
  BY <1>2
<1> HIDE DEF copy, ids
<1>6. copy.lanes = [lane \in {Main} |-> t]
  <2>1. 1 .. Len(lanes) = {1}
    BY <1>1
  <2>2. DOMAIN copy.lanes = {Main} /\ copy.lanes[Main] = t
    BY <1>1, <1>4, <2>1, Zenon
  <2>3. copy.lanes \in [DOMAIN copy.lanes -> Ids \cup {Null}]
    BY <1>3, StateFacts, Zenon
  <2> QED BY <2>2, <2>3
<1>7. /\ t \in ids \cup {Null}
      /\ \A id \in ids : Parent(id) \in ids \cup {Null}
      /\ \A id \in ids \ {t} : \E child \in ids : Parent(child) = id
  <2>1. CASE t = Null
    <3>1. b = <<>>
      BY <1>1, <2>1, ZenonT(30)
    <3>2. ids = {}
      BY <1>3, <3>1
    <3> QED BY <2>1, <3>2
  <2>2. CASE t # Null
    <3> DEFINE n == Len(b)
    <3>1. /\ n \in Nat /\ n >= 1 /\ b[n].id = t
          /\ \A i \in 1 .. n : EntryOf(st, b[i].id) = b[i] /\ b[i].parentId = IF i = 1 THEN Null ELSE b[i - 1].id
      BY <1>1, <2>2, SMTT(30) DEF Path
    <3>2. ids = {b[i].id : i \in 1 .. n}
      BY <1>3, ZenonT(30)
    <3> HIDE DEF n
    <3>3. \A i \in 1 .. n : Parent(b[i].id) = IF i = 1 THEN Null ELSE b[i - 1].id
      BY <3>1, Zenon
    <3> HIDE DEF Parent
    <3>4. n \in 1 .. n /\ t \in ids
      BY <3>1, <3>2
    <3>5. ASSUME NEW id \in ids PROVE Parent(id) \in ids \cup {Null}
      <4>1. PICK i \in 1 .. n : id = b[i].id
        BY <3>2
      <4>2. CASE i = 1
        BY <3>3, <4>1, <4>2
      <4>3. CASE i # 1
        <5>1. i - 1 \in 1 .. n
          BY <3>1, <4>3
        <5>2. b[i - 1].id \in ids
          BY <3>2, <5>1
        <5> QED BY <3>3, <4>1, <4>3, <5>2
      <4> QED BY <4>2, <4>3
    <3>6. ASSUME NEW id \in ids \ {t} PROVE \E child \in ids : Parent(child) = id
      <4>1. PICK i \in 1 .. n : id = b[i].id
        BY <3>2
      <4>2. i + 1 \in 1 .. n /\ i + 1 # 1 /\ (i + 1) - 1 = i
        <5>1. i # n
          BY <3>1, <3>6, <4>1
        <5> QED BY <3>1, <5>1
      <4>3. Parent(b[i + 1].id) = id /\ b[i + 1].id \in ids
        BY <3>2, <3>3, <4>1, <4>2, Zenon
      <4> QED BY <4>3
    <3> QED BY <3>4, <3>5, <3>6
  <2> QED BY <2>1, <2>2, ZenonT(30)
<1>8. BranchCopied(load, st, t)
  BY <1>3, <1>5, <1>6, <1>7, Zenon DEF BranchCopied, copy, ids
<1> QED BY <1>8 DEF load, t

LEMMA PlanIsSequence ==
  ASSUME WellOrdered, Counted, NEW st \in States, Sane(st), NEW options \in ForkOptions(st)
  PROVE  CreateForkMutations(st, options) \in Seq(Mutations)
<1>1. CASE options = Tree
  <2>1. Copied(st, options) = st.entries /\ LanesFit(ForkLanes(st, options), st.entries)
    BY <1>1, TreeFits
  <2>2. st.entries \in Seq(Mutations) /\ Rooted(st.entries)
    BY StateFacts, Zenon DEF Sane
  <2> QED BY <2>1, <2>2, ForkLines, SMTT(30) DEF ForkFacts
<1>2. CASE options.scope = "branch" /\ options.target \in EntryIds(st) \cup {Null}
  <2>1. /\ Copied(st, options) \in Seq(Mutations) /\ Rooted(Copied(st, options))
        /\ LanesFit(ForkLanes(st, options), Copied(st, options))
    BY <1>2, BranchFits, Zenon
  <2> QED BY <2>1, ForkLines, Zenon DEF ForkFacts
<1> QED BY <1>1, <1>2, OptionFacts
=============================================================================
