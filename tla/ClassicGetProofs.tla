---------------------------- MODULE ClassicGetProofs ----------------------------
(***************************************************************************)
(* What is read is what was inserted: proof for messages of any shape and  *)
(* size, any number of idents and any history of insertions and deletions  *)
(* (RoundTrip of ClassicStore).                                            *)
(*                                                                         *)
(* ClassicStoreProofs says what the tables hold.  Here each get function   *)
(* is given the rows of the insert function it is the counterpart of.      *)
(***************************************************************************)
EXTENDS ClassicStoreProofs, FiniteSetTheorems

-----------------------------------------------------------------------------
(***************************************************************************)
(* The rows of a list, in the order of _index                              *)
(***************************************************************************)

\* Rows numbered from 0.
FromZero(F, n) == \A k \in 1..n : F[k].i = k - 1

\* The first n of them are n rows.
LEMMA RowsCounted ==
  ASSUME NEW F, NEW n \in Nat, FromZero(F, n)
  PROVE  IsFiniteSet({F[k] : k \in 1..n}) /\ Cardinality({F[k] : k \in 1..n}) = n
<1> DEFINE G == [k \in 1..n |-> F[k]]
           T == {F[k] : k \in 1..n}
<1>1. \A j, k \in 1..n : G[j] = G[k] => j = k
  <2> SUFFICES ASSUME NEW j \in 1..n, NEW k \in 1..n, F[j] = F[k] PROVE j = k
    OBVIOUS
  <2>1. j - 1 = k - 1
    BY DEF FromZero
  <2> QED BY <2>1
<1>2. G \in Injection(1..n, T) /\ G \in Surjection(1..n, T)
  BY <1>1 DEF Injection, Surjection, IsInjective
<1>3. ExistsBijection(1..n, T)
  BY <1>2 DEF ExistsBijection, Bijection
<1>4. IsFiniteSet(1..n) /\ Cardinality(1..n) = n
  BY FS_Interval
<1> HIDE DEF T
<1>5. IsFiniteSet(T) /\ Cardinality(T) = n
  BY <1>3, <1>4, FS_Bijection
<1> QED BY <1>5 DEF T

\* The rows of S that the read functions look at.
Numbers(S, F, n) ==
  /\ \A r \in S : r.i # -1 => \E k \in 1..n : r = F[k]
  /\ \A k \in 1..n : F[k] \in S

\* Rows that are numbered from 0 come back in their order (ORDER BY _index ASC).
LEMMA OrderedRows ==
  ASSUME NEW S, NEW n \in Nat, NEW F, FromZero(F, n), Numbers(S, F, n)
  PROVE  Ordered(S) = [k \in 1..n |-> F[k]]
<1> DEFINE listed == {r \in S : r.i # -1}
           Rank(r) == Cardinality({q \in listed : q.i < r.i})
<1>0. listed = {F[k] : k \in 1..n}
  BY DEF Numbers, FromZero
<1>1. Cardinality(listed) = n
  BY <1>0, RowsCounted
<1>2. ASSUME NEW k \in 1..n PROVE F[k] \in listed /\ Rank(F[k]) = k - 1
  <2>1. {q \in listed : q.i < F[k].i} = {F[j] : j \in 1..(k - 1)}
    BY <1>0 DEF FromZero
  <2>2. k - 1 \in Nat /\ FromZero(F, k - 1)
    BY DEF FromZero
  <2>3. Cardinality({F[j] : j \in 1..(k - 1)}) = k - 1
    BY <2>2, RowsCounted
  <2>4. F[k] \in listed
    BY <1>0
  <2> QED BY <2>1, <2>3, <2>4
<1>3. ASSUME NEW r \in listed PROVE \E k \in 1..n : r = F[k]
  BY <1>0
<1> HIDE DEF listed
<1>4. ASSUME NEW k \in 1..n PROVE (CHOOSE r \in listed : Rank(r) = k - 1) = F[k]
  <2>1. \A r \in listed : Rank(r) = k - 1 => r = F[k]
    <3> SUFFICES ASSUME NEW r \in listed, Rank(r) = k - 1 PROVE r = F[k]
      OBVIOUS
    <3>1. PICK j \in 1..n : r = F[j]
      BY <1>3
    <3>2. j - 1 = k - 1
      BY <1>2, <3>1
    <3> QED BY <3>1, <3>2
  <2> QED BY <1>2, <2>1
<1>5. Ordered(S) = [k \in 1..Cardinality(listed) |-> CHOOSE r \in listed : Rank(r) = k - 1]
  BY DEF Ordered, listed
<1> QED BY <1>1, <1>4, <1>5

\* A list is the sequence of its elements.
LEMMA ListForm ==
  ASSUME NEW list, IsList(list)
  PROVE  /\ Len(list) \in Nat /\ DOMAIN list = 1..Len(list)
         /\ list = [k \in 1..Len(list) |-> list[k]]
  BY DEF IsList

\* The rows of a list, the copy at -1 left out.
Numbered(t, pt, id, p, list) == {Row(t, pt, id, p, k - 1, list[k].v) : k \in DOMAIN list}

\* The rows of S are those of the list.
Lists(S, t, pt, id, p, list) == {r \in S : r.i # -1} = Numbered(t, pt, id, p, list)

\* They come back in the order of the list.
LEMMA NumberedRows ==
  ASSUME NEW S, NEW t, NEW pt, NEW id, NEW p, NEW list, IsList(list),
         Lists(S, t, pt, id, p, list)
  PROVE  Ordered(S) = [k \in DOMAIN list |-> Row(t, pt, id, p, k - 1, list[k].v)]
<1> DEFINE n == Len(list)
           F == [k \in 1..n |-> Row(t, pt, id, p, k - 1, list[k].v)]
<1>1. n \in Nat /\ DOMAIN list = 1..n
  BY ListForm
<1>2. FromZero(F, n)
  BY RowFields DEF FromZero
<1>3. Numbers(S, F, n)
  BY <1>1 DEF Numbered, Lists, Numbers
<1>4. F = [k \in DOMAIN list |-> Row(t, pt, id, p, k - 1, list[k].v)]
  BY <1>1
<1> HIDE DEF F, n
<1>5. Ordered(S) = [k \in 1..n |-> F[k]]
  BY <1>1, <1>2, <1>3, OrderedRows
<1>6. F = [k \in 1..n |-> F[k]]
  BY <1>1 DEF F
<1> QED BY <1>4, <1>5, <1>6

\* Objects without children are read from the rows of their list.
LEMMA LeavesRead ==
  ASSUME NEW S, NEW t, NEW pt, NEW id, NEW p, NEW list, ListOf(IsLeaf, list),
         Lists(S, t, pt, id, p, list)
  PROVE  Leaves(S) = list
<1>1. IsList(list) /\ \A k \in DOMAIN list : list[k] = [v |-> list[k].v]
  BY DEF ListOf, IsLeaf
<1>2. Ordered(S) = [k \in DOMAIN list |-> Row(t, pt, id, p, k - 1, list[k].v)]
  BY <1>1, NumberedRows
<1>3. Leaves(S) = [k \in DOMAIN Ordered(S) |-> Leaf(Ordered(S)[k])]
  BY DEF Leaves, Each
<1>4. Leaves(S) = [k \in DOMAIN list |-> [v |-> list[k].v]]
  BY <1>2, <1>3 DEF Leaf, Row
<1>5. Leaves(S) = [k \in DOMAIN list |-> list[k]]
  BY <1>1, <1>4
<1> QED BY <1>1, <1>5, ListForm

\* A list of strings is read so too, unless fetch_field takes one of them for NULL.
LEMMA StringsRead ==
  ASSUME NEW S, NEW t, NEW pt, NEW id, NEW p, NEW list, ListOf(IsLeaf, list),
         Lists(S, t, pt, id, p, list),
         \A k \in DOMAIN list : ~(EmptyIsNull /\ list[k].v = Empty)
  PROVE  get_string_listed(S) = list
<1> DEFINE full == {r \in S : ~(EmptyIsNull /\ r.v = Empty)}
<1>1. \A r \in Numbered(t, pt, id, p, list) : ~(EmptyIsNull /\ r.v = Empty)
  BY DEF Numbered, Row
<1>2. Lists(full, t, pt, id, p, list)
  BY <1>1 DEF Lists
<1> HIDE DEF full
<1>3. Leaves(full) = list
  BY <1>2, LeavesRead
<1> QED BY <1>3 DEF full, get_string_listed

\* The row of an optional child.
Single(t, pt, id, p, x) == {Row(t, pt, id, p, NoIndex, x[k].v) : k \in DOMAIN x}

\* S is the one row of a child that is there, or none.
Present(S, x) == x = <<x[1]>> /\ DOMAIN x = {1} /\ S # {} /\ (CHOOSE r \in S : TRUE).v = x[1].v
Absent(S, x) == x = << >> /\ S = {}

\* The row is there, and is the first, if and only if the child is.
LEMMA OptionRead ==
  ASSUME NEW S, NEW x, IsOption(x), NEW t, NEW pt, NEW id, NEW p, S = Single(t, pt, id, p, x)
  PROVE  Absent(S, x) \/ Present(S, x)
<1>1. Len(x) \in {0, 1} /\ x \in Seq({x[k] : k \in DOMAIN x})
  <2>1. IsList(x) /\ Len(x) <= 1
    BY DEF IsOption
  <2>2. Len(x) \in Nat
    BY <2>1, ListForm
  <2>3. \A n \in Nat : n <= 1 => n \in {0, 1}
    OBVIOUS
  <2> QED BY <2>1, <2>2, <2>3 DEF IsList
<1>2. CASE Len(x) = 0
  <2>1. x = << >>
    BY <1>1, <1>2, EmptySeq
  <2> QED BY <2>1 DEF Single, Absent
<1>3. CASE Len(x) = 1
  <2>1. DOMAIN x = {1}
    BY <1>1, <1>3
  <2>2. x = <<x[1]>>
    BY <1>1, <1>3
  <2>3. S = {Row(t, pt, id, p, NoIndex, x[1].v)}
    BY <2>1 DEF Single
  <2>4. S # {} /\ (CHOOSE r \in S : TRUE) = Row(t, pt, id, p, NoIndex, x[1].v)
    BY <2>3
  <2>5. Row(t, pt, id, p, NoIndex, x[1].v).v = x[1].v
    BY DEF Row
  <2> QED BY <2>1, <2>2, <2>4, <2>5 DEF Present
<1> QED BY <1>1, <1>2, <1>3

\* An optional child without children of its own.
LEMMA LeafRead ==
  ASSUME NEW S, NEW x, OptionOf(IsLeaf, x), NEW t, NEW pt, NEW id, NEW p, S = Single(t, pt, id, p, x)
  PROVE  First(S, Leaf) = x
<1>1. IsOption(x) /\ \A k \in DOMAIN x : x[k] = [v |-> x[k].v]
  BY DEF OptionOf, IsLeaf
<1>2. Absent(S, x) \/ Present(S, x)
  BY <1>1, OptionRead
<1>3. First(S, Leaf) = IF S = {} THEN << >> ELSE <<[v |-> (CHOOSE r \in S : TRUE).v]>>
  BY DEF First, Leaf
<1> QED BY <1>1, <1>2, <1>3 DEF Absent, Present

-----------------------------------------------------------------------------
(***************************************************************************)
(* The rows of a part of a message among those that are read               *)
(***************************************************************************)

\* R and A have the same rows in the tables T, of parent type pt, below index j.
Agree(R, A, T, pt, id, j) ==
  \A r : r.t \in T /\ r.pt = pt /\ r.id = id /\ r.p[1] = j => (r \in R <=> r \in A)

\* A query on one of the tables finds the same.
LEMMA AgreeSelect ==
  ASSUME NEW R, NEW A, NEW T, NEW pt, NEW id, NEW j, Agree(R, A, T, pt, id, j), NEW t \in T, NEW p, p[1] = j
  PROVE  Select(R, t, pt, id, p) = Select(A, t, pt, id, p)
  BY DEF Agree, Select

\* The rows of a list with its copy at -1.
LEMMA LeafsListed ==
  ASSUME NEW t, NEW pt, NEW id, NEW p, NEW list, IsList(list)
  PROVE  Lists(Leafs(t, pt, id, p, list), t, pt, id, p, list)
<1>1. \A k \in DOMAIN list : k \in Nat \ {0} /\ k - 1 # -1 /\ (k - 1) + 1 = k
  BY ListForm
<1>2. ASSUME NEW r \in Leafs(t, pt, id, p, list), r.i # -1
      PROVE  r \in Numbered(t, pt, id, p, list)
  <2>1. PICK j \in Places(list) : r = Row(t, pt, id, p, j, At(list, j).v)
    BY DEF Leafs
  <2>2. j # -1
    BY <1>2, <2>1, RowFields
  <2>3. PICK k \in DOMAIN list : j = k - 1
    BY <2>2 DEF Places
  <2> QED BY <1>1, <2>1, <2>2, <2>3 DEF At, Numbered
<1>3. ASSUME NEW k \in DOMAIN list
      PROVE  /\ Row(t, pt, id, p, k - 1, list[k].v) \in Leafs(t, pt, id, p, list)
             /\ Row(t, pt, id, p, k - 1, list[k].v).i # -1
  <2>1. k - 1 \in Places(list) /\ At(list, k - 1) = list[k]
    BY ElementPlaces
  <2>2. Row(t, pt, id, p, k - 1, At(list, k - 1).v) \in Leafs(t, pt, id, p, list)
    BY <2>1 DEF Leafs
  <2> QED BY <1>1, <2>1, <2>2, RowFields
<1> QED BY <1>2, <1>3 DEF Lists, Numbered

\* The rows of a list without one.
LEMMA NumberedListed ==
  ASSUME NEW t, NEW pt, NEW id, NEW p, NEW list, IsList(list)
  PROVE  Lists(Numbered(t, pt, id, p, list), t, pt, id, p, list)
<1>1. \A k \in DOMAIN list : k \in Nat \ {0} /\ k - 1 # -1
  BY ListForm
<1>2. \A r \in Numbered(t, pt, id, p, list) : r.i # -1
  BY <1>1, RowFields DEF Numbered
<1> QED BY <1>2 DEF Lists

\* An element of a list, and its copy, have their rows.
LEMMA ListedLeafs ==
  ASSUME NEW t, NEW pt, NEW id, NEW p, NEW list, IsList(list)
  PROVE  (UNION {{Row(t, pt, id, p, k - 1, list[k].v)} : k \in DOMAIN list})
           \cup (IF list = << >> THEN {} ELSE {Row(t, pt, id, p, -1, list[Len(list)].v)})
         = Leafs(t, pt, id, p, list)
<1> DEFINE all == (UNION {{Row(t, pt, id, p, k - 1, list[k].v)} : k \in DOMAIN list})
                    \cup (IF list = << >> THEN {} ELSE {Row(t, pt, id, p, -1, list[Len(list)].v)})
<1>1. \A r \in all : \E j \in Places(list) : r = Row(t, pt, id, p, j, At(list, j).v)
  BY ElementPlaces
<1>2. ASSUME NEW j \in Places(list) PROVE Row(t, pt, id, p, j, At(list, j).v) \in all
  <2>1. CASE j = -1
    <3>1. list # << >>
      BY <2>1, ListForm DEF Places
    <3> QED BY <2>1, <3>1 DEF At
  <2>2. CASE j # -1
    <3>1. PICK k \in DOMAIN list : j = k - 1
      BY <2>2 DEF Places
    <3>2. At(list, j) = list[k]
      BY <3>1, ElementPlaces
    <3> QED BY <3>1, <3>2
  <2> QED BY <2>1, <2>2
<1> HIDE DEF all
<1>3. all = Leafs(t, pt, id, p, list)
  BY <1>1, <1>2 DEF Leafs
<1> QED BY <1>3 DEF all

\* What insert_node writes.
LEMMA NodeIs ==
  ASSUME NEW pt, NEW id, NEW j, NEW x, IsNode(x)
  PROVE  insert_node(pt, id, j, x) = {Row("node", pt, id, <<j>>, NoIndex, x.v)}
                                       \cup Leafs("address", pt, id, <<j>>, x.address)
<1>1. IsList(x.address)
  BY DEF IsNode, ListOf
<1> QED BY <1>1, ListedLeafs DEF insert_node, insert_address, Listed

\* get_node reads what insert_node wrote.
LEMMA NodeRead ==
  ASSUME NEW R, NEW pt, NEW id, NEW j, NEW x, OptionOf(IsNode, x),
         Agree(R, NodeOf(pt, id, j, x), NodeTables, pt, id, j)
  PROVE  get_node(R, id, pt, j) = x
<1> DEFINE A == NodeOf(pt, id, j, x)
           S == Select(R, "node", pt, id, <<j>>)
           L == Select(R, "address", pt, id, <<j>>)
<1>0. IsOption(x) /\ \A k \in DOMAIN x : IsNode(x[k])
  BY DEF OptionOf
<1>1. S = Select(A, "node", pt, id, <<j>>) /\ L = Select(A, "address", pt, id, <<j>>)
  BY AgreeSelect DEF NodeTables
<1>2. \A r : r \in A <=> \E k \in DOMAIN x :
                 r = Row("node", pt, id, <<j>>, NoIndex, x[k].v) \/ r \in Leafs("address", pt, id, <<j>>, x[k].address)
  BY <1>0, NodeIs DEF NodeOf, Optional
<1> HIDE DEF A
<1>3. S = Single("node", pt, id, <<j>>, x)
  BY <1>1, <1>2, RowFields, LeafRows DEF Select, Single
<1>4. ASSUME NEW k \in DOMAIN x PROVE L = Leafs("address", pt, id, <<j>>, x[k].address)
  <2>1. \A i \in DOMAIN x : i = k
    BY <1>0, OptionOnce
  <2> QED BY <1>1, <1>2, <2>1, RowFields, LeafRows DEF Select
<1> HIDE DEF S, L
<1>5. get_node(R, id, pt, j) = IF S = {} THEN << >> ELSE <<[v |-> (CHOOSE r \in S : TRUE).v, address |-> Leaves(L)]>>
  BY DEF get_node, First, get_address, S, L
<1>6. Absent(S, x) \/ Present(S, x)
  BY <1>0, <1>3, OptionRead
<1>7. CASE Absent(S, x)
  BY <1>5, <1>7 DEF Absent
<1>8. CASE Present(S, x)
  <2>1. ListOf(IsLeaf, x[1].address) /\ x[1] = [v |-> x[1].v, address |-> x[1].address]
    BY <1>0, <1>8 DEF IsNode, Present
  <2>2. Lists(L, "address", pt, id, <<j>>, x[1].address)
    BY <1>4, <1>8, <2>1, LeafsListed DEF ListOf, Present
  <2>3. Leaves(L) = x[1].address
    BY <2>1, <2>2, LeavesRead
  <2> QED BY <1>5, <1>8, <2>1, <2>3 DEF Present
<1> QED BY <1>6, <1>7, <1>8

\* What insert_user writes.
LEMMA UserIs ==
  ASSUME NEW pt, NEW id, NEW j, NEW x, IsUser(x)
  PROVE  insert_user(pt, id, j, x) = {Row("user", pt, id, <<j>>, NoIndex, x.v)}
                                       \cup Leafs("user_id", pt, id, <<j, 0, 0>>, x.user_id)
<1>1. IsList(x.user_id)
  BY DEF IsUser, ListOf
<1>2. Listed(LAMBDA k, y : insert_user_id(pt, id, j, 0, 0, k, y), x.user_id)
        = Leafs("user_id", pt, id, <<j, 0, 0>>, x.user_id)
  BY <1>1, ListedLeafs DEF insert_user_id, Listed
<1> QED BY <1>2 DEF insert_user

\* get_user reads what insert_user wrote.
LEMMA UserRead ==
  ASSUME NEW R, NEW pt, NEW id, NEW j, NEW x, OptionOf(IsUser, x),
         Agree(R, UserOf(pt, id, j, x), UserTables, pt, id, j)
  PROVE  get_user(R, id, pt, j) = x
<1> DEFINE A == UserOf(pt, id, j, x)
           S == Select(R, "user", pt, id, <<j>>)
           L == Select(R, "user_id", pt, id, <<j, 0, 0>>)
<1>0. IsOption(x) /\ \A k \in DOMAIN x : IsUser(x[k])
  BY DEF OptionOf
<1>1. S = Select(A, "user", pt, id, <<j>>) /\ L = Select(A, "user_id", pt, id, <<j, 0, 0>>)
  <2>1. <<j>>[1] = j /\ <<j, 0, 0>>[1] = j
    OBVIOUS
  <2> QED BY <2>1, AgreeSelect DEF UserTables
<1>2. \A r : r \in A <=> \E k \in DOMAIN x :
                 r = Row("user", pt, id, <<j>>, NoIndex, x[k].v) \/ r \in Leafs("user_id", pt, id, <<j, 0, 0>>, x[k].user_id)
  BY <1>0, UserIs DEF UserOf, Optional
<1> HIDE DEF A
<1>3. S = Single("user", pt, id, <<j>>, x)
  BY <1>1, <1>2, RowFields, LeafRows DEF Select, Single
<1>4. ASSUME NEW k \in DOMAIN x PROVE L = Leafs("user_id", pt, id, <<j, 0, 0>>, x[k].user_id)
  <2>1. \A i \in DOMAIN x : i = k
    BY <1>0, OptionOnce
  <2> QED BY <1>1, <1>2, <2>1, RowFields, LeafRows DEF Select
<1> HIDE DEF S, L
<1>5. get_user(R, id, pt, j) = IF S = {} THEN << >> ELSE <<[v |-> (CHOOSE r \in S : TRUE).v, user_id |-> Leaves(L)]>>
  BY DEF get_user, First, get_user_id, S, L
<1>6. Absent(S, x) \/ Present(S, x)
  BY <1>0, <1>3, OptionRead
<1>7. CASE Absent(S, x)
  BY <1>5, <1>7 DEF Absent
<1>8. CASE Present(S, x)
  <2>1. ListOf(IsLeaf, x[1].user_id) /\ x[1] = [v |-> x[1].v, user_id |-> x[1].user_id]
    BY <1>0, <1>8 DEF IsUser, Present
  <2>2. Lists(L, "user_id", pt, id, <<j, 0, 0>>, x[1].user_id)
    BY <1>4, <1>8, <2>1, LeafsListed DEF ListOf, Present
  <2>3. Leaves(L) = x[1].user_id
    BY <2>1, <2>2, LeavesRead
  <2> QED BY <1>5, <1>8, <2>1, <2>3 DEF Present
<1> QED BY <1>6, <1>7, <1>8

\* The tables of the lists of strings that _get_string_listed reads.
StringTables == {"process_arg", "process_env", "web_service_arg", "file_access_permission"}

\* None of the strings is taken for NULL.
StringsKept(R, pt) == \A r \in R : r.pt = pt /\ EmptyIsNull /\ r.v = Empty => r.t \notin StringTables

\* The arguments of a process are read by that process and by no other.
ArgsKept(R, pt) ==
  \A r, q \in R : r.t = "process_arg" /\ q.t = "process" /\ r.pt = pt /\ q.pt = pt =>
                    (AsChar(q.p[1]) = r.p[1] <=> q.p = r.p)

\* The strings of a list whose rows are in R.
LEMMA StringsInRows ==
  ASSUME NEW R, NEW S, NEW t \in StringTables, NEW pt, NEW id, NEW p, NEW list, ListOf(IsLeaf, list),
         S \subseteq R, StringsKept(R, pt), Lists(S, t, pt, id, p, list)
  PROVE  get_string_listed(S) = list
<1>1. ASSUME NEW k \in DOMAIN list PROVE ~(EmptyIsNull /\ list[k].v = Empty)
  <2> DEFINE r == Row(t, pt, id, p, k - 1, list[k].v)
  <2>1. r \in R
    BY DEF Lists, Numbered
  <2>2. r.t = t /\ r.pt = pt /\ r.v = list[k].v
    BY DEF Row
  <2> QED BY <2>1, <2>2 DEF StringsKept
<1> QED BY <1>1, StringsRead

\* What insert_process writes.
LEMMA ProcessIs ==
  ASSUME NEW pt, NEW id, NEW j, NEW x, IsProcess(x)
  PROVE  insert_process(pt, id, j, x) = {Row("process", pt, id, <<j>>, NoIndex, x.v)}
                                          \cup Numbered("process_arg", pt, id, <<j>>, x.arg)
                                          \cup Numbered("process_env", pt, id, <<j>>, x.env)
  BY DEF insert_process, insert_process_arg, insert_process_env, ListedOnce, Numbered

\* The rows of a list without a copy are in its table.
LEMMA NumberedIn ==
  ASSUME NEW t, NEW pt, NEW id, NEW p, NEW list
  PROVE  \A r \in Numbered(t, pt, id, p, list) : r.t = t /\ r.pt = pt /\ r.id = id /\ r.p = p
  BY RowFields DEF Numbered

\* get_process reads what insert_process wrote.
LEMMA ProcessRead ==
  ASSUME NEW R, NEW pt, NEW id, NEW j, NEW x, OptionOf(IsProcess, x),
         Agree(R, ProcessOf(pt, id, j, x), ProcessTables, pt, id, j), StringsKept(R, pt), ArgsKept(R, pt)
  PROVE  get_process(R, id, pt, j) = x
<1> DEFINE A == ProcessOf(pt, id, j, x)
           S == Select(R, "process", pt, id, <<j>>)
           L == Select(R, "process_arg", pt, id, <<j>>)
           E == Select(R, "process_env", pt, id, <<j>>)
           C == Select(R, "process_arg", pt, id, <<AsChar(j)>>)
<1>0. IsOption(x) /\ \A k \in DOMAIN x : IsProcess(x[k])
  BY DEF OptionOf
<1>1. /\ S = Select(A, "process", pt, id, <<j>>) /\ L = Select(A, "process_arg", pt, id, <<j>>)
      /\ E = Select(A, "process_env", pt, id, <<j>>)
  BY AgreeSelect DEF ProcessTables
<1>2. \A r : r \in A <=> \E k \in DOMAIN x :
                 \/ r = Row("process", pt, id, <<j>>, NoIndex, x[k].v)
                 \/ r \in Numbered("process_arg", pt, id, <<j>>, x[k].arg)
                 \/ r \in Numbered("process_env", pt, id, <<j>>, x[k].env)
  BY <1>0, ProcessIs DEF ProcessOf, Optional
<1> HIDE DEF A
<1>3. S = Single("process", pt, id, <<j>>, x)
  BY <1>1, <1>2, RowFields, NumberedIn DEF Select, Single
<1>4. ASSUME NEW k \in DOMAIN x
      PROVE  /\ L = Numbered("process_arg", pt, id, <<j>>, x[k].arg)
             /\ E = Numbered("process_env", pt, id, <<j>>, x[k].env)
  <2>1. \A i \in DOMAIN x : i = k
    BY <1>0, OptionOnce
  <2> QED BY <1>1, <1>2, <2>1, RowFields, NumberedIn DEF Select
<1>5. L \subseteq R /\ E \subseteq R
  BY DEF Select
<1>6. ASSUME NEW q \in S PROVE C = L
  <2>1. q \in R /\ q.t = "process" /\ q.pt = pt /\ q.p = <<j>> /\ q.p[1] = j
    BY DEF Select
  <2>2. ASSUME NEW r \in R, r.t = "process_arg", r.pt = pt, r.id = id, r.p = <<AsChar(j)>> PROVE r.p = <<j>>
    <3>1. r.p[1] = AsChar(j)
      BY <2>2
    <3> QED BY <2>1, <2>2, <3>1 DEF ArgsKept
  <2>3. ASSUME NEW r \in R, r.t = "process_arg", r.pt = pt, r.id = id, r.p = <<j>> PROVE r.p = <<AsChar(j)>>
    <3>1. r.p[1] = j
      BY <2>3
    <3>2. AsChar(j) = j
      BY <2>1, <2>3, <3>1 DEF ArgsKept
    <3> QED BY <2>3, <3>2
  <2> QED BY <2>2, <2>3 DEF Select
<1> HIDE DEF S, L, E, C
<1>7. get_process(R, id, pt, j) =
        IF S = {} THEN << >>
        ELSE <<[v |-> (CHOOSE r \in S : TRUE).v, arg |-> get_string_listed(C), env |-> get_string_listed(E)]>>
  BY DEF get_process, First, get_process_arg, get_process_env, S, C, E
<1>8. Absent(S, x) \/ Present(S, x)
  BY <1>0, <1>3, OptionRead
<1>9. CASE Absent(S, x)
  BY <1>7, <1>9 DEF Absent
<1>10. CASE Present(S, x)
  <2>1. /\ ListOf(IsLeaf, x[1].arg) /\ ListOf(IsLeaf, x[1].env)
        /\ x[1] = [v |-> x[1].v, arg |-> x[1].arg, env |-> x[1].env]
    BY <1>0, <1>10 DEF IsProcess, Present
  <2>2. Lists(L, "process_arg", pt, id, <<j>>, x[1].arg) /\ Lists(E, "process_env", pt, id, <<j>>, x[1].env)
    BY <1>4, <1>10, <2>1, NumberedListed DEF ListOf, Present
  <2>3. "process_arg" \in StringTables /\ "process_env" \in StringTables
    BY DEF StringTables
  <2>4. C = L
    BY <1>6, <1>10 DEF Present
  <2>5. get_string_listed(C) = x[1].arg
    BY <1>5, <2>1, <2>2, <2>3, <2>4, StringsInRows
  <2>6. get_string_listed(E) = x[1].env
    BY <1>5, <2>1, <2>2, <2>3, StringsInRows
  <2> QED BY <1>7, <1>10, <2>1, <2>5, <2>6 DEF Present
<1> QED BY <1>8, <1>9, <1>10

\* The rows of a web service among those of its service.
WebOf(pt, id, j, x) == Optional(LAMBDA y : insert_web_service(pt, id, j, y), x)
SnmpOf(pt, id, j, x) == Optional(LAMBDA y : insert_snmp_service(pt, id, j, y), x)
WebTables == {"web_service", "web_service_arg"}

\* What insert_web_service writes.
LEMMA WebIs ==
  ASSUME NEW pt, NEW id, NEW j, NEW x, IsWebService(x)
  PROVE  insert_web_service(pt, id, j, x) = {Row("web_service", pt, id, <<j>>, NoIndex, x.v)}
                                              \cup Leafs("web_service_arg", pt, id, <<j>>, x.arg)
<1>1. IsList(x.arg)
  BY DEF IsWebService, ListOf
<1> QED BY <1>1, ListedLeafs DEF insert_web_service, insert_web_service_arg, Listed

\* get_web_service reads what insert_web_service wrote.
LEMMA WebRead ==
  ASSUME NEW R, NEW pt, NEW id, NEW j, NEW x, OptionOf(IsWebService, x),
         Agree(R, WebOf(pt, id, j, x), WebTables, pt, id, j), StringsKept(R, pt)
  PROVE  get_web_service(R, id, pt, j) = x
<1> DEFINE A == WebOf(pt, id, j, x)
           S == Select(R, "web_service", pt, id, <<j>>)
           L == Select(R, "web_service_arg", pt, id, <<j>>)
<1>0. IsOption(x) /\ \A k \in DOMAIN x : IsWebService(x[k])
  BY DEF OptionOf
<1>1. S = Select(A, "web_service", pt, id, <<j>>) /\ L = Select(A, "web_service_arg", pt, id, <<j>>)
  BY AgreeSelect DEF WebTables
<1>2. \A r : r \in A <=> \E k \in DOMAIN x :
                 \/ r = Row("web_service", pt, id, <<j>>, NoIndex, x[k].v)
                 \/ r \in Leafs("web_service_arg", pt, id, <<j>>, x[k].arg)
  BY <1>0, WebIs DEF WebOf, Optional
<1> HIDE DEF A
<1>3. S = Single("web_service", pt, id, <<j>>, x)
  BY <1>1, <1>2, RowFields, LeafRows DEF Select, Single
<1>4. ASSUME NEW k \in DOMAIN x PROVE L = Leafs("web_service_arg", pt, id, <<j>>, x[k].arg)
  <2>1. \A i \in DOMAIN x : i = k
    BY <1>0, OptionOnce
  <2> QED BY <1>1, <1>2, <2>1, RowFields, LeafRows DEF Select
<1>a. L \subseteq R
  BY DEF Select
<1> HIDE DEF S, L
<1>5. get_web_service(R, id, pt, j) =
        IF S = {} THEN << >> ELSE <<[v |-> (CHOOSE r \in S : TRUE).v, arg |-> get_string_listed(L)]>>
  BY DEF get_web_service, First, get_web_service_arg, S, L
<1>6. Absent(S, x) \/ Present(S, x)
  BY <1>0, <1>3, OptionRead
<1>7. CASE Absent(S, x)
  BY <1>5, <1>7 DEF Absent
<1>8. CASE Present(S, x)
  <2>1. ListOf(IsLeaf, x[1].arg) /\ x[1] = [v |-> x[1].v, arg |-> x[1].arg]
    BY <1>0, <1>8 DEF IsWebService, Present
  <2>2. Lists(L, "web_service_arg", pt, id, <<j>>, x[1].arg)
    BY <1>4, <1>8, <2>1, LeafsListed DEF ListOf, Present
  <2>3. get_string_listed(L) = x[1].arg
    BY <1>a, <2>1, <2>2, StringsInRows DEF StringTables
  <2> QED BY <1>5, <1>8, <2>1, <2>3 DEF Present
<1> QED BY <1>6, <1>7, <1>8

\* get_snmp_service reads what insert_snmp_service wrote.
LEMMA SnmpRead ==
  ASSUME NEW R, NEW pt, NEW id, NEW j, NEW x, OptionOf(IsLeaf, x),
         Agree(R, SnmpOf(pt, id, j, x), {"snmp_service"}, pt, id, j)
  PROVE  get_snmp_service(R, id, pt, j) = x
<1>1. Select(R, "snmp_service", pt, id, <<j>>) = Select(SnmpOf(pt, id, j, x), "snmp_service", pt, id, <<j>>)
  BY AgreeSelect
<1>2. \A r : r \in SnmpOf(pt, id, j, x) <=> \E k \in DOMAIN x : r = Row("snmp_service", pt, id, <<j>>, NoIndex, x[k].v)
  BY DEF SnmpOf, Optional, insert_snmp_service
<1>3. Select(R, "snmp_service", pt, id, <<j>>) = Single("snmp_service", pt, id, <<j>>, x)
  BY <1>1, <1>2, RowFields DEF Select, Single
<1> QED BY <1>3, LeafRead DEF get_snmp_service

\* get_service reads what insert_service wrote.
LEMMA ServiceRead ==
  ASSUME NEW R, NEW pt, NEW id, NEW j, NEW x, OptionOf(IsService, x),
         Agree(R, ServiceOf(pt, id, j, x), ServiceTables, pt, id, j), StringsKept(R, pt)
  PROVE  get_service(R, id, pt, j) = x
<1> DEFINE A == ServiceOf(pt, id, j, x)
           S == Select(R, "service", pt, id, <<j>>)
<1>0. IsOption(x) /\ \A k \in DOMAIN x : IsService(x[k])
  BY DEF OptionOf
<1>1. S = Select(A, "service", pt, id, <<j>>)
  BY AgreeSelect DEF ServiceTables
<1>2. \A r : r \in A <=> \E k \in DOMAIN x :
                 \/ r = Row("service", pt, id, <<j>>, NoIndex, x[k].v)
                 \/ r \in WebOf(pt, id, j, x[k].web_service)
                 \/ r \in SnmpOf(pt, id, j, x[k].snmp_service)
  BY DEF ServiceOf, Optional, insert_service, WebOf, SnmpOf
<1> HIDE DEF A
<1>3. ASSUME NEW k \in DOMAIN x
      PROVE  /\ \A r \in WebOf(pt, id, j, x[k].web_service) : r.t \in WebTables
             /\ \A r \in SnmpOf(pt, id, j, x[k].snmp_service) : r.t = "snmp_service"
  <2>1. \A i \in DOMAIN x[k].web_service : IsList(x[k].web_service[i].arg)
    BY <1>0 DEF IsService, IsWebService, OptionOf, ListOf
  <2>2. \A r \in WebOf(pt, id, j, x[k].web_service) : r.t \in WebTables
    BY <2>1, WebRows DEF WebOf, Optional, WebTables
  <2>3. \A r \in SnmpOf(pt, id, j, x[k].snmp_service) : r.t = "snmp_service"
    BY RowFields DEF SnmpOf, Optional, insert_snmp_service
  <2> QED BY <2>2, <2>3
<1>4. S = Single("service", pt, id, <<j>>, x)
  <2>1. \A r \in A : r.t = "service" => \E k \in DOMAIN x : r = Row("service", pt, id, <<j>>, NoIndex, x[k].v)
    BY <1>2, <1>3 DEF WebTables
  <2> QED BY <1>1, <1>2, <2>1, RowFields DEF Select, Single
<1>5. ASSUME NEW k \in DOMAIN x
      PROVE  /\ Agree(R, WebOf(pt, id, j, x[k].web_service), WebTables, pt, id, j)
             /\ Agree(R, SnmpOf(pt, id, j, x[k].snmp_service), {"snmp_service"}, pt, id, j)
  <2>1. \A i \in DOMAIN x : i = k
    BY <1>0, OptionOnce
  <2>2. \A r : r.t \in WebTables => (r \in A <=> r \in WebOf(pt, id, j, x[k].web_service))
    BY <1>2, <1>3, <2>1, RowFields DEF WebTables
  <2>3. \A r : r.t = "snmp_service" => (r \in A <=> r \in SnmpOf(pt, id, j, x[k].snmp_service))
    BY <1>2, <1>3, <2>1, RowFields DEF WebTables
  <2>4. \A t \in WebTables \cup {"snmp_service"} : t \in ServiceTables
    BY DEF WebTables, ServiceTables
  <2> QED BY <2>2, <2>3, <2>4 DEF Agree, A
<1> HIDE DEF S
<1>6. get_service(R, id, pt, j) =
        IF S = {} THEN << >>
        ELSE <<[v |-> (CHOOSE r \in S : TRUE).v, web_service |-> get_web_service(R, id, pt, j),
                snmp_service |-> get_snmp_service(R, id, pt, j)]>>
  BY DEF get_service, First, S
<1>7. Absent(S, x) \/ Present(S, x)
  BY <1>0, <1>4, OptionRead
<1>8. CASE Absent(S, x)
  BY <1>6, <1>8 DEF Absent
<1>9. CASE Present(S, x)
  <2>1. /\ OptionOf(IsWebService, x[1].web_service) /\ OptionOf(IsLeaf, x[1].snmp_service)
        /\ x[1] = [v |-> x[1].v, web_service |-> x[1].web_service, snmp_service |-> x[1].snmp_service]
    BY <1>0, <1>9 DEF IsService, Present
  <2>2. get_web_service(R, id, pt, j) = x[1].web_service
    BY <1>5, <1>9, <2>1, WebRead DEF Present
  <2>3. get_snmp_service(R, id, pt, j) = x[1].snmp_service
    BY <1>5, <1>9, <2>1, SnmpRead DEF Present
  <2> QED BY <1>6, <1>9, <2>1, <2>2, <2>3 DEF Present
<1> QED BY <1>7, <1>8, <1>9

-----------------------------------------------------------------------------
(***************************************************************************)
(* Analyzers and sources                                                   *)
(***************************************************************************)

\* R and A have the same rows in the tables T, of parent type pt.
Agrees(R, A, T, pt, id) ==
  \A r : r.t \in T /\ r.pt = pt /\ r.id = id => (r \in R <=> r \in A)

\* The places of a list: the copy at -1 is none of those that are read.
LEMMA PlaceElement ==
  ASSUME NEW list, IsList(list), NEW j \in Places(list), j # -1
  PROVE  j + 1 \in DOMAIN list /\ (j + 1) - 1 = j /\ At(list, j) = list[j + 1]
<1>1. PICK k \in DOMAIN list : j = k - 1
  BY DEF Places
<1>2. k \in Nat
  BY <1>1, ListForm
<1> QED BY <1>1, <1>2 DEF At

\* Rows of the elements of a list, with the index of the element.
LEMMA ElementRows ==
  ASSUME NEW R, NEW t, NEW pt, NEW id, NEW p, NEW list, IsList(list),
         \A r \in R : r.i # -1 => \E j \in Places(list) : r = Row(t, pt, id, p, j, At(list, j).v),
         \A k \in DOMAIN list : Row(t, pt, id, p, k - 1, list[k].v) \in R
  PROVE  Lists(R, t, pt, id, p, list)
<1>1. ASSUME NEW r \in R, r.i # -1 PROVE r \in Numbered(t, pt, id, p, list)
  <2>1. PICK j \in Places(list) : r = Row(t, pt, id, p, j, At(list, j).v)
    BY <1>1
  <2>2. j # -1
    BY <1>1, <2>1, RowFields
  <2>3. j + 1 \in DOMAIN list /\ (j + 1) - 1 = j /\ At(list, j) = list[j + 1]
    BY <2>2, PlaceElement
  <2>4. r = Row(t, pt, id, p, (j + 1) - 1, list[j + 1].v)
    BY <2>1, <2>3
  <2> QED BY <2>3, <2>4 DEF Numbered
<1>2. ASSUME NEW k \in DOMAIN list PROVE Row(t, pt, id, p, k - 1, list[k].v).i # -1
  <2>1. k \in Nat \ {0} /\ k - 1 # -1
    BY ListForm
  <2> QED BY <2>1, RowFields
<1> QED BY <1>1, <1>2 DEF Lists, Numbered

\* get_analyzer reads the analyzers of a message.
LEMMA AnalyzersRead ==
  ASSUME NEW R, NEW pt, NEW id, NEW list, ListOf(IsAnalyzer, list),
         Agrees(R, AnalyzersOf(pt, id, list), {"analyzer"} \cup AnalyzerTables, pt, id),
         StringsKept(R, pt), ArgsKept(R, pt)
  PROVE  get_analyzer(R, id, pt) = list
<1> DEFINE A == AnalyzersOf(pt, id, list)
           S == Select(R, "analyzer", pt, id, << >>)
<1>0. IsList(list) /\ \A k \in DOMAIN list : IsAnalyzer(list[k])
  BY DEF ListOf
<1>1. \A r \in A : \E j \in Places(list) : r \in insert_analyzer(pt, id, j, At(list, j))
  BY <1>0, ElementPlaces DEF Listed, AnalyzersOf
<1>2. \A k \in DOMAIN list : insert_analyzer(pt, id, k - 1, list[k]) \subseteq A
  BY DEF Listed, AnalyzersOf
<1>3. \A j \in Places(list) : IsAnalyzer(At(list, j))
  BY <1>0, AtPlace
<1>4. "analyzer" \notin AnalyzerTables
  BY DEF AnalyzerTables, NodeTables, ProcessTables
<1> HIDE DEF A
<1>5. \A j, x : IsAnalyzer(x) =>
        /\ Below(NodeOf(pt, id, j, x.node), NodeTables, pt, id, j)
        /\ Below(ProcessOf(pt, id, j, x.process), ProcessTables, pt, id, j)
  BY PartRows DEF IsAnalyzer, OptionOf
<1>6. \A j, x : insert_analyzer(pt, id, j, x) = {Row("analyzer", pt, id, << >>, j, x.v)}
                  \cup NodeOf(pt, id, j, x.node) \cup ProcessOf(pt, id, j, x.process)
  BY DEF insert_analyzer, NodeOf, ProcessOf
<1>7. Lists(S, "analyzer", pt, id, << >>, list)
  <2>1. \A r \in S : \E j \in Places(list) : r = Row("analyzer", pt, id, << >>, j, At(list, j).v)
    <3> SUFFICES ASSUME NEW r \in S PROVE \E j \in Places(list) : r = Row("analyzer", pt, id, << >>, j, At(list, j).v)
      OBVIOUS
    <3>1. r \in A /\ r.t = "analyzer"
      BY DEF Select, Agrees, A
    <3>2. PICK j \in Places(list) : r \in insert_analyzer(pt, id, j, At(list, j))
      BY <1>1, <3>1
    <3> DEFINE x == At(list, j)
    <3>3. IsAnalyzer(x) /\ r \in insert_analyzer(pt, id, j, x)
      BY <1>3, <3>2
    <3> HIDE DEF x
    <3>4. r \notin NodeOf(pt, id, j, x.node) /\ r \notin ProcessOf(pt, id, j, x.process)
      <4>1. /\ \A q \in NodeOf(pt, id, j, x.node) : q.t \in NodeTables
            /\ \A q \in ProcessOf(pt, id, j, x.process) : q.t \in ProcessTables
        BY <1>5, <3>3 DEF Below
      <4> QED BY <1>4, <3>1, <4>1 DEF AnalyzerTables
    <3>5. r = Row("analyzer", pt, id, << >>, j, x.v)
      <4>1. insert_analyzer(pt, id, j, x) = {Row("analyzer", pt, id, << >>, j, x.v)}
              \cup NodeOf(pt, id, j, x.node) \cup ProcessOf(pt, id, j, x.process)
        BY <1>6
      <4> QED BY <3>3, <3>4, <4>1
    <3> QED BY <3>5 DEF x
  <2>2. ASSUME NEW k \in DOMAIN list PROVE Row("analyzer", pt, id, << >>, k - 1, list[k].v) \in S
    BY <1>2, <1>6, RowFields DEF Select, Agrees, A
  <2> QED BY <1>0, <2>1, <2>2, ElementRows
<1>8. ASSUME NEW k \in DOMAIN list
      PROVE  /\ Agree(R, NodeOf(pt, id, k - 1, list[k].node), NodeTables, pt, id, k - 1)
             /\ Agree(R, ProcessOf(pt, id, k - 1, list[k].process), ProcessTables, pt, id, k - 1)
  <2>1. ASSUME NEW r, r.t \in AnalyzerTables, r.pt = pt, r.id = id, r.p[1] = k - 1
        PROVE  r \in R <=> r \in insert_analyzer(pt, id, k - 1, list[k])
    <3>1. r \in R <=> r \in A
      BY <2>1 DEF Agrees, A
    <3>2. ASSUME r \in A PROVE r \in insert_analyzer(pt, id, k - 1, list[k])
      <4>1. PICK j \in Places(list) : r \in insert_analyzer(pt, id, j, At(list, j))
        BY <1>1, <3>2
      <4>2. r.p[1] = j
        BY <1>3, <1>4, <2>1, <4>1, AnalyzerRows
      <4>3. At(list, k - 1) = list[k]
        BY <1>0, ElementPlaces
      <4> QED BY <2>1, <4>1, <4>2, <4>3
    <3> QED BY <1>2, <3>1, <3>2
  <2>2. \A r : r.t \in AnalyzerTables =>
          (r \in insert_analyzer(pt, id, k - 1, list[k]) <=>
             r \in NodeOf(pt, id, k - 1, list[k].node) \/ r \in ProcessOf(pt, id, k - 1, list[k].process))
    BY <1>4, <1>6, RowFields
  <2>3. /\ \A r \in NodeOf(pt, id, k - 1, list[k].node) : r.t \in NodeTables
        /\ \A r \in ProcessOf(pt, id, k - 1, list[k].process) : r.t \in ProcessTables
    BY <1>0, <1>5 DEF Below
  <2>4. NodeTables \cap ProcessTables = {} /\ AnalyzerTables = NodeTables \cup ProcessTables
    BY DEF NodeTables, ProcessTables, AnalyzerTables
  <2> QED BY <2>1, <2>2, <2>3, <2>4 DEF Agree
<1>9. ASSUME NEW k \in DOMAIN list
      PROVE  [v |-> list[k].v, node |-> get_node(R, id, pt, k - 1), process |-> get_process(R, id, pt, k - 1)] = list[k]
  <2>1. /\ OptionOf(IsNode, list[k].node) /\ OptionOf(IsProcess, list[k].process)
        /\ list[k] = [v |-> list[k].v, node |-> list[k].node, process |-> list[k].process]
    BY <1>0 DEF IsAnalyzer
  <2>2. get_node(R, id, pt, k - 1) = list[k].node
    BY <1>8, <2>1, NodeRead
  <2>3. get_process(R, id, pt, k - 1) = list[k].process
    BY <1>8, <2>1, ProcessRead
  <2> QED BY <2>1, <2>2, <2>3
<1>10. Ordered(S) = [k \in DOMAIN list |-> Row("analyzer", pt, id, << >>, k - 1, list[k].v)]
  BY <1>0, <1>7, NumberedRows
<1>11. get_analyzer(R, id, pt) =
         [k \in DOMAIN Ordered(S) |-> [v |-> Ordered(S)[k].v, node |-> get_node(R, id, pt, k - 1),
                                       process |-> get_process(R, id, pt, k - 1)]]
  BY DEF get_analyzer, Each
<1> HIDE DEF S
<1>12. get_analyzer(R, id, pt) =
         [k \in DOMAIN list |-> [v |-> list[k].v, node |-> get_node(R, id, pt, k - 1),
                                 process |-> get_process(R, id, pt, k - 1)]]
  BY <1>10, <1>11 DEF Row
<1>13. get_analyzer(R, id, pt) = [k \in DOMAIN list |-> list[k]]
  BY <1>9, <1>12
<1> QED BY <1>0, <1>13, ListForm

\* The node, the user, the process and the service of a source or a target.
LEMMA EndRead ==
  ASSUME NEW R, NEW pt, NEW id, NEW j, NEW x, IsEnd(x),
         Agree(R, EndOf(pt, id, j, x), EndTables, pt, id, j), StringsKept(R, pt), ArgsKept(R, pt)
  PROVE  /\ get_node(R, id, pt, j) = x.node /\ get_user(R, id, pt, j) = x.user
         /\ get_process(R, id, pt, j) = x.process /\ get_service(R, id, pt, j) = x.service
<1> DEFINE N == NodeOf(pt, id, j, x.node)
           U == UserOf(pt, id, j, x.user)
           P == ProcessOf(pt, id, j, x.process)
           V == ServiceOf(pt, id, j, x.service)
<1>1. /\ OptionOf(IsNode, x.node) /\ OptionOf(IsUser, x.user)
      /\ OptionOf(IsProcess, x.process) /\ OptionOf(IsService, x.service)
  BY DEF IsEnd
<1>2. /\ \A r \in N : r.t \in NodeTables
      /\ \A r \in U : r.t \in UserTables
      /\ \A r \in P : r.t \in ProcessTables
      /\ \A r \in V : r.t \in ServiceTables
  BY <1>1, PartRows DEF Below, OptionOf
<1>3. EndOf(pt, id, j, x) = ((N \cup U) \cup P) \cup V
  BY DEF EndOf
<1> HIDE DEF N, U, P, V
<1>4. /\ NodeTables \subseteq EndTables /\ UserTables \subseteq EndTables
      /\ ProcessTables \subseteq EndTables /\ ServiceTables \subseteq EndTables
  BY DEF EndTables
<1>5. /\ NodeTables \cap UserTables = {} /\ NodeTables \cap ProcessTables = {} /\ NodeTables \cap ServiceTables = {}
      /\ UserTables \cap ProcessTables = {} /\ UserTables \cap ServiceTables = {}
      /\ ProcessTables \cap ServiceTables = {}
  BY DEF NodeTables, UserTables, ProcessTables, ServiceTables
<1>6. Agree(R, N, NodeTables, pt, id, j) /\ Agree(R, U, UserTables, pt, id, j)
  BY <1>2, <1>3, <1>4, <1>5 DEF Agree
<1>7. Agree(R, P, ProcessTables, pt, id, j) /\ Agree(R, V, ServiceTables, pt, id, j)
  BY <1>2, <1>3, <1>4, <1>5 DEF Agree
<1>8. get_node(R, id, pt, j) = x.node /\ get_user(R, id, pt, j) = x.user
  BY <1>1, <1>6, NodeRead, UserRead DEF N, U
<1>9. get_process(R, id, pt, j) = x.process /\ get_service(R, id, pt, j) = x.service
  BY <1>1, <1>7, ProcessRead, ServiceRead DEF P, V
<1> QED BY <1>8, <1>9

\* get_source reads the sources of an alert.
LEMMA SourcesRead ==
  ASSUME NEW R, NEW id, NEW list, ListOf(IsSource, list),
         Agrees(R, SourcesOf(id, list), {"source"}, NoType, id),
         Agrees(R, SourcesOf(id, list), EndTables, "S", id),
         StringsKept(R, "S"), ArgsKept(R, "S")
  PROVE  get_source(R, id) = list
<1> DEFINE A == SourcesOf(id, list)
           S == Select(R, "source", NoType, id, << >>)
<1>0. IsList(list) /\ \A k \in DOMAIN list : IsSource(list[k])
  BY DEF ListOf
<1>1. \A r \in A : \E j \in Places(list) : r \in insert_source(id, j, At(list, j))
  BY <1>0, ElementPlaces DEF Listed, SourcesOf
<1>2. \A k \in DOMAIN list : insert_source(id, k - 1, list[k]) \subseteq A
  BY DEF Listed, SourcesOf
<1>3. \A j \in Places(list) : IsSource(At(list, j))
  BY <1>0, AtPlace
<1>4. "source" \notin EndTables
  BY DEF EndTables, NodeTables, UserTables, ProcessTables, ServiceTables
<1> HIDE DEF A
<1>5. \A j, x : IsSource(x) => \A r \in EndOf("S", id, j, x) : r.t \in EndTables
  BY EndRows DEF Below, IsSource
<1>6. \A j, x : insert_source(id, j, x) = {Row("source", NoType, id, << >>, j, x.v)} \cup EndOf("S", id, j, x)
  BY DEF insert_source, EndOf, NodeOf, UserOf, ProcessOf, ServiceOf
<1>7. Lists(S, "source", NoType, id, << >>, list)
  <2>1. \A r \in S : \E j \in Places(list) : r = Row("source", NoType, id, << >>, j, At(list, j).v)
    <3> SUFFICES ASSUME NEW r \in S
                 PROVE  \E j \in Places(list) : r = Row("source", NoType, id, << >>, j, At(list, j).v)
      OBVIOUS
    <3>1. r \in A /\ r.t = "source"
      BY DEF Select, Agrees, A
    <3>2. PICK j \in Places(list) : r \in insert_source(id, j, At(list, j))
      BY <1>1, <3>1
    <3>3. r \notin EndOf("S", id, j, At(list, j))
      BY <1>3, <1>4, <1>5, <3>1
    <3>4. insert_source(id, j, At(list, j)) =
            {Row("source", NoType, id, << >>, j, At(list, j).v)} \cup EndOf("S", id, j, At(list, j))
      BY <1>6
    <3> QED BY <3>2, <3>3, <3>4
  <2>2. ASSUME NEW k \in DOMAIN list PROVE Row("source", NoType, id, << >>, k - 1, list[k].v) \in S
    BY <1>2, <1>6, RowFields DEF Select, Agrees, A
  <2> QED BY <1>0, <2>1, <2>2, ElementRows
<1>8. ASSUME NEW k \in DOMAIN list PROVE Agree(R, EndOf("S", id, k - 1, list[k]), EndTables, "S", id, k - 1)
  <2>1. ASSUME NEW r, r.t \in EndTables, r.pt = "S", r.id = id, r.p[1] = k - 1
        PROVE  r \in R <=> r \in insert_source(id, k - 1, list[k])
    <3>1. r \in R <=> r \in A
      BY <2>1 DEF Agrees, A
    <3>2. ASSUME r \in A PROVE r \in insert_source(id, k - 1, list[k])
      <4>1. PICK j \in Places(list) : r \in insert_source(id, j, At(list, j))
        BY <1>1, <3>2
      <4>2. r.p[1] = j
        BY <1>3, <1>4, <2>1, <4>1, SourceRows
      <4>3. At(list, k - 1) = list[k]
        BY <1>0, ElementPlaces
      <4> QED BY <2>1, <4>1, <4>2, <4>3
    <3> QED BY <1>2, <3>1, <3>2
  <2>2. \A r : r.t \in EndTables => (r \in insert_source(id, k - 1, list[k]) <=> r \in EndOf("S", id, k - 1, list[k]))
    BY <1>4, <1>6, RowFields
  <2> QED BY <2>1, <2>2 DEF Agree
<1>9. ASSUME NEW k \in DOMAIN list
      PROVE  [v |-> list[k].v, node |-> get_node(R, id, "S", k - 1), user |-> get_user(R, id, "S", k - 1),
              process |-> get_process(R, id, "S", k - 1), service |-> get_service(R, id, "S", k - 1)] = list[k]
  <2>1. /\ IsEnd(list[k])
        /\ list[k] = [v |-> list[k].v, node |-> list[k].node, user |-> list[k].user,
                      process |-> list[k].process, service |-> list[k].service]
    BY <1>0 DEF IsSource
  <2>2. /\ get_node(R, id, "S", k - 1) = list[k].node /\ get_user(R, id, "S", k - 1) = list[k].user
        /\ get_process(R, id, "S", k - 1) = list[k].process /\ get_service(R, id, "S", k - 1) = list[k].service
    BY <1>8, <2>1, EndRead
  <2> QED BY <2>1, <2>2
<1>10. Ordered(S) = [k \in DOMAIN list |-> Row("source", NoType, id, << >>, k - 1, list[k].v)]
  BY <1>0, <1>7, NumberedRows
<1>11. get_source(R, id) =
         [k \in DOMAIN Ordered(S) |->
            [v |-> Ordered(S)[k].v, node |-> get_node(R, id, "S", k - 1), user |-> get_user(R, id, "S", k - 1),
             process |-> get_process(R, id, "S", k - 1), service |-> get_service(R, id, "S", k - 1)]]
  BY DEF get_source, Each
<1> HIDE DEF S
<1>12. get_source(R, id) =
         [k \in DOMAIN list |->
            [v |-> list[k].v, node |-> get_node(R, id, "S", k - 1), user |-> get_user(R, id, "S", k - 1),
             process |-> get_process(R, id, "S", k - 1), service |-> get_service(R, id, "S", k - 1)]]
  BY <1>10, <1>11 DEF Row
<1>13. get_source(R, id) = [k \in DOMAIN list |-> list[k]]
  BY <1>9, <1>12
<1> QED BY <1>0, <1>13, ListForm

-----------------------------------------------------------------------------
(***************************************************************************)
(* Files and targets                                                       *)
(***************************************************************************)

\* R and A have the same rows in the tables T, of parent type pt, below file f of target j.
AgreeFile(R, A, T, pt, id, j, f) ==
  \A r : r.t \in T /\ r.pt = pt /\ r.id = id /\ r.p[1] = j /\ r.p[2] = f => (r \in R <=> r \in A)

\* What insert_file_access writes.
LEMMA AccessIs ==
  ASSUME NEW id, NEW j, NEW f, NEW a, NEW x, IsFileAccess(x)
  PROVE  insert_file_access(id, j, f, a, x) =
           {Row("file_access", NoType, id, <<j, f>>, a, Empty)}
             \cup Leafs("file_access_permission", NoType, id, <<j, f, a>>, x.permission)
             \cup {Row("user_id", "F", id, <<j, f, a>>, 0, x.user_id[1].v)}
<1>1. IsList(x.permission)
  BY DEF IsFileAccess, ListOf
<1>2. Listed(LAMBDA k, y : insert_file_access_permission(id, j, f, a, k, y), x.permission)
        = Leafs("file_access_permission", NoType, id, <<j, f, a>>, x.permission)
  BY <1>1, ListedLeafs DEF insert_file_access_permission, Listed
<1> QED BY <1>2 DEF insert_file_access, insert_user_id

\* The indexes of what is below a file and below an access.
LEMMA Indexes ==
  ASSUME NEW j, NEW f, NEW a
  PROVE  /\ <<j, f>>[1] = j /\ <<j, f>>[2] = f
         /\ <<j, f, a>>[1] = j /\ <<j, f, a>>[2] = f /\ <<j, f, a>>[3] = a
  OBVIOUS

\* Among the rows of the accesses to a file, those of an access are told by its index.
LEMMA AccessAgree ==
  ASSUME NEW R, NEW id, NEW j, NEW f, NEW list, ListOf(IsFileAccess, list),
         AgreeFile(R, Accesses(id, j, f, list), {"file_access", "file_access_permission"}, NoType, id, j, f),
         AgreeFile(R, Accesses(id, j, f, list), {"user_id"}, "F", id, j, f),
         NEW k \in DOMAIN list
  PROVE  LET a == k - 1
         IN  /\ Select(R, "file_access_permission", NoType, id, <<j, f, a>>)
                  = Leafs("file_access_permission", NoType, id, <<j, f, a>>, list[k].permission)
             /\ Select(R, "user_id", "F", id, <<j, f, a>>)
                  = {Row("user_id", "F", id, <<j, f, a>>, 0, list[k].user_id[1].v)}
<1> DEFINE A == Accesses(id, j, f, list)
           a == k - 1
           X == insert_file_access(id, j, f, a, list[k])
<1>0. IsList(list) /\ \A i \in DOMAIN list : IsFileAccess(list[i]) /\ IsList(list[i].permission)
  BY DEF ListOf, IsFileAccess
<1>1. \A r \in A : \E i \in Places(list) : r \in insert_file_access(id, j, f, i, At(list, i))
  BY <1>0, ElementPlaces DEF Listed, Accesses
<1>2. X \subseteq A
  BY DEF Listed, Accesses
<1>3. \A i \in Places(list) : IsList(At(list, i).permission)
  BY <1>0, AtPlace
<1>4. At(list, a) = list[k]
  BY <1>0, ElementPlaces
<1>a. /\ \A r \in X : r \in Leafs("file_access_permission", NoType, id, <<j, f, a>>, list[k].permission)
                        \/ r = Row("user_id", "F", id, <<j, f, a>>, 0, list[k].user_id[1].v)
                        \/ r.t = "file_access"
      /\ Leafs("file_access_permission", NoType, id, <<j, f, a>>, list[k].permission) \subseteq X
      /\ Row("user_id", "F", id, <<j, f, a>>, 0, list[k].user_id[1].v) \in X
  <2>1. X = {Row("file_access", NoType, id, <<j, f>>, a, Empty)}
              \cup Leafs("file_access_permission", NoType, id, <<j, f, a>>, list[k].permission)
              \cup {Row("user_id", "F", id, <<j, f, a>>, 0, list[k].user_id[1].v)}
    BY <1>0, AccessIs
  <2> HIDE DEF X, a
  <2> QED BY <2>1, RowFields
<1> HIDE DEF A, X, a
<1>5. ASSUME NEW r, r.t \in {"file_access_permission", "user_id"}, r \in A, r.p[3] = a PROVE r \in X
  <2>1. PICK i \in Places(list) : r \in insert_file_access(id, j, f, i, At(list, i))
    BY <1>1, <1>5
  <2>2. r.p[3] = i
    BY <1>3, <1>5, <2>1, AccessRows
  <2> QED BY <1>4, <1>5, <2>1, <2>2 DEF X
<1>6. ASSUME NEW r, r.p = <<j, f, a>> PROVE r.p[1] = j /\ r.p[2] = f /\ r.p[3] = a
  BY <1>6, Indexes
<1>7. Select(R, "file_access_permission", NoType, id, <<j, f, a>>)
        = Leafs("file_access_permission", NoType, id, <<j, f, a>>, list[k].permission)
  <2>1. ASSUME NEW r \in Select(R, "file_access_permission", NoType, id, <<j, f, a>>)
        PROVE  r \in Leafs("file_access_permission", NoType, id, <<j, f, a>>, list[k].permission)
    <3>1. r \in A /\ r.t = "file_access_permission" /\ r.p[3] = a
      BY <1>6 DEF Select, AgreeFile, A
    <3>2. r \in X
      BY <1>5, <3>1
    <3> QED BY <1>a, <3>1, <3>2, RowFields
  <2>2. ASSUME NEW r \in Leafs("file_access_permission", NoType, id, <<j, f, a>>, list[k].permission)
        PROVE  r \in Select(R, "file_access_permission", NoType, id, <<j, f, a>>)
    <3>1. r.t = "file_access_permission" /\ r.pt = NoType /\ r.id = id /\ r.p = <<j, f, a>> /\ r \in A
      BY <1>2, <1>a, LeafRows
    <3> QED BY <1>6, <3>1 DEF Select, AgreeFile, A
  <2> QED BY <2>1, <2>2
<1>8. Select(R, "user_id", "F", id, <<j, f, a>>) = {Row("user_id", "F", id, <<j, f, a>>, 0, list[k].user_id[1].v)}
  <2>1. ASSUME NEW r \in Select(R, "user_id", "F", id, <<j, f, a>>)
        PROVE  r = Row("user_id", "F", id, <<j, f, a>>, 0, list[k].user_id[1].v)
    <3>1. r \in A /\ r.t = "user_id" /\ r.p[3] = a
      BY <1>6 DEF Select, AgreeFile, A
    <3>2. r \in X
      BY <1>5, <3>1
    <3> QED BY <1>a, <3>1, <3>2, LeafRows
  <2>2. ASSUME NEW r, r = Row("user_id", "F", id, <<j, f, a>>, 0, list[k].user_id[1].v)
        PROVE  r \in Select(R, "user_id", "F", id, <<j, f, a>>)
    <3>1. r.t = "user_id" /\ r.pt = "F" /\ r.id = id /\ r.p = <<j, f, a>> /\ r \in A
      BY <1>2, <1>a, <2>2, RowFields
    <3> QED BY <1>6, <3>1 DEF Select, AgreeFile, A
  <2> QED BY <2>1, <2>2
<1> QED BY <1>7, <1>8 DEF a

\* get_file_access counts the accesses to a file and reads each by its index.
LEMMA AccessesRead ==
  ASSUME NEW R, NEW id, NEW j, NEW f, NEW list, ListOf(IsFileAccess, list), StringsKept(R, NoType),
         AgreeFile(R, Accesses(id, j, f, list), {"file_access", "file_access_permission"}, NoType, id, j, f),
         AgreeFile(R, Accesses(id, j, f, list), {"user_id"}, "F", id, j, f)
  PROVE  get_file_access(R, id, j, f) = list
<1> DEFINE A == Accesses(id, j, f, list)
           S == Select(R, "file_access", NoType, id, <<j, f>>)
           n == Len(list)
           F == [k \in 1..n |-> Row("file_access", NoType, id, <<j, f>>, k - 1, Empty)]
<1>0. IsList(list) /\ \A k \in DOMAIN list : IsFileAccess(list[k])
  BY DEF ListOf
<1>1. n \in Nat /\ DOMAIN list = 1..n
  BY <1>0, ListForm
<1>2. Cardinality({r \in S : r.i # -1}) = n
  <2>1. ASSUME NEW r \in S, r.i # -1 PROVE \E k \in 1..n : r = F[k]
    <3>1. r.p[1] = j /\ r.p[2] = f
      BY Indexes DEF Select
    <3>2. r \in A /\ r.t = "file_access"
      BY <3>1 DEF Select, AgreeFile
    <3>3. PICK i \in Places(list) : r \in insert_file_access(id, j, f, i, At(list, i))
      BY <1>0, <3>2, ElementPlaces DEF Listed, Accesses
    <3>4. IsFileAccess(At(list, i))
      BY <1>0, AtPlace
    <3>5. r = Row("file_access", NoType, id, <<j, f>>, i, Empty)
      <4>1. insert_file_access(id, j, f, i, At(list, i)) =
              {Row("file_access", NoType, id, <<j, f>>, i, Empty)}
                \cup Leafs("file_access_permission", NoType, id, <<j, f, i>>, At(list, i).permission)
                \cup {Row("user_id", "F", id, <<j, f, i>>, 0, At(list, i).user_id[1].v)}
        BY <3>4, AccessIs
      <4> QED BY <3>2, <3>3, <4>1, RowFields, LeafRows
    <3>6. i # -1
      BY <2>1, <3>5, RowFields
    <3>7. i + 1 \in 1..n /\ (i + 1) - 1 = i
      BY <1>0, <1>1, <3>6, PlaceElement
    <3>8. r = F[i + 1]
      BY <3>5, <3>7
    <3> QED BY <3>7, <3>8
  <2>2. ASSUME NEW k \in 1..n PROVE F[k] \in S /\ F[k].i # -1
    <3>1. F[k] \in insert_file_access(id, j, f, k - 1, list[k])
      <4>1. insert_file_access(id, j, f, k - 1, list[k]) =
              {Row("file_access", NoType, id, <<j, f>>, k - 1, Empty)}
                \cup Leafs("file_access_permission", NoType, id, <<j, f, k - 1>>, list[k].permission)
                \cup {Row("user_id", "F", id, <<j, f, k - 1>>, 0, list[k].user_id[1].v)}
        BY <1>0, <1>1, AccessIs
      <4> QED BY <4>1
    <3>2. F[k] \in A
      BY <1>1, <3>1 DEF Listed, Accesses
    <3>3. /\ F[k].t = "file_access" /\ F[k].pt = NoType /\ F[k].id = id /\ F[k].p = <<j, f>>
          /\ F[k].i = k - 1
      BY RowFields
    <3>4. F[k].p[1] = j /\ F[k].p[2] = f /\ k - 1 # -1
      BY <3>3, Indexes
    <3> QED BY <3>2, <3>3, <3>4 DEF Select, AgreeFile
  <2>3. FromZero(F, n)
    BY RowFields DEF FromZero
  <2> HIDE DEF F, S, n
  <2>4. {r \in S : r.i # -1} = {F[k] : k \in 1..n}
    BY <2>1, <2>2
  <2> QED BY <1>1, <2>3, <2>4, RowsCounted
<1>3. ASSUME NEW k \in DOMAIN list
      PROVE  [user_id |-> get_user_id(R, id, "F", j, f, k - 1),
              permission |-> get_file_access_permission(R, id, j, f, k - 1)] = list[k]
  <2> DEFINE a == k - 1
             L == Select(R, "file_access_permission", NoType, id, <<j, f, a>>)
             U == Select(R, "user_id", "F", id, <<j, f, a>>)
  <2>1. /\ L = Leafs("file_access_permission", NoType, id, <<j, f, a>>, list[k].permission)
        /\ U = {Row("user_id", "F", id, <<j, f, a>>, 0, list[k].user_id[1].v)}
    BY AccessAgree
  <2>2. /\ list[k] = [user_id |-> list[k].user_id, permission |-> list[k].permission]
        /\ ListOf(IsLeaf, list[k].user_id) /\ Len(list[k].user_id) = 1 /\ ListOf(IsLeaf, list[k].permission)
    BY <1>0 DEF IsFileAccess
  <2>a. L \subseteq R
    BY DEF Select
  <2>b. get_user_id(R, id, "F", j, f, k - 1) = Leaves(U)
    BY DEF get_user_id
  <2>c. get_file_access_permission(R, id, j, f, k - 1) = get_string_listed(L)
    BY DEF get_file_access_permission
  <2> HIDE DEF L, U, a
  <2>3. Lists(L, "file_access_permission", NoType, id, <<j, f, a>>, list[k].permission)
    BY <2>1, <2>2, LeafsListed DEF ListOf
  <2>4. get_string_listed(L) = list[k].permission
    BY <2>2, <2>3, <2>a, StringsInRows DEF StringTables
  <2>5. Lists(U, "user_id", "F", id, <<j, f, a>>, list[k].user_id)
    <3>1. DOMAIN list[k].user_id = {1}
      BY <2>2, ListForm DEF ListOf
    <3>2. Numbered("user_id", "F", id, <<j, f, a>>, list[k].user_id)
            = {Row("user_id", "F", id, <<j, f, a>>, 0, list[k].user_id[1].v)}
      BY <3>1 DEF Numbered
    <3>3. Row("user_id", "F", id, <<j, f, a>>, 0, list[k].user_id[1].v).i = 0
      BY RowFields
    <3> QED BY <2>1, <3>2, <3>3 DEF Lists
  <2>6. Leaves(U) = list[k].user_id
    BY <2>2, <2>5, LeavesRead
  <2> QED BY <2>2, <2>4, <2>6, <2>b, <2>c
<1>4. get_file_access(R, id, j, f) =
        [c \in 1..n |-> [user_id |-> get_user_id(R, id, "F", j, f, c - 1),
                         permission |-> get_file_access_permission(R, id, j, f, c - 1)]]
  BY <1>2 DEF get_file_access
<1>5. get_file_access(R, id, j, f) = [c \in 1..n |-> list[c]]
  <2> HIDE DEF n
  <2> QED BY <1>1, <1>3, <1>4
<1> QED BY <1>0, <1>5, ListForm

\* A query on what is below a file.
LEMMA AgreeFileSelect ==
  ASSUME NEW R, NEW A, NEW T, NEW pt, NEW id, NEW j, NEW f, AgreeFile(R, A, T, pt, id, j, f), NEW t \in T
  PROVE  Select(R, t, pt, id, <<j, f>>) = Select(A, t, pt, id, <<j, f>>)
  BY Indexes DEF AgreeFile, Select

FileBelow == FileTables \ {"file"}

\* The inode of a file.
InodeOf(id, j, f, x) == Optional(LAMBDA y : insert_inode(id, j, f, y), x)

\* What insert_file writes.
LEMMA FileIs ==
  ASSUME NEW id, NEW j, NEW f, NEW x, IsFile(x)
  PROVE  insert_file(id, j, f, x) =
           {Row("file", NoType, id, <<j>>, f, x.v)}
             \cup Accesses(id, j, f, x.file_access)
             \cup Leafs("linkage", NoType, id, <<j, f>>, x.linkage)
             \cup InodeOf(id, j, f, x.inode)
             \cup Leafs("checksum", NoType, id, <<j, f>>, x.checksum)
<1>1. IsList(x.linkage) /\ IsList(x.checksum)
  BY DEF IsFile, ListOf
<1>2. Listed(LAMBDA k, y : insert_linkage(id, j, f, k, y), x.linkage)
        = Leafs("linkage", NoType, id, <<j, f>>, x.linkage)
  BY <1>1, ListedLeafs DEF insert_linkage, Listed
<1>3. Listed(LAMBDA k, y : insert_checksum(id, j, f, k, y), x.checksum)
        = Leafs("checksum", NoType, id, <<j, f>>, x.checksum)
  BY <1>1, ListedLeafs DEF insert_checksum, Listed
<1> QED BY <1>2, <1>3 DEF insert_file, Accesses, InodeOf

\* get_file_access, get_linkage, get_inode and get_checksum read what insert_file wrote.
LEMMA FileRead ==
  ASSUME NEW R, NEW id, NEW j, NEW f, NEW x, IsFile(x), StringsKept(R, NoType),
         AgreeFile(R, insert_file(id, j, f, x), FileBelow, NoType, id, j, f),
         AgreeFile(R, insert_file(id, j, f, x), {"user_id"}, "F", id, j, f)
  PROVE  /\ get_file_access(R, id, j, f) = x.file_access /\ get_linkage(R, id, j, f) = x.linkage
         /\ get_inode(R, id, j, f) = x.inode /\ get_checksum(R, id, j, f) = x.checksum
<1> DEFINE A == insert_file(id, j, f, x)
           C == Accesses(id, j, f, x.file_access)
           L == Leafs("linkage", NoType, id, <<j, f>>, x.linkage)
           N == InodeOf(id, j, f, x.inode)
           K == Leafs("checksum", NoType, id, <<j, f>>, x.checksum)
<1>0. /\ ListOf(IsFileAccess, x.file_access) /\ ListOf(IsLeaf, x.linkage)
      /\ OptionOf(IsLeaf, x.inode) /\ ListOf(IsLeaf, x.checksum)
  BY DEF IsFile
<1>1. A = {Row("file", NoType, id, <<j>>, f, x.v)} \cup C \cup L \cup N \cup K
  BY FileIs
<1>2. \A r \in C : r.t \in {"file_access", "file_access_permission", "user_id"}
  <2>1. /\ IsList(x.file_access)
        /\ \A k \in DOMAIN x.file_access : IsList(x.file_access[k].permission)
    BY <1>0 DEF ListOf, IsFileAccess
  <2>2. \A r \in Accesses(id, j, f, x.file_access) :
          r.t \in {"file_access", "file_access_permission"} \/ r.t = "user_id"
    BY <2>1, AccessesRows
  <2> QED BY <2>2
<1>3. (\A r \in L : r.t = "linkage") /\ (\A r \in K : r.t = "checksum")
  BY LeafRows
<1>4. \A r : r \in N <=> \E k \in DOMAIN x.inode : r = Row("inode", NoType, id, <<j, f>>, NoIndex, x.inode[k].v)
  BY DEF InodeOf, Optional, insert_inode
<1>5. \A r \in N : r.t = "inode"
  BY <1>4, RowFields
<1>6. Row("file", NoType, id, <<j>>, f, x.v).t = "file"
  BY RowFields
<1>7. {"file_access", "file_access_permission", "linkage", "inode", "checksum"} \subseteq FileBelow
  BY DEF FileBelow, FileTables
<1> HIDE DEF A, C, L, N, K
<1>8. get_file_access(R, id, j, f) = x.file_access
  <2>1. \A r : r.t \in {"file_access", "file_access_permission", "user_id"} => (r \in A <=> r \in C)
    BY <1>1, <1>3, <1>5, <1>6
  <2>2. /\ AgreeFile(R, C, {"file_access", "file_access_permission"}, NoType, id, j, f)
        /\ AgreeFile(R, C, {"user_id"}, "F", id, j, f)
    BY <1>7, <2>1 DEF AgreeFile, A
  <2> QED BY <1>0, <2>2, AccessesRead DEF C
<1>9. get_linkage(R, id, j, f) = x.linkage
  <2>1. Select(R, "linkage", NoType, id, <<j, f>>) = Select(A, "linkage", NoType, id, <<j, f>>)
    BY <1>7, AgreeFileSelect DEF A
  <2>2. \A r : r.t = "linkage" => (r \in A <=> r \in L)
    BY <1>1, <1>2, <1>3, <1>5, <1>6
  <2>3. Select(R, "linkage", NoType, id, <<j, f>>) = L
    BY <2>1, <2>2, LeafRows DEF Select, L
  <2>4. Lists(L, "linkage", NoType, id, <<j, f>>, x.linkage)
    BY <1>0, LeafsListed DEF L, ListOf
  <2> QED BY <1>0, <2>3, <2>4, LeavesRead DEF get_linkage
<1>10. get_inode(R, id, j, f) = x.inode
  <2>1. Select(R, "inode", NoType, id, <<j, f>>) = Select(A, "inode", NoType, id, <<j, f>>)
    BY <1>7, AgreeFileSelect DEF A
  <2>2. \A r : r.t = "inode" => (r \in A <=> r \in N)
    BY <1>1, <1>2, <1>3, <1>6
  <2>3. Select(R, "inode", NoType, id, <<j, f>>) = Single("inode", NoType, id, <<j, f>>, x.inode)
    BY <1>4, <2>1, <2>2, RowFields DEF Select, Single
  <2> QED BY <1>0, <2>3, LeafRead DEF get_inode
<1>11. get_checksum(R, id, j, f) = x.checksum
  <2>1. Select(R, "checksum", NoType, id, <<j, f>>) = Select(A, "checksum", NoType, id, <<j, f>>)
    BY <1>7, AgreeFileSelect DEF A
  <2>2. \A r : r.t = "checksum" => (r \in A <=> r \in K)
    BY <1>1, <1>2, <1>3, <1>5, <1>6
  <2>3. Select(R, "checksum", NoType, id, <<j, f>>) = K
    BY <2>1, <2>2, LeafRows DEF Select, K
  <2>4. Lists(K, "checksum", NoType, id, <<j, f>>, x.checksum)
    BY <1>0, LeafsListed DEF K, ListOf
  <2> QED BY <1>0, <2>3, <2>4, LeavesRead DEF get_checksum
<1> QED BY <1>8, <1>9, <1>10, <1>11

\* get_file reads the files of a target.
LEMMA FilesRead ==
  ASSUME NEW R, NEW id, NEW j, NEW list, ListOf(IsFile, list), StringsKept(R, NoType),
         Agree(R, FilesOf(id, j, list), FileTables, NoType, id, j),
         Agree(R, FilesOf(id, j, list), {"user_id"}, "F", id, j)
  PROVE  get_file(R, id, j) = list
<1> DEFINE A == FilesOf(id, j, list)
           S == Select(R, "file", NoType, id, <<j>>)
<1>0. IsList(list) /\ \A k \in DOMAIN list : IsFile(list[k])
  BY DEF ListOf
<1>1. \A r \in A : \E i \in Places(list) : r \in insert_file(id, j, i, At(list, i))
  BY <1>0, ElementPlaces DEF Listed, FilesOf
<1>2. \A k \in DOMAIN list : insert_file(id, j, k - 1, list[k]) \subseteq A
  BY DEF Listed, FilesOf
<1>3. \A i \in Places(list) : IsFile(At(list, i))
  BY <1>0, AtPlace
<1>4. "file" \in FileTables /\ FileBelow \subseteq FileTables /\ "file" \notin FileBelow /\ "user_id" \notin FileTables
  BY DEF FileTables, FileBelow
<1>5. S = Select(A, "file", NoType, id, <<j>>)
  BY <1>4, AgreeSelect
<1> HIDE DEF A
<1>6. ASSUME NEW i, NEW x, IsFile(x), NEW r \in insert_file(id, j, i, x), r.t = "file"
      PROVE  r = Row("file", NoType, id, <<j>>, i, x.v)
  <2>1. insert_file(id, j, i, x) =
           {Row("file", NoType, id, <<j>>, i, x.v)}
             \cup Accesses(id, j, i, x.file_access)
             \cup Leafs("linkage", NoType, id, <<j, i>>, x.linkage)
             \cup InodeOf(id, j, i, x.inode)
             \cup Leafs("checksum", NoType, id, <<j, i>>, x.checksum)
    BY <1>6, FileIs
  <2>2. r \notin Accesses(id, j, i, x.file_access)
    BY <1>6, AccessesRows DEF IsFile, ListOf, IsFileAccess
  <2>3. r \notin InodeOf(id, j, i, x.inode)
    BY <1>6, RowFields DEF InodeOf, Optional, insert_inode
  <2>4. r \notin Leafs("linkage", NoType, id, <<j, i>>, x.linkage) /\ r \notin Leafs("checksum", NoType, id, <<j, i>>, x.checksum)
    BY <1>6, LeafRows
  <2> QED BY <1>6, <2>1, <2>2, <2>3, <2>4
<1>7. Lists(S, "file", NoType, id, <<j>>, list)
  <2>1. \A r \in S : \E i \in Places(list) : r = Row("file", NoType, id, <<j>>, i, At(list, i).v)
    <3> SUFFICES ASSUME NEW r \in S PROVE \E i \in Places(list) : r = Row("file", NoType, id, <<j>>, i, At(list, i).v)
      OBVIOUS
    <3>1. r \in A /\ r.t = "file"
      BY <1>5 DEF Select
    <3>2. PICK i \in Places(list) : r \in insert_file(id, j, i, At(list, i))
      BY <1>1, <3>1
    <3> QED BY <1>3, <1>6, <3>1, <3>2
  <2>2. ASSUME NEW k \in DOMAIN list PROVE Row("file", NoType, id, <<j>>, k - 1, list[k].v) \in S
    <3>1. Row("file", NoType, id, <<j>>, k - 1, list[k].v) \in insert_file(id, j, k - 1, list[k])
      BY DEF insert_file
    <3> QED BY <1>2, <1>5, <3>1, RowFields DEF Select
  <2> QED BY <1>0, <2>1, <2>2, ElementRows
<1>8. ASSUME NEW k \in DOMAIN list
      PROVE  /\ AgreeFile(R, insert_file(id, j, k - 1, list[k]), FileBelow, NoType, id, j, k - 1)
             /\ AgreeFile(R, insert_file(id, j, k - 1, list[k]), {"user_id"}, "F", id, j, k - 1)
  <2>1. ASSUME NEW r, (r.t \in FileBelow /\ r.pt = NoType) \/ (r.t = "user_id" /\ r.pt = "F"),
               r.id = id, r.p[1] = j, r.p[2] = k - 1
        PROVE  r \in R <=> r \in insert_file(id, j, k - 1, list[k])
    <3>1. r \in R <=> r \in A
      BY <1>4, <2>1 DEF Agree, A
    <3>2. ASSUME r \in A PROVE r \in insert_file(id, j, k - 1, list[k])
      <4>1. PICK i \in Places(list) : r \in insert_file(id, j, i, At(list, i))
        BY <1>1, <3>2
      <4>2. r.t # "file"
        BY <1>4, <2>1
      <4>3. r.p[2] = i
        BY <1>3, <4>1, <4>2, FileRows
      <4>4. At(list, k - 1) = list[k]
        BY <1>0, ElementPlaces
      <4> QED BY <2>1, <4>1, <4>3, <4>4
    <3> QED BY <1>2, <3>1, <3>2
  <2> QED BY <2>1 DEF AgreeFile
<1>9. ASSUME NEW k \in DOMAIN list
      PROVE  [v |-> list[k].v, file_access |-> get_file_access(R, id, j, k - 1),
              linkage |-> get_linkage(R, id, j, k - 1), inode |-> get_inode(R, id, j, k - 1),
              checksum |-> get_checksum(R, id, j, k - 1)] = list[k]
  <2>1. list[k] = [v |-> list[k].v, file_access |-> list[k].file_access, linkage |-> list[k].linkage,
                   inode |-> list[k].inode, checksum |-> list[k].checksum]
    BY <1>0 DEF IsFile
  <2>2. /\ get_file_access(R, id, j, k - 1) = list[k].file_access /\ get_linkage(R, id, j, k - 1) = list[k].linkage
        /\ get_inode(R, id, j, k - 1) = list[k].inode /\ get_checksum(R, id, j, k - 1) = list[k].checksum
    BY <1>0, <1>8, FileRead
  <2> QED BY <2>1, <2>2
<1>10. Ordered(S) = [k \in DOMAIN list |-> Row("file", NoType, id, <<j>>, k - 1, list[k].v)]
  BY <1>0, <1>7, NumberedRows
<1>11. get_file(R, id, j) =
         [k \in DOMAIN Ordered(S) |->
            [v |-> Ordered(S)[k].v, file_access |-> get_file_access(R, id, j, k - 1),
             linkage |-> get_linkage(R, id, j, k - 1), inode |-> get_inode(R, id, j, k - 1),
             checksum |-> get_checksum(R, id, j, k - 1)]]
  BY DEF get_file, Each
<1> HIDE DEF S
<1>12. get_file(R, id, j) =
         [k \in DOMAIN list |->
            [v |-> list[k].v, file_access |-> get_file_access(R, id, j, k - 1),
             linkage |-> get_linkage(R, id, j, k - 1), inode |-> get_inode(R, id, j, k - 1),
             checksum |-> get_checksum(R, id, j, k - 1)]]
  BY <1>10, <1>11 DEF Row
<1>13. get_file(R, id, j) = [k \in DOMAIN list |-> list[k]]
  BY <1>9, <1>12
<1> QED BY <1>0, <1>13, ListForm

\* get_target reads the targets of an alert.
LEMMA TargetsRead ==
  ASSUME NEW R, NEW id, NEW list, ListOf(IsTarget, list),
         Agrees(R, TargetsOf(id, list), {"target"} \cup FileTables, NoType, id),
         Agrees(R, TargetsOf(id, list), EndTables, "T", id),
         Agrees(R, TargetsOf(id, list), {"user_id"}, "F", id),
         StringsKept(R, "T"), ArgsKept(R, "T"), StringsKept(R, NoType)
  PROVE  get_target(R, id) = list
<1> DEFINE A == TargetsOf(id, list)
           S == Select(R, "target", NoType, id, << >>)
<1>0. IsList(list) /\ \A k \in DOMAIN list : IsTarget(list[k])
  BY DEF ListOf
<1>1. \A r \in A : \E j \in Places(list) : r \in insert_target(id, j, At(list, j))
  BY <1>0, ElementPlaces DEF Listed, TargetsOf
<1>2. \A k \in DOMAIN list : insert_target(id, k - 1, list[k]) \subseteq A
  BY DEF Listed, TargetsOf
<1>3. \A j \in Places(list) : IsTarget(At(list, j))
  BY <1>0, AtPlace
<1>4. "target" \notin EndTables /\ "target" \notin FileTables /\ "user_id" \notin FileTables
  BY DEF EndTables, NodeTables, UserTables, ProcessTables, ServiceTables, FileTables
<1> HIDE DEF A
<1>5. ASSUME NEW j, NEW x, IsTarget(x)
      PROVE  /\ \A r \in EndOf("T", id, j, x) : r.t \in EndTables /\ r.pt = "T"
             /\ \A r \in FilesOf(id, j, x.file) : (r.t \in FileTables /\ r.pt = NoType) \/ (r.t = "user_id" /\ r.pt = "F")
  BY <1>5, EndRows, FilesRows DEF Below, IsTarget, ListOf
<1>6. \A j, x : insert_target(id, j, x) = {Row("target", NoType, id, << >>, j, x.v)}
                  \cup EndOf("T", id, j, x) \cup FilesOf(id, j, x.file)
  BY DEF insert_target, EndOf, NodeOf, UserOf, ProcessOf, ServiceOf, FilesOf
<1>7. Lists(S, "target", NoType, id, << >>, list)
  <2>1. \A r \in S : \E j \in Places(list) : r = Row("target", NoType, id, << >>, j, At(list, j).v)
    <3> SUFFICES ASSUME NEW r \in S
                 PROVE  \E j \in Places(list) : r = Row("target", NoType, id, << >>, j, At(list, j).v)
      OBVIOUS
    <3>1. r \in A /\ r.t = "target"
      BY DEF Select, Agrees, A
    <3>2. PICK j \in Places(list) : r \in insert_target(id, j, At(list, j))
      BY <1>1, <3>1
    <3>3. r \notin EndOf("T", id, j, At(list, j)) /\ r \notin FilesOf(id, j, At(list, j).file)
      BY <1>3, <1>4, <1>5, <3>1
    <3>4. insert_target(id, j, At(list, j)) =
            {Row("target", NoType, id, << >>, j, At(list, j).v)} \cup EndOf("T", id, j, At(list, j))
              \cup FilesOf(id, j, At(list, j).file)
      BY <1>6
    <3> QED BY <3>2, <3>3, <3>4
  <2>2. ASSUME NEW k \in DOMAIN list PROVE Row("target", NoType, id, << >>, k - 1, list[k].v) \in S
    <3>1. Row("target", NoType, id, << >>, k - 1, list[k].v) \in insert_target(id, k - 1, list[k])
      BY DEF insert_target
    <3> QED BY <1>2, <3>1, RowFields DEF Select, Agrees, A
  <2> QED BY <1>0, <2>1, <2>2, ElementRows
<1>8. ASSUME NEW k \in DOMAIN list
      PROVE  /\ Agree(R, EndOf("T", id, k - 1, list[k]), EndTables, "T", id, k - 1)
             /\ Agree(R, FilesOf(id, k - 1, list[k].file), FileTables, NoType, id, k - 1)
             /\ Agree(R, FilesOf(id, k - 1, list[k].file), {"user_id"}, "F", id, k - 1)
  <2> DEFINE X == insert_target(id, k - 1, list[k])
             E == EndOf("T", id, k - 1, list[k])
             F == FilesOf(id, k - 1, list[k].file)
  <2>1. ASSUME NEW r,
               (r.t \in EndTables /\ r.pt = "T") \/ (r.t \in FileTables /\ r.pt = NoType) \/ (r.t = "user_id" /\ r.pt = "F"),
               r.id = id, r.p[1] = k - 1
        PROVE  r \in R <=> r \in X
    <3>1. r \in R <=> r \in A
      BY <2>1 DEF Agrees, A
    <3>2. ASSUME r \in A PROVE r \in X
      <4>1. PICK j \in Places(list) : r \in insert_target(id, j, At(list, j))
        BY <1>1, <3>2
      <4>2. r.p[1] = j
        BY <1>3, <1>4, <2>1, <4>1, TargetRows
      <4>3. At(list, k - 1) = list[k]
        BY <1>0, ElementPlaces
      <4> QED BY <2>1, <4>1, <4>2, <4>3
    <3> QED BY <1>2, <3>1, <3>2
  <2>2. X = {Row("target", NoType, id, << >>, k - 1, list[k].v)} \cup E \cup F
    BY <1>6
  <2>3. /\ \A r \in E : r.t \in EndTables /\ r.pt = "T"
        /\ \A r \in F : (r.t \in FileTables /\ r.pt = NoType) \/ (r.t = "user_id" /\ r.pt = "F")
    BY <1>0, <1>5
  <2>4. Row("target", NoType, id, << >>, k - 1, list[k].v).t = "target"
    BY RowFields
  <2> HIDE DEF X, E, F
  <2>5. \A r : r.t \in EndTables /\ r.pt = "T" => (r \in X <=> r \in E)
    BY <1>4, <2>2, <2>3, <2>4 DEF NoType
  <2>6. \A r : (r.t \in FileTables /\ r.pt = NoType) \/ (r.t = "user_id" /\ r.pt = "F") => (r \in X <=> r \in F)
    BY <1>4, <2>2, <2>3, <2>4 DEF NoType
  <2> QED BY <2>1, <2>5, <2>6 DEF Agree, E, F
<1>9. ASSUME NEW k \in DOMAIN list
      PROVE  [v |-> list[k].v, node |-> get_node(R, id, "T", k - 1), user |-> get_user(R, id, "T", k - 1),
              process |-> get_process(R, id, "T", k - 1), service |-> get_service(R, id, "T", k - 1),
              file |-> get_file(R, id, k - 1)] = list[k]
  <2>1. /\ IsEnd(list[k]) /\ ListOf(IsFile, list[k].file)
        /\ list[k] = [v |-> list[k].v, node |-> list[k].node, user |-> list[k].user,
                      process |-> list[k].process, service |-> list[k].service, file |-> list[k].file]
    BY <1>0 DEF IsTarget
  <2>2. /\ get_node(R, id, "T", k - 1) = list[k].node /\ get_user(R, id, "T", k - 1) = list[k].user
        /\ get_process(R, id, "T", k - 1) = list[k].process /\ get_service(R, id, "T", k - 1) = list[k].service
    BY <1>8, <2>1, EndRead
  <2>3. get_file(R, id, k - 1) = list[k].file
    BY <1>8, <2>1, FilesRead
  <2> QED BY <2>1, <2>2, <2>3
<1>10. Ordered(S) = [k \in DOMAIN list |-> Row("target", NoType, id, << >>, k - 1, list[k].v)]
  BY <1>0, <1>7, NumberedRows
<1>11. get_target(R, id) =
         [k \in DOMAIN Ordered(S) |->
            [v |-> Ordered(S)[k].v, node |-> get_node(R, id, "T", k - 1), user |-> get_user(R, id, "T", k - 1),
             process |-> get_process(R, id, "T", k - 1), service |-> get_service(R, id, "T", k - 1),
             file |-> get_file(R, id, k - 1)]]
  BY DEF get_target, Each
<1> HIDE DEF S
<1>12. get_target(R, id) =
         [k \in DOMAIN list |->
            [v |-> list[k].v, node |-> get_node(R, id, "T", k - 1), user |-> get_user(R, id, "T", k - 1),
             process |-> get_process(R, id, "T", k - 1), service |-> get_service(R, id, "T", k - 1),
             file |-> get_file(R, id, k - 1)]]
  BY <1>10, <1>11 DEF Row
<1>13. get_target(R, id) = [k \in DOMAIN list |-> list[k]]
  BY <1>9, <1>12
<1> QED BY <1>0, <1>13, ListForm

-----------------------------------------------------------------------------
(***************************************************************************)
(* The other parts of a message                                            *)
(***************************************************************************)

\* A query on a table where R and A agree.
LEMMA AgreesSelect ==
  ASSUME NEW R, NEW A, NEW T, NEW pt, NEW id, Agrees(R, A, T, pt, id), NEW t \in T, NEW p
  PROVE  Select(R, t, pt, id, p) = Select(A, t, pt, id, p)
  BY DEF Agrees, Select

\* The times and the overflow alert.
LEMMA TimesRead ==
  ASSUME NEW R, NEW pt, NEW id, NEW x, OptionOf(IsLeaf, x)
  PROVE  /\ Agrees(R, CreateOf(pt, id, x), {"create_time"}, pt, id) => get_create_time(R, id, pt) = x
         /\ Agrees(R, DetectOf(id, x), {"detect_time"}, NoType, id) => get_detect_time(R, id) = x
         /\ Agrees(R, AnalyzerTimeOf(pt, id, x), {"analyzer_time"}, pt, id) => get_analyzer_time(R, id, pt) = x
         /\ Agrees(R, OverflowOf(id, x), {"overflow_alert"}, NoType, id) => get_overflow_alert(R, id) = x
<1>1. ASSUME Agrees(R, CreateOf(pt, id, x), {"create_time"}, pt, id) PROVE get_create_time(R, id, pt) = x
  <2>1. Select(R, "create_time", pt, id, << >>) = Select(CreateOf(pt, id, x), "create_time", pt, id, << >>)
    BY <1>1, AgreesSelect
  <2>2. CreateOf(pt, id, x) = Single("create_time", pt, id, << >>, x)
    BY DEF CreateOf, Optional, insert_createtime, Single
  <2>3. Select(R, "create_time", pt, id, << >>) = Single("create_time", pt, id, << >>, x)
    BY <2>1, <2>2, RowFields DEF Select, Single
  <2> QED BY <2>3, LeafRead DEF get_create_time
<1>2. ASSUME Agrees(R, DetectOf(id, x), {"detect_time"}, NoType, id) PROVE get_detect_time(R, id) = x
  <2>1. Select(R, "detect_time", NoType, id, << >>) = Select(DetectOf(id, x), "detect_time", NoType, id, << >>)
    BY <1>2, AgreesSelect
  <2>2. DetectOf(id, x) = Single("detect_time", NoType, id, << >>, x)
    BY DEF DetectOf, Optional, insert_detecttime, Single
  <2>3. Select(R, "detect_time", NoType, id, << >>) = Single("detect_time", NoType, id, << >>, x)
    BY <2>1, <2>2, RowFields DEF Select, Single
  <2> QED BY <2>3, LeafRead DEF get_detect_time
<1>3. ASSUME Agrees(R, AnalyzerTimeOf(pt, id, x), {"analyzer_time"}, pt, id) PROVE get_analyzer_time(R, id, pt) = x
  <2>1. Select(R, "analyzer_time", pt, id, << >>) = Select(AnalyzerTimeOf(pt, id, x), "analyzer_time", pt, id, << >>)
    BY <1>3, AgreesSelect
  <2>2. AnalyzerTimeOf(pt, id, x) = Single("analyzer_time", pt, id, << >>, x)
    BY DEF AnalyzerTimeOf, Optional, insert_analyzertime, Single
  <2>3. Select(R, "analyzer_time", pt, id, << >>) = Single("analyzer_time", pt, id, << >>, x)
    BY <2>1, <2>2, RowFields DEF Select, Single
  <2> QED BY <2>3, LeafRead DEF get_analyzer_time
<1>4. ASSUME Agrees(R, OverflowOf(id, x), {"overflow_alert"}, NoType, id) PROVE get_overflow_alert(R, id) = x
  <2>1. Select(R, "overflow_alert", NoType, id, << >>) = Select(OverflowOf(id, x), "overflow_alert", NoType, id, << >>)
    BY <1>4, AgreesSelect
  <2>2. OverflowOf(id, x) = Single("overflow_alert", NoType, id, << >>, x)
    BY DEF OverflowOf, Optional, insert_overflow_alert, Single
  <2>3. Select(R, "overflow_alert", NoType, id, << >>) = Single("overflow_alert", NoType, id, << >>, x)
    BY <2>1, <2>2, RowFields DEF Select, Single
  <2> QED BY <2>3, LeafRead DEF get_overflow_alert
<1> QED BY <1>1, <1>2, <1>3, <1>4

\* get_additional_data, when nothing follows a piece of data that fetch_field takes for NULL.
LEMMA DataRead ==
  ASSUME NEW R, NEW pt, NEW id, NEW list, ListOf(IsLeaf, list),
         Agrees(R, DataOf(pt, id, list), {"additional_data"}, pt, id),
         \A k \in DOMAIN list : EmptyIsNull /\ list[k].v = Empty => k = Len(list)
  PROVE  get_additional_data(R, id, pt) = list
<1> DEFINE stop == {k \in DOMAIN list : EmptyIsNull /\ list[k].v = Empty}
           last == CHOOSE k \in stop : \A j \in stop : k <= j
<1>0. IsList(list)
  BY DEF ListOf
<1>1. DataOf(pt, id, list) = Leafs("additional_data", pt, id, << >>, list)
  BY <1>0, ListedLeafs DEF DataOf, Listed, insert_additional_data
<1>2. Select(R, "additional_data", pt, id, << >>) = Leafs("additional_data", pt, id, << >>, list)
  <2>1. Select(R, "additional_data", pt, id, << >>) = Select(DataOf(pt, id, list), "additional_data", pt, id, << >>)
    BY AgreesSelect
  <2> QED BY <1>1, <2>1, LeafRows DEF Select
<1>3. Leaves(Select(R, "additional_data", pt, id, << >>)) = list
  BY <1>0, <1>2, LeafsListed, LeavesRead
<1>4. get_additional_data(R, id, pt) = IF stop = {} THEN list ELSE SubSeq(list, 1, last)
  BY <1>3 DEF get_additional_data
<1>5. ASSUME stop # {} PROVE SubSeq(list, 1, last) = list
  <2>1. Len(list) \in Nat /\ \A k \in stop : k = Len(list)
    BY <1>0, ListForm
  <2>2. Len(list) \in stop
    BY <1>5, <2>1
  <2>3. last = Len(list)
    BY <2>1, <2>2
  <2>4. SubSeq(list, 1, Len(list)) = [i \in 1..Len(list) |-> list[i]]
    BY <1>0 DEF IsList
  <2> QED BY <1>0, <2>3, <2>4, ListForm
<1> QED BY <1>4, <1>5

\* get_classification reads what insert_classification wrote.
LEMMA ClassificationRead ==
  ASSUME NEW R, NEW id, NEW x, OptionOf(IsClassification, x),
         Agrees(R, ClassificationOf(id, x), {"classification"}, NoType, id),
         Agrees(R, ClassificationOf(id, x), {"reference"}, NoType, id)
  PROVE  get_classification(R, id) = x
<1> DEFINE A == ClassificationOf(id, x)
           S == Select(R, "classification", NoType, id, << >>)
           L == Select(R, "reference", NoType, id, << >>)
<1>0. IsOption(x) /\ \A k \in DOMAIN x : IsClassification(x[k]) /\ IsList(x[k].reference)
  BY DEF OptionOf, IsClassification, ListOf
<1>1. S = Select(A, "classification", NoType, id, << >>) /\ L = Select(A, "reference", NoType, id, << >>)
  BY AgreesSelect
<1>a. \A k \in DOMAIN x : insert_classification(id, x[k]) = {Row("classification", NoType, id, << >>, NoIndex, x[k].v)}
                            \cup Leafs("reference", NoType, id, << >>, x[k].reference)
  BY <1>0, ListedLeafs DEF insert_classification, insert_reference, Listed
<1>2. \A r : r \in A <=> \E k \in DOMAIN x :
                 \/ r = Row("classification", NoType, id, << >>, NoIndex, x[k].v)
                 \/ r \in Leafs("reference", NoType, id, << >>, x[k].reference)
  <2>1. \A r : r \in A <=> \E k \in DOMAIN x : r \in insert_classification(id, x[k])
    BY DEF ClassificationOf, Optional
  <2> QED BY <1>a, <2>1
<1> HIDE DEF A
<1>3. S = Single("classification", NoType, id, << >>, x)
  BY <1>1, <1>2, RowFields, LeafRows DEF Select, Single
<1>4. ASSUME NEW k \in DOMAIN x PROVE L = Leafs("reference", NoType, id, << >>, x[k].reference)
  <2>1. \A i \in DOMAIN x : i = k
    BY <1>0, OptionOnce
  <2> QED BY <1>1, <1>2, <2>1, RowFields, LeafRows DEF Select
<1> HIDE DEF S, L
<1>5. get_classification(R, id) = IF S = {} THEN << >> ELSE <<[v |-> (CHOOSE r \in S : TRUE).v, reference |-> Leaves(L)]>>
  BY DEF get_classification, First, get_reference, S, L
<1>6. Absent(S, x) \/ Present(S, x)
  BY <1>0, <1>3, OptionRead
<1>7. CASE Absent(S, x)
  BY <1>5, <1>7 DEF Absent
<1>8. CASE Present(S, x)
  <2>1. ListOf(IsLeaf, x[1].reference) /\ x[1] = [v |-> x[1].v, reference |-> x[1].reference]
    BY <1>0, <1>8 DEF IsClassification, Present
  <2>2. Lists(L, "reference", NoType, id, << >>, x[1].reference)
    BY <1>0, <1>4, <1>8, LeafsListed DEF Present
  <2>3. Leaves(L) = x[1].reference
    BY <2>1, <2>2, LeavesRead
  <2> QED BY <1>5, <1>8, <2>1, <2>3 DEF Present
<1> QED BY <1>6, <1>7, <1>8

\* get_tool_alert reads what insert_tool_alert wrote.
LEMMA ToolRead ==
  ASSUME NEW R, NEW id, NEW x, OptionOf(HasIdents, x),
         Agrees(R, ToolOf(id, x), {"tool_alert"}, NoType, id),
         Agrees(R, ToolOf(id, x), {"alertident"}, "T", id)
  PROVE  get_tool_alert(R, id) = x
<1> DEFINE A == ToolOf(id, x)
           S == Select(R, "tool_alert", NoType, id, << >>)
           L == Select(R, "alertident", "T", id, << >>)
<1>0. IsOption(x) /\ \A k \in DOMAIN x : HasIdents(x[k]) /\ IsList(x[k].alertident)
  BY DEF OptionOf, HasIdents, ListOf
<1>1. S = Select(A, "tool_alert", NoType, id, << >>) /\ L = Select(A, "alertident", "T", id, << >>)
  BY AgreesSelect
<1>a. \A k \in DOMAIN x : insert_tool_alert(id, x[k]) = {Row("tool_alert", NoType, id, << >>, NoIndex, x[k].v)}
                            \cup Numbered("alertident", "T", id, << >>, x[k].alertident)
  BY <1>0 DEF insert_tool_alert, insert_alertident, ListedOnce, Numbered
<1>2. \A r : r \in A <=> \E k \in DOMAIN x :
                 \/ r = Row("tool_alert", NoType, id, << >>, NoIndex, x[k].v)
                 \/ r \in Numbered("alertident", "T", id, << >>, x[k].alertident)
  <2>1. \A r : r \in A <=> \E k \in DOMAIN x : r \in insert_tool_alert(id, x[k])
    BY DEF ToolOf, Optional
  <2> QED BY <1>a, <2>1
<1> HIDE DEF A
<1>3. S = Single("tool_alert", NoType, id, << >>, x)
  BY <1>1, <1>2, RowFields, NumberedIn DEF Select, Single
<1>4. ASSUME NEW k \in DOMAIN x PROVE L = Numbered("alertident", "T", id, << >>, x[k].alertident)
  <2>1. \A i \in DOMAIN x : i = k
    BY <1>0, OptionOnce
  <2> QED BY <1>1, <1>2, <2>1, RowFields, NumberedIn DEF Select
<1> HIDE DEF S, L
<1>5. get_tool_alert(R, id) = IF S = {} THEN << >> ELSE <<[v |-> (CHOOSE r \in S : TRUE).v, alertident |-> Leaves(L)]>>
  BY DEF get_tool_alert, First, get_alertident, S, L
<1>6. Absent(S, x) \/ Present(S, x)
  BY <1>0, <1>3, OptionRead
<1>7. CASE Absent(S, x)
  BY <1>5, <1>7 DEF Absent
<1>8. CASE Present(S, x)
  <2>1. ListOf(IsLeaf, x[1].alertident) /\ x[1] = [v |-> x[1].v, alertident |-> x[1].alertident]
    BY <1>0, <1>8 DEF HasIdents, Present
  <2>2. Lists(L, "alertident", "T", id, << >>, x[1].alertident)
    BY <1>0, <1>4, <1>8, NumberedListed DEF Present
  <2>3. Leaves(L) = x[1].alertident
    BY <2>1, <2>2, LeavesRead
  <2> QED BY <1>5, <1>8, <2>1, <2>3 DEF Present
<1> QED BY <1>6, <1>7, <1>8

\* get_correlation_alert reads what insert_correlation_alert wrote.
LEMMA CorrelationRead ==
  ASSUME NEW R, NEW id, NEW x, OptionOf(HasIdents, x),
         Agrees(R, CorrelationOf(id, x), {"correlation_alert"}, NoType, id),
         Agrees(R, CorrelationOf(id, x), {"alertident"}, "C", id)
  PROVE  get_correlation_alert(R, id) = x
<1> DEFINE A == CorrelationOf(id, x)
           S == Select(R, "correlation_alert", NoType, id, << >>)
           L == Select(R, "alertident", "C", id, << >>)
<1>0. IsOption(x) /\ \A k \in DOMAIN x : HasIdents(x[k]) /\ IsList(x[k].alertident)
  BY DEF OptionOf, HasIdents, ListOf
<1>1. S = Select(A, "correlation_alert", NoType, id, << >>) /\ L = Select(A, "alertident", "C", id, << >>)
  BY AgreesSelect
<1>a. \A k \in DOMAIN x : insert_correlation_alert(id, x[k]) = {Row("correlation_alert", NoType, id, << >>, NoIndex, x[k].v)}
                            \cup Leafs("alertident", "C", id, << >>, x[k].alertident)
  BY <1>0, ListedLeafs DEF insert_correlation_alert, insert_alertident, Listed
<1>2. \A r : r \in A <=> \E k \in DOMAIN x :
                 \/ r = Row("correlation_alert", NoType, id, << >>, NoIndex, x[k].v)
                 \/ r \in Leafs("alertident", "C", id, << >>, x[k].alertident)
  <2>1. \A r : r \in A <=> \E k \in DOMAIN x : r \in insert_correlation_alert(id, x[k])
    BY DEF CorrelationOf, Optional
  <2> QED BY <1>a, <2>1
<1> HIDE DEF A
<1>3. S = Single("correlation_alert", NoType, id, << >>, x)
  BY <1>1, <1>2, RowFields, LeafRows DEF Select, Single
<1>4. ASSUME NEW k \in DOMAIN x PROVE L = Leafs("alertident", "C", id, << >>, x[k].alertident)
  <2>1. \A i \in DOMAIN x : i = k
    BY <1>0, OptionOnce
  <2> QED BY <1>1, <1>2, <2>1, RowFields, LeafRows DEF Select
<1> HIDE DEF S, L
<1>5. get_correlation_alert(R, id) = IF S = {} THEN << >> ELSE <<[v |-> (CHOOSE r \in S : TRUE).v, alertident |-> Leaves(L)]>>
  BY DEF get_correlation_alert, First, get_alertident, S, L
<1>6. Absent(S, x) \/ Present(S, x)
  BY <1>0, <1>3, OptionRead
<1>7. CASE Absent(S, x)
  BY <1>5, <1>7 DEF Absent
<1>8. CASE Present(S, x)
  <2>1. ListOf(IsLeaf, x[1].alertident) /\ x[1] = [v |-> x[1].v, alertident |-> x[1].alertident]
    BY <1>0, <1>8 DEF HasIdents, Present
  <2>2. Lists(L, "alertident", "C", id, << >>, x[1].alertident)
    BY <1>0, <1>4, <1>8, LeafsListed DEF Present
  <2>3. Leaves(L) = x[1].alertident
    BY <2>1, <2>2, LeavesRead
  <2> QED BY <1>5, <1>8, <2>1, <2>3 DEF Present
<1> QED BY <1>6, <1>7, <1>8

\* get_assessment reads what insert_assessment wrote.
LEMMA AssessmentRead ==
  ASSUME NEW R, NEW id, NEW x, OptionOf(IsAssessment, x),
         Agrees(R, AssessmentOf(id, x), AssessmentTables, NoType, id)
  PROVE  get_assessment(R, id) = x
<1> DEFINE A == AssessmentOf(id, x)
           S == Select(R, "assessment", NoType, id, << >>)
           I == Select(R, "impact", NoType, id, << >>)
           C == Select(R, "confidence", NoType, id, << >>)
           L == Select(R, "action", NoType, id, << >>)
<1>0. IsOption(x) /\ \A k \in DOMAIN x : IsAssessment(x[k]) /\ IsList(x[k].action)
  BY DEF OptionOf, IsAssessment, ListOf
<1>1. /\ S = Select(A, "assessment", NoType, id, << >>) /\ I = Select(A, "impact", NoType, id, << >>)
      /\ C = Select(A, "confidence", NoType, id, << >>) /\ L = Select(A, "action", NoType, id, << >>)
  BY AgreesSelect DEF AssessmentTables
<1>2. \A r : r \in A <=> \E k \in DOMAIN x :
                 \/ r = Row("assessment", NoType, id, << >>, NoIndex, Empty)
                 \/ r \in Single("impact", NoType, id, << >>, x[k].impact)
                 \/ r \in Single("confidence", NoType, id, << >>, x[k].confidence)
                 \/ r \in Leafs("action", NoType, id, << >>, x[k].action)
  <2>1. \A r : r \in A <=> \E k \in DOMAIN x : r \in insert_assessment(id, x[k])
    BY DEF AssessmentOf, Optional
  <2>2. ASSUME NEW k \in DOMAIN x
        PROVE  insert_assessment(id, x[k]) = {Row("assessment", NoType, id, << >>, NoIndex, Empty)}
                 \cup Single("impact", NoType, id, << >>, x[k].impact)
                 \cup Single("confidence", NoType, id, << >>, x[k].confidence)
                 \cup Leafs("action", NoType, id, << >>, x[k].action)
    <3>1. Listed(LAMBDA i, y : insert_action(id, i, y), x[k].action) = Leafs("action", NoType, id, << >>, x[k].action)
      BY <1>0, ListedLeafs DEF insert_action, Listed
    <3> QED BY <3>1 DEF insert_assessment, Optional, insert_impact, insert_confidence, Single
  <2> QED BY <2>1, <2>2
<1> HIDE DEF A
<1>3. \A t, y : \A r \in Single(t, NoType, id, << >>, y) : r.t = t /\ r.pt = NoType /\ r.id = id /\ r.p = << >>
  BY RowFields DEF Single
<1>4. S = {Row("assessment", NoType, id, << >>, NoIndex, Empty) : k \in DOMAIN x}
  BY <1>1, <1>2, <1>3, RowFields, LeafRows DEF Select
<1>5. ASSUME NEW k \in DOMAIN x
      PROVE  /\ I = Single("impact", NoType, id, << >>, x[k].impact)
             /\ C = Single("confidence", NoType, id, << >>, x[k].confidence)
             /\ L = Leafs("action", NoType, id, << >>, x[k].action)
  <2>1. \A i \in DOMAIN x : i = k
    BY <1>0, OptionOnce
  <2>2. I = Single("impact", NoType, id, << >>, x[k].impact)
    BY <1>1, <1>2, <1>3, <2>1, RowFields, LeafRows DEF Select
  <2>3. C = Single("confidence", NoType, id, << >>, x[k].confidence)
    BY <1>1, <1>2, <1>3, <2>1, RowFields, LeafRows DEF Select
  <2>4. L = Leafs("action", NoType, id, << >>, x[k].action)
    BY <1>1, <1>2, <1>3, <2>1, RowFields, LeafRows DEF Select
  <2> QED BY <2>2, <2>3, <2>4
<1> HIDE DEF S, I, C, L
<1>6. get_assessment(R, id) =
        IF S = {} THEN << >> ELSE <<[impact |-> First(I, Leaf), confidence |-> First(C, Leaf), action |-> Leaves(L)]>>
  BY DEF get_assessment, First, get_impact, get_confidence, get_action, S, I, C, L
<1>7. CASE DOMAIN x = {}
  <2>1. Len(x) = 0
    BY <1>0, <1>7, ListForm DEF IsOption
  <2>2. x = << >>
    BY <1>0, <2>1, EmptySeq DEF IsOption, IsList
  <2> QED BY <1>4, <1>6, <1>7, <2>2
<1>8. CASE DOMAIN x # {}
  <2>1. Len(x) = 1 /\ DOMAIN x = {1}
    <3>1. Len(x) \in Nat /\ Len(x) <= 1 /\ DOMAIN x = 1..Len(x)
      BY <1>0, ListForm DEF IsOption
    <3> QED BY <1>8, <3>1
  <2>2. x = <<x[1]>>
    BY <1>0, <2>1 DEF IsOption, IsList
  <2>3. S # {}
    BY <1>4, <2>1
  <2>4. /\ x[1] = [impact |-> x[1].impact, confidence |-> x[1].confidence, action |-> x[1].action]
        /\ OptionOf(IsLeaf, x[1].impact) /\ OptionOf(IsLeaf, x[1].confidence) /\ ListOf(IsLeaf, x[1].action)
    BY <1>0, <2>1 DEF IsAssessment
  <2>5. First(I, Leaf) = x[1].impact /\ First(C, Leaf) = x[1].confidence
    BY <1>5, <2>1, <2>4, LeafRead
  <2>6. Leaves(L) = x[1].action
    BY <1>0, <1>5, <2>1, <2>4, LeafsListed, LeavesRead
  <2> QED BY <1>6, <2>2, <2>3, <2>4, <2>5, <2>6
<1> QED BY <1>7, <1>8

-----------------------------------------------------------------------------
(***************************************************************************)
(* Alerts and heartbeats                                                   *)
(***************************************************************************)

\* The rows of R under the ident and of the type of the message are all its rows.
Holds(R, id, m) == \A r : r.id = id /\ TypeOf(r) = m.type => (r \in R <=> r \in AllRows(id, m))

\* Only the message's own row is in the tables of messages.
LEMMA HoldsBelow ==
  ASSUME NEW R, NEW id, NEW m, IsMessage(m), Holds(R, id, m)
  PROVE  /\ \A r : r.id = id /\ TypeOf(r) = m.type /\ r.t \notin Types => (r \in R <=> r \in insert_below(id, m))
         /\ Select(R, m.type, NoType, id, << >>) = {message_row(m, id)}
<1> DEFINE own == message_row(m, id)
<1>1. /\ own.t = m.type /\ own.t \in Types /\ own.id = id /\ TypeOf(own) = m.type
      /\ own.pt = NoType /\ own.p = << >>
  <2>1. own.t = m.type /\ own.t \in Types /\ own.id = id /\ TypeOf(own) = m.type
    BY MessageRow
  <2>2. own.pt = NoType /\ own.p = << >>
    BY RowFields DEF message_row
  <2> QED BY <2>1, <2>2
<1>2. \A r \in insert_below(id, m) : r.t \notin Types
  BY BelowRows
<1>3. \A r : r \in AllRows(id, m) <=> r = own \/ r \in insert_below(id, m)
  BY DEF AllRows
<1>4. m.type \in Types /\ \A r : r.t = m.type /\ r.pt = NoType => TypeOf(r) = m.type
  BY DEF IsMessage, Types, TypeOf, NoType
<1> HIDE DEF own
<1>5. \A r : r.id = id /\ TypeOf(r) = m.type /\ r.t \notin Types => (r \in R <=> r \in insert_below(id, m))
  BY <1>1, <1>3 DEF Holds
<1>6. Select(R, m.type, NoType, id, << >>) = {own}
  <2>1. ASSUME NEW r \in Select(R, m.type, NoType, id, << >>) PROVE r = own
    <3>1. r \in R /\ r.t = m.type /\ r.pt = NoType /\ r.id = id
      BY DEF Select
    <3>2. r \in AllRows(id, m)
      BY <1>4, <3>1 DEF Holds
    <3> QED BY <1>2, <1>3, <1>4, <3>1, <3>2
  <2>2. own \in Select(R, m.type, NoType, id, << >>)
    BY <1>1, <1>3 DEF Holds, Select
  <2> QED BY <2>1, <2>2
<1> QED BY <1>5, <1>6 DEF own

\* What is readable of a message is readable among the rows it is read from.
LEMMA KeptRows ==
  ASSUME NEW R, NEW B, NEW pt, NEW data, Readable(B, data),
         \A r \in R : r.pt = pt /\ r.t \in {"process"} \cup StringTables => r \in B
  PROVE  StringsKept(R, pt) /\ ArgsKept(R, pt)
<1>1. StringsKept(R, pt)
  <2> SUFFICES ASSUME NEW r \in R, r.pt = pt, EmptyIsNull, r.v = Empty, r.t \in StringTables PROVE FALSE
    BY DEF StringsKept
  <2>1. r \in B
    OBVIOUS
  <2> QED BY <2>1 DEF Readable, StringTables
<1>2. ArgsKept(R, pt)
  <2> SUFFICES ASSUME NEW r \in R, NEW q \in R, r.t = "process_arg", q.t = "process", r.pt = pt, q.pt = pt
               PROVE  AsChar(q.p[1]) = r.p[1] <=> q.p = r.p
    BY DEF ArgsKept
  <2>1. r \in B /\ q \in B
    BY DEF StringTables
  <2> QED BY <2>1 DEF Readable
<1> QED BY <1>1, <1>2

\* classic_get_heartbeat reads back a heartbeat.
LEMMA HeartbeatRead ==
  ASSUME NEW R, NEW id, NEW m, IsMessage(m), m.type = "heartbeat", Holds(R, id, m),
         Readable(insert_below(id, m), m.additional_data)
  PROVE  classic_get_heartbeat(R, id) = m
<1> DEFINE Own == {r \in R : r.id = id}
           S == Select(R, "heartbeat", NoType, id, << >>)
           B == insert_heartbeat(id, m)
           create == CreateOf("H", id, m.create_time)
           time == AnalyzerTimeOf("H", id, m.analyzer_time)
           data == DataOf("H", id, m.additional_data)
           analyzers == AnalyzersOf("H", id, m.analyzer)
<1>0. /\ IsHeartbeat(m) /\ OptionOf(IsLeaf, m.create_time) /\ OptionOf(IsLeaf, m.analyzer_time)
      /\ ListOf(IsAnalyzer, m.analyzer) /\ ListOf(IsLeaf, m.additional_data)
  BY DEF IsMessage
<1>1. insert_below(id, m) = B
  BY DEF insert_below
<1>2. S = {message_row(m, id)} /\ message_row(m, id).v = m.v
  BY HoldsBelow DEF message_row, Row
<1>3. ASSUME NEW r, r.pt = "H", r.id = id, r.t \notin Types PROVE r \in Own <=> r \in B
  <2>1. TypeOf(r) = m.type
    BY <1>3 DEF TypeOf
  <2>2. r \in R <=> r \in B
    BY <1>1, <1>3, <2>1, HoldsBelow
  <2> QED BY <1>3, <2>2
<1>4. B = analyzers \cup create \cup time \cup data
  BY DEF insert_heartbeat, CreateOf, AnalyzerTimeOf, DataOf, AnalyzersOf
<1>5. (\A r \in create : r.t = "create_time") /\ (\A r \in time : r.t = "analyzer_time")
  BY <1>0, TimeRows DEF OptionOf
<1>6. \A r \in data : r.t = "additional_data"
  BY <1>0, DataRows DEF ListOf
<1>7. \A r \in analyzers : r.t \in {"analyzer"} \cup AnalyzerTables
  BY <1>0, AnalyzersRows DEF ListOf
<1>8. {"create_time", "analyzer_time", "additional_data"} \cap AnalyzerTables = {}
  BY DEF AnalyzerTables, NodeTables, ProcessTables
<1>9. Types \cap ({"create_time", "analyzer_time", "additional_data", "analyzer"} \cup AnalyzerTables) = {}
  BY DEF AnalyzerTables, NodeTables, ProcessTables, Types
<1> HIDE DEF create, time, data, analyzers, B, Own
<1>10. Agrees(Own, create, {"create_time"}, "H", id) /\ Agrees(Own, time, {"analyzer_time"}, "H", id)
  BY <1>3, <1>4, <1>5, <1>6, <1>7, <1>8, <1>9 DEF Agrees
<1>11. Agrees(Own, data, {"additional_data"}, "H", id)
  BY <1>3, <1>4, <1>5, <1>6, <1>7, <1>8, <1>9 DEF Agrees
<1>12. Agrees(Own, analyzers, {"analyzer"} \cup AnalyzerTables, "H", id)
  BY <1>3, <1>4, <1>5, <1>6, <1>7, <1>8, <1>9 DEF Agrees
<1>13. StringsKept(Own, "H") /\ ArgsKept(Own, "H")
  <2>1. \A r \in Own : r.pt = "H" /\ r.t \in {"process"} \cup StringTables => r \in B
    BY <1>3 DEF StringTables, Types, Own
  <2> QED BY <1>1, <2>1, KeptRows
<1>14. get_create_time(Own, id, "H") = m.create_time /\ get_analyzer_time(Own, id, "H") = m.analyzer_time
  BY <1>0, <1>10, TimesRead DEF create, time
<1>15. get_additional_data(Own, id, "H") = m.additional_data
  BY <1>0, <1>11, DataRead DEF data, Readable
<1>16. get_analyzer(Own, id, "H") = m.analyzer
  BY <1>0, <1>12, <1>13, AnalyzersRead DEF analyzers
<1>17. classic_get_heartbeat(R, id) =
         IF S = {} THEN NotFound
         ELSE [type |-> "heartbeat", v |-> (CHOOSE r \in S : TRUE).v,
               analyzer |-> get_analyzer(Own, id, "H"),
               create_time |-> get_create_time(Own, id, "H"),
               analyzer_time |-> get_analyzer_time(Own, id, "H"),
               additional_data |-> get_additional_data(Own, id, "H")]
  BY DEF classic_get_heartbeat, get_heartbeat_row, Own
<1> HIDE DEF S
<1>18. S # {} /\ (CHOOSE r \in S : TRUE).v = m.v
  BY <1>2
<1> QED BY <1>0, <1>14, <1>15, <1>16, <1>17, <1>18 DEF IsHeartbeat

\* The tables of the parts of an alert that stand alone in them.
LoneTables == {"create_time", "detect_time", "analyzer_time", "overflow_alert", "additional_data",
               "classification", "reference", "tool_alert", "correlation_alert", "alertident"}
                \cup AssessmentTables

\* Each part of an alert is told from the others by its tables and its parent types.
LEMMA AlertParts ==
  ASSUME NEW R, NEW id, NEW m, IsMessage(m), m.type = "alert",
         \A r : r.id = id /\ r.pt # "H" /\ r.t \notin Types => (r \in R <=> r \in insert_alert(id, m))
  PROVE  /\ Agrees(R, CreateOf("A", id, m.create_time), {"create_time"}, "A", id)
         /\ Agrees(R, DetectOf(id, m.detect_time), {"detect_time"}, NoType, id)
         /\ Agrees(R, AnalyzerTimeOf("A", id, m.analyzer_time), {"analyzer_time"}, "A", id)
         /\ Agrees(R, OverflowOf(id, m.overflow_alert), {"overflow_alert"}, NoType, id)
         /\ Agrees(R, DataOf("A", id, m.additional_data), {"additional_data"}, "A", id)
         /\ Agrees(R, AssessmentOf(id, m.assessment), AssessmentTables, NoType, id)
         /\ Agrees(R, ClassificationOf(id, m.classification), {"classification"}, NoType, id)
         /\ Agrees(R, ClassificationOf(id, m.classification), {"reference"}, NoType, id)
         /\ Agrees(R, ToolOf(id, m.tool_alert), {"tool_alert"}, NoType, id)
         /\ Agrees(R, ToolOf(id, m.tool_alert), {"alertident"}, "T", id)
         /\ Agrees(R, CorrelationOf(id, m.correlation_alert), {"correlation_alert"}, NoType, id)
         /\ Agrees(R, CorrelationOf(id, m.correlation_alert), {"alertident"}, "C", id)
         /\ Agrees(R, AnalyzersOf("A", id, m.analyzer), {"analyzer"} \cup AnalyzerTables, "A", id)
         /\ Agrees(R, SourcesOf(id, m.source), {"source"}, NoType, id)
         /\ Agrees(R, SourcesOf(id, m.source), EndTables, "S", id)
         /\ Agrees(R, TargetsOf(id, m.target), {"target"} \cup FileTables, NoType, id)
         /\ Agrees(R, TargetsOf(id, m.target), EndTables, "T", id)
         /\ Agrees(R, TargetsOf(id, m.target), {"user_id"}, "F", id)
<1> DEFINE create == CreateOf("A", id, m.create_time)
           detect == DetectOf(id, m.detect_time)
           time == AnalyzerTimeOf("A", id, m.analyzer_time)
           overflow == OverflowOf(id, m.overflow_alert)
           data == DataOf("A", id, m.additional_data)
           assess == AssessmentOf(id, m.assessment)
           class == ClassificationOf(id, m.classification)
           tool == ToolOf(id, m.tool_alert)
           corr == CorrelationOf(id, m.correlation_alert)
           an == AnalyzersOf("A", id, m.analyzer)
           so == SourcesOf(id, m.source)
           ta == TargetsOf(id, m.target)
           B == insert_alert(id, m)
<1>0. IsAlert(m) /\ OptionOf(IsLeaf, m.create_time) /\ OptionOf(IsLeaf, m.analyzer_time)
      /\ ListOf(IsAnalyzer, m.analyzer) /\ ListOf(IsLeaf, m.additional_data)
  BY DEF IsMessage
<1>1. B = create \cup detect \cup time \cup assess \cup tool \cup overflow \cup corr
            \cup an \cup so \cup ta \cup class \cup data
  BY DEF insert_alert, CreateOf, DetectOf, AnalyzerTimeOf, OverflowOf, DataOf, AssessmentOf,
         ClassificationOf, ToolOf, CorrelationOf, AnalyzersOf, SourcesOf, TargetsOf
<1>2. (\A r \in create : r.t = "create_time") /\ (\A r \in time : r.t = "analyzer_time")
  BY <1>0, TimeRows DEF OptionOf
<1>3. (\A r \in detect : r.t = "detect_time") /\ (\A r \in overflow : r.t = "overflow_alert")
  <2>1. IsOption(m.detect_time) /\ IsOption(m.overflow_alert)
    BY <1>0 DEF IsAlert, OptionOf
  <2> QED BY <2>1, TimeRows
<1>4. \A r \in data : r.t = "additional_data"
  BY <1>0, DataRows DEF ListOf
<1>5. (\A r \in assess : r.t \in AssessmentTables) /\ (\A r \in class : r.t \in {"classification", "reference"})
  <2>1. /\ IsOption(m.assessment) /\ \A k \in DOMAIN m.assessment : IsAssessment(m.assessment[k])
        /\ IsOption(m.classification)
        /\ \A k \in DOMAIN m.classification : IsList(m.classification[k].reference)
    BY <1>0 DEF IsAlert, IsClassification, OptionOf, ListOf
  <2>2. Part(assess, AssessmentTables, id) /\ Part(class, {"classification", "reference"}, id)
    BY <2>1, OptionRows
  <2> HIDE DEF assess, class
  <2> QED BY <2>2 DEF Part
<1>6. /\ \A r \in tool : (r.t = "tool_alert" /\ r.pt = NoType) \/ (r.t = "alertident" /\ r.pt = "T")
      /\ \A r \in corr : (r.t = "correlation_alert" /\ r.pt = NoType) \/ (r.t = "alertident" /\ r.pt = "C")
  <2>1. /\ \A k \in DOMAIN m.tool_alert : IsList(m.tool_alert[k].alertident)
        /\ \A k \in DOMAIN m.correlation_alert : IsList(m.correlation_alert[k].alertident)
    BY <1>0 DEF IsAlert, HasIdents, OptionOf, ListOf
  <2>2. /\ \A r \in tool : \E k \in DOMAIN m.tool_alert : r \in insert_tool_alert(id, m.tool_alert[k])
        /\ \A r \in corr : \E k \in DOMAIN m.correlation_alert :
                             r \in insert_correlation_alert(id, m.correlation_alert[k])
    BY DEF ToolOf, CorrelationOf, Optional
  <2> HIDE DEF tool, corr
  <2> QED BY <2>1, <2>2, ToolRows, CorrelationRows
<1>7. \A r \in an : r.t \in {"analyzer"} \cup AnalyzerTables /\ r.pt = "A"
  BY <1>0, AnalyzersRows DEF ListOf
<1>8. \A r \in so : (r.t = "source" /\ r.pt = NoType) \/ (r.t \in EndTables /\ r.pt = "S")
  BY <1>0, SourcesRows DEF IsAlert, ListOf
<1>9. \A r \in ta : \/ r.t = "target" /\ r.pt = NoType
                    \/ r.t \in EndTables /\ r.pt = "T"
                    \/ r.t \in FileTables /\ r.pt = NoType
                    \/ r.t = "user_id" /\ r.pt = "F"
  BY <1>0, TargetsRows DEF IsAlert, ListOf
<1>10. /\ (LoneTables \cup {"analyzer", "source", "target"}) \cap ((AnalyzerTables \cup EndTables) \cup FileTables) = {}
       /\ {"analyzer", "source", "target", "user_id"} \cap (LoneTables \cup FileTables) = {}
  BY DEF LoneTables, AssessmentTables, AnalyzerTables, EndTables, NodeTables, UserTables, ProcessTables,
         ServiceTables, FileTables
<1>11. Types \cap (((LoneTables \cup {"analyzer", "source", "target", "user_id"}) \cup EndTables)
                     \cup (AnalyzerTables \cup FileTables)) = {}
  BY DEF LoneTables, AssessmentTables, AnalyzerTables, EndTables, NodeTables, UserTables, ProcessTables,
         ServiceTables, FileTables, Types
<1>12. EndTables \cap FileTables = {} /\ "user_id" \in EndTables
  BY DEF EndTables, NodeTables, UserTables, ProcessTables, ServiceTables, FileTables
<1> DEFINE acts == (an \cup so) \cup ta
           lone == (((((((create \cup detect) \cup time) \cup overflow) \cup data) \cup assess) \cup class) \cup tool) \cup corr
<1>13. \A r \in lone : r.t \in LoneTables
  BY <1>2, <1>3, <1>4, <1>5, <1>6 DEF LoneTables
<1>14. \A r \in acts : r.t \notin LoneTables
  BY <1>7, <1>8, <1>9, <1>10
<1>15. B = lone \cup acts
  BY <1>1
<1>16. \A r : r.id = id /\ r.pt # "H" /\ r.t \in LoneTables => (r \in R <=> r \in lone)
  <2> HIDE DEF lone, acts, B
  <2> QED BY <1>11, <1>14, <1>15 DEF B
<1>17. \A r : r.id = id /\ r.pt # "H" /\ r.t \notin LoneTables /\ r.t \notin Types => (r \in R <=> r \in acts)
  <2> HIDE DEF lone, acts, B
  <2> QED BY <1>13, <1>15 DEF B
<1> HIDE DEF create, detect, time, overflow, data, assess, class, tool, corr, an, so, ta, B
<1>20. /\ Agrees(R, create, {"create_time"}, "A", id) /\ Agrees(R, detect, {"detect_time"}, NoType, id)
       /\ Agrees(R, time, {"analyzer_time"}, "A", id) /\ Agrees(R, overflow, {"overflow_alert"}, NoType, id)
  BY <1>2, <1>3, <1>4, <1>5, <1>6, <1>16 DEF Agrees, LoneTables, AssessmentTables, NoType
<1>21. Agrees(R, data, {"additional_data"}, "A", id) /\ Agrees(R, assess, AssessmentTables, NoType, id)
  BY <1>2, <1>3, <1>4, <1>5, <1>6, <1>16 DEF Agrees, LoneTables, AssessmentTables, NoType
<1>22. Agrees(R, class, {"classification"}, NoType, id) /\ Agrees(R, class, {"reference"}, NoType, id)
  BY <1>2, <1>3, <1>4, <1>5, <1>6, <1>16 DEF Agrees, LoneTables, AssessmentTables, NoType
<1>23. Agrees(R, tool, {"tool_alert"}, NoType, id) /\ Agrees(R, tool, {"alertident"}, "T", id)
  BY <1>2, <1>3, <1>4, <1>5, <1>6, <1>16 DEF Agrees, LoneTables, AssessmentTables, NoType
<1>24. Agrees(R, corr, {"correlation_alert"}, NoType, id) /\ Agrees(R, corr, {"alertident"}, "C", id)
  BY <1>2, <1>3, <1>4, <1>5, <1>6, <1>16 DEF Agrees, LoneTables, AssessmentTables, NoType
<1> HIDE DEF lone
<1>25. Agrees(R, an, {"analyzer"} \cup AnalyzerTables, "A", id)
  BY <1>7, <1>8, <1>9, <1>10, <1>11, <1>17 DEF Agrees, NoType
<1>26. Agrees(R, so, {"source"}, NoType, id)
  BY <1>7, <1>8, <1>9, <1>10, <1>11, <1>17 DEF Agrees, NoType
<1>27. Agrees(R, so, EndTables, "S", id)
  BY <1>7, <1>8, <1>9, <1>10, <1>11, <1>17 DEF Agrees, NoType
<1>28. Agrees(R, ta, {"target"} \cup FileTables, NoType, id)
  BY <1>7, <1>8, <1>9, <1>10, <1>11, <1>12, <1>17 DEF Agrees, NoType
<1>29. Agrees(R, ta, EndTables, "T", id)
  BY <1>7, <1>8, <1>9, <1>10, <1>11, <1>17 DEF Agrees, NoType
<1>30. Agrees(R, ta, {"user_id"}, "F", id)
  BY <1>7, <1>8, <1>9, <1>10, <1>11, <1>12, <1>17 DEF Agrees, NoType
<1> QED BY <1>20, <1>21, <1>22, <1>23, <1>24, <1>25, <1>26, <1>27, <1>28, <1>29, <1>30
        DEF create, detect, time, overflow, data, assess, class, tool, corr, an, so, ta

\* classic_get_alert reads back an alert.
LEMMA AlertRead ==
  ASSUME NEW R, NEW id, NEW m, IsMessage(m), m.type = "alert", Holds(R, id, m),
         Readable(insert_below(id, m), m.additional_data)
  PROVE  classic_get_alert(R, id) = m
<1> DEFINE Own == {r \in R : r.id = id}
           S == Select(R, "alert", NoType, id, << >>)
           B == insert_alert(id, m)
<1>0. /\ IsAlert(m) /\ OptionOf(IsLeaf, m.create_time) /\ OptionOf(IsLeaf, m.analyzer_time)
      /\ ListOf(IsAnalyzer, m.analyzer) /\ ListOf(IsLeaf, m.additional_data)
  BY DEF IsMessage
<1>1. insert_below(id, m) = B
  BY DEF insert_below
<1>2. S = {message_row(m, id)} /\ message_row(m, id).v = m.v
  BY HoldsBelow DEF message_row, Row
<1>3. ASSUME NEW r, r.pt # "H", r.id = id, r.t \notin Types PROVE r \in Own <=> r \in B
  <2>1. TypeOf(r) = m.type
    BY <1>3 DEF TypeOf, Types
  <2>2. r \in R <=> r \in B
    BY <1>1, <1>3, <2>1, HoldsBelow
  <2> QED BY <1>3, <2>2
<1>4. ASSUME NEW pt, pt # "H" PROVE StringsKept(Own, pt) /\ ArgsKept(Own, pt)
  <2>1. \A r \in Own : r.pt = pt /\ r.t \in {"process"} \cup StringTables => r \in B
    BY <1>3, <1>4 DEF StringTables, Types
  <2> HIDE DEF Own
  <2> QED BY <1>1, <2>1, KeptRows
<1>a. "A" # "H" /\ "S" # "H" /\ "T" # "H" /\ NoType # "H"
  BY DEF NoType
<1>5. classic_get_alert(R, id) =
        IF S = {} THEN NotFound
        ELSE [type |-> "alert", v |-> (CHOOSE r \in S : TRUE).v,
              assessment |-> get_assessment(Own, id),
              analyzer |-> get_analyzer(Own, id, "A"),
              create_time |-> get_create_time(Own, id, "A"),
              detect_time |-> get_detect_time(Own, id),
              analyzer_time |-> get_analyzer_time(Own, id, "A"),
              source |-> get_source(Own, id),
              target |-> get_target(Own, id),
              classification |-> get_classification(Own, id),
              additional_data |-> get_additional_data(Own, id, "A"),
              tool_alert |-> get_tool_alert(Own, id),
              correlation_alert |-> get_correlation_alert(Own, id),
              overflow_alert |-> get_overflow_alert(Own, id)]
  BY DEF classic_get_alert, get_alert_messageid
<1> HIDE DEF Own, S, B
<1>6. \A r : r.id = id /\ r.pt # "H" /\ r.t \notin Types => (r \in Own <=> r \in insert_alert(id, m))
  BY <1>3 DEF B
<1>7. get_create_time(Own, id, "A") = m.create_time /\ get_analyzer_time(Own, id, "A") = m.analyzer_time
  BY <1>0, <1>6, AlertParts, TimesRead
<1>8. get_detect_time(Own, id) = m.detect_time /\ get_overflow_alert(Own, id) = m.overflow_alert
  <2>1. OptionOf(IsLeaf, m.detect_time) /\ OptionOf(IsLeaf, m.overflow_alert)
    BY <1>0 DEF IsAlert
  <2>2. /\ Agrees(Own, DetectOf(id, m.detect_time), {"detect_time"}, NoType, id)
        /\ Agrees(Own, OverflowOf(id, m.overflow_alert), {"overflow_alert"}, NoType, id)
    BY <1>6, AlertParts
  <2> QED BY <2>1, <2>2, TimesRead
<1>9. get_additional_data(Own, id, "A") = m.additional_data
  <2>1. Agrees(Own, DataOf("A", id, m.additional_data), {"additional_data"}, "A", id)
    BY <1>6, AlertParts
  <2>2. \A k \in DOMAIN m.additional_data :
          EmptyIsNull /\ m.additional_data[k].v = Empty => k = Len(m.additional_data)
    BY DEF Readable
  <2> QED BY <1>0, <2>1, <2>2, DataRead
<1>10. get_assessment(Own, id) = m.assessment
  BY <1>0, <1>6, AlertParts, AssessmentRead DEF IsAlert
<1>11. get_classification(Own, id) = m.classification
  BY <1>0, <1>6, AlertParts, ClassificationRead DEF IsAlert
<1>12. get_tool_alert(Own, id) = m.tool_alert
  BY <1>0, <1>6, AlertParts, ToolRead DEF IsAlert
<1>13. get_correlation_alert(Own, id) = m.correlation_alert
  BY <1>0, <1>6, AlertParts, CorrelationRead DEF IsAlert
<1>14. get_analyzer(Own, id, "A") = m.analyzer
  BY <1>0, <1>4, <1>6, <1>a, AlertParts, AnalyzersRead
<1>15. get_source(Own, id) = m.source
  BY <1>0, <1>4, <1>6, <1>a, AlertParts, SourcesRead DEF IsAlert
<1>16. get_target(Own, id) = m.target
  BY <1>0, <1>4, <1>6, <1>a, AlertParts, TargetsRead DEF IsAlert
<1>17. S # {} /\ (CHOOSE r \in S : TRUE).v = m.v
  BY <1>2
<1>18. m = [type |-> "alert", v |-> m.v, assessment |-> m.assessment, analyzer |-> m.analyzer,
            create_time |-> m.create_time, detect_time |-> m.detect_time,
            analyzer_time |-> m.analyzer_time, source |-> m.source, target |-> m.target,
            classification |-> m.classification, additional_data |-> m.additional_data,
            tool_alert |-> m.tool_alert, correlation_alert |-> m.correlation_alert,
            overflow_alert |-> m.overflow_alert]
  BY <1>0 DEF IsAlert
<1> QED BY <1>5, <1>7, <1>8, <1>9, <1>10, <1>11, <1>12, <1>13, <1>14, <1>15, <1>16, <1>17, <1>18

-----------------------------------------------------------------------------
(***************************************************************************)
(* What is in the tables is read back                                      *)
(***************************************************************************)

\* No two messages of one type have the same ident.
IdentsUnique == \A s, q \in stored : s.type = q.type /\ s.id = q.id => s = q

\* The server hands out each ident once.
LEMMA UniqueStep ==
  ASSUME TablesInv, IdentsUnique, [Next]_vars
  PROVE  IdentsUnique'
<1>1. CASE stored' \subseteq stored
  BY <1>1 DEF IdentsUnique
<1>2. ASSUME NEW w \in Writers, InsertRows(w), ~(stored' \subseteq stored) PROVE IdentsUnique'
  <2> DEFINE new == [type |-> msg[w].type, id |-> given[w], m |-> msg[w]]
  <2>1. pc[w] = "identified" /\ stored' = stored \cup {new}
    BY <1>2 DEF InsertRows
  <2>2. new.type = msg[w].type /\ new.id = given[w]
    OBVIOUS
  <2>3. \A s \in stored : s.type = msg[w].type => s.id < given[w]
    BY <2>1 DEF TablesInv, Inserting
  <2>4. given[w] \in Nat /\ \A s \in stored : s.id \in Nat
    BY <2>1 DEF TablesInv, Inserting, IdentsUsed
  <2> HIDE DEF new
  <2>5. \A s \in stored : ~(s.type = new.type /\ s.id = new.id)
    BY <2>2, <2>3, <2>4
  <2> QED BY <2>1, <2>5 DEF IdentsUnique
<1>3. (\E w \in Writers : InsertRows(w)) \/ stored' \subseteq stored
  BY DEF Next, vars, InsertMessage, ReadIdent, AbortInsert, DeleteAlerts, DeleteHeartbeats
<1> QED BY <1>1, <1>2, <1>3

\* Under the ident of a message that is stored are its rows.
LEMMA StoredHolds ==
  ASSUME TablesInv, IdentsUnique, NEW s \in stored
  PROVE  s.m \in Messages /\ s.type = s.m.type /\ Holds(rows, s.id, s.m)
<1>1. s.m \in Messages /\ s.type = s.m.type
  BY DEF TablesInv, IdentsUsed
<1>2. ASSUME NEW r, r.id = s.id, TypeOf(r) = s.m.type, r \in rows PROVE r \in AllRows(s.id, s.m)
  <2>1. PICK q \in stored : r \in AllRows(q.id, q.m) /\ q.id = r.id /\ q.type = TypeOf(r)
    BY <1>2, RowsOwned DEF TablesInv
  <2>2. q = s
    BY <1>1, <1>2, <2>1 DEF IdentsUnique
  <2> QED BY <2>1, <2>2
<1>3. AllRows(s.id, s.m) \subseteq rows
  BY DEF TablesInv, TablesExact
<1> QED BY <1>1, <1>2, <1>3 DEF Holds

\* In such a state every message is read back as it was inserted.
LEMMA TablesRead ==
  ASSUME TablesInv, IdentsUnique
  PROVE  RoundTrip
<1> SUFFICES ASSUME NEW y \in Types, NEW i \in Idents
             PROVE  LET here == {s \in stored : s.type = y /\ s.id = i}
                    IN  IF here = {} THEN Get(y, i) = NotFound
                        ELSE \A s \in here :
                               Readable(insert_below(i, s.m), s.m.additional_data) => Get(y, i) = s.m
  BY DEF RoundTrip
<1>1. ASSUME NEW s \in stored, s.type = y, s.id = i, Readable(insert_below(i, s.m), s.m.additional_data)
      PROVE  Get(y, i) = s.m
  <2>1. s.m \in Messages /\ s.m.type = y /\ Holds(rows, i, s.m)
    BY <1>1, StoredHolds
  <2>2. IsMessage(s.m)
    BY <2>1, MessagesAssumption
  <2>3. CASE y = "alert"
    BY <1>1, <2>1, <2>2, <2>3, AlertRead DEF Get
  <2>4. CASE y = "heartbeat"
    BY <1>1, <2>1, <2>2, <2>4, HeartbeatRead DEF Get
  <2> QED BY <2>3, <2>4 DEF Types
<1>2. ASSUME \A s \in stored : ~(s.type = y /\ s.id = i) PROVE Get(y, i) = NotFound
  <2>1. Select(rows, y, NoType, i, << >>) = {}
    <3> SUFFICES ASSUME NEW r \in Select(rows, y, NoType, i, << >>) PROVE FALSE
      OBVIOUS
    <3>1. r \in rows /\ r.t = y /\ r.pt = NoType /\ r.id = i
      BY DEF Select
    <3>2. TypeOf(r) = y
      BY <3>1 DEF TypeOf, Types, NoType
    <3>3. PICK s \in stored : s.id = r.id /\ s.type = TypeOf(r)
      BY <3>1, RowsOwned DEF TablesInv
    <3> QED BY <1>2, <3>1, <3>2, <3>3
  <2> QED BY <2>1 DEF Get, classic_get_alert, classic_get_heartbeat, get_alert_messageid, get_heartbeat_row, Types
<1> QED BY <1>1, <1>2

\* Whatever is inserted, aborted and deleted, in whatever order, classic_get_alert and
\* classic_get_heartbeat give back each message that is in the database, of any shape and
\* size, element by element as it was inserted, and an error for an ident without one.
THEOREM RoundTripCorrect ==
  ASSUME Serialized = TRUE
  PROVE  Spec => []RoundTrip
<1>1. Init => IdentsUnique
  BY DEF Init, IdentsUnique
<1>2. TablesInv /\ IdentsUnique /\ [Next]_vars => IdentsUnique'
  BY UniqueStep
<1>3. TablesInv /\ IdentsUnique => RoundTrip
  BY TablesRead
<1>4. Spec => []TablesInv
  BY TablesInvariant
<1> QED BY <1>1, <1>2, <1>3, <1>4, PTL DEF Spec
=============================================================================
