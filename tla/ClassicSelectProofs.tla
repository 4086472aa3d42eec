--------------------------- MODULE ClassicSelectProofs ---------------------------
(***************************************************************************)
(* Proofs about ClassicSelect, for any messages, fields, criteria and       *)
(* bounds.                                                                  *)
(***************************************************************************)
EXTENDS ClassicSelect, FiniteSetTheorems, SequenceTheorems, WellFoundedInduction, TLAPS

-----------------------------------------------------------------------------
(* Sets of numbers. *)

\* A set of naturals that is not empty has a smallest member.
LEMMA NatHasMin ==
    ASSUME NEW T, T \subseteq Nat, T # {}
    PROVE  \E x \in T : \A y \in T : x <= y
<1>1. PICK x \in T : \A y \in T : ~(<<y, x>> \in OpToRel(<, Nat))
    BY NatLessThanWellFounded, WFMin, Zenon
<1>2. \A y \in T : ~(y < x)
    BY <1>1 DEF OpToRel
<1> QED  BY <1>2

\* The first member Min chooses is one.
LEMMA MinMember ==
    ASSUME NEW T, T \subseteq Nat, T # {}
    PROVE  Min(T) \in T /\ \A y \in T : Min(T) <= y
BY NatHasMin DEF Min

\* A set of numbers up to n that is not empty has a largest member, which Max chooses.
LEMMA MaxMember ==
    ASSUME NEW n \in Nat, NEW T, T \subseteq 1 .. n, T # {}
    PROVE  Max(T) \in T /\ \A y \in T : Max(T) >= y
<1> DEFINE U == {n - y : y \in T}
<1>1. U \subseteq Nat
    OBVIOUS
<1>5. U # {}
    <2>1. PICK y : y \in T
        OBVIOUS
    <2>2. n - y \in U
        BY <2>1, Zenon
    <2> QED  BY <2>2, Zenon
<1>2. PICK u \in U : \A y \in U : u <= y
    BY <1>1, <1>5, NatHasMin, Zenon
<1>3. PICK x \in T : u = n - x
    BY Zenon
<1>4. ASSUME NEW y \in T PROVE x >= y
    <2>1. n - y \in U
        BY <1>4, Zenon
    <2>2. u <= n - y
        BY <2>1, <1>2
    <2> QED  BY <2>2, <1>3
<1> QED  BY <1>4 DEF Max

-----------------------------------------------------------------------------
(* Sequences. *)

\* An element of a sequence.
LEMMA SeqMember ==
    ASSUME NEW T, NEW s \in Seq(T), NEW k \in DOMAIN s
    PROVE  s[k] \in T
OBVIOUS

\* A part of two sequences is the same when their elements are.
LEMMA SubSeqSame ==
    ASSUME NEW T, NEW s \in Seq(T), NEW t \in Seq(T), NEW m \in Nat, NEW n \in Int,
           m >= 1, n <= Len(s), n <= Len(t), \A k \in m .. n : s[k] = t[k]
    PROVE  SubSeq(s, m, n) = SubSeq(t, m, n)
OBVIOUS

\* All but the last element of a sequence.
LEMMA FrontMember ==
    ASSUME NEW T, NEW s \in Seq(T), NEW k \in 1 .. Len(s) - 1
    PROVE  Front(s)[k] = s[k]
BY DEF Front

\* Paths have elements from their first to their last.
LEMMA PathSequence ==
    ASSUME NEW p, IsPath(p)
    PROVE  /\ p \in Seq({p[k] : k \in DOMAIN p}) /\ DOMAIN p = 1 .. Len(p)
           /\ Len(p) \in Nat /\ Len(p) >= 2
           /\ \A k \in 1 .. Len(p) : p[k].n \in {"alert", "heartbeat"} <=> k = 1
BY DEF IsPath, IsList

-----------------------------------------------------------------------------
(* The number of columns get_value takes. *)

\* The number of columns read for the fields of a sequence, as sql_cnt adds them up.
ColumnsRead(s) == FoldLeft(LAMBDA n, f : n + get_value_columns(f.sel), 0, s)

\* The fields among those at the positions in I that are read as three columns.
Wide(s, I) == {j \in I : get_value_columns(s[j].sel) = 3}

\* The closed form of the sum.
ColumnsAt(s, I) == Cardinality(I) + 2 * Cardinality(Wide(s, I))

\* Taking one position away takes the columns of its field away.
LEMMA ColumnsAtRemove ==
    ASSUME NEW s, NEW I, IsFiniteSet(I), NEW x \in I
    PROVE  /\ ColumnsAt(s, I) \in Nat
           /\ ColumnsAt(s, I) = ColumnsAt(s, I \ {x}) + get_value_columns(s[x].sel)
<1> DEFINE J == I \ {x}
<1>1. /\ IsFiniteSet(J) /\ Cardinality(J) = Cardinality(I) - 1
      /\ Cardinality(I) \in Nat
    BY FS_RemoveElement, FS_CardinalityType
<1>2. IsFiniteSet(Wide(s, I)) /\ Cardinality(Wide(s, I)) \in Nat
    BY FS_Subset, FS_CardinalityType DEF Wide
<1>3. CASE get_value_columns(s[x].sel) = 3
    <2>1. x \in Wide(s, I) /\ Wide(s, J) = Wide(s, I) \ {x}
        BY <1>3 DEF Wide
    <2>2. Cardinality(Wide(s, J)) = Cardinality(Wide(s, I)) - 1
        BY <2>1, <1>2, FS_RemoveElement
    <2> QED  BY <1>1, <1>2, <1>3, <2>2 DEF ColumnsAt
<1>4. CASE get_value_columns(s[x].sel) # 3
    <2>1. Wide(s, J) = Wide(s, I)
        BY <1>4 DEF Wide
    <2>2. get_value_columns(s[x].sel) = 1
        BY <1>4 DEF get_value_columns
    <2> QED  BY <1>1, <1>2, <2>1, <2>2 DEF ColumnsAt
<1> QED  BY <1>3, <1>4

\* The sum over a sequence is its closed form: the fold's recursive function is the
\* closed form at every set of positions, by the size of the set.
LEMMA ColumnsReadIs ==
    ASSUME NEW n \in Nat, NEW s, DOMAIN s = 1 .. n
    PROVE  ColumnsRead(s) = ColumnsAt(s, 1 .. n)
<1> DEFINE D == 1 .. n
           Body(g, I) == IF I = {} THEN 0
                         ELSE g[I \ {Max(I)}] + get_value_columns(s[Max(I)].sel)
           IsIter(g) == g = [I \in SUBSET D |-> Body(g, I)]
           iter == CHOOSE g : IsIter(g)
           W == [I \in SUBSET D |-> ColumnsAt(s, I)]
<1>1. ColumnsRead(s) = iter[D]
    BY DEF ColumnsRead, FoldLeft, MapThenFoldSet
<1>5. ASSUME NEW I \in SUBSET D PROVE IsFiniteSet(I) /\ Cardinality(I) \in Nat
    <2>1. IsFiniteSet(D)
        BY FS_Interval
    <2>2. IsFiniteSet(I)
        BY <1>5, <2>1, FS_Subset, Zenon
    <2> QED  BY <2>2, FS_CardinalityType, Zenon
<1>2. IsIter(W)
    <2>1. ASSUME NEW I \in SUBSET D PROVE W[I] = Body(W, I)
        <3>1. IsFiniteSet(I)
            BY <1>5, <2>1, Zenon
        <3>2. CASE I = {}
            <4>1. Wide(s, I) = {}
                BY <3>2 DEF Wide
            <4> QED  BY <3>2, <4>1, FS_EmptySet DEF ColumnsAt
        <3>3. CASE I # {}
            <4>1. Max(I) \in I
                BY <3>3, MaxMember
            <4>2. I \ {Max(I)} \in SUBSET D
                OBVIOUS
            <4>3. ColumnsAt(s, I) = ColumnsAt(s, I \ {Max(I)}) + get_value_columns(s[Max(I)].sel)
                BY <3>1, <4>1, ColumnsAtRemove, Zenon
            <4> QED  BY <3>3, <4>2, <4>3
        <3> QED  BY <3>2, <3>3
    <2>2. W = [I \in SUBSET D |-> W[I]]
        OBVIOUS
    <2> QED  BY <2>1, <2>2, Zenon
<1>3. IsIter(iter)
    BY <1>2, Zenon
<1>4. \A I \in SUBSET D : iter[I] = Body(iter, I)
    BY <1>3, Zenon
<1> DEFINE Bad == {I \in SUBSET D : iter[I] # W[I]}
           Sizes == {Cardinality(I) : I \in Bad}
<1>6. ASSUME Bad # {} PROVE FALSE
    <2>1. Sizes \subseteq Nat
        BY <1>5
    <2>2. Sizes # {}
        <3>1. PICK I : I \in Bad
            BY <1>6, Zenon
        <3>2. Cardinality(I) \in Sizes
            BY <3>1, Zenon
        <3> QED  BY <3>2, Zenon
    <2>3. PICK m \in Sizes : \A k \in Sizes : m <= k
        BY <2>1, <2>2, NatHasMin, Zenon
    <2>4. PICK I \in Bad : m = Cardinality(I)
        BY Zenon
    <2>5. I \in SUBSET D /\ iter[I] # W[I]
        BY <2>4, Zenon
    <2>6. I # {}
        <3>1. SUFFICES ASSUME I = {} PROVE FALSE
            OBVIOUS
        <3>2. iter[I] = 0
            BY <1>4, <2>5, <3>1, Zenon
        <3>3. W[I] = 0
            BY <1>2, <2>5, <3>1, Zenon
        <3> QED  BY <2>5, <3>2, <3>3
    <2> DEFINE J == I \ {Max(I)}
    <2>7. Max(I) \in I
        BY <2>5, <2>6, MaxMember
    <2>8. J \in SUBSET D /\ Cardinality(J) < Cardinality(I)
        <3>1. IsFiniteSet(I) /\ Cardinality(I) \in Nat
            BY <1>5, <2>5, Zenon
        <3>2. Cardinality(J) = Cardinality(I) - 1
            BY <3>1, <2>7, FS_RemoveElement
        <3>3. J \in SUBSET D
            BY <2>5
        <3> HIDE DEF J
        <3>4. Cardinality(J) < Cardinality(I)
            BY <3>1, <3>2
        <3> QED  BY <3>3, <3>4
    <2>9. J \notin Bad
        <3>1. SUFFICES ASSUME J \in Bad PROVE FALSE
            OBVIOUS
        <3>2. Cardinality(J) \in Sizes
            BY <3>1, Zenon
        <3>3. Cardinality(I) <= Cardinality(J)
            BY <3>2, <2>3, <2>4, Zenon
        <3> QED  BY <3>3, <2>8, <1>5, <2>5
    <2>10. iter[J] = W[J]
        BY <2>8, <2>9, Zenon
    <2>11. W[I] = Body(W, I)
        BY <1>2, <2>5, Zenon
    <2>12. iter[I] = Body(iter, I)
        BY <1>4, <2>5, Zenon
    <2> QED  BY <2>5, <2>6, <2>10, <2>11, <2>12, Zenon
<1>7. iter[D] = W[D]
    BY <1>6, Zenon
<1> QED  BY <1>1, <1>7, Zenon

-----------------------------------------------------------------------------
(* The tables of a join. *)

\* The paths, the fields and the tables there can be.
AllSelected ==
    Selectable \cup {ident(class) : class \in {"alert", "heartbeat"}}
        \cup {by_create_time(class) : class \in {"alert", "heartbeat"}}
AllPaths == Criteria \cup {sel.path : sel \in AllSelected}
AllTables == {new_table(path) : path \in AllPaths}

\* The type of the state.
TypeOK ==
    /\ query \in {"values", "idents"}
    /\ top \in {"none", "alert", "heartbeat"}
    /\ tables \in Seq(AllTables)
    /\ fields \in Seq([sel : AllSelected, tbl : Nat])
    /\ columns \in Seq(Nat)
    /\ field_count \in Nat
    /\ modifiers \subseteq [field : Nat, at : Nat]
    /\ where \in Seq([path : Criteria, tbl : Nat])
    /\ failed \in BOOLEAN
    /\ query = "idents" => top # "none"

\* The fields get_message_idents adds are fields like any other.
LEMMA SelectedType ==
    ASSUME NEW sel \in AllSelected
    PROVE  IsSelected(sel) /\ sel.path \in AllPaths
<1>1. ASSUME NEW class \in {"alert", "heartbeat"}, NEW name \in {"_ident", "create_time"}
      PROVE  IsPath(<<[n |-> class, x |-> Forbidden], [n |-> name, x |-> Forbidden]>>)
    <2> DEFINE p == <<[n |-> class, x |-> Forbidden], [n |-> name, x |-> Forbidden]>>
    <2>1. /\ IsList(p) /\ Len(p) = 2
          /\ p[1].n = class /\ p[2].n = name
        BY DEF IsList
    <2> HIDE DEF p
    <2>2. DOMAIN p = 1 .. 2
        BY <2>1 DEF IsList
    <2>3. \A k \in DOMAIN p : p[k].n \in {"alert", "heartbeat"} <=> k = 1
        BY <1>1, <2>1, <2>2
    <2>4. <<ClassOf(p).n, LastOf(p).n>> = <<class, name>>
        BY <2>1 DEF ClassOf, LastOf
    <2>5. <<class, name>> \notin StringLists
        BY <1>1 DEF StringLists
    <2>6. IsPath(p)
        BY <2>1, <2>3, <2>4, <2>5 DEF IsPath
    <2> QED  BY <2>6 DEF p
<1>2. ASSUME NEW class \in {"alert", "heartbeat"}
      PROVE  IsSelected(ident(class)) /\ IsSelected(by_create_time(class))
    BY <1>1 DEF IsSelected, ident, by_create_time
<1>3. IsSelected(sel)
    BY <1>2, PathsAssumption DEF AllSelected
<1> QED  BY <1>3 DEF AllPaths

\* Every path there can be is one.
LEMMA PathType ==
    ASSUME NEW path \in AllPaths
    PROVE  IsPath(path)
BY SelectedType, PathsAssumption DEF AllPaths, IsSelected

\* A table is the one of its path.
LEMMA TableType ==
    ASSUME NEW table \in AllTables
    PROVE  /\ IsPath(table.path) /\ table.t = resolve_table_name(table.path)
           /\ table.parents = resolve_parents(table.path)
           /\ table.own = resolve_own(table.path)
BY PathType DEF AllTables, new_table

\* The table that is looked up is one of the join, and the test holds of its path.
LEMMA LookupFinds ==
    ASSUME TypeOK, NEW path
    PROVE  /\ lookup_table(path) \in 0 .. Len(tables)
           /\ lookup_table(path) # 0 => same_table(path, tables[lookup_table(path)].path)
<1> DEFINE I == {i \in 1 .. Len(tables) : same_table(path, tables[i].path)}
<1>1. lookup_table(path) = IF I # {} THEN Min(I) ELSE 0
    BY DEF lookup_table, SelectInSeq
<1>2. Len(tables) \in Nat
    BY DEF TypeOK
<1>3. I \subseteq Nat
    BY <1>2
<1>4. CASE I # {}
    <2>1. Min(I) \in I
        BY <1>3, <1>4, MinMember
    <2> QED  BY <1>1, <1>2, <1>4, <2>1
<1>5. CASE I = {}
    BY <1>1, <1>2, <1>5
<1> QED  BY <1>4, <1>5

\* A path is of the table it starts.
LEMMA SameTableReflexive ==
    ASSUME NEW path
    PROVE  same_table(path, path)
BY DEF same_table

\* What classic_path_resolve gives: no table, for a path of another class; or a table of
\* the join, which keeps those it has, for the path.
LEMMA ResolveGives ==
    ASSUME TypeOK, NEW path, IsPath(path), NEW r, r = classic_path_resolve(path)
    PROVE  \/ r.tbl = Conflict /\ r.top = top /\ r.tables = tables
           \/ r.tbl = 0 /\ InTopTable(path) /\ r.top = top /\ r.tables = tables
           \/ /\ r.tbl \in 1 .. Len(tables) /\ ~InTopTable(path)
              /\ same_table(path, tables[r.tbl].path)
              /\ r.top = top /\ r.tables = tables
           \/ /\ r.tbl = Len(tables) + 1 /\ ~InTopTable(path)
              /\ top \in {"none", path[1].n} /\ r.top = path[1].n
              /\ r.tables = Append(tables, new_table(path))
<1>1. Len(tables) \in Nat
    BY DEF TypeOK
<1> QED  BY <1>1, LookupFinds DEF classic_path_resolve

\* The tables of the join are those of the class the query is FROM.
TopInv == \A k \in DOMAIN tables : tables[k].path[1].n = top

\* tbl is 0, or the table of path in a join.
Placed(join, path, tbl) ==
    /\ tbl \in 0 .. Len(join)
    /\ tbl # 0 => ~InTopTable(path) /\ same_table(path, join[tbl].path)

\* Every field and every criterion has its table.
UsesPlaced ==
    /\ \A k \in DOMAIN fields : Placed(tables, fields[k].sel.path, fields[k].tbl)
    /\ \A k \in DOMAIN where : Placed(tables, where[k].path, where[k].tbl)

JoinInv == TypeOK /\ TopInv /\ UsesPlaced

\* The part of a step that resolves a path: the join keeps its type and its class, the
\* tables found before stay what they are, and the path gets its table.
LEMMA ResolveKeepsJoin ==
    ASSUME JoinInv, NEW path \in AllPaths, NEW r, r = classic_path_resolve(path),
           top' = r.top, tables' = r.tables
    PROVE  /\ top' \in {"none", "alert", "heartbeat"} /\ (top # "none" => top' = top)
           /\ tables' \in Seq(AllTables)
           /\ TopInv'
           /\ \A p, t : Placed(tables, p, t) => Placed(tables', p, t)
           /\ r.tbl # Conflict => r.tbl \in Nat /\ Placed(tables', path, r.tbl)
<1>1. IsPath(path)
    BY PathType
<1>2. /\ tables \in Seq(AllTables) /\ Len(tables) \in Nat
      /\ top \in {"none", "alert", "heartbeat"}
    BY DEF JoinInv, TypeOK
<1>3. CASE top' = top /\ tables' = tables
    <2>1. \A p, t : Placed(tables, p, t) => Placed(tables', p, t)
        BY <1>3 DEF Placed
    <2>2. TopInv'
        BY <1>3 DEF JoinInv, TopInv
    <2>3. r.tbl # Conflict => r.tbl \in Nat /\ Placed(tables', path, r.tbl)
        <3>1. r.tables = tables
            BY <1>3
        <3>2. Append(tables, new_table(path)) # tables
            BY <1>2
        <3> QED  BY <1>1, <1>2, <1>3, <3>1, <3>2, ResolveGives DEF JoinInv, Placed
    <2> QED  BY <1>2, <1>3, <2>1, <2>2, <2>3
<1>4. CASE /\ r.tbl = Len(tables) + 1 /\ ~InTopTable(path)
           /\ top \in {"none", path[1].n} /\ r.top = path[1].n
           /\ r.tables = Append(tables, new_table(path))
    <2>1. path[1].n \in {"alert", "heartbeat"}
        BY <1>1 DEF IsPath, IsList
    <2>2. new_table(path) \in AllTables /\ new_table(path).path = path
        BY DEF AllTables, new_table
    <2>3. /\ tables' \in Seq(AllTables) /\ Len(tables') = Len(tables) + 1
          /\ \A k \in 1 .. Len(tables) : tables'[k] = tables[k]
          /\ tables'[Len(tables) + 1] = new_table(path)
          /\ DOMAIN tables' = 1 .. Len(tables) + 1 /\ DOMAIN tables = 1 .. Len(tables)
        BY <1>2, <1>4, <2>2
    <2>4. \A p, t : Placed(tables, p, t) => Placed(tables', p, t)
        BY <1>2, <2>3 DEF Placed
    <2>5. \A k \in DOMAIN tables : tables[k].path[1].n = path[1].n
        <3>1. CASE top = "none"
            <4>1. ASSUME NEW k \in DOMAIN tables PROVE FALSE
                <5>1. tables[k] \in AllTables
                    BY <1>2
                <5>2. IsPath(tables[k].path)
                    BY <5>1, TableType
                <5>3. tables[k].path[1].n \in {"alert", "heartbeat"}
                    BY <5>2 DEF IsPath, IsList
                <5> QED  BY <3>1, <5>3 DEF JoinInv, TopInv
            <4> QED  BY <4>1
        <3>2. CASE top = path[1].n
            BY <3>2 DEF JoinInv, TopInv
        <3> QED  BY <1>4, <3>1, <3>2
    <2>6. TopInv'
        BY <1>2, <1>4, <2>2, <2>3, <2>5 DEF TopInv
    <2>7. r.tbl \in Nat /\ Placed(tables', path, r.tbl)
        BY <1>2, <1>4, <2>2, <2>3, SameTableReflexive DEF Placed
    <2> QED  BY <1>4, <2>1, <2>3, <2>4, <2>6, <2>7
<1>5. \/ top' = top /\ tables' = tables
      \/ /\ r.tbl = Len(tables) + 1 /\ ~InTopTable(path)
         /\ top \in {"none", path[1].n} /\ r.top = path[1].n
         /\ r.tables = Append(tables, new_table(path))
    BY <1>1, ResolveGives DEF JoinInv
<1> QED  BY <1>3, <1>4, <1>5

-----------------------------------------------------------------------------
(* The invariant of the join. *)

\* A field that is added is the last one, with its columns at the end.
LEMMA AddField ==
    ASSUME TypeOK, NEW sel \in AllSelected, NEW tbl \in Nat, add_field(sel, tbl)
    PROVE  /\ fields' \in Seq([sel : AllSelected, tbl : Nat])
           /\ Len(fields') = Len(fields) + 1
           /\ DOMAIN fields = 1 .. Len(fields) /\ DOMAIN fields' = 1 .. Len(fields) + 1
           /\ \A k \in 1 .. Len(fields) : fields'[k] = fields[k]
           /\ fields'[Len(fields) + 1] = [sel |-> sel, tbl |-> tbl]
BY DEF TypeOK, add_field

\* resolve_field_columns is 1 or 3.
LEMMA FieldColumns ==
    ASSUME NEW path, NEW fn
    PROVE  resolve_field_columns(path, fn) \in {1, 3}
BY DEF resolve_field_columns, message_field_columns, file_field_columns

\* What add_field does to the columns.
LEMMA AddColumns ==
    ASSUME TypeOK, NEW sel \in AllSelected, NEW tbl \in Nat, add_field(sel, tbl),
           NEW w, w = resolve_field_columns(sel.path, sel.fn)
    PROVE  /\ w \in {1, 3}
           /\ columns' \in Seq(Nat) /\ Len(columns') = Len(columns) + w
           /\ \A k \in 1 .. Len(columns) : columns'[k] = columns[k]
           /\ \A k \in Len(columns) + 1 .. Len(columns) + w : columns'[k] = Len(fields) + 1
           /\ DOMAIN columns = 1 .. Len(columns) /\ DOMAIN columns' = 1 .. Len(columns) + w
<1>1. w \in {1, 3}
    BY FieldColumns
<1>2. /\ columns \in Seq(Nat) /\ Len(columns) \in Nat /\ Len(fields) + 1 \in Nat
      /\ columns' = columns \o [k \in 1 .. w |-> Len(fields) + 1]
    BY DEF TypeOK, add_field
<1> DEFINE e == [k \in 1 .. w |-> Len(fields) + 1]
<1>3. e \in Seq(Nat) /\ Len(e) = w /\ \A k \in 1 .. w : e[k] = Len(fields) + 1
    BY <1>1, <1>2
<1> HIDE DEF e
<1>4. columns' = columns \o e
    BY <1>2 DEF e
<1>5. /\ columns' \in Seq(Nat) /\ Len(columns') = Len(columns) + w
      /\ \A k \in 1 .. Len(columns) + w :
            columns'[k] = IF k <= Len(columns) THEN columns[k] ELSE e[k - Len(columns)]
    <2>1. columns \in Seq(Nat) /\ e \in Seq(Nat) /\ Len(e) = w
        BY <1>2, <1>3
    <2>2. /\ columns \o e \in Seq(Nat) /\ Len(columns \o e) = Len(columns) + Len(e)
          /\ \A k \in 1 .. Len(columns) + Len(e) : (columns \o e)[k]
                = IF k <= Len(columns) THEN columns[k] ELSE e[k - Len(columns)]
        BY <2>1, ConcatProperties, Zenon
    <2> QED  BY <1>4, <2>1, <2>2, Zenon
<1>6. \A k \in 1 .. Len(columns) : columns'[k] = columns[k]
    BY <1>1, <1>2, <1>5
<1>7. \A k \in Len(columns) + 1 .. Len(columns) + w : columns'[k] = Len(fields) + 1
    BY <1>1, <1>2, <1>3, <1>5
<1>8. DOMAIN columns = 1 .. Len(columns) /\ DOMAIN columns' = 1 .. Len(columns) + w
    <2>1. columns \in Seq(Nat) /\ columns' \in Seq(Nat) /\ Len(columns') = Len(columns) + w
        BY <1>2, <1>5, Zenon
    <2> QED  BY <2>1
<1> QED  BY <1>1, <1>5, <1>6, <1>7, <1>8

\* Selecting a field keeps the join's invariant.
LEMMA SelectedKeepsJoin ==
    ASSUME JoinInv, NEW sel \in AllSelected, resolve_selected(sel)
    PROVE  JoinInv'
<1> DEFINE r == classic_path_resolve(sel.path)
<1>1. sel.path \in AllPaths
    BY DEF AllPaths
<1>2. top' = r.top /\ tables' = r.tables
    BY DEF resolve_selected
<1>3. /\ top' \in {"none", "alert", "heartbeat"} /\ (top # "none" => top' = top)
      /\ tables' \in Seq(AllTables)
      /\ TopInv'
      /\ \A p, t : Placed(tables, p, t) => Placed(tables', p, t)
      /\ r.tbl # Conflict => r.tbl \in Nat /\ Placed(tables', sel.path, r.tbl)
    <2> HIDE DEF r
    <2>1. r = classic_path_resolve(sel.path)
        BY DEF r
    <2> QED  BY <1>1, <1>2, <2>1, ResolveKeepsJoin
<1> HIDE DEF r
<1>4. /\ query' = query /\ where' = where /\ failed' \in BOOLEAN
      /\ IF r.tbl = Conflict THEN UNCHANGED <<fields, columns, field_count, modifiers>>
                             ELSE add_field(sel, r.tbl)
    BY DEF resolve_selected, r
<1>5. TypeOK
    BY DEF JoinInv
<1>6. CASE r.tbl = Conflict
    <2>1. UNCHANGED <<fields, columns, field_count, modifiers>>
        BY <1>4, <1>6
    <2>2. TypeOK'
        BY <1>3, <1>4, <1>5, <2>1 DEF TypeOK
    <2>3. UsesPlaced'
        BY <1>3, <1>4, <2>1 DEF JoinInv, UsesPlaced
    <2> QED  BY <1>3, <2>2, <2>3 DEF JoinInv
<1>7. CASE r.tbl # Conflict
    <2>1. r.tbl \in Nat /\ add_field(sel, r.tbl) /\ Placed(tables', sel.path, r.tbl)
        BY <1>3, <1>4, <1>7
    <2>2. /\ fields' \in Seq([sel : AllSelected, tbl : Nat])
          /\ DOMAIN fields = 1 .. Len(fields) /\ DOMAIN fields' = 1 .. Len(fields) + 1
          /\ \A k \in 1 .. Len(fields) : fields'[k] = fields[k]
          /\ fields'[Len(fields) + 1] = [sel |-> sel, tbl |-> r.tbl]
        BY <1>5, <2>1, AddField
    <2>3. columns' \in Seq(Nat)
        BY <1>5, <2>1, AddColumns
    <2>4. field_count' \in Nat /\ modifiers' \subseteq [field : Nat, at : Nat]
        <3>1. field_count \in Nat /\ Len(fields) \in Nat
            BY <1>5 DEF TypeOK
        <3>2. [field |-> Len(fields) + 1, at |-> order_position(field_count)]
                 \in [field : Nat, at : Nat]
            BY <3>1 DEF order_position
        <3> QED  BY <1>5, <2>1, <3>1, <3>2 DEF TypeOK, add_field
    <2>5. TypeOK'
        BY <1>3, <1>4, <1>5, <2>2, <2>3, <2>4 DEF TypeOK
    <2>6. \A k \in DOMAIN fields' : Placed(tables', fields'[k].sel.path, fields'[k].tbl)
        <3>1. ASSUME NEW k \in 1 .. Len(fields)
              PROVE  Placed(tables, fields[k].sel.path, fields[k].tbl)
            BY <2>2 DEF JoinInv, UsesPlaced
        <3>2. Len(fields) \in Nat
            BY <1>5 DEF TypeOK
        <3>3. ASSUME NEW k \in DOMAIN fields'
              PROVE  Placed(tables', fields'[k].sel.path, fields'[k].tbl)
            <4>1. CASE k \in 1 .. Len(fields)
                BY <1>3, <2>2, <3>1, <4>1
            <4>2. CASE k = Len(fields) + 1
                BY <2>1, <2>2, <4>2
            <4> QED  BY <2>2, <3>2, <4>1, <4>2
        <3> QED  BY <3>3
    <2>7. UsesPlaced'
        BY <1>3, <1>4, <2>6 DEF JoinInv, UsesPlaced
    <2> QED  BY <1>3, <2>5, <2>7 DEF JoinInv
<1> QED  BY <1>6, <1>7

\* So does adding a criterion.
LEMMA CriterionKeepsJoin ==
    ASSUME JoinInv, NEW path \in Criteria, Criterion(path)
    PROVE  JoinInv'
<1> DEFINE r == classic_path_resolve(path)
<1>1. path \in AllPaths
    BY DEF AllPaths
<1>2. /\ top' = r.top /\ tables' = r.tables /\ failed' = (r.tbl = Conflict)
      /\ where' = IF r.tbl = Conflict THEN where
                  ELSE Append(where, [path |-> path, tbl |-> r.tbl])
      /\ UNCHANGED <<query, fields, columns, field_count, modifiers>>
    BY DEF Criterion
<1> HIDE DEF r
<1>3. r = classic_path_resolve(path)
    BY DEF r
<1>4. /\ top' \in {"none", "alert", "heartbeat"} /\ (top # "none" => top' = top)
      /\ tables' \in Seq(AllTables)
      /\ TopInv'
      /\ \A p, t : Placed(tables, p, t) => Placed(tables', p, t)
      /\ r.tbl # Conflict => r.tbl \in Nat /\ Placed(tables', path, r.tbl)
    BY <1>1, <1>2, <1>3, ResolveKeepsJoin
<1>5. where \in Seq([path : Criteria, tbl : Nat]) /\ Len(where) \in Nat
    BY DEF JoinInv, TypeOK
<1>6. CASE r.tbl = Conflict
    <2>1. where' = where
        BY <1>2, <1>6
    <2> QED  BY <1>2, <1>4, <2>1 DEF JoinInv, TypeOK, UsesPlaced
<1>7. CASE r.tbl # Conflict
    <2> DEFINE u == [path |-> path, tbl |-> r.tbl]
    <2>1. where' = Append(where, u)
        BY <1>2, <1>7
    <2>2. u \in [path : Criteria, tbl : Nat] /\ Placed(tables', u.path, u.tbl)
        BY <1>4, <1>7
    <2> HIDE DEF u
    <2>3. /\ where' \in Seq([path : Criteria, tbl : Nat])
          /\ DOMAIN where = 1 .. Len(where) /\ DOMAIN where' = 1 .. Len(where) + 1
          /\ \A k \in 1 .. Len(where) : where'[k] = where[k]
          /\ where'[Len(where) + 1] = u
        BY <1>5, <2>1, <2>2
    <2>4. TypeOK'
        BY <1>2, <1>4, <2>3 DEF JoinInv, TypeOK
    <2>5. ASSUME NEW k \in DOMAIN where'
          PROVE  Placed(tables', where'[k].path, where'[k].tbl)
        <3>1. CASE k \in 1 .. Len(where)
            <4>1. Placed(tables, where[k].path, where[k].tbl)
                BY <2>3, <3>1 DEF JoinInv, UsesPlaced
            <4> QED  BY <1>4, <2>3, <3>1, <4>1
        <3>2. CASE k = Len(where) + 1
            BY <2>2, <2>3, <3>2
        <3> QED  BY <1>5, <2>3, <3>1, <3>2
    <2>6. UsesPlaced'
        BY <1>2, <1>4, <2>5 DEF JoinInv, UsesPlaced
    <2> QED  BY <1>4, <2>4, <2>6 DEF JoinInv
<1> QED  BY <1>6, <1>7

\* SetOrder adds a field there can be.
LEMMA SetOrderSelects ==
    ASSUME TypeOK, SetOrder
    PROVE  by_create_time(top) \in AllSelected /\ resolve_selected(by_create_time(top))
BY DEF TypeOK, SetOrder, AllSelected

\* The invariant of the join holds at first.
LEMMA InitJoin ==
    ASSUME Init
    PROVE  JoinInv
<1>1. ASSUME NEW class \in {"alert", "heartbeat"}
      PROVE  [sel |-> ident(class), tbl |-> 0] \in [sel : AllSelected, tbl : Nat]
    <2>1. ident(class) \in AllSelected
        BY <1>1, Zenon DEF AllSelected
    <2> QED  BY <2>1
<1>2. /\ fields \in Seq([sel : AllSelected, tbl : Nat])
      /\ \A k \in DOMAIN fields : fields[k].tbl = 0
    <2>1. CASE fields = << >>
        BY <2>1
    <2>2. CASE top \in {"alert", "heartbeat"} /\ fields = <<[sel |-> ident(top), tbl |-> 0]>>
        <3> DEFINE f == [sel |-> ident(top), tbl |-> 0]
        <3>1. f \in [sel : AllSelected, tbl : Nat] /\ f.tbl = 0
            BY <1>1, <2>2
        <3> HIDE DEF f
        <3>2. fields = <<f>>
            BY <2>2 DEF f
        <3> QED  BY <3>1, <3>2
    <2> QED  BY <2>1, <2>2 DEF Init
<1>3. tables = << >> /\ where = << >>
    BY DEF Init
<1>4. TypeOK
    <2>1. tables \in Seq(AllTables) /\ where \in Seq([path : Criteria, tbl : Nat])
        BY <1>3
    <2>2. columns \in Seq(Nat) /\ field_count \in Nat
        <3>1. << >> \in Seq(Nat) /\ <<1>> \in Seq(Nat) /\ 0 \in Nat /\ 1 \in Nat
            OBVIOUS
        <3>2. (columns = << >> /\ field_count = 0) \/ (columns = <<1>> /\ field_count = 1)
            BY DEF Init
        <3> QED  BY <3>1, <3>2, Zenon
    <2>3. /\ query \in {"values", "idents"} /\ top \in {"none", "alert", "heartbeat"}
          /\ query = "idents" => top # "none"
          /\ modifiers = {} /\ failed = FALSE
        BY DEF Init
    <2> QED  BY <1>2, <2>1, <2>2, <2>3 DEF TypeOK
<1>5. TopInv
    BY <1>3 DEF TopInv
<1>6. UsesPlaced
    BY <1>2, <1>3 DEF UsesPlaced, Placed
<1> QED  BY <1>4, <1>5, <1>6 DEF JoinInv

\* And every step keeps it.
LEMMA NextJoin ==
    ASSUME JoinInv, [Next]_vars
    PROVE  JoinInv'
<1>1. CASE UNCHANGED vars
    BY <1>1 DEF vars, JoinInv, TypeOK, TopInv, UsesPlaced
<1>2. ASSUME NEW sel \in Selectable, Select(sel) PROVE JoinInv'
    BY <1>2, SelectedKeepsJoin DEF Select, AllSelected
<1>3. CASE SetOrder
    BY <1>3, SetOrderSelects, SelectedKeepsJoin DEF JoinInv
<1>4. ASSUME NEW path \in Criteria, Criterion(path) PROVE JoinInv'
    BY <1>4, CriterionKeepsJoin
<1> QED  BY <1>1, <1>2, <1>3, <1>4 DEF Next

\* Every behaviour of a query has the invariant of the join: its tables are of one class
\* and every field and criterion of it has the table classic_path_resolve found for it.
THEOREM JoinCorrect == Spec => []JoinInv
<1>1. Init => JoinInv
    BY InitJoin
<1>2. JoinInv /\ [Next]_vars => JoinInv'
    BY NextJoin
<1> QED  BY <1>1, <1>2, PTL DEF Spec

-----------------------------------------------------------------------------
(* What the invariant of the join says of the fields. *)

\* Paths of one table start at the same class.
LEMMA SameTableTop ==
    ASSUME NEW p, NEW q, IsPath(p), IsPath(q), same_table(p, q)
    PROVE  p[1] = q[1]
<1>1. CASE p = q
    BY <1>1
<1>2. CASE Front(p) = Front(q)
    <2>1. /\ p \in Seq({p[k] : k \in DOMAIN p}) /\ q \in Seq({q[k] : k \in DOMAIN q})
          /\ Len(p) \in Nat /\ Len(q) \in Nat /\ Len(p) >= 2 /\ Len(q) >= 2
        BY DEF IsPath, IsList
    <2>2. Front(p)[1] = p[1] /\ Front(q)[1] = q[1]
        BY <2>1 DEF Front
    <2> QED  BY <1>2, <2>2
<1> QED  BY <1>1, <1>2 DEF same_table

\* What the invariant says of a path that has a table.
LEMMA UseHasTable ==
    ASSUME JoinInv, NEW u \in Uses, u.tbl # 0
    PROVE  /\ IsPath(u.path) /\ ~InTopTable(u.path)
           /\ u.tbl \in DOMAIN tables /\ tables[u.tbl] \in AllTables
           /\ same_table(u.path, tables[u.tbl].path)
<1>1. /\ fields \in Seq([sel : AllSelected, tbl : Nat])
      /\ where \in Seq([path : Criteria, tbl : Nat])
      /\ tables \in Seq(AllTables) /\ Len(tables) \in Nat
    BY DEF JoinInv, TypeOK
<1>2. u.path \in AllPaths /\ Placed(tables, u.path, u.tbl)
    <2>1. CASE \E k \in DOMAIN fields : u = [path |-> fields[k].sel.path, tbl |-> fields[k].tbl]
        <3>1. PICK k \in DOMAIN fields :
                   u = [path |-> fields[k].sel.path, tbl |-> fields[k].tbl]
            BY <2>1
        <3>2. fields[k] \in [sel : AllSelected, tbl : Nat]
            BY <1>1, <3>1, SeqMember, Zenon
        <3>3. fields[k].sel \in AllSelected
            BY <3>2
        <3>4. u.path = fields[k].sel.path /\ u.tbl = fields[k].tbl
            BY <3>1
        <3>5. Placed(tables, fields[k].sel.path, fields[k].tbl)
            BY DEF JoinInv, UsesPlaced
        <3> QED  BY <3>3, <3>4, <3>5 DEF AllPaths
    <2>2. CASE \E k \in DOMAIN where : u = where[k]
        <3>1. PICK k \in DOMAIN where : u = where[k]
            BY <2>2
        <3>2. u \in [path : Criteria, tbl : Nat]
            BY <1>1, <3>1, SeqMember, Zenon
        <3>3. u.path \in Criteria
            BY <3>2
        <3>4. Placed(tables, where[k].path, where[k].tbl)
            BY DEF JoinInv, UsesPlaced
        <3> QED  BY <3>1, <3>3, <3>4 DEF AllPaths
    <2> QED  BY <2>1, <2>2 DEF Uses
<1>3. u.tbl \in DOMAIN tables
    BY <1>1, <1>2 DEF Placed
<1> QED  BY <1>1, <1>2, <1>3, PathType DEF Placed

\* No query joins tables of alerts and tables of heartbeats: every path that has a table
\* is of the class the query is FROM.
THEOREM OneTopClassCorrect == Spec => []OneTopClass
<1>1. ASSUME JoinInv PROVE OneTopClass
    <2>1. SUFFICES ASSUME NEW u \in Uses, u.tbl # 0 PROVE u.path[1].n = top
        BY DEF OneTopClass
    <2>2. u.path[1] = tables[u.tbl].path[1]
        BY <1>1, <2>1, UseHasTable, SameTableTop, TableType
    <2>3. tables[u.tbl].path[1].n = top
        BY <1>1, <2>1, UseHasTable DEF JoinInv, TopInv
    <2> QED  BY <2>2, <2>3
<1> QED  BY <1>1, JoinCorrect, PTL

\* Two paths of one table, unless the first is of a field and the second of a list of
\* strings, have the same table name and the same index constraints.
LEMMA SameTableObject ==
    ASSUME NEW p, NEW q, IsPath(p), IsPath(q), ~InTopTable(p), same_table(p, q),
           ~(LastOf(q).x # Forbidden /\ LastOf(p).x = Forbidden)
    PROVE  /\ resolve_table_name(p) = resolve_table_name(q)
           /\ resolve_parents(p) = resolve_parents(q)
           /\ resolve_own(p) = resolve_own(q)
<1>1. CASE p = q
    BY <1>1
<1>2. CASE /\ Front(p) = Front(q) /\ Len(p) = Len(q)
           /\ LastOf(p).x = Forbidden /\ LastOf(q).x = Forbidden
           /\ ~(IsTime(p) /\ ClassOf(p).n # "file")
    <2> DEFINE P == {p[k] : k \in DOMAIN p}
               Q == {q[k] : k \in DOMAIN q}
    <2>1. /\ p \in Seq(P) /\ q \in Seq(Q) /\ Len(p) \in Nat /\ Len(p) >= 2
        BY PathSequence, Zenon
    <2> HIDE DEF P, Q
    <2>10. /\ p \in Seq(P \cup Q) /\ q \in Seq(P \cup Q)
        BY <2>1
    <2>2. \A k \in 1 .. Len(p) - 1 : p[k] = q[k]
        <3>1. ASSUME NEW k \in 1 .. Len(p) - 1 PROVE Front(p)[k] = p[k] /\ Front(q)[k] = q[k]
            BY <1>2, <2>1, <3>1, FrontMember
        <3> QED  BY <1>2, <3>1
    <2>3. ClassOf(p) = ClassOf(q)
        <3>1. Len(p) - 1 \in 1 .. Len(p) - 1
            BY <2>1
        <3> QED  BY <1>2, <3>1, <2>2, Zenon DEF ClassOf
    <2>4. SubSeq(p, 2, Len(p) - 2) = SubSeq(q, 2, Len(q) - 2)
        <3>1. \A k \in 2 .. Len(p) - 2 : p[k] = q[k]
            BY <2>1, <2>2
        <3>2. /\ Len(p) - 2 \in Int /\ Len(p) - 2 <= Len(p) /\ Len(p) - 2 <= Len(q)
              /\ 2 \in Nat /\ 2 >= 1
            BY <1>2, <2>1
        <3>3. SubSeq(p, 2, Len(p) - 2) = SubSeq(q, 2, Len(p) - 2)
            BY <2>10, <3>1, <3>2, SubSeqSame
        <3> QED  BY <1>2, <3>3
    <2>5. resolve_parents(p) = resolve_parents(q)
        BY <2>4, Zenon DEF resolve_parents
    <2>6. resolve_own(p) = resolve_own(q)
        BY <1>2, <2>3 DEF resolve_own
    <2>7. Len(p) # 2
        <3>1. SUFFICES ASSUME Len(p) = 2 PROVE FALSE
            OBVIOUS
        <3>2. ClassOf(p).n \in {"alert", "heartbeat"}
            BY <2>1, <3>1 DEF ClassOf, IsPath
        <3> QED  BY <1>2, <3>1, <3>2 DEF InTopTable
    <2>8. ClassOf(p).n \notin {"alert", "heartbeat"}
        <3>1. Len(p) - 1 \in 1 .. Len(p) /\ Len(p) - 1 # 1
            BY <2>1, <2>7
        <3> QED  BY <3>1, PathSequence DEF ClassOf
    <2>9. ASSUME NEW r, r = p \/ r = q PROVE resolve_table_name(r) = ClassOf(p).n
        <3>1. <<ClassOf(r).n, LastOf(r).n>> \notin StringLists
            BY <1>2, <2>9 DEF IsPath
        <3>2. ClassOf(r).n = ClassOf(p).n
            BY <2>3, <2>9
        <3> QED  BY <2>8, <3>1, <3>2 DEF StringLists, resolve_table_name
    <2> QED  BY <2>5, <2>6, <2>9
<1> QED  BY <1>1, <1>2 DEF same_table

\* A field is named in a table that holds it, for the object its path gives: fields of
\* the same object share a join and fields of different objects never do, unless a
\* list of strings of the object was joined first.
THEOREM FieldsShareObjectCorrect == Spec => []FieldsShareObject
<1>1. ASSUME JoinInv PROVE FieldsShareObject
    <2>1. SUFFICES ASSUME NEW u \in Uses, u.tbl # 0, ~ListFirst(u.path, u.tbl)
                   PROVE  /\ resolve_table_name(u.path) = tables[u.tbl].t
                          /\ resolve_parents(u.path) = tables[u.tbl].parents
                          /\ resolve_own(u.path) = tables[u.tbl].own
        BY DEF FieldsShareObject
    <2> DEFINE q == tables[u.tbl].path
    <2>2. /\ IsPath(u.path) /\ ~InTopTable(u.path) /\ same_table(u.path, q)
          /\ tables[u.tbl] \in AllTables
        BY <1>1, <2>1, UseHasTable
    <2>3. ~(LastOf(q).x # Forbidden /\ LastOf(u.path).x = Forbidden)
        BY <2>1 DEF ListFirst
    <2>4. /\ IsPath(q) /\ tables[u.tbl].t = resolve_table_name(q)
          /\ tables[u.tbl].parents = resolve_parents(q)
          /\ tables[u.tbl].own = resolve_own(q)
        BY <2>2, TableType
    <2> QED  BY <2>2, <2>3, <2>4, SameTableObject
<1> QED  BY <1>1, JoinCorrect, PTL

-----------------------------------------------------------------------------
(* The columns of the fields. *)

\* A step adds a field with its columns, or leaves fields and columns alone.
LEMMA FieldStep ==
    ASSUME JoinInv, [Next]_vars
    PROVE  \/ UNCHANGED <<fields, columns, field_count, modifiers>>
           \/ \E sel \in AllSelected, tbl \in Nat : add_field(sel, tbl)
<1>1. CASE UNCHANGED vars
    BY <1>1 DEF vars
<1>2. ASSUME NEW sel \in AllSelected, resolve_selected(sel)
      PROVE  \/ UNCHANGED <<fields, columns, field_count, modifiers>>
             \/ \E s \in AllSelected, tbl \in Nat : add_field(s, tbl)
    <2> DEFINE r == classic_path_resolve(sel.path)
    <2>1. IsPath(sel.path)
        BY SelectedType DEF IsSelected
    <2>2. CASE r.tbl = Conflict
        BY <1>2, <2>2 DEF resolve_selected
    <2>3. CASE r.tbl # Conflict
        <3>1. add_field(sel, r.tbl)
            BY <1>2, <2>3 DEF resolve_selected
        <3>2. r.tbl \in Nat
            <4> HIDE DEF r
            <4>1. r = classic_path_resolve(sel.path)
                BY DEF r
            <4>2. Len(tables) \in Nat
                BY DEF JoinInv, TypeOK
            <4>3. r.tbl = 0 \/ r.tbl \in 1 .. Len(tables) \/ r.tbl = Len(tables) + 1
                BY <2>1, <2>3, <4>1, ResolveGives DEF JoinInv
            <4> QED  BY <4>2, <4>3
        <3> HIDE DEF r
        <3> QED  BY <3>1, <3>2
    <2> QED  BY <2>2, <2>3
<1>3. ASSUME NEW sel \in Selectable, Select(sel)
      PROVE  sel \in AllSelected /\ resolve_selected(sel)
    BY <1>3 DEF Select, AllSelected
<1>4. ASSUME NEW path \in Criteria, Criterion(path)
      PROVE  UNCHANGED <<fields, columns, field_count, modifiers>>
    BY <1>4 DEF Criterion
<1>5. CASE SetOrder
    BY <1>2, <1>5, SetOrderSelects DEF JoinInv
<1>6. CASE \E sel \in Selectable : Select(sel)
    BY <1>2, <1>3, <1>6
<1> QED  BY <1>1, <1>4, <1>5, <1>6 DEF Next

\* The columns written for a field.
Written(f) == resolve_field_columns(f.sel.path, f.sel.fn)

\* A time written as one column and read as three.
InodeTime(f) == ClassOf(f.sel.path).n = "inode" /\ IsTime(f.sel.path)

\* Fields are counted, ORDER BY and GROUP BY name a field by its number, and as long as
\* every field is one column the number of a field is that of its column.
OrderInv ==
    /\ field_count = Len(fields)
    /\ \A c \in modifiers : c.at = c.field /\ c.field \in 1 .. Len(fields)
    /\ (\A j \in 1 .. Len(fields) : Written(fields[j]) = 1) => Len(columns) = Len(fields)
    /\ \A k \in 1 .. Len(fields) :
           (\A j \in 1 .. k - 1 : Written(fields[j]) = 1) => k \in DOMAIN columns /\ columns[k] = k

\* It holds at first.
LEMMA InitOrder ==
    ASSUME Init
    PROVE  OrderInv
<1>1. CASE fields = << >> /\ columns = << >> /\ field_count = 0
    BY <1>1 DEF Init, OrderInv
<1>2. CASE \E f : fields = <<f>> /\ columns = <<1>> /\ field_count = 1
    BY <1>2 DEF Init, OrderInv
<1> QED  BY <1>1, <1>2 DEF Init

\* Adding a field keeps it.
LEMMA AddFieldOrder ==
    ASSUME TypeOK, OrderInv, NEW sel \in AllSelected, NEW tbl \in Nat, add_field(sel, tbl)
    PROVE  OrderInv'
<1> DEFINE n == Len(fields)
           w == resolve_field_columns(sel.path, sel.fn)
<1>1. /\ Len(fields') = n + 1
      /\ \A k \in 1 .. n : fields'[k] = fields[k]
      /\ fields'[n + 1].sel = sel
    <2>1. fields'[n + 1] = [sel |-> sel, tbl |-> tbl]
        BY AddField
    <2>2. fields'[n + 1].sel = sel
        BY <2>1
    <2> QED  BY <2>2, AddField
<1>2. /\ w \in {1, 3} /\ Len(columns') = Len(columns) + w
      /\ \A k \in 1 .. Len(columns) : columns'[k] = columns[k]
      /\ \A k \in Len(columns) + 1 .. Len(columns) + w : columns'[k] = n + 1
      /\ DOMAIN columns = 1 .. Len(columns) /\ DOMAIN columns' = 1 .. Len(columns) + w
    <2> HIDE DEF w
    <2> QED  BY AddColumns DEF w
<1>3. n \in Nat /\ Len(columns) \in Nat
    BY DEF TypeOK
<1>4. Written(fields'[n + 1]) = w
    BY <1>1 DEF Written
<1>5. field_count' = n + 1 /\ field_count = n
    BY DEF add_field, OrderInv
<1>6. \A c \in modifiers' : c.at = c.field /\ c.field \in 1 .. n + 1
    <2>1. ASSUME NEW c \in modifiers' PROVE c.at = c.field /\ c.field \in 1 .. n + 1
        <3>1. CASE c \in modifiers
            BY <1>3, <3>1 DEF OrderInv
        <3>2. CASE c = [field |-> n + 1, at |-> order_position(field_count)]
            BY <1>3, <1>5, <3>2 DEF order_position
        <3> QED  BY <3>1, <3>2 DEF add_field
    <2> QED  BY <2>1
<1> HIDE DEF n, w
<1>7. /\ (\A j \in 1 .. n : Written(fields[j]) = 1) => Len(columns) = n
      /\ \A k \in 1 .. n :
           (\A j \in 1 .. k - 1 : Written(fields[j]) = 1) => k \in DOMAIN columns /\ columns[k] = k
    BY DEF OrderInv, n
<1>8. ASSUME NEW k \in 0 .. n, \A j \in 1 .. k : Written(fields'[j]) = 1
      PROVE  \A j \in 1 .. k : Written(fields[j]) = 1
    BY <1>1, <1>3, <1>8
<1>9. ASSUME \A j \in 1 .. n + 1 : Written(fields'[j]) = 1
      PROVE  Len(columns') = n + 1
    <2>1. Len(columns) = n
        <3>1. \A j \in 1 .. n : Written(fields'[j]) = 1
            BY <1>3, <1>9
        <3>2. n \in 0 .. n
            BY <1>3
        <3> QED  BY <1>7, <1>8, <3>1, <3>2
    <2>2. w = 1
        BY <1>3, <1>4, <1>9
    <2> QED  BY <1>2, <2>1, <2>2
<1>10. ASSUME NEW k \in 1 .. n + 1, \A j \in 1 .. k - 1 : Written(fields'[j]) = 1
       PROVE  k \in DOMAIN columns' /\ columns'[k] = k
    <2>1. \A j \in 1 .. k - 1 : Written(fields[j]) = 1
        BY <1>3, <1>8, <1>10
    <2>2. CASE k \in 1 .. n
        <3>1. k \in DOMAIN columns /\ columns[k] = k
            BY <1>7, <2>1, <2>2
        <3> QED  BY <1>2, <1>3, <3>1
    <2>3. CASE k = n + 1
        <3>1. Len(columns) = n
            BY <1>3, <1>7, <2>1, <2>3
        <3> QED  BY <1>2, <1>3, <2>3, <3>1
    <2> QED  BY <1>3, <2>2, <2>3
<1>11. Len(fields') = n + 1
    BY <1>1
<1> QED  BY <1>5, <1>6, <1>9, <1>10, <1>11 DEF OrderInv

\* ORDER BY and GROUP BY name the column of their field, unless a time written as three
\* columns was selected before it.
THEOREM OrdersOwnColumnCorrect == Spec => []OrdersOwnColumn
<1>1. Init => OrderInv
    BY InitOrder
<1>2. JoinInv /\ OrderInv /\ [Next]_vars => OrderInv'
    <2> SUFFICES ASSUME JoinInv, OrderInv, [Next]_vars PROVE OrderInv'
        OBVIOUS
    <2>1. CASE UNCHANGED <<fields, columns, field_count, modifiers>>
        BY <2>1 DEF OrderInv
    <2>2. CASE \E sel \in AllSelected, tbl \in Nat : add_field(sel, tbl)
        BY <2>2, AddFieldOrder DEF JoinInv
    <2> QED  BY <2>1, <2>2, FieldStep
<1>3. ASSUME JoinInv, OrderInv PROVE OrdersOwnColumn
    <2>1. SUFFICES ASSUME NEW c \in modifiers,
                          \A j \in 1 .. c.field - 1 : ~(Written(fields[j]) > 1)
                   PROVE  c.at \in DOMAIN columns /\ columns[c.at] = c.field
        BY DEF OrdersOwnColumn, Written
    <2>2. \A j : Written(fields[j]) \in {1, 3}
        BY FieldColumns DEF Written
    <2>3. \A j \in 1 .. c.field - 1 : Written(fields[j]) = 1
        BY <2>1, <2>2
    <2> QED  BY <1>3, <2>1, <2>3 DEF OrderInv
<1> QED  BY <1>1, <1>2, <1>3, JoinCorrect, PTL DEF Spec

\* A field is written as many columns as get_value takes, but for an inode's time.
LEMMA ReadAsWritten ==
    ASSUME NEW f, IsSelected(f.sel), ~InodeTime(f)
    PROVE  get_value_columns(f.sel) = Written(f)
<1> DEFINE class == ClassOf(f.sel.path).n
           child == LastOf(f.sel.path).n
<1>1. f.sel.fn \notin {"MIN", "MAX", "AVG", "STD", "COUNT"} <=> f.sel.fn = "none"
    BY DEF IsSelected
<1>2. CASE class \in {"alert", "heartbeat"}
    <2>1. IsTime(f.sel.path) <=> child \in MessageTimes
        BY <1>2 DEF IsTime
    <2> QED  BY <1>1, <1>2, <2>1
             DEF get_value_columns, Written, resolve_field_columns, message_field_columns
<1>3. CASE class = "file"
    <2>1. IsTime(f.sel.path) <=> child \in FileTimes
        BY <1>3 DEF IsTime
    <2> QED  BY <1>1, <1>3, <2>1
             DEF get_value_columns, Written, resolve_field_columns, file_field_columns
<1>4. CASE class \notin {"alert", "heartbeat", "file"}
    <2>1. ~IsTime(f.sel.path)
        BY <1>4 DEF IsTime, InodeTime
    <2> QED  BY <1>4, <2>1 DEF get_value_columns, Written, resolve_field_columns
<1> QED  BY <1>2, <1>3, <1>4

\* The columns of the first k fields do not depend on the others.
LEMMA ColumnsAtPrefix ==
    ASSUME NEW s, NEW t, NEW I, \A j \in I : s[j] = t[j]
    PROVE  ColumnsAt(s, I) = ColumnsAt(t, I)
<1>1. Wide(s, I) = Wide(t, I)
    BY DEF Wide
<1> QED  BY <1>1 DEF ColumnsAt

\* One field more.
LEMMA ColumnsAtNext ==
    ASSUME NEW s, NEW n \in Nat
    PROVE  /\ ColumnsAt(s, 1 .. n) \in Nat
           /\ ColumnsAt(s, 1 .. n + 1) = ColumnsAt(s, 1 .. n) + get_value_columns(s[n + 1].sel)
<1>1. /\ IsFiniteSet(1 .. n) /\ IsFiniteSet(1 .. n + 1)
      /\ n + 1 \in 1 .. n + 1 /\ (1 .. n + 1) \ {n + 1} = 1 .. n
    BY FS_Interval
<1>2. ColumnsAt(s, 1 .. n) \in Nat
    <2>1. IsFiniteSet(Wide(s, 1 .. n))
        BY <1>1, FS_Subset DEF Wide
    <2>2. Cardinality(1 .. n) \in Nat /\ Cardinality(Wide(s, 1 .. n)) \in Nat
        BY <1>1, <2>1, FS_CardinalityType
    <2> QED  BY <2>2 DEF ColumnsAt
<1>3. ColumnsAt(s, 1 .. n + 1)
        = ColumnsAt(s, (1 .. n + 1) \ {n + 1}) + get_value_columns(s[n + 1].sel)
    BY <1>1, ColumnsAtRemove, Zenon
<1> QED  BY <1>1, <1>2, <1>3

\* No column is read when there is no field.
LEMMA ColumnsAtNone ==
    ASSUME NEW s
    PROVE  ColumnsAt(s, {}) = 0
<1>1. Wide(s, {}) = {}
    BY DEF Wide
<1> QED  BY <1>1, FS_EmptySet DEF ColumnsAt

\* Where classic_get_next_values reads field k, in closed form.
LEMMA SqlCnt ==
    ASSUME TypeOK, NEW k \in 1 .. Len(fields)
    PROVE  sql_cnt(k) = 1 + ColumnsAt(fields, 1 .. k - 1)
<1> DEFINE s == SubSeq(fields, 1, k - 1)
<1>1. fields \in Seq([sel : AllSelected, tbl : Nat]) /\ Len(fields) \in Nat /\ k - 1 \in Nat
    BY DEF TypeOK
<1>2. DOMAIN s = 1 .. k - 1 /\ \A j \in 1 .. k - 1 : s[j] = fields[j]
    <2> HIDE DEF s
    <2>1. \A j \in 1 .. k - 1 : fields[j] \in [sel : AllSelected, tbl : Nat]
        <3>1. \A j \in 1 .. k - 1 : j \in DOMAIN fields
            BY <1>1
        <3> QED  BY <1>1, <3>1, SeqMember, Zenon
    <2>2. s \in Seq([sel : AllSelected, tbl : Nat]) /\ Len(s) = k - 1
        BY <1>1, <2>1 DEF s
    <2>3. \A j \in 1 .. k - 1 : s[j] = fields[j]
        <3>1. \A j \in 1 .. (k - 1) - 1 + 1 : s[j] = fields[1 + j - 1]
            BY <1>1, <2>1, SubSeqProperties DEF s
        <3> QED  BY <1>1, <3>1
    <2> QED  BY <2>2, <2>3
<1>3. sql_cnt(k) = 1 + ColumnsRead(s)
    BY Zenon DEF sql_cnt, ColumnsRead
<1> HIDE DEF s
<1>4. ColumnsRead(s) = ColumnsAt(s, 1 .. k - 1)
    BY <1>1, <1>2, ColumnsReadIs, Zenon
<1>5. ColumnsAt(s, 1 .. k - 1) = ColumnsAt(fields, 1 .. k - 1)
    BY <1>2, ColumnsAtPrefix, Zenon
<1> QED  BY <1>3, <1>4, <1>5

\* The fields are written in order, each from the column it is read at, as long as no
\* inode's time is among those before it.
ReadInv ==
    /\ fields # << >> => Len(columns) \in DOMAIN columns /\ columns[Len(columns)] = Len(fields)
    /\ (\A j \in 1 .. Len(fields) : ~InodeTime(fields[j]))
            => Len(columns) = ColumnsAt(fields, 1 .. Len(fields))
    /\ \A k \in 1 .. Len(fields) :
           (\A j \in 1 .. k - 1 : ~InodeTime(fields[j])) =>
               LET c == 1 + ColumnsAt(fields, 1 .. k - 1)
               IN  /\ c \in DOMAIN columns /\ columns[c] = k
                   /\ c > 1 => columns[c - 1] = k - 1

\* It holds at first.
LEMMA InitRead ==
    ASSUME Init
    PROVE  ReadInv
<1>0. 1 .. 0 = {}
    OBVIOUS
<1>1. CASE fields = << >> /\ columns = << >>
    BY <1>0, <1>1, ColumnsAtNone DEF ReadInv
<1>2. CASE top \in {"alert", "heartbeat"} /\ fields = <<[sel |-> ident(top), tbl |-> 0]>>
           /\ columns = <<1>>
    <2> DEFINE f == [sel |-> ident(top), tbl |-> 0]
    <2>1. ident(top) \in AllSelected
        BY <1>2, Zenon DEF AllSelected
    <2>2. IsSelected(f.sel)
        BY <2>1, SelectedType
    <2>3. f.sel.path[2].n = "_ident" /\ f.sel.path[1].n = top /\ Len(f.sel.path) = 2
        BY DEF ident
    <2> HIDE DEF f
    <2>4. Written(f) = 1 /\ ~InodeTime(f)
        BY <1>2, <2>3 DEF Written, InodeTime, resolve_field_columns, ClassOf, LastOf,
                          message_field_columns, MessageTimes
    <2>5. get_value_columns(f.sel) = 1
        BY <2>2, <2>4, ReadAsWritten
    <2>6. Len(fields) = 1 /\ fields[1] = f /\ Len(columns) = 1 /\ DOMAIN columns = {1}
          /\ columns[1] = 1
        BY <1>2 DEF f
    <2>7. ColumnsAt(fields, 1 .. 0) = 0
        BY <1>0, ColumnsAtNone
    <2>8. ColumnsAt(fields, 1 .. 1) = 1
        <3>1. ColumnsAt(fields, 1 .. 0 + 1)
                = ColumnsAt(fields, 1 .. 0) + get_value_columns(fields[0 + 1].sel)
            BY ColumnsAtNext
        <3> QED  BY <3>1, <2>5, <2>6, <2>7
    <2> QED  BY <2>6, <2>7, <2>8 DEF ReadInv
<1> QED  BY <1>1, <1>2 DEF Init

\* Adding a field keeps it.
LEMMA AddFieldRead ==
    ASSUME TypeOK, ReadInv, NEW sel \in AllSelected, NEW tbl \in Nat, add_field(sel, tbl)
    PROVE  ReadInv'
<1> DEFINE n == Len(fields)
           w == resolve_field_columns(sel.path, sel.fn)
<1>1. /\ Len(fields') = n + 1
      /\ \A k \in 1 .. n : fields'[k] = fields[k]
      /\ fields'[n + 1].sel = sel
    <2>1. fields'[n + 1] = [sel |-> sel, tbl |-> tbl]
        BY AddField
    <2>2. fields'[n + 1].sel = sel
        BY <2>1
    <2> QED  BY <2>2, AddField
<1>2. /\ w \in {1, 3} /\ Len(columns') = Len(columns) + w
      /\ \A k \in 1 .. Len(columns) : columns'[k] = columns[k]
      /\ \A k \in Len(columns) + 1 .. Len(columns) + w : columns'[k] = n + 1
      /\ DOMAIN columns = 1 .. Len(columns) /\ DOMAIN columns' = 1 .. Len(columns) + w
    <2> HIDE DEF w
    <2> QED  BY AddColumns DEF w
<1>3. n \in Nat /\ Len(columns) \in Nat /\ (n = 0 => fields = << >>)
    BY DEF TypeOK
<1>4. Written(fields'[n + 1]) = w /\ IsSelected(fields'[n + 1].sel)
    BY <1>1, SelectedType DEF Written
<1> HIDE DEF n, w
<1>5. /\ n # 0 => Len(columns) \in DOMAIN columns /\ columns[Len(columns)] = n
      /\ (\A j \in 1 .. n : ~InodeTime(fields[j])) => Len(columns) = ColumnsAt(fields, 1 .. n)
      /\ \A k \in 1 .. n : \A c :
            (\A j \in 1 .. k - 1 : ~InodeTime(fields[j])) /\ c = 1 + ColumnsAt(fields, 1 .. k - 1)
                => c \in DOMAIN columns /\ columns[c] = k /\ (c > 1 => columns[c - 1] = k - 1)
    <2>1. n # 0 => fields # << >>
        BY DEF n
    <2>2. /\ fields # << >> =>
                 Len(columns) \in DOMAIN columns /\ columns[Len(columns)] = n
          /\ (\A j \in 1 .. n : ~InodeTime(fields[j]))
                 => Len(columns) = ColumnsAt(fields, 1 .. n)
        BY DEF ReadInv, n
    <2>3. ASSUME NEW k \in 1 .. n, \A j \in 1 .. k - 1 : ~InodeTime(fields[j]),
                 NEW c, c = 1 + ColumnsAt(fields, 1 .. k - 1)
          PROVE  c \in DOMAIN columns /\ columns[c] = k /\ (c > 1 => columns[c - 1] = k - 1)
        BY <2>3 DEF ReadInv, n
    <2> QED  BY <2>1, <2>2, <2>3, Zenon
<1>6. ASSUME NEW k \in 0 .. n
      PROVE  /\ ColumnsAt(fields', 1 .. k) = ColumnsAt(fields, 1 .. k)
             /\ ColumnsAt(fields, 1 .. k) \in Nat
    <2>1. k \in Nat /\ \A j \in 1 .. k : fields'[j] = fields[j]
        BY <1>1, <1>3
    <2>2. ColumnsAt(fields', 1 .. k) = ColumnsAt(fields, 1 .. k)
        BY <2>1, ColumnsAtPrefix, Zenon
    <2>3. ColumnsAt(fields, 1 .. k) \in Nat
        BY <2>1, ColumnsAtNext, Zenon
    <2> QED  BY <2>2, <2>3
<1>7. ASSUME NEW k \in 0 .. n, \A j \in 1 .. k : ~InodeTime(fields'[j])
      PROVE  \A j \in 1 .. k : ~InodeTime(fields[j])
    BY <1>1, <1>3, <1>7
<1>8. Len(columns') \in DOMAIN columns' /\ columns'[Len(columns')] = n + 1
    BY <1>2, <1>3
<1>9. ASSUME \A j \in 1 .. n + 1 : ~InodeTime(fields'[j])
      PROVE  Len(columns') = ColumnsAt(fields', 1 .. n + 1)
    <2>1. /\ n \in 0 .. n /\ n + 1 \in 1 .. n + 1
          /\ \A j \in 1 .. n : ~InodeTime(fields'[j])
        BY <1>3, <1>9
    <2>2. Len(columns) = ColumnsAt(fields', 1 .. n)
        BY <1>5, <1>6, <1>7, <2>1
    <2>3. get_value_columns(fields'[n + 1].sel) = w
        BY <1>4, <1>9, <2>1, ReadAsWritten
    <2>4. ColumnsAt(fields', 1 .. n + 1)
             = ColumnsAt(fields', 1 .. n) + get_value_columns(fields'[n + 1].sel)
        BY <1>3, ColumnsAtNext
    <2> QED  BY <1>2, <2>2, <2>3, <2>4
<1>10. ASSUME NEW k \in 1 .. n + 1, \A j \in 1 .. k - 1 : ~InodeTime(fields'[j]),
              NEW c, c = 1 + ColumnsAt(fields', 1 .. k - 1)
       PROVE  /\ c \in DOMAIN columns' /\ columns'[c] = k
              /\ c > 1 => columns'[c - 1] = k - 1
    <2>1. k - 1 \in 0 .. n
        BY <1>3
    <2>2. /\ c = 1 + ColumnsAt(fields, 1 .. k - 1) /\ ColumnsAt(fields, 1 .. k - 1) \in Nat
          /\ \A j \in 1 .. k - 1 : ~InodeTime(fields[j])
        BY <1>6, <1>7, <1>10, <2>1
    <2>3. CASE k \in 1 .. n
        <3>1. /\ c \in DOMAIN columns /\ columns[c] = k
              /\ c > 1 => columns[c - 1] = k - 1
            BY <1>5, <2>2, <2>3
        <3> QED  BY <1>2, <1>3, <2>2, <3>1
    <2>4. CASE k = n + 1
        <3>1. k - 1 = n
            BY <1>3, <2>4
        <3>2. c = 1 + Len(columns)
            BY <1>5, <2>2, <3>1
        <3>3. c \in DOMAIN columns' /\ columns'[c] = k
            BY <1>2, <1>3, <2>4, <3>2
        <3>4. ASSUME c > 1 PROVE columns'[c - 1] = k - 1
            <4>1. c - 1 = Len(columns) /\ Len(columns) \in 1 .. Len(columns)
                BY <1>3, <3>2, <3>4
            <4>2. n # 0
                <5>1. SUFFICES ASSUME n = 0 PROVE FALSE
                    OBVIOUS
                <5>2. 1 .. k - 1 = {}
                    BY <3>1, <5>1
                <5>3. ColumnsAt(fields, 1 .. k - 1) = 0
                    BY <5>2, ColumnsAtNone
                <5> QED  BY <2>2, <3>4, <5>3
            <4> QED  BY <1>2, <1>5, <3>1, <4>1, <4>2
        <3> QED  BY <3>3, <3>4
    <2> QED  BY <1>3, <2>3, <2>4
<1>11. Len(fields') = n + 1
    BY <1>1
<1> QED  BY <1>8, <1>9, <1>10, <1>11 DEF ReadInv

\* classic_get_next_values reads every field from the column it was written to, unless
\* an inode's change time was selected before it.
THEOREM ReadsOwnColumnCorrect == Spec => []ReadsOwnColumn
<1>1. Init => ReadInv
    BY InitRead
<1>2. JoinInv /\ ReadInv /\ [Next]_vars => ReadInv'
    <2> SUFFICES ASSUME JoinInv, ReadInv, [Next]_vars PROVE ReadInv'
        OBVIOUS
    <2>1. CASE UNCHANGED <<fields, columns, field_count, modifiers>>
        BY <2>1 DEF ReadInv
    <2>2. CASE \E sel \in AllSelected, tbl \in Nat : add_field(sel, tbl)
        BY <2>2, AddFieldRead DEF JoinInv
    <2> QED  BY <2>1, <2>2, FieldStep
<1>3. ASSUME JoinInv, ReadInv PROVE ReadsOwnColumn
    <2>1. SUFFICES ASSUME NEW k \in DOMAIN fields,
                          \A j \in 1 .. k - 1 : ~InodeTime(fields[j])
                   PROVE  /\ sql_cnt(k) \in DOMAIN columns /\ columns[sql_cnt(k)] = k
                          /\ (sql_cnt(k) > 1 => columns[sql_cnt(k) - 1] = k - 1)
        BY DEF ReadsOwnColumn, InodeTime
    <2>2. k \in 1 .. Len(fields)
        BY <1>3 DEF JoinInv, TypeOK
    <2>3. sql_cnt(k) = 1 + ColumnsAt(fields, 1 .. k - 1)
        BY <1>3, <2>2, SqlCnt DEF JoinInv
    <2> QED  BY <1>3, <2>1, <2>2, <2>3 DEF ReadInv
<1> QED  BY <1>1, <1>2, <1>3, JoinCorrect, PTL DEF Spec
=============================================================================
