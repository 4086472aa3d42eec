--------------------------- MODULE ClassicStoreProofs ---------------------------
(***************************************************************************)
(* Proofs about the tables of the classic format (ClassicStore), for any   *)
(* messages and any number of idents: the rows of a message are numbered   *)
(* apart, and a deletion takes all the rows of a message and no others.    *)
(***************************************************************************)
EXTENDS ClassicStore, SequenceTheorems, TLAPS

-----------------------------------------------------------------------------
(***************************************************************************)
(* Lists                                                                   *)
(***************************************************************************)

\* The indexes Listed gives to a list, and the element at an index.
Places(list) == {k - 1 : k \in DOMAIN list} \cup IF list = << >> THEN {} ELSE {-1}
At(list, j) == IF j = -1 THEN list[Len(list)] ELSE list[j + 1]

\* An element at an index is an element of the list.
LEMMA AtPlace ==
  ASSUME NEW list, IsList(list), NEW j \in Places(list)
  PROVE  j \in Int /\ \E k \in DOMAIN list : At(list, j) = list[k]
<1>1. Len(list) \in Nat /\ DOMAIN list = 1..Len(list) /\ (list # << >> => Len(list) # 0)
  BY EmptySeq DEF IsList
<1> QED BY <1>1 DEF Places, At

\* Where Listed puts the elements.
LEMMA ElementPlaces ==
  ASSUME NEW list, IsList(list)
  PROVE  /\ \A k \in DOMAIN list : k - 1 \in Places(list) /\ At(list, k - 1) = list[k]
         /\ list # << >> => -1 \in Places(list) /\ At(list, -1) = list[Len(list)]
<1>1. Len(list) \in Nat /\ DOMAIN list = 1..Len(list)
  BY DEF IsList
<1> QED BY <1>1 DEF Places, At

\* An optional child is the only one.
LEMMA OptionOnce ==
  ASSUME NEW x, IsOption(x), NEW j \in DOMAIN x, NEW k \in DOMAIN x
  PROVE  j = k
  BY DEF IsOption, IsList

\* Two rows with the same primary key.
SameKey(r, q) == r.t = q.t /\ r.pt = q.pt /\ r.id = q.id /\ r.p = q.p /\ r.i = q.i

\* The rows of R have keys of their own.
Apart(R) == \A r, q \in R : SameKey(r, q) => r = q

\* The fields of a row.
LEMMA RowFields ==
  ASSUME NEW t, NEW pt, NEW id, NEW p, NEW i, NEW v
  PROVE  LET r == Row(t, pt, id, p, i, v)
         IN  r.t = t /\ r.pt = pt /\ r.id = id /\ r.p = p /\ r.i = i
  BY DEF Row

-----------------------------------------------------------------------------
(***************************************************************************)
(* The rows of each part                                                   *)
(***************************************************************************)

\* The rows of a list of objects without children.
Leafs(t, pt, id, p, list) == {Row(t, pt, id, p, j, At(list, j).v) : j \in Places(list)}

\* They are told apart by their index.
LEMMA LeafRows ==
  ASSUME NEW t, NEW pt, NEW id, NEW p, NEW list
  PROVE  /\ \A r \in Leafs(t, pt, id, p, list) : r.t = t /\ r.pt = pt /\ r.id = id /\ r.p = p
         /\ Apart(Leafs(t, pt, id, p, list))
  BY RowFields DEF Leafs, Apart, SameKey

\* One row.
LEMMA OneRow ==
  ASSUME NEW t, NEW pt, NEW id, NEW p, NEW i, NEW v
  PROVE  /\ \A r \in {Row(t, pt, id, p, i, v)} : r.t = t /\ r.pt = pt /\ r.id = id /\ r.p = p /\ r.i = i
         /\ Apart({Row(t, pt, id, p, i, v)})
  BY RowFields DEF Apart

\* Rows of two parts without a key in common.
LEMMA ApartUnion ==
  ASSUME NEW A, NEW B, Apart(A), Apart(B), \A r \in A, q \in B : ~SameKey(r, q)
  PROVE  Apart(A \cup B)
  BY DEF Apart, SameKey

\* Fewer rows.
LEMMA ApartSubset ==
  ASSUME NEW A, NEW B, Apart(A), B \subseteq A
  PROVE  Apart(B)
  BY DEF Apart

\* A node and its addresses (insert_node).
LEMMA NodeRows ==
  ASSUME NEW pt, NEW id, NEW parent, NEW node, IsNode(node)
  PROVE  /\ \A r \in insert_node(pt, id, parent, node) :
              r.t \in {"node", "address"} /\ r.pt = pt /\ r.id = id /\ r.p = <<parent>>
         /\ Apart(insert_node(pt, id, parent, node))
<1> DEFINE own == {Row("node", pt, id, <<parent>>, NoIndex, node.v)}
           all == Leafs("address", pt, id, <<parent>>, node.address)
<1>1. insert_node(pt, id, parent, node) \subseteq own \cup all
  BY ElementPlaces DEF insert_node, Listed, insert_address, Leafs, IsNode, ListOf
<1>2. /\ \A r \in own : r.t = "node" /\ r.pt = pt /\ r.id = id /\ r.p = <<parent>>
      /\ \A r \in all : r.t = "address" /\ r.pt = pt /\ r.id = id /\ r.p = <<parent>>
      /\ Apart(own) /\ Apart(all)
  BY OneRow, LeafRows
<1> HIDE DEF own, all
<1>3. Apart(own \cup all)
  BY <1>2, ApartUnion DEF SameKey
<1> QED BY <1>1, <1>2, <1>3, ApartSubset

\* A user and its ids (insert_user).
LEMMA UserRows ==
  ASSUME NEW pt, NEW id, NEW parent, NEW user, IsUser(user)
  PROVE  /\ \A r \in insert_user(pt, id, parent, user) :
              r.t \in {"user", "user_id"} /\ r.pt = pt /\ r.id = id /\ r.p[1] = parent
         /\ Apart(insert_user(pt, id, parent, user))
<1> DEFINE own == {Row("user", pt, id, <<parent>>, NoIndex, user.v)}
           all == Leafs("user_id", pt, id, <<parent, 0, 0>>, user.user_id)
<1>1. insert_user(pt, id, parent, user) \subseteq own \cup all
  <2> SUFFICES ASSUME NEW r \in insert_user(pt, id, parent, user), r \notin own PROVE r \in all
    OBVIOUS
  <2>1. PICK j \in Places(user.user_id) :
          r \in insert_user_id(pt, id, parent, 0, 0, j, At(user.user_id, j))
    BY ElementPlaces DEF insert_user, Listed, IsUser, ListOf
  <2>2. r = Row("user_id", pt, id, <<parent, 0, 0>>, j, At(user.user_id, j).v)
    BY <2>1 DEF insert_user_id
  <2> QED BY <2>2 DEF Leafs
<1>2. /\ \A r \in own : r.t = "user" /\ r.pt = pt /\ r.id = id /\ r.p = <<parent>>
      /\ \A r \in all : r.t = "user_id" /\ r.pt = pt /\ r.id = id /\ r.p = <<parent, 0, 0>>
      /\ Apart(own) /\ Apart(all)
  BY OneRow, LeafRows
<1> HIDE DEF own, all
<1>3. Apart(own \cup all)
  BY <1>2, ApartUnion DEF SameKey
<1>4. <<parent>>[1] = parent /\ <<parent, 0, 0>>[1] = parent
  OBVIOUS
<1> QED BY <1>1, <1>2, <1>3, <1>4, ApartSubset

\* A process, its arguments and its environment (insert_process).
LEMMA ProcessRows ==
  ASSUME NEW pt, NEW id, NEW parent, NEW process, IsProcess(process)
  PROVE  /\ \A r \in insert_process(pt, id, parent, process) :
              /\ r.t \in {"process", "process_arg", "process_env"}
              /\ r.pt = pt /\ r.id = id /\ r.p = <<parent>>
         /\ Apart(insert_process(pt, id, parent, process))
<1> DEFINE own == {Row("process", pt, id, <<parent>>, NoIndex, process.v)}
           args == Leafs("process_arg", pt, id, <<parent>>, process.arg)
           envs == Leafs("process_env", pt, id, <<parent>>, process.env)
<1>1. insert_process(pt, id, parent, process) \subseteq (own \cup args) \cup envs
  BY ElementPlaces DEF insert_process, ListedOnce, insert_process_arg, insert_process_env, Leafs,
         IsProcess, ListOf
<1>2. /\ \A r \in own : r.t = "process" /\ r.pt = pt /\ r.id = id /\ r.p = <<parent>>
      /\ \A r \in args : r.t = "process_arg" /\ r.pt = pt /\ r.id = id /\ r.p = <<parent>>
      /\ \A r \in envs : r.t = "process_env" /\ r.pt = pt /\ r.id = id /\ r.p = <<parent>>
      /\ Apart(own) /\ Apart(args) /\ Apart(envs)
  BY OneRow, LeafRows
<1> HIDE DEF own, args, envs
<1>3. Apart(own \cup args)
  BY <1>2, ApartUnion DEF SameKey
<1>4. Apart((own \cup args) \cup envs)
  BY <1>2, <1>3, ApartUnion DEF SameKey
<1> QED BY <1>1, <1>2, <1>4, ApartSubset

\* A web service and its arguments (insert_web_service).
LEMMA WebRows ==
  ASSUME NEW pt, NEW id, NEW parent, NEW web, IsList(web.arg)
  PROVE  /\ \A r \in insert_web_service(pt, id, parent, web) :
              r.t \in {"web_service", "web_service_arg"} /\ r.pt = pt /\ r.id = id /\ r.p = <<parent>>
         /\ Apart(insert_web_service(pt, id, parent, web))
<1> DEFINE own == {Row("web_service", pt, id, <<parent>>, NoIndex, web.v)}
           all == Leafs("web_service_arg", pt, id, <<parent>>, web.arg)
<1>1. insert_web_service(pt, id, parent, web) \subseteq own \cup all
  BY ElementPlaces DEF insert_web_service, Listed, insert_web_service_arg, Leafs
<1>2. /\ \A r \in own : r.t = "web_service" /\ r.pt = pt /\ r.id = id /\ r.p = <<parent>>
      /\ \A r \in all : r.t = "web_service_arg" /\ r.pt = pt /\ r.id = id /\ r.p = <<parent>>
      /\ Apart(own) /\ Apart(all)
  BY OneRow, LeafRows
<1> HIDE DEF own, all
<1>3. Apart(own \cup all)
  BY <1>2, ApartUnion DEF SameKey
<1> QED BY <1>1, <1>2, <1>3, ApartSubset

\* A service, of the web or of SNMP (insert_service).
LEMMA ServiceRows ==
  ASSUME NEW pt, NEW id, NEW parent, NEW service, IsService(service)
  PROVE  /\ \A r \in insert_service(pt, id, parent, service) :
              /\ r.t \in {"service", "web_service", "web_service_arg", "snmp_service"}
              /\ r.pt = pt /\ r.id = id /\ r.p = <<parent>>
         /\ Apart(insert_service(pt, id, parent, service))
<1> DEFINE own == {Row("service", pt, id, <<parent>>, NoIndex, service.v)}
           web == Optional(LAMBDA x : insert_web_service(pt, id, parent, x), service.web_service)
           snmp == Optional(LAMBDA x : insert_snmp_service(pt, id, parent, x), service.snmp_service)
<1>1. insert_service(pt, id, parent, service) = (own \cup web) \cup snmp
  BY DEF insert_service
<1>2. /\ \A r \in own : r.t = "service" /\ r.pt = pt /\ r.id = id /\ r.p = <<parent>>
      /\ Apart(own)
  BY OneRow
<1>3. /\ \A r \in web : r.t \in {"web_service", "web_service_arg"} /\ r.pt = pt /\ r.id = id /\ r.p = <<parent>>
      /\ Apart(web)
  <2>1. \A r \in web : \E k \in DOMAIN service.web_service :
          r \in insert_web_service(pt, id, parent, service.web_service[k])
    BY DEF Optional
  <2>2. \A j, k \in DOMAIN service.web_service : j = k
    BY OptionOnce DEF IsService, IsWebService, OptionOf, ListOf
  <2>3. \A k \in DOMAIN service.web_service : IsList(service.web_service[k].arg)
    BY DEF IsService, IsWebService, OptionOf, ListOf
  <2> HIDE DEF web
  <2> QED BY <2>1, <2>2, <2>3, WebRows DEF Apart
<1>4. /\ \A r \in snmp : r.t = "snmp_service" /\ r.pt = pt /\ r.id = id /\ r.p = <<parent>>
      /\ Apart(snmp)
  <2>1. \A r \in snmp : \E k \in DOMAIN service.snmp_service :
          r = Row("snmp_service", pt, id, <<parent>>, NoIndex, service.snmp_service[k].v)
    BY DEF Optional, insert_snmp_service
  <2>2. \A j, k \in DOMAIN service.snmp_service : j = k
    BY OptionOnce DEF IsService, OptionOf
  <2> HIDE DEF snmp
  <2> QED BY <2>1, <2>2, RowFields DEF Apart
<1> HIDE DEF own, web, snmp
<1>5. Apart(own \cup web)
  BY <1>2, <1>3, ApartUnion DEF SameKey
<1>6. Apart((own \cup web) \cup snmp)
  BY <1>2, <1>3, <1>4, <1>5, ApartUnion DEF SameKey
<1> QED BY <1>1, <1>2, <1>3, <1>4, <1>6

\* An access to a file, its permissions and its user (insert_file_access): the index is
\* that of the access, or the last parent's of what is below it.
LEMMA AccessRows ==
  ASSUME NEW id, NEW target, NEW file, NEW index, NEW access, IsList(access.permission)
  PROVE  /\ \A r \in insert_file_access(id, target, file, index, access) :
              /\ \/ r.t = "file_access" /\ r.pt = NoType /\ r.i = index
                 \/ r.t = "file_access_permission" /\ r.pt = NoType /\ r.p[3] = index
                 \/ r.t = "user_id" /\ r.pt = "F" /\ r.p[3] = index
              /\ r.id = id /\ r.p[1] = target /\ r.p[2] = file
         /\ Apart(insert_file_access(id, target, file, index, access))
<1> DEFINE own == {Row("file_access", NoType, id, <<target, file>>, index, Empty)}
           all == Leafs("file_access_permission", NoType, id, <<target, file, index>>, access.permission)
           user == {Row("user_id", "F", id, <<target, file, index>>, 0, access.user_id[1].v)}
<1>1. insert_file_access(id, target, file, index, access) \subseteq (own \cup all) \cup user
  <2> SUFFICES ASSUME NEW r \in insert_file_access(id, target, file, index, access),
                      r \notin own, r \notin user
               PROVE  r \in all
    OBVIOUS
  <2>1. PICK j \in Places(access.permission) :
          r \in insert_file_access_permission(id, target, file, index, j, At(access.permission, j))
    BY ElementPlaces DEF insert_file_access, Listed, insert_user_id
  <2>2. r = Row("file_access_permission", NoType, id, <<target, file, index>>, j, At(access.permission, j).v)
    BY <2>1 DEF insert_file_access_permission
  <2> QED BY <2>2 DEF Leafs
<1>a. (\A r \in own : r.t = "file_access" /\ r.pt = NoType /\ r.id = id /\ r.p = <<target, file>> /\ r.i = index)
      /\ Apart(own)
  BY OneRow
<1>b. (\A r \in all : /\ r.t = "file_access_permission" /\ r.pt = NoType /\ r.id = id
                       /\ r.p = <<target, file, index>>)
      /\ Apart(all)
  BY LeafRows
<1>c. (\A r \in user : r.t = "user_id" /\ r.pt = "F" /\ r.id = id /\ r.p = <<target, file, index>>)
      /\ Apart(user)
  BY OneRow
<1> HIDE DEF own, all, user
<1>3. Apart(own \cup all)
  BY <1>a, <1>b, ApartUnion DEF SameKey
<1>4. Apart((own \cup all) \cup user)
  BY <1>a, <1>b, <1>c, <1>3, ApartUnion DEF SameKey
<1>5. <<target, file>>[1] = target /\ <<target, file>>[2] = file
  OBVIOUS
<1>6. /\ <<target, file, index>>[1] = target /\ <<target, file, index>>[2] = file
      /\ <<target, file, index>>[3] = index
  OBVIOUS
<1>7. ASSUME NEW r \in insert_file_access(id, target, file, index, access)
      PROVE  /\ \/ r.t = "file_access" /\ r.pt = NoType /\ r.i = index
                \/ r.t = "file_access_permission" /\ r.pt = NoType /\ r.p[3] = index
                \/ r.t = "user_id" /\ r.pt = "F" /\ r.p[3] = index
             /\ r.id = id /\ r.p[1] = target /\ r.p[2] = file
  <2>1. CASE r \in own
    BY <1>a, <1>5, <2>1
  <2>2. CASE r \in all
    BY <1>b, <1>6, <2>2
  <2>3. CASE r \in user
    BY <1>c, <1>6, <2>3
  <2> QED BY <1>1, <2>1, <2>2, <2>3
<1> QED BY <1>1, <1>4, <1>7, ApartSubset

\* Rows of all the accesses to a file: those of two are told apart by the index.
Accesses(id, target, file, list) == Listed(LAMBDA k, x : insert_file_access(id, target, file, k, x), list)

\* The loop of insert_file over its accesses.
LEMMA AccessesRows ==
  ASSUME NEW id, NEW target, NEW file, NEW list, IsList(list), \A k \in DOMAIN list : IsList(list[k].permission)
  PROVE  LET R == Accesses(id, target, file, list)
         IN  /\ \A r \in R : /\ \/ r.t \in {"file_access", "file_access_permission"} /\ r.pt = NoType
                                \/ r.t = "user_id" /\ r.pt = "F"
                             /\ r.id = id /\ r.p[1] = target /\ r.p[2] = file
             /\ Apart(R)
<1> DEFINE R == Accesses(id, target, file, list)
<1>2. \A r \in R : \E j \in Places(list) : r \in insert_file_access(id, target, file, j, At(list, j))
  BY ElementPlaces DEF Listed, Accesses
<1>3. \A j \in Places(list) : IsList(At(list, j).permission)
  BY AtPlace
<1> HIDE DEF R
<1>4. ASSUME NEW r \in R, NEW q \in R, SameKey(r, q) PROVE r = q
  <2>1. PICK j \in Places(list) : r \in insert_file_access(id, target, file, j, At(list, j))
    BY <1>2
  <2>2. PICK k \in Places(list) : q \in insert_file_access(id, target, file, k, At(list, k))
    BY <1>2
  <2>3. j = k
    BY <1>3, <1>4, <2>1, <2>2, AccessRows DEF SameKey
  <2> QED BY <1>3, <1>4, <2>1, <2>2, <2>3, AccessRows DEF Apart
<1>5. \A r \in R : /\ \/ r.t \in {"file_access", "file_access_permission"} /\ r.pt = NoType
                      \/ r.t = "user_id" /\ r.pt = "F"
                   /\ r.id = id /\ r.p[1] = target /\ r.p[2] = file
  BY <1>2, <1>3, AccessRows
<1> QED BY <1>4, <1>5 DEF R, Apart

\* A file and what is below it (insert_file): the index is that of the file, or the second
\* parent's of what is below it.
LEMMA FileRows ==
  ASSUME NEW id, NEW target, NEW index, NEW file, IsFile(file)
  PROVE  /\ \A r \in insert_file(id, target, index, file) :
              /\ \/ r.t = "file" /\ r.pt = NoType /\ r.i = index
                 \/ /\ r.t \in {"file_access", "file_access_permission", "linkage", "inode", "checksum"}
                    /\ r.pt = NoType /\ r.p[2] = index
                 \/ r.t = "user_id" /\ r.pt = "F" /\ r.p[2] = index
              /\ r.id = id /\ r.p[1] = target
         /\ Apart(insert_file(id, target, index, file))
<1> DEFINE own == {Row("file", NoType, id, <<target>>, index, file.v)}
           accesses == Accesses(id, target, index, file.file_access)
           links == Leafs("linkage", NoType, id, <<target, index>>, file.linkage)
           inode == Optional(LAMBDA x : insert_inode(id, target, index, x), file.inode)
           sums == Leafs("checksum", NoType, id, <<target, index>>, file.checksum)
<1>1. Listed(LAMBDA k, x : insert_linkage(id, target, index, k, x), file.linkage) \subseteq links
  <2> SUFFICES ASSUME NEW r \in Listed(LAMBDA k, x : insert_linkage(id, target, index, k, x), file.linkage)
               PROVE  r \in links
    OBVIOUS
  <2>1. PICK j \in Places(file.linkage) : r \in insert_linkage(id, target, index, j, At(file.linkage, j))
    BY ElementPlaces DEF Listed, IsFile, ListOf
  <2>2. r = Row("linkage", NoType, id, <<target, index>>, j, At(file.linkage, j).v)
    BY <2>1 DEF insert_linkage
  <2> QED BY <2>2 DEF Leafs
<1>2. Listed(LAMBDA k, x : insert_checksum(id, target, index, k, x), file.checksum) \subseteq sums
  <2> SUFFICES ASSUME NEW r \in Listed(LAMBDA k, x : insert_checksum(id, target, index, k, x), file.checksum)
               PROVE  r \in sums
    OBVIOUS
  <2>1. PICK j \in Places(file.checksum) : r \in insert_checksum(id, target, index, j, At(file.checksum, j))
    BY ElementPlaces DEF Listed, IsFile, ListOf
  <2>2. r = Row("checksum", NoType, id, <<target, index>>, j, At(file.checksum, j).v)
    BY <2>1 DEF insert_checksum
  <2> QED BY <2>2 DEF Leafs
<1>3. insert_file(id, target, index, file)
        \subseteq (((own \cup accesses) \cup links) \cup inode) \cup sums
  <2> HIDE DEF accesses, inode, sums, links
  <2> QED BY <1>1, <1>2 DEF insert_file, Accesses, accesses, inode
<1>a. (\A r \in own : r.t = "file" /\ r.pt = NoType /\ r.id = id /\ r.p = <<target>> /\ r.i = index) /\ Apart(own)
  BY OneRow
<1>b. /\ \A r \in accesses : /\ \/ r.t \in {"file_access", "file_access_permission"} /\ r.pt = NoType
                                \/ r.t = "user_id" /\ r.pt = "F"
                             /\ r.id = id /\ r.p[1] = target /\ r.p[2] = index
      /\ Apart(accesses)
  BY AccessesRows DEF IsFile, IsFileAccess, ListOf
<1>c. (\A r \in links : r.t = "linkage" /\ r.pt = NoType /\ r.id = id /\ r.p = <<target, index>>) /\ Apart(links)
  BY LeafRows
<1>d. (\A r \in inode : r.t = "inode" /\ r.pt = NoType /\ r.id = id /\ r.p = <<target, index>>) /\ Apart(inode)
  <2>1. \A r \in inode : \E k \in DOMAIN file.inode :
          r = Row("inode", NoType, id, <<target, index>>, NoIndex, file.inode[k].v)
    BY DEF Optional, insert_inode
  <2>2. \A j, k \in DOMAIN file.inode : j = k
    BY OptionOnce DEF IsFile, OptionOf
  <2> HIDE DEF inode
  <2> QED BY <2>1, <2>2, RowFields DEF Apart
<1>e. (\A r \in sums : r.t = "checksum" /\ r.pt = NoType /\ r.id = id /\ r.p = <<target, index>>) /\ Apart(sums)
  BY LeafRows
<1> HIDE DEF own, accesses, links, inode, sums
<1>4. Apart(own \cup accesses)
  BY <1>a, <1>b, ApartUnion DEF SameKey
<1>5. Apart((own \cup accesses) \cup links)
  BY <1>a, <1>b, <1>c, <1>4, ApartUnion DEF SameKey
<1>6. Apart(((own \cup accesses) \cup links) \cup inode)
  BY <1>a, <1>b, <1>c, <1>d, <1>5, ApartUnion DEF SameKey
<1>7. Apart((((own \cup accesses) \cup links) \cup inode) \cup sums)
  BY <1>a, <1>b, <1>c, <1>d, <1>e, <1>6, ApartUnion DEF SameKey
<1>8. <<target>>[1] = target /\ <<target, index>>[1] = target /\ <<target, index>>[2] = index
  OBVIOUS
<1>9. ASSUME NEW r \in insert_file(id, target, index, file)
      PROVE  /\ \/ r.t = "file" /\ r.pt = NoType /\ r.i = index
                \/ /\ r.t \in {"file_access", "file_access_permission", "linkage", "inode", "checksum"}
                   /\ r.pt = NoType /\ r.p[2] = index
                \/ r.t = "user_id" /\ r.pt = "F" /\ r.p[2] = index
             /\ r.id = id /\ r.p[1] = target
  <2>1. CASE r \in own
    BY <1>a, <1>8, <2>1
  <2>2. CASE r \in accesses
    BY <1>b, <2>2
  <2>3. CASE r \in links
    BY <1>c, <1>8, <2>3
  <2>4. CASE r \in inode
    BY <1>d, <1>8, <2>4
  <2>5. CASE r \in sums
    BY <1>e, <1>8, <2>5
  <2> QED BY <1>3, <2>1, <2>2, <2>3, <2>4, <2>5
<1> QED BY <1>3, <1>7, <1>9, ApartSubset

\* The tables of what is below a file.
FileTables == {"file", "file_access", "file_access_permission", "linkage", "inode", "checksum"}

\* Rows of all the files of a target.
FilesOf(id, target, list) == Listed(LAMBDA k, x : insert_file(id, target, k, x), list)

\* The loop of insert_target over its files.
LEMMA FilesRows ==
  ASSUME NEW id, NEW target, NEW list, IsList(list), \A k \in DOMAIN list : IsFile(list[k])
  PROVE  LET R == FilesOf(id, target, list)
         IN  /\ \A r \in R : /\ \/ r.t \in FileTables /\ r.pt = NoType
                                \/ r.t = "user_id" /\ r.pt = "F"
                             /\ r.id = id /\ r.p[1] = target
             /\ Apart(R)
<1> DEFINE R == FilesOf(id, target, list)
<1>2. \A r \in R : \E j \in Places(list) : r \in insert_file(id, target, j, At(list, j))
  BY ElementPlaces DEF Listed, FilesOf
<1>3. \A j \in Places(list) : IsFile(At(list, j))
  BY AtPlace
<1> HIDE DEF R
<1>4. ASSUME NEW r \in R, NEW q \in R, SameKey(r, q) PROVE r = q
  <2>1. PICK j \in Places(list) : r \in insert_file(id, target, j, At(list, j))
    BY <1>2
  <2>2. PICK k \in Places(list) : q \in insert_file(id, target, k, At(list, k))
    BY <1>2
  <2>3. j = k
    BY <1>3, <1>4, <2>1, <2>2, FileRows DEF SameKey
  <2> QED BY <1>3, <1>4, <2>1, <2>2, <2>3, FileRows DEF Apart
<1>5. \A r \in R : /\ \/ r.t \in FileTables /\ r.pt = NoType
                      \/ r.t = "user_id" /\ r.pt = "F"
                   /\ r.id = id /\ r.p[1] = target
  BY <1>2, <1>3, FileRows DEF FileTables
<1> QED BY <1>4, <1>5 DEF R, Apart

-----------------------------------------------------------------------------
(***************************************************************************)
(* Sources, targets and analyzers                                          *)
(***************************************************************************)

NodeTables    == {"node", "address"}
UserTables    == {"user", "user_id"}
ProcessTables == {"process", "process_arg", "process_env"}
ServiceTables == {"service", "web_service", "web_service_arg", "snmp_service"}

\* The optional children of a source, a target or an analyzer.
NodeOf(pt, id, index, x) == Optional(LAMBDA y : insert_node(pt, id, index, y), x)
UserOf(pt, id, index, x) == Optional(LAMBDA y : insert_user(pt, id, index, y), x)
ProcessOf(pt, id, index, x) == Optional(LAMBDA y : insert_process(pt, id, index, y), x)
ServiceOf(pt, id, index, x) == Optional(LAMBDA y : insert_service(pt, id, index, y), x)

\* Rows of table in T, of parent type pt, of message id, below index; with keys of their own.
Below(R, T, pt, id, index) ==
  (\A r \in R : r.t \in T /\ r.pt = pt /\ r.id = id /\ r.p[1] = index) /\ Apart(R)

\* The rows of each.
LEMMA PartRows ==
  ASSUME NEW pt, NEW id, NEW index, NEW x, IsOption(x)
  PROVE  /\ (\A k \in DOMAIN x : IsNode(x[k])) => Below(NodeOf(pt, id, index, x), NodeTables, pt, id, index)
         /\ (\A k \in DOMAIN x : IsUser(x[k])) => Below(UserOf(pt, id, index, x), UserTables, pt, id, index)
         /\ (\A k \in DOMAIN x : IsProcess(x[k])) =>
              Below(ProcessOf(pt, id, index, x), ProcessTables, pt, id, index)
         /\ (\A k \in DOMAIN x : IsService(x[k])) =>
              Below(ServiceOf(pt, id, index, x), ServiceTables, pt, id, index)
<1>0. \A j, k \in DOMAIN x : j = k
  BY OptionOnce
<1>a. <<index>>[1] = index
  OBVIOUS
<1>1. ASSUME \A k \in DOMAIN x : IsNode(x[k]) PROVE Below(NodeOf(pt, id, index, x), NodeTables, pt, id, index)
  <2>1. \A r \in NodeOf(pt, id, index, x) : \E k \in DOMAIN x : r \in insert_node(pt, id, index, x[k])
    BY DEF NodeOf, Optional
  <2>2. \A k \in DOMAIN x : Below(insert_node(pt, id, index, x[k]), NodeTables, pt, id, index)
    BY <1>a, <1>1, NodeRows DEF Below, NodeTables
  <2> QED BY <1>0, <2>1, <2>2 DEF Below, Apart
<1>2. ASSUME \A k \in DOMAIN x : IsUser(x[k]) PROVE Below(UserOf(pt, id, index, x), UserTables, pt, id, index)
  <2>1. \A r \in UserOf(pt, id, index, x) : \E k \in DOMAIN x : r \in insert_user(pt, id, index, x[k])
    BY DEF UserOf, Optional
  <2>2. \A k \in DOMAIN x : Below(insert_user(pt, id, index, x[k]), UserTables, pt, id, index)
    BY <1>2, UserRows DEF Below, UserTables
  <2> QED BY <1>0, <2>1, <2>2 DEF Below, Apart
<1>3. ASSUME \A k \in DOMAIN x : IsProcess(x[k])
      PROVE  Below(ProcessOf(pt, id, index, x), ProcessTables, pt, id, index)
  <2>1. \A r \in ProcessOf(pt, id, index, x) : \E k \in DOMAIN x : r \in insert_process(pt, id, index, x[k])
    BY DEF ProcessOf, Optional
  <2>2. \A k \in DOMAIN x : Below(insert_process(pt, id, index, x[k]), ProcessTables, pt, id, index)
    BY <1>a, <1>3, ProcessRows DEF Below, ProcessTables
  <2> QED BY <1>0, <2>1, <2>2 DEF Below, Apart
<1>4. ASSUME \A k \in DOMAIN x : IsService(x[k])
      PROVE  Below(ServiceOf(pt, id, index, x), ServiceTables, pt, id, index)
  <2>1. \A r \in ServiceOf(pt, id, index, x) : \E k \in DOMAIN x : r \in insert_service(pt, id, index, x[k])
    BY DEF ServiceOf, Optional
  <2>2. \A k \in DOMAIN x : Below(insert_service(pt, id, index, x[k]), ServiceTables, pt, id, index)
    BY <1>a, <1>4, ServiceRows DEF Below, ServiceTables
  <2> QED BY <1>0, <2>1, <2>2 DEF Below, Apart
<1> QED BY <1>1, <1>2, <1>3, <1>4

\* Rows below in different tables.
LEMMA BelowUnion ==
  ASSUME NEW A, NEW B, NEW S, NEW T, NEW pt, NEW id, NEW index, S \cap T = {},
         Below(A, S, pt, id, index), Below(B, T, pt, id, index)
  PROVE  Below(A \cup B, S \cup T, pt, id, index)
<1>1. Apart(A \cup B)
  BY ApartUnion DEF Below, SameKey
<1> QED BY <1>1 DEF Below

EndTables == ((NodeTables \cup UserTables) \cup ProcessTables) \cup ServiceTables

\* All four, of a source or a target.
EndOf(pt, id, index, x) ==
  ((NodeOf(pt, id, index, x.node) \cup UserOf(pt, id, index, x.user))
     \cup ProcessOf(pt, id, index, x.process)) \cup ServiceOf(pt, id, index, x.service)

\* Their tables differ.
LEMMA EndRows ==
  ASSUME NEW pt, NEW id, NEW index, NEW x, IsEnd(x)
  PROVE  Below(EndOf(pt, id, index, x), EndTables, pt, id, index)
<1>1. /\ Below(NodeOf(pt, id, index, x.node), NodeTables, pt, id, index)
      /\ Below(UserOf(pt, id, index, x.user), UserTables, pt, id, index)
      /\ Below(ProcessOf(pt, id, index, x.process), ProcessTables, pt, id, index)
      /\ Below(ServiceOf(pt, id, index, x.service), ServiceTables, pt, id, index)
  BY PartRows DEF IsEnd, OptionOf
<1>2. /\ NodeTables \cap UserTables = {} /\ (NodeTables \cup UserTables) \cap ProcessTables = {}
      /\ ((NodeTables \cup UserTables) \cup ProcessTables) \cap ServiceTables = {}
  BY DEF NodeTables, UserTables, ProcessTables, ServiceTables
<1>3. Below(NodeOf(pt, id, index, x.node) \cup UserOf(pt, id, index, x.user),
            NodeTables \cup UserTables, pt, id, index)
  BY <1>1, <1>2, BelowUnion
<1>4. Below((NodeOf(pt, id, index, x.node) \cup UserOf(pt, id, index, x.user))
              \cup ProcessOf(pt, id, index, x.process),
            (NodeTables \cup UserTables) \cup ProcessTables, pt, id, index)
  BY <1>1, <1>2, <1>3, BelowUnion
<1> QED BY <1>1, <1>2, <1>4, BelowUnion DEF EndOf, EndTables

\* A source (insert_source): the index is its own or the first parent's of what is below.
LEMMA SourceRows ==
  ASSUME NEW id, NEW index, NEW source, IsSource(source)
  PROVE  /\ \A r \in insert_source(id, index, source) :
              /\ \/ r.t = "source" /\ r.pt = NoType /\ r.i = index
                 \/ r.t \in EndTables /\ r.pt = "S" /\ r.p[1] = index
              /\ r.id = id
         /\ Apart(insert_source(id, index, source))
<1> DEFINE own == {Row("source", NoType, id, << >>, index, source.v)}
           end == EndOf("S", id, index, source)
<1>1. insert_source(id, index, source) = own \cup end
  BY DEF insert_source, EndOf, NodeOf, UserOf, ProcessOf, ServiceOf
<1>2. (\A r \in own : r.t = "source" /\ r.pt = NoType /\ r.id = id /\ r.i = index) /\ Apart(own)
  BY OneRow
<1>3. (\A r \in end : r.t \in EndTables /\ r.pt = "S" /\ r.id = id /\ r.p[1] = index) /\ Apart(end)
  BY EndRows DEF Below, IsSource
<1>4. "source" \notin EndTables
  BY DEF EndTables, NodeTables, UserTables, ProcessTables, ServiceTables
<1> HIDE DEF own, end
<1>5. Apart(own \cup end)
  BY <1>2, <1>3, <1>4, ApartUnion DEF SameKey
<1> QED BY <1>1, <1>2, <1>3, <1>5

\* A target (insert_target), in the same way.
LEMMA TargetRows ==
  ASSUME NEW id, NEW index, NEW target, IsTarget(target)
  PROVE  /\ \A r \in insert_target(id, index, target) :
              /\ \/ r.t = "target" /\ r.pt = NoType /\ r.i = index
                 \/ r.t \in EndTables /\ r.pt = "T" /\ r.p[1] = index
                 \/ r.t \in FileTables /\ r.pt = NoType /\ r.p[1] = index
                 \/ r.t = "user_id" /\ r.pt = "F" /\ r.p[1] = index
              /\ r.id = id
         /\ Apart(insert_target(id, index, target))
<1> DEFINE own == {Row("target", NoType, id, << >>, index, target.v)}
           end == EndOf("T", id, index, target)
           files == FilesOf(id, index, target.file)
<1>1. insert_target(id, index, target) = (own \cup end) \cup files
  BY DEF insert_target, EndOf, NodeOf, UserOf, ProcessOf, ServiceOf, FilesOf
<1>2. (\A r \in own : r.t = "target" /\ r.pt = NoType /\ r.id = id /\ r.i = index) /\ Apart(own)
  BY OneRow
<1>3. (\A r \in end : r.t \in EndTables /\ r.pt = "T" /\ r.id = id /\ r.p[1] = index) /\ Apart(end)
  BY EndRows DEF Below, IsTarget
<1>4. /\ \A r \in files : /\ \/ r.t \in FileTables /\ r.pt = NoType
                             \/ r.t = "user_id" /\ r.pt = "F"
                          /\ r.id = id /\ r.p[1] = index
      /\ Apart(files)
  BY FilesRows DEF IsTarget, ListOf
<1>5. "target" \notin EndTables /\ "target" \notin FileTables
  BY DEF EndTables, NodeTables, UserTables, ProcessTables, ServiceTables, FileTables
<1> HIDE DEF own, end, files
<1>6. Apart(own \cup end)
  BY <1>2, <1>3, <1>5, ApartUnion DEF SameKey
<1>7. \A r \in own \cup end, q \in files : ~SameKey(r, q)
  BY <1>2, <1>3, <1>4, <1>5 DEF SameKey, NoType
<1>8. Apart((own \cup end) \cup files)
  BY <1>4, <1>6, <1>7, ApartUnion
<1> QED BY <1>1, <1>2, <1>3, <1>4, <1>8

AnalyzerTables == NodeTables \cup ProcessTables

\* An analyzer (insert_analyzer) of an alert or a heartbeat.
LEMMA AnalyzerRows ==
  ASSUME NEW pt, NEW id, NEW index, NEW analyzer, IsAnalyzer(analyzer)
  PROVE  /\ \A r \in insert_analyzer(pt, id, index, analyzer) :
              /\ \/ r.t = "analyzer" /\ r.i = index
                 \/ r.t \in AnalyzerTables /\ r.p[1] = index
              /\ r.id = id /\ r.pt = pt
         /\ Apart(insert_analyzer(pt, id, index, analyzer))
<1> DEFINE own == {Row("analyzer", pt, id, << >>, index, analyzer.v)}
           parts == NodeOf(pt, id, index, analyzer.node) \cup ProcessOf(pt, id, index, analyzer.process)
<1>1. insert_analyzer(pt, id, index, analyzer) = own \cup parts
  BY DEF insert_analyzer, NodeOf, ProcessOf
<1>2. (\A r \in own : r.t = "analyzer" /\ r.pt = pt /\ r.id = id /\ r.i = index) /\ Apart(own)
  BY OneRow
<1>3. /\ Below(NodeOf(pt, id, index, analyzer.node), NodeTables, pt, id, index)
      /\ Below(ProcessOf(pt, id, index, analyzer.process), ProcessTables, pt, id, index)
  BY PartRows DEF IsAnalyzer, OptionOf
<1>4. NodeTables \cap ProcessTables = {} /\ "analyzer" \notin AnalyzerTables
  BY DEF NodeTables, ProcessTables, AnalyzerTables
<1>5. Below(parts, AnalyzerTables, pt, id, index)
  BY <1>3, <1>4, BelowUnion DEF AnalyzerTables
<1> HIDE DEF own, parts
<1>6. Apart(own \cup parts)
  BY <1>2, <1>4, <1>5, ApartUnion DEF SameKey, Below
<1> QED BY <1>1, <1>2, <1>5, <1>6 DEF Below

\* All the sources of an alert, in the tables of sources: those of two are told apart
\* by the index.
SourcesOf(id, list) == Listed(LAMBDA k, x : insert_source(id, k, x), list)

\* The rows of the sources (insert_alert).
LEMMA SourcesRows ==
  ASSUME NEW id, NEW list, IsList(list), \A k \in DOMAIN list : IsSource(list[k])
  PROVE  LET R == SourcesOf(id, list)
         IN  /\ \A r \in R : /\ \/ r.t = "source" /\ r.pt = NoType
                                \/ r.t \in EndTables /\ r.pt = "S"
                             /\ r.id = id
             /\ Apart(R)
<1> DEFINE R == SourcesOf(id, list)
<1>1. \A r \in R : \E j \in Places(list) : r \in insert_source(id, j, At(list, j))
  BY ElementPlaces DEF Listed, SourcesOf
<1>2. \A j \in Places(list) : IsSource(At(list, j))
  BY AtPlace
<1>3. "source" \notin EndTables
  BY DEF EndTables, NodeTables, UserTables, ProcessTables, ServiceTables
<1> HIDE DEF R
<1>4. ASSUME NEW r \in R, NEW q \in R, SameKey(r, q) PROVE r = q
  <2>1. PICK j \in Places(list) : r \in insert_source(id, j, At(list, j))
    BY <1>1
  <2>2. PICK k \in Places(list) : q \in insert_source(id, k, At(list, k))
    BY <1>1
  <2>3. j = k
    BY <1>2, <1>3, <1>4, <2>1, <2>2, SourceRows DEF SameKey
  <2> QED BY <1>2, <1>4, <2>1, <2>2, <2>3, SourceRows DEF Apart
<1>5. \A r \in R : /\ \/ r.t = "source" /\ r.pt = NoType
                      \/ r.t \in EndTables /\ r.pt = "S"
                   /\ r.id = id
  BY <1>1, <1>2, SourceRows
<1> QED BY <1>4, <1>5 DEF R, Apart

\* All the targets of an alert.
TargetsOf(id, list) == Listed(LAMBDA k, x : insert_target(id, k, x), list)

\* The rows of the targets (insert_alert).
LEMMA TargetsRows ==
  ASSUME NEW id, NEW list, IsList(list), \A k \in DOMAIN list : IsTarget(list[k])
  PROVE  LET R == TargetsOf(id, list)
         IN  /\ \A r \in R : /\ \/ r.t = "target" /\ r.pt = NoType
                                \/ r.t \in EndTables /\ r.pt = "T"
                                \/ r.t \in FileTables /\ r.pt = NoType
                                \/ r.t = "user_id" /\ r.pt = "F"
                             /\ r.id = id
             /\ Apart(R)
<1> DEFINE R == TargetsOf(id, list)
<1>1. \A r \in R : \E j \in Places(list) : r \in insert_target(id, j, At(list, j))
  BY ElementPlaces DEF Listed, TargetsOf
<1>2. \A j \in Places(list) : IsTarget(At(list, j))
  BY AtPlace
<1>3. "target" \notin EndTables /\ "target" \notin FileTables
  BY DEF EndTables, NodeTables, UserTables, ProcessTables, ServiceTables, FileTables
<1> HIDE DEF R
<1>4. ASSUME NEW r \in R, NEW q \in R, SameKey(r, q) PROVE r = q
  <2>1. PICK j \in Places(list) : r \in insert_target(id, j, At(list, j))
    BY <1>1
  <2>2. PICK k \in Places(list) : q \in insert_target(id, k, At(list, k))
    BY <1>1
  <2>3. j = k
    BY <1>2, <1>3, <1>4, <2>1, <2>2, TargetRows DEF SameKey
  <2> QED BY <1>2, <1>4, <2>1, <2>2, <2>3, TargetRows DEF Apart
<1>5. \A r \in R : /\ \/ r.t = "target" /\ r.pt = NoType
                      \/ r.t \in EndTables /\ r.pt = "T"
                      \/ r.t \in FileTables /\ r.pt = NoType
                      \/ r.t = "user_id" /\ r.pt = "F"
                   /\ r.id = id
  BY <1>1, <1>2, TargetRows
<1> QED BY <1>4, <1>5 DEF R, Apart

\* All the analyzers of an alert or a heartbeat.
AnalyzersOf(pt, id, list) == Listed(LAMBDA k, x : insert_analyzer(pt, id, k, x), list)

\* The rows of the analyzers (insert_alert, insert_heartbeat).
LEMMA AnalyzersRows ==
  ASSUME NEW pt, NEW id, NEW list, IsList(list), \A k \in DOMAIN list : IsAnalyzer(list[k])
  PROVE  LET R == AnalyzersOf(pt, id, list)
         IN  /\ \A r \in R : (r.t = "analyzer" \/ r.t \in AnalyzerTables) /\ r.pt = pt /\ r.id = id
             /\ Apart(R)
<1> DEFINE R == AnalyzersOf(pt, id, list)
<1>1. \A r \in R : \E j \in Places(list) : r \in insert_analyzer(pt, id, j, At(list, j))
  BY ElementPlaces DEF Listed, AnalyzersOf
<1>2. \A j \in Places(list) : IsAnalyzer(At(list, j))
  BY AtPlace
<1>3. "analyzer" \notin AnalyzerTables
  BY DEF AnalyzerTables, NodeTables, ProcessTables
<1> HIDE DEF R
<1>4. ASSUME NEW r \in R, NEW q \in R, SameKey(r, q) PROVE r = q
  <2>1. PICK j \in Places(list) : r \in insert_analyzer(pt, id, j, At(list, j))
    BY <1>1
  <2>2. PICK k \in Places(list) : q \in insert_analyzer(pt, id, k, At(list, k))
    BY <1>1
  <2>3. j = k
    BY <1>2, <1>3, <1>4, <2>1, <2>2, AnalyzerRows DEF SameKey
  <2> QED BY <1>2, <1>4, <2>1, <2>2, <2>3, AnalyzerRows DEF Apart
<1>5. \A r \in R : (r.t = "analyzer" \/ r.t \in AnalyzerTables) /\ r.pt = pt /\ r.id = id
  BY <1>1, <1>2, AnalyzerRows
<1> QED BY <1>4, <1>5 DEF R, Apart

-----------------------------------------------------------------------------
(***************************************************************************)
(* Alerts and heartbeats                                                   *)
(***************************************************************************)

\* The tables that only alerts have, and those they share with heartbeats.
AlertTables == {"action", "alertident", "assessment", "classification", "reference", "confidence",
                "correlation_alert", "detect_time", "impact", "overflow_alert", "source", "target",
                "tool_alert"} \cup FileTables \cup UserTables \cup ServiceTables
SharedTables == {"additional_data", "analyzer", "analyzer_time", "create_time"} \cup AnalyzerTables

\* What insert_alert writes below the alert's own row, and insert_heartbeat below the
\* heartbeat's: with one parent type on the tables of an analyzer.
OfAlert(r) ==
  /\ r.t \in AlertTables \/ r.t \in SharedTables
  /\ r.pt # "H"
  /\ r.t \in {"additional_data", "analyzer", "analyzer_time", "create_time"} => r.pt = "A"
OfHeartbeat(r) == r.t \in SharedTables /\ r.pt = "H"

\* A part of an alert: rows in the tables T, with keys of their own.
Part(R, T, id) == (\A r \in R : r.t \in T /\ r.id = id /\ OfAlert(r)) /\ Apart(R)

\* Parts in different tables.
LEMMA PartUnion ==
  ASSUME NEW A, NEW B, NEW S, NEW T, NEW id, S \cap T = {}, Part(A, S, id), Part(B, T, id)
  PROVE  Part(A \cup B, S \cup T, id)
<1>1. Apart(A \cup B)
  BY ApartUnion DEF Part, SameKey
<1> QED BY <1>1 DEF Part

\* The optional times of a message, and the overflow alert.
CreateOf(pt, id, x) == Optional(LAMBDA y : insert_createtime(pt, id, y), x)
DetectOf(id, x) == Optional(LAMBDA y : insert_detecttime(id, y), x)
AnalyzerTimeOf(pt, id, x) == Optional(LAMBDA y : insert_analyzertime(pt, id, y), x)
OverflowOf(id, x) == Optional(LAMBDA y : insert_overflow_alert(id, y), x)

\* One row at most in each of their tables.
LEMMA TimeRows ==
  ASSUME NEW pt, NEW id, NEW x, IsOption(x)
  PROVE  /\ \A r \in CreateOf(pt, id, x) : r.t = "create_time" /\ r.pt = pt /\ r.id = id
         /\ \A r \in DetectOf(id, x) : r.t = "detect_time" /\ r.pt = NoType /\ r.id = id
         /\ \A r \in AnalyzerTimeOf(pt, id, x) : r.t = "analyzer_time" /\ r.pt = pt /\ r.id = id
         /\ \A r \in OverflowOf(id, x) : r.t = "overflow_alert" /\ r.pt = NoType /\ r.id = id
         /\ Apart(CreateOf(pt, id, x)) /\ Apart(DetectOf(id, x))
         /\ Apart(AnalyzerTimeOf(pt, id, x)) /\ Apart(OverflowOf(id, x))
<1>0. \A j, k \in DOMAIN x : j = k
  BY OptionOnce
<1>1. \A r \in CreateOf(pt, id, x) : \E k \in DOMAIN x : r = Row("create_time", pt, id, << >>, NoIndex, x[k].v)
  BY DEF CreateOf, Optional, insert_createtime
<1>2. \A r \in DetectOf(id, x) : \E k \in DOMAIN x : r = Row("detect_time", NoType, id, << >>, NoIndex, x[k].v)
  BY DEF DetectOf, Optional, insert_detecttime
<1>3. \A r \in AnalyzerTimeOf(pt, id, x) :
        \E k \in DOMAIN x : r = Row("analyzer_time", pt, id, << >>, NoIndex, x[k].v)
  BY DEF AnalyzerTimeOf, Optional, insert_analyzertime
<1>4. \A r \in OverflowOf(id, x) :
        \E k \in DOMAIN x : r = Row("overflow_alert", NoType, id, << >>, NoIndex, x[k].v)
  BY DEF OverflowOf, Optional, insert_overflow_alert
<1>5. Apart(CreateOf(pt, id, x)) /\ Apart(DetectOf(id, x))
  BY <1>0, <1>1, <1>2 DEF Apart
<1>6. Apart(AnalyzerTimeOf(pt, id, x)) /\ Apart(OverflowOf(id, x))
  BY <1>0, <1>3, <1>4 DEF Apart
<1>7. /\ \A r \in CreateOf(pt, id, x) : r.t = "create_time" /\ r.pt = pt /\ r.id = id
      /\ \A r \in DetectOf(id, x) : r.t = "detect_time" /\ r.pt = NoType /\ r.id = id
  BY <1>1, <1>2, RowFields
<1>8. /\ \A r \in AnalyzerTimeOf(pt, id, x) : r.t = "analyzer_time" /\ r.pt = pt /\ r.id = id
      /\ \A r \in OverflowOf(id, x) : r.t = "overflow_alert" /\ r.pt = NoType /\ r.id = id
  BY <1>3, <1>4, RowFields
<1> QED BY <1>5, <1>6, <1>7, <1>8

\* The additional data of a message.
DataOf(pt, id, list) == Listed(LAMBDA k, x : insert_additional_data(pt, id, k, x), list)

\* Its rows.
LEMMA DataRows ==
  ASSUME NEW pt, NEW id, NEW list, IsList(list)
  PROVE  /\ \A r \in DataOf(pt, id, list) : r.t = "additional_data" /\ r.pt = pt /\ r.id = id
         /\ Apart(DataOf(pt, id, list))
<1>1. DataOf(pt, id, list) \subseteq Leafs("additional_data", pt, id, << >>, list)
  BY ElementPlaces DEF DataOf, Listed, insert_additional_data, Leafs
<1> QED BY <1>1, LeafRows, ApartSubset

\* A classification and its references (insert_classification).
LEMMA ClassificationRows ==
  ASSUME NEW id, NEW x, IsList(x.reference)
  PROVE  Part(insert_classification(id, x), {"classification", "reference"}, id)
<1> DEFINE own == {Row("classification", NoType, id, << >>, NoIndex, x.v)}
           all == Leafs("reference", NoType, id, << >>, x.reference)
<1>1. insert_classification(id, x) \subseteq own \cup all
  BY ElementPlaces DEF insert_classification, Listed, insert_reference, Leafs
<1>2. /\ \A r \in own : r.t = "classification" /\ r.pt = NoType /\ r.id = id
      /\ \A r \in all : r.t = "reference" /\ r.pt = NoType /\ r.id = id
      /\ Apart(own) /\ Apart(all)
  BY OneRow, LeafRows
<1> HIDE DEF own, all
<1>3. Apart(own \cup all)
  BY <1>2, ApartUnion DEF SameKey
<1>4. \A r \in own \cup all : r.t \in {"classification", "reference"} /\ r.id = id /\ OfAlert(r)
  BY <1>2 DEF OfAlert, AlertTables, NoType
<1> QED BY <1>1, <1>3, <1>4, ApartSubset DEF Part

\* The impact and the confidence of an assessment.
ImpactOf(id, x) == Optional(LAMBDA y : insert_impact(id, y), x)
ConfidenceOf(id, x) == Optional(LAMBDA y : insert_confidence(id, y), x)
AssessmentTables == {"assessment", "impact", "confidence", "action"}

\* An assessment with its actions (insert_assessment).
LEMMA AssessmentRows ==
  ASSUME NEW id, NEW x, IsAssessment(x)
  PROVE  Part(insert_assessment(id, x), AssessmentTables, id)
<1> DEFINE own == {Row("assessment", NoType, id, << >>, NoIndex, Empty)}
           impact == ImpactOf(id, x.impact)
           confidence == ConfidenceOf(id, x.confidence)
           all == Leafs("action", NoType, id, << >>, x.action)
<1>0. Listed(LAMBDA k, y : insert_action(id, k, y), x.action) \subseteq all
  BY ElementPlaces DEF Listed, insert_action, Leafs, IsAssessment, ListOf
<1>1. insert_assessment(id, x) \subseteq ((own \cup impact) \cup confidence) \cup all
  BY <1>0 DEF insert_assessment, ImpactOf, ConfidenceOf
<1>a. (\A r \in own : r.t = "assessment" /\ r.pt = NoType /\ r.id = id) /\ Apart(own)
  BY OneRow
<1>b. (\A r \in impact : r.t = "impact" /\ r.pt = NoType /\ r.id = id) /\ Apart(impact)
  <2>1. \A r \in impact : \E k \in DOMAIN x.impact :
          r = Row("impact", NoType, id, << >>, NoIndex, x.impact[k].v)
    BY DEF ImpactOf, Optional, insert_impact
  <2>2. \A j, k \in DOMAIN x.impact : j = k
    BY OptionOnce DEF IsAssessment, OptionOf
  <2> HIDE DEF impact
  <2> QED BY <2>1, <2>2, RowFields DEF Apart
<1>c. (\A r \in confidence : r.t = "confidence" /\ r.pt = NoType /\ r.id = id) /\ Apart(confidence)
  <2>1. \A r \in confidence : \E k \in DOMAIN x.confidence :
          r = Row("confidence", NoType, id, << >>, NoIndex, x.confidence[k].v)
    BY DEF ConfidenceOf, Optional, insert_confidence
  <2>2. \A j, k \in DOMAIN x.confidence : j = k
    BY OptionOnce DEF IsAssessment, OptionOf
  <2> HIDE DEF confidence
  <2> QED BY <2>1, <2>2, RowFields DEF Apart
<1>d. (\A r \in all : r.t = "action" /\ r.pt = NoType /\ r.id = id) /\ Apart(all)
  BY LeafRows
<1> HIDE DEF own, impact, confidence, all
<1>2. Apart(own \cup impact)
  BY <1>a, <1>b, ApartUnion DEF SameKey
<1>3. Apart((own \cup impact) \cup confidence)
  BY <1>a, <1>b, <1>c, <1>2, ApartUnion DEF SameKey
<1>4. Apart(((own \cup impact) \cup confidence) \cup all)
  BY <1>a, <1>b, <1>c, <1>d, <1>3, ApartUnion DEF SameKey
<1>5. \A r \in ((own \cup impact) \cup confidence) \cup all : r.t \in AssessmentTables /\ r.id = id /\ OfAlert(r)
  BY <1>a, <1>b, <1>c, <1>d DEF OfAlert, AlertTables, AssessmentTables, NoType
<1> QED BY <1>1, <1>4, <1>5, ApartSubset DEF Part

\* A tool alert and its alert idents (insert_tool_alert).
LEMMA ToolRows ==
  ASSUME NEW id, NEW x, IsList(x.alertident)
  PROVE  /\ \A r \in insert_tool_alert(id, x) :
              /\ (r.t = "tool_alert" /\ r.pt = NoType) \/ (r.t = "alertident" /\ r.pt = "T")
              /\ r.id = id
         /\ Apart(insert_tool_alert(id, x))
<1> DEFINE own == {Row("tool_alert", NoType, id, << >>, NoIndex, x.v)}
           all == Leafs("alertident", "T", id, << >>, x.alertident)
<1>1. insert_tool_alert(id, x) \subseteq own \cup all
  BY ElementPlaces DEF insert_tool_alert, ListedOnce, insert_alertident, Leafs
<1>2. /\ \A r \in own : r.t = "tool_alert" /\ r.pt = NoType /\ r.id = id
      /\ \A r \in all : r.t = "alertident" /\ r.pt = "T" /\ r.id = id
      /\ Apart(own) /\ Apart(all)
  BY OneRow, LeafRows
<1> HIDE DEF own, all
<1>3. Apart(own \cup all)
  BY <1>2, ApartUnion DEF SameKey
<1> QED BY <1>1, <1>2, <1>3, ApartSubset

\* A correlation alert and its alert idents (insert_correlation_alert).
LEMMA CorrelationRows ==
  ASSUME NEW id, NEW x, IsList(x.alertident)
  PROVE  /\ \A r \in insert_correlation_alert(id, x) :
              /\ (r.t = "correlation_alert" /\ r.pt = NoType) \/ (r.t = "alertident" /\ r.pt = "C")
              /\ r.id = id
         /\ Apart(insert_correlation_alert(id, x))
<1> DEFINE own == {Row("correlation_alert", NoType, id, << >>, NoIndex, x.v)}
           all == Leafs("alertident", "C", id, << >>, x.alertident)
<1>1. insert_correlation_alert(id, x) \subseteq own \cup all
  BY ElementPlaces DEF insert_correlation_alert, Listed, insert_alertident, Leafs
<1>2. /\ \A r \in own : r.t = "correlation_alert" /\ r.pt = NoType /\ r.id = id
      /\ \A r \in all : r.t = "alertident" /\ r.pt = "C" /\ r.id = id
      /\ Apart(own) /\ Apart(all)
  BY OneRow, LeafRows
<1> HIDE DEF own, all
<1>3. Apart(own \cup all)
  BY <1>2, ApartUnion DEF SameKey
<1> QED BY <1>1, <1>2, <1>3, ApartSubset

\* The optional parts of an alert that have rows below them.
AssessmentOf(id, x) == Optional(LAMBDA y : insert_assessment(id, y), x)
ClassificationOf(id, x) == Optional(LAMBDA y : insert_classification(id, y), x)
ToolOf(id, x) == Optional(LAMBDA y : insert_tool_alert(id, y), x)
CorrelationOf(id, x) == Optional(LAMBDA y : insert_correlation_alert(id, y), x)

\* The rows of the assessment and the classification.
LEMMA OptionRows ==
  ASSUME NEW id, NEW x, IsOption(x)
  PROVE  /\ (\A k \in DOMAIN x : IsAssessment(x[k])) => Part(AssessmentOf(id, x), AssessmentTables, id)
         /\ (\A k \in DOMAIN x : IsList(x[k].reference)) =>
              Part(ClassificationOf(id, x), {"classification", "reference"}, id)
<1>0. \A j, k \in DOMAIN x : j = k
  BY OptionOnce
<1>1. ASSUME \A k \in DOMAIN x : IsAssessment(x[k]) PROVE Part(AssessmentOf(id, x), AssessmentTables, id)
  <2>1. \A r \in AssessmentOf(id, x) : \E k \in DOMAIN x : r \in insert_assessment(id, x[k])
    BY DEF AssessmentOf, Optional
  <2>2. \A k \in DOMAIN x : Part(insert_assessment(id, x[k]), AssessmentTables, id)
    BY <1>1, AssessmentRows
  <2> QED BY <1>0, <2>1, <2>2 DEF Part, Apart
<1>2. ASSUME \A k \in DOMAIN x : IsList(x[k].reference)
      PROVE  Part(ClassificationOf(id, x), {"classification", "reference"}, id)
  <2>1. \A r \in ClassificationOf(id, x) : \E k \in DOMAIN x : r \in insert_classification(id, x[k])
    BY DEF ClassificationOf, Optional
  <2>2. \A k \in DOMAIN x : Part(insert_classification(id, x[k]), {"classification", "reference"}, id)
    BY <1>2, ClassificationRows
  <2> QED BY <1>0, <2>1, <2>2 DEF Part, Apart
<1> QED BY <1>1, <1>2

IdentTables == {"tool_alert", "correlation_alert", "alertident"}

\* The idents of a tool alert and of a correlation alert share a table: the parent type
\* tells them apart.
LEMMA IdentRows ==
  ASSUME NEW id, NEW x, NEW y, IsOption(x), IsOption(y),
         \A k \in DOMAIN x : IsList(x[k].alertident), \A k \in DOMAIN y : IsList(y[k].alertident)
  PROVE  Part(ToolOf(id, x) \cup CorrelationOf(id, y), IdentTables, id)
<1>1. /\ \A r \in ToolOf(id, x) :
           /\ (r.t = "tool_alert" /\ r.pt = NoType) \/ (r.t = "alertident" /\ r.pt = "T")
           /\ r.id = id
      /\ Apart(ToolOf(id, x))
  <2>1. \A r \in ToolOf(id, x) : \E k \in DOMAIN x : r \in insert_tool_alert(id, x[k])
    BY DEF ToolOf, Optional
  <2>2. \A j, k \in DOMAIN x : j = k
    BY OptionOnce
  <2> QED BY <2>1, <2>2, ToolRows DEF Apart
<1>2. /\ \A r \in CorrelationOf(id, y) :
           /\ (r.t = "correlation_alert" /\ r.pt = NoType) \/ (r.t = "alertident" /\ r.pt = "C")
           /\ r.id = id
      /\ Apart(CorrelationOf(id, y))
  <2>1. \A r \in CorrelationOf(id, y) : \E k \in DOMAIN y : r \in insert_correlation_alert(id, y[k])
    BY DEF CorrelationOf, Optional
  <2>2. \A j, k \in DOMAIN y : j = k
    BY OptionOnce
  <2> QED BY <2>1, <2>2, CorrelationRows DEF Apart
<1>3. Apart(ToolOf(id, x) \cup CorrelationOf(id, y))
  BY <1>1, <1>2, ApartUnion DEF SameKey
<1> QED BY <1>1, <1>2, <1>3 DEF Part, OfAlert, IdentTables, AlertTables, NoType

\* Analyzers, sources and targets share tables too.
ActorTables == ((({"analyzer", "source", "target"} \cup AnalyzerTables) \cup EndTables) \cup FileTables)

\* The rows of an alert's analyzers, sources and targets.
LEMMA ActorRows ==
  ASSUME NEW id, NEW m, ListOf(IsAnalyzer, m.analyzer), ListOf(IsSource, m.source), ListOf(IsTarget, m.target)
  PROVE  Part((AnalyzersOf("A", id, m.analyzer) \cup SourcesOf(id, m.source)) \cup TargetsOf(id, m.target),
              ActorTables, id)
<1> DEFINE an == AnalyzersOf("A", id, m.analyzer)
           so == SourcesOf(id, m.source)
           ta == TargetsOf(id, m.target)
<1>1. /\ \A r \in an : (r.t = "analyzer" \/ r.t \in AnalyzerTables) /\ r.pt = "A" /\ r.id = id
      /\ Apart(an)
  BY AnalyzersRows DEF ListOf
<1>2. /\ \A r \in so : /\ \/ r.t = "source" /\ r.pt = NoType
                          \/ r.t \in EndTables /\ r.pt = "S"
                       /\ r.id = id
      /\ Apart(so)
  BY SourcesRows DEF ListOf
<1>3. /\ \A r \in ta : /\ \/ r.t = "target" /\ r.pt = NoType
                          \/ r.t \in EndTables /\ r.pt = "T"
                          \/ r.t \in FileTables /\ r.pt = NoType
                          \/ r.t = "user_id" /\ r.pt = "F"
                       /\ r.id = id
      /\ Apart(ta)
  BY TargetsRows DEF ListOf
<1>4. "user_id" \in EndTables /\ "source" \notin FileTables /\ "source" \notin EndTables
  BY DEF EndTables, NodeTables, UserTables, ProcessTables, ServiceTables, FileTables
<1> HIDE DEF an, so, ta
<1>5. Apart(an \cup so)
  BY <1>1, <1>2, ApartUnion DEF SameKey, NoType
<1>6. \A r \in an \cup so, q \in ta : ~SameKey(r, q)
  BY <1>1, <1>2, <1>3, <1>4 DEF SameKey, NoType
<1>7. Apart((an \cup so) \cup ta)
  BY <1>3, <1>5, <1>6, ApartUnion
<1>8. ASSUME NEW r \in (an \cup so) \cup ta PROVE r.t \in ActorTables /\ r.id = id
  BY <1>1, <1>2, <1>3, <1>4 DEF ActorTables
<1>9. ASSUME NEW r \in (an \cup so) \cup ta PROVE OfAlert(r)
  <2>1. AnalyzerTables \subseteq SharedTables /\ FileTables \subseteq AlertTables
    BY DEF SharedTables, AlertTables
  <2>2. EndTables \subseteq AlertTables \cup SharedTables
    BY DEF EndTables, AlertTables, SharedTables, AnalyzerTables
  <2>3. {"source", "target", "user_id"} \subseteq AlertTables /\ "analyzer" \in SharedTables
    BY DEF AlertTables, SharedTables, UserTables
  <2>4. ASSUME NEW t \in (EndTables \cup FileTables) \cup {"source", "target", "user_id"}
        PROVE  t \notin {"additional_data", "analyzer", "analyzer_time", "create_time"}
    BY DEF EndTables, NodeTables, UserTables, ProcessTables, ServiceTables, FileTables
  <2>5. CASE r \in an
    BY <1>1, <2>1, <2>3, <2>5 DEF OfAlert
  <2>6. CASE r \in so
    BY <1>2, <2>2, <2>3, <2>4, <2>6 DEF OfAlert, NoType
  <2>7. CASE r \in ta
    BY <1>3, <2>1, <2>2, <2>3, <2>4, <2>7 DEF OfAlert, NoType
  <2> QED BY <2>5, <2>6, <2>7
<1> QED BY <1>7, <1>8, <1>9 DEF Part, an, so, ta

\* What insert_alert writes below the alert's row: rows of its ident, with keys of their
\* own, that only do_delete_alert takes.
LEMMA AlertRows ==
  ASSUME NEW id, NEW m, IsMessage(m), m.type = "alert"
  PROVE  /\ \A r \in insert_alert(id, m) : r.id = id /\ OfAlert(r)
         /\ Apart(insert_alert(id, m))
<1> DEFINE create == CreateOf("A", id, m.create_time)
           detect == DetectOf(id, m.detect_time)
           time == AnalyzerTimeOf("A", id, m.analyzer_time)
           overflow == OverflowOf(id, m.overflow_alert)
           data == DataOf("A", id, m.additional_data)
           assessment == AssessmentOf(id, m.assessment)
           classification == ClassificationOf(id, m.classification)
           idents == ToolOf(id, m.tool_alert) \cup CorrelationOf(id, m.correlation_alert)
           actors == (AnalyzersOf("A", id, m.analyzer) \cup SourcesOf(id, m.source))
                       \cup TargetsOf(id, m.target)
           T1 == {"create_time"} \cup {"detect_time"}
           T2 == T1 \cup {"analyzer_time"}
           T3 == T2 \cup {"overflow_alert"}
           T4 == T3 \cup {"additional_data"}
           T5 == T4 \cup AssessmentTables
           T6 == T5 \cup {"classification", "reference"}
           T7 == T6 \cup IdentTables
           R1 == create \cup detect
           R2 == R1 \cup time
           R3 == R2 \cup overflow
           R4 == R3 \cup data
           R5 == R4 \cup assessment
           R6 == R5 \cup classification
           R7 == R6 \cup idents
<1>0. /\ IsOption(m.create_time) /\ IsOption(m.analyzer_time) /\ IsOption(m.detect_time)
      /\ IsOption(m.overflow_alert) /\ IsList(m.additional_data)
  BY DEF IsMessage, IsAlert, OptionOf, ListOf
<1>1. /\ Part(create, {"create_time"}, id) /\ Part(detect, {"detect_time"}, id)
      /\ Part(time, {"analyzer_time"}, id) /\ Part(overflow, {"overflow_alert"}, id)
  <2>1. Part(create, {"create_time"}, id)
    BY <1>0, TimeRows DEF Part, OfAlert, SharedTables
  <2>a. /\ \A r \in detect : r.t = "detect_time" /\ r.pt = NoType /\ r.id = id
        /\ \A r \in overflow : r.t = "overflow_alert" /\ r.pt = NoType /\ r.id = id
        /\ Apart(detect) /\ Apart(overflow)
    BY <1>0, TimeRows
  <2>b. {"detect_time", "overflow_alert"} \subseteq AlertTables
    BY DEF AlertTables
  <2>2. Part(detect, {"detect_time"}, id)
    BY <2>a, <2>b DEF Part, OfAlert, NoType
  <2>3. Part(time, {"analyzer_time"}, id)
    BY <1>0, TimeRows DEF Part, OfAlert, SharedTables
  <2>4. Part(overflow, {"overflow_alert"}, id)
    BY <2>a, <2>b DEF Part, OfAlert, NoType
  <2> QED BY <2>1, <2>2, <2>3, <2>4
<1>2. Part(data, {"additional_data"}, id)
  BY <1>0, DataRows DEF Part, OfAlert, SharedTables
<1>3. /\ Part(assessment, AssessmentTables, id)
      /\ Part(classification, {"classification", "reference"}, id)
  <2>1. /\ IsOption(m.assessment) /\ \A k \in DOMAIN m.assessment : IsAssessment(m.assessment[k])
        /\ IsOption(m.classification)
        /\ \A k \in DOMAIN m.classification : IsList(m.classification[k].reference)
    BY DEF IsMessage, IsAlert, IsClassification, OptionOf, ListOf
  <2> QED BY <2>1, OptionRows
<1>4. Part(idents, IdentTables, id)
  <2>1. /\ IsOption(m.tool_alert) /\ \A k \in DOMAIN m.tool_alert : IsList(m.tool_alert[k].alertident)
        /\ IsOption(m.correlation_alert)
        /\ \A k \in DOMAIN m.correlation_alert : IsList(m.correlation_alert[k].alertident)
    BY DEF IsMessage, IsAlert, HasIdents, OptionOf, ListOf
  <2> QED BY <2>1, IdentRows
<1>5. Part(actors, ActorTables, id)
  BY ActorRows DEF IsMessage, IsAlert
<1>6. insert_alert(id, m) = R7 \cup actors
  BY DEF insert_alert, CreateOf, DetectOf, AnalyzerTimeOf, OverflowOf, DataOf, AssessmentOf,
         ClassificationOf, ToolOf, CorrelationOf, AnalyzersOf, SourcesOf, TargetsOf
<1>7. /\ {"create_time"} \cap {"detect_time"} = {} /\ T1 \cap {"analyzer_time"} = {}
      /\ T2 \cap {"overflow_alert"} = {} /\ T3 \cap {"additional_data"} = {}
  OBVIOUS
<1>8. T4 \cap AssessmentTables = {} /\ T5 \cap {"classification", "reference"} = {} /\ T6 \cap IdentTables = {}
  BY DEF AssessmentTables, IdentTables
<1>9. T7 \cap ActorTables = {}
  BY DEF AssessmentTables, IdentTables, ActorTables, AnalyzerTables, EndTables, FileTables, NodeTables,
         UserTables, ProcessTables, ServiceTables
<1> HIDE DEF create, detect, time, overflow, data, assessment, classification, idents, actors
<1>a. Part(R1, T1, id)
  BY <1>1, <1>7, PartUnion
<1>b. Part(R2, T2, id)
  <2> HIDE DEF R1, T1
  <2> QED BY <1>1, <1>7, <1>a, PartUnion
<1>c. Part(R3, T3, id)
  <2> HIDE DEF R2, T2
  <2> QED BY <1>1, <1>7, <1>b, PartUnion
<1>d. Part(R4, T4, id)
  <2> HIDE DEF R3, T3
  <2> QED BY <1>2, <1>7, <1>c, PartUnion
<1>e. Part(R5, T5, id)
  <2> HIDE DEF R4, T4
  <2> QED BY <1>3, <1>8, <1>d, PartUnion
<1>f. Part(R6, T6, id)
  <2> HIDE DEF R5, T5
  <2> QED BY <1>3, <1>8, <1>e, PartUnion
<1>g. Part(R7, T7, id)
  <2> HIDE DEF R6, T6
  <2> QED BY <1>4, <1>8, <1>f, PartUnion
<1>h. Part(R7 \cup actors, T7 \cup ActorTables, id)
  <2> HIDE DEF R7, T7
  <2> QED BY <1>5, <1>9, <1>g, PartUnion
<1> HIDE DEF R7, T7
<1> QED BY <1>6, <1>h DEF Part

\* The same for insert_heartbeat and do_delete_heartbeat.
LEMMA HeartbeatRows ==
  ASSUME NEW id, NEW m, IsMessage(m)
  PROVE  /\ \A r \in insert_heartbeat(id, m) : r.id = id /\ OfHeartbeat(r)
         /\ Apart(insert_heartbeat(id, m))
<1> DEFINE create == CreateOf("H", id, m.create_time)
           time == AnalyzerTimeOf("H", id, m.analyzer_time)
           data == DataOf("H", id, m.additional_data)
           analyzers == AnalyzersOf("H", id, m.analyzer)
<1>1. insert_heartbeat(id, m) = ((analyzers \cup create) \cup time) \cup data
  BY DEF insert_heartbeat, CreateOf, AnalyzerTimeOf, DataOf, AnalyzersOf
<1>2. /\ \A r \in create : r.t = "create_time" /\ r.pt = "H" /\ r.id = id
      /\ \A r \in time : r.t = "analyzer_time" /\ r.pt = "H" /\ r.id = id
      /\ Apart(create) /\ Apart(time)
  BY TimeRows DEF IsMessage, OptionOf
<1>3. (\A r \in data : r.t = "additional_data" /\ r.pt = "H" /\ r.id = id) /\ Apart(data)
  BY DataRows DEF IsMessage, ListOf
<1>4. /\ \A r \in analyzers : (r.t = "analyzer" \/ r.t \in AnalyzerTables) /\ r.pt = "H" /\ r.id = id
      /\ Apart(analyzers)
  BY AnalyzersRows DEF IsMessage, ListOf
<1>5. {"create_time", "analyzer_time", "additional_data"} \cap AnalyzerTables = {}
  BY DEF AnalyzerTables, NodeTables, ProcessTables
<1> HIDE DEF create, time, data, analyzers
<1>6. Apart(analyzers \cup create)
  BY <1>2, <1>4, <1>5, ApartUnion DEF SameKey
<1>7. Apart((analyzers \cup create) \cup time)
  BY <1>2, <1>4, <1>5, <1>6, ApartUnion DEF SameKey
<1>8. Apart(((analyzers \cup create) \cup time) \cup data)
  BY <1>2, <1>3, <1>4, <1>5, <1>7, ApartUnion DEF SameKey
<1>9. \A r \in ((analyzers \cup create) \cup time) \cup data : r.id = id /\ OfHeartbeat(r)
  BY <1>2, <1>3, <1>4 DEF OfHeartbeat, SharedTables
<1> QED BY <1>1, <1>8, <1>9

-----------------------------------------------------------------------------
(***************************************************************************)
(* Rows and the messages they belong to                                    *)
(***************************************************************************)

\* The rows of alerts and of heartbeats, with those of the messages themselves.
AlertRow(r) == (r.t = "alert" /\ r.pt = NoType) \/ OfAlert(r)
HeartbeatRow(r) == (r.t = "heartbeat" /\ r.pt = NoType) \/ OfHeartbeat(r)

\* The type of the message a row belongs to.
TypeOf(r) == IF r.pt = "H" \/ r.t = "heartbeat" THEN "heartbeat" ELSE "alert"

\* The tables of messages hold nothing but messages.
LEMMA NoMessageTable ==
  Types \cap AlertTables = {} /\ Types \cap SharedTables = {}
  BY DEF Types, AlertTables, SharedTables, AnalyzerTables, FileTables, NodeTables, UserTables,
         ProcessTables, ServiceTables

\* A row of an alert is an alert's, a row of a heartbeat a heartbeat's.
LEMMA RowType ==
  ASSUME NEW r
  PROVE  /\ AlertRow(r) => TypeOf(r) = "alert"
         /\ HeartbeatRow(r) => TypeOf(r) = "heartbeat"
<1>1. "heartbeat" \notin AlertTables /\ "heartbeat" \notin SharedTables
  BY NoMessageTable DEF Types
<1> QED BY <1>1 DEF AlertRow, HeartbeatRow, TypeOf, OfAlert, OfHeartbeat, NoType

\* What insert_alert and insert_heartbeat write below a message.
LEMMA BelowRows ==
  ASSUME NEW id, NEW m, IsMessage(m)
  PROVE  /\ \A r \in insert_below(id, m) :
              /\ r.id = id /\ r.t \notin Types /\ TypeOf(r) = m.type
              /\ AlertRow(r) \/ HeartbeatRow(r)
         /\ Apart(insert_below(id, m))
<1>0. m.type \in {"alert", "heartbeat"}
  BY DEF IsMessage
<1>1. CASE m.type = "alert"
  <2>1. insert_below(id, m) = insert_alert(id, m)
    BY <1>1 DEF insert_below
  <2>2. /\ \A r \in insert_below(id, m) : r.id = id /\ OfAlert(r)
        /\ Apart(insert_below(id, m))
    BY <1>1, <2>1, AlertRows
  <2> QED BY <1>1, <2>2, RowType, NoMessageTable DEF AlertRow, OfAlert
<1>2. CASE m.type = "heartbeat"
  <2>1. insert_below(id, m) = insert_heartbeat(id, m)
    BY <1>2 DEF insert_below
  <2>2. /\ \A r \in insert_below(id, m) : r.id = id /\ OfHeartbeat(r)
        /\ Apart(insert_below(id, m))
    BY <2>1, HeartbeatRows
  <2> QED BY <1>2, <2>2, RowType, NoMessageTable DEF HeartbeatRow, OfHeartbeat
<1> QED BY <1>0, <1>1, <1>2

\* The row of a message.
LEMMA MessageRow ==
  ASSUME NEW id, NEW m, IsMessage(m)
  PROVE  LET r == message_row(m, id)
         IN  /\ r.t = m.type /\ r.t \in Types /\ r.id = id /\ TypeOf(r) = m.type
             /\ AlertRow(r) \/ HeartbeatRow(r)
<1> DEFINE r == message_row(m, id)
<1>1. r.t = m.type /\ r.pt = NoType /\ r.id = id
  BY RowFields DEF message_row
<1>2. m.type \in {"alert", "heartbeat"}
  BY DEF IsMessage
<1> HIDE DEF r
<1>3. (AlertRow(r) \/ HeartbeatRow(r)) /\ TypeOf(r) = m.type
  BY <1>1, <1>2 DEF AlertRow, HeartbeatRow, TypeOf, NoType
<1> QED BY <1>1, <1>2, <1>3 DEF r, Types

\* The primary keys are compared column by column.
LEMMA KeyColumns ==
  ASSUME NEW r, NEW q, Key(r) = Key(q)
  PROVE  SameKey(r, q)
  BY DEF Key, SameKey

\* A deletion of alerts takes the rows of the alerts with one of the idents, in every table,
\* and leaves those of the other alerts and of all heartbeats.
LEMMA AlertsTaken ==
  ASSUME NEW R, NEW S, NEW r \in R, AlertRow(r) \/ HeartbeatRow(r)
  PROVE  r \in do_delete_alert(R, S) <=> ~(TypeOf(r) = "alert" /\ r.id \in S)
<1>1. ASSUME AlertRow(r), r.id \in S PROVE r \notin do_delete_alert(R, S)
  <2>1. CASE r.t = "alert"
    BY <1>1, <2>1 DEF do_delete_alert
  <2>2. CASE r.t \in AlertTables
    BY <1>1, <2>2 DEF do_delete_alert, AlertTables, FileTables, UserTables, ServiceTables
  <2>3. CASE OfAlert(r) /\ r.t \in SharedTables
    BY <1>1, <2>3 DEF do_delete_alert, OfAlert, SharedTables, AnalyzerTables, NodeTables, ProcessTables
  <2> QED BY <1>1, <2>1, <2>2, <2>3 DEF AlertRow, OfAlert
<1>2. ASSUME HeartbeatRow(r) PROVE r \in do_delete_alert(R, S)
  <2>1. CASE r.t = "heartbeat"
    BY <2>1 DEF do_delete_alert
  <2>2. CASE OfHeartbeat(r)
    BY <2>2 DEF do_delete_alert, OfHeartbeat, SharedTables, AnalyzerTables, NodeTables, ProcessTables
  <2> QED BY <1>2, <2>1, <2>2 DEF HeartbeatRow
<1>3. r.id \notin S => r \in do_delete_alert(R, S)
  BY DEF do_delete_alert
<1> QED BY <1>1, <1>2, <1>3, RowType

\* The same for heartbeats.
LEMMA HeartbeatsTaken ==
  ASSUME NEW R, NEW S, NEW r \in R, AlertRow(r) \/ HeartbeatRow(r)
  PROVE  r \in do_delete_heartbeat(R, S) <=> ~(TypeOf(r) = "heartbeat" /\ r.id \in S)
<1>1. ASSUME HeartbeatRow(r), r.id \in S PROVE r \notin do_delete_heartbeat(R, S)
  BY <1>1 DEF do_delete_heartbeat, HeartbeatRow, OfHeartbeat, SharedTables, AnalyzerTables, NodeTables,
              ProcessTables
<1>2. ASSUME AlertRow(r) PROVE r \in do_delete_heartbeat(R, S)
  <2>1. TypeOf(r) = "alert"
    BY <1>2, RowType
  <2> QED BY <2>1 DEF TypeOf, do_delete_heartbeat
<1>3. r.id \notin S => r \in do_delete_heartbeat(R, S)
  BY DEF do_delete_heartbeat
<1> QED BY <1>1, <1>2, <1>3, RowType

-----------------------------------------------------------------------------
(***************************************************************************)
(* The inductive invariant                                                 *)
(***************************************************************************)

\* All the rows of a message.
AllRows(id, m) == {message_row(m, id)} \cup insert_below(id, m)

\* The rows in the tables are those of the messages that are stored, all of them and no
\* others.
TablesExact == rows = UNION {AllRows(s.id, s.m) : s \in stored}

\* The idents of the messages stored were all handed out.
IdentsUsed ==
  \A s \in stored :
    /\ s.m \in Messages /\ s.type = s.m.type
    /\ s.id \in Nat /\ s.id < next[s.type]

\* A session in the middle of an insertion is alone; the ident it was given is above those
\* of the messages stored, and it is the one get_last_insert_ident reads.
Inserting ==
  \A w \in Writers : pc[w] # "idle" =>
    /\ msg[w] \in Messages
    /\ given[w] \in Nat /\ given[w] < next[msg[w].type]
    /\ pending[w] = {message_row(msg[w], given[w])}
    /\ pc[w] = "identified" => ident[w] = given[w]
    /\ \A u \in Writers : pc[u] # "idle" => u = w
    /\ \A s \in stored : s.type = msg[w].type => s.id < given[w]

TablesType ==
  /\ next \in [Types -> Nat]
  /\ pc \in [Writers -> {"idle", "numbered", "identified"}]
  /\ msg \in [Writers -> Messages \cup {NoMessage}]
  /\ given \in [Writers -> Nat] /\ ident \in [Writers -> Nat]
  /\ pending \in [Writers -> SUBSET {message_row(m, n) : m \in Messages, n \in Nat}]
  /\ ret \in [Writers -> {"ok", "failed", "duplicate"}]

TablesInv == TablesType /\ TablesExact /\ IdentsUsed /\ Inserting /\ NoDuplicateKey

\* A row of a stored message has its ident and its type.
LEMMA StoredRows ==
  ASSUME NEW id, NEW m \in Messages, NEW r \in AllRows(id, m)
  PROVE  r.id = id /\ TypeOf(r) = m.type /\ (AlertRow(r) \/ HeartbeatRow(r))
<1>1. IsMessage(m)
  BY MessagesAssumption
<1>2. CASE r = message_row(m, id)
  BY <1>1, <1>2, MessageRow
<1>3. CASE r \in insert_below(id, m)
  BY <1>1, <1>3, BelowRows
<1> QED BY <1>2, <1>3 DEF AllRows

\* Which messages the rows belong to.
LEMMA RowsOwned ==
  ASSUME TablesExact, IdentsUsed, NEW r \in rows
  PROVE  \E s \in stored : /\ s.m \in Messages /\ r \in AllRows(s.id, s.m) /\ s.id = r.id
                           /\ s.type = TypeOf(r) /\ (AlertRow(r) \/ HeartbeatRow(r))
<1>1. PICK s \in stored : r \in AllRows(s.id, s.m)
  BY DEF TablesExact
<1>2. s.m \in Messages /\ s.type = s.m.type
  BY DEF IdentsUsed
<1> QED BY <1>1, <1>2, StoredRows

-----------------------------------------------------------------------------
(***************************************************************************)
(* Every step preserves it, when the server lets one session write at a    *)
(* time                                                                    *)
(***************************************************************************)

\* The tables are empty.
LEMMA TablesInit == Init => TablesInv
<1> SUFFICES ASSUME Init PROVE TablesInv
  OBVIOUS
<1>1. TablesType
  BY DEF Init, TablesType
<1>2. TablesExact /\ IdentsUsed
  BY DEF Init, TablesExact, IdentsUsed
<1>3. Inserting /\ NoDuplicateKey
  BY DEF Init, Inserting, NoDuplicateKey
<1> QED BY <1>1, <1>2, <1>3 DEF TablesInv

\* The type of a message is one of the two.
LEMMA MessageType ==
  ASSUME NEW m \in Messages
  PROVE  m.type \in Types
  BY MessagesAssumption DEF IsMessage, Types

\* InsertMessage: the ident is above every ident stored, and no other session writes.
LEMMA InsertMessageStep ==
  ASSUME TablesInv, Serialized = TRUE, NEW w \in Writers, NEW m \in Messages, InsertMessage(w, m)
  PROVE  TablesInv'
<1>0. m.type \in Types /\ next[m.type] \in Nat
  BY MessageType DEF TablesInv, TablesType
<1>1. \A u \in Writers : pc[u] = "idle"
  BY DEF InsertMessage
<1>2. TablesType'
  <2>1. next' \in [Types -> Nat]
    BY <1>0 DEF InsertMessage, TablesInv, TablesType
  <2>2. pending' \in [Writers -> SUBSET {message_row(x, n) : x \in Messages, n \in Nat}]
    BY <1>0 DEF InsertMessage, TablesInv, TablesType
  <2> QED BY <1>0, <2>1, <2>2 DEF InsertMessage, TablesInv, TablesType
<1>3. TablesExact' /\ NoDuplicateKey'
  BY DEF InsertMessage, TablesInv, TablesExact, NoDuplicateKey
<1>4. IdentsUsed'
  <2> SUFFICES ASSUME NEW s \in stored
               PROVE  s.m \in Messages /\ s.type = s.m.type /\ s.id \in Nat /\ s.id < next'[s.type]
    BY DEF IdentsUsed, InsertMessage
  <2>1. s.m \in Messages /\ s.type = s.m.type /\ s.id \in Nat /\ s.id < next[s.type]
    BY DEF TablesInv, IdentsUsed
  <2>2. s.type \in Types
    BY <2>1, MessageType
  <2>3. next'[s.type] = next[s.type] \/ next'[s.type] = next[s.type] + 1
    BY <2>2 DEF InsertMessage, TablesInv, TablesType
  <2>4. next[s.type] \in Nat
    BY <2>2 DEF TablesInv, TablesType
  <2> QED BY <2>1, <2>3, <2>4
<1>5. Inserting'
  <2>0. stored' = stored
    BY DEF InsertMessage
  <2>1. \A u \in Writers : pc'[u] # "idle" => u = w
    BY <1>1 DEF InsertMessage, TablesInv, TablesType
  <2>2. /\ pc'[w] = "numbered" /\ msg'[w] = m /\ given'[w] = next[m.type]
        /\ pending'[w] = {message_row(m, next[m.type])}
    BY DEF InsertMessage, TablesInv, TablesType
  <2>3. next'[m.type] = next[m.type] + 1
    BY <1>0 DEF InsertMessage, TablesInv, TablesType
  <2>4. \A s \in stored : s.type = m.type => s.id < next[m.type]
    BY DEF TablesInv, IdentsUsed
  <2>5. given'[w] \in Nat /\ given'[w] < next'[m.type]
    BY <1>0, <2>2, <2>3
  <2> QED BY <2>0, <2>1, <2>2, <2>4, <2>5 DEF Inserting
<1> QED BY <1>2, <1>3, <1>4, <1>5 DEF TablesInv

\* ReadIdent: the largest ident in the table is that of the row just inserted.
LEMMA ReadIdentStep ==
  ASSUME TablesInv, NEW w \in Writers, ReadIdent(w)
  PROVE  TablesInv'
<1> DEFINE y == msg[w].type
           ids == {r.id : r \in {q \in rows \cup pending[w] : q.t = y}}
<1>0. /\ pc[w] = "numbered" /\ msg[w] \in Messages /\ given[w] \in Nat /\ y \in Types
      /\ pending[w] = {message_row(msg[w], given[w])}
      /\ \A s \in stored : s.type = y => s.id < given[w]
  BY MessageType DEF ReadIdent, TablesInv, Inserting
<1>1. IsMessage(msg[w])
  BY <1>0, MessagesAssumption
<1>2. given[w] \in ids
  <2>1. message_row(msg[w], given[w]).t = y /\ message_row(msg[w], given[w]).id = given[w]
    BY <1>1, MessageRow
  <2> QED BY <1>0, <2>1
<1>3. ASSUME NEW r \in rows, r.t = y PROVE r.id \in Nat /\ r.id < given[w]
  <2>1. PICK s \in stored : s.id = r.id /\ s.type = TypeOf(r) /\ (AlertRow(r) \/ HeartbeatRow(r))
    BY RowsOwned DEF TablesInv
  <2>2. TypeOf(r) = r.t
    <3>1. r.t \in Types /\ r.t \notin AlertTables /\ r.t \notin SharedTables
      BY <1>0, <1>3, NoMessageTable
    <3>2. r.pt = NoType
      BY <2>1, <3>1 DEF AlertRow, HeartbeatRow, OfAlert, OfHeartbeat
    <3> QED BY <3>1, <3>2 DEF TypeOf, Types, NoType
  <2>3. s.id \in Nat
    BY DEF TablesInv, IdentsUsed
  <2> QED BY <1>0, <1>3, <2>1, <2>2, <2>3
<1>4. \A n \in ids : n \in Nat /\ n <= given[w]
  <2> SUFFICES ASSUME NEW r \in rows \cup pending[w], r.t = y PROVE r.id \in Nat /\ r.id <= given[w]
    OBVIOUS
  <2>1. CASE r \in rows
    BY <1>0, <1>3, <2>1
  <2>2. CASE r \in pending[w]
    BY <1>0, <1>1, <2>2, MessageRow
  <2> QED BY <2>1, <2>2
<1>5. get_last_insert_ident(rows \cup pending[w], y) = given[w]
  <2> HIDE DEF y
  <2>1. get_last_insert_ident(rows \cup pending[w], y) = CHOOSE n \in ids : \A k \in ids : k <= n
    BY DEF get_last_insert_ident
  <2> HIDE DEF ids
  <2>2. (CHOOSE n \in ids : \A k \in ids : k <= n) \in ids
        /\ \A k \in ids : k <= (CHOOSE n \in ids : \A k_1 \in ids : k_1 <= n)
    BY <1>2, <1>4
  <2> QED BY <1>0, <1>2, <1>4, <2>1, <2>2
<1>6. ident' = [ident EXCEPT ![w] = given[w]]
  BY <1>5 DEF ReadIdent
<1>7. TablesType'
  BY <1>0, <1>6 DEF ReadIdent, TablesInv, TablesType
<1>8. TablesExact' /\ IdentsUsed' /\ NoDuplicateKey'
  BY DEF ReadIdent, TablesInv, TablesExact, IdentsUsed, NoDuplicateKey
<1>9. Inserting'
  <2>1. \A u \in Writers : pc[u] # "idle" => u = w
    BY <1>0 DEF TablesInv, Inserting
  <2>2. \A u \in Writers : pc'[u] # "idle" => u = w
    BY <2>1 DEF ReadIdent, TablesInv, TablesType
  <2>3. ident'[w] = given[w]
    BY <1>6 DEF TablesInv, TablesType
  <2>4. /\ given[w] < next[y] /\ next' = next /\ given' = given /\ msg' = msg /\ pending' = pending
        /\ stored' = stored
    BY <1>0 DEF TablesInv, Inserting, ReadIdent
  <2> QED BY <1>0, <2>2, <2>3, <2>4 DEF Inserting
<1> QED BY <1>7, <1>8, <1>9 DEF TablesInv

\* Idle(w, outcome): the session that was alone has ended.
LEMMA IdleStep ==
  ASSUME TablesInv, NEW w \in Writers, NEW outcome \in {"ok", "failed"}, Idle(w, outcome), pc[w] # "idle",
         next' = next
  PROVE  TablesType' /\ Inserting' /\ NoDuplicateKey'
<1>1. TablesType'
  BY DEF Idle, TablesInv, TablesType
<1>2. \A u \in Writers : pc'[u] = "idle"
  <2>1. \A u \in Writers : pc[u] # "idle" => u = w
    BY DEF TablesInv, Inserting
  <2> QED BY <2>1 DEF Idle, TablesInv, TablesType
<1>3. NoDuplicateKey'
  BY DEF Idle, TablesInv, TablesType, NoDuplicateKey
<1> QED BY <1>1, <1>2, <1>3 DEF Inserting

\* InsertRows: no key is met twice, so the message is stored with all its rows.
LEMMA InsertRowsStep ==
  ASSUME TablesInv, NEW w \in Writers, InsertRows(w)
  PROVE  TablesInv'
<1> DEFINE m == msg[w]
           id == given[w]
           new == insert_below(id, m)
           s0 == [type |-> m.type, id |-> id, m |-> m]
<1>0. /\ pc[w] = "identified" /\ m \in Messages /\ id \in Nat /\ id < next[m.type] /\ ident[w] = id
      /\ pending[w] = {message_row(m, id)}
      /\ \A s \in stored : s.type = m.type => s.id < id
  BY DEF InsertRows, TablesInv, Inserting
<1>1. IsMessage(m)
  BY <1>0, MessagesAssumption
<1>2. \A r \in new : r.id = id /\ r.t \notin Types /\ TypeOf(r) = m.type
  BY <1>1, BelowRows
<1>3. ASSUME NEW r \in new, NEW q \in rows, SameKey(r, q) PROVE FALSE
  <2>1. PICK s \in stored : s.id = q.id /\ s.type = TypeOf(q)
    BY RowsOwned DEF TablesInv
  <2>2. TypeOf(q) = TypeOf(r) /\ q.id = r.id
    BY <1>3 DEF TypeOf, SameKey
  <2> HIDE DEF m, id, new
  <2> QED BY <1>0, <1>2, <2>1, <2>2
<1>4. ASSUME NEW r \in new, NEW q \in pending[w], SameKey(r, q) PROVE FALSE
  <2>1. q.t \in Types
    BY <1>0, <1>1, MessageRow
  <2> QED BY <1>2, <1>4, <2>1 DEF SameKey
<1>5. ~Clash(new, rows \cup pending[w])
  <2>1. \A r \in new, q \in rows \cup pending[w] : Key(r) # Key(q)
    BY <1>3, <1>4, KeyColumns
  <2>2. \A r, q \in new : Key(r) = Key(q) => r = q
    BY <1>1, BelowRows, KeyColumns DEF Apart
  <2> HIDE DEF new
  <2> QED BY <2>1, <2>2 DEF Clash
<1>6. /\ rows' = (rows \cup pending[w]) \cup new /\ stored' = stored \cup {s0}
      /\ Idle(w, "ok") /\ next' = next
  BY <1>0, <1>5 DEF InsertRows
<1>7. TablesExact'
  <2>1. AllRows(s0.id, s0.m) = pending[w] \cup new
    BY <1>0 DEF AllRows
  <2>2. rows = UNION {AllRows(s.id, s.m) : s \in stored}
    BY DEF TablesInv, TablesExact
  <2> HIDE DEF s0, new
  <2> QED BY <1>6, <2>1, <2>2 DEF TablesExact
<1>8. IdentsUsed'
  <2>1. s0.m = m /\ s0.type = m.type /\ s0.id = id
    OBVIOUS
  <2> HIDE DEF s0
  <2> QED BY <1>0, <1>6, <2>1 DEF IdentsUsed, TablesInv
<1>9. TablesType' /\ Inserting' /\ NoDuplicateKey'
  BY <1>0, <1>6, IdleStep
<1> QED BY <1>7, <1>8, <1>9 DEF TablesInv

\* AbortInsert leaves the tables as they were.
LEMMA AbortStep ==
  ASSUME TablesInv, NEW w \in Writers, AbortInsert(w)
  PROVE  TablesInv'
<1>1. TablesType' /\ Inserting' /\ NoDuplicateKey'
  BY IdleStep DEF AbortInsert
<1>2. TablesExact' /\ IdentsUsed'
  BY DEF AbortInsert, TablesInv, TablesExact, IdentsUsed
<1> QED BY <1>1, <1>2 DEF TablesInv

\* A deletion takes the rows of the messages it deletes, and no others.
LEMMA DeleteStep ==
  ASSUME TablesInv, NEW S, DeleteAlerts(S) \/ DeleteHeartbeats(S)
  PROVE  TablesInv'
<1>0. UNCHANGED <<next, pc, msg, given, ident, pending, ret>> /\ stored' \subseteq stored
  BY DEF DeleteAlerts, DeleteHeartbeats
<1>1. TablesType' /\ NoDuplicateKey'
  BY <1>0 DEF TablesInv, TablesType, NoDuplicateKey
<1>2. IdentsUsed' /\ Inserting'
  BY <1>0 DEF TablesInv, IdentsUsed, Inserting
<1>3. \E y \in Types : /\ stored' = {s \in stored : ~(s.type = y /\ s.id \in S)}
                       /\ rows' \subseteq rows
                       /\ \A r \in rows : (AlertRow(r) \/ HeartbeatRow(r)) =>
                             (r \in rows' <=> ~(TypeOf(r) = y /\ r.id \in S))
  <2>1. CASE DeleteAlerts(S)
    <3>1. /\ rows' = do_delete_alert(rows, S)
          /\ stored' = {s \in stored : ~(s.type = "alert" /\ s.id \in S)}
      BY <2>1 DEF DeleteAlerts
    <3>2. do_delete_alert(rows, S) \subseteq rows
      BY DEF do_delete_alert
    <3> QED BY <3>1, <3>2, AlertsTaken DEF Types
  <2>2. CASE DeleteHeartbeats(S)
    <3>1. /\ rows' = do_delete_heartbeat(rows, S)
          /\ stored' = {s \in stored : ~(s.type = "heartbeat" /\ s.id \in S)}
      BY <2>2 DEF DeleteHeartbeats
    <3>2. do_delete_heartbeat(rows, S) \subseteq rows
      BY DEF do_delete_heartbeat
    <3> QED BY <3>1, <3>2, HeartbeatsTaken DEF Types
  <2> QED BY <2>1, <2>2
<1>4. PICK y \in Types : /\ stored' = {s \in stored : ~(s.type = y /\ s.id \in S)}
                         /\ rows' \subseteq rows
                         /\ \A r \in rows : (AlertRow(r) \/ HeartbeatRow(r)) =>
                               (r \in rows' <=> ~(TypeOf(r) = y /\ r.id \in S))
  BY <1>3
<1>5. ASSUME NEW r \in rows' PROVE \E s \in stored' : r \in AllRows(s.id, s.m)
  <2>1. PICK s \in stored : /\ r \in AllRows(s.id, s.m) /\ s.id = r.id /\ s.type = TypeOf(r)
                            /\ AlertRow(r) \/ HeartbeatRow(r)
    BY <1>4, RowsOwned DEF TablesInv
  <2> QED BY <1>4, <2>1
<1>6. ASSUME NEW s \in stored', NEW r \in AllRows(s.id, s.m) PROVE r \in rows'
  <2>1. s \in stored /\ ~(s.type = y /\ s.id \in S)
    BY <1>4
  <2>2. r \in rows
    BY <2>1 DEF TablesInv, TablesExact
  <2>3. s.m \in Messages /\ s.type = s.m.type
    BY <2>1 DEF TablesInv, IdentsUsed
  <2>4. r.id = s.id /\ TypeOf(r) = s.type /\ (AlertRow(r) \/ HeartbeatRow(r))
    BY <2>3, StoredRows
  <2> QED BY <1>4, <2>1, <2>2, <2>4
<1>7. TablesExact'
  BY <1>5, <1>6 DEF TablesExact
<1> QED BY <1>1, <1>2, <1>7 DEF TablesInv

\* When the server serializes the sessions that write, every reachable state satisfies
\* the inductive invariant.
THEOREM TablesInvariant ==
  ASSUME Serialized = TRUE
  PROVE  Spec => []TablesInv
<1>1. Init => TablesInv
  BY TablesInit
<1>2. TablesInv /\ [Next]_vars => TablesInv'
  <2> SUFFICES ASSUME TablesInv, [Next]_vars PROVE TablesInv'
    OBVIOUS
  <2>1. ASSUME NEW w \in Writers, NEW m \in Messages, InsertMessage(w, m) PROVE TablesInv'
    BY <2>1, InsertMessageStep
  <2>2. ASSUME NEW w \in Writers, ReadIdent(w) PROVE TablesInv'
    BY <2>2, ReadIdentStep
  <2>3. ASSUME NEW w \in Writers, InsertRows(w) PROVE TablesInv'
    BY <2>3, InsertRowsStep
  <2>4. ASSUME NEW w \in Writers, AbortInsert(w) PROVE TablesInv'
    BY <2>4, AbortStep
  <2>5. ASSUME NEW S, DeleteAlerts(S) \/ DeleteHeartbeats(S) PROVE TablesInv'
    BY <2>5, DeleteStep
  <2>6. CASE UNCHANGED vars
    BY <2>6 DEF vars, TablesInv, TablesType, TablesExact, IdentsUsed, Inserting, NoDuplicateKey
  <2> QED BY <2>1, <2>2, <2>3, <2>4, <2>5, <2>6 DEF Next
<1> QED BY <1>1, <1>2, PTL DEF Spec

\* The tables always hold exactly the rows of the messages inserted with success and not
\* deleted since, as insert_alert and insert_heartbeat write them: a deletion takes every
\* row of its messages from all the tables, and touches no row of another one.
THEOREM ExactCorrect ==
  ASSUME Serialized = TRUE
  PROVE  Spec => []TablesExact
<1>1. TablesInv => TablesExact
  BY DEF TablesInv
<1> QED BY <1>1, TablesInvariant, PTL

\* Every row belongs to a message that is in the database, whatever was inserted, aborted
\* and deleted.
THEOREM OrphansCorrect ==
  ASSUME Serialized = TRUE
  PROVE  Spec => []NoOrphans
<1>1. TablesInv => NoOrphans
  BY RowsOwned DEF TablesInv, NoOrphans, TypeOf
<1> QED BY <1>1, TablesInvariant, PTL

\* No INSERT meets a key that exists: the indexes and the parent types number the rows of
\* every message of any shape apart.
THEOREM KeysCorrect ==
  ASSUME Serialized = TRUE
  PROVE  Spec => []NoDuplicateKey
<1>1. TablesInv => NoDuplicateKey
  BY DEF TablesInv
<1> QED BY <1>1, TablesInvariant, PTL
=============================================================================
