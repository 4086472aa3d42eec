----------------------- MODULE RequiemdbAdminOrderProofs -----------------------
(***************************************************************************)
(* Proofs about requiemdb-admin (RequiemdbAdmin): which messages a command *)
(* has processed.  Whatever fails and whenever a signal comes, they are    *)
(* those up to a frontier, and the pages, delete_tbl, the files, the limit *)
(* and the counters all agree with the frontier.                           *)
(***************************************************************************)
EXTENDS RequiemdbAdminProofs

-----------------------------------------------------------------------------
(***************************************************************************)
(* The frontier                                                            *)
(***************************************************************************)

Span(a, b) == {i \in Idents : a < i /\ i <= b}

\* The messages after the offset up to d.
Upto(d) == {i \in AfterOffset(offset) : i <= d}

Present(c) == {i \in Idents : c[i] # "absent"}
Gone(c) == {i \in Idents : c[i] = "absent"}

\* do_read_message lets no message past the count.
Past == limit # -1 /\ curCount >= limit

\* The messages processed, flushed or not.
Handled == curCount + eventNo + (IF pc = "count" THEN 1 ELSE 0)

\* A call has failed and the program is about to end.
Over == failed /\ pc \in Ending

\* Where a page of copy and move is processed.
InPage == {"next", "insert", "evict", "count", "flush_end", "flush_start", "leftover"}

\* The frontier is where a command can be.
Position(d) ==
  /\ d \in Nat
  /\ command = "load" => d <= NMessages
  /\ command # "load" => offset <= d /\ (d = offset \/ d <= NMessages)

\* What is missing in the source has been moved, up to e, and delete_tbl is the rest.
SourceAt(d) ==
  /\ command \in {"copy", "save", "print", "load"} => dbs["src"] = Settled(Everything)
  /\ command = "move" =>
       \E e \in Nat :
         /\ offset <= e /\ e <= d
         /\ dbs["src"] = Settled(Removed(Everything, Span(offset, e)))
         /\ pc \in InPage => tbl = Span(e, d)
         /\ pc \notin InPage /\ ~failed => e = d
  /\ command = "delete" => dbs["dst"] = Settled(Nothing)

\* cmd_delete: what is missing in the source is what was deleted, and a transaction that
\* cannot be committed is one of a failed command.
DeletedAt(d) ==
  command = "delete" /\ "commit" \notin Faulty =>
    /\ \E s \in Nat : Gone(dbs["src"].stored) = Upto(s)
    /\ \E w \in Nat : Gone(dbs["src"].work) = Upto(w)
    /\ ~failed => Gone(dbs["src"].work) = Upto(d) /\ dbs["src"].tx # "failed"

\* A page goes on from the frontier, to b, and b is as far as the limit has been used up.
PageAt(d) ==
  command # "load" /\ (command = "delete" => "commit" \notin Faulty) =>
    \E b \in Nat :
      /\ d <= b /\ (b = d \/ b <= NMessages)
      /\ pc \in {"next", "evict", "count", "flush_end", "flush_start", "save", "purge"} => page = Span(d, b)
      /\ pc = "insert" => current = d + 1 /\ current <= b /\ page = Span(current, b)
      /\ pc \in {"start", "fetch", "loop", "leftover"} => b = d
      /\ pc \notin Ending /\ ~stop /\ ~failed /\ limit >= 0 => b + limitCopy = offset + limit

\* load: the file that is read is from FileBegin to FileEnd.
FileBegin == IF files = <<>> /\ firstFile # NMessages THEN firstFile ELSE 0
FileEnd == IF files = <<>> THEN NMessages ELSE firstFile

\* load reads its files from the frontier on, and skips the offset in every one of them.
FileAt(d) ==
  command = "load" =>
    /\ pc = "start" => files = Files /\ d = 0
    /\ pc = "open" /\ ~stop /\ ~Past =>
         \/ files = Files /\ d = 0
         \/ files = <<(firstFile + 1)..NMessages>> /\ firstFile # NMessages /\ d = firstFile
         \/ files = <<>> /\ d = NMessages
    /\ pc \in {"insert", "count", "flush_end", "flush_start"} \/ (pc = "read" /\ ~stop /\ ~Past) =>
         /\ files = <<>> \/ (files = <<(firstFile + 1)..NMessages>> /\ firstFile # NMessages)
         /\ FileBegin <= d /\ d <= FileEnd
         /\ page = Span(IF pc = "insert" THEN current ELSE d, FileEnd)
         /\ d + toSkip >= FileBegin + offset /\ (toSkip > 0 => d + toSkip = FileBegin + offset)
         /\ pc # "read" => toSkip = 0
    /\ pc = "insert" => current = d + 1 /\ current <= FileEnd

\* What is left of the limit, for the commands that use it.
LimitInv ==
  /\ limit < 0 => limitCopy < 0
  /\ limit >= 0 => limitCopy >= 0

\* load stops at the end of a transaction: the first of them that reaches the count.
LoadEnd == (limit + ept - 1) \div ept

LoadInv ==
  command = "load" /\ ept # 0 =>
    /\ pc \notin {"flush_end", "flush_start"} => eventNo < ept
    /\ pc \in {"flush_end", "flush_start"} => eventNo = ept
    /\ pc \notin {"destroy", "done", "aborted"} =>
         /\ \E m \in Nat : curCount = m * ept
         /\ limit # -1 /\ pc \in {"insert", "count", "flush_end", "flush_start"} => curCount < limit
         /\ limit # -1 /\ curCount < limit => curCount + ept <= ept * LoadEnd
         /\ limit # -1 /\ curCount >= limit => curCount = ept * LoadEnd /\ eventNo = 0

\* What the command line asks for, which a command that ends well has done.
Asked == IF command = "load" THEN LoadWanted ELSE Wanted

EndAt(d) ==
  (ept # 0 /\ (command = "delete" => "commit" \notin Faulty)) =>
    (pc \in {"finish", "destroy", "done"} /\ ~failed /\ ~stop => Upto(d) = Asked)

\* The counters count the messages up to the frontier.
CountAt(d) ==
  command \notin {"move", "delete"} /\ pc \notin {"destroy", "done", "aborted"} =>
    /\ command # "load" \/ ept # 0 => Cardinality(Upto(d)) = Handled
    /\ command = "load" /\ ept = 0 => curCount = 0 /\ eventNo = 0

\* The destination has the messages up to the frontier, once, and what is stored of them
\* comes first, and is all that curCount counts.
WorkAt(d) ==
  /\ \A i \in Idents : dbs["dst"].work[i] # "twice" /\ dbs["dst"].stored[i] # "twice"
  /\ pc = "flush_start" => dbs[Target].tx = "none"
  /\ pc = "done" => dbs["src"].tx = "none" /\ dbs["dst"].tx = "none"
  /\ command # "delete" =>
       /\ Present(dbs["dst"].stored) \subseteq Upto(d)
       /\ ~Over => Present(dbs["dst"].work) \subseteq Upto(d)
       /\ "commit" \notin Faulty =>
            /\ ~Over => Present(dbs["dst"].work) = Upto(d) /\ dbs["dst"].tx # "failed"
            /\ \E s \in Nat : /\ Present(dbs["dst"].stored) = Upto(s)
                              /\ command # "move" => Cardinality(Upto(s)) >= curCount

Frontier(d) ==
  /\ Position(d) /\ SourceAt(d) /\ DeletedAt(d) /\ PageAt(d) /\ FileAt(d) /\ CountAt(d) /\ WorkAt(d)
  /\ EndAt(d)

OrderInv == \E d \in Nat : Frontier(d)

-----------------------------------------------------------------------------
(***************************************************************************)
(* Sets of messages                                                        *)
(***************************************************************************)

\* Idents are numbers.
LEMMA IdentNumbers == NMessages \in Nat /\ \A i \in Idents : i \in Nat /\ 1 <= i /\ i <= NMessages
  BY AdminAssumption DEF Idents

\* An interval has as many members as it says.
LEMMA IntervalCounted ==
  ASSUME NEW a \in Nat, NEW b \in Nat, a <= b
  PROVE  IsFiniteSet((a + 1)..b) /\ Cardinality((a + 1)..b) = b - a
<1>1. a + 1 \in Int /\ b \in Int
  OBVIOUS
<1>2. /\ IsFiniteSet((a + 1)..b)
      /\ Cardinality((a + 1)..b) = IF a + 1 > b THEN 0 ELSE b - (a + 1) + 1
  BY <1>1, FS_Interval
<1>3. (IF a + 1 > b THEN 0 ELSE b - (a + 1) + 1) = b - a
  OBVIOUS
<1> QED BY <1>2, <1>3

\* A span is an interval.
LEMMA SpanCounted ==
  ASSUME NEW a \in Nat, NEW b \in Nat, a <= b, b = a \/ b <= NMessages
  PROVE  Span(a, b) = (a + 1)..b /\ IsFiniteSet(Span(a, b)) /\ Cardinality(Span(a, b)) = b - a
<1>1. Span(a, b) = (a + 1)..b
  BY AdminAssumption DEF Span, Idents
<1>2. IsFiniteSet((a + 1)..b) /\ Cardinality((a + 1)..b) = b - a
  BY IntervalCounted
<1> QED BY <1>1, <1>2

\* The idents of a page that starts after e messages, of which those after o are gone.
LEMMA SliceSpan ==
  ASSUME NEW d, NEW o \in Nat, NEW e \in Nat, NEW n \in Nat, o <= e, e = o \/ e <= NMessages,
         Gone(d.work) = Span(o, e)
  PROVE  Slice(d, o, n) = Span(e, e + n)
<1> DEFINE Rank(i) == Cardinality({j \in Present(d.work) : j <= i})
<1>0. Slice(d, o, n) = {i \in Present(d.work) : o < Rank(i) /\ Rank(i) <= o + n}
  BY DEF Slice, Present
<1>1. \A i \in Idents : i \in Present(d.work) <=> (i <= o \/ e < i)
  BY IdentNumbers DEF Gone, Present, Span
<1>a. Present(d.work) \subseteq Idents
  BY DEF Present
<1>2. ASSUME NEW i \in Idents, i <= o PROVE Rank(i) = i
  <2>1. {j \in Present(d.work) : j <= i} = 1..i
    BY <1>1, <1>a, <1>2, AdminAssumption DEF Idents
  <2>2. Cardinality(1..i) = i
    BY FS_Interval, IdentNumbers
  <2> QED BY <2>1, <2>2
<1>3. ASSUME NEW i \in Idents, e < i PROVE Rank(i) = o + (i - e)
  <2>1. {j \in Present(d.work) : j <= i} = (1..o) \cup ((e + 1)..i)
    BY <1>1, <1>a, <1>3, AdminAssumption DEF Idents
  <2>2. /\ IsFiniteSet(1..o) /\ Cardinality(1..o) = o
        /\ IsFiniteSet((e + 1)..i) /\ Cardinality((e + 1)..i) = i - e
    <3>1. i \in Nat /\ e <= i
      BY <1>3, IdentNumbers
    <3>2. IsFiniteSet((e + 1)..i) /\ Cardinality((e + 1)..i) = i - e
      BY <3>1, IntervalCounted
    <3>3. IsFiniteSet(1..o) /\ Cardinality(1..o) = o
      BY FS_Interval
    <3> QED BY <3>2, <3>3
  <2>3. (1..o) \cap ((e + 1)..i) = {}
    BY IdentNumbers
  <2>4. Cardinality((1..o) \cup ((e + 1)..i)) = o + (i - e)
    <3> DEFINE A == 1..o
               B == (e + 1)..i
    <3>1. Cardinality(A \cup B) = Cardinality(A) + Cardinality(B) - Cardinality(A \cap B)
      BY <2>2, FS_Union
    <3>2. Cardinality(A \cap B) = 0
      BY <2>3, FS_EmptySet
    <3> HIDE DEF A, B
    <3>3. Cardinality(A) = o /\ Cardinality(B) = i - e /\ i - e \in Int
      BY <2>2, IdentNumbers DEF A, B
    <3> QED BY <3>1, <3>2, <3>3 DEF A, B
  <2> QED BY <2>1, <2>4
<1> HIDE DEF Rank
<1>4. ASSUME NEW i \in Idents PROVE i \in Slice(d, o, n) <=> i \in Span(e, e + n)
  <2>0. i \in Nat
    BY IdentNumbers
  <2>1. CASE i <= o
    BY <1>0, <1>2, <2>0, <2>1 DEF Span
  <2>2. CASE o < i /\ i <= e
    BY <1>0, <1>1, <2>0, <2>2 DEF Span
  <2>3. CASE e < i
    BY <1>0, <1>1, <1>3, <2>0, <2>3 DEF Span
  <2> QED BY <2>0, <2>1, <2>2, <2>3
<1>5. Slice(d, o, n) \subseteq Idents /\ Span(e, e + n) \subseteq Idents
  BY SliceTyped DEF Span
<1> QED BY <1>4, <1>5

\* The members of a set up to d are its first ones.
LEMMA PrefixIsFirst ==
  ASSUME NEW S \in SUBSET Idents, NEW d \in Nat
  PROVE  /\ {i \in S : i <= d} = First(S, Cardinality({i \in S : i <= d}))
         /\ Cardinality({i \in S : i <= d}) \in 0..NMessages
<1> DEFINE P == {i \in S : i <= d}
           Below(i) == {j \in S : j <= i}
<1>1. ASSUME NEW T \in SUBSET Idents PROVE IsFiniteSet(T) /\ Cardinality(T) \in Nat
  BY <1>1, IdentsCounted
<1>2. P \in SUBSET Idents /\ \A i : Below(i) \in SUBSET Idents
  OBVIOUS
<1>3. ASSUME NEW i \in S, i <= d PROVE Cardinality(Below(i)) <= Cardinality(P)
  <2>1. Below(i) \subseteq P
    BY <1>3, IdentNumbers
  <2> QED BY <1>1, <1>2, <2>1, FS_Subset
<1>4. ASSUME NEW i \in S, ~(i <= d) PROVE Cardinality(Below(i)) > Cardinality(P)
  <2>1. P \subseteq Below(i) /\ i \in Below(i) /\ i \notin P
    BY <1>4, IdentNumbers
  <2>2. IsFiniteSet(Below(i)) /\ IsFiniteSet(P) /\ Cardinality(Below(i)) \in Nat /\ Cardinality(P) \in Nat
    BY <1>1, <1>2
  <2> HIDE DEF P, Below
  <2>3. P # Below(i)
    BY <2>1
  <2> QED BY <2>1, <2>2, <2>3, FS_Subset
<1>5. P = First(S, Cardinality(P))
  <2>1. \A i \in S : i \in P <=> i \in First(S, Cardinality(P))
    <3>1. ASSUME NEW i \in S PROVE i \in P <=> i \in First(S, Cardinality(P))
      <4>1. Cardinality(Below(i)) \in Nat /\ Cardinality(P) \in Nat
        BY <1>1, <1>2
      <4>2. i \in First(S, Cardinality(P)) <=> Cardinality(Below(i)) <= Cardinality(P)
        BY DEF First
      <4>3. CASE i <= d
        BY <1>3, <4>2, <4>3
      <4>4. CASE ~(i <= d)
        <5>1. ~(Cardinality(Below(i)) <= Cardinality(P))
          <6>1. Cardinality(Below(i)) > Cardinality(P)
            BY <1>4, <4>4
          <6> HIDE DEF Below, P
          <6> QED BY <4>1, <6>1
        <5> QED BY <4>2, <4>4, <5>1
      <4> QED BY <4>3, <4>4
    <3> QED BY <3>1
  <2>2. P \subseteq S /\ First(S, Cardinality(P)) \subseteq S
    BY DEF First
  <2> QED BY <2>1, <2>2
<1>6. Cardinality(P) \in 0..NMessages
  <2>1. IsFiniteSet(1..NMessages) /\ Cardinality(1..NMessages) = NMessages
    BY FS_Interval, IdentNumbers
  <2>2. P \subseteq 1..NMessages
    BY DEF Idents
  <2>3. Cardinality(P) \in Nat
    BY <1>1, <1>2
  <2> HIDE DEF P
  <2>4. Cardinality(P) <= NMessages
    BY <2>1, <2>2, FS_Subset
  <2> QED BY <2>3, <2>4, IdentNumbers
<1> QED BY <1>5, <1>6

\* A set is the first n of its members when it has no more than n.
LEMMA FirstIsAll ==
  ASSUME NEW S \in SUBSET Idents, NEW n \in Nat, Cardinality(S) <= n
  PROVE  First(S, n) = S
<1>1. ASSUME NEW i \in S PROVE Cardinality({j \in S : j <= i}) <= n
  <2> DEFINE B == {j \in S : j <= i}
  <2>1. B \in SUBSET Idents /\ B \subseteq S
    OBVIOUS
  <2> HIDE DEF B
  <2>2. Cardinality(B) \in Nat /\ IsFiniteSet(S) /\ Cardinality(S) \in Nat
    BY <2>1, IdentsCounted
  <2>3. Cardinality(B) <= Cardinality(S)
    BY <2>1, <2>2, FS_Subset
  <2>4. Cardinality(B) <= n
    BY <2>2, <2>3
  <2> QED BY <2>4 DEF B
<1> QED BY <1>1 DEF First

\* A span is empty when it ends where it begins, and only then.
LEMMA SpanEmpty ==
  ASSUME NEW a \in Nat, NEW b \in Nat, a <= b, b = a \/ b <= NMessages
  PROVE  Span(a, b) = {} <=> a = b
<1>1. a = b => Span(a, b) = {}
  BY IdentNumbers DEF Span
<1>2. a # b => b \in Span(a, b)
  BY IdentNumbers DEF Span, Idents
<1> QED BY <1>1, <1>2

\* The lowest ident of a span is its first.
LEMMA SpanFirst ==
  ASSUME NEW a \in Nat, NEW b \in Nat, b = a \/ b <= NMessages, a <= b, Span(a, b) # {}
  PROVE  /\ Lowest(Span(a, b)) = a + 1 /\ a + 1 <= b /\ a + 1 <= NMessages /\ a + 1 \in Idents
         /\ Span(a, b) \ {a + 1} = Span(a + 1, b)
<1>1. a < b /\ b <= NMessages
  BY SpanEmpty
<1>2. a + 1 \in Span(a, b) /\ a + 1 \in Idents
  BY <1>1, IdentNumbers DEF Span, Idents
<1>3. Span(a, b) \in SUBSET Idents
  BY DEF Span
<1>4. Lowest(Span(a, b)) \in Span(a, b) /\ \A j \in Span(a, b) : Lowest(Span(a, b)) <= j
  BY <1>2, <1>3, LowestInPage
<1>5. Lowest(Span(a, b)) = a + 1
  <2>1. Lowest(Span(a, b)) <= a + 1 /\ Lowest(Span(a, b)) \in Nat /\ a < Lowest(Span(a, b))
    BY <1>2, <1>4, IdentNumbers DEF Span
  <2> QED BY <2>1
<1>6. Span(a, b) \ {a + 1} = Span(a + 1, b)
  BY IdentNumbers DEF Span
<1> QED BY <1>1, <1>2, <1>5, <1>6, IdentNumbers

\* A page of n messages ends with the last message at the latest.
LEMMA SpanBounded ==
  ASSUME NEW a \in Nat, NEW n \in Nat
  PROVE  \E b \in Nat : /\ a <= b /\ b <= a + n /\ (b = a \/ b <= NMessages) /\ Span(a, a + n) = Span(a, b)
                        /\ b = a + n \/ b >= NMessages
<1>1. CASE a + n <= NMessages
  BY <1>1
<1>2. CASE ~(a + n <= NMessages) /\ a <= NMessages
  <2>1. Span(a, a + n) = Span(a, NMessages)
    BY <1>2, IdentNumbers DEF Span
  <2> QED BY <1>2, <2>1, IdentNumbers
<1>3. CASE ~(a <= NMessages)
  <2>1. Span(a, a + n) = Span(a, a)
    BY <1>3, IdentNumbers DEF Span
  <2> QED BY <1>3, <2>1, IdentNumbers
<1> QED BY <1>1, <1>2, <1>3, IdentNumbers

\* The messages up to the frontier.
LEMMA UptoTyped ==
  ASSUME NEW d \in Nat
  PROVE  /\ Upto(d) \in SUBSET Idents /\ Cardinality(Upto(d)) \in Nat /\ IsFiniteSet(Upto(d))
         /\ AfterOffset(offset) \in SUBSET Idents
         /\ Upto(d) = First(AfterOffset(offset), Cardinality(Upto(d)))
         /\ Cardinality(Upto(d)) \in 0..NMessages
<1>1. AfterOffset(offset) \in SUBSET Idents
  BY DEF AfterOffset
<1>2. Upto(d) \in SUBSET Idents
  BY <1>1 DEF Upto
<1>3. IsFiniteSet(Upto(d)) /\ Cardinality(Upto(d)) \in Nat
  BY <1>2, IdentsCounted
<1>4. /\ {i \in AfterOffset(offset) : i <= d}
           = First(AfterOffset(offset), Cardinality({i \in AfterOffset(offset) : i <= d}))
      /\ Cardinality({i \in AfterOffset(offset) : i <= d}) \in 0..NMessages
  BY <1>1, PrefixIsFirst
<1>5. Upto(d) = {i \in AfterOffset(offset) : i <= d}
  BY DEF Upto
<1> QED BY <1>1, <1>2, <1>3, <1>4, <1>5

\* The source is one sequence of messages, but for the files of load.
LEMMA UptoSpan ==
  ASSUME AdminTypeOK, command # "load", NEW d \in Nat, Position(d)
  PROVE  /\ Upto(d) = Span(offset, d) /\ Cardinality(Upto(d)) = d - offset /\ offset <= d
         /\ offset \in Nat /\ (d = offset \/ d <= NMessages)
<1>1. offset \in Nat
  BY DatabasesTyped
<1>2. Upto(d) = Span(offset, d)
  BY DEF Upto, AfterOffset, Span
<1> QED BY <1>1, <1>2, SpanCounted DEF Position

\* The next message, one of those after the offset or one that load skips.
LEMMA UptoNext ==
  ASSUME NEW d \in Nat
  PROVE  /\ d + 1 \in AfterOffset(offset) =>
              /\ Upto(d + 1) = Upto(d) \cup {d + 1} /\ d + 1 \notin Upto(d)
              /\ Cardinality(Upto(d + 1)) = Cardinality(Upto(d)) + 1
         /\ d + 1 \notin AfterOffset(offset) => Upto(d + 1) = Upto(d)
         /\ Upto(d) \subseteq Upto(d + 1)
<1>1. \A i \in AfterOffset(offset) : i \in Nat
  BY UptoTyped, IdentNumbers
<1>2. d + 1 \notin Upto(d) /\ Upto(d) \subseteq Upto(d + 1)
  BY <1>1 DEF Upto
<1>3. d + 1 \in AfterOffset(offset) => Upto(d + 1) = Upto(d) \cup {d + 1}
  BY <1>1 DEF Upto
<1>4. d + 1 \notin AfterOffset(offset) => Upto(d + 1) = Upto(d)
  BY <1>1 DEF Upto
<1>5. Cardinality(Upto(d) \cup {d + 1}) = Cardinality(Upto(d)) + 1
  BY <1>2, UptoTyped, FS_AddElement
<1> QED BY <1>2, <1>3, <1>4, <1>5

\* What a change of contents makes of the messages present.
LEMMA PresentChange ==
  ASSUME NEW c \in Contents, NEW m \in Idents, NEW S
  PROVE  /\ Present(Inserted(c, m)) = Present(c) \cup {m}
         /\ Gone(Removed(c, S)) = Gone(c) \cup (S \cap Idents)
         /\ Gone(Torn(c, S)) = Gone(c) \ S
         /\ m \notin Present(c) /\ (\A i \in Idents : c[i] # "twice") =>
              \A i \in Idents : Inserted(c, m)[i] # "twice"
         /\ (\A i \in Idents : c[i] # "twice") => \A i \in Idents : Torn(c, S)[i] # "twice"
  BY DEF Present, Gone, Inserted, Removed, Torn, Contents, States

\* All the messages, and none.
LEMMA PresentEnds == /\ Present(Everything) = Idents /\ Present(Nothing) = {} /\ Gone(Everything) = {}
                     /\ \A i \in Idents : Nothing[i] # "twice"
  BY DEF Present, Gone, Everything, Nothing

\* What depends on the command line alone does not change.
LEMMA OptionsFixed ==
  ASSUME UNCHANGED options
  PROVE  /\ command' = command /\ ept' = ept /\ limit' = limit /\ offset' = offset /\ firstFile' = firstFile
         /\ Target' = Target /\ HasTransaction' = HasTransaction /\ Files' = Files /\ Asked' = Asked
         /\ LoadEnd' = LoadEnd /\ \A d : Upto(d)' = Upto(d)
<1>1. command' = command /\ ept' = ept /\ limit' = limit /\ offset' = offset /\ firstFile' = firstFile
  BY DEF options
<1>2. Target' = Target /\ HasTransaction' = HasTransaction
  BY OptionsKept
<1>3. Files' = Files
  BY <1>1 DEF Files
<1>4. LoadEnd' = LoadEnd
  BY <1>1 DEF LoadEnd
<1>5. \A d : Upto(d)' = Upto(d)
  BY <1>1 DEF Upto, AfterOffset
<1>6. Asked' = Asked
  BY <1>1 DEF Asked, LoadWanted, Wanted, First, AfterOffset
<1> QED BY <1>1, <1>2, <1>3, <1>4, <1>5, <1>6

-----------------------------------------------------------------------------
(***************************************************************************)
(* Control, the limit and the transactions of load                         *)
(***************************************************************************)

\* A program that goes on has met no error, and the page is over when the transaction is
\* flushed with it.
FlowInv ==
  /\ pc \in {"start", "fetch", "next", "insert", "evict", "count", "save", "purge", "open", "read"} => ~failed
  /\ pc \in {"flush_end", "flush_start"} /\ after \in {"next", "read"} => ~failed
  /\ pc \in {"flush_end", "flush_start"} /\ after \in {"leftover", "loop"} => page = {}
  /\ command \in {"save", "print"} => eventNo = 0

\* Every step of the program leaves the command line alone.
LEMMA ProgramOptions == ASSUME Program PROVE UNCHANGED options
  BY DEF Program, Start, Fetch, GetMessage, EndPage, Insert, Evict, Leftover, Count, FlushEnd, FlushStart,
         Purge, SaveMessage, SaveDone, OpenFile, NoFileLeft, LoadDone, ReadMessage, Loop, Finish,
         DestroyDatabases

\* Every step of the program keeps to it.
LEMMA ProgramFlow == ASSUME AdminTypeOK, FlowInv, Program PROVE FlowInv'
<1>0. UNCHANGED options /\ command' = command /\ failed \in BOOLEAN /\ stop \in BOOLEAN
  BY ProgramOptions, OptionsFixed DEF AdminTypeOK
<1>a. /\ command \in {"copy", "move", "delete", "save", "print", "load"}
      /\ pc \in Steps(command) \cup {"start"} \cup Ending
  BY DatabasesTyped DEF AdminTypeOK
<1>1. CASE Start \/ NoFileLeft \/ LoadDone \/ Finish \/ DestroyDatabases
  <2>1. /\ pc' \in {"open", "fetch", "finish", "destroy", "done", "aborted"} /\ UNCHANGED <<failed, eventNo>>
        /\ pc' \in {"open", "fetch"} => ~failed
    BY <1>0, <1>1 DEF FlowInv, Start, NoFileLeft, LoadDone, Finish, DestroyDatabases
  <2> QED BY <1>0, <2>1 DEF FlowInv
<1>d. CASE Loop
  <2>1. pc' \in {"finish", "fetch"} /\ (pc' = "fetch" => ~failed) /\ failed' = failed /\ eventNo' = eventNo
    BY <1>0, <1>d DEF Loop
  <2> QED BY <1>0, <2>1 DEF FlowInv
<1>b. CASE FlushEnd \/ Evict
  BY <1>0, <1>b DEF FlowInv, FlushEnd, Evict
<1>c. CASE Leftover
  <2>1. pc' = "loop" /\ UNCHANGED <<command, eventNo>>
    BY <1>0, <1>c DEF Leftover
  <2> QED BY <2>1 DEF FlowInv
<1>2. CASE Fetch
  <2>1. pc' \in {"finish", "purge", "save", "next"} /\ (pc' # "finish" => ~failed')
    BY <1>2 DEF Fetch, AfterFetch, PageStart
  <2> QED BY <1>0, <1>2, <2>1 DEF FlowInv, Fetch
<1>9. CASE GetMessage \/ OpenFile \/ ReadMessage
  <2>1. pc' \in {"finish", "insert", "read", "exited", "open"} /\ (pc' \notin {"finish", "exited"} => ~failed')
    BY <1>9 DEF GetMessage, OpenFile, ReadMessage
  <2> QED BY <1>0, <1>9, <2>1 DEF FlowInv, GetMessage, OpenFile, ReadMessage
<1>3. CASE EndPage
  BY <1>0, <1>3 DEF FlowInv, EndPage
<1>4. CASE Insert
  BY <1>0, <1>4 DEF FlowInv, Insert
<1>5. CASE Count
  <2>1. command \in {"copy", "move", "load"} /\ after \in {"next", "read"} /\ ~failed
    BY <1>a, <1>5 DEF Count, FlowInv, AdminTypeOK, Steps, Returns, Ending
  <2> QED BY <1>0, <1>5, <2>1 DEF Count, Counted, FlowInv
<1>6. CASE FlushStart
  <2>1. command \in {"copy", "move", "load", "delete"} /\ after \in {"next", "read", "leftover", "loop"}
    BY <1>a, <1>6 DEF FlushStart, AdminTypeOK, Steps, Returns, Ending
  <2> QED BY <1>0, <1>6, <2>1 DEF FlushStart, FlowInv
<1>7. CASE Purge
  <2>1. command = "delete"
    BY <1>a, <1>7 DEF Purge, Steps, Ending
  <2> QED BY <1>0, <1>7, <2>1 DEF Purge, Counted, FlowInv
<1>8. CASE SaveMessage \/ SaveDone
  BY <1>0, <1>8 DEF SaveMessage, SaveDone, FlowInv
<1> QED BY <1>1, <1>2, <1>3, <1>4, <1>5, <1>6, <1>7, <1>8, <1>9, <1>b, <1>c, <1>d DEF Program

\* ... in every run.
LEMMA FlowInvariant == Spec => []FlowInv
<1>1. Init => FlowInv
  BY DEF Init, FlowInv
<1>2. AdminTypeOK /\ FlowInv /\ [Next]_vars => FlowInv'
  <2> SUFFICES ASSUME AdminTypeOK, FlowInv, [Next]_vars PROVE FlowInv'
    OBVIOUS
  <2>1. CASE Program
    BY <2>1, ProgramFlow
  <2>2. CASE Interrupt \/ Finished \/ UNCHANGED vars
    BY <2>2 DEF Interrupt, Finished, vars, FlowInv, options
  <2> QED BY <2>1, <2>2 DEF Next
<1> QED BY <1>1, <1>2, AdminTypeCorrect, PTL DEF Spec

\* The limit is used up by the pages, and never crossed.
LEMMA LimitInvariant == Spec => []LimitInv
<1>1. Init => LimitInv
  BY DEF Init, LimitInv
<1>2. AdminTypeOK /\ PageInv /\ LimitInv /\ [Next]_vars => LimitInv'
  <2> SUFFICES ASSUME AdminTypeOK, PageInv, LimitInv, [Next]_vars PROVE LimitInv'
    OBVIOUS
  <2>0. limit' = limit
    BY ProgramOptions, OptionsFixed DEF Next, Interrupt, Finished, vars, options
  <2>1. CASE Fetch
    <3> DEFINE idents == Slice(dbs["src"], PageOffset, LocalLimit)
    <3> PICK r \in Affordable(ReadOnly(dbs["src"], "fetch")) :
          limitCopy' = IF r.ok THEN LimitLeft(Cardinality(idents)) ELSE limitCopy
      BY <2>1 DEF Fetch
    <3>1. LocalLimit \in Nat /\ PageOffset \in Nat
      BY LimitBounded DEF PageInv
    <3>2. Cardinality(idents) \in Nat /\ Cardinality(idents) <= LocalLimit
      BY <3>1, SliceBounded
    <3> HIDE DEF idents
    <3>3. ept \in Nat /\ limitCopy \in Int /\ limit \in Int
      BY DatabasesTyped DEF AdminTypeOK
    <3> QED BY <2>0, <3>2, <3>3 DEF LimitInv, LimitLeft, LocalLimit
  <2>2. CASE limitCopy' = limitCopy
    BY <2>0, <2>2 DEF LimitInv
  <2>3. Fetch \/ limitCopy' = limitCopy
    BY DEF Next, Program, Start, GetMessage, EndPage, Insert, Evict, Leftover, Count, FlushEnd, FlushStart,
           Purge, SaveMessage, SaveDone, OpenFile, NoFileLeft, LoadDone, ReadMessage, Loop, Finish,
           DestroyDatabases, Interrupt, Finished, vars
  <2> QED BY <2>1, <2>2, <2>3
<1> QED BY <1>1, <1>2, AdminTypeCorrect, PageInvariant, PTL DEF Spec

\* The transaction that the limit of load falls in is number LoadEnd.
LEMMA LoadEndIs ==
  ASSUME ept \in Nat \ {0}, limit \in Nat
  PROVE  /\ LoadEnd \in Nat /\ limit <= ept * LoadEnd /\ ept * LoadEnd < limit + ept
         /\ \A m \in Nat : /\ m * ept < limit => m * ept + ept <= ept * LoadEnd
                           /\ m * ept >= limit /\ m * ept <= ept * LoadEnd => m * ept = ept * LoadEnd
<1> DEFINE x == limit + ept - 1
           c == x \div ept
           q == x % ept
<1>1. x \in Nat /\ c \in Nat /\ q \in Nat /\ q < ept /\ x = ept * c + q
  OBVIOUS
<1>2. LoadEnd = c
  BY DEF LoadEnd
<1> HIDE DEF c, q
<1>3. limit <= ept * c /\ ept * c < limit + ept
  <2>1. ept * c \in Int
    BY <1>1
  <2> QED BY <1>1, <2>1
<1>4. ASSUME NEW m \in Nat, m * ept < limit PROVE m * ept + ept <= ept * c
  <2>1. m < c
    <3> SUFFICES ASSUME c <= m PROVE FALSE
      BY <1>1
    <3>1. ept * c <= m * ept
      BY <1>1
    <3> QED BY <1>1, <1>3, <1>4, <3>1
  <2>2. (m + 1) * ept <= ept * c
    BY <1>1, <2>1
  <2>3. (m + 1) * ept = m * ept + ept
    OBVIOUS
  <2> QED BY <2>2, <2>3
<1>5. ASSUME NEW m \in Nat, m * ept >= limit, m * ept <= ept * c PROVE m * ept = ept * c
  <2>1. c <= m
    <3> SUFFICES ASSUME m + 1 <= c PROVE FALSE
      BY <1>1
    <3>1. (m + 1) * ept <= ept * c
      BY <1>1
    <3>2. (m + 1) * ept = m * ept + ept
      OBVIOUS
    <3>3. m * ept \in Int /\ ept * c \in Int
      BY <1>1
    <3> QED BY <1>1, <1>3, <1>5, <3>1, <3>2, <3>3
  <2>2. ept * c <= m * ept
    BY <1>1, <2>1
  <2> QED BY <1>1, <1>5, <2>2
<1> QED BY <1>1, <1>2, <1>3, <1>4, <1>5

\* A step that leaves the counters alone, and does not go past the count.
LEMMA QuietLoad ==
  ASSUME LoadInv, UNCHANGED <<options, curCount, eventNo>>,
         pc \in {"flush_end", "flush_start"} <=> pc' \in {"flush_end", "flush_start"},
         pc \notin {"destroy", "done", "aborted"} \/ pc' \in {"destroy", "done", "aborted"},
         limit # -1 /\ pc' \in {"insert", "count"} => pc \in {"insert", "count"} \/ curCount < limit
  PROVE  LoadInv'
  BY OptionsFixed DEF LoadInv

\* Every step of load keeps its transactions, and stops where the first of them ends that
\* reaches the count.
LEMMA ProgramLoad == ASSUME AdminTypeOK, LoadInv, Program PROVE LoadInv'
<1> SUFFICES ASSUME command' = "load", ept' # 0 PROVE LoadInv'
  BY DEF LoadInv
<1>0. /\ UNCHANGED options /\ command = "load" /\ ept' = ept /\ limit' = limit /\ LoadEnd' = LoadEnd
      /\ ept \in Nat \ {0} /\ curCount \in Nat /\ eventNo \in Nat /\ limit \in Nat \cup {-1}
  BY ProgramOptions, OptionsFixed, DatabasesTyped, AdminAssumption DEF AdminTypeOK
<1>a. pc \in Steps("load") \cup {"start"} \cup Ending
  BY <1>0 DEF AdminTypeOK
<1>1. CASE Start \/ OpenFile \/ NoFileLeft \/ LoadDone \/ DestroyDatabases
  BY <1>0, <1>1, QuietLoad DEF Start, OpenFile, NoFileLeft, LoadDone, DestroyDatabases
<1>2. CASE ReadMessage
  <2>1. /\ UNCHANGED <<curCount, eventNo>> /\ pc = "read" /\ pc' \in {"finish", "read", "open", "insert"}
        /\ pc' = "insert" /\ limit # -1 => curCount < limit
    BY <1>0, <1>2 DEF ReadMessage
  <2> QED BY <1>0, <2>1, QuietLoad
<1>3. CASE Insert
  <2>1. UNCHANGED <<curCount, eventNo>> /\ pc = "insert" /\ pc' \in {"finish", "count"}
    BY <1>0, <1>3 DEF Insert
  <2> QED BY <1>0, <2>1, QuietLoad
<1>4. CASE Count
  <2>1. /\ curCount' = curCount /\ eventNo' = eventNo + 1 /\ pc = "count" /\ eventNo < ept
        /\ limit # -1 => curCount < limit
    BY <1>0, <1>4 DEF Count, Counted, LoadInv
  <2>2. after = "read"
    BY <1>0, <1>4 DEF Count, AdminTypeOK, Returns
  <2>3. pc' = IF eventNo + 1 >= ept THEN "flush_end" ELSE "read"
    BY <1>0, <1>4, <2>2 DEF Count, Counted
  <2>4. limit # -1 => curCount + ept <= ept * LoadEnd
    BY <1>0, <2>1 DEF LoadInv
  <2>5. \E m \in Nat : curCount = m * ept
    BY <1>0, <2>1 DEF LoadInv
  <2>6. pc' \in {"flush_end", "read"} /\ (pc' = "flush_end" <=> eventNo' = ept) /\ eventNo' <= ept
    BY <1>0, <2>1, <2>3
  <2>7. /\ limit # -1 => curCount < limit /\ ~(curCount >= limit)
        /\ pc' # "flush_end" => eventNo' < ept
    BY <1>0, <2>1, <2>6
  <2> QED BY <1>0, <2>1, <2>4, <2>5, <2>6, <2>7 DEF LoadInv
<1>5. CASE FlushEnd
  <2>1. UNCHANGED <<curCount, eventNo>> /\ pc = "flush_end" /\ pc' = "flush_start"
    BY <1>5 DEF FlushEnd
  <2> QED BY <1>0, <2>1, QuietLoad
<1>6. CASE FlushStart
  <2>1. /\ curCount' = curCount + eventNo /\ eventNo' = 0 /\ pc = "flush_start" /\ pc' = "read"
        /\ eventNo = ept
    BY <1>0, <1>6 DEF FlushStart, AdminTypeOK, Returns, LoadInv
  <2>2. PICK m \in Nat : curCount = m * ept
    BY <1>0, <2>1 DEF LoadInv
  <2>3. curCount' = (m + 1) * ept /\ m + 1 \in Nat
    BY <1>0, <2>1, <2>2
  <2>4. \E n \in Nat : curCount' = n * ept
    BY <2>3
  <2>5. limit # -1 => curCount' <= ept * LoadEnd
    BY <1>0, <2>1 DEF LoadInv
  <2>6. ASSUME limit # -1
        PROVE  /\ curCount' < limit => curCount' + ept <= ept * LoadEnd
               /\ curCount' >= limit => curCount' = ept * LoadEnd
    <3>1. limit \in Nat
      BY <1>0, <2>6
    <3> QED BY <1>0, <2>3, <2>5, <2>6, <3>1, LoadEndIs
  <2> QED BY <1>0, <2>1, <2>4, <2>6 DEF LoadInv
<1>7. CASE Finish
  BY <1>0, <1>7 DEF Finish, LoadInv
<1>8. CASE Fetch \/ GetMessage \/ EndPage \/ Evict \/ Leftover \/ Purge \/ SaveMessage \/ SaveDone \/ Loop
  BY <1>a, <1>8 DEF Fetch, GetMessage, EndPage, Evict, Leftover, Purge, SaveMessage, SaveDone, Loop, Steps, Ending
<1> QED BY <1>1, <1>2, <1>3, <1>4, <1>5, <1>6, <1>7, <1>8 DEF Program

\* ... in every run.
LEMMA LoadInvariant == Spec => []LoadInv
<1>1. Init => LoadInv
  <2> SUFFICES ASSUME Init, command = "load", ept # 0 PROVE LoadInv
    BY DEF LoadInv
  <2>1. curCount = 0 /\ eventNo = 0 /\ pc = "start" /\ ept \in Nat \ {0} /\ limit \in Nat \cup {-1}
    BY AdminAssumption DEF Init
  <2>2. 0 = 0 * ept /\ \E m \in Nat : curCount = m * ept
    BY <2>1
  <2>3. ASSUME limit # -1
        PROVE  /\ curCount < limit => curCount + ept <= ept * LoadEnd
               /\ curCount >= limit => curCount = ept * LoadEnd
    <3>1. limit \in Nat /\ ept * LoadEnd \in Int
      BY <2>1, <2>3, LoadEndIs
    <3>2. /\ 0 * ept < limit => 0 * ept + ept <= ept * LoadEnd
          /\ 0 * ept >= limit /\ 0 * ept <= ept * LoadEnd => 0 * ept = ept * LoadEnd
          /\ limit <= ept * LoadEnd
      BY <2>1, <3>1, LoadEndIs
    <3> QED BY <2>1, <2>2, <3>1, <3>2
  <2> QED BY <2>1, <2>2, <2>3 DEF LoadInv
<1>2. AdminTypeOK /\ LoadInv /\ [Next]_vars => LoadInv'
  <2> SUFFICES ASSUME AdminTypeOK, LoadInv, [Next]_vars PROVE LoadInv'
    OBVIOUS
  <2>1. CASE Program
    BY <2>1, ProgramLoad
  <2>2. CASE Interrupt \/ Finished \/ UNCHANGED vars
    BY <2>2, OptionsFixed DEF Interrupt, Finished, vars, LoadInv, options
  <2> QED BY <2>1, <2>2 DEF Next
<1> QED BY <1>1, <1>2, AdminTypeCorrect, PTL DEF Spec

-----------------------------------------------------------------------------
(***************************************************************************)
(* The frontier, one step at a time                                        *)
(***************************************************************************)

\* What holds in every state, whatever the frontier is.
Known == AdminTypeOK /\ TxInv /\ PageInv /\ PagesInv /\ FlowInv /\ LimitInv /\ LoadInv

\* The parts that a step cannot disturb.
LEMMA Aside ==
  ASSUME UNCHANGED options, NEW c
  PROVE  /\ command # "load" => FileAt(c)'
         /\ command # "delete" => DeletedAt(c)'
         /\ command = "load" => PageAt(c)'
         /\ command \in {"move", "delete"} \/ pc' \in {"destroy", "done", "aborted"} => CountAt(c)'
         /\ pc' \notin {"finish", "destroy", "done"} \/ failed' \/ stop' => EndAt(c)'
         /\ Position(c) => Position(c)'
<1>1. command' = command /\ offset' = offset
  BY OptionsFixed
<1>2. command # "load" => FileAt(c)'
  BY <1>1 DEF FileAt
<1>3. command # "delete" => DeletedAt(c)'
  BY <1>1 DEF DeletedAt
<1>4. command = "load" => PageAt(c)'
  BY <1>1 DEF PageAt
<1>5. command \in {"move", "delete"} \/ pc' \in {"destroy", "done", "aborted"} => CountAt(c)'
  BY <1>1 DEF CountAt
<1>6. pc' \notin {"finish", "destroy", "done"} \/ failed' \/ stop' => EndAt(c)'
  BY DEF EndAt
<1>7. Position(c) => Position(c)'
  BY <1>1 DEF Position
<1> QED BY <1>2, <1>3, <1>4, <1>5, <1>6, <1>7

\* The databases are as they were.
LEMMA WorkKept ==
  ASSUME NEW d \in Nat, WorkAt(d), UNCHANGED <<options, dbs, curCount>>, pc \notin Ending, pc' \notin {"flush_start", "done"}
  PROVE  WorkAt(d)'
<1>1. command' = command /\ Target' = Target /\ \A s : Upto(s)' = Upto(s)
  BY OptionsFixed
<1>2. ~Over
  BY DEF Over
<1> QED BY <1>1, <1>2 DEF WorkAt

\* Only move changes the source, and delete, which has no destination.
LEMMA SourceKept ==
  ASSUME NEW d, SourceAt(d), UNCHANGED options, command # "move",
         command = "delete" \/ dbs'["src"] = dbs["src"], command # "delete" \/ dbs'["dst"] = dbs["dst"]
  PROVE  \A c : SourceAt(c)'
<1>1. command' = command
  BY OptionsFixed
<1> QED BY <1>1 DEF SourceAt

\* The counters are as they were.
LEMMA CountKept ==
  ASSUME NEW d, CountAt(d), UNCHANGED <<options, curCount, eventNo>>,
         pc \notin {"count", "destroy", "done", "aborted"}, pc' # "count"
  PROVE  CountAt(d)'
<1>1. command' = command /\ ept' = ept /\ Upto(d)' = Upto(d)
  BY OptionsFixed
<1>2. Handled' = Handled
  BY DEF Handled
<1> QED BY <1>1, <1>2 DEF CountAt

\* delete_tbl goes with the page.
LEMMA TableKept ==
  ASSUME NEW d, SourceAt(d), UNCHANGED <<options, tbl>>, dbs'["src"] = dbs["src"],
         command # "delete" \/ dbs'["dst"] = dbs["dst"],
         pc \in InPage <=> pc' \in InPage, pc \notin InPage => (failed => failed')
  PROVE  SourceAt(d)'
<1>1. command' = command /\ offset' = offset
  BY OptionsFixed
<1> QED BY <1>1 DEF SourceAt

\* A page of the source, read at the frontier.
LEMMA PageIs ==
  ASSUME Known, NEW d \in Nat, Frontier(d), pc = "fetch", command = "delete" => "commit" \notin Faulty
  PROVE  Slice(dbs["src"], PageOffset, LocalLimit) = Span(d, d + LocalLimit) /\ LocalLimit \in Nat
<1>0. AdminTypeOK /\ limitCopy >= -1 /\ ~failed /\ Position(d) /\ SourceAt(d) /\ DeletedAt(d) /\ CountAt(d)
  BY DEF Known, PageInv, FlowInv, Frontier
<1>1. LocalLimit \in Nat
  BY <1>0, LimitBounded
<1>2. command \in {"copy", "move", "delete", "save", "print"} /\ offset \in Nat /\ curCount \in Nat /\ eventNo \in Nat
  BY <1>0, DatabasesTyped DEF AdminTypeOK, Steps, Ending
<1>3. /\ Upto(d) = Span(offset, d) /\ Cardinality(Upto(d)) = d - offset /\ offset <= d
      /\ d = offset \/ d <= NMessages
  BY <1>0, <1>2, UptoSpan
<1>4. Everything \in Contents
  BY DEF Everything, Contents, States
<1>5. CASE command \in {"copy", "save", "print"}
  <2>1. eventNo = 0
    BY <1>5 DEF Known, PagesInv, FlowInv
  <2>2. d = offset + curCount
    BY <1>0, <1>2, <1>3, <1>5, <2>1 DEF CountAt, Handled
  <2>3. PageOffset = d
    BY <1>5, <2>2 DEF PageOffset
  <2>4. dbs["src"].work = Everything
    BY <1>0, <1>4, <1>5, SettledFields DEF SourceAt
  <2>5. Gone(dbs["src"].work) = Span(d, d)
    BY <2>4, PresentEnds, SpanEmpty
  <2> QED BY <1>1, <2>3, <2>5, SliceSpan
<1>6. CASE command = "move"
  <2>1. dbs["src"] = Settled(Removed(Everything, Span(offset, d)))
    BY <1>0, <1>6 DEF SourceAt, InPage
  <2>2. Removed(Everything, Span(offset, d)) \in Contents
    BY <1>4 DEF Removed, Contents, States
  <2>3. dbs["src"].work = Removed(Everything, Span(offset, d))
    BY <2>1, <2>2, SettledFields
  <2>4. Gone(dbs["src"].work) = Span(offset, d)
    BY <2>3 DEF Gone, Removed, Everything, Span
  <2>5. PageOffset = offset
    BY <1>2, <1>6 DEF PageOffset
  <2>6. Slice(dbs["src"], offset, LocalLimit) = Span(d, d + LocalLimit)
    BY <1>1, <1>2, <1>3, <2>4, SliceSpan
  <2> QED BY <1>1, <2>5, <2>6
<1>7. CASE command = "delete"
  <2>1. Gone(dbs["src"].work) = Span(offset, d)
    BY <1>0, <1>3, <1>7 DEF DeletedAt
  <2>2. PageOffset = offset
    BY <1>2, <1>7 DEF PageOffset
  <2>6. Slice(dbs["src"], offset, LocalLimit) = Span(d, d + LocalLimit)
    BY <1>1, <1>2, <1>3, <2>1, SliceSpan
  <2> QED BY <1>1, <2>2, <2>6
<1> QED BY <1>2, <1>5, <1>6, <1>7

\* A page that is empty is the last one: the messages or the limit are used up.
LEMMA LastPage ==
  ASSUME Known, NEW d \in Nat, Frontier(d), pc = "fetch", command = "delete" => "commit" \notin Faulty,
         ept # 0, ~stop, Span(d, d + LocalLimit) = {}
  PROVE  Upto(d) = Asked
<1>0. /\ AdminTypeOK /\ limitCopy >= -1 /\ ~failed /\ Position(d) /\ PageAt(d) /\ LimitInv
  BY DEF Known, PageInv, FlowInv, Frontier
<1>1. /\ command \in {"copy", "move", "delete", "save", "print"} /\ offset \in Nat /\ ept \in Nat \ {0}
      /\ limit \in Nat \cup {-1} /\ limitCopy \in Int
  BY <1>0, DatabasesTyped, AdminAssumption DEF AdminTypeOK, Steps, Ending
<1>2. /\ Upto(d) = Span(offset, d) /\ Cardinality(Upto(d)) = d - offset /\ offset <= d
      /\ d = offset \/ d <= NMessages
  BY <1>0, <1>1, UptoSpan
<1>3. limit >= 0 => d + limitCopy = offset + limit /\ limitCopy >= 0
  <2>1. limit >= 0 => d + limitCopy = offset + limit
    BY <1>0, <1>1 DEF PageAt, Ending
  <2> QED BY <1>0, <2>1 DEF LimitInv
<1>4. Asked = First(AfterOffset(offset), IF limit < 0 THEN NMessages ELSE limit)
  BY <1>1 DEF Asked, Wanted
<1>5. /\ Upto(d) = First(AfterOffset(offset), Cardinality(Upto(d))) /\ AfterOffset(offset) \in SUBSET Idents
      /\ Cardinality(Upto(d)) \in 0..NMessages
  BY UptoTyped
<1>6. CASE LocalLimit = 0
  <2>1. limitCopy = 0
    BY <1>0, <1>1, <1>6 DEF LocalLimit
  <2>2. limit >= 0 /\ d = offset + limit
    BY <1>0, <1>1, <1>3, <2>1 DEF LimitInv
  <2>3. Cardinality(Upto(d)) = limit
    BY <1>1, <1>2, <2>2
  <2> QED BY <1>1, <1>4, <1>5, <2>2, <2>3
<1>7. CASE LocalLimit # 0
  <2>1. LocalLimit \in Nat
    BY <1>0, LimitBounded
  <2>2. d >= NMessages
    <3> SUFFICES ASSUME d < NMessages PROVE FALSE
      BY IdentNumbers
    <3>1. d + 1 \in Span(d, d + LocalLimit)
      BY <1>7, <2>1, IdentNumbers DEF Span, Idents
    <3> QED BY <3>1
  <2>3. Upto(d) = AfterOffset(offset)
    BY <1>5, <2>2, IdentNumbers DEF Upto
  <2> DEFINE n == IF limit < 0 THEN NMessages ELSE limit
  <2>4. n \in Nat /\ Cardinality(AfterOffset(offset)) <= n
    <3>1. limit >= 0 => d - offset <= limit
      BY <1>1, <1>3
    <3> QED BY <1>1, <1>2, <1>5, <2>3, <3>1, IdentNumbers
  <2> HIDE DEF n
  <2>5. First(AfterOffset(offset), n) = AfterOffset(offset)
    BY <1>5, <2>4, FirstIsAll
  <2> QED BY <1>4, <2>3, <2>5 DEF n
<1> QED BY <1>6, <1>7

\* fetch_message_idents_limited.
LEMMA FetchFrontier == ASSUME Known, NEW d \in Nat, Frontier(d), Fetch PROVE Frontier(d)'
<1> DEFINE idents == Slice(dbs["src"], PageOffset, LocalLimit)
<1> PICK r \in Affordable(ReadOnly(dbs["src"], "fetch")) :
      /\ Answered("src", r)
      /\ failed' = ~r.ok
      /\ page' = IF r.ok THEN idents ELSE {}
      /\ limitCopy' = IF r.ok THEN LimitLeft(Cardinality(idents)) ELSE limitCopy
      /\ pc' = AfterFetch(r.ok, idents)
  BY DEF Fetch
<1>0. /\ AdminTypeOK /\ limitCopy >= -1 /\ ~failed /\ LimitInv
      /\ Position(d) /\ SourceAt(d) /\ DeletedAt(d) /\ PageAt(d) /\ CountAt(d) /\ WorkAt(d)
  BY DEF Known, PageInv, FlowInv, Frontier, Fetch
<1>1. /\ UNCHANGED <<options, curCount, eventNo, stop>> /\ tbl' = {} /\ pc = "fetch" /\ command' = command
      /\ offset' = offset /\ limit' = limit /\ ept' = ept /\ Asked' = Asked /\ \A s : Upto(s)' = Upto(s)
  BY OptionsFixed DEF Fetch
<1>2. dbs' = dbs /\ r.ok \in BOOLEAN
  BY <1>0, ReadsLeave
<1>3. /\ command \in {"copy", "move", "delete", "save", "print"} /\ offset \in Nat /\ ept \in Nat
      /\ limit \in Nat \cup {-1} /\ limitCopy \in Int
  BY <1>0, <1>1, DatabasesTyped, AdminAssumption DEF AdminTypeOK, Steps, Ending
<1>4. /\ pc' \in {"finish", "next", "save", "purge"} /\ (pc' = "finish" <=> ~(r.ok /\ idents # {}))
      /\ pc' = "next" <=> command \in {"copy", "move"} /\ pc' # "finish"
  BY <1>2, <1>3 DEF AfterFetch, PageStart
<1> HIDE DEF idents
<1>5. SourceAt(d)'
  <2>1. CASE command = "move"
    <3>1. dbs["src"] = Settled(Removed(Everything, Span(offset, d))) /\ offset <= d
      BY <1>0, <1>1, <2>1 DEF SourceAt, InPage
    <3>2. tbl' = Span(d, d)
      BY <1>1, SpanEmpty
    <3> QED BY <1>1, <1>2, <1>3, <2>1, <3>1, <3>2 DEF SourceAt
  <2>2. CASE command # "move"
    BY <1>0, <1>1, <1>2, <2>2, SourceKept
  <2> QED BY <2>1, <2>2
<1>6. DeletedAt(d)'
  BY <1>0, <1>1, <1>2 DEF DeletedAt
<1>7. PageAt(d)'
  <2> SUFFICES ASSUME command = "delete" => "commit" \notin Faulty PROVE PageAt(d)'
    BY <1>1 DEF PageAt
  <2>1. idents = Span(d, d + LocalLimit) /\ LocalLimit \in Nat
    BY <1>1, PageIs DEF idents
  <2>2. PICK b \in Nat : /\ d <= b /\ b <= d + LocalLimit /\ (b = d \/ b <= NMessages) /\ idents = Span(d, b)
    BY <2>1, SpanBounded
  <2>3. Cardinality(idents) = b - d
    BY <2>2, SpanCounted
  <2>4. CASE r.ok
    <3>1. page' = Span(d, b) /\ limitCopy' = IF limitCopy > 0 THEN limitCopy - (b - d) ELSE limitCopy
      BY <2>2, <2>3, <2>4 DEF LimitLeft
    <3>2. limit >= 0 /\ ~stop => b + limitCopy' = offset + limit
      <4> SUFFICES ASSUME limit >= 0, ~stop PROVE b + limitCopy' = offset + limit
        OBVIOUS
      <4>1. d + limitCopy = offset + limit
        BY <1>0, <1>1, <1>3 DEF PageAt, Ending
      <4>2. limitCopy >= 0
        BY <1>0 DEF LimitInv
      <4>3. limitCopy = 0 => b = d
        BY <1>3, <2>2 DEF LocalLimit
      <4> QED BY <1>3, <2>2, <3>1, <4>1, <4>2, <4>3
    <3>3. (pc' = "finish" \/ pc' \in {"next", "save", "purge"}) /\ pc' \notin {"insert", "start", "fetch", "loop", "leftover"}
      BY <1>4
    <3> QED BY <1>1, <2>2, <3>1, <3>2, <3>3 DEF PageAt
  <2>5. CASE ~r.ok
    <3>1. pc' = "finish"
      BY <1>4, <2>5
    <3> QED BY <3>1, <1>1 DEF PageAt, Ending
  <2> QED BY <1>2, <2>4, <2>5
<1>8. CountAt(d)'
  BY <1>0, <1>1, <1>4, CountKept
<1>9. WorkAt(d)'
  BY <1>0, <1>1, <1>2, <1>4, WorkKept DEF Ending
<1>10. EndAt(d)'
  <2> SUFFICES ASSUME pc' = "finish", ~failed', ~stop', ept # 0, command = "delete" => "commit" \notin Faulty
               PROVE  Upto(d) = Asked
    BY <1>1, <1>4 DEF EndAt
  <2>1. idents = {}
    BY <1>2, <1>4
  <2>2. Span(d, d + LocalLimit) = {}
    BY <1>1, <2>1, PageIs DEF idents
  <2> QED BY <1>1, <2>2, LastPage
<1> QED BY <1>0, <1>1, <1>3, <1>5, <1>6, <1>7, <1>8, <1>9, <1>10, Aside DEF Frontier

\* requiemdb_result_idents_get_next and get_message.
LEMMA GetFrontier == ASSUME Known, NEW d \in Nat, Frontier(d), GetMessage PROVE Frontier(d)'
<1> PICK r \in Affordable(ReadOnly(dbs["src"], "get")) :
      /\ Answered("src", r)
      /\ failed' = ~r.ok
      /\ pc' = IF r.ok THEN "insert" ELSE "finish"
  BY DEF GetMessage
<1>0. /\ AdminTypeOK /\ ~failed
      /\ Position(d) /\ SourceAt(d) /\ PageAt(d) /\ CountAt(d) /\ WorkAt(d)
  BY DEF Known, FlowInv, Frontier, GetMessage
<1>1. /\ UNCHANGED <<options, curCount, eventNo, stop, tbl, limitCopy>> /\ pc = "next" /\ command' = command
      /\ page # {} /\ current' = Lowest(page) /\ page' = page \ {Lowest(page)}
      /\ offset' = offset /\ limit' = limit
  BY OptionsFixed DEF GetMessage
<1>2. dbs' = dbs /\ r.ok \in BOOLEAN
  BY <1>0, ReadsLeave
<1>3. command \in {"copy", "move"}
  BY <1>0, <1>1, DatabasesTyped DEF AdminTypeOK, Steps, Ending
<1>4. pc' \in {"insert", "finish"} /\ (pc' = "finish" <=> failed')
  BY <1>2
<1>5. SourceAt(d)'
  <2>1. CASE command = "move"
    <3>1. PICK e \in Nat : /\ offset <= e /\ e <= d /\ tbl = Span(e, d)
                           /\ dbs["src"] = Settled(Removed(Everything, Span(offset, e)))
      BY <1>0, <1>1, <2>1 DEF SourceAt, InPage
    <3>2. pc' \notin InPage => failed'
      BY <1>4 DEF InPage
    <3> QED BY <1>1, <1>2, <2>1, <3>1, <3>2 DEF SourceAt
  <2>2. CASE command # "move"
    BY <1>0, <1>1, <1>2, <2>2, SourceKept
  <2> QED BY <2>1, <2>2
<1>6. PageAt(d)'
  <2>1. PICK b \in Nat : /\ d <= b /\ (b = d \/ b <= NMessages) /\ page = Span(d, b)
                         /\ ~stop /\ limit >= 0 => b + limitCopy = offset + limit
    BY <1>0, <1>1, <1>3 DEF PageAt, Ending
  <2>2. current' = d + 1 /\ d + 1 <= b /\ page' = Span(d + 1, b)
    BY <1>1, <2>1, SpanFirst
  <2>3. pc' \in {"insert", "finish"} /\ (pc' = "finish" => failed')
    BY <1>4
  <2> QED BY <1>1, <1>3, <2>1, <2>2, <2>3 DEF PageAt, Ending
<1>7. CountAt(d)'
  BY <1>0, <1>1, <1>4, CountKept
<1>8. WorkAt(d)'
  BY <1>0, <1>1, <1>2, <1>4, WorkKept DEF Ending
<1>9. EndAt(d)'
  BY <1>1, <1>4, Aside
<1> QED BY <1>0, <1>1, <1>3, <1>5, <1>6, <1>7, <1>8, <1>9, Aside DEF Frontier

\* The end of a page, or an error of requiemdb_result_idents_get_next.
LEMMA EndPageFrontier == ASSUME Known, NEW d \in Nat, Frontier(d), EndPage PROVE Frontier(d)'
<1> PICK r \in Affordable(ReadOnly(dbs["src"], "row")) :
      /\ page = {} \/ ~r.ok
      /\ Answered("src", r)
      /\ failed' = ~r.ok
  BY DEF EndPage
<1>0. AdminTypeOK /\ ~failed /\ Position(d) /\ SourceAt(d) /\ PageAt(d) /\ CountAt(d) /\ WorkAt(d)
  BY DEF Known, FlowInv, Frontier, EndPage
<1>1. /\ UNCHANGED <<options, curCount, eventNo, stop, tbl, limitCopy>> /\ pc = "next" /\ command' = command
      /\ page' = {} /\ pc' \in {"flush_end", "leftover"} /\ offset' = offset /\ limit' = limit
  BY OptionsFixed DEF EndPage
<1>2. dbs' = dbs /\ r.ok \in BOOLEAN
  BY <1>0, ReadsLeave
<1>3. command \in {"copy", "move"}
  BY <1>0, <1>1, DatabasesTyped DEF AdminTypeOK, Steps, Ending
<1>4. SourceAt(d)'
  BY <1>0, <1>1, <1>2, TableKept DEF InPage
<1>5. PageAt(d)'
  <2>1. PICK b \in Nat : /\ d <= b /\ (b = d \/ b <= NMessages) /\ page = Span(d, b)
                         /\ ~stop /\ limit >= 0 => b + limitCopy = offset + limit
    BY <1>0, <1>1, <1>3 DEF PageAt, Ending
  <2>2. ~failed' => b = d
    BY <1>2, <2>1, SpanEmpty
  <2>3. page' = Span(d, d)
    BY <1>1, SpanEmpty
  <2> QED BY <1>1, <1>3, <2>1, <2>2, <2>3 DEF PageAt
<1>6. CountAt(d)'
  BY <1>0, <1>1, CountKept
<1>7. WorkAt(d)'
  BY <1>0, <1>1, <1>2, WorkKept DEF Ending
<1> QED BY <1>0, <1>1, <1>3, <1>4, <1>5, <1>6, <1>7, Aside DEF Frontier

\* The end of a page of save and print.
LEMMA SaveDoneFrontier ==
  ASSUME "save" \notin Faulty, Known, NEW d \in Nat, Frontier(d), SaveDone
  PROVE  Frontier(d)'
<1> DEFINE kind == IF command = "save" THEN "save" ELSE "row"
<1> PICK r \in Affordable(ReadOnly(dbs["src"], kind)) :
      /\ IF stop THEN r.ok ELSE page = {} \/ ~r.ok
      /\ Answered("src", r)
      /\ failed' = (command = "print" /\ ~r.ok)
  BY DEF SaveDone
<1>0. AdminTypeOK /\ ~failed /\ Position(d) /\ SourceAt(d) /\ PageAt(d) /\ CountAt(d) /\ WorkAt(d)
  BY DEF Known, FlowInv, Frontier, SaveDone
<1>1. /\ UNCHANGED <<options, curCount, eventNo, stop, limitCopy>> /\ pc = "save" /\ command' = command
      /\ pc' = "loop" /\ offset' = offset /\ limit' = limit
  BY OptionsFixed DEF SaveDone
<1>2. dbs' = dbs /\ r.ok \in BOOLEAN
  BY <1>0, ReadsLeave
<1>3. command \in {"save", "print"}
  BY <1>0, <1>1, DatabasesTyped DEF AdminTypeOK, Steps, Ending
<1>4. ~stop /\ ~failed' => page = {}
  <2>1. CASE command = "print"
    BY <1>2, <2>1
  <2>2. CASE command = "save"
    <3>1. r \in ReadOnly(dbs["src"], "save")
      BY <2>2, AffordableReply
    <3>2. r = Reply(dbs["src"], TRUE, 0)
      BY <3>1 DEF ReadOnly, Fault
    <3>3. r.ok
      BY <3>2 DEF Reply
    <3> QED BY <3>3
  <2> QED BY <1>3, <2>1, <2>2
<1>5. SourceAt(d)'
  BY <1>0, <1>1, <1>2, <1>3, SourceKept
<1>6. PageAt(d)'
  <2>1. PICK b \in Nat : /\ d <= b /\ (b = d \/ b <= NMessages) /\ page = Span(d, b)
                         /\ ~stop /\ limit >= 0 => b + limitCopy = offset + limit
    BY <1>0, <1>1, <1>3 DEF PageAt, Ending
  <2>2. ~stop /\ ~failed' => b = d
    BY <1>4, <2>1, SpanEmpty
  <2> QED BY <1>1, <1>3, <2>1, <2>2 DEF PageAt
<1>7. CountAt(d)'
  BY <1>0, <1>1, CountKept
<1>8. WorkAt(d)'
  BY <1>0, <1>1, <1>2, WorkKept DEF Ending
<1> QED BY <1>0, <1>1, <1>3, <1>5, <1>6, <1>7, <1>8, Aside DEF Frontier

\* The condition of the loop.
LEMMA LoopFrontier == ASSUME Known, NEW d \in Nat, Frontier(d), Loop PROVE Frontier(d)'
<1>0. AdminTypeOK /\ Position(d) /\ SourceAt(d) /\ DeletedAt(d) /\ PageAt(d) /\ CountAt(d) /\ WorkAt(d)
  BY DEF Known, Frontier
<1>1. /\ UNCHANGED <<options, curCount, eventNo, stop, failed, limitCopy, page, tbl, dbs>> /\ pc = "loop"
      /\ command' = command /\ offset' = offset /\ limit' = limit /\ \A s : Upto(s)' = Upto(s)
  BY OptionsFixed DEF Loop
<1>2. pc' \in {"finish", "fetch"} /\ (pc' = "finish" => failed \/ stop)
  BY DEF Loop
<1>3. command \in {"copy", "move", "save", "print", "delete"}
  BY <1>0, <1>1, DatabasesTyped DEF AdminTypeOK, Steps, Ending
<1>4. SourceAt(d)'
  BY <1>0, <1>1, <1>2, TableKept DEF InPage
<1>5. DeletedAt(d)'
  BY <1>0, <1>1 DEF DeletedAt
<1>6. PageAt(d)'
  <2>1. /\ \/ command = "delete" /\ "commit" \in Faulty
           \/ ~stop /\ ~failed /\ limit >= 0 => d + limitCopy = offset + limit
    BY <1>0, <1>1, <1>3 DEF PageAt, Ending
  <2> QED BY <1>1, <1>2, <2>1 DEF PageAt, Ending
<1>7. CountAt(d)'
  BY <1>0, <1>1, <1>2, CountKept
<1>8. WorkAt(d)'
  BY <1>0, <1>1, <1>2, WorkKept DEF Ending
<1>9. EndAt(d)'
  BY <1>1, <1>2, Aside
<1> QED BY <1>0, <1>1, <1>3, <1>4, <1>5, <1>6, <1>7, <1>8, <1>9, Aside DEF Frontier

\* The messages of delete_tbl are those between what is gone from the source and the
\* frontier: deleting them brings the source to the frontier, or leaves it.
LEMMA TableDeleted ==
  ASSUME Known, NEW d \in Nat, Frontier(d), command = "move", pc \in InPage,
         NEW r \in DeleteMessages(dbs["src"], tbl, "delete")
  PROVE  /\ IsReply(r)
         /\ r.ok => r.db = Settled(Removed(Everything, Span(offset, d)))
         /\ ~r.ok => r.db = dbs["src"]
<1>0. AdminTypeOK /\ SourceAt(d) /\ dbs["src"] \in Databases /\ offset \in Nat
  BY DatabasesTyped DEF Known, Frontier
<1>1. PICK e \in Nat : /\ offset <= e /\ e <= d /\ tbl = Span(e, d)
                       /\ dbs["src"] = Settled(Removed(Everything, Span(offset, e)))
  BY <1>0 DEF SourceAt
<1>2. Everything \in Contents /\ Removed(Everything, Span(offset, e)) \in Contents
  BY DEF Everything, Removed, Contents, States
<1>3. dbs["src"].tx = "none" /\ dbs["src"].work = Removed(Everything, Span(offset, e))
  BY <1>1, <1>2, SettledFields
<1>4. Removed(dbs["src"].work, tbl) = Removed(Everything, Span(offset, d))
  <2>1. \A i \in Idents : i \in Span(offset, d) <=> i \in Span(offset, e) \/ i \in Span(e, d)
    BY <1>0, <1>1, IdentNumbers DEF Span
  <2> QED BY <1>1, <1>3, <2>1 DEF Removed, Everything
<1>5. IsReply(r) /\ (r.ok => r.db = Changed(dbs["src"], Removed(dbs["src"].work, tbl)))
      /\ (~r.ok => r.db \in Broken(dbs["src"], tbl))
  BY <1>0, <1>3, DeleteReply
<1>6. Changed(dbs["src"], Removed(dbs["src"].work, tbl)) = Settled(Removed(Everything, Span(offset, d)))
  BY <1>3, <1>4 DEF Changed
<1>7. ~r.ok => r.db = dbs["src"]
  BY <1>3, <1>5 DEF Broken
<1> QED BY <1>5, <1>6, <1>7

\* A deletion from the source is no business of the destination.
LEMMA WorkApart ==
  ASSUME NEW d \in Nat, WorkAt(d), UNCHANGED <<options, curCount>>, dbs'["dst"] = dbs["dst"],
         command # "delete", pc \notin Ending, pc' \notin {"flush_start", "done"}
  PROVE  WorkAt(d)'
<1>1. command' = command /\ Target' = Target /\ \A s : Upto(s)' = Upto(s)
  BY OptionsFixed
<1>2. ~Over
  BY DEF Over
<1> QED BY <1>1, <1>2 DEF WorkAt

\* delete_tbl is full.
LEMMA EvictFrontier == ASSUME Known, NEW d \in Nat, Frontier(d), Evict PROVE Frontier(d)'
<1> PICK r \in Affordable(DeleteMessages(dbs["src"], tbl, "delete")) :
      /\ Answered("src", r)
      /\ tbl' = IF r.ok THEN {} ELSE tbl
      /\ pc' = IF r.ok THEN "count" ELSE "next"
  BY DEF Evict
<1>0. AdminTypeOK /\ ~failed /\ Position(d) /\ SourceAt(d) /\ PageAt(d) /\ WorkAt(d)
  BY DEF Known, FlowInv, Frontier, Evict
<1>1. /\ UNCHANGED <<options, curCount, eventNo, stop, limitCopy, page, failed>> /\ pc = "evict"
      /\ command' = command /\ offset' = offset /\ limit' = limit
  BY OptionsFixed DEF Evict
<1>2. command = "move" /\ offset \in Nat
  BY <1>0, <1>1, DatabasesTyped DEF AdminTypeOK, Steps, Ending
<1>3. /\ IsReply(r) /\ r.ok \in BOOLEAN
      /\ r.ok => r.db = Settled(Removed(Everything, Span(offset, d)))
      /\ ~r.ok => r.db = dbs["src"]
  BY <1>1, <1>2, AffordableReply, TableDeleted DEF InPage, IsReply
<1>4. dbs'["src"] = r.db /\ dbs'["dst"] = dbs["dst"]
  BY <1>0, <1>3, AnsweredTyped
<1>5. pc' \in {"count", "next"}
  OBVIOUS
<1>6. SourceAt(d)'
  <2>1. CASE r.ok
    <3>1. tbl' = Span(d, d)
      BY <2>1, SpanEmpty
    <3>2. dbs'["src"] = Settled(Removed(Everything, Span(offset, d))) /\ offset <= d
      BY <1>0, <1>2, <1>3, <1>4, <2>1 DEF Position
    <3> QED BY <1>1, <1>2, <3>1, <3>2 DEF SourceAt
  <2>2. CASE ~r.ok
    <3>1. tbl' = tbl /\ dbs'["src"] = dbs["src"]
      BY <1>3, <1>4, <2>2
    <3> QED BY <1>0, <1>1, <1>4, <1>5, <3>1, TableKept DEF InPage
  <2> QED BY <1>3, <2>1, <2>2
<1>7. PageAt(d)'
  BY <1>0, <1>1, <1>2, <1>5 DEF PageAt, Ending
<1>8. WorkAt(d)'
  BY <1>0, <1>1, <1>2, <1>4, <1>5, WorkApart DEF Ending
<1>9. EndAt(d)'
  BY <1>1, <1>5, Aside
<1> QED BY <1>0, <1>1, <1>2, <1>6, <1>7, <1>8, <1>9, Aside DEF Frontier

\* The rest of delete_tbl, after the page.
LEMMA LeftoverFrontier == ASSUME Known, NEW d \in Nat, Frontier(d), Leftover PROVE Frontier(d)'
<1> PICK r \in IF tbl = {} THEN {Reply(dbs["src"], TRUE, 0)}
                           ELSE Affordable(DeleteMessages(dbs["src"], tbl, "delete")) :
      /\ Answered("src", r)
      /\ failed' = (failed \/ ~r.ok)
  BY DEF Leftover
<1>0. AdminTypeOK /\ Position(d) /\ SourceAt(d) /\ PageAt(d) /\ CountAt(d) /\ WorkAt(d) /\ PageInv /\ failed \in BOOLEAN
  BY DEF Known, Frontier, AdminTypeOK
<1>1. /\ UNCHANGED <<options, curCount, eventNo, stop, limitCopy, page>> /\ pc = "leftover" /\ pc' = "loop"
      /\ command' = command /\ offset' = offset /\ limit' = limit
  BY OptionsFixed DEF Leftover
<1>2. command \in {"copy", "move"} /\ offset \in Nat /\ dbs["src"] \in Databases
  BY <1>0, <1>1, DatabasesTyped DEF AdminTypeOK, Steps, Ending
<1>3. /\ IsReply(r) /\ (command # "move" => r.db = dbs["src"])
      /\ command = "move" /\ r.ok => r.db = Settled(Removed(Everything, Span(offset, d)))
      /\ command = "move" /\ ~r.ok => r.db = dbs["src"]
  <2>1. CASE tbl = {}
    <3>1. r.db = dbs["src"] /\ r.ok /\ IsReply(r)
      <4>1. r = Reply(dbs["src"], TRUE, 0)
        BY <2>1
      <4> QED BY <1>2, <4>1 DEF Reply, IsReply
    <3>2. command = "move" => dbs["src"] = Settled(Removed(Everything, Span(offset, d)))
      <4> SUFFICES ASSUME command = "move" PROVE dbs["src"] = Settled(Removed(Everything, Span(offset, d)))
        OBVIOUS
      <4>1. PICK e \in Nat : /\ offset <= e /\ e <= d /\ tbl = Span(e, d)
                             /\ dbs["src"] = Settled(Removed(Everything, Span(offset, e)))
        BY <1>0, <1>1 DEF SourceAt, InPage
      <4>2. d = e \/ d <= NMessages
        BY <1>0, <1>2, <4>1 DEF Position
      <4>3. e = d
        BY <2>1, <4>1, <4>2, SpanEmpty
      <4> QED BY <4>1, <4>3
    <3> QED BY <3>1, <3>2
  <2>2. CASE tbl # {}
    <3>1. command = "move"
      BY <1>0, <2>2 DEF PageInv
    <3>2. r \in DeleteMessages(dbs["src"], tbl, "delete")
      BY <2>2, AffordableReply
    <3>3. pc \in InPage
      BY <1>1 DEF InPage
    <3> QED BY <3>1, <3>2, <3>3, TableDeleted
  <2> QED BY <2>1, <2>2
<1>4. dbs'["src"] = r.db /\ dbs'["dst"] = dbs["dst"] /\ r.ok \in BOOLEAN
  BY <1>0, <1>3, AnsweredTyped DEF IsReply
<1>5. SourceAt(d)'
  <2>1. CASE command = "move" /\ r.ok
    <3>1. dbs'["src"] = Settled(Removed(Everything, Span(offset, d))) /\ offset <= d
      BY <1>0, <1>2, <1>3, <1>4, <2>1 DEF Position
    <3> QED BY <1>1, <1>2, <2>1, <3>1 DEF SourceAt, InPage
  <2>2. CASE command = "move" /\ ~r.ok
    <3>1. dbs'["src"] = dbs["src"] /\ failed'
      BY <1>3, <1>4, <2>2
    <3>2. PICK e \in Nat : /\ offset <= e /\ e <= d
                           /\ dbs["src"] = Settled(Removed(Everything, Span(offset, e)))
      BY <1>0, <2>2 DEF SourceAt
    <3> QED BY <1>1, <1>2, <2>2, <3>1, <3>2 DEF SourceAt, InPage
  <2>3. CASE command # "move"
    BY <1>0, <1>1, <1>2, <1>3, <1>4, <2>3, SourceKept
  <2> QED BY <1>4, <2>1, <2>2, <2>3
<1>6. PageAt(d)'
  <2>1. ~stop /\ ~failed /\ limit >= 0 => d + limitCopy = offset + limit
    BY <1>0, <1>1, <1>2 DEF PageAt, Ending
  <2>2. ~failed' => ~failed
    BY <1>0
  <2> QED BY <1>1, <2>1, <2>2 DEF PageAt
<1>7. CountAt(d)'
  BY <1>0, <1>1, CountKept
<1>8. WorkAt(d)'
  BY <1>0, <1>1, <1>2, <1>4, WorkApart DEF Ending
<1>9. EndAt(d)'
  BY <1>1, Aside
<1> QED BY <1>0, <1>1, <1>2, <1>5, <1>6, <1>7, <1>8, <1>9, Aside DEF Frontier

\* flush_transaction_if_needed after a message, up to its transaction_end.
LEMMA CountFrontier == ASSUME Known, NEW d \in Nat, Frontier(d), Count PROVE Frontier(d)'
<1>0. /\ AdminTypeOK /\ ~failed /\ PagesInv
      /\ Position(d) /\ SourceAt(d) /\ PageAt(d) /\ FileAt(d) /\ CountAt(d) /\ WorkAt(d)
  BY DEF Known, FlowInv, Frontier, Count
<1>1. /\ UNCHANGED <<options, curCount, stop, limitCopy, page, failed, tbl, dbs, files, toSkip, current>>
      /\ pc = "count" /\ command' = command /\ offset' = offset /\ limit' = limit /\ ept' = ept
      /\ firstFile' = firstFile /\ Upto(d)' = Upto(d)
  BY OptionsFixed DEF Count
<1>2. command \in {"copy", "move", "load"} /\ ept \in Nat /\ eventNo \in Nat /\ curCount \in Nat
  BY <1>0, <1>1, DatabasesTyped DEF AdminTypeOK, Steps, Ending
<1>3. after = IF command = "load" THEN "read" ELSE "next"
  BY <1>0, <1>1, <1>2 DEF AdminTypeOK, Returns
<1>4. pc' \in {"flush_end", IF command = "load" THEN "read" ELSE "next"}
  BY <1>3 DEF Count, Counted
<1>5. SourceAt(d)'
  <2>1. CASE command = "load"
    BY <1>0, <1>1, <2>1, SourceKept
  <2>2. CASE command # "load"
    BY <1>0, <1>1, <1>4, <2>2, TableKept DEF InPage
  <2> QED BY <2>1, <2>2
<1>6. PageAt(d)'
  BY <1>0, <1>1, <1>2, <1>4 DEF PageAt, Ending
<1>7. FileAt(d)'
  <2>1. Files' = Files /\ FileBegin' = FileBegin /\ FileEnd' = FileEnd
    BY <1>1, OptionsFixed DEF FileBegin, FileEnd
  <2> QED BY <1>0, <1>1, <1>4, <2>1 DEF FileAt
<1>8. CountAt(d)'
  <2>1. ept # 0 => Handled' = Handled
    <3>1. ept # 0 => eventNo' = eventNo + 1
      BY DEF Count, Counted
    <3>2. pc' # "count" /\ pc = "count" /\ curCount' = curCount
      BY <1>1, <1>4
    <3> QED BY <1>2, <3>1, <3>2 DEF Handled
  <2>2. ept = 0 => eventNo' = eventNo
    BY DEF Count, Counted
  <2>3. command = "copy" => ept # 0
    BY <1>0, <1>1, <1>2 DEF PagesInv
  <2>4. pc = "count" /\ pc' \notin {"destroy", "done", "aborted"}
    BY <1>1, <1>4
  <2> QED BY <1>0, <1>1, <1>2, <2>1, <2>2, <2>3, <2>4 DEF CountAt
<1>9. WorkAt(d)'
  BY <1>0, <1>1, <1>4, WorkKept DEF Ending
<1>10. EndAt(d)'
  BY <1>1, <1>4, Aside
<1> QED BY <1>0, <1>1, <1>2, <1>5, <1>6, <1>7, <1>8, <1>9, <1>10, Aside DEF Frontier

\* requiemdb_transaction_end on the destination keeps what is up to the frontier.
LEMMA EndedWork ==
  ASSUME Known, NEW d \in Nat, WorkAt(d), command # "delete", ~Over, NEW r \in TransactionEnd(dbs["dst"])
  PROVE  /\ IsReply(r) /\ r.db.tx = "none" /\ r.db.work = r.db.stored
         /\ \A i \in Idents : r.db.work[i] # "twice"
         /\ Present(r.db.work) \subseteq Upto(d)
         /\ "commit" \notin Faulty => Present(r.db.work) = Upto(d)
<1>0. /\ dbs["dst"] \in Databases /\ (dbs["dst"].tx = "none" => dbs["dst"].work = dbs["dst"].stored)
      /\ dbs["dst"].tx \in {"none", "open", "failed"} /\ dbs["dst"].work \in Contents
      /\ dbs["dst"].stored \in Contents
  BY DatabasesTyped DEF Known, TxInv, Consistent, Databases
<1>1. /\ \A i \in Idents : dbs["dst"].work[i] # "twice" /\ dbs["dst"].stored[i] # "twice"
      /\ Present(dbs["dst"].work) \subseteq Upto(d) /\ Present(dbs["dst"].stored) \subseteq Upto(d)
      /\ "commit" \notin Faulty => Present(dbs["dst"].work) = Upto(d) /\ dbs["dst"].tx # "failed"
  BY DEF WorkAt
<1>2. /\ IsReply(r)
      /\ dbs["dst"].tx = "none" => r.db = dbs["dst"]
      /\ dbs["dst"].tx # "none" => r.db \in {Settled(dbs["dst"].work), Settled(dbs["dst"].stored)}
      /\ dbs["dst"].tx = "open" /\ "commit" \notin Faulty => r.db = Settled(dbs["dst"].work)
  BY <1>0, EndReply
<1>3. CASE dbs["dst"].tx = "none"
  BY <1>0, <1>1, <1>2, <1>3
<1>4. CASE r.db = Settled(dbs["dst"].work)
  BY <1>0, <1>1, <1>2, <1>4, SettledFields
<1>5. CASE r.db = Settled(dbs["dst"].stored) /\ dbs["dst"].tx # "none"
  BY <1>0, <1>1, <1>2, <1>5, SettledFields
<1> QED BY <1>2, <1>3, <1>4, <1>5

\* ... and on the source of delete, what is gone up to the frontier.
LEMMA EndedDelete ==
  ASSUME Known, NEW d \in Nat, DeletedAt(d), command = "delete", "commit" \notin Faulty,
         NEW r \in TransactionEnd(dbs["src"])
  PROVE  /\ r.db.tx = "none" /\ r.db.work = r.db.stored
         /\ \E s \in Nat : Gone(r.db.stored) = Upto(s)
         /\ ~failed => Gone(r.db.work) = Upto(d)
<1>0. /\ dbs["src"] \in Databases /\ (dbs["src"].tx = "none" => dbs["src"].work = dbs["src"].stored)
      /\ dbs["src"].tx \in {"none", "open", "failed"} /\ dbs["src"].work \in Contents
      /\ dbs["src"].stored \in Contents
  BY DatabasesTyped DEF Known, TxInv, Consistent, Databases
<1>1. /\ \E s \in Nat : Gone(dbs["src"].stored) = Upto(s)
      /\ \E w \in Nat : Gone(dbs["src"].work) = Upto(w)
      /\ ~failed => Gone(dbs["src"].work) = Upto(d) /\ dbs["src"].tx # "failed"
  BY DEF DeletedAt
<1>2. /\ IsReply(r)
      /\ dbs["src"].tx = "none" => r.db = dbs["src"]
      /\ dbs["src"].tx # "none" => r.db \in {Settled(dbs["src"].work), Settled(dbs["src"].stored)}
      /\ dbs["src"].tx = "open" => r.db = Settled(dbs["src"].work)
  BY <1>0, EndReply
<1>3. CASE dbs["src"].tx = "none"
  BY <1>0, <1>1, <1>2, <1>3
<1>4. CASE r.db = Settled(dbs["src"].work)
  BY <1>0, <1>1, <1>2, <1>4, SettledFields
<1>5. CASE r.db = Settled(dbs["src"].stored) /\ dbs["src"].tx # "none" /\ dbs["src"].tx # "open"
  BY <1>0, <1>1, <1>2, <1>5, SettledFields
<1> QED BY <1>2, <1>3, <1>4, <1>5

\* requiemdb_transaction_start changes nothing of what a database has.
LEMMA StartedWork ==
  ASSUME Known, NEW x \in {"src", "dst"}, NEW r \in TransactionStart(dbs[x])
  PROVE  /\ IsReply(r) /\ r.db.work = dbs[x].work /\ r.db.stored = dbs[x].stored
         /\ r.db.tx = "failed" => dbs[x].tx = "failed"
<1>0. dbs[x] \in Databases /\ (dbs[x].tx = "none" => dbs[x].work = dbs[x].stored) /\ dbs[x].stored \in Contents
  BY DatabasesTyped DEF Known, TxInv, Consistent, Databases
<1>1. IsReply(r) /\ (r.db = dbs[x] \/ (dbs[x].tx = "none" /\ r.db = Database("open", dbs[x].stored, dbs[x].stored)))
  BY <1>0, StartReply
<1> QED BY <1>0, <1>1, DatabaseFields

\* A program that counts a message has one: the frontier is past what it has counted.
LEMMA Reached ==
  ASSUME Known, NEW d \in Nat, CountAt(d), command \notin {"move", "delete"}, pc \notin {"destroy", "done", "aborted"}
  PROVE  Cardinality(Upto(d)) >= curCount + (IF command = "load" /\ ept = 0 THEN 0 ELSE eventNo)
<1>0. curCount \in Nat /\ eventNo \in Nat /\ Cardinality(Upto(d)) \in Nat
  BY UptoTyped DEF Known, AdminTypeOK
<1>1. CASE command = "load" /\ ept = 0
  BY <1>0, <1>1 DEF CountAt
<1>2. CASE ~(command = "load" /\ ept = 0)
  BY <1>0, <1>2 DEF CountAt, Handled
<1> QED BY <1>1, <1>2

\* transaction_start.
LEMMA StartFrontier == ASSUME Known, NEW d \in Nat, Frontier(d), Start PROVE Frontier(d)'
<1> PICK r \in IF HasTransaction THEN Affordable(TransactionStart(dbs[Target]))
                                 ELSE {Reply(dbs[Target], TRUE, 0)} :
      Answered(Target, r)
  BY DEF Start
<1>0. /\ AdminTypeOK /\ ~failed /\ Target \in {"src", "dst"}
      /\ Position(d) /\ SourceAt(d) /\ DeletedAt(d) /\ PageAt(d) /\ FileAt(d) /\ CountAt(d) /\ WorkAt(d)
  BY DatabasesTyped DEF Known, FlowInv, Frontier, Start
<1>1. /\ UNCHANGED <<options, curCount, eventNo, stop, failed, limitCopy, tbl, files>> /\ pc = "start"
      /\ command' = command /\ offset' = offset /\ limit' = limit /\ firstFile' = firstFile /\ Files' = Files
      /\ Target' = Target /\ \A s : Upto(s)' = Upto(s)
  BY OptionsFixed DEF Start
<1>2. pc' = IF command = "load" THEN "open" ELSE "fetch"
  BY DEF Start
<1>3. /\ IsReply(r) /\ r.db.work = dbs[Target].work /\ r.db.stored = dbs[Target].stored
      /\ r.db.tx = "failed" => dbs[Target].tx = "failed"
  <2>1. CASE HasTransaction
    <3>1. r \in TransactionStart(dbs[Target])
      BY <2>1, AffordableReply
    <3> QED BY <1>0, <3>1, StartedWork
  <2>2. CASE ~HasTransaction
    <3>1. r = Reply(dbs[Target], TRUE, 0) /\ dbs[Target] \in Databases
      BY <1>0, <2>2, DatabasesTyped
    <3> QED BY <3>1 DEF Reply, IsReply
  <2> QED BY <2>1, <2>2
<1>4. dbs'[Target] = r.db /\ \A y \in {"src", "dst"} \ {Target} : dbs'[y] = dbs[y]
  BY <1>0, <1>3, AnsweredTyped
<1>5. /\ command = "delete" => dbs'["dst"] = dbs["dst"] /\ dbs'["src"] = r.db /\ Target = "src"
      /\ command # "delete" => dbs'["src"] = dbs["src"] /\ dbs'["dst"] = r.db /\ Target = "dst"
  BY <1>4 DEF Target
<1>6. SourceAt(d)'
  <2>1. CASE command = "move"
    BY <1>0, <1>1, <1>2, <1>5, <2>1, TableKept DEF InPage
  <2>2. CASE command # "move"
    BY <1>0, <1>1, <1>5, <2>2, SourceKept
  <2> QED BY <2>1, <2>2
<1>7. DeletedAt(d)'
  BY <1>0, <1>1, <1>3, <1>5 DEF DeletedAt
<1>8. PageAt(d)'
  <2>1. \/ command = "load" \/ (command = "delete" /\ "commit" \in Faulty)
        \/ ~stop /\ ~failed /\ limit >= 0 => d + limitCopy = offset + limit
    BY <1>0, <1>1 DEF PageAt, Ending
  <2> QED BY <1>1, <1>2, <2>1 DEF PageAt
<1>9. FileAt(d)'
  BY <1>0, <1>1, <1>2 DEF FileAt
<1>10. CountAt(d)'
  BY <1>0, <1>1, <1>2, CountKept
<1>11. WorkAt(d)'
  <2>1. ~Over /\ ~Over' /\ pc' \notin {"flush_start", "done"}
    BY <1>1, <1>2 DEF Over, Ending
  <2>2. /\ dbs'["dst"].work = dbs["dst"].work /\ dbs'["dst"].stored = dbs["dst"].stored
        /\ dbs'["dst"].tx = "failed" => dbs["dst"].tx = "failed"
    BY <1>3, <1>5
  <2> QED BY <1>0, <1>1, <2>1, <2>2 DEF WorkAt
<1>12. EndAt(d)'
  BY <1>1, <1>2, Aside
<1> QED BY <1>0, <1>1, <1>6, <1>7, <1>8, <1>9, <1>10, <1>11, <1>12, Aside DEF Frontier

\* transaction_end in flush_transaction_if_needed.
LEMMA FlushEndFrontier == ASSUME Known, NEW d \in Nat, Frontier(d), FlushEnd PROVE Frontier(d)'
<1> PICK r \in Affordable(TransactionEnd(dbs[Target])) : Answered(Target, r)
  BY DEF FlushEnd
<1>0. /\ AdminTypeOK /\ Target \in {"src", "dst"} /\ ept # 0
      /\ Position(d) /\ SourceAt(d) /\ DeletedAt(d) /\ PageAt(d) /\ FileAt(d) /\ CountAt(d) /\ WorkAt(d)
  BY DatabasesTyped DEF Known, TxInv, Frontier, FlushEnd
<1>1. /\ UNCHANGED <<options, curCount, eventNo, stop, failed, limitCopy, tbl, files, page, toSkip, current, after>>
      /\ pc = "flush_end" /\ pc' = "flush_start"
      /\ command' = command /\ offset' = offset /\ limit' = limit /\ firstFile' = firstFile /\ Files' = Files
      /\ Target' = Target /\ \A s : Upto(s)' = Upto(s)
  BY OptionsFixed DEF FlushEnd
<1>2. r \in TransactionEnd(dbs[Target])
  BY AffordableReply
<1>3. IsReply(r) /\ dbs'[Target] = r.db /\ \A y \in {"src", "dst"} \ {Target} : dbs'[y] = dbs[y]
  BY <1>0, <1>2, DatabasesTyped, EndReply, AnsweredTyped
<1>4. /\ command = "delete" => dbs'["dst"] = dbs["dst"] /\ dbs'["src"] = r.db /\ Target = "src"
      /\ command # "delete" => dbs'["src"] = dbs["src"] /\ dbs'["dst"] = r.db /\ Target = "dst"
  BY <1>3 DEF Target
<1>5. SourceAt(d)'
  <2>1. CASE command = "move"
    BY <1>0, <1>1, <1>4, <2>1, TableKept DEF InPage
  <2>2. CASE command # "move"
    BY <1>0, <1>1, <1>4, <2>2, SourceKept
  <2> QED BY <2>1, <2>2
<1>6. DeletedAt(d)'
  <2> SUFFICES ASSUME command = "delete", "commit" \notin Faulty PROVE DeletedAt(d)'
    BY <1>1 DEF DeletedAt
  <2>1. /\ r.db.tx = "none" /\ r.db.work = r.db.stored
        /\ \E s \in Nat : Gone(r.db.stored) = Upto(s)
        /\ ~failed => Gone(r.db.work) = Upto(d)
    BY <1>0, <1>2, <1>4, EndedDelete
  <2> QED BY <1>1, <1>4, <2>1 DEF DeletedAt
<1>7. PageAt(d)'
  BY <1>0, <1>1 DEF PageAt, Ending
<1>8. FileAt(d)'
  <2>1. FileBegin' = FileBegin /\ FileEnd' = FileEnd
    BY <1>1 DEF FileBegin, FileEnd
  <2> QED BY <1>0, <1>1, <2>1 DEF FileAt
<1>9. CountAt(d)'
  BY <1>0, <1>1, CountKept
<1>10. WorkAt(d)'
  <2>0. ~Over /\ ~Over'
    BY <1>1 DEF Over, Ending
  <2>1. CASE command = "delete"
    <3>1. dbs'[Target].tx = "none"
      <4>1. /\ dbs[Target] \in Databases /\ dbs[Target].work \in Contents /\ dbs[Target].stored \in Contents
        BY <1>0, DatabasesTyped DEF Databases
      <4> QED BY <1>2, <1>3, <4>1, EndReply, SettledFields
    <3> QED BY <1>0, <1>1, <1>4, <2>1, <3>1 DEF WorkAt
  <2>2. CASE command # "delete"
    <3>1. /\ r.db.tx = "none" /\ r.db.work = r.db.stored
          /\ \A i \in Idents : r.db.work[i] # "twice"
          /\ Present(r.db.work) \subseteq Upto(d)
          /\ "commit" \notin Faulty => Present(r.db.work) = Upto(d)
      BY <1>0, <1>2, <1>4, <2>0, <2>2, EndedWork
    <3>2. command # "move" => Cardinality(Upto(d)) >= curCount
      <4>1. curCount \in Nat /\ eventNo \in Nat /\ Cardinality(Upto(d)) \in Nat
        BY <1>0, UptoTyped DEF AdminTypeOK
      <4>2. command # "move" => Cardinality(Upto(d)) >= curCount + eventNo
        BY <1>0, <1>1, <2>2, Reached
      <4> QED BY <4>1, <4>2
    <3> QED BY <1>1, <1>4, <2>0, <2>2, <3>1, <3>2 DEF WorkAt
  <2> QED BY <2>1, <2>2
<1>11. EndAt(d)'
  BY <1>1, Aside
<1> QED BY <1>0, <1>1, <1>5, <1>6, <1>7, <1>8, <1>9, <1>10, <1>11, Aside DEF Frontier

\* transaction_start in flush_transaction_if_needed: what is flushed is counted.
LEMMA FlushStartFrontier == ASSUME Known, NEW d \in Nat, Frontier(d), FlushStart PROVE Frontier(d)'
<1> PICK r \in Affordable(TransactionStart(dbs[Target])) : Answered(Target, r)
  BY DEF FlushStart
<1>0. /\ AdminTypeOK /\ Target \in {"src", "dst"} /\ ept # 0 /\ TxInv /\ FlowInv
      /\ Position(d) /\ SourceAt(d) /\ DeletedAt(d) /\ PageAt(d) /\ FileAt(d) /\ CountAt(d) /\ WorkAt(d)
  BY DatabasesTyped DEF Known, TxInv, Frontier, FlushStart
<1>1. /\ UNCHANGED <<options, stop, failed, limitCopy, tbl, files, page, toSkip, current>>
      /\ pc = "flush_start" /\ pc' = after /\ curCount' = curCount + eventNo /\ eventNo' = 0
      /\ command' = command /\ offset' = offset /\ limit' = limit /\ firstFile' = firstFile /\ Files' = Files
      /\ Target' = Target /\ ept' = ept /\ \A s : Upto(s)' = Upto(s)
  BY OptionsFixed DEF FlushStart
<1>2. /\ command = "load" => pc' = "read"
      /\ command = "delete" => pc' = "loop"
      /\ command \notin {"load", "delete"} => pc' \in {"next", "leftover"}
      /\ command \in {"load", "delete", "copy", "move"} /\ curCount \in Nat /\ eventNo \in Nat
  BY <1>0, <1>1, DatabasesTyped DEF AdminTypeOK, Returns, Steps, Ending
<1>3. r \in TransactionStart(dbs[Target])
  BY AffordableReply
<1>4. /\ IsReply(r) /\ r.db.work = dbs[Target].work /\ r.db.stored = dbs[Target].stored
      /\ r.db.tx = "failed" => dbs[Target].tx = "failed"
  BY <1>0, <1>3, StartedWork
<1>5. dbs'[Target] = r.db /\ \A y \in {"src", "dst"} \ {Target} : dbs'[y] = dbs[y]
  BY <1>0, <1>4, AnsweredTyped
<1>6. /\ command = "delete" => dbs'["dst"] = dbs["dst"] /\ dbs'["src"] = r.db /\ Target = "src"
      /\ command # "delete" => dbs'["src"] = dbs["src"] /\ dbs'["dst"] = r.db /\ Target = "dst"
  BY <1>5 DEF Target
<1>7. SourceAt(d)'
  <2>1. CASE command = "move"
    BY <1>0, <1>1, <1>2, <1>6, <2>1, TableKept DEF InPage
  <2>2. CASE command # "move"
    BY <1>0, <1>1, <1>6, <2>2, SourceKept
  <2> QED BY <2>1, <2>2
<1>8. DeletedAt(d)'
  BY <1>0, <1>1, <1>4, <1>6 DEF DeletedAt
<1>9. PageAt(d)'
  <2> SUFFICES ASSUME command # "load", command = "delete" => "commit" \notin Faulty PROVE PageAt(d)'
    BY <1>1 DEF PageAt
  <2>1. PICK b \in Nat : /\ d <= b /\ (b = d \/ b <= NMessages) /\ page = Span(d, b)
                         /\ ~stop /\ ~failed /\ limit >= 0 => b + limitCopy = offset + limit
    BY <1>0, <1>1 DEF PageAt, Ending
  <2>2. pc' \in {"leftover", "loop"} => b = d
    <3>1. pc' \in {"leftover", "loop"} => page = {}
      BY <1>0, <1>1 DEF FlowInv
    <3> QED BY <2>1, <3>1, SpanEmpty
  <2>3. pc' \in {"next", "leftover", "loop"}
    BY <1>2
  <2> QED BY <1>1, <2>1, <2>2, <2>3 DEF PageAt
<1>10. FileAt(d)'
  <2>1. FileBegin' = FileBegin /\ FileEnd' = FileEnd
    BY <1>1 DEF FileBegin, FileEnd
  <2> QED BY <1>0, <1>1, <1>2, <2>1 DEF FileAt
<1>11. CountAt(d)'
  <2>1. Handled' = Handled /\ pc' \notin {"count", "destroy", "done", "aborted"} /\ pc = "flush_start"
    BY <1>1, <1>2 DEF Handled
  <2> QED BY <1>0, <1>1, <2>1 DEF CountAt
<1>12. WorkAt(d)'
  <2>0. ~Over /\ ~Over' /\ pc' \notin {"flush_start", "done"}
    BY <1>1, <1>2 DEF Over, Ending
  <2>1. CASE command = "delete"
    BY <1>0, <1>1, <1>6, <2>0, <2>1 DEF WorkAt
  <2>2. CASE command # "delete"
    <3>1. dbs["dst"].work = dbs["dst"].stored /\ dbs["dst"].tx = "none"
      BY <1>0, <1>1, <1>6, <2>2 DEF WorkAt, TxInv, Consistent
    <3>2. command # "move" => Cardinality(Upto(d)) >= curCount'
      BY <1>0, <1>1, <2>2, Reached
    <3>3. /\ dbs'["dst"].work = dbs["dst"].work /\ dbs'["dst"].stored = dbs["dst"].stored
          /\ dbs'["dst"].tx # "failed"
      BY <1>4, <1>6, <2>2, <3>1
    <3> QED BY <1>0, <1>1, <2>0, <2>2, <3>1, <3>2, <3>3 DEF WorkAt
  <2> QED BY <2>1, <2>2
<1>13. EndAt(d)'
  BY <1>1, <1>2, Aside
<1> QED BY <1>0, <1>1, <1>7, <1>8, <1>9, <1>10, <1>11, <1>12, <1>13, Aside DEF Frontier

\* transaction_end or transaction_abort at the end of the command.
LEMMA FinishFrontier == ASSUME Known, NEW d \in Nat, Frontier(d), Finish PROVE Frontier(d)'
<1> PICK r \in IF HasTransaction THEN Affordable(FinishAnswers(dbs[Target]))
                                 ELSE {Reply(dbs[Target], TRUE, 0)} :
      Answered(Target, r)
  BY DEF Finish
<1>0. /\ AdminTypeOK /\ Target \in {"src", "dst"} /\ failed \in BOOLEAN
      /\ Position(d) /\ SourceAt(d) /\ DeletedAt(d) /\ CountAt(d) /\ WorkAt(d) /\ EndAt(d)
  BY DatabasesTyped DEF Known, Frontier, AdminTypeOK
<1>1. /\ UNCHANGED <<options, stop, failed, tbl>> /\ pc = "finish" /\ pc' = "destroy" /\ curCount' = CountAtFinish
      /\ command' = command /\ offset' = offset /\ ept' = ept /\ Target' = Target /\ Asked' = Asked
      /\ \A s : Upto(s)' = Upto(s)
  BY OptionsFixed DEF Finish
<1>2. /\ IsReply(r)
      /\ ~HasTransaction => r.db = dbs[Target]
      /\ HasTransaction /\ failed => r.db = Settled(dbs[Target].stored)
      /\ HasTransaction /\ ~failed => r \in TransactionEnd(dbs[Target])
  BY <1>0, FinishReply
<1>3. dbs'[Target] = r.db /\ \A y \in {"src", "dst"} \ {Target} : dbs'[y] = dbs[y]
  BY <1>0, <1>2, AnsweredTyped
<1>4. /\ command = "delete" => dbs'["dst"] = dbs["dst"] /\ dbs'["src"] = r.db /\ Target = "src"
      /\ command # "delete" => dbs'["src"] = dbs["src"] /\ dbs'["dst"] = r.db /\ Target = "dst"
  BY <1>3 DEF Target
<1>a. dbs[Target].stored \in Contents
  BY <1>0, DatabasesTyped DEF Databases
<1>5. SourceAt(d)'
  <2>1. CASE command = "move"
    BY <1>0, <1>1, <1>4, <2>1, TableKept DEF InPage
  <2>2. CASE command # "move"
    BY <1>0, <1>1, <1>4, <2>2, SourceKept
  <2> QED BY <2>1, <2>2
<1>6. DeletedAt(d)'
  <2> SUFFICES ASSUME command = "delete", "commit" \notin Faulty PROVE DeletedAt(d)'
    BY <1>1 DEF DeletedAt
  <2>1. CASE ~HasTransaction
    <3>1. dbs'["src"] = dbs["src"]
      BY <1>2, <1>4, <2>1
    <3> QED BY <1>0, <1>1, <3>1 DEF DeletedAt
  <2>2. CASE HasTransaction /\ failed
    <3>1. dbs'["src"].work = dbs["src"].stored /\ dbs'["src"].stored = dbs["src"].stored
      BY <1>2, <1>4, <1>a, <2>2, SettledFields
    <3> QED BY <1>0, <1>1, <2>2, <3>1 DEF DeletedAt
  <2>3. CASE HasTransaction /\ ~failed
    <3>1. /\ r.db.tx = "none" /\ r.db.work = r.db.stored
          /\ \E s \in Nat : Gone(r.db.stored) = Upto(s)
          /\ Gone(r.db.work) = Upto(d)
      BY <1>0, <1>2, <1>4, <2>3, EndedDelete
    <3> QED BY <1>1, <1>4, <3>1 DEF DeletedAt
  <2> QED BY <1>0, <2>1, <2>2, <2>3
<1>7. PageAt(d)'
  BY <1>1 DEF PageAt, Ending
<1>8. FileAt(d)'
  BY <1>1 DEF FileAt
<1>9. WorkAt(d)'
  <2>0. Over = failed /\ Over' = failed
    BY <1>0, <1>1 DEF Over, Ending
  <2>1. CASE command = "delete"
    BY <1>0, <1>1, <1>4, <2>1 DEF WorkAt
  <2>2. CASE command # "delete" /\ ~HasTransaction
    <3>1. dbs'["dst"] = dbs["dst"] /\ curCount' = curCount
      BY <1>1, <1>2, <1>4, <2>2 DEF CountAtFinish
    <3> QED BY <1>0, <1>1, <2>0, <2>2, <3>1 DEF WorkAt
  <2>3. CASE command # "delete" /\ HasTransaction /\ failed
    <3>1. /\ dbs'["dst"].work = dbs["dst"].stored /\ dbs'["dst"].stored = dbs["dst"].stored
          /\ curCount' = curCount
      BY <1>1, <1>2, <1>4, <1>a, <2>3, SettledFields DEF CountAtFinish
    <3> QED BY <1>0, <1>1, <2>0, <2>3, <3>1 DEF WorkAt
  <2>4. CASE command # "delete" /\ HasTransaction /\ ~failed
    <3>1. /\ r.db.tx = "none" /\ r.db.work = r.db.stored
          /\ \A i \in Idents : r.db.work[i] # "twice"
          /\ Present(r.db.work) \subseteq Upto(d)
          /\ "commit" \notin Faulty => Present(r.db.work) = Upto(d)
      BY <1>0, <1>2, <1>4, <2>0, <2>4, EndedWork
    <3>2. command # "move" => Cardinality(Upto(d)) >= curCount'
      <4>1. curCount' = curCount + eventNo /\ ept # 0
        BY <1>0, <1>1, <2>4 DEF CountAtFinish, HasTransaction
      <4> QED BY <1>0, <1>1, <2>4, <4>1, Reached
    <3> QED BY <1>1, <1>4, <2>0, <2>4, <3>1, <3>2 DEF WorkAt
  <2> QED BY <1>0, <2>1, <2>2, <2>3, <2>4
<1>10. EndAt(d)'
  BY <1>0, <1>1 DEF EndAt
<1> QED BY <1>0, <1>1, <1>5, <1>6, <1>7, <1>8, <1>9, <1>10, Aside DEF Frontier

\* requiemdb_destroy.
LEMMA DestroyFrontier == ASSUME Known, NEW d \in Nat, Frontier(d), DestroyDatabases PROVE Frontier(d)'
<1>0. /\ AdminTypeOK /\ Position(d) /\ SourceAt(d) /\ DeletedAt(d) /\ WorkAt(d) /\ EndAt(d)
  BY DEF Known, Frontier
<1>1. /\ UNCHANGED <<options, stop, failed, tbl, dbs, curCount>> /\ pc = "destroy" /\ pc' \in {"done", "aborted"}
      /\ pc' = "done" => \A x \in {"src", "dst"} : dbs[x].tx = "none"
      /\ command' = command /\ offset' = offset /\ ept' = ept /\ Asked' = Asked /\ Target' = Target
      /\ \A s : Upto(s)' = Upto(s)
  BY OptionsFixed DEF DestroyDatabases
<1>2. SourceAt(d)'
  BY <1>0, <1>1, TableKept DEF InPage
<1>3. DeletedAt(d)'
  BY <1>0, <1>1 DEF DeletedAt
<1>4. PageAt(d)' /\ FileAt(d)'
  BY <1>1 DEF PageAt, FileAt, Ending
<1>5. WorkAt(d)'
  <2>1. Over' = Over
    BY <1>1 DEF Over, Ending
  <2> QED BY <1>0, <1>1, <2>1 DEF WorkAt
<1>6. EndAt(d)'
  BY <1>0, <1>1 DEF EndAt
<1> QED BY <1>0, <1>1, <1>2, <1>3, <1>4, <1>5, <1>6, Aside DEF Frontier

\* The body of the loop of cmd_delete: the frontier moves to the end of the page.
LEMMA PurgeFrontier == ASSUME Known, NEW d \in Nat, Frontier(d), Purge PROVE \E c \in Nat : Frontier(c)'
<1> PICK r \in Affordable(DeleteMessages(dbs["src"], page, "purge")) :
      /\ Answered("src", r)
      /\ failed' = ~r.ok
  BY DEF Purge
<1>0. /\ AdminTypeOK /\ TxInv /\ ~failed /\ dbs["src"] \in Databases /\ page \in SUBSET Idents
      /\ Position(d) /\ SourceAt(d) /\ DeletedAt(d) /\ PageAt(d) /\ WorkAt(d)
  BY DatabasesTyped DEF Known, FlowInv, Frontier, Purge, AdminTypeOK
<1>1. /\ UNCHANGED <<options, curCount, stop, limitCopy, tbl>> /\ pc = "purge" /\ page' = {}
      /\ pc' \in {"flush_end", "loop"}
      /\ command' = command /\ offset' = offset /\ limit' = limit /\ Target' = Target /\ \A s : Upto(s)' = Upto(s)
  BY OptionsFixed DEF Purge, Counted
<1>2. command = "delete" /\ offset \in Nat
  BY <1>0, <1>1, DatabasesTyped DEF AdminTypeOK, Steps, Ending
<1>3. IsReply(r) /\ r \in DeleteMessages(dbs["src"], page, "purge")
  BY <1>0, AffordableReply, DeleteReply
<1>4. dbs'["src"] = r.db /\ dbs'["dst"] = dbs["dst"] /\ r.ok \in BOOLEAN
  BY <1>0, <1>3, AnsweredTyped DEF IsReply
<1>5. \A c : SourceAt(c)'
  BY <1>0, <1>1, <1>2, <1>4, SourceKept
<1>6. \A c : WorkAt(c)'
  <2>1. pc' \notin {"flush_start", "done"}
    BY <1>1
  <2> QED BY <1>0, <1>1, <1>2, <1>4, <2>1 DEF WorkAt
<1>7. \A c : FileAt(c)' /\ CountAt(c)' /\ EndAt(c)' /\ (Position(c) => Position(c)')
  <2>1. pc' \notin {"finish", "destroy", "done"}
    BY <1>1
  <2> QED BY <1>1, <1>2, <2>1, Aside
<1>8. CASE "commit" \in Faulty
  <2>1. DeletedAt(d)' /\ PageAt(d)'
    BY <1>1, <1>2, <1>8 DEF DeletedAt, PageAt
  <2> QED BY <1>0, <1>5, <1>6, <1>7, <2>1 DEF Frontier
<1>9. CASE "commit" \notin Faulty
  <2>1. PICK b \in Nat : /\ d <= b /\ (b = d \/ b <= NMessages) /\ page = Span(d, b)
                         /\ ~stop /\ limit >= 0 => b + limitCopy = offset + limit
    BY <1>0, <1>1, <1>2, <1>9 DEF PageAt, Ending
  <2>2. Upto(d) = Span(offset, d) /\ offset <= d /\ (d = offset \/ d <= NMessages)
    BY <1>0, <1>2, UptoSpan
  <2>3. Position(b)
    BY <1>0, <1>2, <2>1, <2>2 DEF Position
  <2>4. Upto(b) = Upto(d) \cup page /\ Upto(d) \cap page = {}
    <3>1. Upto(b) = Span(offset, b)
      BY <1>0, <1>2, <2>3, UptoSpan
    <3>2. Span(offset, b) = Span(offset, d) \cup Span(d, b) /\ Span(offset, d) \cap Span(d, b) = {}
      BY <1>2, <2>1, <2>2, IdentNumbers DEF Span
    <3> QED BY <2>1, <2>2, <3>1, <3>2
  <2>5. /\ dbs["src"].work \in Contents /\ dbs["src"].stored \in Contents /\ dbs["src"].tx # "failed"
        /\ Gone(dbs["src"].work) = Upto(d)
        /\ \E s \in Nat : Gone(dbs["src"].stored) = Upto(s)
    BY <1>0, <1>2, <1>9 DEF DeletedAt, Databases
  <2>6. CASE r.ok
    <3>1. r.db = Changed(dbs["src"], Removed(dbs["src"].work, page))
      BY <1>0, <1>3, <2>6, DeleteReply
    <3>2. Removed(dbs["src"].work, page) \in Contents /\ Gone(Removed(dbs["src"].work, page)) = Upto(b)
      <4>1. Removed(dbs["src"].work, page) \in Contents
        BY <2>5 DEF Removed, Contents, States
      <4>2. Gone(Removed(dbs["src"].work, page)) = Gone(dbs["src"].work) \cup page
        BY <1>0 DEF Gone, Removed
      <4> QED BY <2>4, <2>5, <4>1, <4>2
    <3>3. /\ dbs'["src"].work = Removed(dbs["src"].work, page) /\ dbs'["src"].tx # "failed"
          /\ \/ dbs'["src"].stored = Removed(dbs["src"].work, page)
             \/ dbs'["src"].stored = dbs["src"].stored
      BY <1>0, <1>4, <2>5, <3>1, <3>2, ChangedFields
    <3>4. DeletedAt(b)'
      BY <1>1, <2>5, <3>2, <3>3 DEF DeletedAt
    <3>5. PageAt(b)'
      <4>1. page' = Span(b, b)
        BY <1>1, SpanEmpty
      <4> QED BY <1>1, <2>1, <4>1 DEF PageAt
    <3> QED BY <1>5, <1>6, <1>7, <2>3, <3>4, <3>5 DEF Frontier
  <2>7. CASE ~r.ok
    <3>1. r.db \in Broken(dbs["src"], page)
      BY <1>0, <1>3, <2>5, <2>7, DeleteReply
    <3>2. Gone(Torn(dbs["src"].work, page)) = Upto(d)
      <4>1. Gone(Torn(dbs["src"].work, page)) = Gone(dbs["src"].work) \ page
        BY <1>0 DEF Gone, Torn
      <4> QED BY <2>4, <2>5, <4>1
    <3>3. /\ dbs'["src"].stored = dbs["src"].stored
          /\ dbs'["src"].work \in {dbs["src"].work, Torn(dbs["src"].work, page)}
      BY <1>0, <1>4, <2>5, <3>1, BrokenFields
    <3>4. DeletedAt(d)'
      BY <1>1, <2>5, <2>7, <3>2, <3>3 DEF DeletedAt
    <3>5. PageAt(d)'
      <4>1. page' = Span(d, d)
        BY <1>1, SpanEmpty
      <4>2. failed'
        BY <2>7
      <4> QED BY <1>1, <4>1, <4>2 DEF PageAt
    <3> QED BY <1>0, <1>5, <1>6, <1>7, <3>4, <3>5 DEF Frontier
  <2> QED BY <1>4, <2>6, <2>7
<1> QED BY <1>8, <1>9

\* A destination that has one message more.
LEMMA InsertedWork ==
  ASSUME NEW w \in Contents, NEW d \in Nat, d + 1 \in AfterOffset(offset), d + 1 \in Idents,
         Present(w) \subseteq Upto(d), \A i \in Idents : w[i] # "twice"
  PROVE  /\ Inserted(w, d + 1) \in Contents
         /\ Present(Inserted(w, d + 1)) \subseteq Upto(d + 1)
         /\ Present(w) = Upto(d) => Present(Inserted(w, d + 1)) = Upto(d + 1)
         /\ \A i \in Idents : Inserted(w, d + 1)[i] # "twice"
<1>1. Upto(d + 1) = Upto(d) \cup {d + 1} /\ d + 1 \notin Upto(d)
  BY UptoNext
<1>2. Present(Inserted(w, d + 1)) = Present(w) \cup {d + 1}
  BY PresentChange
<1>3. d + 1 \notin Present(w)
  BY <1>1
<1>4. \A i \in Idents : Inserted(w, d + 1)[i] # "twice"
  BY <1>3, PresentChange
<1> QED BY <1>1, <1>2, <1>4, ContentsChange

\* One message of save and print: the frontier moves on when it is written.
LEMMA SaveFrontier ==
  ASSUME "save" \notin Faulty, Known, NEW d \in Nat, Frontier(d), SaveMessage
  PROVE  \E c \in Nat : Frontier(c)'
<1> DEFINE new == Settled(Inserted(dbs["dst"].work, Lowest(page)))
           kind == IF command = "save" THEN "save" ELSE "get"
<1> PICK r \in Affordable({Reply(new, TRUE, 0)} \cup Fault(kind, {dbs["dst"]})) :
      /\ Answered("dst", r)
      /\ curCount' = IF r.ok THEN curCount + 1 ELSE curCount
      /\ failed' = (command = "print" /\ ~r.ok)
  BY DEF SaveMessage
<1>0. /\ AdminTypeOK /\ ~failed /\ dbs["dst"] \in Databases /\ page \in SUBSET Idents /\ FlowInv
      /\ Position(d) /\ SourceAt(d) /\ PageAt(d) /\ CountAt(d) /\ WorkAt(d)
  BY DatabasesTyped DEF Known, FlowInv, Frontier, SaveMessage, AdminTypeOK
<1>1. /\ UNCHANGED <<options, eventNo, stop, limitCopy, tbl>> /\ pc = "save" /\ page # {}
      /\ page' = page \ {Lowest(page)} /\ pc' = IF failed' THEN "loop" ELSE "save"
      /\ command' = command /\ offset' = offset /\ limit' = limit /\ Target' = Target /\ ept' = ept
      /\ \A s : Upto(s)' = Upto(s)
  BY OptionsFixed DEF SaveMessage
<1>2. command \in {"save", "print"} /\ offset \in Nat /\ curCount \in Nat /\ eventNo = 0
  BY <1>0, <1>1, DatabasesTyped DEF AdminTypeOK, Steps, Ending, FlowInv
<1>3. PICK b \in Nat : /\ d <= b /\ (b = d \/ b <= NMessages) /\ page = Span(d, b)
                       /\ ~stop /\ limit >= 0 => b + limitCopy = offset + limit
  BY <1>0, <1>1, <1>2 DEF PageAt, Ending
<1>4. Lowest(page) = d + 1 /\ d + 1 <= b /\ d + 1 <= NMessages /\ d + 1 \in Idents /\ page' = Span(d + 1, b)
  BY <1>1, <1>3, SpanFirst
<1>5. Position(d + 1) /\ d + 1 \in AfterOffset(offset)
  BY <1>0, <1>2, <1>4 DEF Position, AfterOffset
<1>6. ~Over /\ ~Over' /\ pc' \in {"save", "loop"} /\ (pc' = "loop" <=> failed')
  BY <1>1 DEF Over, Ending
<1>7. /\ dbs["dst"].work \in Contents
      /\ \A i \in Idents : dbs["dst"].work[i] # "twice" /\ dbs["dst"].stored[i] # "twice"
      /\ Present(dbs["dst"].work) \subseteq Upto(d)
      /\ "commit" \notin Faulty => Present(dbs["dst"].work) = Upto(d)
  BY <1>0, <1>2, <1>6 DEF WorkAt, Databases
<1>8. /\ Inserted(dbs["dst"].work, d + 1) \in Contents
      /\ Present(Inserted(dbs["dst"].work, d + 1)) \subseteq Upto(d + 1)
      /\ Present(dbs["dst"].work) = Upto(d) => Present(Inserted(dbs["dst"].work, d + 1)) = Upto(d + 1)
      /\ \A i \in Idents : Inserted(dbs["dst"].work, d + 1)[i] # "twice"
  BY <1>4, <1>5, <1>7, InsertedWork
<1>9. r = Reply(new, TRUE, 0) \/ (r \in Fault(kind, {dbs["dst"]}) /\ r.db = dbs["dst"] /\ ~r.ok /\ kind \in Faulty)
  <2>1. r = Reply(new, TRUE, 0) \/ r \in Fault(kind, {dbs["dst"]})
    <3> HIDE DEF new, kind
    <3> QED BY Zenon DEF Affordable
  <2>2. r \in Fault(kind, {dbs["dst"]}) => r.db = dbs["dst"] /\ ~r.ok /\ kind \in Faulty
    <3> HIDE DEF kind
    <3> SUFFICES ASSUME r \in Fault(kind, {dbs["dst"]}) PROVE r.db \in {dbs["dst"]} /\ ~r.ok /\ kind \in Faulty
      OBVIOUS
    <3> QED BY FaultReply
  <2> QED BY <2>1, <2>2
<1>10. CASE r = Reply(new, TRUE, 0)
  <2>1. r.ok /\ r.db = Settled(Inserted(dbs["dst"].work, d + 1)) /\ ~failed'
    BY <1>4, <1>10 DEF Reply
  <2>2. dbs'["dst"] = r.db /\ dbs'["src"] = dbs["src"]
    BY <1>0 DEF Answered, AdminTypeOK
  <2>3. /\ dbs'["dst"].work = Inserted(dbs["dst"].work, d + 1)
        /\ dbs'["dst"].stored = Inserted(dbs["dst"].work, d + 1) /\ dbs'["dst"].tx = "none"
    BY <1>8, <2>1, <2>2, SettledFields
  <2>4. curCount' = curCount + 1 /\ pc' = "save"
    BY <1>6, <2>1
  <2>5. SourceAt(d + 1)'
    BY <1>0, <1>1, <1>2, <2>2, SourceKept
  <2>6. PageAt(d + 1)'
    BY <1>1, <1>3, <1>4, <2>4 DEF PageAt
  <2>7. Cardinality(Upto(d + 1)) = curCount' /\ eventNo' = 0
    <3>1. Cardinality(Upto(d + 1)) = Cardinality(Upto(d)) + 1
      BY <1>5, UptoNext
    <3>2. Cardinality(Upto(d)) = curCount
      BY <1>0, <1>1, <1>2 DEF CountAt, Handled
    <3> QED BY <1>1, <1>2, <2>4, <3>1, <3>2
  <2>8. CountAt(d + 1)'
    <3>1. Handled' = curCount'
      BY <1>2, <2>4, <2>7 DEF Handled
    <3> QED BY <1>1, <1>2, <2>7, <3>1 DEF CountAt
  <2>9. WorkAt(d + 1)'
    <3>1. Cardinality(Upto(d + 1)) >= curCount'
      BY <1>2, <2>4, <2>7
    <3> QED BY <1>1, <1>2, <1>6, <1>7, <1>8, <2>3, <2>4, <3>1 DEF WorkAt
  <2>10. EndAt(d + 1)'
    BY <1>1, <2>4, Aside
  <2> QED BY <1>1, <1>2, <1>5, <2>5, <2>6, <2>8, <2>9, <2>10, Aside DEF Frontier
<1>11. CASE r.db = dbs["dst"] /\ ~r.ok /\ kind \in Faulty
  <2>1. command = "print" /\ failed' /\ curCount' = curCount /\ pc' = "loop"
    BY <1>2, <1>6, <1>11
  <2>2. dbs' = dbs
    BY <1>0, <1>11 DEF Answered, AdminTypeOK
  <2>3. SourceAt(d)'
    BY <1>0, <1>1, <1>2, <2>2, SourceKept
  <2>4. PageAt(d)'
    BY <1>1, <2>1 DEF PageAt
  <2>5. CountAt(d)'
    BY <1>0, <1>1, <2>1, CountKept
  <2>6. WorkAt(d)'
    BY <1>0, <1>1, <2>1, <2>2, WorkKept DEF Ending
  <2>7. EndAt(d)'
    BY <1>1, <2>1, Aside
  <2> QED BY <1>0, <1>1, <1>2, <2>3, <2>4, <2>5, <2>6, <2>7, Aside DEF Frontier
<1> QED BY <1>9, <1>10, <1>11

\* load counts the offset from the start of every file.
LEMMA LoadNext ==
  ASSUME AdminTypeOK, command = "load", NEW d \in Nat, FileBegin <= d, d < FileEnd
  PROVE  /\ FileEnd \in Nat /\ FileEnd <= NMessages /\ FileBegin \in Nat /\ d + 1 \in Idents
         /\ d + 1 \in AfterOffset(offset) <=> d + 1 > FileBegin + offset
<1>0. firstFile \in Nat /\ firstFile <= NMessages /\ NMessages \in Nat /\ offset \in Nat
  BY AdminAssumption DEF AdminTypeOK
<1>1. FileEnd \in Nat /\ FileEnd <= NMessages /\ FileBegin \in Nat
  BY <1>0 DEF FileEnd, FileBegin
<1>2. d + 1 \in Idents
  BY <1>0, <1>1 DEF Idents
<1>3. d + 1 \in AfterOffset(offset) <=> d + 1 > offset /\ (d + 1 > firstFile => d + 1 - firstFile > offset)
  BY <1>0, <1>2 DEF AfterOffset
<1>4. d + 1 \in AfterOffset(offset) <=> d + 1 > FileBegin + offset
  <2>1. CASE files = <<>> /\ firstFile # NMessages
    <3>1. FileBegin = firstFile
      BY <2>1 DEF FileBegin
    <3> QED BY <1>0, <1>3, <3>1
  <2>2. CASE files # <<>> \/ firstFile = NMessages
    <3>1. FileBegin = 0 /\ FileEnd <= firstFile
      BY <1>0, <2>2 DEF FileBegin, FileEnd
    <3>2. ~(d + 1 > firstFile)
      BY <1>0, <1>1, <3>1
    <3> QED BY <1>0, <1>3, <3>1, <3>2
  <2> QED BY <2>1, <2>2
<1> QED BY <1>1, <1>2, <1>4

\* The message that is inserted is the next one.
LEMMA InsertNext ==
  ASSUME Known, NEW d \in Nat, Frontier(d), pc = "insert"
  PROVE  /\ current = d + 1 /\ current \in Idents /\ Position(d + 1) /\ d + 1 \in AfterOffset(offset)
         /\ command \in {"copy", "move", "load"}
<1>0. AdminTypeOK /\ Position(d) /\ PageAt(d) /\ FileAt(d)
  BY DEF Known, Frontier
<1>1. command \in {"copy", "move", "load"} /\ current \in Idents /\ offset \in Nat
  BY <1>0, DatabasesTyped DEF AdminTypeOK, Steps, Ending
<1>2. CASE command # "load"
  <2>1. current = d + 1
    BY <1>0, <1>1, <1>2 DEF PageAt
  <2>2. d + 1 <= NMessages /\ offset <= d
    BY <1>0, <1>1, <1>2, <2>1, IdentNumbers DEF Position
  <2> QED BY <1>1, <1>2, <2>1, <2>2 DEF Position, AfterOffset
<1>3. CASE command = "load"
  <2>1. current = d + 1 /\ current <= FileEnd /\ toSkip = 0 /\ FileBegin <= d /\ d + toSkip >= FileBegin + offset
    BY <1>0, <1>3 DEF FileAt
  <2>2. FileEnd \in Nat /\ FileBegin \in Nat
    BY <1>0, AdminAssumption DEF FileEnd, FileBegin, AdminTypeOK
  <2>3. d < FileEnd
    BY <2>1, <2>2
  <2>4. /\ d + 1 \in Idents /\ FileEnd <= NMessages
        /\ d + 1 \in AfterOffset(offset) <=> d + 1 > FileBegin + offset
    BY <1>0, <1>3, <2>1, <2>3, LoadNext
  <2>5. d + 1 \in AfterOffset(offset)
    BY <1>1, <2>1, <2>2, <2>4
  <2>6. Position(d + 1)
    BY <1>3, <2>4, IdentNumbers DEF Position
  <2> QED BY <1>1, <2>1, <2>5, <2>6
<1> QED BY <1>2, <1>3

\* requiemdb_insert_message: the frontier moves on when it succeeds.
LEMMA InsertFrontier == ASSUME Known, NEW d \in Nat, Frontier(d), Insert PROVE \E c \in Nat : Frontier(c)'
<1> PICK r \in Affordable(InsertMessage(dbs["dst"], current)) :
      /\ Answered("dst", r)
      /\ failed' = ~r.ok
      /\ tbl' = IF r.ok /\ command = "move" THEN tbl \cup {current} ELSE tbl
      /\ pc' = IF ~r.ok THEN "finish"
               ELSE IF command = "move" /\ TableFull(tbl') THEN "evict" ELSE "count"
  BY DEF Insert
<1>0. /\ AdminTypeOK /\ ~failed /\ dbs["dst"] \in Databases
      /\ Position(d) /\ SourceAt(d) /\ PageAt(d) /\ FileAt(d) /\ CountAt(d) /\ WorkAt(d)
  BY DatabasesTyped DEF Known, FlowInv, Frontier, Insert
<1>1. /\ UNCHANGED <<options, curCount, eventNo, stop, limitCopy, files, toSkip, page, current>> /\ pc = "insert"
      /\ command' = command /\ offset' = offset /\ limit' = limit /\ firstFile' = firstFile /\ Files' = Files
      /\ Target' = Target /\ ept' = ept /\ \A s : Upto(s)' = Upto(s)
  BY OptionsFixed DEF Insert
<1>2. /\ current = d + 1 /\ d + 1 \in Idents /\ Position(d + 1) /\ d + 1 \in AfterOffset(offset)
      /\ command \in {"copy", "move", "load"}
  BY <1>1, InsertNext
<1>3. /\ IsReply(r) /\ r.ok \in BOOLEAN
      /\ dbs["dst"].tx = "failed" => r.db = dbs["dst"] /\ ~r.ok
      /\ r.ok => dbs["dst"].tx # "failed" /\ r.db = Changed(dbs["dst"], Inserted(dbs["dst"].work, d + 1))
      /\ ~r.ok /\ dbs["dst"].tx # "failed" => r.db \in Broken(dbs["dst"], {d + 1})
  BY <1>0, <1>2, AffordableReply, InsertReply DEF IsReply
<1>4. dbs'["dst"] = r.db /\ dbs'["src"] = dbs["src"]
  BY <1>0, <1>3, AnsweredTyped
<1>5. ~Over
  BY <1>1 DEF Over, Ending
<1>6. /\ dbs["dst"].work \in Contents /\ dbs["dst"].stored \in Contents
      /\ \A i \in Idents : dbs["dst"].work[i] # "twice" /\ dbs["dst"].stored[i] # "twice"
      /\ Present(dbs["dst"].work) \subseteq Upto(d) /\ Present(dbs["dst"].stored) \subseteq Upto(d)
      /\ "commit" \notin Faulty =>
           /\ Present(dbs["dst"].work) = Upto(d) /\ dbs["dst"].tx # "failed"
           /\ \E s \in Nat : /\ Present(dbs["dst"].stored) = Upto(s)
                             /\ command # "move" => Cardinality(Upto(s)) >= curCount
  BY <1>0, <1>2, <1>5 DEF WorkAt, Databases
<1>7. CASE r.ok
  <2>1. /\ Inserted(dbs["dst"].work, d + 1) \in Contents
        /\ Present(Inserted(dbs["dst"].work, d + 1)) \subseteq Upto(d + 1)
        /\ Present(dbs["dst"].work) = Upto(d) => Present(Inserted(dbs["dst"].work, d + 1)) = Upto(d + 1)
        /\ \A i \in Idents : Inserted(dbs["dst"].work, d + 1)[i] # "twice"
    BY <1>2, <1>6, InsertedWork
  <2>2. /\ dbs'["dst"].work = Inserted(dbs["dst"].work, d + 1) /\ dbs'["dst"].tx # "failed"
        /\ \/ dbs'["dst"].stored = Inserted(dbs["dst"].work, d + 1)
           \/ dbs'["dst"].stored = dbs["dst"].stored
    BY <1>0, <1>3, <1>4, <1>7, <2>1, ChangedFields
  <2>3. /\ pc' \in {"evict", "count"} /\ (pc' = "evict" => command = "move") /\ ~failed'
        /\ tbl' = IF command = "move" THEN tbl \cup {d + 1} ELSE tbl
    BY <1>2, <1>7
  <2>4. SourceAt(d + 1)'
    <3>1. CASE command = "move"
      <4>1. PICK e \in Nat : /\ offset <= e /\ e <= d /\ tbl = Span(e, d)
                             /\ dbs["src"] = Settled(Removed(Everything, Span(offset, e)))
        BY <1>0, <1>1, <3>1 DEF SourceAt, InPage
      <4>2. Span(e, d) \cup {d + 1} = Span(e, d + 1)
        BY <1>2, <4>1, IdentNumbers DEF Span
      <4>3. tbl' = Span(e, d + 1) /\ offset <= e /\ e <= d + 1 /\ pc' \in InPage
        BY <2>3, <3>1, <4>1, <4>2 DEF InPage
      <4> QED BY <1>1, <1>4, <3>1, <4>1, <4>3 DEF SourceAt
    <3>2. CASE command # "move"
      BY <1>0, <1>1, <1>2, <1>4, <3>2, SourceKept
    <3> QED BY <3>1, <3>2
  <2>5. PageAt(d + 1)'
    <3> SUFFICES ASSUME command # "load" PROVE PageAt(d + 1)'
      BY <1>1, Aside
    <3>1. PICK b \in Nat : /\ d + 1 <= b /\ (b = d \/ b <= NMessages) /\ page = Span(d + 1, b)
                           /\ ~stop /\ limit >= 0 => b + limitCopy = offset + limit
      BY <1>0, <1>1, <1>2 DEF PageAt, Ending
    <3>2. b = d + 1 \/ b <= NMessages
      BY <3>1
    <3> QED BY <1>1, <2>3, <3>1, <3>2 DEF PageAt
  <2>6. FileAt(d + 1)'
    <3> SUFFICES ASSUME command = "load" PROVE FileAt(d + 1)'
      BY <1>1, Aside
    <3>1. /\ files = <<>> \/ (files = <<(firstFile + 1)..NMessages>> /\ firstFile # NMessages)
          /\ FileBegin <= d /\ d + 1 <= FileEnd /\ page = Span(d + 1, FileEnd) /\ toSkip = 0
          /\ d + toSkip >= FileBegin + offset
      BY <1>0, <1>1, <1>2 DEF FileAt
    <3>2. FileBegin' = FileBegin /\ FileEnd' = FileEnd
      BY <1>1 DEF FileBegin, FileEnd
    <3>3. FileBegin \in Nat /\ FileEnd \in Nat /\ offset \in Nat
      BY <1>0, AdminAssumption DEF FileEnd, FileBegin, AdminTypeOK
    <3>4. FileBegin <= d + 1 /\ d + 1 + toSkip >= FileBegin + offset /\ pc' = "count"
      BY <2>3, <3>1, <3>3
    <3> QED BY <1>1, <3>1, <3>2, <3>4 DEF FileAt
  <2>7. Cardinality(Upto(d + 1)) = Cardinality(Upto(d)) + 1 /\ Upto(d) \subseteq Upto(d + 1) /\ Cardinality(Upto(d)) \in Nat
    BY <1>2, UptoNext, UptoTyped
  <2>8. CountAt(d + 1)'
    <3>1. command # "move" => Handled' = Handled + 1
      <4>1. curCount \in Nat /\ eventNo \in Nat
        BY <1>0 DEF AdminTypeOK
      <4> QED BY <1>1, <2>3, <4>1 DEF Handled
    <3> QED BY <1>0, <1>1, <1>2, <2>7, <3>1 DEF CountAt
  <2>9. command # "move" => Cardinality(Upto(d + 1)) >= curCount
    <3>1. command # "move" => Cardinality(Upto(d)) >= curCount + (IF command = "load" /\ ept = 0 THEN 0 ELSE eventNo)
      BY <1>0, <1>1, <1>2, Reached
    <3>2. curCount \in Nat /\ eventNo \in Nat
      BY <1>0 DEF AdminTypeOK
    <3> QED BY <2>7, <3>1, <3>2
  <2>10. WorkAt(d + 1)'
    <3>1. ~Over' /\ pc' \notin {"flush_start", "done"}
      BY <2>3 DEF Over
    <3>2. Present(dbs'["dst"].stored) \subseteq Upto(d + 1) /\ Present(dbs'["dst"].work) \subseteq Upto(d + 1)
      BY <1>6, <2>1, <2>2, <2>7
    <3>3. "commit" \notin Faulty =>
            /\ Present(dbs'["dst"].work) = Upto(d + 1)
            /\ \E s \in Nat : /\ Present(dbs'["dst"].stored) = Upto(s)
                              /\ command # "move" => Cardinality(Upto(s)) >= curCount
      BY <1>6, <2>1, <2>2, <2>9
    <3>4. \A i \in Idents : dbs'["dst"].work[i] # "twice" /\ dbs'["dst"].stored[i] # "twice"
      BY <1>6, <2>1, <2>2
    <3> QED BY <1>1, <2>2, <3>1, <3>2, <3>3, <3>4 DEF WorkAt
  <2>11. EndAt(d + 1)'
    BY <1>1, <2>3, Aside
  <2> QED BY <1>1, <1>2, <2>4, <2>5, <2>6, <2>8, <2>10, <2>11, Aside DEF Frontier
<1>8. CASE ~r.ok
  <2>1. pc' = "finish" /\ failed' /\ tbl' = tbl /\ Over'
    BY <1>8 DEF Over, Ending
  <2>2. dbs'["dst"].stored = dbs["dst"].stored /\ dbs'["dst"].work \in {dbs["dst"].work, Torn(dbs["dst"].work, {d + 1})}
    BY <1>0, <1>3, <1>4, <1>8, BrokenFields
  <2>3. \A i \in Idents : dbs'["dst"].work[i] # "twice" /\ dbs'["dst"].stored[i] # "twice"
    BY <1>2, <1>6, <2>2, PresentChange
  <2>4. WorkAt(d)'
    BY <1>1, <1>6, <2>1, <2>2, <2>3 DEF WorkAt
  <2>5. SourceAt(d)'
    <3>1. CASE command = "move"
      <4>1. PICK e \in Nat : /\ offset <= e /\ e <= d
                             /\ dbs["src"] = Settled(Removed(Everything, Span(offset, e)))
        BY <1>0, <3>1 DEF SourceAt
      <4> QED BY <1>1, <1>4, <2>1, <3>1, <4>1 DEF SourceAt, InPage
    <3>2. CASE command # "move"
      BY <1>0, <1>1, <1>2, <1>4, <3>2, SourceKept
    <3> QED BY <3>1, <3>2
  <2>6. PageAt(d)' /\ FileAt(d)'
    BY <2>1 DEF PageAt, FileAt, Ending
  <2>7. CountAt(d)'
    BY <1>0, <1>1, <2>1, CountKept
  <2>8. EndAt(d)'
    BY <1>1, <2>1, Aside
  <2> QED BY <1>0, <1>1, <1>2, <2>4, <2>5, <2>6, <2>7, <2>8, Aside DEF Frontier
<1> QED BY <1>3, <1>7, <1>8

\* The next file of load, which goes on from the frontier.
LEMMA OpenFrontier == ASSUME Known, NEW d \in Nat, Frontier(d), OpenFile PROVE Frontier(d)'
<1> PICK r \in Affordable(ReadOnly(dbs["src"], "open")) :
      /\ Answered("src", r)
      /\ failed' = ~r.ok
      /\ page' = IF r.ok THEN Head(files) ELSE {}
      /\ pc' = IF r.ok THEN "read" ELSE "exited"
  BY DEF OpenFile
<1>0. AdminTypeOK /\ Position(d) /\ SourceAt(d) /\ FileAt(d) /\ CountAt(d) /\ WorkAt(d)
  BY DEF Known, Frontier
<1>1. /\ UNCHANGED <<options, curCount, eventNo, stop>> /\ pc = "open" /\ files # <<>>
      /\ toSkip' = offset /\ files' = Tail(files)
      /\ command' = command /\ offset' = offset /\ limit' = limit /\ firstFile' = firstFile /\ Files' = Files
  BY OptionsFixed DEF OpenFile
<1>2. dbs' = dbs /\ r.ok \in BOOLEAN
  BY <1>0, ReadsLeave
<1>3. command = "load" /\ offset \in Nat
  BY <1>0, <1>1, DatabasesTyped DEF AdminTypeOK, Steps, Ending
<1>4. pc' \in {"read", "exited"} /\ (pc' = "read" => page' = Head(files))
  OBVIOUS
<1>5. SourceAt(d)'
  BY <1>0, <1>1, <1>2, <1>3, SourceKept
<1>6. FileAt(d)'
  <2> SUFFICES ASSUME pc' = "read", ~stop, ~Past PROVE FileAt(d)'
    <3>1. Past' = Past /\ stop' = stop
      BY <1>1 DEF Past
    <3> QED BY <1>4, <3>1 DEF FileAt
  <2>0. firstFile \in Nat /\ firstFile <= NMessages /\ NMessages \in Nat
    BY <1>0, AdminAssumption DEF AdminTypeOK
  <2>1. \/ files = Files /\ d = 0
        \/ files = <<(firstFile + 1)..NMessages>> /\ firstFile # NMessages /\ d = firstFile
    BY <1>0, <1>1, <1>3 DEF FileAt
  <2>2. CASE files = Files /\ d = 0 /\ firstFile = NMessages
    <3>1. files = <<Idents>>
      BY <1>3, <2>2 DEF Files
    <3>2. files' = <<>> /\ page' = Idents
      BY <1>1, <1>4, <3>1
    <3>3. FileBegin' = 0 /\ FileEnd' = NMessages
      BY <1>1, <2>2, <3>2 DEF FileBegin, FileEnd
    <3>4. Idents = Span(0, NMessages)
      BY IdentNumbers DEF Span
    <3> QED BY <1>1, <1>3, <2>0, <2>2, <3>2, <3>3, <3>4 DEF FileAt
  <2>3. CASE files = Files /\ d = 0 /\ firstFile # NMessages
    <3>1. files = <<1..firstFile, (firstFile + 1)..NMessages>>
      BY <1>3, <2>3 DEF Files
    <3>2. files' = <<(firstFile + 1)..NMessages>> /\ page' = 1..firstFile
      BY <1>1, <1>4, <3>1
    <3>3. FileBegin' = 0 /\ FileEnd' = firstFile
      BY <1>1, <2>3, <3>2 DEF FileBegin, FileEnd
    <3>4. 1..firstFile = Span(0, firstFile)
      BY <2>0 DEF Span, Idents
    <3>5. files' = <<(firstFile' + 1)..NMessages>> /\ firstFile' # NMessages
      BY <1>1, <2>3, <3>2
    <3>6. /\ FileBegin' <= d /\ d <= FileEnd' /\ page' = Span(d, FileEnd')
          /\ d + toSkip' = FileBegin' + offset' /\ d + toSkip' >= FileBegin' + offset'
      BY <1>1, <1>3, <2>0, <2>3, <3>2, <3>3, <3>4
    <3> QED BY <3>5, <3>6 DEF FileAt
  <2>4. CASE files = <<(firstFile + 1)..NMessages>> /\ firstFile # NMessages /\ d = firstFile
    <3>1. files' = <<>> /\ page' = (firstFile + 1)..NMessages
      BY <1>1, <1>4, <2>4
    <3>2. FileBegin' = firstFile /\ FileEnd' = NMessages
      BY <1>1, <2>4, <3>1 DEF FileBegin, FileEnd
    <3>3. (firstFile + 1)..NMessages = Span(firstFile, NMessages)
      BY <2>0 DEF Span, Idents
    <3> QED BY <1>1, <1>3, <2>0, <2>4, <3>1, <3>2, <3>3 DEF FileAt
  <2> QED BY <2>1, <2>2, <2>3, <2>4
<1>7. CountAt(d)'
  BY <1>0, <1>1, <1>4, CountKept
<1>8. WorkAt(d)'
  BY <1>0, <1>1, <1>2, <1>4, WorkKept DEF Ending
<1>9. EndAt(d)'
  BY <1>1, <1>4, Aside
<1> QED BY <1>0, <1>1, <1>3, <1>5, <1>6, <1>7, <1>8, <1>9, Aside DEF Frontier

\* What load has done when it ends without an error: all the messages, or those up to the end
\* of the transaction that the limit falls in.
LEMMA LoadDoneAll ==
  ASSUME Known, NEW d \in Nat, Frontier(d), pc = "open", files = <<>>, ~stop, ept # 0
  PROVE  Upto(d) = Asked
<1>0. AdminTypeOK /\ Position(d) /\ FileAt(d) /\ CountAt(d) /\ LoadInv
  BY DEF Known, Frontier
<1>1. /\ command = "load" /\ ept \in Nat \ {0} /\ limit \in Nat \cup {-1} /\ curCount \in Nat /\ eventNo \in Nat
  BY <1>0, DatabasesTyped, AdminAssumption DEF AdminTypeOK, Steps, Ending
<1>2. Asked = IF limit < 0 THEN First(AfterOffset(offset), NMessages) ELSE First(AfterOffset(offset), ept * LoadEnd)
  BY <1>1 DEF Asked, LoadWanted, Wanted, LoadEnd
<1>3. /\ Upto(d) = First(AfterOffset(offset), Cardinality(Upto(d))) /\ AfterOffset(offset) \in SUBSET Idents
      /\ Cardinality(Upto(d)) \in 0..NMessages
  BY UptoTyped
<1>4. Cardinality(Upto(d)) = curCount + eventNo
  BY <1>0, <1>1 DEF CountAt, Handled
<1>5. CASE Past
  <2>1. limit \in Nat /\ curCount = ept * LoadEnd /\ eventNo = 0
    BY <1>0, <1>1, <1>5 DEF Past, LoadInv
  <2>2. Cardinality(Upto(d)) = ept * LoadEnd
    BY <1>1, <1>4, <2>1
  <2> QED BY <1>2, <1>3, <2>1, <2>2
<1>6. CASE ~Past
  <2>1. d = NMessages
    <3>1. Files # <<>>
      BY <1>1 DEF Files
    <3> QED BY <1>0, <1>1, <1>6, <3>1 DEF FileAt
  <2>2. Upto(d) = AfterOffset(offset)
    BY <1>3, <2>1, IdentNumbers DEF Upto
  <2>3. CASE limit < 0
    BY <1>2, <1>3, <2>2, <2>3, IdentNumbers, FirstIsAll
  <2>4. CASE ~(limit < 0)
    <3>1. limit \in Nat /\ limit # -1 /\ curCount < limit
      BY <1>1, <1>6, <2>4 DEF Past
    <3>2. eventNo < ept /\ curCount + ept <= ept * LoadEnd
      BY <1>0, <1>1, <3>1 DEF LoadInv
    <3>3. ept * LoadEnd \in Nat
      BY <1>1, <3>1, LoadEndIs
    <3>4. Cardinality(AfterOffset(offset)) <= ept * LoadEnd
      BY <1>1, <1>4, <2>2, <3>2, <3>3
    <3>5. First(AfterOffset(offset), ept * LoadEnd) = AfterOffset(offset)
      BY <1>3, <3>3, <3>4, FirstIsAll
    <3> QED BY <1>2, <2>2, <2>4, <3>5
  <2> QED BY <2>3, <2>4
<1> QED BY <1>5, <1>6

\* The end of load's files.
LEMMA NoFileFrontier == ASSUME Known, NEW d \in Nat, Frontier(d), NoFileLeft PROVE Frontier(d)'
<1>0. AdminTypeOK /\ Position(d) /\ SourceAt(d) /\ CountAt(d) /\ WorkAt(d)
  BY DEF Known, Frontier
<1>1. /\ UNCHANGED <<options, curCount, eventNo, stop, failed, dbs>> /\ pc = "open" /\ pc' = "finish" /\ files = <<>>
      /\ command' = command /\ ept' = ept /\ Asked' = Asked /\ Upto(d)' = Upto(d)
  BY OptionsFixed DEF NoFileLeft
<1>2. command = "load"
  BY <1>0, <1>1, DatabasesTyped DEF AdminTypeOK, Steps, Ending
<1>3. SourceAt(d)'
  BY <1>0, <1>1, <1>2, SourceKept
<1>4. FileAt(d)'
  BY <1>1 DEF FileAt
<1>5. CountAt(d)'
  BY <1>0, <1>1, CountKept
<1>6. WorkAt(d)'
  BY <1>0, <1>1, WorkKept DEF Ending
<1>7. EndAt(d)'
  BY <1>1, <1>2, LoadDoneAll DEF EndAt
<1> QED BY <1>0, <1>1, <1>2, <1>3, <1>4, <1>5, <1>6, <1>7, Aside DEF Frontier

\* The end of a file.
LEMMA LoadDoneFrontier == ASSUME Known, NEW d \in Nat, Frontier(d), LoadDone PROVE Frontier(d)'
<1>0. AdminTypeOK /\ Position(d) /\ SourceAt(d) /\ FileAt(d) /\ CountAt(d) /\ WorkAt(d)
  BY DEF Known, Frontier
<1>1. /\ UNCHANGED <<options, curCount, eventNo, stop, failed, dbs, files, page>> /\ pc = "read" /\ pc' = "open"
      /\ stop \/ page = {}
      /\ command' = command /\ limit' = limit /\ firstFile' = firstFile /\ Files' = Files
  BY OptionsFixed DEF LoadDone
<1>2. command = "load"
  BY <1>0, <1>1, DatabasesTyped DEF AdminTypeOK, Steps, Ending
<1>3. SourceAt(d)'
  BY <1>0, <1>1, <1>2, SourceKept
<1>4. FileAt(d)'
  <2> SUFFICES ASSUME ~stop, ~Past PROVE FileAt(d)'
    <3>1. Past' = Past /\ stop' = stop
      BY <1>1 DEF Past
    <3> QED BY <1>1, <3>1 DEF FileAt
  <2>1. /\ files = <<>> \/ (files = <<(firstFile + 1)..NMessages>> /\ firstFile # NMessages)
        /\ d <= FileEnd /\ page = Span(d, FileEnd)
    BY <1>0, <1>1, <1>2 DEF FileAt
  <2>2. FileEnd \in Nat /\ FileEnd <= NMessages
    BY <1>0, AdminAssumption DEF FileEnd, AdminTypeOK
  <2>3. d = FileEnd
    BY <1>1, <2>1, <2>2, SpanEmpty
  <2>4. \/ files = <<(firstFile + 1)..NMessages>> /\ firstFile # NMessages /\ d = firstFile
        \/ files = <<>> /\ d = NMessages
    BY <2>1, <2>3 DEF FileEnd
  <2> QED BY <1>1, <2>4 DEF FileAt
<1>5. CountAt(d)'
  BY <1>0, <1>1, CountKept
<1>6. WorkAt(d)'
  BY <1>0, <1>1, WorkKept DEF Ending
<1>7. EndAt(d)'
  BY <1>1, Aside
<1> QED BY <1>0, <1>1, <1>2, <1>3, <1>4, <1>5, <1>6, <1>7, Aside DEF Frontier

\* A message of a file: load passes over it, or is about to insert it.
LEMMA ReadFrontier == ASSUME Known, NEW d \in Nat, Frontier(d), ReadMessage PROVE \E c \in Nat : Frontier(c)'
<1> PICK r \in Affordable(ReadOnly(dbs["src"], "get")) :
      /\ Answered("src", r)
      /\ failed' = ~r.ok
      /\ toSkip' = IF r.ok /\ toSkip > 0 THEN toSkip - 1 ELSE toSkip
      /\ pc' = IF ~r.ok THEN "finish" ELSE IF toSkip > 0 THEN "read" ELSE IF Past THEN "open" ELSE "insert"
  BY DEF ReadMessage, Past
<1>0. AdminTypeOK /\ Position(d) /\ SourceAt(d) /\ FileAt(d) /\ CountAt(d) /\ WorkAt(d)
  BY DEF Known, Frontier
<1>1. /\ UNCHANGED <<options, curCount, eventNo, stop, files>> /\ pc = "read" /\ page # {} /\ ~stop
      /\ current' = Lowest(page) /\ page' = page \ {Lowest(page)}
      /\ command' = command /\ offset' = offset /\ limit' = limit /\ firstFile' = firstFile /\ Files' = Files
      /\ ept' = ept /\ Target' = Target /\ \A s : Upto(s)' = Upto(s)
  BY OptionsFixed DEF ReadMessage
<1>2. dbs' = dbs /\ r.ok \in BOOLEAN
  BY <1>0, ReadsLeave
<1>3. command = "load" /\ offset \in Nat /\ toSkip \in Nat
  BY <1>0, <1>1, DatabasesTyped DEF AdminTypeOK, Steps, Ending
<1>4. pc' \in {"finish", "read", "open", "insert"} /\ (pc' = "finish" => failed')
  OBVIOUS
<1>5. \A c : SourceAt(c)'
  BY <1>0, <1>1, <1>2, <1>3, SourceKept
<1>6. CountAt(d)'
  BY <1>0, <1>1, <1>4, CountKept
<1>7. WorkAt(d)'
  BY <1>0, <1>1, <1>2, <1>4, WorkKept DEF Ending
<1>8. \A c : EndAt(c)' /\ PageAt(c)' /\ DeletedAt(c)' /\ (Position(c) => Position(c)')
  BY <1>1, <1>3, <1>4, Aside
<1>9. Past' = Past /\ stop' = stop /\ FileBegin' = FileBegin /\ FileEnd' = FileEnd
  BY <1>1 DEF Past, FileBegin, FileEnd
<1>10. CASE pc' = "finish" \/ Past
  <2>1. pc' = "insert" => ~Past
    OBVIOUS
  <2>2. FileAt(d)'
    BY <1>4, <1>9, <1>10, <2>1 DEF FileAt
  <2> QED BY <1>0, <1>5, <1>6, <1>7, <1>8, <2>2 DEF Frontier
<1>11. CASE pc' # "finish" /\ ~Past
  <2>0. FileBegin \in Nat /\ FileEnd \in Nat /\ FileEnd <= NMessages
    BY <1>0, AdminAssumption DEF FileEnd, FileBegin, AdminTypeOK
  <2>1. /\ files = <<>> \/ (files = <<(firstFile + 1)..NMessages>> /\ firstFile # NMessages)
        /\ FileBegin <= d /\ d <= FileEnd /\ page = Span(d, FileEnd)
        /\ d + toSkip >= FileBegin + offset /\ (toSkip > 0 => d + toSkip = FileBegin + offset)
    BY <1>0, <1>1, <1>3, <1>11 DEF FileAt
  <2>2. Lowest(page) = d + 1 /\ d + 1 <= FileEnd /\ page' = Span(d + 1, FileEnd)
    BY <1>1, <2>0, <2>1, SpanFirst
  <2>3. CASE toSkip > 0
    <3>1. pc' = "read" /\ toSkip' = toSkip - 1
      BY <1>2, <1>11, <2>3
    <3>2. d + 1 \notin AfterOffset(offset)
      <4>1. d + 1 \in AfterOffset(offset) <=> d + 1 > FileBegin + offset
        BY <1>0, <1>3, <2>0, <2>1, <2>2, LoadNext
      <4>2. ~(d + 1 > FileBegin + offset)
        BY <1>3, <2>0, <2>1, <2>3
      <4> QED BY <4>1, <4>2
    <3>3. Upto(d + 1) = Upto(d)
      BY <3>2, UptoNext
    <3>4. Position(d + 1)
      BY <1>3, <2>0, <2>2, IdentNumbers DEF Position
    <3>5. FileAt(d + 1)'
      <4>1. files' = <<>> \/ (files' = <<(firstFile' + 1)..NMessages>> /\ firstFile' # NMessages)
        BY <1>1, <2>1
      <4>2. /\ FileBegin' <= d + 1 /\ d + 1 <= FileEnd' /\ page' = Span(d + 1, FileEnd')
            /\ d + 1 + toSkip' >= FileBegin' + offset'
            /\ toSkip' > 0 => d + 1 + toSkip' = FileBegin' + offset'
        BY <1>1, <1>3, <1>9, <2>0, <2>1, <2>2, <2>3, <3>1
      <4> QED BY <3>1, <4>1, <4>2 DEF FileAt
    <3>6. CountAt(d + 1)'
      BY <1>1, <1>6, <3>3 DEF CountAt
    <3>7. WorkAt(d + 1)'
      BY <1>1, <1>7, <3>3 DEF WorkAt
    <3> QED BY <1>5, <1>8, <3>4, <3>5, <3>6, <3>7 DEF Frontier
  <2>4. CASE ~(toSkip > 0)
    <3>1. pc' = "insert" /\ toSkip' = toSkip /\ toSkip = 0 /\ current' = d + 1
      BY <1>1, <1>2, <1>3, <1>11, <2>2, <2>4
    <3>2. FileAt(d)'
      <4>1. files' = <<>> \/ (files' = <<(firstFile' + 1)..NMessages>> /\ firstFile' # NMessages)
        BY <1>1, <2>1
      <4>2. /\ FileBegin' <= d /\ d <= FileEnd' /\ page' = Span(current', FileEnd')
            /\ d + toSkip' >= FileBegin' + offset' /\ ~(toSkip' > 0) /\ current' <= FileEnd'
        BY <1>1, <1>9, <2>1, <2>2, <2>4, <3>1
      <4> QED BY <3>1, <4>1, <4>2 DEF FileAt
    <3> QED BY <1>0, <1>5, <1>6, <1>7, <1>8, <3>2 DEF Frontier
  <2> QED BY <2>3, <2>4
<1> QED BY <1>4, <1>10, <1>11

\* A signal only stops the program.
LEMMA InterruptFrontier == ASSUME NEW d \in Nat, Frontier(d), Interrupt PROVE Frontier(d)'
<1>0. /\ Position(d) /\ SourceAt(d) /\ DeletedAt(d) /\ PageAt(d) /\ FileAt(d) /\ CountAt(d) /\ WorkAt(d)
  BY DEF Frontier
<1>1. /\ UNCHANGED <<options, files, limitCopy, toSkip, curCount, eventNo, dbs, page, current, tbl, failed, pc>>
      /\ stop'
      /\ command' = command /\ offset' = offset /\ limit' = limit /\ firstFile' = firstFile /\ Files' = Files
      /\ ept' = ept /\ Target' = Target /\ \A s : Upto(s)' = Upto(s)
  BY OptionsFixed DEF Interrupt
<1>2. SourceAt(d)' /\ DeletedAt(d)'
  BY <1>0, <1>1 DEF SourceAt, DeletedAt
<1>3. PageAt(d)'
  BY <1>0, <1>1 DEF PageAt
<1>4. FileAt(d)'
  <2>1. FileBegin' = FileBegin /\ FileEnd' = FileEnd
    BY <1>1 DEF FileBegin, FileEnd
  <2> QED BY <1>0, <1>1, <2>1 DEF FileAt
<1>5. CountAt(d)'
  <2>1. Handled' = Handled
    BY <1>1 DEF Handled
  <2> QED BY <1>0, <1>1, <2>1 DEF CountAt
<1>6. WorkAt(d)'
  <2>1. Over' = Over
    BY <1>1 DEF Over
  <2> QED BY <1>0, <1>1, <2>1 DEF WorkAt
<1>7. EndAt(d)'
  BY <1>1 DEF EndAt
<1> QED BY <1>0, <1>1, <1>2, <1>3, <1>4, <1>5, <1>6, <1>7, Aside DEF Frontier

\* At first the frontier is the offset, or the start of the first file.
LEMMA InitOrder == Init => OrderInv
<1> SUFFICES ASSUME Init PROVE OrderInv
  OBVIOUS
<1> DEFINE d == IF command = "load" THEN 0 ELSE offset
<1>0. AdminTypeOK
  BY InitAdminType
<1>1. /\ offset \in Nat /\ d \in Nat /\ limit \in Int
      /\ command \in {"copy", "move", "delete", "save", "print", "load"}
  BY <1>0, DatabasesTyped
<1>2. /\ pc = "start" /\ ~failed /\ curCount = 0 /\ eventNo = 0 /\ files = Files /\ limitCopy = limit
      /\ dbs["src"] = Settled(Everything) /\ dbs["dst"] = Settled(Nothing)
  BY DEF Init
<1>3. Everything \in Contents /\ Nothing \in Contents
  BY DEF Everything, Nothing, Contents, States
<1>4. Position(d)
  BY <1>1, IdentNumbers DEF Position
<1>5. Upto(d) = {} /\ Cardinality(Upto(d)) = 0
  <2>1. \A i \in AfterOffset(offset) : i \in Nat /\ i > offset /\ i > 0
    BY IdentNumbers DEF AfterOffset
  <2>2. Upto(d) = {}
    BY <1>1, <2>1 DEF Upto
  <2> QED BY <2>2, FS_EmptySet
<1>6. SourceAt(d)
  <2>1. Span(offset, offset) = {}
    BY <1>1, SpanEmpty
  <2>2. Removed(Everything, {}) = Everything
    BY DEF Removed, Everything
  <2>3. command = "move" => d = offset
    OBVIOUS
  <2>4. pc \notin InPage
    BY <1>2 DEF InPage
  <2> HIDE DEF d
  <2> QED BY <1>1, <1>2, <2>1, <2>2, <2>3, <2>4 DEF SourceAt
<1>7. DeletedAt(d)
  <2>1. /\ dbs["src"].work = Everything /\ dbs["src"].stored = Everything /\ dbs["src"].tx = "none"
        /\ Gone(Everything) = {}
    BY <1>2, <1>3, SettledFields, PresentEnds
  <2> HIDE DEF d
  <2> QED BY <1>1, <1>5, <2>1 DEF DeletedAt
<1>8. PageAt(d)
  <2>1. command # "load" => d + limitCopy = offset + limit
    BY <1>2
  <2> HIDE DEF d
  <2> QED BY <1>1, <1>2, <2>1 DEF PageAt
<1>9. FileAt(d)
  <2>1. command = "load" => d = 0
    OBVIOUS
  <2> HIDE DEF d
  <2> QED BY <1>2, <2>1 DEF FileAt
<1>10. CountAt(d)
  <2> HIDE DEF d
  <2> QED BY <1>2, <1>5 DEF CountAt, Handled
<1>11. WorkAt(d)
  <2>1. /\ dbs["dst"].work = Nothing /\ dbs["dst"].stored = Nothing /\ dbs["dst"].tx = "none"
        /\ Present(Nothing) = {} /\ \A i \in Idents : Nothing[i] # "twice"
    BY <1>2, <1>3, SettledFields, PresentEnds
  <2> HIDE DEF d
  <2> QED BY <1>1, <1>2, <1>5, <2>1 DEF WorkAt
<1>12. EndAt(d)
  <2> HIDE DEF d
  <2> QED BY <1>2 DEF EndAt
<1> HIDE DEF d
<1> QED BY <1>1, <1>4, <1>6, <1>7, <1>8, <1>9, <1>10, <1>11, <1>12 DEF OrderInv, Frontier

\* Every step keeps a frontier.
LEMMA NextOrder == ASSUME "save" \notin Faulty, Known, OrderInv, [Next]_vars PROVE OrderInv'
<1> PICK d \in Nat : Frontier(d)
  BY DEF OrderInv
<1>1. CASE Program
  <2>1. (\E c \in Nat : Frontier(c)') => OrderInv'
    BY DEF OrderInv
  <2>2. CASE Start \/ Fetch \/ GetMessage \/ EndPage \/ Evict \/ Leftover \/ Count
    BY <2>1, <2>2, StartFrontier, FetchFrontier, GetFrontier, EndPageFrontier, EvictFrontier, LeftoverFrontier,
       CountFrontier
  <2>3. CASE FlushEnd \/ FlushStart \/ SaveDone \/ Loop \/ Finish \/ DestroyDatabases
    BY <2>1, <2>3, FlushEndFrontier, FlushStartFrontier, SaveDoneFrontier, LoopFrontier, FinishFrontier,
       DestroyFrontier
  <2>4. CASE OpenFile \/ NoFileLeft \/ LoadDone
    BY <2>1, <2>4, OpenFrontier, NoFileFrontier, LoadDoneFrontier
  <2>5. CASE Insert \/ Purge \/ SaveMessage \/ ReadMessage
    BY <2>1, <2>5, InsertFrontier, PurgeFrontier, SaveFrontier, ReadFrontier
  <2> QED BY <1>1, <2>2, <2>3, <2>4, <2>5 DEF Program
<1>2. CASE Interrupt
  BY <1>2, InterruptFrontier DEF OrderInv
<1>3. CASE Finished \/ UNCHANGED vars
  <2>1. UNCHANGED vars /\ UNCHANGED options
    BY <1>3 DEF Finished, vars, options
  <2>2. /\ UNCHANGED <<files, limitCopy, toSkip, curCount, eventNo, dbs, page, current, tbl, failed, stop, pc>>
        /\ command' = command /\ offset' = offset /\ limit' = limit /\ firstFile' = firstFile /\ Files' = Files
        /\ ept' = ept /\ Target' = Target /\ Asked' = Asked /\ \A s : Upto(s)' = Upto(s)
    BY <2>1, OptionsFixed DEF vars
  <2>3. FileBegin' = FileBegin /\ FileEnd' = FileEnd /\ Handled' = Handled /\ Over' = Over /\ Past' = Past
    BY <2>2 DEF FileBegin, FileEnd, Handled, Over, Past
  <2>4. (Position(d) => Position(d)') /\ (SourceAt(d) => SourceAt(d)') /\ (DeletedAt(d) => DeletedAt(d)')
    BY <2>2 DEF Position, SourceAt, DeletedAt
  <2>5. (PageAt(d) => PageAt(d)') /\ (FileAt(d) => FileAt(d)')
    BY <2>2, <2>3 DEF PageAt, FileAt
  <2>6. (CountAt(d) => CountAt(d)') /\ (WorkAt(d) => WorkAt(d)') /\ (EndAt(d) => EndAt(d)')
    BY <2>2, <2>3 DEF CountAt, WorkAt, EndAt
  <2> QED BY <2>4, <2>5, <2>6 DEF OrderInv, Frontier
<1> QED BY <1>1, <1>2, <1>3 DEF Next

-----------------------------------------------------------------------------
(***************************************************************************)
(* What the frontier shows                                                 *)
(***************************************************************************)

\* All that was proved of the program holds in every state.
LEMMA KnownInvariant == Spec => []Known
<1>1. AdminTypeOK /\ TxInv /\ PageInv /\ PagesInv /\ FlowInv /\ LimitInv /\ LoadInv => Known
  BY DEF Known
<1> QED BY <1>1, AdminTypeCorrect, TxInvariant, PageInvariant, PagesInvariant, FlowInvariant, LimitInvariant,
           LoadInvariant, PTL

\* In every state of every command there is a frontier with which the two databases, the
\* page, delete_tbl, the file that load reads, the limit and the counters agree, as long as
\* save passes over no message.
THEOREM OrderCorrect == ASSUME "save" \notin Faulty PROVE Spec => []OrderInv
<1>1. Known /\ OrderInv /\ [Next]_vars => OrderInv'
  BY NextOrder
<1> QED BY <1>1, InitOrder, KnownInvariant, PTL DEF Spec

\* What is done of a command: the messages up to a place that is at least curCount messages
\* after the offset.
LEMMA ProcessedIs ==
  ASSUME "commit" \notin Faulty, AdminTypeOK, OrderInv
  PROVE  \E s \in Nat : /\ Processed = Upto(s)
                        /\ command \notin {"move", "delete"} => Cardinality(Upto(s)) >= curCount
<1> PICK d \in Nat : Frontier(d)
  BY DEF OrderInv
<1>1. CASE command = "delete"
  <2>1. PICK s \in Nat : Gone(dbs["src"].stored) = Upto(s)
    BY <1>1 DEF Frontier, DeletedAt
  <2>2. Processed = Gone(dbs["src"].stored)
    BY <1>1 DEF Processed, Gone
  <2> QED BY <1>1, <2>1, <2>2
<1>2. CASE command # "delete"
  <2>1. PICK s \in Nat : /\ Present(dbs["dst"].stored) = Upto(s)
                         /\ command # "move" => Cardinality(Upto(s)) >= curCount
    BY <1>2 DEF Frontier, WorkAt
  <2>2. Processed = Present(dbs["dst"].stored)
    BY <1>2 DEF Processed, Present
  <2> QED BY <1>2, <2>1, <2>2
<1> QED BY <1>1, <1>2

\* No message is copied, moved, saved or loaded twice, whichever calls fail, a COMMIT that
\* may or may not have been carried out included; only save must not pass over a message,
\* since the offset of its next page does not count it.
THEOREM NoDuplicateCorrect == ASSUME "save" \notin Faulty PROVE Spec => []NoDuplicate
<1>1. OrderInv => NoDuplicate
  BY DEF OrderInv, Frontier, WorkAt, NoDuplicate
<1> QED BY <1>1, OrderCorrect, PTL

\* At every instant, whatever has failed and whenever a signal came, the messages processed
\* are the first after the offset: cmd_copy and cmd_delete pass over none, whatever the
\* size of the pages, the count and the files of load, when COMMIT does not fail.
THEOREM InOrderCorrect == ASSUME "save" \notin Faulty, "commit" \notin Faulty PROVE Spec => []InOrder
<1>1. AdminTypeOK /\ OrderInv => InOrder
  <2> SUFFICES ASSUME AdminTypeOK, OrderInv PROVE InOrder
    OBVIOUS
  <2>1. PICK s \in Nat : Processed = Upto(s)
    BY ProcessedIs
  <2> QED BY <2>1, UptoTyped DEF InOrder
<1> QED BY <1>1, AdminTypeCorrect, OrderCorrect, PTL

\* A command that ends without an error or a signal has processed what the offset and the
\* count ask for, no more and no less, and a move has taken just that from the source, for
\* every size of the transactions but 0, with which the pages are empty.
THEOREM CompleteCorrect ==
  ASSUME "save" \notin Faulty, "commit" \notin Faulty, 0 \notin EptValues
  PROVE  Spec => []Complete
<1>1. AdminTypeOK /\ TxInv /\ OrderInv => Complete
  <2> SUFFICES ASSUME AdminTypeOK, TxInv, OrderInv, pc = "done", ~failed, ~stop
               PROVE  /\ Processed = Asked
                      /\ \A i \in Idents : command # "delete" =>
                           dbs["src"].stored[i] = IF command = "move" /\ i \in Wanted THEN "absent" ELSE "whole"
    BY DEF Complete, Asked
  <2> PICK d \in Nat : Frontier(d)
    BY DEF OrderInv
  <2>0. /\ Position(d) /\ SourceAt(d) /\ DeletedAt(d) /\ WorkAt(d) /\ EndAt(d) /\ ept # 0 /\ offset \in Nat
        /\ command \in {"copy", "move", "delete", "save", "print", "load"}
    BY DatabasesTyped DEF Frontier, AdminTypeOK
  <2>1. Upto(d) = Asked
    BY <2>0 DEF EndAt
  <2>2. \A x \in {"src", "dst"} : dbs[x].tx = "none" /\ dbs[x].work = dbs[x].stored
    BY <2>0 DEF WorkAt, TxInv, Consistent
  <2>3. Processed = Upto(d)
    <3>1. CASE command = "delete"
      <4>1. Processed = Gone(dbs["src"].stored)
        BY <3>1 DEF Processed, Gone
      <4> QED BY <2>0, <2>2, <3>1, <4>1 DEF DeletedAt
    <3>2. CASE command # "delete"
      <4>1. Processed = Present(dbs["dst"].stored)
        BY <3>2 DEF Processed, Present
      <4> QED BY <2>0, <2>2, <3>2, <4>1 DEF WorkAt, Over
    <3> QED BY <3>1, <3>2
  <2>4. ASSUME NEW i \in Idents, command # "delete"
        PROVE  dbs["src"].stored[i] = IF command = "move" /\ i \in Wanted THEN "absent" ELSE "whole"
    <3>1. Everything \in Contents /\ \A S : Removed(Everything, S) \in Contents
      BY DEF Everything, Removed, Contents, States
    <3>2. CASE command = "move"
      <4>1. dbs["src"] = Settled(Removed(Everything, Span(offset, d)))
        BY <2>0, <3>2 DEF SourceAt, InPage
      <4>2. dbs["src"].stored = Removed(Everything, Span(offset, d))
        BY <3>1, <4>1, SettledFields
      <4>3. Wanted = Span(offset, d)
        BY <2>0, <2>1, <3>2, UptoSpan DEF Asked
      <4> QED BY <2>4, <3>2, <4>2, <4>3 DEF Removed, Everything
    <3>3. CASE command # "move"
      <4>1. dbs["src"].stored = Everything
        BY <2>0, <2>4, <3>1, <3>3, SettledFields DEF SourceAt
      <4> QED BY <2>4, <3>3, <4>1 DEF Everything
    <3> QED BY <3>2, <3>3
  <2> QED BY <2>1, <2>3, <2>4
<1> QED BY <1>1, AdminTypeCorrect, TxInvariant, OrderCorrect, PTL

\* copy, save, print, and load from one file: the offset that main prints when a command
\* was stopped or failed is one from which it finds every message it has left.
THEOREM ResumeCorrect == ASSUME "save" \notin Faulty, "commit" \notin Faulty PROVE Spec => []CopyResumes
<1>1. AdminTypeOK /\ OrderInv => CopyResumes
  <2> SUFFICES ASSUME AdminTypeOK, OrderInv, command \notin {"move", "delete"}, Len(Files) <= 1
               PROVE  ResumeMissesNothing
    BY DEF CopyResumes
  <2> PICK d \in Nat : Frontier(d)
    BY DEF OrderInv
  <2>0. /\ offset \in Nat /\ curCount \in Nat /\ SourceAt(d) /\ NMessages \in Nat
        /\ command \in {"copy", "save", "print", "load"}
    BY DatabasesTyped, AdminAssumption DEF AdminTypeOK, Frontier
  <2>1. PICK s \in Nat : Processed = Upto(s) /\ Cardinality(Upto(s)) >= curCount
    BY ProcessedIs
  <2>2. command = "load" => firstFile = NMessages
    <3> SUFFICES ASSUME command = "load", firstFile # NMessages PROVE FALSE
      OBVIOUS
    <3>1. Len(Files) = 2
      BY DEF Files
    <3> QED BY <3>1
  <2>3. \A n \in Nat : AfterOffset(n) = {i \in Idents : i > n}
    BY <2>2, IdentNumbers DEF AfterOffset
  <2>4. ASSUME NEW i \in AfterOffset(offset) \ Processed
        PROVE  i \in Idents /\ i > offset + curCount
    <3>1. i \in Idents /\ i \in Nat /\ i <= NMessages /\ i > offset /\ i > s
      BY <2>0, <2>1, <2>3, <2>4, IdentNumbers DEF Upto
    <3>2. CASE s <= offset
      <4>1. Upto(s) = {}
        BY <2>0, <2>3, <3>2, IdentNumbers DEF Upto
      <4>2. curCount = 0
        BY <2>0, <2>1, <4>1, FS_EmptySet
      <4> QED BY <2>0, <3>1, <4>2
    <3>3. CASE ~(s <= offset)
      <4>1. Upto(s) = Span(offset, s)
        BY <2>0, <2>3 DEF Upto, Span
      <4>2. Cardinality(Upto(s)) = s - offset
        BY <2>0, <3>1, <3>3, <4>1, SpanCounted
      <4> QED BY <2>0, <2>1, <3>1, <4>2
    <3> QED BY <3>2, <3>3, <2>0
  <2>5. CASE command = "load"
    <3>1. AfterOffset(offset + curCount) = {i \in Idents : i > offset + curCount}
      BY <2>0, <2>3
    <3> QED BY <2>4, <2>5, <3>1 DEF ResumeMissesNothing
  <2>6. CASE command # "load"
    <3> DEFINE o == offset + curCount
    <3>1. o \in Nat
      BY <2>0
    <3>2. dbs["src"] = Settled(Everything) /\ Everything \in Contents
      BY <2>0, <2>6 DEF SourceAt, Everything, Contents, States
    <3> HIDE DEF o
    <3>3. Gone(dbs["src"].work) = Span(o, o)
      <4>1. dbs["src"].work = Everything
        BY <3>2, SettledFields
      <4>2. Span(o, o) = {}
        BY <3>1, IdentNumbers DEF Span
      <4> QED BY <4>1, <4>2, PresentEnds
    <3>4. Slice(dbs["src"], o, NMessages) = Span(o, o + NMessages)
      BY <2>0, <3>1, <3>3, SliceSpan
    <3>5. ASSUME NEW i \in AfterOffset(offset) \ Processed PROVE i \in Span(o, o + NMessages)
      <4>1. i \in Idents /\ i > o
        BY <2>4 DEF o
      <4>2. i \in Nat /\ i <= NMessages
        BY <4>1, IdentNumbers
      <4> QED BY <2>0, <3>1, <4>1, <4>2 DEF Span
    <3>6. AfterOffset(offset) \ Processed \subseteq Slice(dbs["src"], offset + curCount, NMessages)
      BY <3>4, <3>5 DEF o
    <3> QED BY <2>6, <3>6 DEF ResumeMissesNothing
  <2> QED BY <2>5, <2>6
<1> QED BY <1>1, AdminTypeCorrect, OrderCorrect, PTL
=============================================================================
