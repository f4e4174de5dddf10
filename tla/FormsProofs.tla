---------------------------- MODULE FormsProofs ----------------------------
(***************************************************************************)
(* Proofs about the two editors that turn text into controls and back:     *)
(* PolicyForm, for every set of types, ids, condition bodies and stored    *)
(* texts, and ContextBuilder, for every finite set of keys.                *)
(*                                                                         *)
(* Of the policy form there are two arguments.  What is read from a text   *)
(* is one of a few shapes, and a clause of such a shape is read again as   *)
(* what it was written from unless a condition says something stronger,    *)
(* in which case the next reading is the last (ThirdTimeSame).  DialogInv  *)
(* is what the form, and the policy it is reset to, keep while the         *)
(* controls are used in any order.  ContextInv relates the list of the     *)
(* context builder to the text it has written, or was read from.           *)
(***************************************************************************)
EXTENDS PolicyForm, ContextBuilder, FiniteSetTheorems, TLAPS

Scopes == [op : ScopeOps, entity : Refs \cup {None}, entities : Seq(Refs) \cup {None}]

Forms == [id : PolicyIds \cup {NoId}, effect : Effects, principal : Scopes,
          action : Scopes, resource : Scopes, conditions : Seq(Conditions)]

-----------------------------------------------------------------------------
(* Indices: the first one, the last one, and the elements at some of them. *)

LEMMA MinIs ==
    ASSUME NEW is \in SUBSET Nat, is # {}
    PROVE  Min(is) \in is /\ \A j \in is : Min(is) <= j
<1>1. PICK i \in is : \A j \in is : <<j, i>> \notin OpToRel(<, Nat)
  BY NatLessThanWellFounded, WFMin
<1>2. \A j \in is : ~(j < i)
  <2> TAKE j \in is
  <2>1. i \in Nat /\ j \in Nat
    OBVIOUS
  <2> QED  BY <2>1, <1>1 DEF OpToRel
<1>3. \A j \in is : i <= j
  BY <1>2
<1> QED  BY <1>3 DEF Min

\* The least upper bound of the indices is one of them.
LEMMA MaxIs ==
    ASSUME NEW n \in Nat, NEW is \in SUBSET (1 .. n), is # {}
    PROVE  Max(is) \in is /\ \A j \in is : j <= Max(is)
<1> DEFINE Bounds == {b \in Nat : \A j \in is : j <= b}
           b == Min(Bounds)
<1>1. Bounds # {} /\ Bounds \in SUBSET Nat
  <2>1. n \in Bounds
    OBVIOUS
  <2> QED  BY <2>1
<1>2. b \in Bounds /\ \A c \in Bounds : b <= c
  <2> HIDE DEF Bounds
  <2> QED  BY <1>1, MinIs
<1> HIDE DEF b
<1>3. b \in is
  <2> SUFFICES ASSUME b \notin is  PROVE FALSE
    OBVIOUS
  <2>1. PICK j \in is : TRUE
    OBVIOUS
  <2>2. b - 1 \in Bounds
    BY <1>2, <2>1
  <2> QED  BY <1>2, <2>2
<1>4. \A j \in is : j <= b
  BY <1>2
<1>5. \E i \in is : \A j \in is : i >= j
  BY <1>3, <1>4
<1> QED  BY <1>5 DEF Max

\* Every rank is taken: ranks are as many as indices, and no two indices share one.
LEMMA AtIsOfThem ==
    ASSUME NEW S, NEW s \in Seq(S), NEW is \in SUBSET DOMAIN s
    PROVE  /\ At(s, is) \in Seq({s[i] : i \in is})
           /\ Cardinality(is) \in Nat
           /\ Len(At(s, is)) = Cardinality(is)
           /\ is # {} => Cardinality(is) # 0
<1> DEFINE Rank(i) == Cardinality({j \in is : j <= i})
           n == Cardinality(is)
           rank == [i \in is |-> Rank(i)]
<1>1. IsFiniteSet(is) /\ n \in Nat /\ is \in SUBSET Nat
  <2>1. IsFiniteSet(1 .. Len(s))
    BY FS_Interval
  <2> QED  BY <2>1, FS_Subset, FS_CardinalityType
<1>2. \A i \in is : IsFiniteSet({j \in is : j <= i}) /\ Rank(i) \in Nat /\ Rank(i) <= n
  <2> TAKE i \in is
  <2>1. {j \in is : j <= i} \in SUBSET is
    OBVIOUS
  <2> QED  BY <1>1, <2>1, FS_Subset, FS_CardinalityType
<1>3. \A i \in is : Rank(i) # 0
  <2> TAKE i \in is
  <2>1. i \in {j \in is : j <= i}
    BY <1>1
  <2> QED  BY <1>2, <2>1, FS_EmptySet
<1>4. ASSUME NEW i \in is, NEW j \in is, i < j  PROVE Rank(i) < Rank(j)
  <2> DEFINE low == {k \in is : k <= i}
             high == {k \in is : k <= j}
  <2>1. low \in SUBSET high /\ j \in high /\ j \notin low
    BY <1>1, <1>4
  <2>2. IsFiniteSet(high) /\ Cardinality(low) \in Nat /\ Cardinality(high) \in Nat
    BY <1>2
  <2> HIDE DEF low, high
  <2>3. Cardinality(low) <= Cardinality(high) /\ Cardinality(low) # Cardinality(high)
    BY <2>1, <2>2, FS_Subset
  <2>4. Cardinality(low) < Cardinality(high)
    BY <2>2, <2>3
  <2> QED  BY <2>4 DEF low, high
<1>5. rank \in Injection(is, 1 .. n)
  <2>1. rank \in [is -> 1 .. n]
    <3> HIDE DEF n
    <3>1. \A i \in is : Rank(i) \in 1 .. n
      <4> TAKE i \in is
      <4>1. Rank(i) \in Nat /\ Rank(i) <= n /\ Rank(i) # 0
        BY <1>2, <1>3
      <4> HIDE DEF Rank
      <4> QED  BY <1>1, <4>1
    <3> QED  BY <3>1
  <2>2. \A i, j \in is : rank[i] = rank[j] => i = j
    <3> TAKE i, j \in is
    <3>1. i \in Nat /\ j \in Nat
      BY <1>1
    <3>2. rank[i] = Rank(i) /\ rank[j] = Rank(j) /\ Rank(i) \in Nat /\ Rank(j) \in Nat
      BY <1>2
    <3>3. (i < j => Rank(i) < Rank(j)) /\ (j < i => Rank(j) < Rank(i))
      BY <1>4
    <3> HIDE DEF Rank, rank
    <3> QED  BY <3>1, <3>2, <3>3
  <2> HIDE DEF rank, n
  <2> QED  BY <2>1, <2>2 DEF Injection, IsInjective
<1>6. rank \in Surjection(is, 1 .. n)
  <2>1. IsFiniteSet(1 .. n) /\ Cardinality(1 .. n) = n
    BY <1>1, FS_Interval
  <2> HIDE DEF rank
  <2> QED  BY <1>5, <2>1, FS_Injection
<1>7. \A k \in 1 .. n : \E i \in is : Rank(i) = k
  <2>1. \A k \in 1 .. n : \E i \in is : rank[i] = k
    <3> HIDE DEF rank, n
    <3> QED  BY <1>6 DEF Surjection
  <2> QED  BY <2>1
<1>8. At(s, is) = [k \in 1 .. n |-> s[CHOOSE i \in is : Rank(i) = k]]
  BY DEF At
<1>9. \A k \in 1 .. n : s[CHOOSE i \in is : Rank(i) = k] \in {s[i] : i \in is}
  <2> TAKE k \in 1 .. n
  <2>1. (CHOOSE i \in is : Rank(i) = k) \in is
    BY <1>7
  <2> QED  BY <2>1
<1> HIDE DEF Rank, n
<1>10. At(s, is) \in [1 .. n -> {s[i] : i \in is}]
  BY <1>8, <1>9
<1>11. At(s, is) \in Seq({s[i] : i \in is}) /\ Len(At(s, is)) = n
  <2> DEFINE T == {s[i] : i \in is}
  <2> HIDE DEF T
  <2>1. At(s, is) \in [1 .. n -> T]
    BY <1>10 DEF T
  <2> QED  BY <1>1, <2>1 DEF T
<1> QED  BY <1>1, <1>11, FS_EmptySet DEF n

LEMMA AtNone ==
    ASSUME NEW s
    PROVE  At(s, {}) = <<>>
<1>1. Cardinality({}) = 0
  BY FS_EmptySet
<1> QED  BY <1>1 DEF At

LEMMA AtAll ==
    ASSUME NEW S, NEW s \in Seq(S)
    PROVE  At(s, DOMAIN s) = s
<1> DEFINE n == Len(s)
           Rank(i) == Cardinality({j \in DOMAIN s : j <= i})
<1>1. DOMAIN s = 1 .. n /\ n \in Nat
  OBVIOUS
<1>2. \A i \in 1 .. n : Rank(i) = i
  <2> TAKE i \in 1 .. n
  <2>1. {j \in DOMAIN s : j <= i} = 1 .. i
    BY <1>1
  <2>2. Cardinality(1 .. i) = i
    BY FS_Interval
  <2> QED  BY <2>1, <2>2
<1>3. Cardinality(1 .. n) = n
  <2> HIDE DEF n
  <2> QED  BY <1>1, FS_Interval
<1>4. At(s, DOMAIN s) = [k \in 1 .. n |-> s[CHOOSE i \in DOMAIN s : Rank(i) = k]]
  BY <1>1, <1>3 DEF At
<1> HIDE DEF Rank, n
<1>5. \A k \in 1 .. n : (CHOOSE i \in DOMAIN s : Rank(i) = k) = k
  BY <1>1, <1>2
<1>6. At(s, DOMAIN s) = [k \in 1 .. n |-> s[k]]
  BY <1>4, <1>5
<1>7. s = [k \in 1 .. n |-> s[k]]
  BY <1>1
<1> QED  BY <1>6, <1>7

Clauses == {c \in [op : ClauseOps, refs : Seq(Refs)] : IsClause(c)}

-----------------------------------------------------------------------------
(* Reading a text: what comes of a clause, and of what follows it. *)

LEMMA SaysClause ==
    ASSUME NEW b \in Bodies, NEW v \in Vars
    PROVE  Says[b][v] \in Clauses
BY PolicyTextAssumption DEF Clauses, IsClause

\* What is said of v: its own clause, and then one for each condition.
LEMMA MentionsAre ==
    ASSUME NEW text, IsText(text), NEW v \in Vars
    PROVE  /\ Mentions(text, v) \in Seq(Clauses)
           /\ DOMAIN Mentions(text, v) = 1 .. Len(text.conditions) + 1
           /\ Len(text.conditions) \in Nat
           /\ Mentions(text, v)[1] = text[v]
           /\ \A i \in 1 .. Len(text.conditions) :
                 Mentions(text, v)[i + 1] = Says[text.conditions[i].body][v]
<1> DEFINE n == Len(text.conditions)
           tail == [i \in 1 .. n |-> Says[text.conditions[i].body][v]]
<1>1. n \in Nat /\ text[v] \in Clauses
  BY DEF IsText, IsClause, Clauses
<1>2. \A i \in 1 .. n : Says[text.conditions[i].body][v] \in Clauses
  <2> TAKE i \in 1 .. n
  <2>1. text.conditions[i] \in Conditions
    BY DEF IsText
  <2> QED  BY <2>1, SaysClause DEF Conditions
<1>3. /\ tail \in Seq(Clauses) /\ Len(tail) = n
      /\ \A i \in 1 .. n : tail[i] = Says[text.conditions[i].body][v]
  <2> HIDE DEF n
  <2> QED  BY <1>1, <1>2
<1>4. Mentions(text, v) = <<text[v]>> \o tail
  BY DEF Mentions
<1> HIDE DEF tail, n
<1>5. <<text[v]>> \in Seq(Clauses) /\ Len(<<text[v]>>) = 1 /\ <<text[v]>>[1] = text[v]
  BY <1>1
<1> QED  BY <1>1, <1>3, <1>4, <1>5 DEF n

LEMMA SameTail ==
    ASSUME NEW a, NEW b, IsText(a), IsText(b), a.conditions = b.conditions, NEW v \in Vars
    PROVE  \A i \in DOMAIN Mentions(a, v) : i # 1 => Mentions(a, v)[i] = Mentions(b, v)[i]
<1> SUFFICES ASSUME NEW i \in DOMAIN Mentions(a, v), i # 1
             PROVE  Mentions(a, v)[i] = Mentions(b, v)[i]
  OBVIOUS
<1>1. PICK j \in 1 .. Len(a.conditions) : i = j + 1
  <2>1. Len(a.conditions) \in Nat /\ i \in 1 .. Len(a.conditions) + 1
    BY MentionsAre
  <2>2. i - 1 \in 1 .. Len(a.conditions) /\ i = (i - 1) + 1
    BY <2>1
  <2> QED  BY <2>2
<1>2. Mentions(a, v)[j + 1] = Says[a.conditions[j].body][v]
  BY MentionsAre
<1>3. Mentions(b, v)[j + 1] = Says[b.conditions[j].body][v]
  BY MentionsAre
<1> QED  BY <1>1, <1>2, <1>3

LEMMA MinIsOne ==
    ASSUME NEW is \in SUBSET Nat, 1 \in is, \A i \in is : 1 <= i
    PROVE  Min(is) = 1
<1>1. Min(is) \in is /\ Min(is) <= 1
  BY MinIs
<1>2. \A m \in Nat : 1 <= m /\ m <= 1 => m = 1
  OBVIOUS
<1> QED  BY <1>1, <1>2

\* An entity that is read is one of the texts's clauses of that operator.
LEMMA ReadEntityIs ==
    ASSUME NEW text, IsText(text), NEW v \in Vars, NEW written, NEW op, NEW types
    PROVE  \/ ReadEntity(text, v, written, op, types) = AllScope
           \/ \E e \in Refs : /\ ReadEntity(text, v, written, op, types) = Scope(op, e, None)
                              /\ Plain(e) /\ e.type \in types
<1> DEFINE said == Mentions(text, v)
           hits == {i \in DOMAIN said : Matches(said[i], written, types)}
<1>1. said \in Seq(Clauses) /\ DOMAIN said \subseteq Nat
  BY MentionsAre
<1>2. CASE hits = {}
  BY <1>2 DEF ReadEntity
<1>3. CASE hits # {}
  <2>1. Min(hits) \in hits
    BY <1>1, <1>3, MinIs
  <2> DEFINE c == said[Min(hits)]
  <2>2. c \in Clauses /\ Matches(c, written, types)
    BY <1>1, <2>1
  <2>3. c.refs[1] \in Refs /\ Plain(c.refs[1]) /\ c.refs[1].type \in types
    <3> HIDE DEF c
    <3>1. c.refs \in Seq(Refs) /\ Len(c.refs) = 1
      BY <2>2 DEF Matches, Clauses
    <3>2. c.refs[1] \in Refs
      BY <3>1
    <3> QED  BY <2>2, <3>2 DEF Matches
  <2>4. ReadEntity(text, v, written, op, types) = Scope(op, c.refs[1], None)
    BY <1>3 DEF ReadEntity
  <2> QED  BY <2>3, <2>4
<1> QED  BY <1>2, <1>3

\* The clause of the variable comes first.
LEMMA ReadEntityHead ==
    ASSUME NEW text, IsText(text), NEW v \in Vars, NEW written, NEW op, NEW types,
           Matches(text[v], written, types)
    PROVE  ReadEntity(text, v, written, op, types) = Scope(op, text[v].refs[1], None)
<1> DEFINE said == Mentions(text, v)
           hits == {i \in DOMAIN said : Matches(said[i], written, types)}
<1>1. 1 \in hits /\ hits \subseteq Nat /\ \A i \in hits : 1 <= i
  BY MentionsAre
<1>2. Min(hits) = 1
  <2> HIDE DEF hits
  <2> QED  BY <1>1, MinIsOne
<1> QED  BY <1>1, <1>2, MentionsAre DEF ReadEntity

\* Two clauses that do not match leave the choice to the conditions.
LEMMA ReadEntityTail ==
    ASSUME NEW a, NEW b, IsText(a), IsText(b), a.conditions = b.conditions,
           NEW v \in Vars, NEW written, NEW op, NEW types,
           ~Matches(a[v], written, types), ~Matches(b[v], written, types)
    PROVE  ReadEntity(a, v, written, op, types) = ReadEntity(b, v, written, op, types)
<1> DEFINE hits(t) == {i \in DOMAIN Mentions(t, v) : Matches(Mentions(t, v)[i], written, types)}
<1>1. DOMAIN Mentions(a, v) = DOMAIN Mentions(b, v) /\ DOMAIN Mentions(a, v) \subseteq Nat
  BY MentionsAre
<1>2. \A i \in DOMAIN Mentions(a, v) : i # 1 => Mentions(a, v)[i] = Mentions(b, v)[i]
  BY SameTail
<1>3. 1 \notin hits(a) /\ 1 \notin hits(b)
  BY MentionsAre
<1>4. hits(a) = hits(b)
  BY <1>1, <1>2, <1>3
<1>5. CASE hits(a) = {}
  BY <1>4, <1>5 DEF ReadEntity
<1>6. CASE hits(a) # {}
  <2>1. Min(hits(a)) \in hits(a)
    BY <1>1, <1>6, MinIs
  <2>2. Mentions(a, v)[Min(hits(a))] = Mentions(b, v)[Min(hits(b))]
    BY <1>2, <1>3, <1>4, <2>1
  <2> QED  BY <1>4, <1>6, <2>2 DEF ReadEntity
<1> QED  BY <1>5, <1>6

TailContains(conditions, v, ops) ==
    \E i \in 1 .. Len(conditions) : Says[conditions[i].body][v].op \in ops

LEMMA ContainsIs ==
    ASSUME NEW text, IsText(text), NEW v \in Vars, NEW ops
    PROVE  Contains(text, v, ops) <=>
               text[v].op \in ops \/ TailContains(text.conditions, v, ops)
<1> DEFINE n == Len(text.conditions)
           said == Mentions(text, v)
<1>1. /\ n \in Nat /\ said[1] = text[v] /\ Len(said) = n + 1
      /\ \A i \in 1 .. n : said[i + 1] = Says[text.conditions[i].body][v]
  BY MentionsAre
<1>2. Contains(text, v, ops) <=> \E i \in 1 .. n + 1 : said[i].op \in ops
  BY <1>1 DEF Contains
<1>3. TailContains(text.conditions, v, ops) <=> \E i \in 1 .. n : said[i + 1].op \in ops
  BY <1>1 DEF TailContains
<1> HIDE DEF said, n
<1>4. (\E i \in 1 .. n + 1 : said[i].op \in ops) <=>
          said[1].op \in ops \/ \E i \in 1 .. n : said[i + 1].op \in ops
  <2>1. ASSUME NEW i \in 1 .. n + 1, said[i].op \in ops, i # 1
        PROVE  \E j \in 1 .. n : said[j + 1].op \in ops
    <3>1. i - 1 \in 1 .. n /\ (i - 1) + 1 = i
      BY <1>1, <2>1
    <3> QED  BY <3>1, <2>1
  <2>2. 1 \in 1 .. n + 1 /\ \A i \in 1 .. n : i + 1 \in 1 .. n + 1
    BY <1>1
  <2> QED  BY <2>1, <2>2
<1> QED  BY <1>1, <1>2, <1>3, <1>4

-----------------------------------------------------------------------------
(* Reading a list. *)

\* What is found has a plain type and an id, and is found again as it is.
LEMMA FoundInIs ==
    ASSUME NEW refs \in Seq(Refs)
    PROVE  /\ FoundIn(refs) \in Seq(Refs)
           /\ \A i \in DOMAIN FoundIn(refs) : Plain(FoundIn(refs)[i])
<1> DEFINE is == {i \in DOMAIN refs : refs[i].id # EmptyId}
           found == At(refs, is)
<1>1. found \in Seq({refs[i] : i \in is})
  <2>1. is \in SUBSET DOMAIN refs
    OBVIOUS
  <2> QED  BY <2>1, AtIsOfThem
<1>2. \A i \in DOMAIN found : found[i] \in Refs /\ found[i].id # EmptyId
  <2> TAKE i \in DOMAIN found
  <2>1. found[i] \in {refs[j] : j \in is}
    <3> HIDE DEF found
    <3> QED  BY <1>1
  <2> QED  BY <2>1
<1>3. FoundIn(refs) =
        [i \in DOMAIN found |-> [type |-> BaseName[found[i].type], id |-> found[i].id]]
  BY DEF FoundIn
<1>4. \A i \in DOMAIN found :
          LET e == [type |-> BaseName[found[i].type], id |-> found[i].id]
          IN  e \in Refs /\ Plain(e)
  BY <1>2, PolicyTextAssumption DEF Refs, Plain
<1>5. DOMAIN found = 1 .. Len(found) /\ Len(found) \in Nat
  <2> HIDE DEF found
  <2> QED  BY <1>1
<1> HIDE DEF found
<1> QED  BY <1>3, <1>4, <1>5

LEMMA FoundAgain ==
    ASSUME NEW refs \in Seq(Refs), \A i \in DOMAIN refs : Plain(refs[i])
    PROVE  FoundIn(refs) = refs
<1>1. {i \in DOMAIN refs : refs[i].id # EmptyId} = DOMAIN refs
  BY DEF Plain
<1>2. FoundIn(refs) = [i \in DOMAIN refs |-> [type |-> BaseName[refs[i].type], id |-> refs[i].id]]
  BY <1>1, AtAll DEF FoundIn
<1>3. \A i \in DOMAIN refs : [type |-> BaseName[refs[i].type], id |-> refs[i].id] = refs[i]
  <2> TAKE i \in DOMAIN refs
  <2>1. refs[i] \in Refs /\ BaseName[refs[i].type] = refs[i].type
    BY DEF Plain
  <2> QED  BY <2>1 DEF Refs
<1> QED  BY <1>2, <1>3

IsList(c, op) == c.op = op /\ c.refs # <<>>

LEMMA ReadListIs ==
    ASSUME NEW text, IsText(text), NEW v \in Vars, NEW op
    PROVE  /\ ReadList(text, v, op) \in Seq(Refs)
           /\ \A i \in DOMAIN ReadList(text, v, op) : Plain(ReadList(text, v, op)[i])
<1> DEFINE said == Mentions(text, v)
           lists == {i \in DOMAIN said : said[i].op = op /\ said[i].refs # <<>>}
<1>1. said \in Seq(Clauses) /\ DOMAIN said \subseteq Nat
  BY MentionsAre
<1>2. CASE lists = {}
  BY <1>2 DEF ReadList
<1>3. CASE lists # {}
  <2>1. Min(lists) \in lists
    BY <1>1, <1>3, MinIs
  <2>2. said[Min(lists)] \in Clauses
    <3> HIDE DEF said
    <3> QED  BY <1>1, <2>1
  <2>3. said[Min(lists)].refs \in Seq(Refs)
    BY <2>2 DEF Clauses
  <2>4. ReadList(text, v, op) = FoundIn(said[Min(lists)].refs)
    BY <1>3 DEF ReadList
  <2> QED  BY <2>3, <2>4, FoundInIs
<1> QED  BY <1>2, <1>3

LEMMA ReadListHead ==
    ASSUME NEW text, IsText(text), NEW v \in Vars, NEW op, IsList(text[v], op)
    PROVE  ReadList(text, v, op) = FoundIn(text[v].refs)
<1> DEFINE said == Mentions(text, v)
           lists == {i \in DOMAIN said : said[i].op = op /\ said[i].refs # <<>>}
<1>1. 1 \in lists /\ lists \subseteq Nat /\ \A i \in lists : 1 <= i
  BY MentionsAre DEF IsList
<1>2. Min(lists) = 1
  <2> HIDE DEF lists
  <2> QED  BY <1>1, MinIsOne
<1> QED  BY <1>1, <1>2, MentionsAre DEF ReadList

LEMMA ReadListTail ==
    ASSUME NEW a, NEW b, IsText(a), IsText(b), a.conditions = b.conditions,
           NEW v \in Vars, NEW op, ~IsList(a[v], op), ~IsList(b[v], op)
    PROVE  ReadList(a, v, op) = ReadList(b, v, op)
<1> DEFINE lists(t) == {i \in DOMAIN Mentions(t, v) :
                           Mentions(t, v)[i].op = op /\ Mentions(t, v)[i].refs # <<>>}
<1>1. DOMAIN Mentions(a, v) = DOMAIN Mentions(b, v) /\ DOMAIN Mentions(a, v) \subseteq Nat
  BY MentionsAre
<1>2. \A i \in DOMAIN Mentions(a, v) : i # 1 => Mentions(a, v)[i] = Mentions(b, v)[i]
  BY SameTail
<1>3. 1 \notin lists(a) /\ 1 \notin lists(b)
  BY MentionsAre DEF IsList
<1>4. lists(a) = lists(b)
  BY <1>1, <1>2, <1>3
<1>5. CASE lists(a) = {}
  BY <1>4, <1>5 DEF ReadList
<1>6. CASE lists(a) # {}
  <2>1. Min(lists(a)) \in lists(a)
    BY <1>1, <1>6, MinIs
  <2>2. Mentions(a, v)[Min(lists(a))] = Mentions(b, v)[Min(lists(b))]
    BY <1>2, <1>3, <1>4, <2>1
  <2> QED  BY <1>4, <1>6, <2>2 DEF ReadList
<1> QED  BY <1>5, <1>6

PlainRefs == {e \in Refs : Plain(e)}
ActionRefs == {e \in PlainRefs : e.type = ActionType}

-----------------------------------------------------------------------------
(* What can be read, and how it is written. *)

LEMMA OpsDiffer ==
    /\ InList \notin {"any", "nothing", "==", "!=", "in", NotIn, NotInList, "is", "All"}
    /\ NotIn \notin {"any", "nothing", "==", "!=", "in", InList, NotInList, "is", "All"}
    /\ NotInList \notin {"any", "nothing", "==", "!=", "in", NotIn, InList, "is", "All"}
BY DEF InList, NotIn, NotInList

LEMMA RefIsSomething == \A e \in Refs : e # None
BY PolicyTextAssumption

LEMMA ListIsSomething == \A refs \in Seq(Refs) : refs # None
BY PolicyTextAssumption

LEMMA AllIsAny == WriteScope(AllScope) = Any /\ AllScope.op = "All"
BY DEF WriteScope, AllScope, Scope

LEMMA EntityIsWritten ==
    ASSUME NEW op \in {"==", "!="}, NEW e \in Refs
    PROVE  /\ WriteScope(Scope(op, e, None)) = Clause(op, <<e>>)
           /\ WriteScope(Scope("in", e, None)) = Clause(InList, <<e>>)
BY RefIsSomething, OpsDiffer DEF WriteScope, Scope, ListOp

LEMMA ListIsWritten ==
    ASSUME NEW refs \in Seq(Refs)
    PROVE  /\ WriteScope(Scope("in", None, refs)) = Clause(InList, refs)
           /\ WriteScope(Scope(NotIn, None, refs)) = Clause(NotInList, refs)
BY ListIsSomething, OpsDiffer DEF WriteScope, Scope, ListOp

LEMMA EntityClause ==
    ASSUME NEW op, NEW e \in PlainRefs, NEW c, c = Clause(op, <<e>>)
    PROVE  /\ c.op = op
           /\ c.refs[1] = e
           /\ Matches(c, op, Types)
           /\ e \in ActionRefs => Matches(c, op, {ActionType})
<1>1. c.op = op /\ c.refs = <<e>> /\ Len(<<e>>) = 1 /\ <<e>>[1] = e
  BY DEF Clause
<1>2. Plain(e) /\ e.type \in Types /\ (e \in ActionRefs => e.type = ActionType)
  BY DEF PlainRefs, ActionRefs, Refs
<1> QED  BY <1>1, <1>2 DEF Matches

LEMMA AnyClause ==
    ASSUME NEW c, c = Any
    PROVE  c.op = "any" /\ c.refs = <<>>
BY DEF Any, Clause

LEMMA PrincipalIs ==
    ASSUME NEW text, IsText(text)
    PROVE  \/ ReadPrincipal(text) = AllScope
           \/ \E e \in PlainRefs :
                \/ /\ Contains(text, "principal", {"=="})
                   /\ ReadPrincipal(text) = Scope("==", e, None)
                \/ /\ ~Contains(text, "principal", {"=="})
                   /\ Contains(text, "principal", {"!="})
                   /\ ReadPrincipal(text) = Scope("!=", e, None)
                \/ /\ ~Contains(text, "principal", {"=="})
                   /\ ~Contains(text, "principal", {"!="})
                   /\ ReadPrincipal(text) = Scope("in", e, None)
<1>1. ASSUME NEW written, NEW op
      PROVE  \/ ReadEntity(text, "principal", written, op, Types) = AllScope
             \/ \E e \in PlainRefs :
                   ReadEntity(text, "principal", written, op, Types) = Scope(op, e, None)
  BY ReadEntityIs DEF Vars, PlainRefs
<1>2. CASE Contains(text, "principal", {"=="})
  BY <1>1, <1>2 DEF ReadPrincipal
<1>3. CASE ~Contains(text, "principal", {"=="}) /\ Contains(text, "principal", {"!="})
  BY <1>1, <1>3 DEF ReadPrincipal
<1>4. CASE ~Contains(text, "principal", {"=="}) /\ ~Contains(text, "principal", {"!="})
  BY <1>1, <1>4 DEF ReadPrincipal
<1> QED  BY <1>2, <1>3, <1>4

LEMMA ActionIs ==
    ASSUME NEW text, IsText(text)
    PROVE  \/ ReadAction(text) = AllScope
           \/ \E e \in ActionRefs : /\ Contains(text, "action", {"=="})
                                    /\ ReadAction(text) = Scope("==", e, None)
           \/ \E refs \in Seq(ActionRefs) \ {<<>>} :
                 /\ ~Contains(text, "action", {"=="})
                 /\ ReadAction(text) = Scope("in", None, refs)
<1> DEFINE list == ReadList(text, "action", InList)
           is == {i \in DOMAIN list : list[i].type = ActionType}
           found == At(list, is)
<1>1. CASE Contains(text, "action", {"=="})
  <2>1. ReadAction(text) = ReadEntity(text, "action", "==", "==", {ActionType})
    BY <1>1 DEF ReadAction
  <2>2. \/ ReadEntity(text, "action", "==", "==", {ActionType}) = AllScope
        \/ \E e \in Refs :
              /\ ReadEntity(text, "action", "==", "==", {ActionType}) = Scope("==", e, None)
              /\ Plain(e) /\ e.type \in {ActionType}
    BY ReadEntityIs DEF Vars
  <2> QED  BY <1>1, <2>1, <2>2 DEF ActionRefs, PlainRefs
<1>2. CASE ~Contains(text, "action", {"=="})
  <2>1. ReadAction(text) = IF found = <<>> THEN AllScope ELSE Scope("in", None, found)
    BY <1>2 DEF ReadAction
  <2>2. list \in Seq(Refs) /\ \A i \in DOMAIN list : Plain(list[i])
    BY ReadListIs DEF Vars
  <2>3. found \in Seq({list[i] : i \in is})
    <3> HIDE DEF list
    <3>1. is \in SUBSET DOMAIN list
      OBVIOUS
    <3> QED  BY <2>2, <3>1, AtIsOfThem
  <2>4. {list[i] : i \in is} \subseteq ActionRefs
    <3> HIDE DEF list
    <3> QED  BY <2>2 DEF ActionRefs, PlainRefs
  <2>5. found \in Seq(ActionRefs)
    <3> DEFINE T == {list[i] : i \in is}
    <3>1. \A A, B : A \subseteq B => \A s \in Seq(A) : s \in Seq(B)
      OBVIOUS
    <3> HIDE DEF found, T
    <3> QED  BY <2>3, <2>4, <3>1 DEF T
  <2> HIDE DEF found
  <2> QED  BY <1>2, <2>1, <2>5
<1> QED  BY <1>1, <1>2

OneType(refs) == \A i \in DOMAIN refs : refs[i].type = refs[1].type

LEMMA OfFirstTypeIs ==
    ASSUME NEW refs \in Seq(Refs), refs # <<>>, \A i \in DOMAIN refs : Plain(refs[i])
    PROVE  /\ OfFirstType(refs) \in Seq(PlainRefs)
           /\ OfFirstType(refs) # <<>>
           /\ OneType(OfFirstType(refs))
<1>1. Len(refs) \in Nat /\ Len(refs) # 0 /\ refs[1] \in Refs /\ Plain(refs[1])
  OBVIOUS
<1>2. \A i \in 1 .. Len(refs) : [type |-> refs[1].type, id |-> refs[i].id] \in PlainRefs
  <2> TAKE i \in 1 .. Len(refs)
  <2>1. refs[i] \in Refs /\ Plain(refs[i])
    OBVIOUS
  <2> QED  BY <1>1, <2>1 DEF Refs, Plain, PlainRefs
<1>3. /\ DOMAIN OfFirstType(refs) = 1 .. Len(refs)
      /\ \A i \in 1 .. Len(refs) :
            OfFirstType(refs)[i] = [type |-> refs[1].type, id |-> refs[i].id]
      /\ OfFirstType(refs) = [i \in 1 .. Len(refs) |-> OfFirstType(refs)[i]]
  BY DEF OfFirstType
<1>4. OfFirstType(refs) \in Seq(PlainRefs)
  BY <1>1, <1>2, <1>3
<1>5. OneType(OfFirstType(refs))
  BY <1>1, <1>3 DEF OneType
<1> QED  BY <1>1, <1>3, <1>4, <1>5

LEMMA OfFirstTypeSame ==
    ASSUME NEW refs \in Seq(PlainRefs), OneType(refs)
    PROVE  OfFirstType(refs) = refs
<1>1. \A i \in DOMAIN refs : [type |-> refs[1].type, id |-> refs[i].id] = refs[i]
  <2> TAKE i \in DOMAIN refs
  <2>1. refs[i] \in PlainRefs
    OBVIOUS
  <2> QED  BY <2>1 DEF OneType, PlainRefs, Refs
<1>2. OfFirstType(refs) = [i \in DOMAIN refs |-> refs[i]]
  BY <1>1 DEF OfFirstType
<1> QED  BY <1>2

LEMMA ResourceIs ==
    ASSUME NEW text, IsText(text)
    PROVE  \/ ReadResource(text) = AllScope
           \/ \E e \in PlainRefs :
                \/ /\ Contains(text, "resource", {"=="})
                   /\ ReadResource(text) = Scope("==", e, None)
                \/ /\ ~Contains(text, "resource", {"=="})
                   /\ Contains(text, "resource", {"!="})
                   /\ ReadResource(text) = Scope("!=", e, None)
           \/ \E refs \in Seq(PlainRefs) \ {<<>>} :
                /\ OneType(refs)
                /\ ~Contains(text, "resource", {"=="})
                /\ ~Contains(text, "resource", {"!="})
                /\ \/ /\ Contains(text, "resource", {"in", InList})
                      /\ ReadResource(text) = Scope("in", None, refs)
                   \/ /\ ~Contains(text, "resource", {"in", InList})
                      /\ ReadResource(text) = Scope(NotIn, None, refs)
<1> DEFINE List(op, written) ==
               IF ReadList(text, "resource", written) = <<>> THEN AllScope
               ELSE Scope(op, None, OfFirstType(ReadList(text, "resource", written)))
<1>1. ASSUME NEW written, NEW op
      PROVE  \/ ReadEntity(text, "resource", written, op, Types) = AllScope
             \/ \E e \in PlainRefs :
                   ReadEntity(text, "resource", written, op, Types) = Scope(op, e, None)
  BY ReadEntityIs DEF Vars, PlainRefs
<1>2. ASSUME NEW written, NEW op
      PROVE  \/ List(op, written) = AllScope
             \/ \E refs \in Seq(PlainRefs) \ {<<>>} :
                   OneType(refs) /\ List(op, written) = Scope(op, None, refs)
  <2> DEFINE refs == ReadList(text, "resource", written)
  <2>1. refs \in Seq(Refs) /\ \A i \in DOMAIN refs : Plain(refs[i])
    BY ReadListIs DEF Vars
  <2>2. List(op, written) = IF refs = <<>> THEN AllScope ELSE Scope(op, None, OfFirstType(refs))
    OBVIOUS
  <2> HIDE DEF refs, List
  <2> QED  BY <2>1, <2>2, OfFirstTypeIs
<1>3. Contains(text, "resource", {"==", "!="}) <=>
          Contains(text, "resource", {"=="}) \/ Contains(text, "resource", {"!="})
  BY DEF Contains
<1>4. CASE Contains(text, "resource", {"=="})
  <2>1. ReadResource(text) = ReadEntity(text, "resource", "==", "==", Types)
    BY <1>3, <1>4 DEF ReadResource
  <2> QED  BY <1>1, <1>4, <2>1
<1>5. CASE ~Contains(text, "resource", {"=="}) /\ Contains(text, "resource", {"!="})
  <2>1. ReadResource(text) = ReadEntity(text, "resource", "!=", "!=", Types)
    BY <1>3, <1>5 DEF ReadResource
  <2> QED  BY <1>1, <1>5, <2>1
<1>6. CASE /\ ~Contains(text, "resource", {"=="}) /\ ~Contains(text, "resource", {"!="})
           /\ Contains(text, "resource", {"in", InList})
  <2>1. ReadResource(text) = List("in", InList)
    BY <1>3, <1>6 DEF ReadResource
  <2> HIDE DEF List
  <2> QED  BY <1>2, <1>6, <2>1
<1>7. CASE /\ ~Contains(text, "resource", {"=="}) /\ ~Contains(text, "resource", {"!="})
           /\ ~Contains(text, "resource", {"in", InList})
  <2>1. ReadResource(text) = List(NotIn, NotInList)
    BY <1>3, <1>7 DEF ReadResource
  <2> HIDE DEF List
  <2> QED  BY <1>2, <1>7, <2>1
<1> QED  BY <1>4, <1>5, <1>6, <1>7

-----------------------------------------------------------------------------
(* What was written is read again, unless a condition says something stronger. *)

PrincipalShape(c) ==
    c = Any \/ \E op \in {"==", "!=", InList}, e \in PlainRefs : c = Clause(op, <<e>>)

LEMMA PrincipalHasShape ==
    ASSUME NEW text, IsText(text)
    PROVE  PrincipalShape(WriteScope(ReadPrincipal(text)))
<1>1. ASSUME NEW e \in PlainRefs
      PROVE  /\ PrincipalShape(WriteScope(Scope("==", e, None)))
             /\ PrincipalShape(WriteScope(Scope("!=", e, None)))
             /\ PrincipalShape(WriteScope(Scope("in", e, None)))
  BY EntityIsWritten DEF PlainRefs, PrincipalShape
<1>2. PrincipalShape(WriteScope(AllScope))
  BY AllIsAny DEF PrincipalShape
<1> QED  BY <1>1, <1>2, PrincipalIs

LEMMA PrincipalSettles ==
    ASSUME NEW a, NEW b, IsText(a), IsText(b), a.conditions = b.conditions,
           PrincipalShape(a.principal), b.principal = WriteScope(ReadPrincipal(a))
    PROVE  WriteScope(ReadPrincipal(b)) = b.principal
<1> DEFINE v == "principal"
           Said(op) == TailContains(a.conditions, v, {op})
<1>1. v \in Vars /\ a[v] = a.principal /\ b[v] = b.principal
  BY DEF Vars
<1>2. \A op : /\ Contains(a, v, {op}) <=> a[v].op = op \/ Said(op)
              /\ Contains(b, v, {op}) <=> b[v].op = op \/ Said(op)
  <2> TAKE op
  <2>1. Contains(a, v, {op}) <=> a[v].op \in {op} \/ Said(op)
    BY <1>1, ContainsIs
  <2>2. Contains(b, v, {op}) <=> b[v].op \in {op} \/ Said(op)
    BY <1>1, ContainsIs
  <2> QED  BY <2>1, <2>2
<1> HIDE DEF Said
<1>3. CASE ReadPrincipal(a) = AllScope
  <2>1. b[v] = Any
    BY <1>1, <1>3, AllIsAny
  <2>2. CASE a[v] = Any
    <3>1. ReadPrincipal(b) = ReadPrincipal(a)
      BY <1>1, <2>1, <2>2 DEF ReadPrincipal, ReadEntity, Contains, Mentions
    <3> QED  BY <1>1, <3>1
  <2>3. ASSUME NEW e \in PlainRefs, NEW op \in {"==", "!=", InList}, a[v] = Clause(op, <<e>>)
        PROVE  ReadPrincipal(b) = AllScope
    <3>1. Matches(a[v], op, Types) /\ a[v].op = op /\ b[v].op = "any"
      BY <2>1, <2>3, EntityClause, AnyClause
    <3>2. \A written : written # op => ~Matches(a[v], written, Types)
      BY <3>1 DEF Matches
    <3>3. \A written \in {"==", "!=", InList} : ~Matches(b[v], written, Types)
      BY <3>1, OpsDiffer DEF Matches
    <3>4. \A o : ReadEntity(a, v, op, o, Types) = Scope(o, a[v].refs[1], None)
      BY <1>1, <3>1, ReadEntityHead
    <3>5. ASSUME NEW written \in {"==", "!=", InList}, NEW o, written # op
          PROVE  ReadEntity(b, v, written, o, Types) = ReadEntity(a, v, written, o, Types)
      <4>1. ~Matches(a[v], written, Types) /\ ~Matches(b[v], written, Types)
        BY <3>2, <3>3, <3>5
      <4> QED  BY <1>1, <4>1, ReadEntityTail
    <3>6. \A o \in {"==", "!=", "in"} : \A x : Scope(o, x, None) # AllScope
      BY DEF Scope, AllScope
    <3>7. CASE Said("==")
      <4>1. op # "=="
        BY <1>2, <1>3, <3>4, <3>6, <3>7 DEF ReadPrincipal
      <4> QED  BY <1>2, <1>3, <3>5, <3>7, <4>1 DEF ReadPrincipal
    <3>8. CASE ~Said("==") /\ Said("!=")
      <4>1. op # "==" /\ op # "!="
        BY <1>2, <1>3, <3>1, <3>4, <3>6, <3>8 DEF ReadPrincipal
      <4> QED  BY <1>2, <1>3, <3>1, <3>5, <3>8, <4>1 DEF ReadPrincipal
    <3>9. CASE ~Said("==") /\ ~Said("!=")
      BY <1>2, <1>3, <3>1, <3>4, <3>6, <3>9 DEF ReadPrincipal
    <3> QED  BY <3>7, <3>8, <3>9
  <2>4. ReadPrincipal(b) = AllScope \/ a[v] = Any
    BY <1>1, <2>3 DEF PrincipalShape
  <2> QED  BY <1>1, <2>1, <2>2, <2>4, AllIsAny
<1>4. ASSUME NEW e \in PlainRefs, Contains(a, v, {"=="}), ReadPrincipal(a) = Scope("==", e, None)
      PROVE  ReadPrincipal(b) = ReadPrincipal(a)
  <2>1. b[v] = Clause("==", <<e>>)
    BY <1>1, <1>4, EntityIsWritten DEF PlainRefs
  <2>2. Matches(b[v], "==", Types) /\ b[v].op = "==" /\ b[v].refs[1] = e
    BY <2>1, EntityClause
  <2> QED  BY <1>1, <1>2, <1>4, <2>2, ReadEntityHead DEF ReadPrincipal
<1>5. ASSUME NEW e \in PlainRefs, ~Contains(a, v, {"=="}), Contains(a, v, {"!="}),
             ReadPrincipal(a) = Scope("!=", e, None)
      PROVE  ReadPrincipal(b) = ReadPrincipal(a)
  <2>1. b[v] = Clause("!=", <<e>>)
    BY <1>1, <1>5, EntityIsWritten DEF PlainRefs
  <2>2. Matches(b[v], "!=", Types) /\ b[v].op = "!=" /\ b[v].refs[1] = e
    BY <2>1, EntityClause
  <2>3. ~Contains(b, v, {"=="}) /\ Contains(b, v, {"!="})
    BY <1>2, <1>5, <2>2
  <2> QED  BY <1>1, <1>5, <2>2, <2>3, ReadEntityHead DEF ReadPrincipal
<1>6. ASSUME NEW e \in PlainRefs, ~Contains(a, v, {"=="}), ~Contains(a, v, {"!="}),
             ReadPrincipal(a) = Scope("in", e, None)
      PROVE  ReadPrincipal(b) = ReadPrincipal(a)
  <2>1. b[v] = Clause(InList, <<e>>)
    BY <1>1, <1>6, EntityIsWritten DEF PlainRefs
  <2>2. Matches(b[v], InList, Types) /\ b[v].op = InList /\ b[v].refs[1] = e
    BY <2>1, EntityClause
  <2>3. ~Contains(b, v, {"=="}) /\ ~Contains(b, v, {"!="})
    BY <1>2, <1>6, <2>2, OpsDiffer
  <2> QED  BY <1>1, <1>6, <2>2, <2>3, ReadEntityHead DEF ReadPrincipal
<1> QED  BY <1>3, <1>4, <1>5, <1>6, PrincipalIs

ListScope(text, op, written) ==
    IF ReadList(text, "resource", written) = <<>> THEN AllScope
    ELSE Scope(op, None, OfFirstType(ReadList(text, "resource", written)))

\* The strongest operator in the text decides how the resource is read.
LEMMA ReadResourceBy ==
    ASSUME NEW text
    PROVE  LET Has(ops) == Contains(text, "resource", ops) IN
           /\ Has({"=="}) =>
                  ReadResource(text) = ReadEntity(text, "resource", "==", "==", Types)
           /\ ~Has({"=="}) /\ Has({"!="}) =>
                  ReadResource(text) = ReadEntity(text, "resource", "!=", "!=", Types)
           /\ ~Has({"=="}) /\ ~Has({"!="}) /\ Has({"in", InList}) =>
                  ReadResource(text) = ListScope(text, "in", InList)
           /\ ~Has({"=="}) /\ ~Has({"!="}) /\ ~Has({"in", InList}) =>
                  ReadResource(text) = ListScope(text, NotIn, NotInList)
<1> DEFINE Has(ops) == Contains(text, "resource", ops)
<1>1. Has({"==", "!="}) <=> Has({"=="}) \/ Has({"!="})
  BY DEF Contains
<1>2. ReadResource(text) =
          CASE Has({"=="}) -> ReadEntity(text, "resource", "==", "==", Types)
            [] ~Has({"=="}) /\ Has({"!="}) -> ReadEntity(text, "resource", "!=", "!=", Types)
            [] ~Has({"==", "!="}) /\ Has({"in", InList}) -> ListScope(text, "in", InList)
            [] OTHER -> ListScope(text, NotIn, NotInList)
  BY DEF ReadResource, ListScope
<1> HIDE DEF Has
<1>3. /\ Has({"=="}) =>
             ReadResource(text) = ReadEntity(text, "resource", "==", "==", Types)
      /\ ~Has({"=="}) /\ Has({"!="}) =>
             ReadResource(text) = ReadEntity(text, "resource", "!=", "!=", Types)
      /\ ~Has({"=="}) /\ ~Has({"!="}) /\ Has({"in", InList}) =>
             ReadResource(text) = ListScope(text, "in", InList)
      /\ ~Has({"=="}) /\ ~Has({"!="}) /\ ~Has({"in", InList}) =>
             ReadResource(text) = ListScope(text, NotIn, NotInList)
  BY <1>1, <1>2
<1> QED  BY <1>3 DEF Has

\* Two texts that say the same of a variable are read the same.
LEMMA SameReading ==
    ASSUME NEW a, NEW b, a.conditions = b.conditions
    PROVE  /\ a["action"] = b["action"] => ReadAction(a) = ReadAction(b)
           /\ a["resource"] = b["resource"] => ReadResource(a) = ReadResource(b)
<1>1. ASSUME NEW v, a[v] = b[v]
      PROVE  /\ \A written, op, types :
                   ReadEntity(a, v, written, op, types) = ReadEntity(b, v, written, op, types)
             /\ \A op : ReadList(a, v, op) = ReadList(b, v, op)
             /\ \A ops : Contains(a, v, ops) <=> Contains(b, v, ops)
  <2>1. Mentions(a, v) = Mentions(b, v)
    BY <1>1 DEF Mentions
  <2>2. ASSUME NEW written, NEW op, NEW types
        PROVE  ReadEntity(a, v, written, op, types) = ReadEntity(b, v, written, op, types)
    BY <2>1, Zenon DEF ReadEntity
  <2>3. ASSUME NEW op  PROVE ReadList(a, v, op) = ReadList(b, v, op)
    BY <2>1, Zenon DEF ReadList
  <2>4. ASSUME NEW ops  PROVE Contains(a, v, ops) <=> Contains(b, v, ops)
    BY <2>1, Zenon DEF Contains
  <2> QED  BY <2>2, <2>3, <2>4
<1>2. ASSUME a["action"] = b["action"]  PROVE ReadAction(a) = ReadAction(b)
  <2>1. /\ ReadList(a, "action", InList) = ReadList(b, "action", InList)
        /\ ReadEntity(a, "action", "==", "==", {ActionType})
             = ReadEntity(b, "action", "==", "==", {ActionType})
        /\ Contains(a, "action", {"=="}) <=> Contains(b, "action", {"=="})
    BY <1>1, <1>2
  <2> DEFINE Listed(list) ==
                 LET found == At(list, {i \in DOMAIN list : list[i].type = ActionType})
                 IN  IF found = <<>> THEN AllScope ELSE Scope("in", None, found)
  <2>2. ASSUME NEW t
        PROVE  ReadAction(t) = IF Contains(t, "action", {"=="})
                               THEN ReadEntity(t, "action", "==", "==", {ActionType})
                               ELSE Listed(ReadList(t, "action", InList))
    BY DEF ReadAction
  <2> HIDE DEF Listed
  <2>3. CASE Contains(a, "action", {"=="})
    BY <2>1, <2>2, <2>3
  <2>4. CASE ~Contains(a, "action", {"=="})
    BY <2>1, <2>2, <2>4
  <2> QED  BY <2>3, <2>4
<1>3. ASSUME a["resource"] = b["resource"]  PROVE ReadResource(a) = ReadResource(b)
  <2>1. /\ \A op, written : ListScope(a, op, written) = ListScope(b, op, written)
        /\ \A written, op : ReadEntity(a, "resource", written, op, Types)
                              = ReadEntity(b, "resource", written, op, Types)
        /\ \A ops : Contains(a, "resource", ops) <=> Contains(b, "resource", ops)
    BY <1>1, <1>3 DEF ListScope
  <2> QED  BY <2>1, ReadResourceBy
<1> QED  BY <1>2, <1>3

\* A clause counts as itself, and a condition as long as it stays.
LEMMA ContainsSame ==
    ASSUME NEW a, NEW b, IsText(a), IsText(b), a.conditions = b.conditions, NEW v \in Vars
    PROVE  \A op : /\ Contains(a, v, {op}) <=>
                          a[v].op = op \/ TailContains(a.conditions, v, {op})
                   /\ Contains(b, v, {op}) <=>
                          b[v].op = op \/ TailContains(a.conditions, v, {op})
<1> TAKE op
<1>1. Contains(a, v, {op}) <=> a[v].op \in {op} \/ TailContains(a.conditions, v, {op})
  BY ContainsIs
<1>2. Contains(b, v, {op}) <=> b[v].op \in {op} \/ TailContains(a.conditions, v, {op})
  BY ContainsIs
<1> QED  BY <1>1, <1>2

-----------------------------------------------------------------------------
(* The action. *)

ActionShape(c) ==
    \/ c = Any
    \/ \E e \in ActionRefs : c = Clause("==", <<e>>)
    \/ \E refs \in Seq(ActionRefs) \ {<<>>} : c = Clause(InList, refs)

LEMMA ListClause ==
    ASSUME NEW S \in SUBSET Refs, NEW op, NEW refs \in Seq(S) \ {<<>>}, NEW c, c = Clause(op, refs)
    PROVE  c.op = op /\ c.refs = refs /\ IsList(c, op) /\ refs \in Seq(Refs)
<1>1. c.op = op /\ c.refs = refs
  BY DEF Clause
<1>2. refs \in Seq(Refs)
  OBVIOUS
<1> QED  BY <1>1, <1>2 DEF IsList

LEMMA ActionsFoundAgain ==
    ASSUME NEW refs \in Seq(ActionRefs)
    PROVE  /\ FoundIn(refs) = refs
           /\ {i \in DOMAIN refs : refs[i].type = ActionType} = DOMAIN refs
<1>1. \A i \in DOMAIN refs : refs[i] \in Refs /\ Plain(refs[i]) /\ refs[i].type = ActionType
  BY DEF ActionRefs, PlainRefs
<1>2. refs \in Seq(Refs)
  BY DEF ActionRefs, PlainRefs
<1> QED  BY <1>1, <1>2, FoundAgain

\* An action is written as such: its type is the one it has.
LEMMA ActionEntityWritten ==
    ASSUME NEW e \in ActionRefs
    PROVE  WriteAction(Scope("==", e, None)) = Clause("==", <<e>>)
<1> DEFINE c == Clause("==", <<e>>)
<1>1. WriteScope(Scope("==", e, None)) = c
  BY EntityIsWritten DEF ActionRefs, PlainRefs
<1>2. c.op = "==" /\ c.refs = <<e>>
  BY DEF Clause
<1>3. Scope("==", e, None).op \in {"All", "==", "in"}
  BY DEF Scope
<1>4. [type |-> ActionType, id |-> e.id] = e
  BY DEF ActionRefs, PlainRefs, Refs
<1>5. WriteAction(Scope("==", e, None)) =
        Clause(c.op, [i \in 1 .. Len(c.refs) |-> [type |-> ActionType, id |-> c.refs[i].id]])
  BY <1>1, <1>3 DEF WriteAction
<1>6. [i \in 1 .. Len(<<e>>) |-> [type |-> ActionType, id |-> <<e>>[i].id]] = <<e>>
  BY <1>4
<1> QED  BY <1>2, <1>5, <1>6

LEMMA ActionListWritten ==
    ASSUME NEW refs \in Seq(ActionRefs)
    PROVE  WriteAction(Scope("in", None, refs)) = Clause(InList, refs)
<1> DEFINE c == Clause(InList, refs)
<1>1. WriteScope(Scope("in", None, refs)) = c
  <2>1. refs \in Seq(Refs)
    BY DEF ActionRefs, PlainRefs
  <2> QED  BY <2>1, ListIsWritten
<1>2. c.op = InList /\ c.refs = refs
  BY DEF Clause
<1>3. Scope("in", None, refs).op \in {"All", "==", "in"}
  BY DEF Scope
<1>4. \A i \in 1 .. Len(refs) : [type |-> ActionType, id |-> refs[i].id] = refs[i]
  <2> TAKE i \in 1 .. Len(refs)
  <2>1. refs[i] \in ActionRefs
    OBVIOUS
  <2> QED  BY <2>1 DEF ActionRefs, PlainRefs, Refs
<1>5. WriteAction(Scope("in", None, refs)) =
        Clause(c.op, [i \in 1 .. Len(c.refs) |-> [type |-> ActionType, id |-> c.refs[i].id]])
  BY <1>1, <1>3 DEF WriteAction
<1>6. [i \in 1 .. Len(refs) |-> [type |-> ActionType, id |-> refs[i].id]] = refs
  <2>1. refs = [i \in 1 .. Len(refs) |-> refs[i]]
    OBVIOUS
  <2> QED  BY <1>4, <2>1
<1> QED  BY <1>2, <1>5, <1>6

LEMMA AnyActionWritten == WriteAction(AllScope) = Any
<1>1. WriteScope(AllScope) = Any /\ AllScope.op = "All" /\ Any.op = "any" /\ Any.refs = <<>>
  BY AllIsAny, AnyClause
<1>2. WriteAction(AllScope) =
        Clause(Any.op, [i \in 1 .. Len(Any.refs) |-> [type |-> ActionType, id |-> Any.refs[i].id]])
  BY <1>1 DEF WriteAction
<1>3. [i \in 1 .. Len(<<>>) |-> [type |-> ActionType, id |-> <<>>[i].id]] = <<>>
  OBVIOUS
<1> QED  BY <1>1, <1>2, <1>3 DEF Any

LEMMA ActionHasShape ==
    ASSUME NEW text, IsText(text)
    PROVE  ActionShape(WriteAction(ReadAction(text)))
BY ActionIs, AnyActionWritten, ActionEntityWritten, ActionListWritten DEF ActionShape

\* A list of actions comes back as it is, if nothing says ==.
LEMMA ActionListRead ==
    ASSUME NEW text, IsText(text), NEW refs \in Seq(ActionRefs) \ {<<>>},
           text["action"] = Clause(InList, refs), ~Contains(text, "action", {"=="})
    PROVE  ReadAction(text) = Scope("in", None, refs)
<1>1. text["action"].refs = refs /\ IsList(text["action"], InList) /\ refs \in Seq(Refs)
  BY ListClause DEF ActionRefs, PlainRefs
<1>2. ReadList(text, "action", InList) = refs
  <2>1. "action" \in Vars
    BY DEF Vars
  <2> QED  BY <1>1, <2>1, ReadListHead, ActionsFoundAgain
<1>3. At(refs, {i \in DOMAIN refs : refs[i].type = ActionType}) = refs
  BY <1>1, ActionsFoundAgain, AtAll
<1> QED  BY <1>2, <1>3 DEF ReadAction

LEMMA ActionSettles ==
    ASSUME NEW a, NEW b, IsText(a), IsText(b), a.conditions = b.conditions,
           ActionShape(a.action), b.action = WriteAction(ReadAction(a))
    PROVE  WriteAction(ReadAction(b)) = b.action
<1> DEFINE v == "action"
           Said(op) == TailContains(a.conditions, v, {op})
<1>1. v \in Vars /\ a[v] = a.action /\ b[v] = b.action
  BY DEF Vars
<1>2. \A op : /\ Contains(a, v, {op}) <=> a[v].op = op \/ Said(op)
              /\ Contains(b, v, {op}) <=> b[v].op = op \/ Said(op)
  BY <1>1, ContainsSame
<1> HIDE DEF Said
<1>3. CASE ReadAction(a) = AllScope
  <2>1. b[v] = Any
    BY <1>1, <1>3, AnyActionWritten
  <2>2. CASE a[v] = Any
    BY <1>1, <1>3, <2>1, <2>2, SameReading
  <2>3. ASSUME NEW e \in ActionRefs, a[v] = Clause("==", <<e>>)
        PROVE  FALSE
    <3>1. e \in PlainRefs /\ Matches(a[v], "==", {ActionType}) /\ a[v].op = "=="
      BY <2>3, EntityClause DEF ActionRefs
    <3>2. ReadAction(a) = Scope("==", a[v].refs[1], None)
      BY <1>1, <1>2, <3>1, ReadEntityHead DEF ReadAction
    <3> QED  BY <1>3, <3>2 DEF Scope, AllScope
  <2>4. ASSUME NEW refs \in Seq(ActionRefs) \ {<<>>}, a[v] = Clause(InList, refs)
        PROVE  ReadAction(b) = AllScope
    <3>1. a[v].op = InList /\ b[v].op = "any"
      BY <2>1, <2>4, AnyClause DEF Clause
    <3>2. Contains(a, v, {"=="})
      <4>1. Scope("in", None, refs) # AllScope
        BY DEF Scope, AllScope
      <4> QED  BY <1>3, <2>4, <4>1, ActionListRead
    <3>3. Said("==") /\ Contains(b, v, {"=="})
      BY <1>2, <3>1, <3>2, OpsDiffer
    <3>4. ~Matches(a[v], "==", {ActionType}) /\ ~Matches(b[v], "==", {ActionType})
      BY <3>1, OpsDiffer DEF Matches
    <3>5. ReadEntity(a, v, "==", "==", {ActionType}) = ReadEntity(b, v, "==", "==", {ActionType})
      BY <1>1, <3>4, ReadEntityTail
    <3> QED  BY <1>3, <3>2, <3>3, <3>5 DEF ReadAction
  <2> QED  BY <1>1, <2>1, <2>2, <2>3, <2>4, AnyActionWritten DEF ActionShape
<1>4. ASSUME NEW e \in ActionRefs, Contains(a, v, {"=="}), ReadAction(a) = Scope("==", e, None)
      PROVE  ReadAction(b) = ReadAction(a)
  <2>1. b[v] = Clause("==", <<e>>) /\ e \in PlainRefs
    BY <1>1, <1>4, ActionEntityWritten DEF ActionRefs
  <2>2. Matches(b[v], "==", {ActionType}) /\ b[v].op = "==" /\ b[v].refs[1] = e
    BY <2>1, EntityClause
  <2> QED  BY <1>1, <1>2, <1>4, <2>2, ReadEntityHead DEF ReadAction
<1>5. ASSUME NEW refs \in Seq(ActionRefs) \ {<<>>}, ~Contains(a, v, {"=="}),
             ReadAction(a) = Scope("in", None, refs)
      PROVE  ReadAction(b) = ReadAction(a)
  <2>1. b[v] = Clause(InList, refs)
    BY <1>1, <1>5, ActionListWritten
  <2>2. b[v].op = InList
    BY <2>1 DEF Clause
  <2>3. ~Contains(b, v, {"=="})
    BY <1>2, <1>5, <2>2, OpsDiffer
  <2> QED  BY <1>5, <2>1, <2>3, ActionListRead
<1> QED  BY <1>1, <1>3, <1>4, <1>5, ActionIs

-----------------------------------------------------------------------------
(* The resource. *)

ResourceShape(c) ==
    \/ c = Any
    \/ \E op \in {"==", "!="}, e \in PlainRefs : c = Clause(op, <<e>>)
    \/ \E op \in {InList, NotInList}, refs \in Seq(PlainRefs) \ {<<>>} :
          OneType(refs) /\ c = Clause(op, refs)

LEMMA ResourceListWritten ==
    ASSUME NEW refs \in Seq(PlainRefs)
    PROVE  /\ WriteScope(Scope("in", None, refs)) = Clause(InList, refs)
           /\ WriteScope(Scope(NotIn, None, refs)) = Clause(NotInList, refs)
<1>1. refs \in Seq(Refs)
  BY DEF PlainRefs
<1> QED  BY <1>1, ListIsWritten

LEMMA ResourceHasShape ==
    ASSUME NEW text, IsText(text)
    PROVE  ResourceShape(WriteScope(ReadResource(text)))
<1>1. ASSUME NEW e \in PlainRefs
      PROVE  /\ ResourceShape(WriteScope(Scope("==", e, None)))
             /\ ResourceShape(WriteScope(Scope("!=", e, None)))
  BY EntityIsWritten DEF PlainRefs, ResourceShape
<1>2. ASSUME NEW refs \in Seq(PlainRefs) \ {<<>>}, OneType(refs)
      PROVE  /\ ResourceShape(WriteScope(Scope("in", None, refs)))
             /\ ResourceShape(WriteScope(Scope(NotIn, None, refs)))
  BY <1>2, ResourceListWritten DEF ResourceShape
<1>3. ResourceShape(WriteScope(AllScope))
  BY AllIsAny DEF ResourceShape
<1> QED  BY <1>1, <1>2, <1>3, ResourceIs

\* A list that is not cut short by a stronger operator comes back as it is.
LEMMA ResourceListRead ==
    ASSUME NEW text, IsText(text), NEW op \in {InList, NotInList},
           NEW refs \in Seq(PlainRefs) \ {<<>>}, OneType(refs),
           text["resource"] = Clause(op, refs)
    PROVE  /\ ReadList(text, "resource", op) = refs
           /\ OfFirstType(ReadList(text, "resource", op)) = refs
<1>1. text["resource"].refs = refs /\ IsList(text["resource"], op) /\ refs \in Seq(Refs)
  BY ListClause DEF PlainRefs
<1>2. \A i \in DOMAIN refs : Plain(refs[i])
  BY DEF PlainRefs
<1>3. ReadList(text, "resource", op) = refs
  <2>1. "resource" \in Vars
    BY DEF Vars
  <2> QED  BY <1>1, <1>2, <2>1, ReadListHead, FoundAgain
<1> QED  BY <1>3, OfFirstTypeSame

LEMMA ResourceSettles ==
    ASSUME NEW a, NEW b, IsText(a), IsText(b), a.conditions = b.conditions,
           ResourceShape(a.resource), b.resource = WriteScope(ReadResource(a))
    PROVE  WriteScope(ReadResource(b)) = b.resource
<1> DEFINE v == "resource"
           Said(op) == TailContains(a.conditions, v, {op})
           SaidIn == TailContains(a.conditions, v, {"in", InList})
<1>1. v \in Vars /\ a[v] = a.resource /\ b[v] = b.resource
  BY DEF Vars
<1>2. \A op : /\ Contains(a, v, {op}) <=> a[v].op = op \/ Said(op)
              /\ Contains(b, v, {op}) <=> b[v].op = op \/ Said(op)
  BY <1>1, ContainsSame
<1>3. /\ Contains(a, v, {"in", InList}) <=> a[v].op \in {"in", InList} \/ SaidIn
      /\ Contains(b, v, {"in", InList}) <=> b[v].op \in {"in", InList} \/ SaidIn
  <2>1. Contains(a, v, {"in", InList}) <=> a[v].op \in {"in", InList} \/ SaidIn
    BY <1>1, ContainsIs
  <2>2. Contains(b, v, {"in", InList}) <=> b[v].op \in {"in", InList} \/ SaidIn
    BY <1>1, ContainsIs
  <2> QED  BY <2>1, <2>2
<1> HIDE DEF Said, SaidIn
<1>4. CASE ReadResource(a) = AllScope
  <2>1. b[v] = Any /\ b[v].op = "any"
    BY <1>1, <1>4, AllIsAny, AnyClause
  <2>2. \A op, x, y : op # "All" => Scope(op, x, y) # AllScope
    BY DEF Scope, AllScope
  \* Neither clause is an entity after op: the conditions decide in both.
  <2>3. ASSUME NEW op \in {"==", "!="}, a[v].op # op
        PROVE  ReadEntity(b, v, op, op, Types) = ReadEntity(a, v, op, op, Types)
    <3>1. ~Matches(a[v], op, Types) /\ ~Matches(b[v], op, Types)
      BY <2>1, <2>3 DEF Matches
    <3> QED  BY <1>1, <3>1, ReadEntityTail
  <2>4. ASSUME NEW op \in {"==", "!="}, NEW e \in PlainRefs, a[v] = Clause(op, <<e>>)
        PROVE  ReadResource(b) = AllScope
    <3>1. a[v].op = op /\ Matches(a[v], op, Types)
      BY <2>4, EntityClause
    <3>2. ReadEntity(a, v, op, op, Types) # AllScope
      <4>1. ReadEntity(a, v, op, op, Types) = Scope(op, a[v].refs[1], None)
        BY <1>1, <3>1, ReadEntityHead
      <4> QED  BY <2>2, <4>1
    <3>3. op # "=="
      BY <1>2, <1>4, <3>1, <3>2, ReadResourceBy
    <3>4. Said("==")
      BY <1>2, <1>4, <3>1, <3>2, <3>3, ReadResourceBy
    <3> QED  BY <1>2, <1>4, <2>3, <3>1, <3>3, <3>4, ReadResourceBy
  <2>5. ASSUME NEW op \in {InList, NotInList}, NEW refs \in Seq(PlainRefs) \ {<<>>},
               OneType(refs), a[v] = Clause(op, refs)
        PROVE  ReadResource(b) = AllScope
    <3>1. a[v].op = op /\ op # "==" /\ op # "!="
      BY <2>5, OpsDiffer DEF Clause
    <3>2. CASE Said("==")
      BY <1>2, <1>4, <2>3, <3>1, <3>2, ReadResourceBy
    <3>3. CASE ~Said("==") /\ Said("!=")
      BY <1>2, <1>4, <2>1, <2>3, <3>1, <3>3, ReadResourceBy
    <3>4. CASE ~Said("==") /\ ~Said("!=")
      <4>1. /\ ~Contains(a, v, {"=="}) /\ ~Contains(a, v, {"!="})
            /\ ~Contains(b, v, {"=="}) /\ ~Contains(b, v, {"!="})
        BY <1>2, <2>1, <3>1, <3>4
      <4>2. \A o : o # "All" => ListScope(a, o, op) # AllScope
        <5>1. ReadList(a, v, op) # <<>>
          BY <1>1, <2>5, ResourceListRead
        <5> QED  BY <2>2, <5>1 DEF ListScope
      <4>3. op = NotInList /\ Contains(a, v, {"in", InList}) /\ SaidIn
        BY <1>3, <1>4, <3>1, <4>1, <4>2, ReadResourceBy, OpsDiffer
      <4>4. ~IsList(a[v], InList) /\ ~IsList(b[v], InList)
        BY <2>1, <3>1, <4>3, OpsDiffer DEF IsList
      <4>5. ListScope(b, "in", InList) = ListScope(a, "in", InList)
        <5>1. ReadList(b, v, InList) = ReadList(a, v, InList)
          BY <1>1, <4>4, ReadListTail
        <5> QED  BY <5>1 DEF ListScope
      <4> QED  BY <1>3, <1>4, <4>1, <4>3, <4>5, ReadResourceBy
    <3> QED  BY <3>2, <3>3, <3>4
  <2>6. CASE a[v] = Any
    BY <1>1, <1>4, <2>1, <2>6, SameReading
  <2> QED  BY <1>1, <2>1, <2>4, <2>5, <2>6, AllIsAny DEF ResourceShape
<1>5. ASSUME NEW e \in PlainRefs, Contains(a, v, {"=="}), ReadResource(a) = Scope("==", e, None)
      PROVE  ReadResource(b) = ReadResource(a)
  <2>1. b[v] = Clause("==", <<e>>)
    BY <1>1, <1>5, EntityIsWritten DEF PlainRefs
  <2>2. Matches(b[v], "==", Types) /\ b[v].op = "==" /\ b[v].refs[1] = e
    BY <2>1, EntityClause
  <2>3. ReadEntity(b, v, "==", "==", Types) = Scope("==", e, None)
    BY <1>1, <2>2, ReadEntityHead
  <2> QED  BY <1>2, <1>5, <2>2, <2>3, ReadResourceBy
<1>6. ASSUME NEW e \in PlainRefs, ~Contains(a, v, {"=="}), Contains(a, v, {"!="}),
             ReadResource(a) = Scope("!=", e, None)
      PROVE  ReadResource(b) = ReadResource(a)
  <2>1. b[v] = Clause("!=", <<e>>)
    BY <1>1, <1>6, EntityIsWritten DEF PlainRefs
  <2>2. Matches(b[v], "!=", Types) /\ b[v].op = "!=" /\ b[v].refs[1] = e
    BY <2>1, EntityClause
  <2>3. ReadEntity(b, v, "!=", "!=", Types) = Scope("!=", e, None)
    BY <1>1, <2>2, ReadEntityHead
  <2>4. ~Contains(b, v, {"=="}) /\ Contains(b, v, {"!="})
    BY <1>2, <1>6, <2>2
  <2> QED  BY <1>6, <2>3, <2>4, ReadResourceBy
<1>7. ASSUME NEW refs \in Seq(PlainRefs) \ {<<>>}, OneType(refs),
             ~Contains(a, v, {"=="}), ~Contains(a, v, {"!="}),
             \/ /\ Contains(a, v, {"in", InList})
                /\ ReadResource(a) = Scope("in", None, refs)
             \/ /\ ~Contains(a, v, {"in", InList})
                /\ ReadResource(a) = Scope(NotIn, None, refs)
      PROVE  ReadResource(b) = ReadResource(a)
  <2>1. ASSUME NEW op \in {InList, NotInList}, b[v] = Clause(op, refs)
        PROVE  /\ b[v].op = op
               /\ ~Contains(b, v, {"=="}) /\ ~Contains(b, v, {"!="})
               /\ \A o : ListScope(b, o, op) = Scope(o, None, refs)
    <3>1. b[v].op = op /\ op # "==" /\ op # "!="
      BY <2>1, OpsDiffer DEF Clause
    <3>2. ReadList(b, v, op) = refs /\ OfFirstType(ReadList(b, v, op)) = refs
      BY <1>1, <1>7, <2>1, ResourceListRead
    <3> QED  BY <1>2, <1>7, <3>1, <3>2 DEF ListScope
  <2>2. CASE Contains(a, v, {"in", InList}) /\ ReadResource(a) = Scope("in", None, refs)
    <3>1. b[v] = Clause(InList, refs)
      BY <1>1, <2>2, ResourceListWritten
    <3> QED  BY <1>3, <2>1, <2>2, <3>1, ReadResourceBy
  <2>3. CASE ~Contains(a, v, {"in", InList}) /\ ReadResource(a) = Scope(NotIn, None, refs)
    <3>1. b[v] = Clause(NotInList, refs)
      BY <1>1, <2>3, ResourceListWritten
    <3>2. ~Contains(b, v, {"in", InList})
      BY <1>3, <2>1, <2>3, <3>1, OpsDiffer
    <3> QED  BY <2>1, <2>3, <3>1, <3>2, ReadResourceBy
  <2> QED  BY <1>7, <2>2, <2>3
<1> QED  BY <1>1, <1>4, <1>5, <1>6, <1>7, ResourceIs

-----------------------------------------------------------------------------
(* The conditions: at most one of each kind is left, and stays. *)

Kinds == {"when", "unless"}

LEMMA FirstConditionIs ==
    ASSUME NEW conditions \in Seq(Conditions), NEW kind \in Kinds
    PROVE  \/ FirstCondition(conditions, kind) = <<>>
           \/ \E b \in Bodies : /\ ToFirstBrace[b] = b
                                /\ FirstCondition(conditions, kind) =
                                     <<[kind |-> kind, body |-> b]>>
<1> DEFINE hits == {i \in DOMAIN conditions : conditions[i].kind = kind}
<1>1. CASE hits = {}
  BY <1>1 DEF FirstCondition
<1>2. CASE hits # {}
  <2>1. hits \in SUBSET Nat
    OBVIOUS
  <2>2. Min(hits) \in hits
    <3> HIDE DEF hits
    <3> QED  BY <1>2, <2>1, MinIs
  <2>3. conditions[Min(hits)].body \in Bodies
    <3>1. conditions[Min(hits)] \in Conditions
      <4>1. Min(hits) \in DOMAIN conditions
        BY <2>2
      <4> HIDE DEF hits
      <4> QED  BY <4>1
    <3> QED  BY <3>1 DEF Conditions
  <2> DEFINE b == ToFirstBrace[conditions[Min(hits)].body]
  <2>4. b \in Bodies /\ ToFirstBrace[b] = b
    BY <2>3, PolicyTextAssumption
  <2>5. FirstCondition(conditions, kind) = <<[kind |-> kind, body |-> b]>>
    BY <1>2 DEF FirstCondition
  <2> HIDE DEF b
  <2> QED  BY <2>4, <2>5
<1> QED  BY <1>1, <1>2

\* The conditions that are read, and what is read of them once more.
LEMMA FirstConditionOf ==
    ASSUME NEW w \in Bodies, NEW u \in Bodies, ToFirstBrace[w] = w, ToFirstBrace[u] = u
    PROVE  LET when == [kind |-> "when", body |-> w]
               unless == [kind |-> "unless", body |-> u]
           IN  /\ FirstCondition(<<>>, "when") = <<>>
               /\ FirstCondition(<<>>, "unless") = <<>>
               /\ FirstCondition(<<when>>, "when") = <<when>>
               /\ FirstCondition(<<when>>, "unless") = <<>>
               /\ FirstCondition(<<unless>>, "when") = <<>>
               /\ FirstCondition(<<unless>>, "unless") = <<unless>>
               /\ FirstCondition(<<when, unless>>, "when") = <<when>>
               /\ FirstCondition(<<when, unless>>, "unless") = <<unless>>
<1> DEFINE when == [kind |-> "when", body |-> w]
           unless == [kind |-> "unless", body |-> u]
           Hits(s, kind) == {i \in DOMAIN s : s[i].kind = kind}
<1>1. ASSUME NEW s, NEW kind, Hits(s, kind) = {}
      PROVE  FirstCondition(s, kind) = <<>>
  BY <1>1 DEF FirstCondition
<1>2. ASSUME NEW s, NEW kind, NEW i \in Nat, Hits(s, kind) = {i}
      PROVE  FirstCondition(s, kind) = <<[kind |-> kind, body |-> ToFirstBrace[s[i].body]]>>
  <2>1. Min({i}) \in {i}
    BY MinIs
  <2>2. Min(Hits(s, kind)) = i
    BY <1>2, <2>1
  <2> QED  BY <1>2, <2>2 DEF FirstCondition
<1>3. /\ when.kind = "when" /\ when.body = w
      /\ unless.kind = "unless" /\ unless.body = u
  OBVIOUS
<1>4. /\ [kind |-> "when", body |-> ToFirstBrace[w]] = when
      /\ [kind |-> "unless", body |-> ToFirstBrace[u]] = unless
  OBVIOUS
<1> HIDE DEF when, unless
<1>5. /\ Hits(<<>>, "when") = {} /\ Hits(<<>>, "unless") = {}
      /\ Hits(<<when>>, "when") = {1} /\ Hits(<<when>>, "unless") = {}
      /\ Hits(<<unless>>, "when") = {} /\ Hits(<<unless>>, "unless") = {1}
  <2>1. Hits(<<>>, "when") = {} /\ Hits(<<>>, "unless") = {}
    OBVIOUS
  <2>2. ASSUME NEW c  PROVE DOMAIN <<c>> = {1} /\ <<c>>[1] = c
    OBVIOUS
  <2>3. ASSUME NEW c, NEW kind
        PROVE  Hits(<<c>>, kind) = IF c.kind = kind THEN {1} ELSE {}
    <3>1. DOMAIN <<c>> = {1} /\ <<c>>[1] = c
      BY <2>2
    <3> QED  BY <3>1
  <2> HIDE DEF Hits
  <2> QED  BY <1>3, <2>1, <2>3
<1>6. Hits(<<when, unless>>, "when") = {1} /\ Hits(<<when, unless>>, "unless") = {2}
  BY <1>3
<1> HIDE DEF Hits
<1>7. FirstCondition(<<>>, "when") = <<>> /\ FirstCondition(<<>>, "unless") = <<>>
  BY <1>1, <1>5
<1>8. FirstCondition(<<when>>, "unless") = <<>> /\ FirstCondition(<<unless>>, "when") = <<>>
  BY <1>1, <1>5
<1>9. /\ FirstCondition(<<when>>, "when") = <<when>>
      /\ FirstCondition(<<unless>>, "unless") = <<unless>>
  BY <1>2, <1>3, <1>4, <1>5
<1>10. /\ FirstCondition(<<when, unless>>, "when") = <<when>>
       /\ FirstCondition(<<when, unless>>, "unless") = <<unless>>
  BY <1>2, <1>3, <1>4, <1>6
<1> QED  BY <1>7, <1>8, <1>9, <1>10 DEF when, unless

\* What the table and the form have of the conditions.
ReadShape(conditions) ==
    \E w \in Bodies, u \in Bodies :
        LET when == [kind |-> "when", body |-> w]
            unless == [kind |-> "unless", body |-> u]
        IN  /\ ToFirstBrace[w] = w /\ ToFirstBrace[u] = u
            /\ conditions \in {<<>>, <<when>>, <<unless>>, <<when, unless>>}

\* The conditions of the two kinds side by side.
LEMMA Concats ==
    ASSUME NEW c, NEW d
    PROVE  /\ <<>> \o <<>> = <<>> /\ <<c>> \o <<>> = <<c>>
           /\ <<>> \o <<d>> = <<d>> /\ <<c>> \o <<d>> = <<c, d>>
<1> DEFINE S == {c, d}
<1>1. c \in S /\ d \in S /\ <<>> \in Seq(S) /\ <<c>> \in Seq(S) /\ <<d>> \in Seq(S)
  OBVIOUS
<1> HIDE DEF S
<1>2. \A s \in Seq(S) : <<>> \o s = s /\ s \o <<>> = s
  OBVIOUS
<1>3. <<c>> \o <<d>> = <<c, d>>
  <2> DEFINE s == <<c>> \o <<d>>
  <2>1. s \in Seq(S) /\ Len(s) = 2
    BY <1>1
  <2>2. s[1] = c
    BY <1>1
  <2>3. s[2] = d
    BY <1>1
  <2> HIDE DEF s
  <2>4. s = <<c, d>>
    BY <2>1, <2>2, <2>3
  <2> QED  BY <2>4 DEF s
<1> QED  BY <1>1, <1>2, <1>3

LEMMA ReadConditionsIs ==
    ASSUME NEW text, IsText(text)
    PROVE  ReadConditions(text) = <<>> \/ ReadShape(ReadConditions(text))
<1> DEFINE cs == text.conditions
           W(b) == [kind |-> "when", body |-> b]
           U(b) == [kind |-> "unless", body |-> b]
           First(kind) == FirstCondition(cs, kind)
<1>1. /\ First("when") = <<>> \/
           \E w \in Bodies : ToFirstBrace[w] = w /\ First("when") = <<W(w)>>
      /\ First("unless") = <<>> \/
           \E u \in Bodies : ToFirstBrace[u] = u /\ First("unless") = <<U(u)>>
  <2>1. cs \in Seq(Conditions)
    BY DEF IsText
  <2> QED  BY <2>1, FirstConditionIs DEF Kinds
<1>2. ReadConditions(text) = First("when") \o First("unless")
  BY DEF ReadConditions
<1>3. \A c, d : /\ <<>> \o <<>> = <<>> /\ <<c>> \o <<>> = <<c>>
                /\ <<>> \o <<d>> = <<d>> /\ <<c>> \o <<d>> = <<c, d>>
  BY Concats
<1> HIDE DEF First
<1>4. CASE First("when") = <<>> /\ First("unless") = <<>>
  BY <1>2, <1>3, <1>4
<1>5. ASSUME NEW w \in Bodies, ToFirstBrace[w] = w, First("when") = <<W(w)>>, First("unless") = <<>>
      PROVE  ReadShape(ReadConditions(text))
  BY <1>2, <1>3, <1>5 DEF ReadShape
<1>6. ASSUME NEW u \in Bodies, ToFirstBrace[u] = u, First("when") = <<>>, First("unless") = <<U(u)>>
      PROVE  ReadShape(ReadConditions(text))
  BY <1>2, <1>3, <1>6 DEF ReadShape
<1>7. ASSUME NEW w \in Bodies, ToFirstBrace[w] = w, First("when") = <<W(w)>>,
             NEW u \in Bodies, ToFirstBrace[u] = u, First("unless") = <<U(u)>>
      PROVE  ReadShape(ReadConditions(text))
  BY <1>2, <1>3, <1>7 DEF ReadShape
<1> QED  BY <1>1, <1>4, <1>5, <1>6, <1>7

LEMMA ReadConditionsAgain ==
    ASSUME NEW text, text.conditions = <<>> \/ ReadShape(text.conditions)
    PROVE  ReadConditions(text) = text.conditions
<1>1. ReadConditions(text) =
        FirstCondition(text.conditions, "when") \o FirstCondition(text.conditions, "unless")
  BY DEF ReadConditions
<1>2. \A c, d : /\ <<>> \o <<>> = <<>> /\ <<c>> \o <<>> = <<c>>
                /\ <<>> \o <<d>> = <<d>> /\ <<c>> \o <<d>> = <<c, d>>
  BY Concats
<1>3. CASE text.conditions = <<>>
  <2>1. FirstCondition(<<>>, "when") = <<>> /\ FirstCondition(<<>>, "unless") = <<>>
    BY DEF FirstCondition
  <2> QED  BY <1>1, <1>2, <1>3, <2>1
<1>4. ASSUME NEW w \in Bodies, NEW u \in Bodies, ToFirstBrace[w] = w, ToFirstBrace[u] = u,
             NEW when, NEW unless,
             when = [kind |-> "when", body |-> w], unless = [kind |-> "unless", body |-> u],
             text.conditions \in {<<>>, <<when>>, <<unless>>, <<when, unless>>}
      PROVE  ReadConditions(text) = text.conditions
  <2>1. /\ FirstCondition(<<>>, "when") = <<>>
        /\ FirstCondition(<<>>, "unless") = <<>>
        /\ FirstCondition(<<when>>, "when") = <<when>>
        /\ FirstCondition(<<when>>, "unless") = <<>>
        /\ FirstCondition(<<unless>>, "when") = <<>>
        /\ FirstCondition(<<unless>>, "unless") = <<unless>>
        /\ FirstCondition(<<when, unless>>, "when") = <<when>>
        /\ FirstCondition(<<when, unless>>, "unless") = <<unless>>
    BY <1>4, FirstConditionOf
  <2>2. CASE text.conditions = <<>>
    BY <1>1, <1>2, <2>1, <2>2
  <2>3. CASE text.conditions = <<when>>
    BY <1>1, <1>2, <2>1, <2>3
  <2>4. CASE text.conditions = <<unless>>
    BY <1>1, <1>2, <2>1, <2>4
  <2>5. CASE text.conditions = <<when, unless>>
    BY <1>1, <1>2, <2>1, <2>5
  <2> QED  BY <1>4, <2>2, <2>3, <2>4, <2>5
<1> QED  BY <1>3, <1>4 DEF ReadShape

LEMMA ReadConditionsType ==
    ASSUME NEW text, IsText(text)
    PROVE  ReadConditions(text) \in Seq(Conditions)
<1>1. ASSUME NEW conditions \in Seq(Conditions), NEW kind \in Kinds
      PROVE  FirstCondition(conditions, kind) \in Seq(Conditions)
  <2>1. \A b \in Bodies : [kind |-> kind, body |-> b] \in Conditions
    BY DEF Conditions, Kinds
  <2>2. \A c \in Conditions : <<c>> \in Seq(Conditions)
    OBVIOUS
  <2>3. <<>> \in Seq(Conditions)
    OBVIOUS
  <2> QED  BY <2>1, <2>2, <2>3, FirstConditionIs
<1>2. FirstCondition(text.conditions, "when") \in Seq(Conditions)
  BY <1>1 DEF IsText, Kinds
<1>3. FirstCondition(text.conditions, "unless") \in Seq(Conditions)
  BY <1>1 DEF IsText, Kinds
<1> QED  BY <1>2, <1>3 DEF ReadConditions

-----------------------------------------------------------------------------
(* A policy that is read and written back. *)

LEMMA ClauseIs ==
    ASSUME NEW op, NEW refs, NEW c, c = Clause(op, refs),
           op \in ClauseOps, refs \in Seq(Refs), op \in {"==", "!=", "in"} => Len(refs) = 1
    PROVE  IsClause(c)
BY DEF Clause, IsClause

LEMMA ShapesAreClauses ==
    /\ \A c : PrincipalShape(c) => IsClause(c)
    /\ \A c : ActionShape(c) => IsClause(c)
    /\ \A c : ResourceShape(c) => IsClause(c)
<1>1. IsClause(Any)
  <2>1. Any = Clause("any", <<>>) /\ "any" \in ClauseOps /\ <<>> \in Seq(Refs)
    BY DEF Any, ClauseOps
  <2> QED  BY <2>1, ClauseIs
<1>2. ASSUME NEW op \in {"==", "!=", InList}, NEW e \in PlainRefs
      PROVE  IsClause(Clause(op, <<e>>))
  <2>1. <<e>> \in Seq(Refs) /\ Len(<<e>>) = 1 /\ op \in ClauseOps
    BY DEF PlainRefs, ClauseOps
  <2> QED  BY <2>1, ClauseIs
<1>3. ASSUME NEW op \in {InList, NotInList}, NEW refs \in Seq(PlainRefs)
      PROVE  IsClause(Clause(op, refs))
  <2>1. refs \in Seq(Refs) /\ op \in ClauseOps /\ op \notin {"==", "!=", "in"}
    BY OpsDiffer DEF PlainRefs, ClauseOps
  <2> QED  BY <2>1, ClauseIs
<1>4. \A refs \in Seq(ActionRefs) : refs \in Seq(PlainRefs)
  BY DEF ActionRefs
<1>5. ASSUME NEW c, PrincipalShape(c)  PROVE IsClause(c)
  BY <1>1, <1>2, <1>5 DEF PrincipalShape
<1>6. ASSUME NEW c, ActionShape(c)  PROVE IsClause(c)
  BY <1>1, <1>2, <1>3, <1>4, <1>6 DEF ActionShape, ActionRefs
<1>7. ASSUME NEW c, ResourceShape(c)  PROVE IsClause(c)
  BY <1>1, <1>2, <1>3, <1>7 DEF ResourceShape
<1> QED  BY <1>5, <1>6, <1>7

LEMMA ResavedIs ==
    ASSUME NEW text
    PROVE  /\ Resaved(text).effect = ReadEffect(text)
           /\ Resaved(text).annotated = FALSE
           /\ Resaved(text).principal = WriteScope(ReadPrincipal(text))
           /\ Resaved(text).action = WriteAction(ReadAction(text))
           /\ Resaved(text).resource = WriteScope(ReadResource(text))
           /\ Resaved(text).conditions = ReadConditions(text)
           /\ Resaved(text) =
                [effect |-> Resaved(text).effect, annotated |-> FALSE,
                 principal |-> Resaved(text).principal, action |-> Resaved(text).action,
                 resource |-> Resaved(text).resource, conditions |-> Resaved(text).conditions,
                 split |-> Len(Resaved(text).conditions) > 1]
BY DEF Resaved, ToText, FromText

LEMMA ResavedIsText ==
    ASSUME NEW text, IsText(text)
    PROVE  IsText(Resaved(text))
<1>1. Resaved(text).effect \in Effects
  BY ResavedIs DEF ReadEffect, IsText, Effects
<1>2. \A v \in Vars : IsClause(Resaved(text)[v])
  <2>1. IsClause(Resaved(text).principal)
    BY ResavedIs, PrincipalHasShape, ShapesAreClauses
  <2>2. IsClause(Resaved(text).action)
    BY ResavedIs, ActionHasShape, ShapesAreClauses
  <2>3. IsClause(Resaved(text).resource)
    BY ResavedIs, ResourceHasShape, ShapesAreClauses
  <2> QED  BY <2>1, <2>2, <2>3 DEF Vars
<1>3. Resaved(text).annotated \in BOOLEAN /\ Resaved(text).conditions \in Seq(Conditions)
  BY ResavedIs, ReadConditionsType
<1> QED  BY <1>1, <1>2, <1>3 DEF IsText

LEMMA ThirdTimeSame ==
    ASSUME NEW text, IsText(text)
    PROVE  Resaved(Resaved(Resaved(text))) = Resaved(Resaved(text))
<1> DEFINE a == Resaved(text)
           b == Resaved(a)
           c == Resaved(b)
<1>1. IsText(a) /\ IsText(b)
  BY ResavedIsText
<1>2. b.conditions = a.conditions /\ c.conditions = b.conditions
  <2>1. a.conditions = <<>> \/ ReadShape(a.conditions)
    BY ResavedIs, ReadConditionsIs
  <2>2. b.conditions = a.conditions
    BY <2>1, ResavedIs, ReadConditionsAgain
  <2>3. c.conditions = b.conditions
    BY <2>1, <2>2, ResavedIs, ReadConditionsAgain
  <2> QED  BY <2>2, <2>3
<1>3. c.effect = b.effect
  <2>1. b.annotated = FALSE
    BY ResavedIs
  <2> QED  BY <2>1, ResavedIs DEF ReadEffect
<1>4. c.principal = b.principal
  <2>1. PrincipalShape(a.principal) /\ b.principal = WriteScope(ReadPrincipal(a))
    BY ResavedIs, PrincipalHasShape
  <2>2. c.principal = WriteScope(ReadPrincipal(b))
    BY ResavedIs
  <2> HIDE DEF a, b, c
  <2> QED  BY <1>1, <1>2, <2>1, <2>2, PrincipalSettles
<1>5. c.action = b.action
  <2>1. ActionShape(a.action) /\ b.action = WriteAction(ReadAction(a))
    BY ResavedIs, ActionHasShape
  <2>2. c.action = WriteAction(ReadAction(b))
    BY ResavedIs
  <2> HIDE DEF a, b, c
  <2> QED  BY <1>1, <1>2, <2>1, <2>2, ActionSettles
<1>6. c.resource = b.resource
  <2>1. ResourceShape(a.resource) /\ b.resource = WriteScope(ReadResource(a))
    BY ResavedIs, ResourceHasShape
  <2>2. c.resource = WriteScope(ReadResource(b))
    BY ResavedIs
  <2> HIDE DEF a, b, c
  <2> QED  BY <1>1, <1>2, <2>1, <2>2, ResourceSettles
<1>7. /\ b = [effect |-> b.effect, annotated |-> FALSE, principal |-> b.principal,
              action |-> b.action, resource |-> b.resource, conditions |-> b.conditions,
              split |-> Len(b.conditions) > 1]
      /\ c = [effect |-> c.effect, annotated |-> FALSE, principal |-> c.principal,
              action |-> c.action, resource |-> c.resource, conditions |-> c.conditions,
              split |-> Len(c.conditions) > 1]
  BY ResavedIs
<1>8. c = b
  <2> HIDE DEF a, b, c
  <2> QED  BY <1>2, <1>3, <1>4, <1>5, <1>6, <1>7
<1> QED  BY <1>8

-----------------------------------------------------------------------------
(* What the dialog keeps. *)

\* An entity is the only thing a scope names; only "in" and "not in" have a list.
ScopeInv(scope) ==
    /\ scope \in Scopes
    /\ scope.op = "All" => scope.entity = None
    /\ scope.op \in {"All", "==", "!="} => scope.entities = None
    /\ scope.entity # None => scope.entities = None

\* With "in" the action has a list, of actions.
ActionInv(scope) ==
    /\ ScopeInv(scope)
    /\ scope.op \in {"All", "==", "in"}
    /\ scope.op = "in" => /\ scope.entity = None
                          /\ scope.entities # None
    /\ scope.entities # None =>
           \A i \in DOMAIN scope.entities : scope.entities[i].type = ActionType

FormInv(f) ==
    /\ f \in Forms
    /\ ScopeInv(f.principal)
    /\ ActionInv(f.action)
    /\ ScopeInv(f.resource)

\* The policy that is edited is the one the agent has, as the form shows it.
EditingInv ==
    /\ editing # None => FormInv(editing) /\ form.id = editing.id
    /\ open /\ editing # None => /\ editing.id \in PolicyIds
                                 /\ stored[editing.id] # Absent
                                 /\ editing = Shown(editing.id, stored[editing.id])

StoredInv ==
    /\ DOMAIN stored = PolicyIds
    /\ \A p \in PolicyIds : stored[p] # Absent => IsText(stored[p])

CountsInv ==
    /\ open \in BOOLEAN
    /\ loaded \in BOOLEAN
    /\ edits \in 0 .. MaxEdits
    /\ saves \in 0 .. MaxSaves
    /\ toast \in {"none", "saved", Refused}

DialogInv == FormInv(form) /\ EditingInv /\ StoredInv /\ CountsInv

-----------------------------------------------------------------------------
(* Scopes. *)

LEMMA ScopeIs ==
    ASSUME NEW op, NEW entity, NEW entities
    PROVE  /\ Scope(op, entity, entities).op = op
           /\ Scope(op, entity, entities).entity = entity
           /\ Scope(op, entity, entities).entities = entities
           /\ op \in ScopeOps /\ entity \in Refs \cup {None} /\ entities \in Seq(Refs) \cup {None}
                => Scope(op, entity, entities) \in Scopes
BY DEF Scope, Scopes

LEMMA SimpleOps == {"All", "==", "!=", "in", NotIn} = ScopeOps
BY DEF ScopeOps

LEMMA AllScopeInv == ScopeInv(AllScope) /\ ActionInv(AllScope)
<1>1. AllScope = Scope("All", None, None) /\ "All" \in ScopeOps
  BY DEF AllScope, ScopeOps
<1>2. /\ AllScope \in Scopes /\ AllScope.op = "All"
      /\ AllScope.entity = None /\ AllScope.entities = None
  BY <1>1, ScopeIs
<1> QED  BY <1>2 DEF ScopeInv, ActionInv

LEMMA EntityScopeInv ==
    ASSUME NEW op \in ScopeOps \ {"All"}, NEW entity \in Refs \cup {None}
    PROVE  ScopeInv(Scope(op, entity, None))
BY ScopeIs DEF ScopeInv

LEMMA ListScopeInv ==
    ASSUME NEW op \in {"in", NotIn}, NEW refs \in Seq(Refs)
    PROVE  ScopeInv(Scope(op, None, refs))
<1>1. op \in ScopeOps /\ op \notin {"All", "==", "!="}
  BY OpsDiffer, SimpleOps
<1> QED  BY <1>1, ScopeIs DEF ScopeInv

LEMMA ActionEntityInv ==
    ASSUME NEW entity \in Refs \cup {None}
    PROVE  ActionInv(Scope("==", entity, None))
BY EntityScopeInv, ScopeIs, SimpleOps DEF ActionInv

LEMMA ActionListInv ==
    ASSUME NEW refs \in Seq(Refs), \A i \in DOMAIN refs : refs[i].type = ActionType
    PROVE  ActionInv(Scope("in", None, refs))
BY ListScopeInv, ScopeIs, ListIsSomething DEF ActionInv

\* What is shown of a text.
LEMMA ShownInv ==
    ASSUME NEW p \in PolicyIds, NEW text, IsText(text)
    PROVE  FormInv(Shown(p, text)) /\ Shown(p, text).id = p
<1>1. ScopeInv(ReadPrincipal(text))
  <2>1. {"==", "!=", "in"} \subseteq ScopeOps \ {"All"} /\ PlainRefs \subseteq Refs
    BY SimpleOps DEF PlainRefs
  <2>2. \A op \in {"==", "!=", "in"}, e \in PlainRefs : ScopeInv(Scope(op, e, None))
    BY <2>1, EntityScopeInv
  <2> QED  BY <2>2, PrincipalIs, AllScopeInv
<1>2. ActionInv(ReadAction(text))
  <2>1. \A e \in ActionRefs : ActionInv(Scope("==", e, None))
    BY ActionEntityInv DEF ActionRefs, PlainRefs
  <2>2. ASSUME NEW refs \in Seq(ActionRefs)  PROVE ActionInv(Scope("in", None, refs))
    <3>1. refs \in Seq(Refs) /\ \A i \in DOMAIN refs : refs[i].type = ActionType
      BY DEF ActionRefs, PlainRefs
    <3> QED  BY <3>1, ActionListInv
  <2> QED  BY <2>1, <2>2, ActionIs, AllScopeInv
<1>3. ScopeInv(ReadResource(text))
  <2>1. {"==", "!="} \subseteq ScopeOps \ {"All"} /\ PlainRefs \subseteq Refs
    BY SimpleOps DEF PlainRefs
  <2>2. \A op \in {"==", "!="}, e \in PlainRefs : ScopeInv(Scope(op, e, None))
    BY <2>1, EntityScopeInv
  <2>3. ASSUME NEW op \in {"in", NotIn}, NEW refs \in Seq(PlainRefs)
        PROVE  ScopeInv(Scope(op, None, refs))
    <3>1. refs \in Seq(Refs)
      BY DEF PlainRefs
    <3> QED  BY <3>1, ListScopeInv
  <2> QED  BY <2>2, <2>3, ResourceIs, AllScopeInv
<1>4. ReadEffect(text) \in Effects
  BY DEF ReadEffect, IsText, Effects
<1>5. ReadConditions(text) \in Seq(Conditions)
  BY ReadConditionsType
<1>6. Shown(p, text) =
        [id |-> p, effect |-> ReadEffect(text), principal |-> ReadPrincipal(text),
         action |-> ReadAction(text), resource |-> ReadResource(text),
         conditions |-> ReadConditions(text)]
  BY DEF Shown, FromText
<1>7. /\ ReadPrincipal(text) \in Scopes /\ ReadAction(text) \in Scopes
      /\ ReadResource(text) \in Scopes
  BY <1>1, <1>2, <1>3 DEF ScopeInv, ActionInv
<1>8. Shown(p, text) \in Forms
  BY <1>4, <1>5, <1>6, <1>7 DEF Forms
<1> QED  BY <1>1, <1>2, <1>3, <1>6, <1>8 DEF FormInv

LEMMA EmptyFormInv == FormInv(EmptyForm)
<1>1. "permit" \in Effects /\ <<>> \in Seq(Conditions) /\ AllScope \in Scopes
  BY AllScopeInv DEF Effects, ScopeInv
<1>2. EmptyForm \in Forms
  BY <1>1 DEF EmptyForm, Forms
<1> QED  BY <1>2, AllScopeInv DEF FormInv, EmptyForm

-----------------------------------------------------------------------------
(* What is written of a form. *)

LEMMA WrittenClauses ==
    ASSUME NEW scope, ScopeInv(scope)
    PROVE  IsClause(WriteScope(scope))
<1> USE OpsDiffer
<1>1. scope.op \in ScopeOps /\ scope.entity \in Refs \cup {None}
      /\ scope.entities \in Seq(Refs) \cup {None}
  BY DEF ScopeInv, Scopes
<1>2. IsClause(Any) /\ IsClause(Nothing)
  <2>1. /\ Any = Clause("any", <<>>) /\ Nothing = Clause("nothing", <<>>)
        /\ "any" \in ClauseOps /\ "nothing" \in ClauseOps /\ <<>> \in Seq(Refs)
    BY DEF Any, Nothing, ClauseOps
  <2> QED  BY <2>1, ClauseIs
<1>3. ASSUME NEW op \in {"==", "!=", InList, NotInList}, NEW e \in Refs
      PROVE  IsClause(Clause(op, <<e>>))
  <2>1. op \in ClauseOps /\ <<e>> \in Seq(Refs) /\ Len(<<e>>) = 1
    BY DEF ClauseOps
  <2> QED  BY <2>1, ClauseIs
<1>4. ASSUME NEW op \in {InList, NotInList}, NEW refs \in Seq(Refs)
      PROVE  IsClause(Clause(op, refs))
  <2>1. op \in ClauseOps /\ op \notin {"==", "!=", "in"}
    BY DEF ClauseOps
  <2> QED  BY <2>1, ClauseIs
<1>5. ListOp(scope.op) \in {InList, NotInList}
  BY DEF ListOp
<1>6. CASE scope.op = "All"
  BY <1>2, <1>6 DEF WriteScope
<1>7. CASE scope.op \in {"in", NotIn}
  <2>1. scope.op # "All"
    BY <1>7
  <2>2. CASE scope.entities # None
    BY <1>1, <1>4, <1>5, <1>7, <2>1, <2>2 DEF WriteScope
  <2>3. CASE scope.entities = None /\ scope.entity # None
    BY <1>1, <1>3, <1>5, <1>7, <2>1, <2>3 DEF WriteScope
  <2>4. CASE scope.entities = None /\ scope.entity = None
    BY <1>2, <1>7, <2>1, <2>4 DEF WriteScope
  <2> QED  BY <2>2, <2>3, <2>4
<1>8. CASE scope.op \in {"==", "!="}
  <2>1. scope.op # "All" /\ scope.op \notin {"in", NotIn} /\ scope.entities = None
    BY <1>8 DEF ScopeInv
  <2>2. CASE scope.entity # None
    BY <1>1, <1>3, <1>8, <2>1, <2>2 DEF WriteScope
  <2>3. CASE scope.entity = None
    BY <1>2, <2>1, <2>3 DEF WriteScope
  <2> QED  BY <2>2, <2>3
<1> QED  BY <1>1, <1>6, <1>7, <1>8, SimpleOps

LEMMA WrittenActions ==
    ASSUME NEW scope, ScopeInv(scope)
    PROVE  IsClause(WriteAction(scope))
<1> DEFINE clause == WriteScope(scope)
           refs == [i \in 1 .. Len(clause.refs) |-> [type |-> ActionType, id |-> clause.refs[i].id]]
<1>1. IsClause(clause)
  BY WrittenClauses
<1> HIDE DEF clause
<1>2. refs \in Seq(Refs) /\ Len(refs) = Len(clause.refs)
  <2>1. clause.refs \in Seq(Refs)
    BY <1>1 DEF IsClause
  <2>2. \A i \in 1 .. Len(clause.refs) : [type |-> ActionType, id |-> clause.refs[i].id] \in Refs
    <3> TAKE i \in 1 .. Len(clause.refs)
    <3>1. clause.refs[i] \in Refs
      BY <2>1
    <3> QED  BY <3>1, PolicyTextAssumption DEF Refs
  <2> QED  BY <2>1, <2>2
<1>3. IsClause(Clause(clause.op, refs))
  <2>1. clause.op \in ClauseOps /\ (clause.op \in {"==", "!=", "in"} => Len(clause.refs) = 1)
    BY <1>1 DEF IsClause
  <2> HIDE DEF refs
  <2> QED  BY <1>2, <2>1, ClauseIs
<1>4. IsClause(Nothing)
  <2>1. Nothing = Clause("nothing", <<>>) /\ "nothing" \in ClauseOps /\ <<>> \in Seq(Refs)
    BY DEF Nothing, ClauseOps
  <2> QED  BY <2>1, ClauseIs
<1> QED  BY <1>3, <1>4 DEF WriteAction, clause

LEMMA ToTextIs ==
    ASSUME NEW f
    PROVE  /\ ToText(f).effect = f.effect
           /\ ToText(f).annotated = FALSE
           /\ ToText(f).principal = WriteScope(f.principal)
           /\ ToText(f).action = WriteAction(f.action)
           /\ ToText(f).resource = WriteScope(f.resource)
           /\ ToText(f).conditions = f.conditions
           /\ ToText(f).split = (Len(f.conditions) > 1)
BY DEF ToText

LEMMA ToTextIsText ==
    ASSUME NEW f, FormInv(f)
    PROVE  IsText(ToText(f))
<1>1. f.effect \in Effects /\ f.conditions \in Seq(Conditions)
  BY DEF FormInv, Forms
<1>2. /\ IsClause(ToText(f).principal) /\ IsClause(ToText(f).resource)
      /\ IsClause(ToText(f).action)
  BY ToTextIs, WrittenClauses, WrittenActions DEF FormInv, ActionInv
<1> QED  BY <1>1, <1>2, ToTextIs DEF IsText, Vars

-----------------------------------------------------------------------------
(* The controls. *)

LEMMA FormFields ==
    ASSUME NEW f, FormInv(f)
    PROVE  /\ f = [id |-> f.id, effect |-> f.effect, principal |-> f.principal,
                   action |-> f.action, resource |-> f.resource, conditions |-> f.conditions]
           /\ f.id \in PolicyIds \cup {NoId}
           /\ f.effect \in Effects
           /\ f.conditions \in Seq(Conditions)
           /\ \A v \in Vars : ScopeInv(f[v])
<1>1. f \in Forms
  BY DEF FormInv
<1>2. ScopeInv(f.principal) /\ ScopeInv(f.action) /\ ScopeInv(f.resource)
  BY DEF FormInv, ActionInv
<1>3. \A v \in Vars : ScopeInv(f[v])
  BY <1>2 DEF Vars
<1> QED  BY <1>1, <1>3 DEF Forms

LEMMA FieldInv ==
    ASSUME NEW f, FormInv(f), NEW field, NEW value,
           \/ field = "id" /\ value \in PolicyIds
           \/ field = "effect" /\ value \in Effects
           \/ field \in {"principal", "resource"} /\ ScopeInv(value)
           \/ field = "action" /\ ActionInv(value)
           \/ field = "conditions" /\ value \in Seq(Conditions)
    PROVE  FormInv([f EXCEPT ![field] = value])
<1>1. f \in Forms
  BY DEF FormInv
<1>2. ScopeInv(value) \/ ActionInv(value) => value \in Scopes
  BY DEF ScopeInv, ActionInv
<1>3. CASE field = "id" /\ value \in PolicyIds
  BY <1>1, <1>3 DEF FormInv, Forms
<1>4. CASE field = "effect" /\ value \in Effects
  BY <1>1, <1>4 DEF FormInv, Forms
<1>5. CASE field = "principal" /\ ScopeInv(value)
  BY <1>1, <1>2, <1>5 DEF FormInv, Forms
<1>6. CASE field = "resource" /\ ScopeInv(value)
  BY <1>1, <1>2, <1>6 DEF FormInv, Forms
<1>7. CASE field = "action" /\ ActionInv(value)
  BY <1>1, <1>2, <1>7 DEF FormInv, Forms
<1>8. CASE field = "conditions" /\ value \in Seq(Conditions)
  BY <1>1, <1>8 DEF FormInv, Forms
<1> QED  BY <1>3, <1>4, <1>5, <1>6, <1>7, <1>8

\* A field that gets a value the invariant allows leaves the others as they are; the
\* id is a field only while a policy is created.
LEMMA EditInv ==
    ASSUME DialogInv, NEW field, NEW value, Edit(field, value),
           \/ field = "id" /\ value \in PolicyIds /\ editing = None
           \/ field = "effect" /\ value \in Effects
           \/ field \in {"principal", "resource"} /\ ScopeInv(value)
           \/ field = "action" /\ ActionInv(value)
           \/ field = "conditions" /\ value \in Seq(Conditions)
    PROVE  DialogInv'
<1>1. /\ form' = [form EXCEPT ![field] = value]
      /\ edits < MaxEdits /\ edits' = edits + 1
      /\ UNCHANGED <<stored, open, editing, loaded, saves, toast>>
  BY DEF Edit
<1>2. FormInv(form')
  BY <1>1, FieldInv DEF DialogInv
<1>3. field # "id" => form'.id = form.id
  <2>1. form \in Forms
    BY DEF DialogInv, FormInv
  <2> QED  BY <1>1, <2>1 DEF Forms
<1>4. EditingInv'
  BY <1>1, <1>3 DEF DialogInv, EditingInv, Shown
<1>5. StoredInv'
  BY <1>1 DEF DialogInv, StoredInv
<1>6. CountsInv'
  BY <1>1, PolicyFormAssumption DEF DialogInv, CountsInv
<1> QED  BY <1>2, <1>4, <1>5, <1>6 DEF DialogInv

LEMMA TypesAndIds ==
    ASSUME DialogInv, NEW v \in Vars
    PROVE  /\ form[v].op \in ScopeOps
           /\ TypeOf(v) \in Types \cup {None}
           /\ IdOf(v) \in Ids
           /\ TypeOptions \subseteq Types
           /\ ActionOptions \subseteq Ids
           /\ IdOptions(v) \subseteq Ids
<1>1. form[v] \in Scopes
  BY FormFields DEF DialogInv, ScopeInv
<1>2. form[v].op \in ScopeOps /\ form[v].entity \in Refs \cup {None}
  BY <1>1 DEF Scopes
<1>3. TypeOf(v) \in Types \cup {None} /\ IdOf(v) \in Ids
  BY <1>2, PolicyTextAssumption DEF TypeOf, IdOf, Refs
<1>4. IdOptions(v) \subseteq Ids
  BY <1>3, PolicyFormAssumption DEF IdOptions
<1> QED  BY <1>2, <1>3, <1>4, PolicyFormAssumption DEF TypeOptions, ActionOptions

LEMMA UpdatedScope ==
    ASSUME NEW op \in ScopeOps, NEW type \in Types \cup {None}, NEW id \in Ids
    PROVE  LET scope == Scope(op, IF op # "All" /\ type # None
                                  THEN [type |-> type, id |-> id] ELSE None, None)
           IN  /\ ScopeInv(scope)
               /\ op \in {"All", "=="} => ActionInv(scope)
<1> DEFINE entity == IF op # "All" /\ type # None THEN [type |-> type, id |-> id] ELSE None
<1>1. entity \in Refs \cup {None} /\ (op = "All" => entity = None)
  BY DEF Refs
<1> HIDE DEF entity
<1>2. CASE op = "All"
  <2>1. Scope(op, entity, None) = AllScope
    BY <1>1, <1>2 DEF AllScope
  <2> QED  BY <2>1, AllScopeInv DEF entity
<1>3. CASE op # "All"
  <2>1. ScopeInv(Scope(op, entity, None))
    BY <1>1, <1>3, EntityScopeInv
  <2>2. op = "==" => ActionInv(Scope(op, entity, None))
    BY <1>1, ActionEntityInv
  <2> QED  BY <1>3, <2>1, <2>2 DEF entity
<1> QED  BY <1>2, <1>3

LEMMA UpdateScopeInv ==
    ASSUME DialogInv, NEW v \in Vars, NEW op \in ScopeOps, NEW type \in Types \cup {None},
           NEW id \in Ids, UpdateScope(v, op, type, id),
           v = "action" => op \in {"All", "=="}
    PROVE  DialogInv'
<1> DEFINE scope == Scope(op, IF op # "All" /\ type # None
                              THEN [type |-> type, id |-> id] ELSE None, None)
<1>1. Edit(v, scope)
  BY DEF UpdateScope
<1>2. ScopeInv(scope) /\ (op \in {"All", "=="} => ActionInv(scope))
  BY UpdatedScope
<1> HIDE DEF scope
<1> QED  BY <1>1, <1>2, EditInv DEF Vars

LEMMA ScopeTabs ==
    ASSUME DialogInv, PrincipalTab \/ ResourceTab
    PROVE  DialogInv'
<1>1. PICK v \in {"principal", "resource"} :
          \/ ChooseOp(v, {"All", "==", "in"}) \/ ChooseOp(v, {"All", "==", "!=", "in"})
          \/ ChooseType(v) \/ ChooseId(v)
  BY DEF PrincipalTab, ResourceTab
<1>2. v \in Vars /\ v # "action"
  BY DEF Vars
<1>3. /\ form[v].op \in ScopeOps /\ TypeOf(v) \in Types \cup {None} /\ IdOf(v) \in Ids
      /\ TypeOptions \subseteq Types /\ IdOptions(v) \subseteq Ids
  BY <1>2, TypesAndIds
<1>4. CASE ChooseOp(v, {"All", "==", "in"}) \/ ChooseOp(v, {"All", "==", "!=", "in"})
  <2>1. PICK op \in ScopeOps : UpdateScope(v, op, TypeOf(v), IdOf(v))
    BY <1>4, SimpleOps DEF ChooseOp
  <2> QED  BY <1>2, <1>3, <2>1, UpdateScopeInv
<1>5. CASE ChooseType(v)
  <2>1. PICK t \in Types \cup {None}, i \in Ids : UpdateScope(v, form[v].op, t, i)
    BY <1>3, <1>5, PolicyTextAssumption DEF ChooseType
  <2> QED  BY <1>2, <1>3, <2>1, UpdateScopeInv
<1>6. CASE ChooseId(v)
  <2>1. PICK i \in Ids : UpdateScope(v, form[v].op, TypeOf(v), i)
    BY <1>3, <1>6 DEF ChooseId
  <2> QED  BY <1>2, <1>3, <2>1, UpdateScopeInv
<1> QED  BY <1>1, <1>4, <1>5, <1>6

LEMMA IdAndEffect ==
    ASSUME DialogInv, SetId \/ SetEffect
    PROVE  DialogInv'
<1>1. CASE SetId
  BY <1>1, EditInv DEF SetId
<1>2. CASE SetEffect
  BY <1>2, EditInv DEF SetEffect
<1> QED  BY <1>1, <1>2

\* The selection is a list of actions: one is appended, or one is filtered out.
LEMMA ActionTabInv ==
    ASSUME DialogInv, ActionTab
    PROVE  DialogInv'
<1> DEFINE ActionSeq(refs) == refs \in Seq(Refs) /\ \A i \in DOMAIN refs : refs[i].type = ActionType
<1>1. "action" \in Vars
  BY DEF Vars
<1>2. /\ TypeOf("action") \in Types \cup {None} /\ IdOf("action") \in Ids
      /\ ActionOptions \subseteq Ids
  BY <1>1, TypesAndIds
<1>3. ActionInv(form.action)
  BY DEF DialogInv, FormInv
<1>4. ASSUME form.action.op = "in"
      PROVE  ActionSeq(ActionList) /\ ActionList = form.action.entities
  <2>1. form.action.entities # None /\ form.action.entities \in Seq(Refs) \cup {None}
    BY <1>3, <1>4 DEF ActionInv, ScopeInv, Scopes
  <2> QED  BY <1>3, <2>1 DEF ActionList, ActionInv
<1>5. ASSUME NEW refs, ActionSeq(refs), Edit("action", Scope("in", None, refs))
      PROVE  DialogInv'
  BY <1>5, ActionListInv, EditInv
<1>6. CASE form.action.op # "in" /\ Edit("action", Scope("in", None, <<>>))
  <2>1. ActionSeq(<<>>)
    OBVIOUS
  <2> QED  BY <1>5, <1>6, <2>1
<1>7. CASE ChooseOp("action", {"All", "=="})
  <2>1. PICK op \in {"All", "=="} : UpdateScope("action", op, TypeOf("action"), IdOf("action"))
    BY <1>7 DEF ChooseOp
  <2>2. op \in ScopeOps
    BY SimpleOps
  <2> QED  BY <1>1, <1>2, <2>1, <2>2, UpdateScopeInv
<1>8. CASE AddActionToSelection
  <2>1. form.action.op = "in"
    BY <1>8 DEF AddActionToSelection
  <2>2. PICK a \in Ids : Edit("action", Scope("in", None,
                              Append(ActionList, [type |-> ActionType, id |-> a])))
    BY <1>2, <1>8, <2>1 DEF AddActionToSelection, UpdateActionEntities
  <2> DEFINE ref == [type |-> ActionType, id |-> a]
  <2>3. ref \in Refs /\ ref.type = ActionType
    BY PolicyTextAssumption DEF Refs
  <2>4. ActionSeq(Append(ActionList, ref))
    <3>1. ActionSeq(ActionList)
      BY <1>4, <2>1
    <3> HIDE DEF ref
    <3> QED  BY <2>3, <3>1
  <2> HIDE DEF ActionSeq
  <2> QED  BY <1>5, <2>2, <2>4
<1>9. CASE RemoveActionFromSelection
  <2>1. form.action.op = "in"
    BY <1>9 DEF RemoveActionFromSelection
  <2>2. PICK is \in SUBSET DOMAIN ActionList :
            Edit("action", Scope("in", None, At(ActionList, is)))
    <3>1. PICK i \in 1 .. Len(ActionList) :
              UpdateActionEntities(At(ActionList,
                  {j \in DOMAIN ActionList : ActionList[j].id # ActionList[i].id}))
      BY <1>9 DEF RemoveActionFromSelection
    <3>2. {j \in DOMAIN ActionList : ActionList[j].id # ActionList[i].id}
            \in SUBSET DOMAIN ActionList
      OBVIOUS
    <3> QED  BY <2>1, <3>1, <3>2 DEF UpdateActionEntities
  <2>3. ActionSeq(At(ActionList, is))
    <3> DEFINE S == {r \in Refs : r.type = ActionType}
    <3>1. ActionList \in Seq(S)
      BY <1>4, <2>1
    <3>2. At(ActionList, is) \in Seq({ActionList[i] : i \in is})
      BY <3>1, AtIsOfThem
    <3>3. {ActionList[i] : i \in is} \subseteq S
      BY <3>1
    <3>4. At(ActionList, is) \in Seq(S)
      <4> DEFINE T == {ActionList[i] : i \in is}
      <4>1. T \subseteq S /\ At(ActionList, is) \in Seq(T)
        BY <3>2, <3>3
      <4> HIDE DEF T, S
      <4> QED  BY <4>1
    <3> HIDE DEF S
    <3>5. \A r \in S : r \in Refs /\ r.type = ActionType
      BY DEF S
    <3> QED  BY <3>4, <3>5
  <2> HIDE DEF ActionSeq
  <2> QED  BY <1>5, <2>2, <2>3
<1>10. CASE ChooseActionId
  <2>1. PICK t \in Types \cup {None}, a \in Ids : UpdateScope("action", "==", t, a)
    BY <1>2, <1>10, PolicyTextAssumption DEF ChooseActionId
  <2>2. "==" \in ScopeOps
    BY SimpleOps
  <2> QED  BY <1>1, <2>1, <2>2, UpdateScopeInv
<1> QED  BY <1>6, <1>7, <1>8, <1>9, <1>10 DEF ActionTab, ChooseActionOp

LEMMA ConditionsInv ==
    ASSUME DialogInv, ConditionsEditor
    PROVE  DialogInv'
<1>1. form.conditions \in Seq(Conditions)
  BY FormFields DEF DialogInv
<1>2. ASSUME NEW value \in Seq(Conditions), Edit("conditions", value)
      PROVE  DialogInv'
  BY <1>2, EditInv
<1>3. CASE AddCondition
  <2>1. PICK b \in Bodies : Edit("conditions", Append(form.conditions, EmptyCondition(b)))
    BY <1>3 DEF AddCondition
  <2>2. EmptyCondition(b) \in Conditions
    BY DEF EmptyCondition, Conditions
  <2>3. Append(form.conditions, EmptyCondition(b)) \in Seq(Conditions)
    BY <1>1, <2>2
  <2> QED  BY <1>2, <2>1, <2>3
<1>4. CASE UpdateCondition
  <2>1. PICK i \in 1 .. Len(form.conditions), c \in Conditions :
            Edit("conditions", [form.conditions EXCEPT ![i] = c])
    BY <1>4 DEF UpdateCondition
  <2>2. [form.conditions EXCEPT ![i] = c] \in Seq(Conditions)
    BY <1>1
  <2> QED  BY <1>2, <2>1, <2>2
<1>5. CASE RemoveCondition
  <2>1. PICK i \in 1 .. Len(form.conditions) :
            Edit("conditions", [j \in 1 .. Len(form.conditions) - 1 |->
                                   form.conditions[IF j < i THEN j ELSE j + 1]])
    BY <1>5 DEF RemoveCondition
  <2>2. [j \in 1 .. Len(form.conditions) - 1 |->
            form.conditions[IF j < i THEN j ELSE j + 1]] \in Seq(Conditions)
    BY <1>1
  <2> QED  BY <1>2, <2>1, <2>2
<1> QED  BY <1>3, <1>4, <1>5 DEF ConditionsEditor

-----------------------------------------------------------------------------
(* The dialog opens, closes and saves. *)

LEMMA DialogStarts == Init => DialogInv
<1> SUFFICES ASSUME Init  PROVE DialogInv
  OBVIOUS
<1>1. FormInv(form)
  BY EmptyFormInv DEF Init
<1>2. EditingInv
  <2>1. open = FALSE /\ editing = None
    BY DEF Init
  <2> QED  BY <2>1 DEF EditingInv
<1>4. CountsInv
  <2>1. open \in BOOLEAN /\ loaded \in BOOLEAN
    BY DEF Init
  <2>2. edits \in 0 .. MaxEdits /\ saves \in 0 .. MaxSaves
    BY PolicyFormAssumption DEF Init
  <2>3. toast \in {"none", "saved", Refused}
    BY DEF Init
  <2> QED  BY <2>1, <2>2, <2>3 DEF CountsInv
<1>3. StoredInv
  BY PolicyFormAssumption DEF Init, StoredInv
<1> QED  BY <1>1, <1>2, <1>3, <1>4 DEF DialogInv

LEMMA ResetInv ==
    ASSUME NEW policy, Reset(policy), policy # None => FormInv(policy)
    PROVE  FormInv(form') /\ (policy # None => form' = policy) /\ editing' = policy /\ edits' = 0
BY EmptyFormInv DEF Reset

LEMMA OpenInv ==
    ASSUME DialogInv, OpenEdit \/ OpenCreate
    PROVE  DialogInv'
<1>1. PICK policy : /\ Reset(policy)
                    /\ policy # None => \E p \in PolicyIds :
                                          stored[p] # Absent /\ policy = Shown(p, stored[p])
  BY DEF OpenEdit, OpenCreate
<1>2. open' = TRUE /\ toast' = "none" /\ UNCHANGED <<stored, loaded, saves>>
  BY DEF OpenEdit, OpenCreate
<1>3. \A p \in PolicyIds : stored[p] # Absent =>
        FormInv(Shown(p, stored[p])) /\ Shown(p, stored[p]).id = p
  BY ShownInv DEF DialogInv, StoredInv
<1>4. FormInv(form') /\ (policy # None => form' = policy) /\ editing' = policy /\ edits' = 0
  BY <1>1, <1>3, ResetInv
<1>5. policy # None => /\ policy.id \in PolicyIds
                       /\ stored[policy.id] # Absent
                       /\ policy = Shown(policy.id, stored[policy.id])
                       /\ FormInv(policy)
  BY <1>1, <1>3
<1>6. EditingInv'
  <2>1. ASSUME editing' # None
        PROVE  /\ FormInv(editing') /\ form'.id = editing'.id
               /\ editing'.id \in PolicyIds
               /\ stored'[editing'.id] # Absent
               /\ editing' = Shown(editing'.id, stored'[editing'.id])
    BY <1>2, <1>4, <1>5, <2>1
  <2> QED  BY <2>1 DEF EditingInv
<1>7. StoredInv'
  BY <1>2 DEF DialogInv, StoredInv
<1>8. CountsInv'
  BY <1>2, <1>4, PolicyFormAssumption DEF DialogInv, CountsInv
<1> QED  BY <1>4, <1>6, <1>7, <1>8 DEF DialogInv

LEMMA CloseInv ==
    ASSUME DialogInv, Save \/ Cancel
    PROVE  DialogInv'
<1>1. Reset(editing) /\ open' = FALSE /\ UNCHANGED loaded
  BY DEF Save, Cancel
<1>2. FormInv(form') /\ (editing # None => form' = editing) /\ editing' = editing /\ edits' = 0
  BY <1>1, ResetInv DEF DialogInv, EditingInv
<1>3. EditingInv'
  BY <1>1, <1>2 DEF DialogInv, EditingInv
<1>4. StoredInv'
  <2>1. CASE Cancel
    BY <2>1 DEF Cancel, DialogInv, StoredInv
  <2>2. CASE Save
    <3>1. stored' = [stored EXCEPT ![form.id] = ToText(form)]
      BY <2>2 DEF Save
    <3>2. IsText(ToText(form))
      BY ToTextIsText DEF DialogInv
    <3> QED  BY <3>1, <3>2 DEF DialogInv, StoredInv
  <2> QED  BY <2>1, <2>2
<1>5. CountsInv'
  <2>1. /\ saves' = saves \/ (saves' = saves + 1 /\ saves < MaxSaves)
        /\ toast' \in {toast, "saved"}
    BY DEF Save, Cancel
  <2>2. saves' \in 0 .. MaxSaves /\ edits' \in 0 .. MaxEdits
    BY <1>2, <2>1, PolicyFormAssumption DEF DialogInv, CountsInv
  <2>3. open' \in BOOLEAN /\ loaded' \in BOOLEAN
    BY <1>1 DEF DialogInv, CountsInv
  <2>4. toast' \in {"none", "saved", Refused}
    BY <2>1 DEF DialogInv, CountsInv
  <2> QED  BY <2>2, <2>3, <2>4 DEF CountsInv
<1> QED  BY <1>2, <1>3, <1>4, <1>5 DEF DialogInv

LEMMA DialogStep ==
    ASSUME DialogInv, [Next]_vars
    PROVE  DialogInv'
<1>1. CASE LoadData
  BY <1>1 DEF LoadData, DialogInv, EditingInv, StoredInv, CountsInv
<1>2. CASE SaveRefused
  BY <1>2 DEF SaveRefused, DialogInv, EditingInv, StoredInv, CountsInv
<1>3. CASE UNCHANGED vars
  BY <1>3 DEF vars, DialogInv, EditingInv, StoredInv, CountsInv
<1> QED
  BY <1>1, <1>2, <1>3, OpenInv, CloseInv, ScopeTabs, IdAndEffect, ActionTabInv, ConditionsInv
     DEF Next

LEMMA DialogInvariance == Spec => []DialogInv
BY DialogStarts, DialogStep, PTL DEF Spec

\* The form, what is edited and the bookkeeping of the dialog have their types, whatever
\* text is read into the form and in whatever order its controls are used.
THEOREM DialogTyped == Spec => []TypeOK
<1>1. ASSUME NEW f, FormInv(f)  PROVE FormTyped(f)
  <2>1. \A v \in Vars : f[v] \in Scopes
    BY <1>1, FormFields DEF ScopeInv
  <2>2. \A v \in Vars : ScopeTyped(f[v])
    BY <2>1 DEF Scopes, ScopeTyped
  <2> QED  BY <1>1, <2>2, FormFields DEF FormTyped
<1>2. DialogInv => TypeOK
  BY <1>1 DEF DialogInv, EditingInv, CountsInv, TypeOK
<1> QED  BY <1>2, DialogInvariance, PTL

\* Whatever has been stored, by the dialog or by others, saving what the dialog shows
\* settles after two rounds.
THEOREM ReadingSettles == Spec => []DriftSettles
<1>1. DialogInv => DriftSettles
  BY ThirdTimeSame DEF DialogInv, StoredInv, DriftSettles
<1> QED  BY <1>1, DialogInvariance, PTL

\* Whatever the order in which operator, type and id were chosen, the entity the dialog
\* shows is what the text names.
THEOREM WhatIsShownIsWritten == Spec => []ChosenIsWritten
<1>1. ASSUME NEW scope, ScopeInv(scope), scope.entity # None
      PROVE  WriteScope(scope).refs = <<scope.entity>>
  <2>1. scope.op # "All" /\ scope.entities = None
    BY <1>1 DEF ScopeInv
  <2> QED  BY <1>1, <2>1 DEF WriteScope, Clause
<1>2. DialogInv => ChosenIsWritten
  BY <1>1, FormFields DEF DialogInv, ChosenIsWritten
<1> QED  BY <1>2, DialogInvariance, PTL

-----------------------------------------------------------------------------
(* What the agent accepts, and what a save stores. *)

\* Only a bare scope and one entity compared with "==" are written so that they parse.
LEMMA AcceptedScope ==
    ASSUME NEW scope, ScopeInv(scope), NEW v \in {"principal", "resource"},
           ClauseParses(v, WriteScope(scope))
    PROVE  \/ scope = AllScope
           \/ /\ scope.entity \in Refs
              /\ scope = Scope("==", scope.entity, None)
<1> USE OpsDiffer
<1>1. /\ scope = Scope(scope.op, scope.entity, scope.entities)
      /\ scope.op \in ScopeOps /\ scope.entity \in Refs \cup {None}
  BY DEF ScopeInv, Scopes, Scope
<1>2. WriteScope(scope).op \in {"any", "==", "in", "is"}
  BY DEF ClauseParses
<1>3. /\ Any.op = "any" /\ Nothing.op = "nothing"
      /\ \A op, refs : Clause(op, refs).op = op
  BY DEF Any, Nothing, Clause
<1>4. CASE scope.op = "All"
  BY <1>1, <1>4 DEF AllScope, ScopeInv
<1>5. CASE scope.op \in {"in", NotIn}
  <2>1. ListOp(scope.op) \in {InList, NotInList} /\ scope.op # "All"
    BY <1>5 DEF ListOp
  <2>2. WriteScope(scope).op \in {InList, NotInList, "nothing"}
    BY <1>3, <1>5, <2>1 DEF WriteScope
  <2> QED  BY <1>2, <2>2
<1>6. CASE scope.op = "=="
  <2>1. scope.op # "All" /\ scope.op \notin {"in", NotIn} /\ scope.entities = None
    BY <1>6 DEF ScopeInv
  <2>2. scope.entity # None
    <3> SUFFICES ASSUME scope.entity = None  PROVE FALSE
      OBVIOUS
    <3>1. WriteScope(scope) = Nothing
      BY <2>1 DEF WriteScope
    <3> QED  BY <1>2, <1>3, <3>1
  <2> QED  BY <1>1, <1>6, <2>1, <2>2
<1>7. CASE scope.op = "!="
  <2>1. scope.op # "All" /\ scope.op \notin {"in", NotIn}
    BY <1>7
  <2>2. WriteScope(scope).op \in {"!=", "nothing"}
    BY <1>3, <1>7, <2>1 DEF WriteScope
  <2> QED  BY <1>2, <2>2
<1> QED  BY <1>1, <1>4, <1>5, <1>6, <1>7, SimpleOps

LEMMA AcceptedAction ==
    ASSUME NEW scope, ActionInv(scope), ClauseParses("action", WriteAction(scope))
    PROVE  \/ scope = AllScope
           \/ /\ scope.entity \in Refs
              /\ scope = Scope("==", scope.entity, None)
           \/ /\ scope.entities \in Seq(Refs)
              /\ scope = Scope("in", None, scope.entities)
<1>1. /\ scope = Scope(scope.op, scope.entity, scope.entities)
      /\ scope.op \in {"All", "==", "in"} /\ scope.entity \in Refs \cup {None}
      /\ scope.entities \in Seq(Refs) \cup {None}
  BY DEF ActionInv, ScopeInv, Scopes, Scope
<1>2. CASE scope.op = "All"
  BY <1>1, <1>2 DEF AllScope, ActionInv, ScopeInv
<1>3. CASE scope.op = "in"
  BY <1>1, <1>3 DEF ActionInv
<1>4. CASE scope.op = "=="
  <2>1. scope.op # "All" /\ scope.op \notin {"in", NotIn} /\ scope.entities = None
    BY <1>4, OpsDiffer DEF ActionInv, ScopeInv
  <2>2. scope.entity # None
    <3> SUFFICES ASSUME scope.entity = None  PROVE FALSE
      OBVIOUS
    <3>1. WriteScope(scope) = Nothing
      BY <2>1 DEF WriteScope
    <3>2. Nothing.op = "nothing" /\ \A op, refs : Clause(op, refs).op = op
      BY DEF Nothing, Clause
    <3>3. WriteAction(scope).op = "nothing"
      BY <3>1, <3>2 DEF WriteAction
    <3> QED  BY <3>3, OpsDiffer DEF ClauseParses
  <2> QED  BY <1>1, <1>4, <2>1, <2>2
<1> QED  BY <1>1, <1>2, <1>3, <1>4

LEMMA OnlySavesStore ==
    ASSUME DialogInv, [Next]_vars, stored' # stored
    PROVE  Save
<1>1. ASSUME NEW field, NEW value, Edit(field, value)
      PROVE  UNCHANGED stored
  BY <1>1 DEF Edit
<1> QED
  BY <1>1
     DEF Next, vars, OpenEdit, OpenCreate, LoadData, SetId, SetEffect, PrincipalTab, ActionTab,
         ResourceTab, ConditionsEditor, SaveRefused, Cancel, ChooseOp, ChooseType, ChooseId,
         UpdateScope, ChooseActionOp, AddActionToSelection, RemoveActionFromSelection,
         ChooseActionId, UpdateActionEntities, AddCondition, UpdateCondition, RemoveCondition

LEMMA SaveStores ==
    ASSUME DialogInv, Save
    PROVE  /\ form.id \in PolicyIds
           /\ stored' = [stored EXCEPT ![form.id] = ToText(form)]
           /\ stored'[form.id] = ToText(form)
           /\ \A p \in PolicyIds : stored'[p] # stored[p] => p = form.id
           /\ Parses(ToText(form))
           /\ \A v \in Vars : ClauseParses(v, ToText(form)[v])
           /\ Len(form.conditions) <= 1
           /\ stored[form.id] # Absent => editing # None
<1>1. /\ form.id # NoId /\ Parses(ToText(form)) /\ (editing = None => stored[form.id] = Absent)
      /\ stored' = [stored EXCEPT ![form.id] = ToText(form)]
  BY DEF Save, CanSubmit, Accepted
<1>2. form.id \in PolicyIds /\ form.conditions \in Seq(Conditions) /\ DOMAIN stored = PolicyIds
  BY <1>1, FormFields DEF DialogInv, StoredInv
<1>3. Len(form.conditions) <= 1
  <2>1. ~ToText(form).split
    BY <1>1 DEF Parses
  <2>2. ~(Len(form.conditions) > 1)
    BY <2>1, ToTextIs, Zenon
  <2> QED  BY <1>2, <2>2
<1> QED  BY <1>1, <1>2, <1>3 DEF Parses

\* The agent refuses everything the dialog offers but a bare scope, one entity compared
\* with "==", and one condition.
THEOREM OnlySimplePoliciesSaved == Spec => OnlySimpleSaved
<1>1. ASSUME DialogInv, [Next]_vars, NEW p \in PolicyIds, stored'[p] # stored[p]
      PROVE  /\ \A v \in Vars \ {"action"} : stored'[p][v].op \in {"any", "=="}
             /\ Len(stored'[p].conditions) <= 1
  <2>1. Save
    BY <1>1, OnlySavesStore
  <2>2. p = form.id /\ stored'[p] = ToText(form) /\ Len(form.conditions) <= 1
        /\ \A v \in Vars : ClauseParses(v, ToText(form)[v])
    BY <1>1, <2>1, SaveStores
  <2>3. ASSUME NEW v \in {"principal", "resource"}
        PROVE  ToText(form)[v].op \in {"any", "=="}
    <3>1. v \in Vars /\ ToText(form)[v] = WriteScope(form[v]) /\ ScopeInv(form[v])
      BY <1>1, ToTextIs, FormFields DEF DialogInv, Vars
    <3>2. \/ form[v] = AllScope
          \/ form[v].entity \in Refs /\ form[v] = Scope("==", form[v].entity, None)
      BY <2>2, <3>1, AcceptedScope
    <3>3. \A e \in Refs : WriteScope(Scope("==", e, None)).op = "=="
      BY EntityIsWritten DEF Clause
    <3>4. WriteScope(AllScope).op = "any"
      BY AllIsAny, AnyClause
    <3> QED  BY <3>1, <3>2, <3>3, <3>4
  <2> QED  BY <2>2, <2>3, ToTextIs DEF Vars
<1>2. ASSUME DialogInv, [Next]_vars
      PROVE  [\A p \in PolicyIds :
                 stored'[p] # stored[p] =>
                     /\ \A v \in Vars \ {"action"} : stored'[p][v].op \in {"any", "=="}
                     /\ Len(stored'[p].conditions) <= 1]_vars
  BY <1>1, <1>2
<1> QED  BY <1>2, DialogInvariance, PTL DEF Spec, OnlySimpleSaved

-----------------------------------------------------------------------------
(* Texts whose conditions mention no variable: the clauses alone are read. *)

LEMMA SilentTail ==
    ASSUME NEW conditions \in Seq(Conditions), SilentConditions(conditions),
           NEW v \in Vars, NEW ops, "nothing" \notin ops
    PROVE  ~TailContains(conditions, v, ops)
BY DEF SilentConditions, Silent, TailContains, Nothing, Clause

LEMMA SilentConditionsRead ==
    ASSUME NEW text, IsText(text), SilentConditions(text.conditions)
    PROVE  ReadConditions(text) = text.conditions
<1>1. /\ text.conditions \in Seq(Conditions)
      /\ Len(text.conditions) \in Nat /\ Len(text.conditions) <= 1
  BY DEF IsText, SilentConditions
<1>2. CASE Len(text.conditions) = 0
  <2>1. text.conditions = <<>>
    BY <1>1, <1>2
  <2> QED  BY <2>1, ReadConditionsAgain
<1>3. CASE Len(text.conditions) = 1
  <2>1. text.conditions[1] \in Conditions /\ text.conditions = <<text.conditions[1]>>
    BY <1>1, <1>3
  <2>2. ToFirstBrace[text.conditions[1].body] = text.conditions[1].body
    BY <1>3 DEF SilentConditions, Silent
  <2>3. PICK kind \in {"when", "unless"}, b \in Bodies :
            text.conditions[1] = [kind |-> kind, body |-> b]
    BY <2>1 DEF Conditions
  <2>4. ReadShape(text.conditions)
    <3>1. ToFirstBrace[b] = b
      BY <2>2, <2>3
    <3>2. text.conditions \in
              {<<[kind |-> "when", body |-> b]>>, <<[kind |-> "unless", body |-> b]>>}
      BY <2>1, <2>3
    <3> QED  BY <3>1, <3>2 DEF ReadShape
  <2> QED  BY <2>4, ReadConditionsAgain
<1>4. Len(text.conditions) = 0 \/ Len(text.conditions) = 1
  <2>1. \A n \in Nat : n <= 1 => n = 0 \/ n = 1
    OBVIOUS
  <2> DEFINE n == Len(text.conditions)
  <2>2. n \in Nat /\ n <= 1
    BY <1>1
  <2> HIDE DEF n
  <2>3. n = 0 \/ n = 1
    BY <2>1, <2>2
  <2> QED  BY <2>3 DEF n
<1> QED  BY <1>2, <1>3, <1>4

\* Nothing is found after v when neither its clause nor a condition has it.
LEMMA NothingRead ==
    ASSUME NEW text, IsText(text), SilentConditions(text.conditions), NEW v \in Vars,
           text[v] = Any
    PROVE  /\ \A op \in {"==", "!=", "in", InList} : ~Contains(text, v, {op})
           /\ ~Contains(text, v, {"in", InList})
           /\ \A written \in {"==", "!=", InList} : \A op, types :
                  ReadEntity(text, v, written, op, types) = AllScope
           /\ \A op \in {InList, NotInList} : ReadList(text, v, op) = <<>>
<1> USE OpsDiffer
<1>1. text[v].op = "any" /\ text[v].refs = <<>>
  BY AnyClause
<1>2. text.conditions \in Seq(Conditions)
  BY DEF IsText
<1>3. ASSUME NEW ops, "nothing" \notin ops, "any" \notin ops
      PROVE  ~Contains(text, v, ops)
  BY <1>1, <1>2, <1>3, SilentTail, ContainsIs
<1>4. ASSUME NEW op, op \notin {"any", "nothing"}
      PROVE  \A i \in DOMAIN Mentions(text, v) : Mentions(text, v)[i].op # op
  <2>1. ~Contains(text, v, {op})
    BY <1>3, <1>4
  <2>2. Mentions(text, v) \in Seq(Clauses)
    BY MentionsAre
  <2> QED  BY <2>1, <2>2 DEF Contains
<1>5. ASSUME NEW written \in {"==", "!=", InList}, NEW op, NEW types
      PROVE  ReadEntity(text, v, written, op, types) = AllScope
  <2>1. {i \in DOMAIN Mentions(text, v) : Matches(Mentions(text, v)[i], written, types)} = {}
    BY <1>4 DEF Matches
  <2> QED  BY <2>1 DEF ReadEntity
<1>6. ASSUME NEW op \in {InList, NotInList}
      PROVE  ReadList(text, v, op) = <<>>
  <2>1. {i \in DOMAIN Mentions(text, v) :
            Mentions(text, v)[i].op = op /\ Mentions(text, v)[i].refs # <<>>} = {}
    BY <1>4
  <2> QED  BY <2>1 DEF ReadList
<1> QED  BY <1>3, <1>5, <1>6

\* A bare scope, an entity after == and a list of actions are read as they are written.
LEMMA SilentRead ==
    ASSUME NEW text, IsText(text), SilentConditions(text.conditions)
    PROVE  /\ text.principal = Any => ReadPrincipal(text) = AllScope
           /\ text.action = Any => ReadAction(text) = AllScope
           /\ text.resource = Any => ReadResource(text) = AllScope
           /\ \A e \in PlainRefs :
                /\ text.principal = Clause("==", <<e>>) =>
                       ReadPrincipal(text) = Scope("==", e, None)
                /\ text.resource = Clause("==", <<e>>) =>
                       ReadResource(text) = Scope("==", e, None)
           /\ \A e \in ActionRefs :
                text.action = Clause("==", <<e>>) => ReadAction(text) = Scope("==", e, None)
           /\ \A refs \in Seq(ActionRefs) \ {<<>>} :
                text.action = Clause(InList, refs) => ReadAction(text) = Scope("in", None, refs)
<1> USE OpsDiffer
<1>1. \A v \in {"principal", "action", "resource"} : v \in Vars
  BY DEF Vars
<1>2. ASSUME text["principal"] = Any  PROVE ReadPrincipal(text) = AllScope
  <2>1. /\ ~Contains(text, "principal", {"=="}) /\ ~Contains(text, "principal", {"!="})
        /\ ReadEntity(text, "principal", InList, "in", Types) = AllScope
    BY <1>1, <1>2, NothingRead
  <2> QED  BY <2>1 DEF ReadPrincipal
<1>3. ASSUME text["action"] = Any  PROVE ReadAction(text) = AllScope
  <2>1. ~Contains(text, "action", {"=="}) /\ ReadList(text, "action", InList) = <<>>
    BY <1>1, <1>3, NothingRead
  <2>2. {i \in DOMAIN <<>> : <<>>[i].type = ActionType} = {}
    OBVIOUS
  <2> QED  BY <2>1, <2>2, AtNone DEF ReadAction
<1>4. ASSUME text["resource"] = Any  PROVE ReadResource(text) = AllScope
  <2>1. /\ ~Contains(text, "resource", {"=="}) /\ ~Contains(text, "resource", {"!="})
        /\ ~Contains(text, "resource", {"in", InList})
        /\ ReadList(text, "resource", NotInList) = <<>>
    BY <1>1, <1>4, NothingRead
  <2> QED  BY <2>1, ReadResourceBy DEF ListScope
<1>5. ASSUME NEW v \in Vars, NEW e \in PlainRefs, text[v] = Clause("==", <<e>>)
      PROVE  /\ Contains(text, v, {"=="})
             /\ ReadEntity(text, v, "==", "==", Types) = Scope("==", e, None)
             /\ e \in ActionRefs =>
                    ReadEntity(text, v, "==", "==", {ActionType}) = Scope("==", e, None)
  <2>1. /\ text[v].op = "==" /\ text[v].refs[1] = e /\ Matches(text[v], "==", Types)
        /\ e \in ActionRefs => Matches(text[v], "==", {ActionType})
    BY <1>5, EntityClause
  <2> QED  BY <2>1, ContainsIs, ReadEntityHead
<1>6. ASSUME NEW e \in PlainRefs
      PROVE  /\ text["principal"] = Clause("==", <<e>>) =>
                       ReadPrincipal(text) = Scope("==", e, None)
             /\ text["resource"] = Clause("==", <<e>>) =>
                       ReadResource(text) = Scope("==", e, None)
  <2>1. Contains(text, "principal", {"=="}) =>
            ReadPrincipal(text) = ReadEntity(text, "principal", "==", "==", Types)
    BY DEF ReadPrincipal
  <2> QED  BY <1>1, <1>5, <2>1, ReadResourceBy
<1>7. ASSUME NEW e \in ActionRefs, text["action"] = Clause("==", <<e>>)
      PROVE  ReadAction(text) = Scope("==", e, None)
  <2>1. e \in PlainRefs
    BY DEF ActionRefs
  <2> QED  BY <1>1, <1>5, <1>7, <2>1 DEF ReadAction
<1>8. ASSUME NEW refs \in Seq(ActionRefs) \ {<<>>}, text["action"] = Clause(InList, refs)
      PROVE  ReadAction(text) = Scope("in", None, refs)
  <2>1. text["action"].op = InList /\ text.conditions \in Seq(Conditions)
    BY <1>8 DEF Clause, IsText
  <2>2. ~Contains(text, "action", {"=="})
    BY <1>1, <2>1, SilentTail, ContainsIs
  <2> QED  BY <1>8, <2>2, ActionListRead
<1> QED  BY <1>2, <1>3, <1>4, <1>6, <1>7, <1>8

\* A clause the form can show is what it writes.
LEMMA ReadableIsRewritten ==
    ASSUME NEW text, IsText(text), Readable(text)
    PROVE  LET again == Resaved(text) IN
           /\ again.effect = text.effect
           /\ again.principal = text.principal
           /\ again.action = text.action
           /\ again.resource = text.resource
           /\ again.conditions = text.conditions
<1>1. SilentConditions(text.conditions) /\ text.annotated = FALSE
  BY DEF Readable, IsText
<1>2. ASSUME NEW v \in Vars, text[v].op = "==", Plain(text[v].refs[1])
      PROVE  \E e \in PlainRefs : e = text[v].refs[1] /\ text[v] = Clause("==", <<e>>)
  <2>1. text[v] = Clause(text[v].op, text[v].refs) /\ text[v].refs \in Seq(Refs)
        /\ Len(text[v].refs) = 1
    BY <1>2 DEF IsText, IsClause, Clause
  <2>2. text[v].refs = <<text[v].refs[1]>> /\ text[v].refs[1] \in Refs
    BY <2>1
  <2> QED  BY <1>2, <2>1, <2>2 DEF PlainRefs
<1>3. ASSUME NEW v \in {"principal", "resource"}
      PROVE  text[v] = Any \/ \E e \in PlainRefs : text[v] = Clause("==", <<e>>)
  BY <1>2 DEF Readable, Vars
<1>4. \/ text["action"] = Any
      \/ \E e \in ActionRefs : text["action"] = Clause("==", <<e>>)
      \/ \E refs \in Seq(ActionRefs) \ {<<>>} : text["action"] = Clause(InList, refs)
  <2> DEFINE c == text["action"]
  <2>1. IsClause(c) /\ "action" \in Vars
    BY DEF IsText, Vars
  <2>2. \/ c = Any
        \/ c.op = "==" /\ Plain(c.refs[1]) /\ c.refs[1].type = ActionType
        \/ /\ c.op = InList /\ c.refs # <<>>
           /\ \A i \in 1 .. Len(c.refs) : Plain(c.refs[i]) /\ c.refs[i].type = ActionType
    BY <2>1 DEF Readable
  <2>3. ASSUME c.op = "==", Plain(c.refs[1]), c.refs[1].type = ActionType
        PROVE  \E e \in ActionRefs : c = Clause("==", <<e>>)
    BY <1>2, <2>1, <2>3 DEF ActionRefs
  <2>4. ASSUME c.op = InList, c.refs # <<>>,
               \A i \in 1 .. Len(c.refs) : Plain(c.refs[i]) /\ c.refs[i].type = ActionType
        PROVE  \E refs \in Seq(ActionRefs) \ {<<>>} : c = Clause(InList, refs)
    <3>1. c = Clause(c.op, c.refs) /\ c.refs \in Seq(Refs)
      BY <2>1 DEF IsClause, Clause
    <3> HIDE DEF c
    <3>2. \A i \in 1 .. Len(c.refs) : c.refs[i] \in ActionRefs
      BY <2>4, <3>1 DEF ActionRefs, PlainRefs
    <3>3. c.refs \in Seq(ActionRefs)
      BY <3>1, <3>2
    <3> QED  BY <2>4, <3>1, <3>3
  <2> HIDE DEF c
  <2> QED  BY <2>2, <2>3, <2>4 DEF c
<1>5. WriteScope(ReadPrincipal(text)) = text.principal
  <2>1. \A e \in PlainRefs : WriteScope(Scope("==", e, None)) = Clause("==", <<e>>)
    BY EntityIsWritten DEF PlainRefs
  <2> QED  BY <1>1, <1>3, <2>1, SilentRead, AllIsAny
<1>6. WriteScope(ReadResource(text)) = text.resource
  <2>1. \A e \in PlainRefs : WriteScope(Scope("==", e, None)) = Clause("==", <<e>>)
    BY EntityIsWritten DEF PlainRefs
  <2> QED  BY <1>1, <1>3, <2>1, SilentRead, AllIsAny
<1>7. WriteAction(ReadAction(text)) = text.action
  BY <1>1, <1>4, SilentRead, AnyActionWritten, ActionEntityWritten, ActionListWritten
<1>8. ReadConditions(text) = text.conditions /\ ReadEffect(text) = text.effect
  BY <1>1, SilentConditionsRead DEF ReadEffect
<1> QED  BY <1>5, <1>6, <1>7, <1>8, ResavedIs

FormParts == Vars \cup {"effect", "conditions"}

LEMMA SamePartSameText ==
    ASSUME NEW f, NEW g, NEW part \in FormParts, f[part] = g[part]
    PROVE  ToText(f)[part] = ToText(g)[part]
<1>1. part \in {"principal", "action", "resource", "effect", "conditions"}
  BY DEF FormParts, Vars
<1> QED  BY <1>1, ToTextIs

\* A policy whose text the form can show keeps every part the user did not change.
THEOREM EditingKeepsTheRest == Spec => UntouchedPartsKept
<1>1. ASSUME DialogInv, [Next]_vars, NEW p \in PolicyIds,
             stored[p] # Absent, stored'[p] # stored[p], Readable(stored[p]),
             NEW part \in FormParts, form[part] = editing[part]
      PROVE  stored'[p][part] = stored[p][part]
  <2>1. Save
    BY <1>1, OnlySavesStore
  <2>2. p = form.id /\ stored'[p] = ToText(form) /\ editing # None
    BY <1>1, <2>1, SaveStores
  <2>3. editing.id = p /\ editing = Shown(p, stored[p])
    BY <1>1, <2>1, <2>2 DEF DialogInv, EditingInv, Save, CanSubmit
  <2> DEFINE text == stored[p]
             shown == FromText(text)
  <2>4. \A v \in FormParts : editing[v] = shown[v]
    BY <2>3 DEF Shown, FormParts, Vars, FromText
  <2>5. ToText(form)[part] = ToText(shown)[part]
    <3>1. form[part] = shown[part]
      BY <1>1, <2>4
    <3> HIDE DEF shown
    <3> QED  BY <3>1, SamePartSameText
  <2>6. IsText(text)
    BY <1>1 DEF DialogInv, StoredInv
  <2>7. Resaved(text)[part] = text[part]
    BY <1>1, <2>6, ReadableIsRewritten DEF FormParts, Vars
  <2> QED  BY <2>2, <2>5, <2>7 DEF Resaved
<1>2. ASSUME DialogInv, [Next]_vars
      PROVE  [\A p \in PolicyIds :
                 stored[p] # Absent /\ stored'[p] # stored[p] /\ Readable(stored[p]) =>
                     \A part \in Vars \cup {"effect", "conditions"} :
                         form[part] = editing[part] => stored'[p][part] = stored[p][part]]_vars
  BY <1>1, <1>2 DEF FormParts
<1> QED  BY <1>2, DialogInvariance, PTL DEF Spec, UntouchedPartsKept

-----------------------------------------------------------------------------
\* The table shows an accepted policy as it was entered.
THEOREM EnteredIsShown == Spec => SavedIsShown
<1>1. ASSUME DialogInv, [Next]_vars, stored' # stored, PlainForm(form)
      PROVE  Shown(form.id, stored'[form.id]) = form
  <2> DEFINE text == ToText(form)
  <2>1. Save
    BY <1>1, OnlySavesStore
  <2>2. /\ stored'[form.id] = text
        /\ \A v \in Vars : ClauseParses(v, text[v])
    BY <1>1, <2>1, SaveStores
  <2>3. IsText(text) /\ FormInv(form)
    BY <1>1, ToTextIsText DEF DialogInv
  <2>4. /\ text.principal = WriteScope(form.principal)
        /\ text.action = WriteAction(form.action)
        /\ text.resource = WriteScope(form.resource)
        /\ text.conditions = form.conditions /\ text.effect = form.effect
        /\ text.annotated = FALSE
    BY ToTextIs
  <2>5. SilentConditions(text.conditions)
    BY <1>1, <2>4 DEF PlainForm
  <2> HIDE DEF text
  <2>6. \A v \in Vars : form[v].entity \in Refs => form[v].entity \in PlainRefs
    BY <1>1, RefIsSomething DEF PlainForm, PlainRefs
  <2>7. ASSUME NEW v \in {"principal", "resource"}
        PROVE  \/ form[v] = AllScope /\ text[v] = Any
               \/ \E e \in PlainRefs :
                      form[v] = Scope("==", e, None) /\ text[v] = Clause("==", <<e>>)
    <3>1. v \in Vars /\ text[v] = WriteScope(form[v]) /\ ScopeInv(form[v])
      BY <2>3, <2>4, FormFields DEF Vars
    <3>2. \/ form[v] = AllScope
          \/ form[v].entity \in PlainRefs /\ form[v] = Scope("==", form[v].entity, None)
      BY <2>2, <2>6, <3>1, AcceptedScope
    <3>3. \A e \in PlainRefs : WriteScope(Scope("==", e, None)) = Clause("==", <<e>>)
      BY EntityIsWritten DEF PlainRefs
    <3> QED  BY <3>1, <3>2, <3>3, AllIsAny
  <2>8. ReadPrincipal(text) = form.principal
    BY <2>3, <2>5, <2>7, SilentRead
  <2>9. ReadResource(text) = form.resource
    BY <2>3, <2>5, <2>7, SilentRead
  <2>10. ReadAction(text) = form.action
    <3> DEFINE scope == form.action
    <3>1. ActionInv(scope) /\ ClauseParses("action", WriteAction(scope)) /\ scope = form["action"]
      BY <2>2, <2>3, <2>4 DEF FormInv, Vars
    <3>2. /\ scope.entity \in Refs => scope.entity \in ActionRefs
          /\ scope.entities \in Seq(Refs) /\ scope = Scope("in", None, scope.entities) =>
                 scope.entities \in Seq(ActionRefs) \ {<<>>}
      <4>1. scope.entity \in Refs => scope.entity \in ActionRefs
        BY <1>1, <2>6, <3>1, RefIsSomething DEF PlainForm, ActionRefs, Vars
      <4>2. ASSUME scope.entities \in Seq(Refs)
            PROVE  scope.entities \in Seq(ActionRefs) \ {<<>>}
        <5>1. scope.entities # None
          BY <4>2, ListIsSomething
        <5>2. /\ scope.entities # <<>>
              /\ \A i \in 1 .. Len(scope.entities) : Plain(scope.entities[i])
          BY <1>1, <3>1, <5>1 DEF PlainForm, Vars
        <5>3. \A i \in DOMAIN scope.entities : scope.entities[i].type = ActionType
          BY <3>1, <5>1 DEF ActionInv
        <5> DEFINE refs == scope.entities
        <5>4. refs \in Seq(Refs) /\ refs # <<>>
          BY <4>2, <5>2
        <5>5. \A i \in 1 .. Len(refs) : refs[i] \in ActionRefs
          BY <5>2, <5>3, <5>4 DEF ActionRefs, PlainRefs
        <5> HIDE DEF refs
        <5>6. refs \in Seq(ActionRefs)
          BY <5>4, <5>5
        <5> QED  BY <5>4, <5>6 DEF refs
      <4> QED  BY <4>1, <4>2
    <3> HIDE DEF scope
    <3>3. CASE scope = AllScope
      <4>1. text.action = Any
        BY <2>4, <3>3, AnyActionWritten DEF scope
      <4> QED  BY <2>3, <2>5, <3>3, <4>1, SilentRead DEF scope
    <3>4. CASE scope.entity \in Refs /\ scope = Scope("==", scope.entity, None)
      <4>1. scope.entity \in ActionRefs
        BY <3>2, <3>4
      <4>2. text.action = Clause("==", <<scope.entity>>)
        BY <2>4, <3>4, <4>1, ActionEntityWritten DEF scope
      <4>3. ReadAction(text) = Scope("==", scope.entity, None)
        BY <2>3, <2>5, <4>1, <4>2, SilentRead
      <4> QED  BY <3>4, <4>3 DEF scope
    <3>5. CASE scope.entities \in Seq(Refs) /\ scope = Scope("in", None, scope.entities)
      <4>1. scope.entities \in Seq(ActionRefs) \ {<<>>}
        BY <3>2, <3>5
      <4>2. text.action = Clause(InList, scope.entities)
        BY <2>4, <3>5, <4>1, ActionListWritten DEF scope
      <4>3. ReadAction(text) = Scope("in", None, scope.entities)
        BY <2>3, <2>5, <4>1, <4>2, SilentRead
      <4> QED  BY <3>5, <4>3 DEF scope
    <3> QED  BY <3>1, <3>3, <3>4, <3>5, AcceptedAction
  <2>11. ReadConditions(text) = form.conditions /\ ReadEffect(text) = form.effect
    BY <2>3, <2>4, <2>5, SilentConditionsRead DEF ReadEffect
  <2>12. Shown(form.id, text) =
           [id |-> form.id, effect |-> form.effect, principal |-> form.principal,
            action |-> form.action, resource |-> form.resource, conditions |-> form.conditions]
    BY <2>8, <2>9, <2>10, <2>11 DEF Shown, FromText
  <2>13. Shown(form.id, text) = form
    BY <2>3, <2>12, FormFields
  <2> QED  BY <2>2, <2>13
<1>2. ASSUME DialogInv, [Next]_vars
      PROVE  [stored' # stored /\ PlainForm(form) =>
                 Shown(form.id, stored'[form.id]) = form]_vars
  BY <1>1, <1>2
<1> QED  BY <1>2, DialogInvariance, PTL DEF Spec, SavedIsShown

-----------------------------------------------------------------------------
(* The context builder. *)

ShownTexts == FieldTexts \cup {JsonTextOf[v] : v \in JsonValues}
ContextFields == [key : ContextKeys, text : ShownTexts, type : FieldTypes]

\* Values that can be written back are shown by the field they come from.
ValuesAgree ==
    builderMode = "builder" /\ Writable(builderFields) =>
        \A k \in ContextKeys :
            context[k] \in Typed => context[k] = Written(builderFields)[k]

ContextInv ==
    /\ builderFields \in Seq(ContextFields)
    /\ context \in Contexts \cup {BadJson}
    /\ KeysAgree
    /\ ValuesAgree

\* The field that wins: the last one of its key.
IsLast(fields, k, i) ==
    /\ i \in DOMAIN fields
    /\ fields[i].key = k
    /\ \A j \in DOMAIN fields : fields[j].key = k => j <= i

-----------------------------------------------------------------------------
(* What the loop of the builder writes. *)

LEMMA LastExists ==
    ASSUME NEW fields \in Seq(ContextFields), NEW k \in FieldKeys(fields)
    PROVE  \E i : IsLast(fields, k, i)
<1> DEFINE is == {i \in DOMAIN fields : fields[i].key = k}
<1>1. is \in SUBSET (1 .. Len(fields)) /\ is # {} /\ Len(fields) \in Nat
  BY DEF FieldKeys
<1>2. Max(is) \in is /\ \A j \in is : j <= Max(is)
  <2> HIDE DEF is
  <2> QED  BY <1>1, MaxIs
<1> QED  BY <1>2 DEF IsLast

LEMMA WrittenByLast ==
    ASSUME NEW fields \in Seq(ContextFields), NEW k \in ContextKeys, NEW i, IsLast(fields, k, i)
    PROVE  Written(fields)[k] = ValueOf[fields[i].type][fields[i].text]
<1> DEFINE is == {j \in DOMAIN fields : fields[j].key = k}
           m == Max(is)
<1>1. i \in is /\ \A j \in is : j <= i
  BY DEF IsLast
<1>2. m \in is /\ \A j \in is : j <= m
  <2>1. is \in SUBSET (1 .. Len(fields)) /\ Len(fields) \in Nat
    OBVIOUS
  <2> HIDE DEF is
  <2> QED  BY <1>1, <2>1, MaxIs
<1>3. is \subseteq Nat
  OBVIOUS
<1>4. m = i
  <2> HIDE DEF is, m
  <2>1. m <= i /\ i <= m /\ m \in Nat /\ i \in Nat
    BY <1>1, <1>2, <1>3
  <2> QED  BY <2>1
<1>5. Written(fields)[k] = ValueOf[fields[m].type][fields[m].text]
  BY <1>1 DEF Written
<1> QED  BY <1>4, <1>5

LEMMA NotWritten ==
    ASSUME NEW fields, NEW k \in ContextKeys, k \notin FieldKeys(fields)
    PROVE  Written(fields)[k] = NoValue
BY DEF Written, FieldKeys

LEMMA KeysAreContextKeys ==
    ASSUME NEW fields \in Seq(ContextFields)
    PROVE  FieldKeys(fields) \subseteq ContextKeys
<1>1. ASSUME NEW i \in DOMAIN fields  PROVE fields[i].key \in ContextKeys
  <2>1. fields[i] \in ContextFields
    OBVIOUS
  <2> QED  BY <2>1 DEF ContextFields
<1> QED  BY <1>1 DEF FieldKeys

LEMMA WrittenKeys ==
    ASSUME NEW fields \in Seq(ContextFields), Writable(fields)
    PROVE  KeysOf(Written(fields)) = FieldKeys(fields)
<1>1. FieldKeys(fields) \subseteq ContextKeys
  BY KeysAreContextKeys
<1>2. ASSUME NEW k \in FieldKeys(fields)  PROVE Written(fields)[k] # NoValue
  <2>1. PICK i : IsLast(fields, k, i)
    BY LastExists
  <2> QED  BY <1>1, <2>1, WrittenByLast DEF Writable, IsLast
<1> QED  BY <1>1, <1>2, NotWritten DEF KeysOf

LEMMA WrittenIsContext ==
    ASSUME NEW fields \in Seq(ContextFields)
    PROVE  Written(fields) \in Contexts
<1>1. ASSUME NEW k \in ContextKeys  PROVE Written(fields)[k] \in JsonValues \cup {NoValue}
  <2>1. CASE k \notin FieldKeys(fields)
    BY <2>1, NotWritten
  <2>2. CASE k \in FieldKeys(fields)
    <3>1. PICK i : IsLast(fields, k, i)
      BY <2>2, LastExists
    <3>2. fields[i] \in ContextFields
      BY <3>1 DEF IsLast
    <3> QED  BY <3>1, <3>2, WrittenByLast, ContextAssumption DEF ContextFields, ShownTexts
  <2> QED  BY <2>1, <2>2
<1>2. Written(fields) = [k \in ContextKeys |-> Written(fields)[k]]
  BY DEF Written
<1> QED  BY <1>1, <1>2 DEF Contexts

-----------------------------------------------------------------------------
(* A list that is read from a context has one field for each of its keys. *)

LEMMA FieldsOfContext ==
    ASSUME NEW c \in Contexts
    PROVE  /\ FieldsOf(c) \in Seq(ContextFields)
           /\ FieldKeys(FieldsOf(c)) = KeysOf(c)
           /\ \A k \in KeysOf(c) : \E i : /\ IsLast(FieldsOf(c), k, i)
                                          /\ FieldsOf(c)[i] = Display(k, c[k])
<1> DEFINE n == Cardinality(KeysOf(c))
           ks == CHOOSE f \in Bijection(1 .. n, KeysOf(c)) : TRUE
<1>1. n \in Nat /\ ks \in Bijection(1 .. n, KeysOf(c))
  <2>1. IsFiniteSet(KeysOf(c))
    BY FS_Subset, ContextAssumption DEF KeysOf
  <2> QED  BY <2>1, FS_CardinalityType DEF ExistsBijection
<1>2. /\ ks \in [1 .. n -> KeysOf(c)]
      /\ \A i, j \in 1 .. n : ks[i] = ks[j] => i = j
      /\ \A k \in KeysOf(c) : \E i \in 1 .. n : ks[i] = k
  <2> HIDE DEF ks
  <2> QED  BY <1>1 DEF Bijection, Injection, Surjection, IsInjective
<1>3. FieldsOf(c) = [i \in 1 .. n |-> Display(ks[i], c[ks[i]])]
  <2>1. FieldsOf(c) = [i \in DOMAIN ks |-> Display(ks[i], c[ks[i]])]
    BY DEF FieldsOf
  <2> QED  BY <2>1, <1>2
<1> HIDE DEF ks, n
<1>4. ASSUME NEW k \in KeysOf(c)
      PROVE  Display(k, c[k]) \in ContextFields /\ Display(k, c[k]).key = k
  <2>1. k \in ContextKeys /\ c[k] \in JsonValues
    BY DEF KeysOf, Contexts
  <2>2. JsonTextOf[c[k]] \in ShownTexts /\ JsonTypeOf[c[k]] \in FieldTypes
    BY <2>1, ContextAssumption DEF ShownTexts
  <2> QED  BY <2>1, <2>2 DEF Display, Field, ContextFields
<1>5. /\ DOMAIN FieldsOf(c) = 1 .. n
      /\ \A i \in 1 .. n : /\ ks[i] \in KeysOf(c)
                           /\ FieldsOf(c)[i] = Display(ks[i], c[ks[i]])
                           /\ FieldsOf(c)[i].key = ks[i]
  BY <1>2, <1>3, <1>4
<1>6. FieldsOf(c) \in Seq(ContextFields)
  BY <1>1, <1>2, <1>3, <1>4
<1>7. FieldKeys(FieldsOf(c)) = KeysOf(c)
  BY <1>2, <1>5 DEF FieldKeys
<1>8. ASSUME NEW k \in KeysOf(c)
      PROVE  \E i : IsLast(FieldsOf(c), k, i) /\ FieldsOf(c)[i] = Display(k, c[k])
  <2>1. PICK i \in 1 .. n : ks[i] = k
    BY <1>2
  <2>2. \A j \in 1 .. n : FieldsOf(c)[j].key = k => j = i
    BY <1>2, <1>5, <2>1
  <2>3. i \in Nat
    BY <1>1
  <2> QED  BY <1>5, <2>1, <2>2, <2>3 DEF IsLast
<1> QED  BY <1>6, <1>7, <1>8

LEMMA TypedSurvives ==
    ASSUME NEW c \in Contexts, NEW k \in ContextKeys, c[k] \in Typed
    PROVE  Written(FieldsOf(c))[k] = c[k]
<1>1. k \in KeysOf(c)
  BY ContextAssumption DEF KeysOf, Typed
<1>2. PICK i : IsLast(FieldsOf(c), k, i) /\ FieldsOf(c)[i] = Display(k, c[k])
  BY <1>1, FieldsOfContext
<1>3. Written(FieldsOf(c))[k] = ValueOf[FieldsOf(c)[i].type][FieldsOf(c)[i].text]
  BY <1>2, FieldsOfContext, WrittenByLast
<1> QED  BY <1>2, <1>3 DEF Display, Field, Typed

-----------------------------------------------------------------------------
(* A field that is added or removed leaves the last fields of the other keys. *)

LEMMA IndicesFinite ==
    ASSUME NEW fields \in Seq(ContextFields), NEW k
    PROVE  IsFiniteSet({i \in DOMAIN fields : fields[i].key = k})
<1>1. IsFiniteSet(1 .. Len(fields))
  BY FS_Interval
<1>2. {i \in DOMAIN fields : fields[i].key = k} \in SUBSET (1 .. Len(fields))
  OBVIOUS
<1> QED  BY <1>1, <1>2, FS_Subset

LEMMA AddLeavesRest ==
    ASSUME NEW fields \in Seq(ContextFields), NEW f \in ContextFields, NEW k \in ContextKeys,
           FieldCount(Append(fields, f), k) = FieldCount(fields, k)
    PROVE  Written(Append(fields, f))[k] = Written(fields)[k]
<1> DEFINE more == Append(fields, f)
           n == Len(fields)
           is == {i \in DOMAIN fields : fields[i].key = k}
           js == {i \in DOMAIN more : more[i].key = k}
<1>1. /\ more \in Seq(ContextFields) /\ n \in Nat
      /\ DOMAIN fields = 1 .. n /\ DOMAIN more = 1 .. n + 1
      /\ more[n + 1] = f
      /\ \A i \in 1 .. n : more[i] = fields[i]
  OBVIOUS
<1> HIDE DEF more, n
<1>2. f.key # k
  <2> SUFFICES ASSUME f.key = k  PROVE FALSE
    OBVIOUS
  <2>1. js = is \cup {n + 1} /\ n + 1 \notin is
    BY <1>1
  <2>2. IsFiniteSet(is)
    BY IndicesFinite
  <2>3. Cardinality(js) = Cardinality(is)
    BY DEF FieldCount, more
  <2> HIDE DEF is, js
  <2>4. Cardinality(is \cup {n + 1}) = Cardinality(is) + 1 /\ Cardinality(is) \in Nat
    BY <2>1, <2>2, FS_AddElement, FS_CardinalityType
  <2> QED  BY <2>1, <2>3, <2>4
<1>3. CASE k \in FieldKeys(fields)
  <2>1. PICK i : IsLast(fields, k, i)
    BY <1>3, LastExists
  <2>2. IsLast(more, k, i) /\ more[i] = fields[i]
    BY <1>1, <1>2, <2>1 DEF IsLast
  <2>3. Written(more)[k] = Written(fields)[k]
    BY <1>1, <2>1, <2>2, WrittenByLast
  <2> QED  BY <2>3 DEF more
<1>4. CASE k \notin FieldKeys(fields)
  <2>1. k \notin FieldKeys(more)
    BY <1>1, <1>2, <1>4 DEF FieldKeys
  <2>2. Written(more)[k] = Written(fields)[k]
    BY <1>4, <2>1, NotWritten
  <2> QED  BY <2>2 DEF more
<1> QED  BY <1>3, <1>4

LEMMA Concatenated ==
    ASSUME NEW S, NEW s \in Seq(S), NEW t \in Seq(S)
    PROVE  /\ s \o t \in Seq(S)
           /\ Len(s \o t) = Len(s) + Len(t)
           /\ \A i \in 1 .. Len(s) + Len(t) :
                 (s \o t)[i] = IF i <= Len(s) THEN s[i] ELSE t[i - Len(s)]
OBVIOUS

LEMMA RemoveShifts ==
    ASSUME NEW fields \in Seq(ContextFields), NEW r \in DOMAIN fields
    PROVE  LET less == SeqExt!RemoveAt(fields, r) IN
           /\ less \in Seq(ContextFields)
           /\ Len(less) = Len(fields) - 1
           /\ \A i \in 1 .. Len(less) :
                 less[i] = IF i < r THEN fields[i] ELSE fields[i + 1]
<1> DEFINE n == Len(fields)
           low == SubSeq(fields, 1, r - 1)
           high == SubSeq(fields, r + 1, n)
<1>1. n \in Nat /\ r \in 1 .. n
  OBVIOUS
<1>2. /\ low \in Seq(ContextFields) /\ Len(low) = r - 1
      /\ \A i \in 1 .. r - 1 : low[i] = fields[i]
  OBVIOUS
<1>3. /\ high \in Seq(ContextFields) /\ Len(high) = n - r
      /\ \A i \in 1 .. n - r : high[i] = fields[i + r]
  OBVIOUS
<1>4. SeqExt!RemoveAt(fields, r) = low \o high
  BY DEF SeqExt!RemoveAt
<1> HIDE DEF low, high, n
<1>5. /\ low \o high \in Seq(ContextFields)
      /\ Len(low \o high) = n - 1
      /\ \A i \in 1 .. n - 1 : (low \o high)[i] = IF i < r THEN low[i] ELSE high[i - (r - 1)]
  <2>1. /\ low \o high \in Seq(ContextFields)
        /\ Len(low \o high) = Len(low) + Len(high)
        /\ \A i \in 1 .. Len(low) + Len(high) :
              (low \o high)[i] = IF i <= Len(low) THEN low[i] ELSE high[i - Len(low)]
    BY <1>2, <1>3, Concatenated
  <2>2. Len(low) + Len(high) = n - 1
    BY <1>1, <1>2, <1>3
  <2>3. \A i \in 1 .. n - 1 : (i <= Len(low) <=> i < r) /\ Len(low) = r - 1
    BY <1>1, <1>2
  <2> QED  BY <2>1, <2>2, <2>3
<1>6. ASSUME NEW i \in 1 .. n - 1
      PROVE  (low \o high)[i] = IF i < r THEN fields[i] ELSE fields[i + 1]
  <2>1. CASE i < r
    BY <2>1, <1>1, <1>2, <1>5
  <2>2. CASE ~(i < r)
    <3>1. i - (r - 1) \in 1 .. n - r /\ (i - (r - 1)) + r = i + 1
      BY <2>2, <1>1
    <3> QED  BY <2>2, <3>1, <1>3, <1>5
  <2> QED  BY <2>1, <2>2
<1> QED  BY <1>4, <1>5, <1>6 DEF n

LEMMA RemoveLeavesRest ==
    ASSUME NEW fields \in Seq(ContextFields), NEW r \in DOMAIN fields, NEW k \in ContextKeys,
           FieldCount(SeqExt!RemoveAt(fields, r), k) = FieldCount(fields, k)
    PROVE  Written(SeqExt!RemoveAt(fields, r))[k] = Written(fields)[k]
<1> DEFINE less == SeqExt!RemoveAt(fields, r)
           n == Len(fields)
           up(i) == IF i < r THEN i ELSE i + 1
           down(i) == IF i < r THEN i ELSE i - 1
           is == {i \in DOMAIN fields : fields[i].key = k}
           js == {j \in DOMAIN less : less[j].key = k}
<1>1. /\ n \in Nat /\ DOMAIN fields = 1 .. n
      /\ less \in Seq(ContextFields) /\ DOMAIN less = 1 .. n - 1
      /\ \A i \in 1 .. n - 1 : less[i] = fields[up(i)]
  <2>1. n \in Nat /\ DOMAIN fields = 1 .. n
    OBVIOUS
  <2>2. /\ less \in Seq(ContextFields) /\ Len(less) = n - 1
        /\ \A i \in 1 .. Len(less) : less[i] = fields[up(i)]
    BY RemoveShifts
  <2> HIDE DEF less, n
  <2> QED  BY <2>1, <2>2
<1> HIDE DEF less, n
<1>2. \A i \in 1 .. n - 1 : up(i) \in (1 .. n) \ {r} /\ down(up(i)) = i
  BY <1>1
<1>3. \A i \in (1 .. n) \ {r} : down(i) \in 1 .. n - 1 /\ up(down(i)) = i
  BY <1>1
<1>4. fields[r].key # k
  <2> SUFFICES ASSUME fields[r].key = k  PROVE FALSE
    OBVIOUS
  <2> DEFINE f == [j \in js |-> up(j)]
  <2>1. f \in Bijection(js, is \ {r})
    <3>1. f \in [js -> is \ {r}]
      BY <1>1, <1>2
    <3>2. \A a, b \in js : f[a] = f[b] => a = b
      BY <1>1, <1>2
    <3>3. \A i \in is \ {r} : \E j \in js : f[j] = i
      <4> TAKE i \in is \ {r}
      <4>1. down(i) \in js /\ up(down(i)) = i
        BY <1>1, <1>3
      <4> QED  BY <4>1
    <3> QED  BY <3>1, <3>2, <3>3 DEF Bijection, Injection, Surjection, IsInjective
  <2>2. IsFiniteSet(is) /\ IsFiniteSet(js)
    BY <1>1, IndicesFinite
  <2>3. r \in is
    BY <1>1
  <2>4. Cardinality(js) = Cardinality(is)
    BY DEF FieldCount, less
  <2> HIDE DEF f, is, js
  <2>5. Cardinality(is \ {r}) = Cardinality(js)
    BY <2>1, <2>2, FS_Bijection DEF ExistsBijection
  <2>6. Cardinality(is \ {r}) = Cardinality(is) - 1 /\ Cardinality(is) \in Nat
    BY <2>2, <2>3, FS_RemoveElement, FS_CardinalityType
  <2> QED  BY <2>4, <2>5, <2>6
<1>5. CASE k \in FieldKeys(fields)
  <2>1. PICK i : IsLast(fields, k, i)
    BY <1>5, LastExists
  <2>2. i \in (1 .. n) \ {r} /\ down(i) \in 1 .. n - 1 /\ less[down(i)] = fields[i]
    BY <1>1, <1>3, <1>4, <2>1 DEF IsLast
  <2>3. ASSUME NEW j \in 1 .. n - 1, less[j].key = k  PROVE j <= down(i)
    <3>1. up(j) \in (1 .. n) /\ fields[up(j)].key = k
      BY <1>1, <1>2, <2>3
    <3>2. up(j) <= i
      BY <1>1, <2>1, <3>1 DEF IsLast
    <3> QED  BY <1>1, <2>2, <3>1, <3>2
  <2>4. IsLast(less, k, down(i))
    BY <1>1, <2>1, <2>2, <2>3 DEF IsLast
  <2>5. Written(less)[k] = ValueOf[less[down(i)].type][less[down(i)].text]
    BY <1>1, <2>4, WrittenByLast
  <2> QED  BY <2>1, <2>2, <2>5, WrittenByLast DEF less
<1>6. CASE k \notin FieldKeys(fields)
  <2>1. k \notin FieldKeys(less)
    BY <1>1, <1>2, <1>6 DEF FieldKeys
  <2> QED  BY <1>6, <2>1, NotWritten DEF less
<1> QED  BY <1>5, <1>6

-----------------------------------------------------------------------------
(* The builder and the text. *)

LEMMA EmptyIsContext == EmptyContext \in Contexts /\ EmptyContext # BadJson
BY ContextAssumption DEF EmptyContext, Contexts

LEMMA SetFieldsKeepsInv ==
    ASSUME ContextInv, builderMode = "builder", UNCHANGED builderMode,
           NEW fields \in Seq(ContextFields), SetFields(fields)
    PROVE  ContextInv'
<1>1. builderFields' = fields /\ context # BadJson
  BY DEF SetFields, ContextInv, KeysAgree
<1>2. CASE Writable(fields)
  <2>1. context' = Written(fields)
    BY <1>2 DEF SetFields
  <2>2. context' \in Contexts /\ context' # BadJson
    BY <2>1, WrittenIsContext, ContextAssumption
  <2>3. KeysOf(context') = FieldKeys(builderFields')
    BY <1>1, <1>2, <2>1, WrittenKeys
  <2>4. KeysAgree'
    BY <2>2, <2>3 DEF KeysAgree
  <2>5. ValuesAgree'
    BY <1>1, <2>1 DEF ValuesAgree
  <2> QED  BY <1>1, <2>2, <2>4, <2>5 DEF ContextInv
<1>3. CASE ~Writable(fields)
  <2>1. context' = context
    BY <1>3 DEF SetFields
  <2>2. KeysAgree' /\ ValuesAgree'
    BY <1>1, <1>3, <2>1 DEF KeysAgree, ValuesAgree
  <2> QED  BY <1>1, <2>1, <2>2 DEF ContextInv
<1> QED  BY <1>2, <1>3

LEMMA ContextStarts == ContextInit => ContextInv
<1> SUFFICES ASSUME ContextInit  PROVE ContextInv
  OBVIOUS
<1>1. context \in Contexts /\ context # BadJson /\ context = EmptyContext
  BY EmptyIsContext DEF ContextInit
<1>2. builderFields \in Seq(ContextFields)
  BY DEF ContextInit
<1>3. KeysAgree
  BY <1>1 DEF KeysAgree
<1>4. ValuesAgree
  BY <1>1, ContextAssumption DEF ValuesAgree, EmptyContext, Typed
<1> QED  BY <1>1, <1>2, <1>3, <1>4 DEF ContextInv

\* The list after a field was added, and after one was removed, is a list of fields.
LEMMA AddIsSet ==
    ASSUME ContextInv, AddField
    PROVE  /\ builderMode = "builder" /\ UNCHANGED builderMode
           /\ \E f \in ContextFields : SetFields(Append(builderFields, f))
<1>1. PICK k \in ContextKeys, text \in FieldTexts :
            SetFields(Append(builderFields, Field(k, text, SchemaType[k])))
  BY DEF AddField
<1>2. Field(k, text, SchemaType[k]) \in ContextFields
  BY ContextAssumption DEF Field, ContextFields, ShownTexts
<1> QED  BY <1>1, <1>2 DEF AddField

LEMMA ContextStep == ContextInv /\ [ContextNext]_contextVars => ContextInv'
<1> SUFFICES ASSUME ContextInv, [ContextNext]_contextVars  PROVE ContextInv'
  OBVIOUS
<1> USE DEF ContextInv
<1>1. CASE AddField
  <2>1. PICK f \in ContextFields : SetFields(Append(builderFields, f))
    BY <1>1, AddIsSet
  <2>2. Append(builderFields, f) \in Seq(ContextFields)
    OBVIOUS
  <2> QED  BY <1>1, <2>1, <2>2, AddIsSet, SetFieldsKeepsInv
<1>2. CASE RemoveField
  <2>1. PICK r \in DOMAIN builderFields : SetFields(SeqExt!RemoveAt(builderFields, r))
    BY <1>2 DEF RemoveField
  <2>2. SeqExt!RemoveAt(builderFields, r) \in Seq(ContextFields)
    BY RemoveShifts
  <2> QED  BY <1>2, <2>1, <2>2, SetFieldsKeepsInv DEF RemoveField
<1>3. CASE SwitchToJson
  BY <1>3 DEF SwitchToJson, KeysAgree, ValuesAgree
<1>4. CASE TypeContext
  BY <1>4 DEF TypeContext, KeysAgree, ValuesAgree
<1>5. CASE SwitchToBuilder
  <2>1. context \in Contexts /\ context' = context /\ context # BadJson
    BY <1>5 DEF SwitchToBuilder
  <2>2. CASE builderFields' = FieldsOf(context)
    <3>1. builderFields' \in Seq(ContextFields) /\ KeysOf(context) = FieldKeys(builderFields')
      BY <2>1, <2>2, FieldsOfContext
    <3>2. ValuesAgree'
      BY <2>1, <2>2, TypedSurvives DEF ValuesAgree
    <3> QED  BY <2>1, <3>1, <3>2 DEF KeysAgree
  <2>3. CASE context = EmptyContext /\ UNCHANGED builderFields
    <3>1. KeysAgree'
      BY <2>1, <2>3 DEF KeysAgree
    <3>2. ValuesAgree'
      BY <2>1, <2>3, ContextAssumption DEF ValuesAgree, EmptyContext, Typed
    <3> QED  BY <2>1, <2>3, <3>1, <3>2
  <2> QED  BY <1>5, <2>2, <2>3 DEF SwitchToBuilder
<1>6. CASE ClearContext
  <2>1. context' = EmptyContext /\ UNCHANGED <<builderMode, builderFields>>
    BY <1>6 DEF ClearContext
  <2>2. KeysAgree'
    BY <2>1, EmptyIsContext DEF KeysAgree
  <2>3. ValuesAgree'
    BY <2>1, ContextAssumption DEF ValuesAgree, EmptyContext, Typed
  <2> QED  BY <2>1, <2>2, <2>3, EmptyIsContext
<1>7. CASE UNCHANGED contextVars
  BY <1>7 DEF contextVars, KeysAgree, ValuesAgree
<1> QED  BY <1>1, <1>2, <1>3, <1>4, <1>5, <1>6, <1>7 DEF ContextNext, EditContext

LEMMA ContextInvariance == ContextSpec => []ContextInv
BY ContextStarts, ContextStep, PTL DEF ContextSpec

\* Unless the context is empty, or a field of the list cannot be written back, the
\* builder shows the keys that will be sent and no others.
THEOREM BuilderShowsContext == ContextSpec => []KeysAgree
<1>1. ContextInv => KeysAgree
  BY DEF ContextInv
<1> QED  BY <1>1, ContextInvariance, PTL

\* Adding or removing a field changes no value that the builder has a type for.
THEOREM OtherValuesSurvive == ContextSpec => EditsKeepTheRest
<1> DEFINE Keeps(k) ==
        /\ builderMode = "builder" /\ Writable(builderFields)
        /\ builderFields' # builderFields
        /\ FieldCount(builderFields', k) = FieldCount(builderFields, k)
        /\ context[k] \in Typed
        => context'[k] = context[k]
<1>1. ASSUME ContextInv, [ContextNext]_contextVars
      PROVE  [\A k \in ContextKeys : Keeps(k)]_contextVars
  <2> SUFFICES ASSUME ContextNext, NEW k \in ContextKeys,
                      builderMode = "builder", Writable(builderFields),
                      builderFields' # builderFields,
                      FieldCount(builderFields', k) = FieldCount(builderFields, k),
                      context[k] \in Typed
               PROVE  context'[k] = context[k]
    BY <1>1
  <2>1. context[k] = Written(builderFields)[k] /\ builderFields \in Seq(ContextFields)
    BY <1>1 DEF ContextInv, ValuesAgree
  <2>2. CASE AddField
    <3>1. PICK f \in ContextFields : SetFields(Append(builderFields, f))
      BY <1>1, <2>2, AddIsSet
    <3>2. FieldCount(Append(builderFields, f), k) = FieldCount(builderFields, k)
      BY <3>1 DEF SetFields
    <3>3. Written(Append(builderFields, f))[k] = Written(builderFields)[k]
      BY <2>1, <3>2, AddLeavesRest
    <3> QED  BY <2>1, <3>1, <3>3 DEF SetFields
  <2>3. CASE RemoveField
    <3>1. PICK r \in DOMAIN builderFields : SetFields(SeqExt!RemoveAt(builderFields, r))
      BY <2>3 DEF RemoveField
    <3>2. FieldCount(SeqExt!RemoveAt(builderFields, r), k) = FieldCount(builderFields, k)
      BY <3>1 DEF SetFields
    <3>3. Written(SeqExt!RemoveAt(builderFields, r))[k] = Written(builderFields)[k]
      BY <2>1, <3>2, RemoveLeavesRest
    <3> QED  BY <2>1, <3>1, <3>3 DEF SetFields
  <2>4. CASE SwitchToJson \/ TypeContext \/ ClearContext
    BY <2>4 DEF SwitchToJson, TypeContext, ClearContext
  <2>5. CASE SwitchToBuilder
    BY <2>5 DEF SwitchToBuilder
  <2> QED  BY <2>2, <2>3, <2>4, <2>5 DEF ContextNext, EditContext
<1> QED  BY <1>1, ContextInvariance, PTL DEF ContextSpec, EditsKeepTheRest
=============================================================================
