------------------------ MODULE RenderPipelineProofs ------------------------
(***************************************************************************)
(* Theorems about RenderPipeline, for any deployments, requests, number of *)
(* requests, size of a batch and size of a picture: all invariants that    *)
(* the module states.  The lemmas go from what the operators compute (the  *)
(* rows a render is handed, the boxes that can be cropped, the backend a   *)
(* stage is run on) to what one step does, and from there to the parts of  *)
(* the inductive invariant, one section for each.                          *)
(***************************************************************************)
EXTENDS RenderPipeline, BackendRegistryProofs, FiniteSetTheorems,
        WellFoundedInduction

-----------------------------------------------------------------------------
(* Sequences and small sets.                                               *)

\* Sequences, their joins and their parts, under names of their own that
\* the provers do not look into.
Words(T) == Seq(T)
Join(p, q) == p \o q
Part(s, b, n) == SubSeq(s, b + 1, b + n)

\* The concatenation of up to three sequences, which FlattenSeq folds.
LEMMA FlattenShort ==
    ASSUME NEW s, NEW n \in 1..3, Len(s) = n
    PROVE  FlattenSeq(s) = IF n = 1 THEN s[1]
                           ELSE IF n = 2 THEN Join(s[1], s[2])
                           ELSE Join(Join(s[1], s[2]), s[3])
<1> DEFINE Flat(f) == f = [i \in 1..n |-> IF i = 1 THEN s[i] ELSE Join(f[i - 1], s[i])]
           g == [i \in 1..n |-> IF i = 1 THEN s[1]
                                ELSE IF i = 2 THEN Join(s[1], s[2])
                                ELSE Join(Join(s[1], s[2]), s[3])]
<1>1. PICK f : f = (CHOOSE h : Flat(h))
  OBVIOUS
<1>2. FlattenSeq(s) = f[n]
  BY <1>1 DEF FlattenSeq, Join
<1>3. Flat(g)
  <2>1. ASSUME NEW i \in 1..n
        PROVE  g[i] = IF i = 1 THEN s[i] ELSE Join(g[i - 1], s[i])
    <3>1. CASE i = 1
      BY <3>1
    <3>2. CASE i = 2
      BY <3>2
    <3>3. CASE i = 3
      BY <3>3
    <3> QED  BY <3>1, <3>2, <3>3
  <2> QED  BY <2>1
<1> HIDE DEF Flat, g
<1>4. Flat(f)
  BY <1>1, <1>3
<1>5. \A i \in 1..n : f[i] = IF i = 1 THEN s[i] ELSE Join(f[i - 1], s[i])
  BY <1>4 DEF Flat
<1> QED
  BY <1>2, <1>5

\* A part of a sequence is known by its elements.
LEMMA PartIs ==
    ASSUME NEW T, NEW s \in Words(T), NEW b \in Nat, NEW t \in Words(T), b + Len(t) <= Len(s),
           \A i \in 1..Len(t) : s[b + i] = t[i]
    PROVE  Part(s, b, Len(t)) = t
<1>1. PICK part : part = SubSeq(s, b + 1, b + Len(t))
  OBVIOUS
<1>2. /\ part \in Seq(T)
      /\ Len(part) = Len(t)
      /\ \A i \in 1..Len(t) : part[i] = s[b + i]
  BY <1>1 DEF Words
<1>3. part = t
  BY <1>2, SameSequence DEF Words
<1> QED
  BY <1>1, <1>3 DEF Part

\* The parts of a join are what was joined: of two or three sequences, the
\* first and the second.
LEMMA PartOfJoin ==
    ASSUME NEW T, NEW p \in Words(T), NEW q \in Words(T), NEW r \in Words(T)
    PROVE  /\ Part(Join(p, q), Len(p), Len(q)) = q
           /\ Part(Join(Join(p, q), r), Len(p), Len(q)) = q
           /\ Part(Join(p, q), 0, Len(p)) = p
           /\ Part(Join(Join(p, q), r), 0, Len(p)) = p
<1>1. Join(p, q) \in Words(T) /\ Join(Join(p, q), r) \in Words(T)
  BY DEF Join, Words
<1>2. /\ Len(Join(p, q)) = Len(p) + Len(q)
      /\ Len(Join(Join(p, q), r)) = Len(p) + Len(q) + Len(r)
      /\ Len(p) \in Nat /\ Len(q) \in Nat /\ Len(r) \in Nat
  BY DEF Join, Words
<1>3. \A i \in 1..Len(q) :
          Join(p, q)[Len(p) + i] = q[i] /\ Join(Join(p, q), r)[Len(p) + i] = q[i]
  BY DEF Join, Words
<1>4. \A i \in 1..Len(p) : Join(p, q)[0 + i] = p[i] /\ Join(Join(p, q), r)[0 + i] = p[i]
  BY DEF Join, Words
<1>5. \A s \in {Join(p, q), Join(Join(p, q), r)} :
          /\ s \in Words(T)
          /\ Len(p) + Len(q) <= Len(s)
          /\ \A i \in 1..Len(q) : s[Len(p) + i] = q[i]
          /\ \A i \in 1..Len(p) : s[0 + i] = p[i]
  BY <1>1, <1>2, <1>3, <1>4
<1> HIDE DEF Join
<1>6. ASSUME NEW s \in {Join(p, q), Join(Join(p, q), r)}
      PROVE  Part(s, Len(p), Len(q)) = q /\ Part(s, 0, Len(p)) = p
  <2>1. Part(s, Len(p), Len(q)) = q
    BY <1>2, <1>5, PartIs
  <2>2. 0 \in Nat /\ 0 + Len(p) <= Len(s)
    BY <1>2, <1>5
  <2>3. Part(s, 0, Len(p)) = p
    BY <1>5, <2>2, PartIs
  <2> QED  BY <2>1, <2>3
<1> QED
  BY <1>6

\* FlattenShort by the length, for a sequence of which only that is known.
LEMMA FlattenCases ==
    ASSUME NEW s
    PROVE  /\ Len(s) = 1 => FlattenSeq(s) = s[1]
           /\ Len(s) = 2 => FlattenSeq(s) = Join(s[1], s[2])
           /\ Len(s) = 3 => FlattenSeq(s) = Join(Join(s[1], s[2]), s[3])
BY FlattenShort

\* A model that concatenates the calls it is given, runs the network on all
\* rows at once and splits the answer again gives each call its own rows.
LEMMA GroupsAreSplit ==
    ASSUME NEW T, NEW arrays \in Seq(Words(T)), NEW n \in 1..3, Len(arrays) = n,
           NEW k \in 1..n
    PROVE  InferGroup(arrays)[k] = arrays[k]
<1> DEFINE before(i) == Len(FlattenSeq(SubSeq(arrays, 1, i - 1)))
           merged == FlattenSeq(arrays)
<1>1. InferGroup(arrays)[k] = Part(merged, before(k), Len(arrays[k]))
  BY DEF InferGroup, Part
<1>2. \A i \in 1..n : arrays[i] \in Words(T)
  OBVIOUS
<1>3. /\ SubSeq(arrays, 1, 1 - 1) = <<>>
      /\ n >= 2 => LET s == SubSeq(arrays, 1, 2 - 1) IN Len(s) = 1 /\ s[1] = arrays[1]
      /\ n = 3 => LET s == SubSeq(arrays, 1, 3 - 1)
                  IN Len(s) = 2 /\ s[1] = arrays[1] /\ s[2] = arrays[2]
  OBVIOUS
<1>4. /\ before(1) = 0
      /\ n >= 2 => before(2) = Len(arrays[1])
      /\ n = 3 => before(3) = Len(Join(arrays[1], arrays[2]))
  <2>1. before(1) = 0
    BY <1>3 DEF FlattenSeq
  <2>2. ASSUME n >= 2 PROVE before(2) = Len(arrays[1])
    BY <1>3, <2>2, FlattenCases
  <2>3. ASSUME n = 3 PROVE before(3) = Len(Join(arrays[1], arrays[2]))
    BY <1>3, <2>3, FlattenCases
  <2> QED  BY <2>1, <2>2, <2>3
<1>5. /\ n = 1 => merged = arrays[1]
      /\ n = 2 => merged = Join(arrays[1], arrays[2])
      /\ n = 3 => merged = Join(Join(arrays[1], arrays[2]), arrays[3])
  BY FlattenCases
<1> HIDE DEF before, merged
<1>6. CASE n = 1
  <2>1. Len(arrays[1]) \in Nat /\ arrays[1] \in Words(T)
    BY <1>2, <1>6 DEF Words
  <2>2. Part(arrays[1], 0, Len(arrays[1])) = arrays[1]
    BY <2>1, PartIs
  <2> QED  BY <1>1, <1>4, <1>5, <1>6, <2>2
<1>7. CASE n = 2
  <2>1. /\ Part(Join(arrays[1], arrays[2]), 0, Len(arrays[1])) = arrays[1]
        /\ Part(Join(arrays[1], arrays[2]), Len(arrays[1]), Len(arrays[2])) = arrays[2]
    BY <1>2, <1>7, PartOfJoin
  <2> QED  BY <1>1, <1>4, <1>5, <1>7, <2>1
<1>8. CASE n = 3
  <2> DEFINE whole == Join(Join(arrays[1], arrays[2]), arrays[3])
  <2>1. Join(arrays[1], arrays[2]) \in Words(T)
    BY <1>2, <1>8 DEF Join, Words
  <2>2. /\ Part(whole, 0, Len(arrays[1])) = arrays[1]
        /\ Part(whole, Len(arrays[1]), Len(arrays[2])) = arrays[2]
    BY <1>2, <1>8, PartOfJoin
  <2>3. Part(whole, Len(Join(arrays[1], arrays[2])), Len(arrays[3])) = arrays[3]
    BY <1>2, <1>8, <2>1, PartOfJoin
  <2> QED  BY <1>1, <1>4, <1>5, <1>8, <2>2, <2>3
<1> QED
  BY <1>6, <1>7, <1>8

\* The sets that a group of up to three calls has for its indexes.
LEMMA SmallSets ==
    ASSUME NEW S \in SUBSET (1..3), S # {}
    PROVE  \/ \E a \in 1..3 : S = {a}
           \/ \E a, b \in 1..3 : a < b /\ S = {a, b}
           \/ S = {1, 2, 3}
<1>1. \A i \in S : i = 1 \/ i = 2 \/ i = 3
  OBVIOUS
<1>2. \/ S = {1} \/ S = {2} \/ S = {3}
      \/ S = {1, 2} \/ S = {1, 3} \/ S = {2, 3}
      \/ S = {1, 2, 3}
  BY <1>1, Zenon
<1>3. 1 < 2 /\ 1 < 3 /\ 2 < 3 /\ 1 \in 1..3 /\ 2 \in 1..3 /\ 3 \in 1..3
  OBVIOUS
<1> QED
  BY <1>2, <1>3, Zenon

\* A pair of two has two elements.
LEMMA SizeOfTwo ==
    ASSUME NEW a, NEW b, a # b
    PROVE  IsFiniteSet({a, b}) /\ Cardinality({a, b}) = 2
<1>1. IsFiniteSet({a}) /\ Cardinality({a}) = 1
  BY FS_Singleton
<1>2. {a, b} = {a} \cup {b} /\ b \notin {a}
  OBVIOUS
<1>3. IsFiniteSet({a} \cup {b}) /\ Cardinality({a} \cup {b}) = Cardinality({a}) + 1
  BY <1>1, <1>2, FS_AddElement, Zenon
<1> QED
  BY <1>1, <1>2, <1>3

\* The increasing enumeration of a set of numbers, as IndicesOf chooses it.
Enumeration(S) ==
    CHOOSE f \in [1..Cardinality(S) -> S] : \A j, k \in DOMAIN f : j < k => f[j] < f[k]

\* A set of up to three indexes has an increasing enumeration, and it leaves
\* no index out.
LEMMA Enumerated ==
    ASSUME NEW S \in SUBSET (1..3), S # {}
    PROVE  /\ Cardinality(S) \in 1..3
           /\ Enumeration(S) \in [1..Cardinality(S) -> S]
           /\ \A i \in S : \E j \in 1..Cardinality(S) : Enumeration(S)[j] = i
<1> DEFINE Ordered(g) == \A j, k \in DOMAIN g : j < k => g[j] < g[k]
<1>f. PICK f : f = Enumeration(S)
  OBVIOUS
<1>c. f = CHOOSE g \in [1..Cardinality(S) -> S] : Ordered(g)
  BY <1>f DEF Enumeration
<1>1. CASE \E a \in 1..3 : S = {a}
  <2>1. PICK a \in 1..3 : S = {a}
    BY <1>1
  <2>2. Cardinality(S) = 1
    BY <2>1, FS_Singleton
  <2>3. [i \in 1..1 |-> a] \in [1..1 -> S] /\ Ordered([i \in 1..1 |-> a])
    BY <2>1
  <2>4. f \in [1..1 -> S]
    BY <1>c, <2>2, <2>3
  <2>5. f[1] = a
    BY <2>1, <2>4
  <2>6. \A i \in S : \E j \in 1..1 : f[j] = i
    BY <2>1, <2>5
  <2> QED  BY <1>f, <2>2, <2>4, <2>6
<1>2. CASE \E a, b \in 1..3 : a < b /\ S = {a, b}
  <2>1. PICK a \in 1..3, b \in 1..3 : a < b /\ S = {a, b}
    BY <1>2
  <2>2. Cardinality(S) = 2
    <3>1. a # b
      BY <2>1
    <3>2. Cardinality({a, b}) = 2
      BY <3>1, SizeOfTwo
    <3> QED  BY <2>1, <3>2
  <2>3. [i \in 1..2 |-> IF i = 1 THEN a ELSE b] \in [1..2 -> S]
            /\ Ordered([i \in 1..2 |-> IF i = 1 THEN a ELSE b])
    BY <2>1
  <2>4. f \in [1..2 -> S] /\ Ordered(f)
    BY <1>c, <2>2, <2>3
  <2>5. f[1] \in {a, b} /\ f[2] \in {a, b}
    BY <2>1, <2>4
  <2>6. f[1] < f[2]
    BY <2>4
  <2>7. f[1] = a /\ f[2] = b
    BY <2>1, <2>5, <2>6
  <2>8. \A i \in S : \E j \in 1..2 : f[j] = i
    BY <2>1, <2>7
  <2> QED  BY <1>f, <2>2, <2>4, <2>8
<1>3. CASE S = {1, 2, 3}
  <2>1. S = 1..3
    BY <1>3
  <2>2. Cardinality(S) = 3
    <3>1. IsFiniteSet({1, 2}) /\ Cardinality({1, 2}) = 2
      BY SizeOfTwo
    <3>2. {1, 2, 3} = {1, 2} \cup {3} /\ 3 \notin {1, 2}
      OBVIOUS
    <3>3. Cardinality({1, 2} \cup {3}) = Cardinality({1, 2}) + 1
      BY <3>1, <3>2, FS_AddElement, Zenon
    <3> QED  BY <1>3, <3>1, <3>2, <3>3
  <2>3. [i \in 1..3 |-> i] \in [1..3 -> S] /\ Ordered([i \in 1..3 |-> i])
    BY <2>1
  <2>4. f \in [1..3 -> S] /\ Ordered(f)
    BY <1>c, <2>2, <2>3
  <2>5. f[1] < f[2] /\ f[2] < f[3] /\ f[1] \in 1..3 /\ f[2] \in 1..3 /\ f[3] \in 1..3
    BY <2>1, <2>4
  <2>6. f[1] = 1 /\ f[2] = 2 /\ f[3] = 3
    BY <2>5
  <2> QED  BY <1>f, <1>3, <2>2, <2>4, <2>6
<1> QED
  BY <1>1, <1>2, <1>3, SmallSets

-----------------------------------------------------------------------------
(* What a Triton call hands to this thread.                                *)

\* Up to three calls, each with a sequence of rows.
AreCalls(requests, n, T) ==
    /\ Len(requests) = n /\ DOMAIN requests = 1..n
    /\ \A i \in 1..n : requests[i].rows \in Words(T)

\* The segmenter groups the calls by the shape of their pictures and puts the
\* answers back in the order of the calls: each call has its own rows.
LEMMA SegmenterKeepsRows ==
    ASSUME NEW T, NEW n \in 1..3, NEW requests, AreCalls(requests, n, T), NEW k \in 1..n
    PROVE  SegmenterExecute(requests)[k] = requests[k].rows
<1> USE DEF AreCalls
<1> DEFINE S == {i \in 1..n : requests[i].shape = requests[k].shape}
           indices == IndicesOf(requests, requests[k].shape)
           arrays == [j \in DOMAIN indices |-> requests[indices[j]].rows]
           chosen == CHOOSE j \in DOMAIN indices : indices[j] = k
<1>1. SegmenterExecute(requests)[k] = InferGroup(arrays)[chosen]
  BY DEF SegmenterExecute
<1>2. S \in SUBSET (1..3) /\ k \in S /\ S \subseteq 1..n
  OBVIOUS
<1>3. indices = Enumeration(S)
  BY DEF IndicesOf, Enumeration
<1> HIDE DEF indices
<1> HIDE DEF S
<1>4. /\ Cardinality(S) \in 1..3
      /\ indices \in [1..Cardinality(S) -> S]
      /\ \A i \in S : \E j \in 1..Cardinality(S) : indices[j] = i
  <2>1. S # {}
    BY <1>2
  <2> QED  BY <1>2, <1>3, <2>1, Enumerated
<1>5. PICK c \in 1..3 : c = Cardinality(S)
  BY <1>4
<1>6. chosen \in 1..c /\ indices[chosen] = k
  BY <1>2, <1>4, <1>5
<1>7. arrays \in Seq(Words(T)) /\ Len(arrays) = c
  <2>1. arrays \in [1..c -> Words(T)]
    BY <1>2, <1>4, <1>5
  <2> QED  BY <2>1
<1>8. arrays[chosen] = requests[k].rows
  BY <1>4, <1>5, <1>6
<1> HIDE DEF arrays, chosen
<1> QED
  BY <1>1, <1>6, <1>7, <1>8, GroupsAreSplit

\* So a call is answered with the rows of its batch, whatever calls Triton
\* gives the model together with it.
LEMMA RowsAreTheBatch ==
    ASSUME NEW m, NEW n \in Nat \ {0}, NEW me \in 1..n, NEW rows \in Rows(m, Batch(n, me))
    PROVE  rows = Batch(n, me)
<1> DEFINE batch == Batch(n, me)
           mine == [rows |-> batch, shape |-> "same"]
<1>1. CASE m # <<"segmenter", "birefnet">>
  BY <1>1 DEF Rows
<1>2. CASE m = <<"segmenter", "birefnet">>
  <2>1. PICK before \in OtherCalls, after \in OtherCalls :
            rows = SegmenterExecute(before \o <<mine>> \o after)[Len(before) + 1]
    BY <1>2 DEF Rows
  <2>2. PICK T : T = {"mine", "other"}
    OBVIOUS
  <2>3. batch \in Words(T) /\ <<"other">> \in Words(T)
    BY <2>2 DEF Batch, Words
  <2>4. \A calls \in OtherCalls :
            calls = <<>> \/ \E other : calls = <<other>> /\ other.rows = <<"other">>
    BY DEF OtherCalls
  <2> DEFINE requests == before \o <<mine>> \o after
  <2> HIDE DEF batch
  <2>5. PICK len \in 1..3 : /\ Len(requests) = len /\ DOMAIN requests = 1..len
                            /\ Len(before) + 1 \in 1..len
                            /\ requests[Len(before) + 1] = mine
                            /\ \A i \in 1..len : requests[i].rows \in {batch, <<"other">>}
    <3>1. CASE before = <<>> /\ after = <<>>
      <4>1. Len(requests) = 1 /\ DOMAIN requests = 1..1 /\ requests[1] = mine
        BY <3>1
      <4> QED  BY <3>1, <4>1
    <3>2. CASE \E other : before = <<>> /\ after = <<other>> /\ other.rows = <<"other">>
      <4>1. PICK other : before = <<>> /\ after = <<other>> /\ other.rows = <<"other">>
        BY <3>2
      <4>2. requests = <<mine, other>>
        BY <4>1, OneAndOne
      <4> QED  BY <4>1, <4>2
    <3>3. CASE \E other : before = <<other>> /\ after = <<>> /\ other.rows = <<"other">>
      <4>1. PICK other : before = <<other>> /\ after = <<>> /\ other.rows = <<"other">>
        BY <3>3
      <4>2. requests = <<other, mine>>
        BY <4>1, OneAndOne
      <4> QED  BY <4>1, <4>2
    <3>4. CASE \E o1, o2 : /\ before = <<o1>> /\ o1.rows = <<"other">>
                          /\ after = <<o2>> /\ o2.rows = <<"other">>
      <4>1. PICK o1, o2 : /\ before = <<o1>> /\ o1.rows = <<"other">>
                          /\ after = <<o2>> /\ o2.rows = <<"other">>
        BY <3>4
      <4>2. requests = <<o1, mine, o2>>
        BY <4>1, OneAndOne, TwoAndOne
      <4> QED  BY <4>1, <4>2
    <3> QED  BY <2>4, <3>1, <3>2, <3>3, <3>4
  <2> HIDE DEF requests
  <2>6. \A i \in 1..len : requests[i].rows \in Words(T)
    BY <2>3, <2>5
  <2>7. AreCalls(requests, len, T)
    BY <2>5, <2>6 DEF AreCalls
  <2>8. \A k \in 1..len : SegmenterExecute(requests)[k] = requests[k].rows
    BY <2>7, SegmenterKeepsRows
  <2> QED
    BY <2>1, <2>5, <2>8 DEF requests, batch
<1> QED
  BY <1>1, <1>2

\* A render is handed its own part of the split tensor, or an exception.
LEMMA HandOutCases ==
    ASSUME NEW tensor, NEW t, NEW renders, Len(renders) \in Nat \ {0}, NEW me \in 1..Len(renders)
    PROVE  LET item == SplitOutputTensor(tensor, Len(renders))[me]
           IN \/ HandOut("response", tensor, t, renders)[me] \in {"TritonSchemaMismatch", "ValueError"}
              \/ /\ TensorMatches(tensor, t) /\ Splittable(tensor, Len(renders))
                 /\ ConvertsTo(item, t.channels)
                 /\ HandOut("response", tensor, t, renders)[me] = item.rows[1]
<1>n. PICK n \in Nat \ {0} : n = Len(renders)
  OBVIOUS
<1> DEFINE bad == tensor.type = "missing" \/ ~TensorMatches(tensor, t) \/ ~Splittable(tensor, n)
           items == SplitOutputTensor(tensor, n)
           raises == \E i \in 1..n : ~ConvertsTo(items[i], t.channels)
<1>1. HandOut("response", tensor, t, renders)
          = IF bad THEN [i \in 1..n |-> "TritonSchemaMismatch"]
            ELSE IF raises THEN [i \in 1..n |-> "ValueError"]
            ELSE [i \in 1..n |-> items[i].rows[1]]
  BY <1>n DEF HandOut
<1>2. ~bad => TensorMatches(tensor, t) /\ Splittable(tensor, n)
  OBVIOUS
<1>3. ~raises => ConvertsTo(items[me], t.channels)
  BY <1>n
<1> HIDE DEF bad, raises, items
<1>4. \/ HandOut("response", tensor, t, renders)[me] \in {"TritonSchemaMismatch", "ValueError"}
      \/ ~bad /\ ~raises /\ HandOut("response", tensor, t, renders)[me] = items[me].rows[1]
  BY <1>1, <1>n
<1> QED
  BY <1>n, <1>2, <1>3, <1>4 DEF items

\* What may be handed out: the render's own value, or an exception.
Owned == {"mine", "TritonSchemaMismatch", "ValueError"}

\* The place of this thread's render in its batch, which may be the only one.
LEMMA BatchIs ==
    ASSUME NEW n \in Nat \ {0}, NEW me \in 1..n
    PROVE  /\ Len(Batch(n, me)) = n
           /\ Batch(n, me)[me] = "mine"
           /\ n = 1 => Batch(n, me)[1] = "mine"
BY DEF Batch

\* A detector, whose call is never shared, hands out its own answer in every
\* layout that Triton may give it.
LEMMA AloneIsOwn ==
    ASSUME NEW t, t.type = "FP32", NEW layout \in {"batched", "wrong_type", "missing"}
    PROVE  HandOut("response", Answered(layout, t, Batch(1, 1)), t, Batch(1, 1))[1] \in Owned
<1> DEFINE tensor == Answered(layout, t, Batch(1, 1))
<1>1. /\ HandOut("response", tensor, t, Batch(1, 1))[1] \in {"TritonSchemaMismatch", "ValueError"}
      \/ HandOut("response", tensor, t, Batch(1, 1))[1] = SplitOutputTensor(tensor, 1)[1].rows[1]
  <2>1. 1 \in Nat \ {0} /\ 1 \in 1..1 /\ Len(Batch(1, 1)) = 1
    BY DEF Batch
  <2>2. PICK batch : batch = Batch(1, 1)
    OBVIOUS
  <2> HIDE DEF tensor
  <2>3. ASSUME NEW me \in 1..Len(batch)
        PROVE  \/ HandOut("response", tensor, t, batch)[me] \in {"TritonSchemaMismatch", "ValueError"}
               \/ HandOut("response", tensor, t, batch)[me]
                      = SplitOutputTensor(tensor, Len(batch))[me].rows[1]
    BY <2>1, <2>2, HandOutCases
  <2> QED  BY <2>1, <2>2, <2>3
<1>2. SplitOutputTensor(tensor, 1)[1] = tensor
  BY DEF SplitOutputTensor
<1>3. tensor.rows = Batch(1, 1)
  BY DEF Answered
<1>4. Batch(1, 1)[1] = "mine"
  BY BatchIs
<1> QED
  BY <1>1, <1>2, <1>3, <1>4 DEF Owned

\* The models that share calls hand each render its own item in every layout:
\* a layout that cannot be split by items raises instead.
LEMMA ImageIsOwn ==
    ASSUME NEW t, t.type = "FP32", t.ranks = {3, 4}, t.policy = "channel-first",
           NEW c \in {1, 3, 4}, t.channels = c,
           NEW layout \in Layouts, NEW n \in Nat \ {0}, NEW me \in 1..n
    PROVE  HandOut("response", Answered(layout, t, Batch(n, me)), t, Batch(n, me))[me] \in Owned
<1> DEFINE batch == Batch(n, me)
           tensor == Answered(layout, t, batch)
           item == SplitOutputTensor(tensor, n)[me]
<1>1. /\ Len(batch) = n /\ batch[me] = "mine"
  BY BatchIs
<1>2. /\ n = 1 => item = tensor
      /\ n # 1 => item = [tensor EXCEPT !.shape[1] = 1, !.rows = <<tensor.rows[me]>>]
  BY DEF SplitOutputTensor
<1> DEFINE whole == [type |-> "FP32", rows |-> batch, shape |-> <<n, c, 8, 8>>]
<1>w. tensor = CASE layout = "batched" -> whole
                 [] layout = "no_channel" -> [whole EXCEPT !.shape = <<n, 8, 8>>]
                 [] layout = "first_batched" ->
                      [whole EXCEPT !.shape[1] = 1, !.rows = <<batch[1]>>]
                 [] layout = "first_only" ->
                      [whole EXCEPT !.shape = Tail(@), !.rows = [i \in 1..whole.shape[2] |-> batch[1]]]
                 [] layout = "wrong_type" -> [whole EXCEPT !.type = "FP64"]
                 [] layout = "missing" -> [whole EXCEPT !.type = "missing"]
  BY <1>1 DEF Answered
<1>d. DOMAIN tensor = {"type", "rows", "shape"}
  <2>1. DOMAIN whole = {"type", "rows", "shape"}
    OBVIOUS
  <2> HIDE DEF whole, batch
  <2> QED  BY <2>1, <1>w DEF Layouts
<1>e. n # 1 => /\ item.rows = <<tensor.rows[me]>>
               /\ item.shape = [tensor.shape EXCEPT ![1] = 1]
  <2> HIDE DEF tensor, item
  <2> QED  BY <1>2, <1>d
<1>c. \/ HandOut("response", tensor, t, batch)[me] \in {"TritonSchemaMismatch", "ValueError"}
      \/ /\ Splittable(tensor, n) /\ ConvertsTo(item, c)
         /\ HandOut("response", tensor, t, batch)[me] = item.rows[1]
  BY <1>1, HandOutCases
<1> HIDE DEF batch, tensor
<1>3. CASE layout \in {"batched", "no_channel", "wrong_type", "missing"}
  <2>1. tensor.rows = batch
    BY <1>3, <1>w
  <2>2. item.rows[1] = "mine"
    <3>1. CASE n = 1
      BY <1>1, <1>2, <2>1, <3>1
    <3>2. CASE n # 1
      BY <1>1, <1>e, <2>1, <3>2
    <3> QED  BY <3>1, <3>2
  <2> QED  BY <1>1, <2>2, <1>c DEF Owned, batch, tensor
<1>4. CASE layout = "first_batched"
  <2>1. tensor.shape = <<1, c, 8, 8>> /\ tensor.rows = <<batch[1]>>
    <3>1. tensor = [whole EXCEPT !.shape[1] = 1, !.rows = <<batch[1]>>]
      BY <1>4, <1>w
    <3>2. [<<n, c, 8, 8>> EXCEPT ![1] = 1] = <<1, c, 8, 8>>
      OBVIOUS
    <3> QED  BY <3>1, <3>2
  <2>2. n # 1 => ~Splittable(tensor, n)
    BY <2>1 DEF Splittable
  <2>3. n = 1 => item.rows[1] = "mine"
    BY <1>1, <1>2, <2>1
  <2> QED  BY <1>1, <2>2, <2>3, <1>c DEF Owned, batch, tensor
<1>5. CASE layout = "first_only"
  <2>1. tensor.shape = <<c, 8, 8>> /\ tensor.rows = [i \in 1..c |-> batch[1]]
    <3>1. tensor = [whole EXCEPT !.shape = Tail(@), !.rows = [i \in 1..whole.shape[2] |-> batch[1]]]
      BY <1>5, <1>w
    <3>2. Tail(<<n, c, 8, 8>>) = <<c, 8, 8>>
      OBVIOUS
    <3> QED  BY <3>1, <3>2
  <2>2. n = 1 => item.rows[1] = "mine"
    BY <1>1, <1>2, <2>1
  <2>3. ASSUME n # 1, Splittable(tensor, n) PROVE ~ConvertsTo(item, c)
    <3>1. n = c
      BY <2>1, <2>3 DEF Splittable
    <3>2. item.shape = <<1, 8, 8>>
      <4>1. [<<c, 8, 8>> EXCEPT ![1] = 1] = <<1, 8, 8>>
        OBVIOUS
      <4> QED  BY <1>e, <2>1, <2>3, <4>1
    <3>3. ImageChannels(item) = 1
      BY <3>2 DEF ImageChannels
    <3> QED  BY <2>3, <3>1, <3>3 DEF ConvertsTo
  <2> QED  BY <1>1, <2>2, <2>3, <1>c DEF Owned, batch, tensor
<1> QED
  BY <1>3, <1>4, <1>5 DEF Layouts

\* The output tensors that the code binds: the shared models have pictures of
\* at most four channels.
LEMMA TensorsOfModels ==
    ASSUME NEW m \in TritonModels
    PROVE  LET t == CHOOSE t \in Binding[m].outputs : TRUE
           IN /\ t.type = "FP32"
              /\ m[1] # "detector" =>
                    /\ t.ranks = {3, 4} /\ t.policy = "channel-first"
                    /\ t.channels \in {1, 3, 4}
<1> DEFINE outputs == Binding[m].outputs
<1>1. /\ outputs # {}
      /\ \A t \in outputs : t.type = "FP32"
      /\ m[1] # "detector" =>
            \A t \in outputs : /\ t.ranks = {3, 4} /\ t.policy = "channel-first"
                               /\ t.channels \in {1, 3, 4}
  <2>1. CASE m = <<"detector", "grounding-dino">>
    <3>1. outputs = {Tensor("bbox", "FP32", {1, 2}, "bbox4", 0),
                     Tensor("confidence", "FP32", {1, 2}, "scalar", 0)}
      BY <2>1 DEF Binding
    <3> HIDE DEF outputs
    <3> QED  BY <2>1, <3>1 DEF Tensor
  <2>2. CASE m = <<"detector", "grounding-dino-onnx">>
    <3>1. outputs = {Plain("logits", "FP32", 3), Plain("pred_boxes", "FP32", 3)}
      BY <2>2 DEF Binding
    <3> HIDE DEF outputs
    <3> QED  BY <2>2, <3>1 DEF Plain, Tensor
  <2>3. ASSUME m \in {<<"segmenter", "birefnet">>, <<"segmenter", "rmbg-2.0">>,
                     <<"depth_estimator", "depth-anything-v2-small">>,
                     <<"normal_estimator", "stable-normal">>,
                     <<"shadow_generator", "v2-diff">>}
        PROVE  \E name : \E c \in {1, 3, 4} : outputs = {ImageOut(name, c)}
    BY <2>3 DEF Binding
  <2>4. ASSUME NEW name, NEW c \in {1, 3, 4}, outputs = {ImageOut(name, c)}
        PROVE  /\ outputs # {}
               /\ \A t \in outputs : /\ t.type = "FP32" /\ t.ranks = {3, 4}
                                     /\ t.policy = "channel-first" /\ t.channels \in {1, 3, 4}
    <3> HIDE DEF outputs
    <3> QED  BY <2>4 DEF ImageOut, Tensor
  <2> HIDE DEF outputs
  <2> QED
    BY <2>1, <2>2, <2>3, <2>4 DEF TritonModels, Binding
<1>2. (CHOOSE t \in outputs : TRUE) \in outputs
  BY <1>1
<1> HIDE DEF outputs
<1> QED
  BY <1>1, <1>2 DEF outputs

\* No answer of Triton's hands this thread another render's value.
LEMMA HandedIsOwn ==
    ASSUME NEW m \in TritonModels
    PROVE  Handed[m] \subseteq Owned
<1> SUFFICES ASSUME NEW name \in Handed[m] PROVE name \in Owned
  OBVIOUS
<1> DEFINE t == CHOOSE t \in Binding[m].outputs : TRUE
           batch(b) == Batch(b[1], b[2])
           alone == m[1] = "detector"
           layouts == IF alone THEN {"batched", "wrong_type", "missing"} ELSE Layouts
<1>0. PICK b \in (1..MaxBatch) \X (1..MaxBatch) :
          /\ b[2] <= b[1] /\ (alone => b[1] = 1)
          /\ \E layout \in layouts, rows \in Rows(m, batch(b)) :
                name = HandOut("response", Answered(layout, t, rows), t, batch(b))[b[2]]
  BY DEF Handed
<1>1. PICK layout \in layouts, rows \in Rows(m, batch(b)) :
          name = HandOut("response", Answered(layout, t, rows), t, batch(b))[b[2]]
  BY <1>0
<1>2. b[1] \in Nat \ {0} /\ b[2] \in 1..b[1] /\ (alone => b[1] = 1 /\ b[2] = 1)
  BY <1>0, BoundsAssumption
<1>3. rows = batch(b)
  BY <1>1, <1>2, RowsAreTheBatch
<1>4. name = HandOut("response", Answered(layout, t, batch(b)), t, batch(b))[b[2]]
  BY <1>1, <1>3
<1>5. /\ t.type = "FP32"
      /\ ~alone => t.ranks = {3, 4} /\ t.policy = "channel-first" /\ t.channels \in {1, 3, 4}
  BY TensorsOfModels
<1> HIDE DEF t
<1>6. CASE alone
  <2>1. name = HandOut("response", Answered(layout, t, Batch(1, 1)), t, Batch(1, 1))[1]
    BY <1>2, <1>4, <1>6
  <2>2. layout \in {"batched", "wrong_type", "missing"}
    BY <1>1, <1>6
  <2> QED  BY <1>5, <2>1, <2>2, AloneIsOwn
<1>7. CASE ~alone
  <2>1. layout \in Layouts
    BY <1>1, <1>7
  <2> QED  BY <1>2, <1>4, <1>5, <1>7, <2>1, ImageIsOwn
<1> QED
  BY <1>6, <1>7

-----------------------------------------------------------------------------
(* Which backends a pipeline may call.                                     *)

\* The stages that a pipeline runs by a backend.
RunStages == Stages \ {"artifact_encoder"}

\* A backend that can be called is a mock, a local model or one of Triton's
\* models, and never the placeholder for none.
LEMMA CallableBackends ==
    ASSUME NEW s, NEW env, NEW stage \in Stages, NEW id, Executable(Registry(s, env), stage, id)
    PROVE  /\ id.kind \in {"mock", "local", "triton"}
           /\ id = Id(id.kind, id.variant)
           /\ id.kind = "triton" => <<stage, id.variant>> \in TritonModels
           /\ id # NoBackend
<1>1. PICK e \in ToSet(Registry(s, env)[stage]) :
          Id(e.kind, e.variant) = id /\ e.available /\ e.handler # "none"
  BY DEF Executable
<1>2. id.kind = e.kind /\ id.variant = e.variant
  BY <1>1 DEF Id
<1> QED
  BY <1>1, <1>2, RegisteredEntries DEF NoBackend, Id

\* Every stage of the public pipeline has a backend that can be called.
LEMMA PublicBackend ==
    ASSUME NEW s \in ValidSettings, NEW env, NEW stage \in RunStages,
           stage = "geometry_estimator" => s.geometry_enabled
    PROVE  Executable(Registry(s, env), stage, Component(s, Registry(s, env), stage).id)
<1>0. stage \in Stages /\ stage # "artifact_encoder"
  BY DEF RunStages
<1>1. PICK n \in 1..4 :
          /\ n <= Len(Order(s, stage))
          /\ UsableId(Registry(s, env), stage, Order(s, stage)[n])
          /\ Component(s, Registry(s, env), stage).id = Order(s, stage)[n]
  BY <1>0, ChosenDefault
<1>2. DefaultStageBackend(s, stage) # "internal"
  BY <1>0, PreferredKinds, StagesAre DEF HeavyStages
<1>3. PICK kind, variant : Order(s, stage)[n] = Id(kind, variant) /\ kind # "internal"
  BY <1>0, <1>1, <1>2, CandidatesNotInternal
<1> QED
  BY <1>1, <1>3, ExecutableIfNotInternal

\* The kinds of backend that a debug request may ask a stage for.
Asked(stage) == {"mock", "local"} \cup (IF stage \in HeavyStages THEN {"triton"} ELSE {})

\* The candidates of a debug request: at most four, the mock of the stage last
\* where there is one.
LEMMA DebugCandidates ==
    ASSUME NEW stage \in RunStages, NEW kind \in Asked(stage), NEW variant
    PROVE  /\ \E S : FallbackCandidateIds(stage, kind, variant) \in Seq(S)
           /\ Len(FallbackCandidateIds(stage, kind, variant)) \in 1..4
           /\ stage # "composer" =>
                 FallbackCandidateIds(stage, kind, variant)
                     [Len(FallbackCandidateIds(stage, kind, variant))] = MockId(stage)
<1> DEFINE order == FallbackCandidateIds(stage, kind, variant)
           fine(q) == /\ \E S : q \in Seq(S)
                      /\ Len(q) \in 1..4
                      /\ stage # "composer" => q[Len(q)] = MockId(stage)
<1>0. stage \in Stages /\ stage # "artifact_encoder" /\ kind \in {"mock", "local", "triton"}
  BY DEF RunStages, Asked
<1>1. /\ fine(<<MockId(stage)>>)
      /\ \A a : fine(<<a, MockId(stage)>>)
      /\ \A a, b : fine(<<a, b, MockId(stage)>>)
      /\ \A a, b, c : fine(<<a, b, c, MockId(stage)>>)
  <2>1. PICK mock : mock = MockId(stage)
    OBVIOUS
  <2>2. /\ \E S : <<mock>> \in Seq(S)
        /\ \A a : \E S : <<a, mock>> \in Seq(S)
        /\ \A a, b : \E S : <<a, b, mock>> \in Seq(S)
        /\ \A a, b, c : \E S : <<a, b, c, mock>> \in Seq(S)
    BY TupleSequences, Zenon
  <2>3. /\ Len(<<mock>>) \in 1..4 /\ <<mock>>[Len(<<mock>>)] = mock
        /\ \A a : Len(<<a, mock>>) \in 1..4 /\ <<a, mock>>[Len(<<a, mock>>)] = mock
        /\ \A a, b : Len(<<a, b, mock>>) \in 1..4 /\ <<a, b, mock>>[Len(<<a, b, mock>>)] = mock
        /\ \A a, b, c : /\ Len(<<a, b, c, mock>>) \in 1..4
                        /\ <<a, b, c, mock>>[Len(<<a, b, c, mock>>)] = mock
    OBVIOUS
  <2> QED  BY <2>1, <2>2, <2>3, Zenon
<1> HIDE DEF fine
<1>2. CASE kind = "mock"
  <2>1. order = <<MockId(stage)>>
    BY <1>0, <1>2, CandidatesOfMock
  <2> HIDE DEF order
  <2>2. fine(order)
    BY <1>1, <2>1
  <2> QED  BY <2>2 DEF order, fine
<1>3. CASE kind # "mock" /\ stage \in {"segmenter", "detector"}
  <2>1. MockId(stage) = Id("mock", "mock-v1")
    BY <1>3 DEF MockId, MockVariant
  <2>2. \/ order = <<Id("triton", variant), Id("triton", DefaultVariant[stage]),
                     Id("local", DefaultVariant[stage]), MockId(stage)>>
        \/ order = <<Id("local", variant), Id("local", DefaultVariant[stage]), MockId(stage)>>
    BY <1>0, <1>3, <2>1, CandidatesOfVariantStages
  <2> HIDE DEF order
  <2>3. fine(order)
    BY <1>1, <2>2
  <2> QED  BY <2>3 DEF order, fine
<1>4. CASE kind # "mock" /\ stage = "shadow_generator"
  <2>1. MockId(stage) = Id("mock", "mock")
    BY <1>4 DEF MockId, MockVariant
  <2>2. \/ order = <<Id("triton", variant), Id("local", variant), Id("local", "v1-gan"), MockId(stage)>>
        \/ order = <<Id("local", variant), Id("local", "v1-gan"), MockId(stage)>>
        \/ order = <<Id("local", variant), MockId(stage)>>
    BY <1>0, <1>4, <2>1, CandidatesOfShadow
  <2> HIDE DEF order
  <2>3. fine(order)
    BY <1>1, <2>2
  <2> QED  BY <2>3 DEF order, fine
<1>5. CASE kind # "mock" /\ stage = "normal_estimator"
  <2>1. MockId(stage) = Id("mock", "mock-v1")
    BY <1>5 DEF MockId, MockVariant
  <2>2. \/ order = <<Id("local", "from-depth-v2"), MockId(stage)>>
        \/ order = <<Id(kind, "stable-normal"), Id("local", "stable-normal"),
                     Id("local", "from-depth-v2"), MockId(stage)>>
    BY <1>0, <1>5, <2>1, CandidatesOfNormals
  <2> HIDE DEF order
  <2>3. fine(order)
    BY <1>1, <2>2
  <2> QED  BY <2>3 DEF order, fine
<1>6. CASE kind # "mock" /\ stage = "depth_estimator"
  <2>1. MockId(stage) = Id("mock", "mock-v1")
    BY <1>6 DEF MockId, MockVariant
  <2>2. \/ order = <<Id("triton", "depth-anything-v2-small"), Id("local", "depth-anything-v2-small"),
                     MockId(stage)>>
        \/ order = <<Id("local", "depth-anything-v2-small"), MockId(stage)>>
    BY <1>0, <1>6, <2>1, CandidatesOfOthers
  <2> HIDE DEF order
  <2>3. fine(order)
    BY <1>1, <2>2
  <2> QED  BY <2>3 DEF order, fine
<1>7. CASE kind # "mock" /\ stage \in {"geometry_estimator", "foreground_refiner", "composer"}
  <2>1. kind = "local"
    BY <1>7 DEF Asked, HeavyStages
  <2>2. order = <<Id("local", DefaultVariant[stage]), Id("local", DefaultVariant[stage]), MockId(stage)>>
    BY <1>7, <2>1, CandidatesOfOthers
  <2> HIDE DEF order
  <2>3. fine(order)
    BY <1>1, <2>2
  <2> QED  BY <2>3 DEF order, fine
<1> QED
  BY <1>0, <1>2, <1>3, <1>4, <1>5, <1>6, <1>7, StagesAre DEF fine

\* What a debug request selects can be called; only the composer, which has no
\* mock, may be left without a backend.
LEMMA DebugBackend ==
    ASSUME NEW s, NEW env, NEW stage \in RunStages, NEW kind \in Asked(stage), NEW variant
    PROVE  LET actual == SelectForDebug(Registry(s, env), stage, kind, variant).actual
           IN /\ actual = NoBackend \/ Executable(Registry(s, env), stage, actual)
              /\ stage # "composer" => actual # NoBackend
<1> DEFINE registry == Registry(s, env)
           order == FallbackCandidateIds(stage, kind, variant)
           I == {i \in 1..Len(order) : Executable(registry, stage, order[i])}
           actual == SelectForDebug(registry, stage, kind, variant).actual
<1>1. /\ \E S : order \in Seq(S)
      /\ Len(order) \in 1..4
      /\ stage # "composer" => order[Len(order)] = MockId(stage)
  BY DebugCandidates
<1>2. CASE I = {}
  <2>1. SelectInSeq(order, LAMBDA id : Executable(registry, stage, id)) = 0
    BY <1>2 DEF SelectInSeq
  <2>2. actual = NoBackend
    BY <2>1 DEF SelectForDebug
  <2>3. stage = "composer"
    <3>1. SUFFICES ASSUME stage # "composer" PROVE FALSE
      OBVIOUS
    <3>2. Executable(registry, stage, MockId(stage))
      BY <3>1, AlwaysThere DEF RunStages
    <3> HIDE DEF order
    <3>3. Len(order) \in I
      BY <1>1, <3>1, <3>2
    <3> QED  BY <1>2, <3>3
  <2> QED  BY <2>2, <2>3
<1>3. CASE I # {}
  <2>1. I \in SUBSET (1..4)
    <3> HIDE DEF order
    <3> QED  BY <1>1
  <2>2. PICK n \in I : \A m \in I : n <= m
    <3> HIDE DEF I
    <3> QED  BY <1>3, <2>1, LeastIndex
  <2>3. /\ n \in 1..4 /\ n <= Len(order) /\ Executable(registry, stage, order[n])
        /\ \A m \in 1..(n - 1) : ~Executable(registry, stage, order[m])
    <3> HIDE DEF order
    <3> QED  BY <1>1, <2>1, <2>2
  <2>4. actual = order[n]
    BY <1>1, <2>3, DebugTakesTheFirst
  <2>5. Executable(registry, stage, actual)
    BY <2>3, <2>4
  <2>6. actual # NoBackend
    BY <2>5, CallableBackends DEF RunStages
  <2> QED  BY <2>5, <2>6
<1> QED
  BY <1>2, <1>3

\* A debug request asks for a kind of backend that the schema lets through.
LEMMA AskedKinds ==
    ASSUME NEW stage \in RunStages, NEW selection \in DebugSelections(stage)
    PROVE  \E kind \in Asked(stage) : \E variant :
               selection = SelectForDebug(Backends, stage, kind, variant)
<1>1. PICK legacy \in StageModes(stage), kind \in StageBackendKinds(stage),
           variant \in StageVariants(stage) :
          selection = LET id == RequestedBackend(stage, legacy, kind, variant)
                      IN SelectForDebug(Backends, stage, id.kind, id.variant)
  BY DEF DebugSelections
<1>2. RequestedBackend(stage, legacy, kind, variant).kind \in Asked(stage)
  BY DEF StageBackendKinds, RequestedBackend, Asked, Id
<1> QED
  BY <1>1, <1>2

-----------------------------------------------------------------------------
(* The boxes of the detectors.                                             *)

\* Triton's plain detector, the only one whose client clamps nothing.
ServedDetector == Id("triton", "grounding-dino")

\* A set of natural numbers has a least element: the columns of a mask start
\* somewhere.
LEMMA LeastOfNaturals ==
    ASSUME NEW I \in SUBSET Nat, I # {}
    PROVE  \E n \in I : \A m \in I : n <= m
<1>1. PICK n \in I : \A m \in I : ~(<<m, n>> \in OpToRel(<, Nat))
  BY NatLessThanWellFounded, WFMin
<1>2. \A m \in I : ~(m < n)
  BY <1>1 DEF OpToRel
<1> QED
  BY <1>2

\* A bounded set of natural numbers has a greatest element: the columns of a
\* mask end somewhere.
LEMMA GreatestBelow ==
    ASSUME NEW width \in Nat, NEW I \in SUBSET (0..(width - 1)), I # {}
    PROVE  \E n \in I : \A m \in I : m <= n
<1> DEFINE J == {width - i : i \in I}
<1>1. J \in SUBSET Nat /\ J # {}
  <2>1. ASSUME NEW i \in I PROVE width - i \in Nat
    <3>1. i \in 0..(width - 1)
      OBVIOUS
    <3> QED  BY <3>1
  <2>2. J # {}
    OBVIOUS
  <2> QED  BY <2>1, <2>2
<1>2. PICK j \in J : \A k \in J : j <= k
  <2> HIDE DEF J
  <2> QED  BY <1>1, LeastOfNaturals
<1>3. PICK n \in I : j = width - n
  BY <1>2
<1>4. \A m \in I : j <= width - m
  BY <1>2
<1> QED
  BY <1>3, <1>4

\* The box of a mask, padded and cut at the edges of the picture, has an area.
LEMMA MaskHasArea ==
    ASSUME NEW width \in Nat \ {0}, NEW padding \in Nat,
           NEW s \in MockDetections(padding, width)
    PROVE  CropRaises(s) = "none"
<1>1. PICK columns \in (SUBSET (0..(width - 1))) \ {{}} : s = BboxFromMask(columns, padding, width)
  BY DEF MockDetections
<1>2. PICK a \in columns : \A m \in columns : a <= m
  <2>1. ASSUME NEW c \in columns PROVE c \in Nat
    <3>1. c \in 0..(width - 1)
      BY <1>1
    <3> QED  BY <3>1
  <2>2. columns # {}
    BY <1>1
  <2> QED  BY <2>1, <2>2, LeastOfNaturals
<1>3. Min(columns) = a
  <2>1. columns \in SUBSET Nat
    OBVIOUS
  <2> QED  BY <1>2, <2>1, MinIs
<1>4. PICK b \in columns : \A m \in columns : m <= b
  <2>1. width \in Nat /\ columns \in SUBSET (0..(width - 1)) /\ columns # {}
    OBVIOUS
  <2> QED  BY <2>1, GreatestBelow
<1>5. Max(columns) = b
  <2>1. \A k \in columns : (\A m \in columns : k >= m) => k = b
    BY <1>4
  <2>2. b \in columns /\ \A m \in columns : b >= m
    BY <1>4
  <2> QED  BY <2>1, <2>2 DEF Max
<1>6. a \in 0..(width - 1) /\ b \in 0..(width - 1) /\ a <= b
  BY <1>2, <1>4
<1>7. s = Segment(Most(0, a - padding), Least(width, b + padding + 1))
  BY <1>1, <1>3, <1>5 DEF BboxFromMask
<1>8. Most(0, a - padding) < Least(width, b + padding + 1)
  BY <1>6 DEF Most, Least
<1>9. s.hi = Least(width, b + padding + 1) /\ s.lo = Most(0, a - padding)
  BY <1>7 DEF Segment
<1> DEFINE lo == Most(0, a - padding)
           hi == Least(width, b + padding + 1)
<1>10. lo \in Int /\ hi \in Int /\ lo < hi
  BY <1>6, <1>8 DEF Most, Least
<1> HIDE DEF lo, hi
<1>11. s.hi = hi /\ s.lo = lo
  BY <1>9 DEF lo, hi
<1> QED
  BY <1>10, <1>11 DEF CropRaises

\* Rounding half to even gives an integer and keeps the order.
LEMMA RoundIs ==
    ASSUME NEW p \in Int, NEW q \in Int
    PROVE  /\ Round(p) \in Int
           /\ p <= q => Round(p) <= Round(q)
<1>1. ASSUME NEW x \in Int
      PROVE  /\ x \div 4 \in Int /\ x % 4 \in 0..3
             /\ x = 4 * (x \div 4) + (x % 4)
  <2>1. x \div 4 \in Int
    OBVIOUS
  <2>2. x % 4 \in 0..3
    OBVIOUS
  <2>3. x = 4 * (x \div 4) + (x % 4)
    OBVIOUS
  <2> QED  BY <2>1, <2>2, <2>3
<1>2. \A x \in Int : Round(x) \in {x \div 4, x \div 4 + 1}
  BY <1>1 DEF Round
<1>3. Round(p) \in Int
  BY <1>1, <1>2
<1>4. CASE p \div 4 < q \div 4
  BY <1>1, <1>2, <1>4
<1>5. CASE p \div 4 = q \div 4 /\ p <= q
  <2> DEFINE w == p \div 4
  <2>1. p % 4 <= q % 4 /\ p % 4 \in 0..3 /\ q % 4 \in 0..3
    BY <1>1, <1>5
  <2>2. /\ Round(p) = w + (IF p % 4 = 3 \/ (p % 4 = 2 /\ w % 2 = 1) THEN 1 ELSE 0)
        /\ Round(q) = w + (IF q % 4 = 3 \/ (q % 4 = 2 /\ w % 2 = 1) THEN 1 ELSE 0)
    BY <1>5 DEF Round
  <2>3. w \in Int
    BY <1>1
  <2> QED  BY <2>1, <2>2, <2>3
<1>6. p <= q => p \div 4 <= q \div 4
  BY <1>1
<1> QED
  BY <1>1, <1>3, <1>4, <1>5, <1>6

\* A box that _clamp_bbox has clamped has an area, whatever the network says.
LEMMA ClampedHasArea ==
    ASSUME NEW lo \in Int, NEW hi \in Int, NEW width \in Nat
    PROVE  CropRaises(ClampBbox(Segment(lo, hi), width)) = "none"
<1> DEFINE s == ClampBbox(Segment(lo, hi), width)
           a == Most(0, Least(Round(lo), width - 1))
           b == Most(a + 1, Least(Round(hi), width))
<1>1. Round(lo) \in Int /\ Round(hi) \in Int
  BY RoundIs
<1>2. Segment(lo, hi).lo = lo /\ Segment(lo, hi).hi = hi
  BY DEF Segment
<1>3. s = Segment(a, b)
  BY <1>2 DEF ClampBbox
<1>4. a \in Int
  BY <1>1 DEF Most, Least
<1> HIDE DEF a
<1>5. b \in Int /\ a < b
  BY <1>1, <1>4 DEF Most, Least
<1> HIDE DEF b, s
<1>6. s.lo = a /\ s.hi = b
  BY <1>3 DEF Segment
<1>7. CropRaises(s) = "none"
  BY <1>4, <1>5, <1>6 DEF CropRaises
<1> QED
  BY <1>7 DEF s

\* What a crop of one of the boxes comes to.
LEMMA CropsAre ==
    ASSUME NEW segments, NEW box \in Crops(segments)
    PROVE  \E s \in segments : box = IF CropRaises(s) = "none" THEN "good" ELSE CropRaises(s)
BY DEF Crops

\* All detectors but Triton's plain one give boxes that can be cropped; that
\* one may give a box without an area, never one that is inside out.
LEMMA DetectedBoxes ==
    /\ MockCrops \subseteq {"good"}
    /\ RealCrops \subseteq {"good"}
    /\ OnnxCrops \subseteq {"good"}
    /\ ServedCrops \subseteq {"good", "ZeroDivisionError"}
<1>0. Width \in Nat \ {0} /\ Height \in Nat \ {0}
  BY BoundsAssumption
<1>n. ASSUME NEW q \in Network
      PROVE  q.lo \in Int /\ q.hi \in Int /\ q = Segment(q.lo, q.hi)
  <2>1. PICK lo \in -3..(4 * Width + 3), hi \in -3..(4 * Width + 3) : q = Segment(lo, hi)
    BY DEF Network
  <2>2. lo \in Int /\ hi \in Int
    OBVIOUS
  <2> QED  BY <2>1, <2>2 DEF Segment
<1>1. ASSUME NEW box \in MockCrops PROVE box = "good"
  <2>1. PICK s \in UNION {MockDetections(padding, Width) : padding \in 0..Width} :
            box = IF CropRaises(s) = "none" THEN "good" ELSE CropRaises(s)
    BY CropsAre DEF MockCrops
  <2>2. PICK padding \in 0..Width : s \in MockDetections(padding, Width)
    BY <2>1
  <2>3. padding \in Nat
    BY <1>0
  <2> QED  BY <1>0, <2>1, <2>2, <2>3, MaskHasArea
<1>2. ASSUME NEW box \in RealCrops PROVE box = "good"
  <2>1. PICK s \in RealDetections(Network, Width) :
            box = IF CropRaises(s) = "none" THEN "good" ELSE CropRaises(s)
    BY CropsAre DEF RealCrops
  <2>2. PICK q \in Network : s = ClampBbox(q, Width)
    BY DEF RealDetections
  <2>3. PICK lo, hi : lo = q.lo /\ hi = q.hi
    OBVIOUS
  <2>4. lo \in Int /\ hi \in Int /\ s = ClampBbox(Segment(lo, hi), Width)
    BY <1>n, <2>2, <2>3
  <2>5. CropRaises(s) = "none"
    BY <1>0, <2>4, ClampedHasArea
  <2> QED  BY <2>1, <2>5
<1>3. ASSUME NEW box \in OnnxCrops PROVE box = "good"
  <2>1. PICK s \in OnnxDetections(Network, Width, Height) :
            box = IF CropRaises(s) = "none" THEN "good" ELSE CropRaises(s)
    BY CropsAre DEF OnnxCrops
  <2>2. PICK q \in Network : s = BboxFromSquare(q, LetterboxSquare(Width, Height), Width)
    BY DEF OnnxDetections
  <2>3. PICK c : c = LetterboxSquare(Width, Height).lo
    OBVIOUS
  <2>4. c \in Int
    <3>1. c = (Most(Width, Height) - Width) \div 2
      BY <2>3 DEF LetterboxSquare, Segment
    <3>2. Most(Width, Height) - Width \in Int
      BY <1>0 DEF Most
    <3> QED  BY <3>1, <3>2
  <2>5. PICK lo, hi : lo = q.lo - 4 * c /\ hi = q.hi - 4 * c
    OBVIOUS
  <2>6. lo \in Int /\ hi \in Int /\ s = ClampBbox(Segment(lo, hi), Width)
    BY <1>n, <2>2, <2>3, <2>4, <2>5 DEF BboxFromSquare
  <2>7. CropRaises(s) = "none"
    BY <1>0, <2>6, ClampedHasArea
  <2> QED  BY <2>1, <2>7
<1>4. ASSUME NEW box \in ServedCrops PROVE box \in {"good", "ZeroDivisionError"}
  <2> DEFINE answers == {DetectorExecute(<<{q}>>, Width) : q \in Network} \ {<<>>}
  <2>1. PICK s \in {TensorToBbox(t) : t \in UNION {answer[1] : answer \in answers}} :
            box = IF CropRaises(s) = "none" THEN "good" ELSE CropRaises(s)
    BY CropsAre DEF ServedCrops
  <2>2. PICK t \in UNION {answer[1] : answer \in answers} : s = TensorToBbox(t)
    BY <2>1
  <2>3. PICK answer \in answers : t \in answer[1]
    BY <2>2
  <2>4. PICK q \in Network : answer = DetectorExecute(<<{q}>>, Width) /\ answer # <<>>
    BY <2>3
  <2>5. DOMAIN <<{q}>> = {1} /\ <<{q}>>[1] = {q}
    OBVIOUS
  <2>6. answer[1] = SelectPrimaryDetection({q}, Width)
    BY <2>4, <2>5 DEF DetectorExecute
  <2>7. t = ServerClamp(q, Width) /\ t.hi > t.lo
    BY <2>3, <2>6 DEF SelectPrimaryDetection
  <2>8. t.lo \in Int /\ t.hi \in Int
    BY <1>0, <1>n, <2>7 DEF ServerClamp, Segment, Least, Most
  <2>9. PICK lo, hi : lo = t.lo /\ hi = t.hi
    OBVIOUS
  <2>10. Round(lo) \in Int /\ Round(hi) \in Int /\ Round(lo) <= Round(hi)
    BY <2>7, <2>8, <2>9, RoundIs
  <2>11. s.lo = Round(lo) /\ s.hi = Round(hi)
    BY <2>2, <2>9 DEF TensorToBbox, Segment
  <2>12. CropRaises(s) \in {"none", "ZeroDivisionError"}
    BY <2>10, <2>11 DEF CropRaises
  <2> QED  BY <2>1, <2>12
<1> QED
  BY <1>1, <1>2, <1>3, <1>4

\* A bad box is one without an area, and comes from Triton's plain detector.
LEMMA BoxesAre ==
    ASSUME NEW s, NEW env, NEW stage \in RunStages, NEW id, Executable(Registry(s, env), stage, id),
           NEW box \in Boxes(stage, id)
    PROVE  box = "good" \/ (box = "ZeroDivisionError" /\ stage = "detector" /\ id = ServedDetector)
<1>1. CASE stage # "detector"
  BY <1>1 DEF Boxes
<1>2. CASE stage = "detector"
  <2>1. /\ id.kind \in {"mock", "local", "triton"}
        /\ id = Id(id.kind, id.variant)
        /\ id.kind = "triton" => <<stage, id.variant>> \in TritonModels
    BY <1>2, CallableBackends DEF RunStages
  <2>2. Id("triton", "grounding-dino").kind = "triton" /\ Id("triton", "grounding-dino-onnx").kind = "triton"
    BY DEF Id
  <2>3. CASE id.kind = "mock"
    BY <1>2, <2>2, <2>3, DetectedBoxes DEF Boxes
  <2>4. CASE id.kind = "local"
    BY <1>2, <2>2, <2>4, DetectedBoxes DEF Boxes
  <2>5. CASE id.kind = "triton"
    <3>1. id.variant \in {"grounding-dino", "grounding-dino-onnx"}
      BY <1>2, <2>1, <2>5, TritonModelsAre
    <3>2. Id("triton", "grounding-dino") # Id("triton", "grounding-dino-onnx")
      BY DEF Id
    <3>3. CASE id = Id("triton", "grounding-dino-onnx")
      BY <1>2, <2>5, <3>2, <3>3, DetectedBoxes DEF Boxes
    <3>4. CASE id = Id("triton", "grounding-dino")
      BY <1>2, <2>5, <3>2, <3>4, DetectedBoxes DEF Boxes, ServedDetector
    <3> QED  BY <2>1, <2>5, <3>1, <3>3, <3>4
  <2> QED  BY <2>1, <2>3, <2>4, <2>5
<1> QED
  BY <1>1, <1>2

-----------------------------------------------------------------------------
(* What comes of a call.                                                   *)

\* Triton connected and did not answer in time.
Timeouts == {"silent", "stalled"}
\* The client in use is that of the tritonclient package.
Native == runtime.transport = "native" /\ runtime.installed

\* A call that raises. It is a timeout only when the exchange failed, and by
\* the JSON transport exactly when Triton connected and did not answer in time;
\* "late" is for a render that was done too late.
Fails(o) ==
    /\ ~Succeeded(o)
    /\ o.name # "late"
    /\ o.name = "TritonTimeout" => o.wire \in Wire \ {"ok"}
    /\ ~Native => (o.name = "TritonTimeout" <=> o.wire \in Timeouts)

\* A call that hands over a value: this render's own, made from inputs that
\* were there; only Triton's plain detector gives a box that cannot be cropped.
Hands(stage, id, o) ==
    /\ o.name = "mine"
    /\ o.box = "good" \/ (o.box = "ZeroDivisionError" /\ stage = "detector" /\ id = ServedDetector)
    /\ \A v \in Inputs(stage) : context[v] # {}

\* The fields of an outcome.
LEMMA OutcomeFields ==
    ASSUME NEW name, NEW box, NEW wire
    PROVE  /\ Outcome(name, box, wire).name = name
           /\ Outcome(name, box, wire).box = box
           /\ Outcome(name, box, wire).wire = wire
BY DEF Outcome

\* An exception of the adapter or the model fails the call.
LEMMA OwnedOutcome ==
    ASSUME NEW name \in Owned \cup {"RuntimeError", "AttributeError"}, NEW box, name # "mine"
    PROVE  Fails(Outcome(name, box, "ok"))
BY OutcomeFields DEF Fails, Succeeded, Owned, Timeouts

\* A call that Triton or the way to it fails, over either transport.
LEMMA CallFails ==
    ASSUME NEW exchange \in Wire \X NativeTexts,
           Infer(runtime.transport, runtime.installed, exchange[1], exchange[2]) # "response"
    PROVE  Fails(Outcome(Infer(runtime.transport, runtime.installed, exchange[1], exchange[2]), "good",
                         exchange[1]))
<1> DEFINE call == Infer(runtime.transport, runtime.installed, exchange[1], exchange[2])
           wire == exchange[1]
<1>1. exchange[1] \in Wire /\ exchange[2] \in NativeTexts
  OBVIOUS
<1>2. CASE Native
  <2>1. call = InferNative(exchange[1], exchange[2])
    BY <1>2 DEF Infer, Native
  <2>2. InferNative(exchange[1], exchange[2]) = call /\ call # "response"
    BY <2>1
  <2>3. /\ call \in {"TritonTimeout", "TritonEndpointUnavailable", "TritonModelUnavailable",
                     "TritonBackendError"}
        /\ exchange[1] # "ok"
    <3> HIDE DEF call
    <3> QED  BY <1>1, <2>2 DEF InferNative, NativeTexts
  <2> HIDE DEF call, wire
  <2> QED  BY <1>1, <1>2, <2>1, <2>3, OutcomeFields DEF Fails, Succeeded, call, wire
<1>3. CASE ~Native
  <2>1. call = InferJson(exchange[1])
    BY <1>3 DEF Infer, Native
  <2>2. InferJson(exchange[1]) = call /\ call # "response"
    BY <2>1
  <2>3. /\ call \in {"TritonTimeout", "TritonEndpointUnavailable", "TritonModelUnavailable",
                     "TritonBackendError", "TritonInvalidResponse"}
        /\ call = "TritonTimeout" <=> exchange[1] \in Timeouts
        /\ exchange[1] # "ok"
    <3> HIDE DEF call
    <3> QED  BY <1>1, <2>2 DEF InferJson, Translated, Wire, Timeouts
  <2> HIDE DEF call, wire
  <2> QED  BY <1>1, <1>3, <2>1, <2>3, OutcomeFields DEF Fails, Succeeded, call, wire
<1> QED
  BY <1>2, <1>3

\* A call of a Triton model fails, or hands over this render's own value.
LEMMA TritonOutcomesAre ==
    ASSUME NEW m \in TritonModels, NEW o \in TritonOutcomes(m)
    PROVE  \/ Fails(o)
           \/ \E box \in Boxes(m[1], Id("triton", m[2])) : o = Outcome("mine", box, "ok")
<1> DEFINE call(exchange) == Infer(runtime.transport, runtime.installed, exchange[1], exchange[2])
           boxes == Boxes(m[1], Id("triton", m[2]))
           raised == IF m[2] = "grounding-dino-onnx" THEN {"ValueError"} ELSE {}
<1>1. \/ \E name \in Handed[m], box \in boxes : o = Outcome(name, box, "ok")
      \/ \E name \in raised : o = Outcome(name, "good", "ok")
      \/ \E failure \in {exchange \in Wire \X NativeTexts : call(exchange) # "response"} :
            o = Outcome(call(failure), "good", failure[1])
  BY DEF TritonOutcomes
<1>2. ASSUME NEW name \in Handed[m], NEW box \in boxes, o = Outcome(name, box, "ok")
      PROVE  Fails(o) \/ o = Outcome("mine", box, "ok")
  <2>1. name \in Owned
    BY HandedIsOwn
  <2> QED  BY <1>2, <2>1, OwnedOutcome
<1>3. ASSUME NEW name \in raised, o = Outcome(name, "good", "ok")
      PROVE  Fails(o)
  <2>1. name \in Owned /\ name # "mine"
    BY DEF Owned
  <2> QED  BY <1>3, <2>1, OwnedOutcome
<1>4. ASSUME NEW failure \in {exchange \in Wire \X NativeTexts : call(exchange) # "response"},
             o = Outcome(call(failure), "good", failure[1])
      PROVE  Fails(o)
  BY <1>4, CallFails
<1> QED
  BY <1>1, <1>2, <1>3, <1>4

\* So does a call of any backend that can be called.
LEMMA OutcomesAre ==
    ASSUME NEW s, NEW env, NEW stage \in RunStages, NEW id, Executable(Registry(s, env), stage, id),
           NEW o \in Outcomes(stage, id)
    PROVE  Fails(o) \/ Hands(stage, id, o)
<1>1. CASE \E v \in Inputs(stage) : context[v] = {}
  <2>1. o = Outcome("AttributeError", "good", "ok")
    BY <1>1 DEF Outcomes
  <2> QED  BY <2>1, OwnedOutcome DEF Owned
<1>2. CASE \A v \in Inputs(stage) : context[v] # {}
  <2>1. /\ id.kind \in {"mock", "local", "triton"}
        /\ id = Id(id.kind, id.variant)
        /\ id.kind = "triton" => <<stage, id.variant>> \in TritonModels
    BY CallableBackends DEF RunStages
  <2>2. ASSUME NEW box \in Boxes(stage, id), o = Outcome("mine", box, "ok")
        PROVE  Hands(stage, id, o)
    <3>1. box = "good" \/ (box = "ZeroDivisionError" /\ stage = "detector" /\ id = ServedDetector)
      BY BoxesAre
    <3> QED  BY <1>2, <2>2, <3>1, OutcomeFields DEF Hands
  <2>3. CASE id.kind = "triton"
    <3>1. o \in TritonOutcomes(<<stage, id.variant>>)
      BY <1>2, <2>3 DEF Outcomes
    <3>2. Boxes(<<stage, id.variant>>[1], Id("triton", <<stage, id.variant>>[2])) = Boxes(stage, id)
      BY <2>1, <2>3
    <3> QED  BY <2>1, <2>2, <2>3, <3>1, <3>2, TritonOutcomesAre
  <2>4. CASE id.kind = "local"
    <3>1. \/ o = Outcome("RuntimeError", "good", "ok")
          \/ \E box \in Boxes(stage, id) : o = Outcome("mine", box, "ok")
      BY <1>2, <2>4 DEF Outcomes
    <3> QED  BY <2>2, <3>1, OwnedOutcome
  <2>5. CASE id.kind = "mock"
    <3>1. \E box \in Boxes(stage, id) : o = Outcome("mine", box, "ok")
      BY <1>2, <2>5 DEF Outcomes
    <3> QED  BY <2>2, <3>1
  <2> QED  BY <2>1, <2>3, <2>4, <2>5
<1> QED
  BY <1>1, <1>2

-----------------------------------------------------------------------------
(* The orders of the two pipelines.                                        *)

\* Where After and the properties look for a step.
PlaceIn(order, step) == SelectInSeq(order, LAMBDA x : x = step)

\* A step that occurs once in an order is found where it is.
LEMMA PlaceOf ==
    ASSUME NEW S, NEW order \in Seq(S), NEW k \in 1..Len(order),
           \A i \in 1..Len(order) : order[i] = order[k] => i = k
    PROVE  PlaceIn(order, order[k]) = k
<1> DEFINE step == order[k]
           I == {i \in 1..Len(order) : order[i] = step}
<1>1. I \in SUBSET Nat /\ k \in I /\ \A m \in I : k <= m
  OBVIOUS
<1>2. Min(I) = k
  <2> HIDE DEF I
  <2> QED  BY <1>1, MinIs
<1> QED
  BY <1>1, <1>2 DEF PlaceIn, SelectInSeq

\* What comes after a step that occurs once is the next element.
LEMMA NextOf ==
    ASSUME NEW S, NEW order \in Seq(S), NEW k \in 1..Len(order),
           \A i \in 1..Len(order) : order[i] = order[k] => i = k
    PROVE  After(order, order[k]) = order[k + 1]
<1>1. PlaceIn(order, order[k]) = k
  BY PlaceOf
<1>2. After(order, order[k]) = order[PlaceIn(order, order[k]) + 1]
  BY DEF After, PlaceIn
<1> QED
  BY <1>1, <1>2

\* The elements of a join.
LEMMA JoinIs ==
    ASSUME NEW S, NEW s \in Words(S), NEW t \in Words(S)
    PROVE  /\ Join(s, t) \in Words(S)
           /\ Len(Join(s, t)) = Len(s) + Len(t)
           /\ \A i \in 1..(Len(s) + Len(t)) :
                 Join(s, t)[i] = IF i <= Len(s) THEN s[i] ELSE t[i - Len(s)]
BY DEF Join, Words

\* What the public pipeline does from the crop on.
RenderRest ==
    <<"crop", "segmenter", "foreground_refiner", "depth_estimator", "normal_estimator", "save",
      "shadow_generator", "composer", "encode">>

\* The public pipeline's steps, written out.
RenderSteps(geometry) ==
    IF geometry
    THEN <<"detector", "geometry_estimator", "crop", "segmenter", "foreground_refiner",
           "depth_estimator", "normal_estimator", "save", "shadow_generator", "composer", "encode">>
    ELSE <<"detector", "crop", "segmenter", "foreground_refiner",
           "depth_estimator", "normal_estimator", "save", "shadow_generator", "composer", "encode">>

\* The debug pipeline's steps, written out.
DebugSteps(geometry) ==
    IF geometry
    THEN <<"geometry_estimator", "detector", "segmenter", "foreground_refiner", "depth_estimator",
           "normal_estimator", "shadow_generator", "composer">>
    ELSE <<"detector", "segmenter", "foreground_refiner", "depth_estimator",
           "normal_estimator", "shadow_generator", "composer">>

\* The steps of either.
AllSteps == {"detector", "geometry_estimator", "crop", "segmenter", "foreground_refiner",
             "depth_estimator", "normal_estimator", "save", "shadow_generator", "composer", "encode"}

\* RenderOrder is what is written out.
LEMMA RenderOrderIs == RenderOrder = RenderSteps(Settings.geometry_enabled)
<1> DEFINE d == <<"detector">>
           g == Geometry
           r == RenderRest
<1>1. RenderOrder = Join(Join(d, g), r)
  BY DEF RenderOrder, Join, RenderRest
<1>2. d \in Words(AllSteps) /\ g \in Words(AllSteps) /\ r \in Words(AllSteps)
  <2>1. "detector" \in AllSteps /\ "geometry_estimator" \in AllSteps
    BY DEF AllSteps
  <2>2. g = <<>> \/ g = <<"geometry_estimator">>
    BY DEF Geometry
  <2>3. r \in Words(AllSteps)
    BY DEF Words, AllSteps, RenderRest
  <2>4. <<>> \in Words(AllSteps) /\ \A x \in AllSteps : <<x>> \in Words(AllSteps)
    BY DEF Words
  <2> QED  BY <2>1, <2>2, <2>3, <2>4
<1>3. CASE Settings.geometry_enabled
  <2>1. Len(g) = 1 /\ Len(d) = 1 /\ Len(r) = 9
    BY <1>3 DEF Geometry, RenderRest
  <2> DEFINE whole == RenderSteps(TRUE)
  <2>2. whole \in Words(AllSteps) /\ Len(whole) = 11
    BY DEF RenderSteps, AllSteps, Words
  <2>3. /\ whole[1] = d[1] /\ whole[2] = g[1]
        /\ \A i \in 1..9 : whole[i + 2] = r[i]
    BY <1>3 DEF RenderSteps, RenderRest, Geometry
  <2> HIDE DEF d, g, r, whole
  <2>4. PICK a : a = Join(d, g)
    OBVIOUS
  <2>5. a \in Words(AllSteps) /\ Len(a) = 2 /\ a[1] = d[1] /\ a[2] = g[1]
    <3>1. /\ a \in Words(AllSteps) /\ Len(a) = Len(d) + Len(g)
          /\ \A i \in 1..(Len(d) + Len(g)) : a[i] = IF i <= Len(d) THEN d[i] ELSE g[i - Len(d)]
      BY <1>2, <2>4, JoinIs
    <3> QED  BY <2>1, <3>1
  <2>6. PICK b : b = Join(a, r)
    OBVIOUS
  <2>7. /\ b \in Words(AllSteps) /\ Len(b) = 11
        /\ \A i \in 1..11 : b[i] = IF i <= 2 THEN a[i] ELSE r[i - 2]
    <3>1. /\ b \in Words(AllSteps) /\ Len(b) = Len(a) + Len(r)
          /\ \A i \in 1..(Len(a) + Len(r)) : b[i] = IF i <= Len(a) THEN a[i] ELSE r[i - Len(a)]
      BY <1>2, <2>5, <2>6, JoinIs
    <3> QED  BY <2>1, <2>5, <3>1
  <2>8. \A i \in 1..11 : b[i] = whole[i]
    <3>1. \A i \in (3)..11 : i - 2 \in 1..9 /\ (i - 2) + 2 = i
      OBVIOUS
    <3>2. \A i \in (3)..11 : whole[i] = r[i - 2]
      BY <2>3, <3>1
    <3>3. \A i \in 1..11 : i = 1 \/ i = 2 \/ i \in (3)..11
      OBVIOUS
    <3>4. \A i \in (3)..11 : i \in 1..11 /\ ~(i <= 2)
      OBVIOUS
    <3> QED  BY <2>3, <2>5, <2>7, <3>2, <3>3, <3>4
  <2>9. b = whole
    BY <2>2, <2>7, <2>8, SameSequence DEF Words
  <2> QED  BY <1>1, <1>3, <2>4, <2>6, <2>9 DEF whole, RenderSteps
<1>4. CASE ~Settings.geometry_enabled
  <2>1. Len(g) = 0 /\ Len(d) = 1 /\ Len(r) = 9
    BY <1>4 DEF Geometry, RenderRest
  <2> DEFINE whole == RenderSteps(FALSE)
  <2>2. whole \in Words(AllSteps) /\ Len(whole) = 10
    BY DEF RenderSteps, AllSteps, Words
  <2>3. /\ whole[1] = d[1] 
        /\ \A i \in 1..9 : whole[i + 1] = r[i]
    BY <1>4 DEF RenderSteps, RenderRest, Geometry
  <2> HIDE DEF d, g, r, whole
  <2>4. PICK a : a = Join(d, g)
    OBVIOUS
  <2>5. a \in Words(AllSteps) /\ Len(a) = 1 /\ a[1] = d[1] 
    <3>1. /\ a \in Words(AllSteps) /\ Len(a) = Len(d) + Len(g)
          /\ \A i \in 1..(Len(d) + Len(g)) : a[i] = IF i <= Len(d) THEN d[i] ELSE g[i - Len(d)]
      BY <1>2, <2>4, JoinIs
    <3> QED  BY <2>1, <3>1
  <2>6. PICK b : b = Join(a, r)
    OBVIOUS
  <2>7. /\ b \in Words(AllSteps) /\ Len(b) = 10
        /\ \A i \in 1..10 : b[i] = IF i <= 1 THEN a[i] ELSE r[i - 1]
    <3>1. /\ b \in Words(AllSteps) /\ Len(b) = Len(a) + Len(r)
          /\ \A i \in 1..(Len(a) + Len(r)) : b[i] = IF i <= Len(a) THEN a[i] ELSE r[i - Len(a)]
      BY <1>2, <2>5, <2>6, JoinIs
    <3> QED  BY <2>1, <2>5, <3>1
  <2>8. \A i \in 1..10 : b[i] = whole[i]
    <3>1. \A i \in (2)..10 : i - 1 \in 1..9 /\ (i - 1) + 1 = i
      OBVIOUS
    <3>2. \A i \in (2)..10 : whole[i] = r[i - 1]
      BY <2>3, <3>1
    <3>3. \A i \in 1..10 : i = 1 \/ i \in (2)..10
      OBVIOUS
    <3>4. \A i \in (2)..10 : i \in 1..10 /\ ~(i <= 1)
      OBVIOUS
    <3> QED  BY <2>3, <2>5, <2>7, <3>2, <3>3, <3>4
  <2>9. b = whole
    BY <2>2, <2>7, <2>8, SameSequence DEF Words
  <2> QED  BY <1>1, <1>4, <2>4, <2>6, <2>9 DEF whole, RenderSteps
<1> QED
  BY <1>3, <1>4

\* What comes after each step of the public pipeline.
LEMMA AfterRender ==
    /\ After(RenderOrder, "detector") =
          IF Settings.geometry_enabled THEN "geometry_estimator" ELSE "crop"
    /\ Settings.geometry_enabled => After(RenderOrder, "geometry_estimator") = "crop"
    /\ After(RenderOrder, "crop") = "segmenter"
    /\ After(RenderOrder, "segmenter") = "foreground_refiner"
    /\ After(RenderOrder, "foreground_refiner") = "depth_estimator"
    /\ After(RenderOrder, "depth_estimator") = "normal_estimator"
    /\ After(RenderOrder, "normal_estimator") = "save"
    /\ After(RenderOrder, "save") = "shadow_generator"
    /\ After(RenderOrder, "shadow_generator") = "composer"
    /\ After(RenderOrder, "composer") = "encode"
<1>1. CASE Settings.geometry_enabled
  <2> DEFINE order == RenderSteps(TRUE)
  <2>1. order \in Seq(AllSteps) /\ Len(order) = 11
    BY DEF RenderSteps, AllSteps
  <2>2. \A k \in 1..11 : \A i \in 1..11 : order[i] = order[k] => i = k
    BY DEF RenderSteps
  <2>3. /\ order[1] = "detector" /\ order[2] = "geometry_estimator" /\ order[3] = "crop"
        /\ order[4] = "segmenter" /\ order[5] = "foreground_refiner" /\ order[6] = "depth_estimator"
        /\ order[7] = "normal_estimator" /\ order[8] = "save" /\ order[9] = "shadow_generator"
        /\ order[10] = "composer" /\ order[11] = "encode"
    BY DEF RenderSteps
  <2> HIDE DEF order
  <2>4. \A k \in 1..11 : After(order, order[k]) = order[k + 1]
    BY <2>1, <2>2, NextOf
  <2>5. RenderOrder = order
    BY <1>1, RenderOrderIs DEF RenderSteps, order
  <2> QED  BY <1>1, <2>3, <2>4, <2>5
<1>2. CASE ~Settings.geometry_enabled
  <2> DEFINE order == RenderSteps(FALSE)
  <2>1. order \in Seq(AllSteps) /\ Len(order) = 10
    BY DEF RenderSteps, AllSteps
  <2>2. \A k \in 1..10 : \A i \in 1..10 : order[i] = order[k] => i = k
    BY DEF RenderSteps
  <2>3. /\ order[1] = "detector" /\ order[2] = "crop"
        /\ order[3] = "segmenter" /\ order[4] = "foreground_refiner" /\ order[5] = "depth_estimator"
        /\ order[6] = "normal_estimator" /\ order[7] = "save" /\ order[8] = "shadow_generator"
        /\ order[9] = "composer" /\ order[10] = "encode"
    BY DEF RenderSteps
  <2> HIDE DEF order
  <2>4. \A k \in 1..10 : After(order, order[k]) = order[k + 1]
    BY <2>1, <2>2, NextOf
  <2>5. RenderOrder = order
    BY <1>2, RenderOrderIs DEF RenderSteps, order
  <2> QED  BY <1>2, <2>3, <2>4, <2>5
<1> QED
  BY <1>1, <1>2

\* What the debug pipeline does from the detector on.
DebugRest ==
    <<"detector", "segmenter", "foreground_refiner", "depth_estimator", "normal_estimator",
      "shadow_generator", "composer">>

\* DebugOrder is what is written out.
LEMMA DebugOrderIs == DebugOrder = DebugSteps(Settings.geometry_enabled)
<1> DEFINE g == Geometry
           r == DebugRest
<1>1. DebugOrder = Join(g, r)
  BY DEF DebugOrder, Join, DebugRest
<1>2. g \in Words(AllSteps) /\ r \in Words(AllSteps)
  <2>1. "geometry_estimator" \in AllSteps
    BY DEF AllSteps
  <2>2. g = <<>> \/ g = <<"geometry_estimator">>
    BY DEF Geometry
  <2>3. r \in Words(AllSteps)
    BY DEF Words, AllSteps, DebugRest
  <2>4. <<>> \in Words(AllSteps) /\ \A x \in AllSteps : <<x>> \in Words(AllSteps)
    BY DEF Words
  <2> QED  BY <2>1, <2>2, <2>3, <2>4
<1>3. CASE Settings.geometry_enabled
  <2>1. Len(g) = 1 /\ Len(r) = 7
    BY <1>3 DEF Geometry, DebugRest
  <2> DEFINE whole == DebugSteps(TRUE)
  <2>2. whole \in Words(AllSteps) /\ Len(whole) = 8
    BY DEF DebugSteps, AllSteps, Words
  <2>3. whole[1] = g[1] /\ \A i \in 1..7 : whole[i + 1] = r[i]
    BY <1>3 DEF DebugSteps, DebugRest, Geometry
  <2> HIDE DEF g, r, whole
  <2>4. PICK b : b = Join(g, r)
    OBVIOUS
  <2>5. /\ b \in Words(AllSteps) /\ Len(b) = Len(g) + Len(r)
        /\ \A i \in 1..(Len(g) + Len(r)) : b[i] = IF i <= Len(g) THEN g[i] ELSE r[i - Len(g)]
    BY <1>2, <2>4, JoinIs
  <2>6. \A i \in 1..8 : b[i] = whole[i]
    <3>1. \A i \in (2)..8 : i - 1 \in 1..7 /\ (i - 1) + 1 = i
      OBVIOUS
    <3>2. \A i \in (2)..8 : whole[i] = r[i - 1]
      BY <2>3, <3>1
    <3>3. \A i \in 1..8 : i = 1 \/ i \in (2)..8
      OBVIOUS
    <3>4. \A i \in (2)..8 : i \in 1..8 /\ ~(i <= 1)
      OBVIOUS
    <3> QED  BY <2>1, <2>3, <2>5, <3>2, <3>3, <3>4
  <2>7. b = whole
    BY <2>1, <2>2, <2>5, <2>6, SameSequence DEF Words
  <2> QED  BY <1>1, <1>3, <2>4, <2>7 DEF whole, DebugSteps
<1>4. CASE ~Settings.geometry_enabled
  <2>1. Len(g) = 0 /\ Len(r) = 7
    BY <1>4 DEF Geometry, DebugRest
  <2> DEFINE whole == DebugSteps(FALSE)
  <2>2. whole \in Words(AllSteps) /\ Len(whole) = 7
    BY DEF DebugSteps, AllSteps, Words
  <2>3. \A i \in 1..7 : whole[i + 0] = r[i]
    BY <1>4 DEF DebugSteps, DebugRest, Geometry
  <2> HIDE DEF g, r, whole
  <2>4. PICK b : b = Join(g, r)
    OBVIOUS
  <2>5. /\ b \in Words(AllSteps) /\ Len(b) = Len(g) + Len(r)
        /\ \A i \in 1..(Len(g) + Len(r)) : b[i] = IF i <= Len(g) THEN g[i] ELSE r[i - Len(g)]
    BY <1>2, <2>4, JoinIs
  <2>6. \A i \in 1..7 : b[i] = whole[i]
    <3>1. \A i \in (1)..7 : i - 0 \in 1..7 /\ (i - 0) + 0 = i
      OBVIOUS
    <3>2. \A i \in (1)..7 : whole[i] = r[i - 0]
      BY <2>3, <3>1
    <3>3. \A i \in 1..7 : i \in (1)..7
      OBVIOUS
    <3>4. \A i \in (1)..7 : i \in 1..7 /\ ~(i <= 0)
      OBVIOUS
    <3> QED  BY <2>1, <2>3, <2>5, <3>2, <3>3, <3>4
  <2>7. b = whole
    BY <2>1, <2>2, <2>5, <2>6, SameSequence DEF Words
  <2> QED  BY <1>1, <1>4, <2>4, <2>7 DEF whole, DebugSteps
<1> QED
  BY <1>3, <1>4

\* What the debug pipeline starts with, and what comes after each step.
LEMMA AfterDebug ==
    /\ Head(DebugOrder) = IF Settings.geometry_enabled THEN "geometry_estimator" ELSE "detector"
    /\ Settings.geometry_enabled => After(DebugOrder, "geometry_estimator") = "detector"
    /\ After(DebugOrder, "detector") = "segmenter"
    /\ After(DebugOrder, "segmenter") = "foreground_refiner"
    /\ After(DebugOrder, "foreground_refiner") = "depth_estimator"
    /\ After(DebugOrder, "depth_estimator") = "normal_estimator"
    /\ After(DebugOrder, "normal_estimator") = "shadow_generator"
    /\ After(DebugOrder, "shadow_generator") = "composer"
<1>1. CASE Settings.geometry_enabled
  <2> DEFINE order == DebugSteps(TRUE)
  <2>1. order \in Seq(AllSteps) /\ Len(order) = 8
    BY DEF DebugSteps, AllSteps
  <2>2. \A k \in 1..8 : \A i \in 1..8 : order[i] = order[k] => i = k
    BY DEF DebugSteps
  <2>3. /\ order[1] = "geometry_estimator"
        /\ order[2] = "detector"
        /\ order[3] = "segmenter"
        /\ order[4] = "foreground_refiner"
        /\ order[5] = "depth_estimator"
        /\ order[6] = "normal_estimator"
        /\ order[7] = "shadow_generator"
        /\ order[8] = "composer"
    BY DEF DebugSteps
  <2>3h. Head(order) = order[1]
    BY DEF DebugSteps
  <2> HIDE DEF order
  <2>4. \A k \in 1..8 : After(order, order[k]) = order[k + 1]
    BY <2>1, <2>2, NextOf
  <2>5. DebugOrder = order
    BY <1>1, DebugOrderIs DEF DebugSteps, order
  <2> QED  BY <1>1, <2>3h, <2>3, <2>4, <2>5
<1>2. CASE ~Settings.geometry_enabled
  <2> DEFINE order == DebugSteps(FALSE)
  <2>1. order \in Seq(AllSteps) /\ Len(order) = 7
    BY DEF DebugSteps, AllSteps
  <2>2. \A k \in 1..7 : \A i \in 1..7 : order[i] = order[k] => i = k
    BY DEF DebugSteps
  <2>3. /\ order[1] = "detector"
        /\ order[2] = "segmenter"
        /\ order[3] = "foreground_refiner"
        /\ order[4] = "depth_estimator"
        /\ order[5] = "normal_estimator"
        /\ order[6] = "shadow_generator"
        /\ order[7] = "composer"
    BY DEF DebugSteps
  <2>3h. Head(order) = order[1]
    BY DEF DebugSteps
  <2> HIDE DEF order
  <2>4. \A k \in 1..7 : After(order, order[k]) = order[k + 1]
    BY <2>1, <2>2, NextOf
  <2>5. DebugOrder = order
    BY <1>2, DebugOrderIs DEF DebugSteps, order
  <2> QED  BY <1>2, <2>3h, <2>3, <2>4, <2>5
<1> QED
  BY <1>1, <1>2

-----------------------------------------------------------------------------
(* What a step of a pipeline does.                                         *)

\* What the thread may be about to do.
Steps == {"idle", "decode", "lookup", "crop", "save", "encode"} \cup RunStages

\* The runtime is what build_runtime makes of valid settings: it is what says
\* which backends can be called.
RuntimeMade ==
    /\ Settings \in ValidSettings
    /\ \E env : Backends = Registry(Settings, env)
    /\ Components = [stage \in Stages |-> Component(Settings, Backends, stage)]

\* Where a request may be: inside, nothing has been answered and no fault has
\* been noted, and the steps of the public pipeline are those of a render. The
\* runtime is still the one the request arrived at.
ControlOK ==
    /\ log \in Seq(Requests)
    /\ under \in Seq(Runtimes) /\ Len(under) = Len(log)
    /\ runtime \in Runtimes
    /\ at \in Steps
    /\ at # "idle" => log # <<>> /\ result = "none" /\ fault = NoFault
    /\ at # "idle" \/ result # "none" => log # <<>> /\ under[Own] = runtime
    /\ at \in {"lookup", "crop", "save", "encode"} => Current.kind = "render"
    /\ at = "geometry_estimator" => Settings.geometry_enabled
    /\ result = "completed" => Current.kind = "render"

\* The stages a pipeline runs, one by one.
LEMMA RunStagesAre ==
    RunStages = {"detector", "geometry_estimator", "segmenter", "foreground_refiner",
                 "depth_estimator", "normal_estimator", "shadow_generator", "composer"}
BY StagesAre DEF RunStages

\* The current request is the last of those sent.
LEMMA CurrentIs ==
    ASSUME ControlOK, log # <<>>
    PROVE  /\ Own \in Nat \ {0} /\ Own = Len(log) /\ Own \in 1..Len(log)
           /\ Current = log[Own] /\ Current \in Requests
           /\ Current.kind \in {"render", "debug"}
           /\ Current.model \in {"", "v1-gan", "v2-diff"}
<1>1. Own \in Nat \ {0} /\ Own = Len(log) /\ Own \in 1..Len(log) /\ Current = log[Own]
  BY DEF ControlOK, Own, Current
<1>2. Current \in Requests
  BY <1>1 DEF ControlOK
<1> QED
  BY <1>1, <1>2, RequestsAssumption

\* What depends on the runtime and the requests alone stays with them.
LEMMA SameRun ==
    ASSUME UNCHANGED <<runtime, log>>
    PROVE  /\ Current' = Current /\ Own' = Own /\ Settings' = Settings
           /\ Backends' = Backends /\ Components' = Components
BY DEF Current, Own, Settings, Backends, Components

\* A runtime that stays is still the one that was made.
LEMMA RuntimeStays ==
    ASSUME RuntimeMade, UNCHANGED runtime
    PROVE  RuntimeMade'
<1>1. Settings' = Settings /\ Backends' = Backends /\ Components' = Components
  BY DEF Settings, Backends, Components
<1> QED
  BY <1>1 DEF RuntimeMade

\* What build_runtime makes of a deployment.
LEMMA BuiltIs ==
    ASSUME NEW r \in Runtimes
    PROVE  /\ r.settings \in ValidSettings
           /\ \E env : r.registry = Registry(r.settings, env)
           /\ r.components = [stage \in Stages |-> Component(r.settings, r.registry, stage)]
<1>1. PICK d \in Deployments : r = Built(d)
  BY DEF Runtimes
<1>2. d.settings \in ValidSettings
  BY DeploymentsAssumption
<1>3. PICK s, env : s = d.settings /\ env = d.environment
  OBVIOUS
<1>4. /\ r.settings = s /\ r.registry = Registry(s, env)
      /\ r.components = [stage \in Stages |-> Component(s, Registry(s, env), stage)]
  BY <1>1, <1>3 DEF Built
<1> QED
  BY <1>2, <1>3, <1>4

\* The runtime is made at every start.
LEMMA InitMakesRuntime == PipelineInit => RuntimeMade
<1> SUFFICES ASSUME PipelineInit PROVE RuntimeMade
  OBVIOUS
<1>1. PICK r \in Runtimes : r = runtime
  BY DEF PipelineInit
<1> QED
  BY <1>1, BuiltIs DEF RuntimeMade, Settings, Backends, Components

LEMMA RestartMakesRuntime == Restart => RuntimeMade'
<1> SUFFICES ASSUME Restart PROVE RuntimeMade'
  OBVIOUS
<1>1. PICK r \in Runtimes : r = runtime'
  BY DEF Restart
<1> QED
  BY <1>1, BuiltIs DEF RuntimeMade, Settings, Backends, Components

\* Every step keeps RuntimeMade.
LEMMA RuntimeNext ==
    ASSUME RuntimeMade, [PipelineNext]_pipelineVars
    PROVE  RuntimeMade'
<1>1. Restart \/ UNCHANGED runtime
  BY DEF PipelineNext, pipelineVars, Arrive, DecodeFails, Decode, Lookup, RenderStage, Crop, Save,
         Encode, DebugStage
<1> QED
  BY <1>1, RestartMakesRuntime, RuntimeStays

\* An error of a file or a picture ends the request.
LEMMA RaisesRawIs ==
    ASSUME RaisesRaw
    PROVE  /\ at' = "idle" /\ result' = "raw"
           /\ fault'.stage = at /\ fault'.name \in AssetErrors /\ fault'.wire = "ok"
BY OutcomeFields DEF RaisesRaw, EndsWith, Ends

\* The public pipeline always has a backend to call, and its detector is the
\* one that start-up chose.
LEMMA RenderSelects ==
    ASSUME RuntimeMade, ControlOK, Running("render")
    PROVE  /\ at \in RunStages
           /\ Executable(Backends, at, SelectRender(at).actual)
           /\ SelectRender(at).actual # NoBackend
           /\ at = "detector" => SelectRender(at).actual = Components["detector"].id
<1>1. at \in RunStages /\ at \in Stages /\ at # "idle" /\ log # <<>>
  BY StagesAre, RunStagesAre DEF Running, ControlOK, Steps
<1>2. PICK env : Backends = Registry(Settings, env)
  BY DEF RuntimeMade
<1>3. CASE at = "shadow_generator" /\ Current.model # ""
  <2>1. SelectRender(at) = SelectForDebug(Backends, at, "local", Current.model)
    BY <1>3 DEF SelectRender
  <2>2. "local" \in Asked(at)
    BY DEF Asked
  <2> QED  BY <1>1, <1>2, <1>3, <2>1, <2>2, DebugBackend
<1>4. CASE ~(at = "shadow_generator" /\ Current.model # "")
  <2>1. SelectRender(at).actual = Components[at].id
    BY <1>4 DEF SelectRender, SelectForPublic
  <2>2. Components[at] = Component(Settings, Registry(Settings, env), at)
    BY <1>1, <1>2 DEF RuntimeMade
  <2>3. at = "geometry_estimator" => Settings.geometry_enabled
    BY DEF ControlOK
  <2>4. Executable(Backends, at, SelectRender(at).actual)
    BY <1>1, <1>2, <2>1, <2>2, <2>3, PublicBackend DEF RuntimeMade
  <2>5. SelectRender(at).actual # NoBackend
    BY <1>1, <1>2, <2>4, CallableBackends
  <2> QED  BY <1>1, <2>1, <2>4, <2>5
<1> QED
  BY <1>3, <1>4

\* The stage of a render that goes well.
RenderHands(id, o) ==
    /\ Hands(at, id, o)
    /\ context' = Assign(context, at, Lineage(at, o, Own))
    /\ at' = After(RenderOrder, at)
    /\ warnings' = Warned(at, SelectRender(at))
    /\ UNCHANGED <<result, fault>>

\* The stage of a render whose call fails.
RenderFails(o) ==
    /\ Fails(o)
    /\ EndsWith(Normalize(o.name), at, o)
    /\ UNCHANGED <<context, warnings>>

\* A stage of a render does one or the other.
LEMMA RenderStageIs ==
    ASSUME RuntimeMade, ControlOK, RenderStage
    PROVE  /\ at \in RunStages /\ Current.kind = "render"
           /\ UNCHANGED <<runtime, log, under, listed, cache>>
           /\ \E id, o : /\ Executable(Backends, at, id)
                         /\ at = "detector" => id = Components["detector"].id
                         /\ RenderHands(id, o) \/ RenderFails(o)
<1>1. Running("render") /\ UNCHANGED <<runtime, log, under, listed, cache>>
  BY DEF RenderStage
<1>2. /\ at \in RunStages
      /\ Executable(Backends, at, SelectRender(at).actual)
      /\ SelectRender(at).actual # NoBackend
      /\ at = "detector" => SelectRender(at).actual = Components["detector"].id
  BY <1>1, RenderSelects
<1>3. PICK id : id = SelectRender(at).actual
  OBVIOUS
<1>4. PICK o \in Outcomes(at, id) :
          IF Succeeded(o)
          THEN /\ context' = Assign(context, at, Lineage(at, o, Own)) /\ at' = After(RenderOrder, at)
               /\ warnings' = Warned(at, SelectRender(at))
               /\ UNCHANGED <<result, fault>>
          ELSE /\ EndsWith(Normalize(o.name), at, o)
               /\ UNCHANGED <<context, warnings>>
  BY <1>2, <1>3 DEF RenderStage
<1>5. Fails(o) \/ Hands(at, id, o)
  <2>1. PICK env : Backends = Registry(Settings, env)
    BY DEF RuntimeMade
  <2>2. PICK stage \in RunStages : stage = at
    BY <1>2
  <2>3. Executable(Registry(Settings, env), stage, id) /\ o \in Outcomes(stage, id)
    BY <1>2, <1>3, <1>4, <2>1, <2>2
  <2>4. Fails(o) \/ Hands(stage, id, o)
    BY <2>3, OutcomesAre
  <2> QED  BY <2>2, <2>4
<1>6. CASE Fails(o)
  BY <1>1, <1>2, <1>3, <1>4, <1>6 DEF Fails, RenderFails, Running
<1>7. CASE Hands(at, id, o)
  BY <1>1, <1>2, <1>3, <1>4, <1>7 DEF Hands, Succeeded, RenderHands, Running
<1> QED
  BY <1>5, <1>6, <1>7

\* The context with the stage's value in it.
DebugCtx(o) == Assign(context, at, Lineage(at, o, Own))

\* The stage of a debug run that fails, for want of a backend or in its call.
DebugFails == DebugLists("failed") /\ UNCHANGED context

\* The stage of a debug run that goes well, the crop included.
DebugHands(id, o) ==
    /\ Hands(at, id, o)
    /\ HasArea(DebugCtx(o))
    /\ context' = IF at = "detector" THEN Cropped(DebugCtx(o)) ELSE DebugCtx(o)
    /\ DebugLists("completed")
    /\ UNCHANGED fault

\* The stage of a debug run whose preview cannot be made.
DebugDraws(id, o) ==
    /\ Hands(at, id, o)
    /\ HasArea(DebugCtx(o))
    /\ context' = IF at = "detector" THEN Cropped(DebugCtx(o)) ELSE DebugCtx(o)
    /\ at \in Drawn /\ RaisesRaw /\ UNCHANGED listed

\* The stage of a debug run whose box cannot be cropped.
DebugRaises(id, o) ==
    /\ Hands(at, id, o)
    /\ ~HasArea(DebugCtx(o))
    /\ RaisesOnBox(DebugCtx(o))
    /\ UNCHANGED <<context, listed>>

\* A stage of a debug run does one of the four.
LEMMA DebugStageIs ==
    ASSUME RuntimeMade, ControlOK, DebugStage
    PROVE  /\ at \in RunStages /\ Current.kind = "debug"
           /\ UNCHANGED <<runtime, log, under, cache>>
           /\ \/ DebugFails
              \/ \E id, o : /\ Executable(Backends, at, id)
                            /\ DebugHands(id, o) \/ DebugDraws(id, o) \/ DebugRaises(id, o)
<1>1. Running("debug") /\ UNCHANGED <<runtime, log, under, cache>>
  BY DEF DebugStage
<1>2. at \in RunStages
  BY <1>1, StagesAre, RunStagesAre DEF Running, ControlOK, Steps
<1>3. PICK selection \in DebugSelections(at) :
          IF selection.actual = NoBackend
          THEN DebugLists("failed") /\ UNCHANGED <<context, warnings, fault>>
          ELSE \E o \in Outcomes(at, selection.actual) :
                  LET ctx == Assign(context, at, Lineage(at, o, Own))
                  IN /\ warnings' = Warned(at, selection)
                     /\ IF ~Succeeded(o)
                        THEN /\ DebugLists("failed")
                             /\ fault' = [stage |-> at, name |-> o.name, wire |-> o.wire]
                             /\ UNCHANGED context
                        ELSE IF HasArea(ctx)
                        THEN /\ context' = IF at = "detector" THEN Cropped(ctx) ELSE ctx
                             /\ \/ DebugLists("completed") /\ UNCHANGED fault
                                \/ at \in Drawn /\ RaisesRaw /\ UNCHANGED listed
                        ELSE RaisesOnBox(ctx) /\ UNCHANGED <<context, listed>>
  BY DEF DebugStage
<1>4. CASE selection.actual = NoBackend
  BY <1>1, <1>2, <1>3, <1>4 DEF DebugFails, Running
<1>5. CASE selection.actual # NoBackend
  <2>1. PICK id : id = selection.actual
    OBVIOUS
  <2>2. PICK o \in Outcomes(at, id) :
            IF ~Succeeded(o)
            THEN DebugLists("failed") /\ UNCHANGED context
            ELSE IF HasArea(DebugCtx(o))
            THEN /\ context' = IF at = "detector" THEN Cropped(DebugCtx(o)) ELSE DebugCtx(o)
                 /\ \/ DebugLists("completed") /\ UNCHANGED fault
                    \/ at \in Drawn /\ RaisesRaw /\ UNCHANGED listed
            ELSE RaisesOnBox(DebugCtx(o)) /\ UNCHANGED <<context, listed>>
    BY <1>3, <1>5, <2>1 DEF DebugCtx
  <2>3. PICK env : Backends = Registry(Settings, env)
    BY DEF RuntimeMade
  <2>4. PICK stage \in RunStages : stage = at
    BY <1>2
  <2>5. PICK kind \in Asked(stage) : \E variant :
            selection = SelectForDebug(Backends, stage, kind, variant)
    BY <2>4, AskedKinds
  <2>6. PICK variant : selection = SelectForDebug(Backends, stage, kind, variant)
    BY <2>5
  <2>7. Executable(Registry(Settings, env), stage, id)
    BY <1>5, <2>1, <2>3, <2>6, DebugBackend
  <2>8. Fails(o) \/ Hands(stage, id, o)
    BY <2>2, <2>4, <2>7, OutcomesAre
  <2>9. CASE Fails(o)
    BY <1>1, <1>2, <2>2, <2>9 DEF DebugFails, Fails, Running
  <2>10. CASE Hands(stage, id, o)
    <3>1. Succeeded(o)
      BY <2>10 DEF Hands, Succeeded
    <3>2. DebugHands(id, o) \/ DebugDraws(id, o) \/ DebugRaises(id, o)
      BY <2>2, <2>4, <2>10, <3>1 DEF DebugHands, DebugDraws, DebugRaises
    <3>3. Executable(Backends, at, id)
      BY <2>3, <2>4, <2>7
    <3> QED  BY <1>1, <1>2, <3>2, <3>3 DEF Running
  <2> QED  BY <2>8, <2>9, <2>10
<1> QED
  BY <1>4, <1>5

\* What follows in a render is a step, the geometry only if it is enabled.
LEMMA NextRender ==
    ASSUME at \in RunStages \cup {"crop", "save"}, at = "geometry_estimator" => Settings.geometry_enabled
    PROVE  /\ After(RenderOrder, at) \in {"crop", "save", "encode"} \cup RunStages
           /\ After(RenderOrder, at) = "geometry_estimator" => Settings.geometry_enabled
<1>1. \/ at = "detector" \/ at = "geometry_estimator" \/ at = "crop" \/ at = "segmenter"
      \/ at = "foreground_refiner" \/ at = "depth_estimator" \/ at = "normal_estimator"
      \/ at = "save" \/ at = "shadow_generator" \/ at = "composer"
  BY RunStagesAre
<1>2. at = "geometry_estimator" => After(RenderOrder, at) = "crop"
  BY AfterRender
<1>3. at = "detector" =>
         After(RenderOrder, at) = IF Settings.geometry_enabled THEN "geometry_estimator" ELSE "crop"
  BY AfterRender
<1>4. /\ at = "crop" => After(RenderOrder, at) = "segmenter"
      /\ at = "segmenter" => After(RenderOrder, at) = "foreground_refiner"
      /\ at = "foreground_refiner" => After(RenderOrder, at) = "depth_estimator"
      /\ at = "depth_estimator" => After(RenderOrder, at) = "normal_estimator"
      /\ at = "normal_estimator" => After(RenderOrder, at) = "save"
      /\ at = "save" => After(RenderOrder, at) = "shadow_generator"
      /\ at = "shadow_generator" => After(RenderOrder, at) = "composer"
      /\ at = "composer" => After(RenderOrder, at) = "encode"
  BY AfterRender
<1>5. \A x \in {"crop", "segmenter", "foreground_refiner", "depth_estimator", "normal_estimator",
                "save", "shadow_generator", "composer", "encode"} :
          x \in {"crop", "save", "encode"} \cup RunStages /\ x # "geometry_estimator"
  BY RunStagesAre
<1>6. "geometry_estimator" \in RunStages
  BY RunStagesAre
<1> HIDE DEF After
<1> QED
  BY <1>1, <1>2, <1>3, <1>4, <1>5, <1>6

\* What follows in a debug run is a stage, and not the geometry again.
LEMMA NextDebug ==
    ASSUME at \in RunStages, at # "composer", at = "geometry_estimator" => Settings.geometry_enabled
    PROVE  /\ After(DebugOrder, at) \in RunStages
           /\ After(DebugOrder, at) # "geometry_estimator"
<1>1. \/ at = "detector" \/ at = "geometry_estimator" \/ at = "segmenter"
      \/ at = "foreground_refiner" \/ at = "depth_estimator" \/ at = "normal_estimator"
      \/ at = "shadow_generator"
  BY RunStagesAre
<1>2. at = "geometry_estimator" => After(DebugOrder, at) = "detector"
  BY AfterDebug
<1>3. /\ at = "detector" => After(DebugOrder, at) = "segmenter"
      /\ at = "segmenter" => After(DebugOrder, at) = "foreground_refiner"
      /\ at = "foreground_refiner" => After(DebugOrder, at) = "depth_estimator"
      /\ at = "depth_estimator" => After(DebugOrder, at) = "normal_estimator"
      /\ at = "normal_estimator" => After(DebugOrder, at) = "shadow_generator"
      /\ at = "shadow_generator" => After(DebugOrder, at) = "composer"
  BY AfterDebug
<1>4. \A x \in {"detector", "segmenter", "foreground_refiner", "depth_estimator", "normal_estimator",
                "shadow_generator", "composer"} :
          x \in RunStages /\ x # "geometry_estimator"
  BY RunStagesAre
<1> HIDE DEF After
<1> QED
  BY <1>1, <1>2, <1>3, <1>4

\* Before the shadow stage a render does not get beyond it.
LEMMA NotYetShadow ==
    ASSUME ControlOK, at \in RunStages \ {"shadow_generator", "composer"}
    PROVE  After(RenderOrder, at) \in {"geometry_estimator", "crop", "foreground_refiner",
                                       "depth_estimator", "normal_estimator", "save"}
<1>1. at = "geometry_estimator" => Settings.geometry_enabled
  BY DEF ControlOK
<1> QED
  BY <1>1, AfterRender, RunStagesAre

\* ControlOK holds at first.
LEMMA ControlInit == PipelineInit => ControlOK
BY DEF PipelineInit, ControlOK, Steps

\* It holds when a request ends, if only a render completes.
LEMMA ControlEnds ==
    ASSUME ControlOK, at # "idle", UNCHANGED <<runtime, log, under>>, at' = "idle",
           result' = "completed" => Current.kind = "render"
    PROVE  ControlOK'
<1>1. Current' = Current /\ Settings' = Settings /\ Own' = Own
  BY SameRun
<1> HIDE DEF Runtimes, Own, Current, Settings
<1> QED
  BY <1>1 DEF ControlOK, Steps

\* It holds when a request goes on to a step of its pipeline.
LEMMA ControlGoesOn ==
    ASSUME ControlOK, at # "idle", UNCHANGED <<runtime, log, under, result, fault>>,
           at' \in Steps \ {"idle"},
           at' \in {"lookup", "crop", "save", "encode"} => Current.kind = "render",
           at' = "geometry_estimator" => Settings.geometry_enabled
    PROVE  ControlOK'
<1>1. Current' = Current /\ Settings' = Settings /\ Own' = Own
  BY SameRun
<1> HIDE DEF Runtimes, Own, Current, Settings
<1> QED
  BY <1>1 DEF ControlOK

\* A debug run that lists a stage ends or goes on to the next.
LEMMA DebugListsIs ==
    ASSUME ControlOK, at \in RunStages, NEW status, DebugLists(status)
    PROVE  \/ at' = "idle" /\ result' = "debug"
           \/ /\ at # "composer" /\ at' = After(DebugOrder, at) /\ result' = result
              /\ status # "failed" /\ at # Current.stop
BY DEF DebugLists, EndsDebug, Ends

\* Every step keeps ControlOK.
LEMMA ControlNext ==
    ASSUME RuntimeMade, ControlOK, [PipelineNext]_pipelineVars
    PROVE  ControlOK'
<1>1. CASE Arrive
  <2>1. PICK request \in Requests : log' = Append(log, request)
    BY <1>1 DEF Arrive
  <2>2. log' \in Seq(Requests) /\ log' # <<>> /\ Len(log') = Len(log) + 1 /\ Len(log) \in Nat
    BY <2>1 DEF ControlOK
  <2>3. /\ under' \in Seq(Runtimes) /\ Len(under') = Len(log')
        /\ under'[Len(log')] = runtime /\ runtime' = runtime /\ runtime \in Runtimes
    <3> HIDE DEF Runtimes
    <3> QED  BY <1>1, <2>2 DEF ControlOK, Arrive
  <2> HIDE DEF Runtimes
  <2> QED  BY <1>1, <2>2, <2>3 DEF ControlOK, Arrive, Steps, NoFault, Own
<1>2. CASE DecodeFails
  BY <1>2, ControlEnds DEF DecodeFails, Ends
<1>3. CASE Decode
  <2>1. UNCHANGED <<runtime, log, under>> /\ at = "decode"
    BY <1>3 DEF Decode
  <2>2. \/ at' = "idle" /\ result' \in {"debug", "raw"}
        \/ at' = "lookup" /\ result' = result /\ Current.kind = "render" /\ fault' = fault
        \/ at' = Head(DebugOrder) /\ result' = result /\ fault' = fault
    BY <1>3, RaisesRawIs DEF Decode, Ends
  <2>3. Head(DebugOrder) = IF Settings.geometry_enabled THEN "geometry_estimator" ELSE "detector"
    BY AfterDebug
  <2>4. /\ "lookup" \in Steps \ {"idle"} /\ "geometry_estimator" \in Steps \ {"idle"}
        /\ "detector" \in Steps \ {"idle"}
    BY RunStagesAre DEF Steps
  <2>5. CASE at' = "idle"
    BY <2>1, <2>2, <2>5, <2>3, ControlEnds
  <2>6. CASE at' = "lookup" /\ result' = result /\ Current.kind = "render" /\ fault' = fault
    BY <2>1, <2>4, <2>6, ControlGoesOn
  <2>7. CASE at' = Head(DebugOrder) /\ result' = result /\ fault' = fault
    BY <2>1, <2>3, <2>4, <2>7, ControlGoesOn
  <2> QED  BY <2>2, <2>5, <2>6, <2>7
<1>4. CASE Lookup
  <2>1. UNCHANGED <<runtime, log, under>> /\ at = "lookup"
    BY <1>4 DEF Lookup
  <2>2. \/ at' \in {"detector", "shadow_generator"} /\ UNCHANGED <<result, fault>>
        \/ at' = "idle" /\ result' = "raw"
    BY <1>4, RaisesRawIs DEF Lookup
  <2>3. "detector" \in Steps \ {"idle"} /\ "shadow_generator" \in Steps \ {"idle"}
    BY RunStagesAre DEF Steps
  <2> QED  BY <2>1, <2>2, <2>3, ControlGoesOn, ControlEnds
<1>5. CASE RenderStage
  <2>1. /\ at \in RunStages /\ Current.kind = "render"
        /\ UNCHANGED <<runtime, log, under>>
        /\ \E id, o : RenderHands(id, o) \/ RenderFails(o)
    BY <1>5, RenderStageIs
  <2>2. PICK id, o : RenderHands(id, o) \/ RenderFails(o)
    BY <2>1
  <2>3. at # "idle" /\ (at = "geometry_estimator" => Settings.geometry_enabled)
    BY <2>1, RunStagesAre DEF ControlOK
  <2>4. CASE RenderHands(id, o)
    <3>1. at' = After(RenderOrder, at) /\ UNCHANGED <<result, fault>>
      BY <2>4 DEF RenderHands
    <3>2. /\ at' \in {"crop", "save", "encode"} \cup RunStages
          /\ at' = "geometry_estimator" => Settings.geometry_enabled
      BY <2>1, <2>3, <3>1, NextRender
    <3>3. at' \in Steps \ {"idle"}
      BY <3>2, RunStagesAre DEF Steps
    <3> QED  BY <2>1, <2>3, <3>1, <3>2, <3>3, ControlGoesOn
  <2>5. CASE RenderFails(o)
    BY <2>1, <2>3, <2>5, ControlEnds DEF RenderFails, EndsWith, Ends
  <2> QED  BY <2>2, <2>4, <2>5
<1>6. CASE Crop
  <2>1. UNCHANGED <<runtime, log, under>> /\ at = "crop" /\ Current.kind = "render"
    BY <1>6 DEF Crop, ControlOK
  <2>2. \/ at' = After(RenderOrder, at) /\ UNCHANGED <<result, fault>>
        \/ at' = "idle"
    BY <1>6 DEF Crop, RaisesOnBox, EndsWith, Ends
  <2>3. After(RenderOrder, "crop") = "segmenter" /\ "segmenter" \in Steps \ {"idle"}
    BY AfterRender, RunStagesAre DEF Steps
  <2>4. CASE at' = "idle"
    BY <2>1, <2>4, ControlEnds
  <2>5. CASE at' = "segmenter" /\ UNCHANGED <<result, fault>>
    BY <2>1, <2>3, <2>5, ControlGoesOn
  <2> QED  BY <2>1, <2>2, <2>3, <2>4, <2>5
<1>7. CASE Save
  <2>1. UNCHANGED <<runtime, log, under>> /\ at = "save"
    BY <1>7 DEF Save
  <2>2. \/ at' = After(RenderOrder, at) /\ UNCHANGED <<result, fault>>
        \/ at' = "idle" /\ result' = "raw"
    BY <1>7, RaisesRawIs DEF Save
  <2>3. After(RenderOrder, "save") = "shadow_generator" /\ "shadow_generator" \in Steps \ {"idle"}
    BY AfterRender, RunStagesAre DEF Steps
  <2> QED  BY <2>1, <2>2, <2>3, ControlGoesOn, ControlEnds
<1>8. CASE Encode
  <2>1. UNCHANGED <<runtime, log, under>> /\ at = "encode" /\ at' = "idle" /\ Current.kind = "render"
    BY <1>8, RaisesRawIs DEF Encode, EndsWith, Ends, ControlOK
  <2> QED  BY <2>1, ControlEnds
<1>9. CASE DebugStage
  <2>1. /\ at \in RunStages /\ Current.kind = "debug"
        /\ UNCHANGED <<runtime, log, under>>
        /\ DebugFails \/ \E id, o : DebugHands(id, o) \/ DebugDraws(id, o) \/ DebugRaises(id, o)
    BY <1>9, DebugStageIs
  <2>2. at # "idle" /\ (at = "geometry_estimator" => Settings.geometry_enabled)
    BY <2>1, RunStagesAre DEF ControlOK
  <2>3. CASE DebugFails
    BY <2>1, <2>2, <2>3, DebugListsIs, ControlEnds DEF DebugFails
  <2>4. ASSUME NEW id, NEW o, DebugHands(id, o) PROVE ControlOK'
    <3>1. DebugLists("completed") /\ UNCHANGED fault
      BY <2>4 DEF DebugHands
    <3>2. CASE at' = "idle" /\ result' = "debug"
      BY <2>1, <2>2, <3>2, ControlEnds
    <3>3. CASE at # "composer" /\ at' = After(DebugOrder, at) /\ result' = result
      <4>1. at' \in RunStages /\ at' # "geometry_estimator"
        BY <2>1, <2>2, <3>3, NextDebug
      <4>2. at' \in Steps \ {"idle"} /\ at' \notin {"lookup", "crop", "save", "encode"}
        BY <4>1, RunStagesAre DEF Steps
      <4> QED  BY <2>1, <2>2, <3>1, <3>3, <4>1, <4>2, ControlGoesOn
    <3> QED  BY <2>1, <3>1, <3>2, <3>3, DebugListsIs
  <2>5. ASSUME NEW id, NEW o, DebugRaises(id, o) PROVE ControlOK'
    BY <2>1, <2>2, <2>5, ControlEnds DEF DebugRaises, RaisesOnBox, EndsWith, Ends
  <2>6. ASSUME NEW id, NEW o, DebugDraws(id, o) PROVE ControlOK'
    BY <2>1, <2>2, <2>6, ControlEnds, RaisesRawIs DEF DebugDraws
  <2> QED  BY <2>1, <2>3, <2>4, <2>5, <2>6
<1>10. CASE UNCHANGED pipelineVars
  BY <1>10, SameRun DEF pipelineVars, ControlOK
<1>11. CASE Restart
  <2> HIDE DEF Runtimes
  <2> QED  BY <1>11 DEF Restart, ControlOK, Steps
<1> QED
  BY <1>1, <1>2, <1>3, <1>4, <1>5, <1>6, <1>7, <1>8, <1>9, <1>10, <1>11 DEF PipelineNext

-----------------------------------------------------------------------------
(* Whose work is in a picture.                                             *)

\* What a part of a lineage may be of.
Marks == RunStages \cup {"source", "disabled", "ZeroDivisionError", "ValueError"}

\* The cache key of the n-th request, in the runtime it arrived at.
KeyOf(n) ==
    <<log[n].image, Signature(under[n]), log[n].padding, under[n].settings.working_square>>

\* The parts that renders of one cache key, and no other thread, may have.
PartsOf(key) == {p \in Marks \X Nat : p[2] \in 1..Len(log) /\ KeyOf(p[2]) = key}

\* Those of the current request's key.
OwnParts == PartsOf(KeyOf(Own))

\* All parts of all values are of renders of the current request's key. A hit
\* brings in the parts of an earlier render, so the cache has to be as good.
LineageOK == context \in [Values -> SUBSET OwnParts]

\* The parts of a snapshot are of renders of its key.
CacheOK == \A x \in cache : \A v \in Snapshotted : x.values[v] \subseteq PartsOf(x.key)

\* The parts depend on the requests and the runtimes they arrived at alone.
LEMMA SameParts ==
    ASSUME UNCHANGED <<log, under>>
    PROVE  /\ \A key : PartsOf(key)' = PartsOf(key)
           /\ OwnParts' = OwnParts
<1>1. \A key : PartsOf(key)' = PartsOf(key)
  BY DEF PartsOf, KeyOf, Signature
<1>2. OwnParts' = OwnParts
  BY DEF OwnParts, PartsOf, KeyOf, Signature, Own
<1> QED
  BY <1>1, <1>2

\* While a request runs, its key is the one the code makes.
LEMMA KeyIsMade ==
    ASSUME ControlOK, at # "idle" \/ result # "none"
    PROVE  KeyOf(Own) = MakeKey(Current)
<1>1. under[Own] = runtime /\ Current = log[Own]
  BY DEF ControlOK, Current, Own
<1> QED
  BY <1>1 DEF KeyOf, MakeKey, Settings

\* A mark of the current request is one of its parts.
LEMMA OwnPart ==
    ASSUME ControlOK, log # <<>>, NEW mark \in Marks
    PROVE  <<mark, Own>> \in OwnParts
<1>1. Own \in Nat /\ Own \in 1..Len(log)
  BY CurrentIs
<1>2. <<mark, Own>>[2] = Own /\ <<mark, Own>> \in Marks \X Nat
  BY <1>1
<1> HIDE DEF Own
<1> QED
  BY <1>1, <1>2 DEF OwnParts, PartsOf

\* What stages read and write are values of the context.
LEMMA InputsAreValues ==
    ASSUME NEW stage \in RunStages
    PROVE  Inputs(stage) \subseteq Values /\ Outputs(stage) \subseteq Values
BY RunStagesAre DEF Inputs, Outputs, Values

\* A stage adds its own mark to the parts of its inputs.
LEMMA LineageIsOwn ==
    ASSUME ControlOK, LineageOK, at \in RunStages, NEW id, NEW o, Hands(at, id, o)
    PROVE  Lineage(at, o, Own) \subseteq OwnParts
<1>1. log # <<>>
  BY RunStagesAre DEF ControlOK
<1>2. at \in Marks /\ "ZeroDivisionError" \in Marks
  BY DEF Marks
<1>3. <<at, Own>> \in OwnParts /\ <<"ZeroDivisionError", Own>> \in OwnParts
  BY <1>1, <1>2, OwnPart
<1>4. UNION {context[v] : v \in Inputs(at)} \subseteq OwnParts
  <2>1. \A v \in Inputs(at) : context[v] \subseteq OwnParts
    BY InputsAreValues DEF LineageOK
  <2> HIDE DEF OwnParts
  <2> QED  BY <2>1
<1>5. o.name = "mine" /\ o.box \in {"good", "ZeroDivisionError"}
  BY DEF Hands
<1> QED
  BY <1>3, <1>4, <1>5 DEF Lineage

\* Assigning a lineage keeps the context's parts in a set.
LEMMA AssignIsOwn ==
    ASSUME NEW P, NEW ctx \in [Values -> SUBSET P], NEW stage \in RunStages, NEW L \in SUBSET P
    PROVE  Assign(ctx, stage, L) \in [Values -> SUBSET P]
BY DEF Assign

\* So does cropping.
LEMMA CroppedIsOwn ==
    ASSUME NEW P, NEW ctx \in [Values -> SUBSET P]
    PROVE  Cropped(ctx) \in [Values -> SUBSET P]
<1>1. "source" \in Values /\ "detection" \in Values /\ "crop" \in Values
  BY DEF Values
<1>2. ctx["source"] \cup ctx["detection"] \in SUBSET P
  BY <1>1
<1> QED
  BY <1>2 DEF Cropped

\* LineageOK and CacheOK hold at first.
LEMMA LineageInit == PipelineInit => LineageOK /\ CacheOK
<1> SUFFICES ASSUME PipelineInit PROVE LineageOK /\ CacheOK
  OBVIOUS
<1>1. context = EmptyContext /\ cache = {}
  BY DEF PipelineInit
<1> QED
  BY <1>1 DEF EmptyContext, LineageOK, CacheOK

\* They hold as long as nothing is made or saved.
LEMMA LineageKept ==
    ASSUME LineageOK, CacheOK, UNCHANGED <<log, under, cache, context>>
    PROVE  LineageOK' /\ CacheOK'
<1>1. \A key : PartsOf(key)' = PartsOf(key)
  BY SameParts
<1>2. OwnParts' = OwnParts
  BY SameParts
<1> HIDE DEF OwnParts, PartsOf
<1>3. LineageOK'
  BY <1>2 DEF LineageOK
<1>4. CacheOK'
  BY <1>1 DEF CacheOK
<1> QED
  BY <1>3, <1>4

\* They hold when the new context has own parts only.
LEMMA LineageGrows ==
    ASSUME LineageOK, CacheOK, UNCHANGED <<log, under, cache>>,
           context' \in [Values -> SUBSET OwnParts]
    PROVE  LineageOK' /\ CacheOK'
<1>1. \A key : PartsOf(key)' = PartsOf(key)
  BY SameParts
<1>2. OwnParts' = OwnParts
  BY SameParts
<1> HIDE DEF OwnParts, PartsOf
<1>3. LineageOK'
  BY <1>2 DEF LineageOK
<1>4. CacheOK'
  BY <1>1 DEF CacheOK
<1> QED
  BY <1>3, <1>4

\* Every step keeps LineageOK and CacheOK.
LEMMA LineageNext ==
    ASSUME RuntimeMade, ControlOK, LineageOK, CacheOK, [PipelineNext]_pipelineVars
    PROVE  LineageOK' /\ CacheOK'
<1>1. CASE Arrive
  <2>1. PICK request \in Requests : log' = Append(log, request)
    BY <1>1 DEF Arrive
  <2>2. /\ Len(log) \in Nat /\ Len(log') = Len(log) + 1
        /\ \A i \in 1..Len(log) : log'[i] = log[i]
    BY <2>1 DEF ControlOK
  <2>2u. \A i \in 1..Len(log) : under'[i] = under[i]
    <3> HIDE DEF Runtimes
    <3> QED  BY <1>1 DEF Arrive, ControlOK
  <2>3. \A key : PartsOf(key) \subseteq PartsOf(key)'
    BY <2>2, <2>2u DEF PartsOf, KeyOf, Signature
  <2>4. context' = EmptyContext /\ cache' = cache
    BY <1>1 DEF Arrive
  <2>5. LineageOK'
    BY <2>4 DEF LineageOK, EmptyContext
  <2>6. CacheOK'
    <3> HIDE DEF PartsOf
    <3> QED  BY <2>3, <2>4 DEF CacheOK
  <2> QED  BY <2>5, <2>6
<1>2. CASE DecodeFails
  BY <1>2, LineageKept DEF DecodeFails
<1>3. CASE Decode
  <2>1. at = "decode" /\ UNCHANGED <<log, under, cache>>
        /\ context' = [context EXCEPT !["source"] = {<<"source", Own>>}]
    BY <1>3 DEF Decode
  <2>2. <<"source", Own>> \in OwnParts
    BY <2>1, OwnPart DEF ControlOK, Marks
  <2>3. context' \in [Values -> SUBSET OwnParts]
    BY <2>1, <2>2 DEF LineageOK
  <2> QED  BY <2>1, <2>3, LineageGrows
<1>4. CASE Lookup
  <2> DEFINE hits == {x \in cache : x.key = MakeKey(Current)}
             hit == CHOOSE x \in hits : TRUE
  <2>1. UNCHANGED <<log, under, cache>>
    BY <1>4 DEF Lookup
  <2>2. CASE context' = context
    BY <2>1, <2>2, LineageKept
  <2>3. CASE context' # context
    <3>1. /\ hits # {}
          /\ context' = [v \in Values |-> IF v \in Snapshotted THEN hit.values[v] ELSE context[v]]
      BY <1>4, <2>3 DEF Lookup
    <3>2. hit \in cache /\ hit.key = MakeKey(Current)
      BY <3>1
    <3>2k. KeyOf(Own) = MakeKey(Current)
      BY <1>4, KeyIsMade DEF Lookup
    <3> HIDE DEF hit, hits
    <3>3. \A v \in Snapshotted : hit.values[v] \subseteq OwnParts
      BY <3>2, <3>2k DEF CacheOK, OwnParts
    <3>4. context' \in [Values -> SUBSET OwnParts]
      BY <3>1, <3>3 DEF LineageOK
    <3> QED  BY <2>1, <3>4, LineageGrows
  <2> QED  BY <2>2, <2>3
<1>5. CASE RenderStage
  <2>1. PICK id, o : RenderHands(id, o) \/ RenderFails(o)
    BY <1>5, RenderStageIs
  <2>2. at \in RunStages /\ UNCHANGED <<log, under, cache>>
    BY <1>5, RenderStageIs
  <2>3. CASE RenderHands(id, o)
    <3>1. Hands(at, id, o) /\ context' = Assign(context, at, Lineage(at, o, Own))
      BY <2>3 DEF RenderHands
    <3>2. context' \in [Values -> SUBSET OwnParts]
      BY <2>2, <3>1, LineageIsOwn, AssignIsOwn DEF LineageOK
    <3> QED  BY <2>2, <3>2, LineageGrows
  <2>4. CASE RenderFails(o)
    BY <2>2, <2>4, LineageKept DEF RenderFails
  <2> QED  BY <2>1, <2>3, <2>4
<1>6. CASE Crop
  <2> DEFINE ctx == IF Settings.geometry_enabled THEN context
                    ELSE [context EXCEPT !["geometry"] = {<<"disabled", Own>>}]
  <2>1. at = "crop" /\ UNCHANGED <<log, under, cache>> /\ context' \in {context, Cropped(ctx)}
    BY <1>6 DEF Crop
  <2>2. <<"disabled", Own>> \in OwnParts
    BY <2>1, OwnPart DEF ControlOK, Marks
  <2>3. ctx \in [Values -> SUBSET OwnParts]
    BY <2>2 DEF LineageOK
  <2> HIDE DEF ctx
  <2>4. Cropped(ctx) \in [Values -> SUBSET OwnParts]
    BY <2>3, CroppedIsOwn
  <2>5. context' \in [Values -> SUBSET OwnParts]
    BY <2>1, <2>4 DEF LineageOK
  <2> QED  BY <2>1, <2>5, LineageGrows
<1>7. CASE Save
  <2> DEFINE saved == [key |-> MakeKey(Current), values |-> [v \in Snapshotted |-> context[v]]]
  <2>1. UNCHANGED <<log, under, context>> /\ (cache' = cache \/ cache' = cache \cup {saved})
    BY <1>7 DEF Save
  <2>2. \A key : PartsOf(key)' = PartsOf(key)
    BY <2>1, SameParts
  <2>3. OwnParts' = OwnParts
    BY <2>1, SameParts
  <2>4. saved.key = MakeKey(Current) /\ \A v \in Snapshotted : saved.values[v] = context[v]
    OBVIOUS
  <2>5. \A v \in Snapshotted : saved.values[v] \subseteq PartsOf(saved.key)
    <3>1. Snapshotted \subseteq Values
      BY DEF Snapshotted, Values
    <3>2. KeyOf(Own) = MakeKey(Current)
      BY <1>7, KeyIsMade DEF Save
    <3> HIDE DEF saved
    <3> QED  BY <2>4, <3>1, <3>2 DEF LineageOK, OwnParts
  <2> HIDE DEF saved, OwnParts, PartsOf
  <2>6. LineageOK'
    BY <2>1, <2>3 DEF LineageOK
  <2>7. CacheOK'
    BY <2>1, <2>2, <2>5 DEF CacheOK
  <2> QED  BY <2>6, <2>7
<1>8. CASE Encode
  BY <1>8, LineageKept DEF Encode
<1>11. CASE Restart
  <2>1. OwnParts' = OwnParts /\ \A key : PartsOf(key)' = PartsOf(key)
    BY <1>11, SameParts DEF Restart
  <2>2. context' = EmptyContext /\ cache' = cache
    BY <1>11 DEF Restart
  <2> HIDE DEF OwnParts, PartsOf
  <2>3. LineageOK'
    BY <2>2 DEF LineageOK, EmptyContext
  <2>4. CacheOK'
    BY <2>1, <2>2 DEF CacheOK
  <2> QED  BY <2>3, <2>4
<1>9. CASE DebugStage
  <2>1. at \in RunStages /\ UNCHANGED <<log, under, cache>>
    BY <1>9, DebugStageIs
  <2>2. DebugFails \/ \E id, o : DebugHands(id, o) \/ DebugDraws(id, o) \/ DebugRaises(id, o)
    BY <1>9, DebugStageIs
  <2>3. CASE DebugFails
    BY <2>1, <2>3, LineageKept DEF DebugFails
  <2>4. ASSUME NEW id, NEW o, DebugHands(id, o) \/ DebugDraws(id, o) PROVE LineageOK' /\ CacheOK'
    <3>1. /\ Hands(at, id, o)
          /\ context' = IF at = "detector" THEN Cropped(DebugCtx(o)) ELSE DebugCtx(o)
      BY <2>4 DEF DebugHands, DebugDraws
    <3>2. DebugCtx(o) \in [Values -> SUBSET OwnParts]
      BY <2>1, <3>1, LineageIsOwn, AssignIsOwn DEF LineageOK, DebugCtx
    <3>3. Cropped(DebugCtx(o)) \in [Values -> SUBSET OwnParts]
      BY <3>2, CroppedIsOwn
    <3> QED  BY <2>1, <3>1, <3>2, <3>3, LineageGrows
  <2>5. ASSUME NEW id, NEW o, DebugRaises(id, o) PROVE LineageOK' /\ CacheOK'
    BY <2>1, <2>5, LineageKept DEF DebugRaises
  <2> QED  BY <2>2, <2>3, <2>4, <2>5
<1>10. CASE UNCHANGED pipelineVars
  BY <1>10, LineageKept DEF pipelineVars
<1> QED
  BY <1>1, <1>2, <1>3, <1>4, <1>5, <1>6, <1>7, <1>8, <1>9, <1>10, <1>11 DEF PipelineNext

\* No value has a part of another thread's render.
LEMMA OwnSampleHolds ==
    ASSUME LineageOK PROVE OwnSample
<1> SUFFICES ASSUME NEW v \in Values, NEW p \in context[v] PROVE p[2] # 0
  BY DEF OwnSample
<1>1. p \in OwnParts
  BY DEF LineageOK
<1>2. p[2] \in 1..Len(log)
  BY <1>1 DEF OwnParts, PartsOf
<1> QED
  BY <1>2

-----------------------------------------------------------------------------
(* Which stages have made a value.                                         *)

\* The stages, and other marks, in a lineage.
Names(S) == {p[1] : p \in S}

\* Those of each value.
NamesOf(ctx) == [v \in Values |-> Names(ctx[v])]

\* The spots in a run from which on the composition, the shadow, ... are there.
AfterComposer == {"encode", "answered"}
AfterShadow == {"composer"} \cup AfterComposer
AfterNormals == {"save", "shadow_generator"} \cup AfterShadow
AfterDepth == {"normal_estimator"} \cup AfterNormals
AfterRefiner == {"depth_estimator"} \cup AfterDepth
AfterSegmenter == {"foreground_refiner"} \cup AfterRefiner
AfterCrop == {"segmenter"} \cup AfterSegmenter

\* Where the run is; a completed render is one step further than its end.
Spot == IF Answered200 THEN "answered" ELSE at

\* The stages that make each value.
ByDetector == {"source", "detector"}
BySegmenter == ByDetector \cup {"segmenter"}
ByRefiner == BySegmenter \cup {"foreground_refiner"}
ByDepth == ByRefiner \cup {"depth_estimator"}
ByNormals == ByDepth \cup {"normal_estimator"}
ByShadow == ByNormals \cup {"shadow_generator"}
ByComposer == ByShadow \cup {"composer"}

\* Which stages have made what is in the context, at each spot of a run: the
\* cutout is first the segmenter's and then the refiner's, and a detection may
\* keep a bad box until the crop.
MadeBy(spot, kind, geometry, n) ==
    /\ spot \notin {"idle", "decode"} => n["source"] = {"source"}
    /\ (spot = "decode" \/ (spot = "geometry_estimator" /\ kind = "debug")) => n["detection"] = {}
    /\ (spot = "crop" \/ (spot = "geometry_estimator" /\ kind = "render"))
         => n["detection"] \ {"ZeroDivisionError"} = ByDetector
    /\ (spot = "crop" /\ geometry) => n["geometry"] # {}
    /\ (kind = "render" /\ spot \in {"segmenter", "foreground_refiner", "depth_estimator",
                                     "normal_estimator", "save"}) => n["geometry"] # {}
    /\ spot = "segmenter" => n["crop"] = ByDetector
    /\ spot = "foreground_refiner" => n["cutout"] = BySegmenter
    /\ spot \in AfterCrop => n["detection"] = ByDetector
    /\ spot \in AfterSegmenter => n["segmentation"] = BySegmenter
    /\ spot \in AfterRefiner => n["cutout"] = ByRefiner /\ n["refinement"] = ByRefiner
    /\ spot \in AfterDepth => n["depth"] = ByDepth
    /\ spot \in AfterNormals => n["normals"] = ByNormals
    /\ spot \in AfterShadow => n["shadow"] = ByShadow
    /\ spot \in AfterComposer => n["composition"] = ByComposer

\* A snapshot has everything up to the normals, made by the stages of a miss.
SnapshotWhole(values) ==
    /\ Names(values["detection"]) = ByDetector
    /\ Names(values["segmentation"]) = BySegmenter
    /\ Names(values["cutout"]) = ByRefiner /\ Names(values["refinement"]) = ByRefiner
    /\ Names(values["depth"]) = ByDepth
    /\ Names(values["normals"]) = ByNormals

\* The context is as MadeBy says. A hit jumps to the shadow stage, so the
\* snapshots have to be whole.
MadeInOrder ==
    (at # "idle" \/ Answered200) =>
        MadeBy(Spot, Current.kind, Settings.geometry_enabled, NamesOf(context))

\* All snapshots are whole.
CacheWhole == \A x \in cache : SnapshotWhole(x.values)

\* The names in a union and in a single part.
LEMMA NamesAre ==
    /\ Names({}) = {}
    /\ \A a, n : Names({<<a, n>>}) = {a}
    /\ \A S, T : Names(S \cup T) = Names(S) \cup Names(T)
    /\ \A S : Names(S) = {} <=> S = {}
    /\ \A S, name : name \in Names(S) <=> \E p \in S : p[1] = name
<1>1. Names({}) = {}
  BY DEF Names
<1>2. \A a, n : Names({<<a, n>>}) = {a}
  BY DEF Names
<1>3. \A S, T : Names(S \cup T) = Names(S) \cup Names(T)
  BY DEF Names
<1>4. \A S : Names(S) = {} <=> S = {}
  BY DEF Names
<1>5. \A S, name : name \in Names(S) <=> \E p \in S : p[1] = name
  BY DEF Names
<1> QED
  BY <1>1, <1>2, <1>3, <1>4, <1>5

\* The names in what a stage reads.
InputNames(stage, n) ==
    CASE stage \in {"detector", "geometry_estimator"} -> n["source"]
      [] stage = "segmenter" -> n["crop"]
      [] stage = "foreground_refiner" -> n["segmentation"] \cup n["cutout"]
      [] stage = "depth_estimator" -> n["cutout"] \cup n["segmentation"]
      [] stage = "normal_estimator" -> n["cutout"] \cup n["depth"]
      [] stage = "shadow_generator" ->
             n["cutout"] \cup n["segmentation"] \cup n["depth"] \cup n["normals"]
      [] stage = "composer" -> n["cutout"] \cup n["shadow"]

\* They are those of the values it reads.
LEMMA InputNamesAre ==
    ASSUME NEW stage \in RunStages
    PROVE  Names(UNION {context[v] : v \in Inputs(stage)}) = InputNames(stage, NamesOf(context))
<1> DEFINE n == NamesOf(context)
<1>1. \A v \in Values : n[v] = Names(context[v])
  BY DEF NamesOf
<1>2. /\ "source" \in Values /\ "crop" \in Values /\ "segmentation" \in Values /\ "cutout" \in Values
      /\ "depth" \in Values /\ "normals" \in Values /\ "shadow" \in Values
  BY DEF Values
<1>3. \A a : UNION {context[v] : v \in {a}} = context[a]
  OBVIOUS
<1>4. \A a, b : UNION {context[v] : v \in {a, b}} = context[a] \cup context[b]
  OBVIOUS
<1>5. \A a, b, c, d : UNION {context[v] : v \in {a, b, c, d}}
                          = context[a] \cup context[b] \cup context[c] \cup context[d]
  OBVIOUS
<1>6. \A S, T : Names(S \cup T) = Names(S) \cup Names(T)
  BY NamesAre
<1> HIDE DEF n
<1>7. CASE stage \in {"detector", "geometry_estimator"}
  <2>1. UNION {context[v] : v \in Inputs(stage)} = context["source"]
    BY <1>3, <1>7 DEF Inputs
  <2> QED  BY <1>1, <1>2, <1>7, <2>1 DEF InputNames, n
<1>8. CASE stage = "segmenter"
  <2>1. UNION {context[v] : v \in Inputs(stage)} = context["crop"]
    BY <1>3, <1>8 DEF Inputs
  <2> QED  BY <1>1, <1>2, <1>8, <2>1 DEF InputNames, n
<1>9. CASE stage = "foreground_refiner"
  <2>1. UNION {context[v] : v \in Inputs(stage)} = context["segmentation"] \cup context["cutout"]
    BY <1>4, <1>9 DEF Inputs
  <2> QED  BY <1>1, <1>2, <1>6, <1>9, <2>1 DEF InputNames, n
<1>10. CASE stage = "depth_estimator"
  <2>1. UNION {context[v] : v \in Inputs(stage)} = context["cutout"] \cup context["segmentation"]
    BY <1>4, <1>10 DEF Inputs
  <2> QED  BY <1>1, <1>2, <1>6, <1>10, <2>1 DEF InputNames, n
<1>11. CASE stage = "normal_estimator"
  <2>1. UNION {context[v] : v \in Inputs(stage)} = context["cutout"] \cup context["depth"]
    BY <1>4, <1>11 DEF Inputs
  <2> QED  BY <1>1, <1>2, <1>6, <1>11, <2>1 DEF InputNames, n
<1>12. CASE stage = "shadow_generator"
  <2>1. UNION {context[v] : v \in Inputs(stage)}
            = context["cutout"] \cup context["segmentation"] \cup context["depth"] \cup context["normals"]
    BY <1>5, <1>12 DEF Inputs
  <2>2. PICK a, b, c, d : /\ a = context["cutout"] /\ b = context["segmentation"]
                          /\ c = context["depth"] /\ d = context["normals"]
    OBVIOUS
  <2>3. Names(((a \cup b) \cup c) \cup d) = Names((a \cup b) \cup c) \cup Names(d)
    BY <1>6
  <2>4. Names((a \cup b) \cup c) = Names(a \cup b) \cup Names(c)
    BY <1>6
  <2>5. Names(a \cup b) = Names(a) \cup Names(b)
    BY <1>6
  <2>6. Names(UNION {context[v] : v \in Inputs(stage)})
            = Names(context["cutout"]) \cup Names(context["segmentation"])
                  \cup Names(context["depth"]) \cup Names(context["normals"])
    BY <2>1, <2>2, <2>3, <2>4, <2>5
  <2> QED  BY <1>1, <1>2, <1>12, <2>6 DEF InputNames, n
<1>13. CASE stage = "composer"
  <2>1. UNION {context[v] : v \in Inputs(stage)} = context["cutout"] \cup context["shadow"]
    BY <1>4, <1>13 DEF Inputs
  <2> QED  BY <1>1, <1>2, <1>6, <1>13, <2>1 DEF InputNames, n
<1> QED
  BY <1>7, <1>8, <1>9, <1>10, <1>11, <1>12, <1>13, RunStagesAre

\* The names in what a stage makes: its own, its inputs', and of a bad box.
LEMMA LineageNames ==
    ASSUME at \in RunStages, NEW id, NEW o, Hands(at, id, o)
    PROVE  LET L == Names(Lineage(at, o, Own))
           IN /\ L = {at} \cup InputNames(at, NamesOf(context))
                         \cup (IF o.box = "good" THEN {} ELSE {"ZeroDivisionError"})
              /\ at # "detector" => L = {at} \cup InputNames(at, NamesOf(context))
<1> DEFINE box == IF o.box = "good" THEN {} ELSE {<<o.box, Own>>}
           inputs == UNION {context[v] : v \in Inputs(at)}
<1>1. Lineage(at, o, Own) = {<<at, Own>>} \cup box \cup inputs
  BY DEF Lineage, Hands
<1>2. Names(inputs) = InputNames(at, NamesOf(context))
  <2>1. PICK stage \in RunStages : stage = at
    OBVIOUS
  <2> QED  BY <2>1, InputNamesAre
<1>3. Names(box) = IF o.box = "good" THEN {} ELSE {"ZeroDivisionError"}
  <2>1. CASE o.box = "good"
    <3>1. box = {}
      BY <2>1
    <3> QED  BY <2>1, <3>1, NamesAre
  <2>2. CASE o.box = "ZeroDivisionError"
    <3>1. box = {<<"ZeroDivisionError", Own>>}
      BY <2>2
    <3>2. Names({<<"ZeroDivisionError", Own>>}) = {"ZeroDivisionError"}
      BY NamesAre
    <3> QED  BY <2>2, <3>1, <3>2
  <2> QED  BY <2>1, <2>2 DEF Hands
<1>4. at # "detector" => o.box = "good"
  BY DEF Hands
<1>5. Names({<<at, Own>>}) = {at}
  BY NamesAre
<1> HIDE DEF box, inputs
<1>6. Names(Lineage(at, o, Own)) = {at} \cup Names(box) \cup Names(inputs)
  <2>1. Names(({<<at, Own>>} \cup box) \cup inputs) = Names({<<at, Own>>} \cup box) \cup Names(inputs)
    BY NamesAre
  <2>2. Names({<<at, Own>>} \cup box) = Names({<<at, Own>>}) \cup Names(box)
    BY NamesAre
  <2> QED  BY <1>1, <1>5, <2>1, <2>2
<1> QED
  BY <1>2, <1>3, <1>4, <1>6

\* The names in the context after a stage.
LEMMA AssignNames ==
    ASSUME NEW ctx, NEW stage \in RunStages, NEW L
    PROVE  NamesOf(Assign(ctx, stage, L))
               = [v \in Values |-> IF v \in Outputs(stage) THEN Names(L) ELSE NamesOf(ctx)[v]]
BY DEF NamesOf, Assign

\* The names n after a stage has made a value with the names L.
Given(n, stage, L) == [v \in Values |-> IF v \in Outputs(stage) THEN L ELSE n[v]]

\* Which spots come after which.
LEMMA Reached ==
    /\ "detector" \notin AfterCrop /\ "geometry_estimator" \notin AfterCrop /\ "crop" \notin AfterCrop
    /\ "lookup" \notin AfterCrop /\ "decode" \notin AfterCrop
    /\ "segmenter" \in AfterCrop /\ "segmenter" \notin AfterSegmenter
    /\ "foreground_refiner" \in AfterSegmenter /\ "foreground_refiner" \notin AfterRefiner
    /\ "depth_estimator" \in AfterRefiner /\ "depth_estimator" \notin AfterDepth
    /\ "normal_estimator" \in AfterDepth /\ "normal_estimator" \notin AfterNormals
    /\ "save" \in AfterNormals /\ "save" \notin AfterShadow
    /\ "shadow_generator" \in AfterNormals /\ "shadow_generator" \notin AfterShadow
    /\ "composer" \in AfterShadow /\ "composer" \notin AfterComposer
    /\ "encode" \in AfterComposer /\ "answered" \in AfterComposer /\ "idle" \notin AfterCrop
    /\ AfterComposer \subseteq AfterShadow /\ AfterShadow \subseteq AfterNormals
    /\ AfterNormals \subseteq AfterDepth /\ AfterDepth \subseteq AfterRefiner
    /\ AfterRefiner \subseteq AfterSegmenter /\ AfterSegmenter \subseteq AfterCrop
BY DEF AfterCrop, AfterSegmenter, AfterRefiner, AfterDepth, AfterNormals, AfterShadow, AfterComposer

\* After the detector of a render.
LEMMA DetectorGives ==
    ASSUME NEW n, NEW geometry, MadeBy("detector", "render", geometry, n),
           NEW bad \in SUBSET {"ZeroDivisionError"}, NEW next,
           next = IF geometry THEN "geometry_estimator" ELSE "crop"
    PROVE  MadeBy(next, "render", geometry,
                  Given(n, "detector", ({"detector"} \cup InputNames("detector", n)) \cup bad))
<1> DEFINE L == ({"detector"} \cup InputNames("detector", n)) \cup bad
           m == Given(n, "detector", L)
<1>1. n["source"] = {"source"}
  BY DEF MadeBy
<1>2. m["source"] = n["source"] /\ m["detection"] = L
  BY DEF Given, Values, Outputs
<1>3. L \ {"ZeroDivisionError"} = ByDetector
  BY <1>1 DEF InputNames, ByDetector
<1> HIDE DEF L, m
<1>4. next \in {"geometry_estimator", "crop"} /\ (next = "crop" => ~geometry)
  OBVIOUS
<1> SUFFICES MadeBy(next, "render", geometry, m)
  BY DEF L, m
<1> QED
  BY <1>1, <1>2, <1>3, <1>4, Reached DEF MadeBy

\* After the geometry stage.
LEMMA GeometryGives ==
    ASSUME NEW n, NEW geometry, NEW kind \in {"render", "debug"}, NEW next,
           MadeBy("geometry_estimator", kind, geometry, n),
           next = IF kind = "render" THEN "crop" ELSE "detector"
    PROVE  MadeBy(next, kind, geometry,
                  Given(n, "geometry_estimator",
                        {"geometry_estimator"} \cup InputNames("geometry_estimator", n)))
<1> DEFINE L == {"geometry_estimator"} \cup InputNames("geometry_estimator", n)
           m == Given(n, "geometry_estimator", L)
<1>2. m["source"] = n["source"] /\ m["detection"] = n["detection"] /\ m["geometry"] = L
  BY DEF Given, Values, Outputs
<1>3. L # {}
  OBVIOUS
<1> HIDE DEF L, m
<1> SUFFICES MadeBy(next, kind, geometry, m)
  BY DEF L, m
<1>4. CASE kind = "render"
  BY <1>2, <1>3, <1>4, Reached DEF MadeBy
<1>5. CASE kind = "debug"
  BY <1>2, <1>3, <1>5, Reached DEF MadeBy
<1> QED
  BY <1>4, <1>5

\* The stages after the crop.
Later == {"segmenter", "foreground_refiner", "depth_estimator", "normal_estimator",
          "shadow_generator", "composer"}

\* After each of these.
LEMMA LaterGives ==
    ASSUME NEW stage \in Later, NEW n, NEW geometry, NEW kind \in {"render", "debug"}, NEW next,
           MadeBy(stage, kind, geometry, n),
           next = CASE stage = "segmenter" -> "foreground_refiner"
                    [] stage = "foreground_refiner" -> "depth_estimator"
                    [] stage = "depth_estimator" -> "normal_estimator"
                    [] stage = "normal_estimator" -> (IF kind = "render" THEN "save" ELSE "shadow_generator")
                    [] stage = "shadow_generator" -> "composer"
                    [] stage = "composer" -> "encode"
    PROVE  MadeBy(next, kind, geometry, Given(n, stage, {stage} \cup InputNames(stage, n)))
<1> DEFINE L == {stage} \cup InputNames(stage, n)
           m == Given(n, stage, L)
<1>0. /\ m["source"] = n["source"] /\ m["detection"] = n["detection"] /\ m["geometry"] = n["geometry"]
      /\ n["source"] = {"source"} /\ n["detection"] = ByDetector
  <2>1. stage \in AfterCrop /\ stage \notin {"idle", "decode"}
    BY Reached DEF Later
  <2>2. n["source"] = {"source"} /\ n["detection"] = ByDetector
    BY <2>1 DEF MadeBy
  <2> QED  BY <2>2 DEF Given, Values, Outputs, Later
<1>1. CASE stage = "segmenter"
  <2>1. /\ m["segmentation"] = L /\ m["cutout"] = L
    BY <1>1 DEF Given, Values, Outputs
  <2>2. n["crop"] = ByDetector /\ (kind = "render" => n["geometry"] # {})
    BY <1>1 DEF MadeBy
  <2>3. L = BySegmenter
    BY <1>1, <2>2 DEF InputNames, BySegmenter
  <2> HIDE DEF L, m
  <2> QED  BY <1>0, <1>1, <2>1, <2>2, <2>3, Reached DEF MadeBy, L, m
<1>2. CASE stage = "foreground_refiner"
  <2>1. /\ m["refinement"] = L /\ m["cutout"] = L /\ m["segmentation"] = n["segmentation"]
    BY <1>2 DEF Given, Values, Outputs
  <2>2. /\ n["segmentation"] = BySegmenter /\ n["cutout"] = BySegmenter
          /\ (kind = "render" => n["geometry"] # {})
    BY <1>2, Reached DEF MadeBy
  <2>3. L = ByRefiner
    BY <1>2, <2>2 DEF InputNames, ByDetector, BySegmenter, ByRefiner
  <2> HIDE DEF L, m
  <2> QED  BY <1>0, <1>2, <2>1, <2>2, <2>3, Reached DEF MadeBy, L, m
<1>3. CASE stage = "depth_estimator"
  <2>1. /\ m["depth"] = L /\ m["cutout"] = n["cutout"] /\ m["segmentation"] = n["segmentation"]
          /\ m["refinement"] = n["refinement"]
    BY <1>3 DEF Given, Values, Outputs
  <2>2. /\ n["segmentation"] = BySegmenter /\ n["cutout"] = ByRefiner /\ n["refinement"] = ByRefiner
          /\ (kind = "render" => n["geometry"] # {})
    BY <1>3, Reached DEF MadeBy
  <2>3. L = ByDepth
    BY <1>3, <2>2 DEF InputNames, ByDetector, BySegmenter, ByRefiner, ByDepth
  <2> HIDE DEF L, m
  <2> QED  BY <1>0, <1>3, <2>1, <2>2, <2>3, Reached DEF MadeBy, L, m
<1>4. CASE stage = "normal_estimator"
  <2>1. /\ m["normals"] = L /\ m["cutout"] = n["cutout"] /\ m["segmentation"] = n["segmentation"]
          /\ m["refinement"] = n["refinement"] /\ m["depth"] = n["depth"]
    BY <1>4 DEF Given, Values, Outputs
  <2>2. /\ n["segmentation"] = BySegmenter /\ n["cutout"] = ByRefiner /\ n["refinement"] = ByRefiner
          /\ n["depth"] = ByDepth
          /\ (kind = "render" => n["geometry"] # {})
    BY <1>4, Reached DEF MadeBy
  <2>3. L = ByNormals
    BY <1>4, <2>2 DEF InputNames, ByDetector, BySegmenter, ByRefiner, ByDepth, ByNormals
  <2> HIDE DEF L, m
  <2> QED  BY <1>0, <1>4, <2>1, <2>2, <2>3, Reached DEF MadeBy, L, m
<1>5. CASE stage = "shadow_generator"
  <2>1. /\ m["shadow"] = L /\ m["cutout"] = n["cutout"] /\ m["segmentation"] = n["segmentation"]
          /\ m["refinement"] = n["refinement"] /\ m["depth"] = n["depth"] /\ m["normals"] = n["normals"]
    BY <1>5 DEF Given, Values, Outputs
  <2>2. /\ n["segmentation"] = BySegmenter /\ n["cutout"] = ByRefiner /\ n["refinement"] = ByRefiner
          /\ n["depth"] = ByDepth /\ n["normals"] = ByNormals
    BY <1>5, Reached DEF MadeBy
  <2>3. L = ByShadow
    BY <1>5, <2>2 DEF InputNames, ByDetector, BySegmenter, ByRefiner, ByDepth, ByNormals, ByShadow
  <2> HIDE DEF L, m
  <2> QED  BY <1>0, <1>5, <2>1, <2>2, <2>3, Reached DEF MadeBy, L, m
<1>6. CASE stage = "composer"
  <2>1. /\ m["composition"] = L /\ m["cutout"] = n["cutout"] /\ m["segmentation"] = n["segmentation"]
          /\ m["refinement"] = n["refinement"] /\ m["depth"] = n["depth"] /\ m["normals"] = n["normals"]
          /\ m["shadow"] = n["shadow"]
    BY <1>6 DEF Given, Values, Outputs
  <2>2. /\ n["segmentation"] = BySegmenter /\ n["cutout"] = ByRefiner /\ n["refinement"] = ByRefiner
          /\ n["depth"] = ByDepth /\ n["normals"] = ByNormals /\ n["shadow"] = ByShadow
    BY <1>6, Reached DEF MadeBy
  <2>3. L = ByComposer
    BY <1>6, <2>2 DEF InputNames, ByDetector, BySegmenter, ByRefiner, ByDepth, ByNormals, ByShadow, ByComposer
  <2> HIDE DEF L, m
  <2> QED  BY <1>0, <1>6, <2>1, <2>2, <2>3, Reached DEF MadeBy, L, m
<1> QED
  BY <1>1, <1>2, <1>3, <1>4, <1>5, <1>6 DEF Later

\* After the crop of a render.
LEMMA CropGives ==
    ASSUME NEW n, NEW geometry, MadeBy("crop", "render", geometry, n),
           "ZeroDivisionError" \notin n["detection"], NEW m,
           m = [v \in Values |-> IF v = "crop" THEN n["source"] \cup n["detection"]
                                 ELSE IF v = "geometry" /\ ~geometry THEN {"disabled"}
                                 ELSE n[v]]
    PROVE  MadeBy("segmenter", "render", geometry, m)
<1>1. /\ n["source"] = {"source"} /\ n["detection"] \ {"ZeroDivisionError"} = ByDetector
      /\ geometry => n["geometry"] # {}
  BY DEF MadeBy
<1>2. n["detection"] = ByDetector
  BY <1>1
<1>3. /\ m["source"] = n["source"] /\ m["detection"] = n["detection"]
      /\ m["crop"] = n["source"] \cup n["detection"]
      /\ m["geometry"] = IF geometry THEN n["geometry"] ELSE {"disabled"}
  BY DEF Values
<1>4. m["geometry"] # {}
  BY <1>1, <1>3
<1>5. n["source"] \cup n["detection"] = ByDetector
  BY <1>1, <1>2 DEF ByDetector
<1>6. m["crop"] = ByDetector
  BY <1>3, <1>5
<1> QED
  BY <1>1, <1>2, <1>3, <1>4, <1>6, Reached DEF MadeBy

\* After the detector of a debug run, which includes the crop.
LEMMA DebugDetectorGives ==
    ASSUME NEW n, NEW geometry, MadeBy("detector", "debug", geometry, n),
           NEW bad \in SUBSET {"ZeroDivisionError"}, NEW g, NEW m,
           g = Given(n, "detector", ({"detector"} \cup InputNames("detector", n)) \cup bad),
           "ZeroDivisionError" \notin g["detection"],
           m = [v \in Values |-> IF v = "crop" THEN g["source"] \cup g["detection"] ELSE g[v]]
    PROVE  MadeBy("segmenter", "debug", geometry, m)
<1>1. n["source"] = {"source"}
  BY DEF MadeBy
<1>2. /\ g["source"] = n["source"]
      /\ g["detection"] = ({"detector"} \cup InputNames("detector", n)) \cup bad
  BY DEF Given, Values, Outputs
<1>3. g["detection"] = ByDetector
  BY <1>1, <1>2 DEF InputNames, ByDetector
<1>4. m["source"] = g["source"] /\ m["detection"] = g["detection"]
      /\ m["crop"] = g["source"] \cup g["detection"]
  BY DEF Values
<1>5. m["crop"] = ByDetector
  BY <1>1, <1>2, <1>3, <1>4 DEF ByDetector
<1> QED
  BY <1>1, <1>2, <1>3, <1>4, <1>5, Reached DEF MadeBy

\* After a hit.
LEMMA HitGives ==
    ASSUME NEW n, NEW geometry, MadeBy("lookup", "render", geometry, n), NEW values, NEW m,
           SnapshotWhole(values),
           m = [v \in Values |-> IF v \in Snapshotted THEN Names(values[v]) ELSE n[v]]
    PROVE  MadeBy("shadow_generator", "render", geometry, m)
<1>1. n["source"] = {"source"}
  BY DEF MadeBy
<1>2. m["source"] = n["source"]
      /\ \A v \in {"detection", "segmentation", "cutout", "refinement", "depth", "normals"} :
            m[v] = Names(values[v])
  BY DEF Values, Snapshotted
<1>3. /\ m["detection"] = ByDetector /\ m["segmentation"] = BySegmenter
      /\ m["cutout"] = ByRefiner /\ m["refinement"] = ByRefiner
      /\ m["depth"] = ByDepth /\ m["normals"] = ByNormals
  BY <1>2 DEF SnapshotWhole
<1> QED
  BY <1>1, <1>2, <1>3, Reached DEF MadeBy

\* The context and the snapshots together.
RunOrder == MadeInOrder /\ CacheWhole

\* RunOrder holds at first.
LEMMA OrderInit == PipelineInit => RunOrder
BY DEF PipelineInit, RunOrder, MadeInOrder, CacheWhole, Answered200

\* What it says inside a request.
LEMMA OrderHere ==
    ASSUME MadeInOrder, at # "idle"
    PROVE  MadeBy(at, Current.kind, Settings.geometry_enabled, NamesOf(context))
BY DEF MadeInOrder, Spot, Answered200

\* It holds when a request ends without a picture.
LEMMA OrderEnds ==
    ASSUME RunOrder, at' = "idle", result' # "completed", UNCHANGED cache
    PROVE  RunOrder'
BY DEF RunOrder, MadeInOrder, CacheWhole, Answered200

\* It holds when a request goes on with a context that is as MadeBy says.
LEMMA OrderGoesOn ==
    ASSUME RunOrder, UNCHANGED <<runtime, log, cache>>, at' # "idle",
           MadeBy(at', Current.kind, Settings.geometry_enabled, NamesOf(context'))
    PROVE  RunOrder'
<1>1. Current' = Current /\ Settings' = Settings
  BY SameRun
<1>2. Spot' = at' /\ NamesOf(context)' = NamesOf(context')
  BY DEF Spot, Answered200
<1>3. MadeInOrder'
  BY <1>1, <1>2 DEF MadeInOrder
<1>4. CacheWhole'
  BY DEF RunOrder, CacheWhole
<1> QED
  BY <1>3, <1>4 DEF RunOrder

\* The names in the context after a call that handed over a value.
LEMMA GivenNames ==
    ASSUME NEW stage, stage = at, at \in RunStages, NEW id, NEW o, Hands(at, id, o)
    PROVE  \E bad \in SUBSET {"ZeroDivisionError"} :
              /\ NamesOf(Assign(context, at, Lineage(at, o, Own)))
                    = Given(NamesOf(context), stage,
                            ({stage} \cup InputNames(stage, NamesOf(context))) \cup bad)
              /\ (stage # "detector" \/ o.box = "good") => bad = {}
<1> DEFINE L == Lineage(at, o, Own)
           bad == IF o.box = "good" THEN {} ELSE {"ZeroDivisionError"}
<1>1. NamesOf(Assign(context, at, L))
          = [v \in Values |-> IF v \in Outputs(at) THEN Names(L) ELSE NamesOf(context)[v]]
  <2> HIDE DEF L
  <2> QED  BY AssignNames
<1>2. /\ Names(L) = ({at} \cup InputNames(at, NamesOf(context))) \cup bad
      /\ at # "detector" => o.box = "good"
  BY LineageNames DEF Hands
<1>3. bad \in SUBSET {"ZeroDivisionError"} /\ ((at # "detector" \/ o.box = "good") => bad = {})
  BY <1>2
<1> HIDE DEF L, bad
<1> QED
  BY <1>1, <1>2, <1>3 DEF Given, L

\* The names in the context after the crop.
LEMMA CroppedNames ==
    ASSUME NEW ctx \in [Values -> SUBSET OwnParts]
    PROVE  NamesOf(Cropped(ctx))
               = [v \in Values |-> IF v = "crop" THEN NamesOf(ctx)["source"] \cup NamesOf(ctx)["detection"]
                                   ELSE NamesOf(ctx)[v]]
<1>1. "source" \in Values /\ "detection" \in Values
  BY DEF Values
<1>2. Names(ctx["source"] \cup ctx["detection"]) = NamesOf(ctx)["source"] \cup NamesOf(ctx)["detection"]
  BY <1>1, NamesAre DEF NamesOf
<1>3. \A v \in Values : Cropped(ctx)[v] = IF v = "crop" THEN ctx["source"] \cup ctx["detection"] ELSE ctx[v]
  BY DEF Cropped
<1> QED
  BY <1>2, <1>3 DEF NamesOf

\* A box can be cropped unless the detection's names say otherwise.
LEMMA AreaNames ==
    ASSUME NEW ctx
    PROVE  /\ BadBoxes(ctx) = NamesOf(ctx)["detection"] \cap {"ZeroDivisionError", "ValueError"}
           /\ HasArea(ctx) => "ZeroDivisionError" \notin NamesOf(ctx)["detection"]
BY DEF NamesOf, Names, Values, BadBoxes, HasArea

\* A stage of a render keeps RunOrder.
LEMMA RenderKeepsOrder ==
    ASSUME RuntimeMade, ControlOK, LineageOK, RunOrder, RenderStage
    PROVE  RunOrder'
<1>1. /\ at \in RunStages /\ at # "idle" /\ Current.kind = "render"
      /\ UNCHANGED <<runtime, log, under, listed, cache>>
  BY RenderStageIs, RunStagesAre
<1>2. PICK id, o : RenderHands(id, o) \/ RenderFails(o)
  BY RenderStageIs
<1>3. CASE RenderFails(o)
  <2>1. at' = "idle" /\ result' # "completed"
    BY <1>3 DEF RenderFails, EndsWith, Ends, Normalize
  <2> QED  BY <1>1, <2>1, OrderEnds
<1>4. CASE RenderHands(id, o)
  <2> DEFINE n == NamesOf(context)
             m == NamesOf(context')
             geometry == Settings.geometry_enabled
  <2>1. Hands(at, id, o) /\ context' = Assign(context, at, Lineage(at, o, Own)) /\ at' = After(RenderOrder, at)
    BY <1>4 DEF RenderHands
  <2>2. PICK stage : stage = at
    OBVIOUS
  <2>3. PICK bad \in SUBSET {"ZeroDivisionError"} :
            /\ m = Given(n, stage, ({stage} \cup InputNames(stage, n)) \cup bad)
            /\ stage # "detector" => bad = {}
    BY <1>1, <2>1, <2>2, GivenNames
  <2>4. MadeBy(stage, "render", geometry, n)
    BY <1>1, <2>2, OrderHere DEF RunOrder
  <2>5. stage = "geometry_estimator" => geometry
    BY <2>2 DEF ControlOK
  <2> HIDE DEF n, m, geometry
  <2>6. MadeBy(at', "render", geometry, m) /\ at' # "idle"
    <3>1. CASE stage = "detector"
      <4>1. at' = IF geometry THEN "geometry_estimator" ELSE "crop"
        BY <2>1, <2>2, <3>1, AfterRender DEF geometry
      <4> QED  BY <2>3, <2>4, <3>1, <4>1, DetectorGives
    <3>2. CASE stage = "geometry_estimator"
      <4>1. at' = "crop"
        BY <2>1, <2>2, <2>5, <3>2, AfterRender DEF geometry
      <4>2. m = Given(n, stage, {stage} \cup InputNames(stage, n))
        BY <2>3, <3>2
      <4> QED  BY <2>4, <3>2, <4>1, <4>2, GeometryGives
    <3>3. CASE stage \in Later
      <4>1. at' = CASE stage = "segmenter" -> "foreground_refiner"
                    [] stage = "foreground_refiner" -> "depth_estimator"
                    [] stage = "depth_estimator" -> "normal_estimator"
                    [] stage = "normal_estimator" -> "save"
                    [] stage = "shadow_generator" -> "composer"
                    [] stage = "composer" -> "encode"
        BY <2>1, <2>2, <3>3, AfterRender DEF Later
      <4>2. m = Given(n, stage, {stage} \cup InputNames(stage, n))
        BY <2>3, <3>3 DEF Later
      <4> QED  BY <2>4, <3>3, <4>1, <4>2, LaterGives DEF Later
    <3> QED  BY <1>1, <2>2, <3>1, <3>2, <3>3, RunStagesAre DEF Later
  <2> QED  BY <1>1, <2>6, OrderGoesOn DEF m, geometry
<1> QED
  BY <1>2, <1>3, <1>4

\* A stage of a debug run keeps RunOrder.
LEMMA DebugKeepsOrder ==
    ASSUME RuntimeMade, ControlOK, LineageOK, RunOrder, DebugStage
    PROVE  RunOrder'
<1>1. /\ at \in RunStages /\ at # "idle" /\ Current.kind = "debug"
      /\ UNCHANGED <<runtime, log, cache>>
  BY DebugStageIs, RunStagesAre
<1>2. DebugFails \/ \E id, o : DebugHands(id, o) \/ DebugDraws(id, o) \/ DebugRaises(id, o)
  BY DebugStageIs
<1>3. CASE DebugFails
  <2>1. at' = "idle" /\ result' # "completed"
    BY <1>1, <1>3, DebugListsIs DEF DebugFails
  <2> QED  BY <1>1, <2>1, OrderEnds
<1>4. ASSUME NEW id, NEW o, DebugDraws(id, o) \/ DebugRaises(id, o) PROVE RunOrder'
  <2>1. at' = "idle" /\ result' # "completed"
    BY <1>4, RaisesRawIs DEF DebugDraws, DebugRaises, RaisesOnBox, EndsWith, Ends
  <2> QED  BY <1>1, <2>1, OrderEnds
<1>5. ASSUME NEW id, NEW o, DebugHands(id, o) PROVE RunOrder'
  <2>1. /\ Hands(at, id, o) /\ HasArea(DebugCtx(o)) /\ DebugLists("completed")
        /\ context' = IF at = "detector" THEN Cropped(DebugCtx(o)) ELSE DebugCtx(o)
    BY <1>5 DEF DebugHands
  <2>2. CASE at' = "idle" /\ result' = "debug"
    BY <1>1, <2>2, OrderEnds
  <2>3. CASE at # "composer" /\ at' = After(DebugOrder, at)
    <3> DEFINE n == NamesOf(context)
               g == NamesOf(DebugCtx(o))
               m == NamesOf(context')
               geometry == Settings.geometry_enabled
    <3>1. PICK stage : stage = at
      OBVIOUS
    <3>2. PICK bad \in SUBSET {"ZeroDivisionError"} :
              /\ g = Given(n, stage, ({stage} \cup InputNames(stage, n)) \cup bad)
              /\ stage # "detector" => bad = {}
      BY <1>1, <2>1, <3>1, GivenNames DEF DebugCtx
    <3>3. MadeBy(stage, "debug", geometry, n)
      BY <1>1, <3>1, OrderHere DEF RunOrder
    <3>4. stage = "geometry_estimator" => geometry
      BY <3>1 DEF ControlOK
    <3>5. "ZeroDivisionError" \notin g["detection"]
      BY <2>1, AreaNames
    <3>6. DebugCtx(o) \in [Values -> SUBSET OwnParts]
      BY <1>1, <2>1, LineageIsOwn, AssignIsOwn DEF LineageOK, DebugCtx
    <3>7. stage = "detector" =>
             m = [v \in Values |-> IF v = "crop" THEN g["source"] \cup g["detection"] ELSE g[v]]
      BY <2>1, <3>1, <3>6, CroppedNames
    <3>8. stage # "detector" => m = g
      BY <2>1, <3>1
    <3> HIDE DEF n, g, m, geometry
    <3>9. MadeBy(at', "debug", geometry, m) /\ at' # "idle"
      <4>1. CASE stage = "detector"
        <5>1. at' = "segmenter"
          BY <2>3, <3>1, <4>1, AfterDebug
        <5>2. g = Given(n, "detector", ({"detector"} \cup InputNames("detector", n)) \cup bad)
          BY <3>2, <4>1
        <5>3. m = [v \in Values |-> IF v = "crop" THEN g["source"] \cup g["detection"] ELSE g[v]]
          BY <3>7, <4>1
        <5>4. MadeBy("detector", "debug", geometry, n)
          BY <3>3, <4>1
        <5>5. MadeBy("segmenter", "debug", geometry, m)
          BY <3>5, <5>2, <5>3, <5>4, DebugDetectorGives
        <5> QED  BY <5>1, <5>5
      <4>2. CASE stage = "geometry_estimator"
        <5>1. at' = "detector"
          BY <2>3, <3>1, <3>4, <4>2, AfterDebug DEF geometry
        <5>2. m = Given(n, stage, {stage} \cup InputNames(stage, n))
          BY <3>2, <3>8, <4>2
        <5> QED  BY <3>3, <4>2, <5>1, <5>2, GeometryGives
      <4>3. CASE stage \in Later
        <5>1. at' = CASE stage = "segmenter" -> "foreground_refiner"
                      [] stage = "foreground_refiner" -> "depth_estimator"
                      [] stage = "depth_estimator" -> "normal_estimator"
                      [] stage = "normal_estimator" -> "shadow_generator"
                      [] stage = "shadow_generator" -> "composer"
                      [] stage = "composer" -> "encode"
          BY <2>3, <3>1, <4>3, AfterDebug DEF Later
        <5>2. m = Given(n, stage, {stage} \cup InputNames(stage, n))
          BY <3>2, <3>8, <4>3 DEF Later
        <5> QED  BY <3>3, <4>3, <5>1, <5>2, LaterGives DEF Later
      <4> QED  BY <1>1, <3>1, <4>1, <4>2, <4>3, RunStagesAre DEF Later
    <3> QED  BY <1>1, <3>9, OrderGoesOn DEF m, geometry
  <2> QED  BY <1>1, <2>1, <2>2, <2>3, DebugListsIs
<1> QED
  BY <1>2, <1>3, <1>4, <1>5

\* Every step keeps RunOrder.
LEMMA OrderNext ==
    ASSUME RuntimeMade, ControlOK, LineageOK, RunOrder, [PipelineNext]_pipelineVars
    PROVE  RunOrder'
<1> DEFINE n == NamesOf(context)
           m == NamesOf(context')
           geometry == Settings.geometry_enabled
<1>1. CASE Arrive
  <2>1. at' = "decode" /\ context' = EmptyContext /\ cache' = cache
    BY <1>1 DEF Arrive
  <2>2. \A v \in Values : NamesOf(EmptyContext)[v] = {}
    BY NamesAre DEF NamesOf, EmptyContext
  <2>3. NamesOf(EmptyContext)["detection"] = {}
    BY <2>2 DEF Values
  <2>4. MadeBy("decode", Current.kind', Settings.geometry_enabled', NamesOf(EmptyContext))
    BY <2>3, Reached DEF MadeBy
  <2>5. Spot' = "decode" /\ NamesOf(context)' = NamesOf(EmptyContext)
    BY <2>1 DEF Spot, Answered200, NamesOf
  <2>6. MadeInOrder'
    BY <2>4, <2>5 DEF MadeInOrder
  <2>7. CacheWhole'
    BY <2>1 DEF RunOrder, CacheWhole
  <2> QED  BY <2>6, <2>7 DEF RunOrder
<1>2. CASE DecodeFails
  BY <1>2, OrderEnds DEF DecodeFails, Ends
<1>3. CASE Decode
  <2>1. /\ at = "decode" /\ UNCHANGED <<runtime, log, cache>>
        /\ context' = [context EXCEPT !["source"] = {<<"source", Own>>}]
    BY <1>3 DEF Decode
  <2>2. \/ at' = "idle" /\ result' \in {"debug", "raw"}
        \/ at' = "lookup" /\ Current.kind = "render"
        \/ at' = Head(DebugOrder) /\ Current.kind = "debug"
    <3>1. Current.kind \in {"render", "debug"}
      BY <2>1, CurrentIs DEF ControlOK
    <3> QED  BY <1>3, <3>1, RaisesRawIs DEF Decode, Ends
  <2>3. MadeBy("decode", Current.kind, geometry, n)
    BY <2>1, OrderHere DEF RunOrder
  <2>4. n["detection"] = {}
    BY <2>3 DEF MadeBy
  <2>5. m["source"] = {"source"} /\ m["detection"] = n["detection"]
    <3>1. context'["source"] = {<<"source", Own>>} /\ context'["detection"] = context["detection"]
      BY <2>1 DEF Values, LineageOK
    <3>2. "source" \in Values /\ "detection" \in Values
      BY DEF Values
    <3>3. \A v \in Values : n[v] = Names(context[v]) /\ m[v] = Names(context'[v])
      BY DEF NamesOf
    <3>4. Names({<<"source", Own>>}) = {"source"}
      BY NamesAre
    <3> HIDE DEF n, m
    <3> QED  BY <3>1, <3>2, <3>3, <3>4
  <2> HIDE DEF n, m, geometry
  <2>6. CASE at' = "idle" /\ result' \in {"debug", "raw"}
    BY <2>1, <2>6, OrderEnds
  <2>7. CASE at' = "lookup" /\ Current.kind = "render"
    <3>1. MadeBy("lookup", "render", geometry, m)
      BY <2>5, Reached DEF MadeBy
    <3> QED  BY <2>1, <2>7, <3>1, OrderGoesOn DEF m, geometry
  <2>8. CASE at' = Head(DebugOrder) /\ Current.kind = "debug"
    <3>1. at' \in {"geometry_estimator", "detector"}
      BY <2>8, AfterDebug
    <3>2. MadeBy("geometry_estimator", "debug", geometry, m) /\ MadeBy("detector", "debug", geometry, m)
      BY <2>4, <2>5, Reached DEF MadeBy
    <3> QED  BY <2>1, <2>8, <3>1, <3>2, OrderGoesOn DEF m, geometry
  <2> QED  BY <2>2, <2>6, <2>7, <2>8
<1>4. CASE Lookup
  <2> DEFINE hits == {x \in cache : x.key = MakeKey(Current)}
             hit == CHOOSE x \in hits : TRUE
  <2>1. UNCHANGED <<runtime, log, cache>> /\ at = "lookup" /\ Current.kind = "render"
    BY <1>4 DEF Lookup, ControlOK
  <2>2. MadeBy("lookup", "render", geometry, n)
    BY <2>1, OrderHere DEF RunOrder
  <2>2r. CASE RaisesRaw
    BY <2>1, <2>2r, RaisesRawIs, OrderEnds
  <2>3. CASE ~RaisesRaw /\ hits = {}
    <3>1. context' = context /\ at' = "detector"
      BY <1>4, <2>3 DEF Lookup
    <3>2. m = n
      BY <3>1
    <3> HIDE DEF n, m, geometry
    <3>3. MadeBy("detector", "render", geometry, m)
      BY <2>2, <3>2, Reached DEF MadeBy
    <3> QED  BY <2>1, <3>1, <3>3, OrderGoesOn DEF m, geometry
  <2>4. CASE ~RaisesRaw /\ hits # {}
    <3>1. /\ context' = [v \in Values |-> IF v \in Snapshotted THEN hit.values[v] ELSE context[v]]
          /\ at' = "shadow_generator"
      BY <1>4, <2>4 DEF Lookup
    <3>2. hit \in cache
      BY <2>4
    <3> HIDE DEF hit, hits
    <3>3. SnapshotWhole(hit.values)
      BY <3>2 DEF RunOrder, CacheWhole
    <3>4. PICK values : values = hit.values
      OBVIOUS
    <3>5. m = [v \in Values |-> IF v \in Snapshotted THEN Names(values[v]) ELSE n[v]]
      BY <3>1, <3>4 DEF NamesOf
    <3> HIDE DEF n, m, geometry
    <3>6. MadeBy("shadow_generator", "render", geometry, m)
      BY <2>2, <3>3, <3>4, <3>5, HitGives
    <3> QED  BY <2>1, <3>1, <3>6, OrderGoesOn DEF m, geometry
  <2> QED  BY <2>2r, <2>3, <2>4
<1>5. CASE RenderStage
  BY <1>5, RenderKeepsOrder
<1>6. CASE Crop
  <2> DEFINE ctx == IF Settings.geometry_enabled THEN context
                    ELSE [context EXCEPT !["geometry"] = {<<"disabled", Own>>}]
  <2>1. at = "crop" /\ UNCHANGED <<runtime, log, cache>> /\ Current.kind = "render"
    BY <1>6 DEF Crop, ControlOK
  <2>2. \/ HasArea(ctx) /\ context' = Cropped(ctx) /\ at' = After(RenderOrder, at)
        \/ at' = "idle" /\ result' = "raw"
    BY <1>6 DEF Crop, RaisesOnBox, EndsWith, Ends
  <2>3. CASE at' = "idle" /\ result' = "raw"
    BY <2>1, <2>3, OrderEnds
  <2>4. CASE HasArea(ctx) /\ context' = Cropped(ctx) /\ at' = After(RenderOrder, at)
    <3>1. at' = "segmenter"
      BY <2>1, <2>4, AfterRender
    <3>2. <<"disabled", Own>> \in OwnParts
      BY <2>1, OwnPart DEF ControlOK, Marks
    <3>3. ctx \in [Values -> SUBSET OwnParts]
      BY <3>2 DEF LineageOK
    <3>4. NamesOf(ctx) = [v \in Values |-> IF v = "geometry" /\ ~geometry THEN {"disabled"} ELSE n[v]]
      <4>1. CASE geometry
        BY <4>1 DEF NamesOf
      <4>2. CASE ~geometry
        <5>1. \A v \in Values : ctx[v] = IF v = "geometry" THEN {<<"disabled", Own>>} ELSE context[v]
          BY <4>2 DEF LineageOK
        <5>2. Names({<<"disabled", Own>>}) = {"disabled"}
          BY NamesAre
        <5> HIDE DEF ctx
        <5> QED  BY <4>2, <5>1, <5>2 DEF NamesOf
      <4> QED  BY <4>1, <4>2
    <3>5. PICK c : c = NamesOf(ctx)
      OBVIOUS
    <3>6. m = [v \in Values |-> IF v = "crop" THEN c["source"] \cup c["detection"] ELSE c[v]]
      <4> HIDE DEF ctx
      <4> QED  BY <2>4, <3>3, <3>5, CroppedNames
    <3>7. "ZeroDivisionError" \notin c["detection"]
      BY <2>4, <3>5, AreaNames
    <3>8. MadeBy("crop", "render", geometry, n)
      BY <2>1, OrderHere DEF RunOrder
    <3> HIDE DEF n, m, geometry, ctx
    <3>9. c["source"] = n["source"] /\ c["detection"] = n["detection"]
      BY <3>4, <3>5 DEF Values
    <3>10. m = [v \in Values |-> IF v = "crop" THEN n["source"] \cup n["detection"]
                                 ELSE IF v = "geometry" /\ ~geometry THEN {"disabled"}
                                 ELSE n[v]]
      BY <3>4, <3>5, <3>6, <3>9
    <3>11. MadeBy("segmenter", "render", geometry, m)
      BY <3>7, <3>8, <3>9, <3>10, CropGives
    <3> QED  BY <2>1, <3>1, <3>11, OrderGoesOn DEF m, geometry
  <2> QED  BY <2>2, <2>3, <2>4
<1>7. CASE Save
  <2> DEFINE saved == [key |-> MakeKey(Current), values |-> [v \in Snapshotted |-> context[v]]]
  <2>0. CASE RaisesRaw /\ cache' = cache
    BY <2>0, RaisesRawIs, OrderEnds
  <2> SUFFICES ASSUME ~(RaisesRaw /\ cache' = cache) PROVE RunOrder'
    BY <2>0
  <2>1. /\ at = "save" /\ UNCHANGED <<runtime, log, context>> /\ cache' = cache \cup {saved}
        /\ at' = After(RenderOrder, at) /\ Current.kind = "render"
    BY <1>7 DEF Save, ControlOK
  <2>2. at' = "shadow_generator"
    BY <2>1, AfterRender
  <2>3. MadeBy("save", "render", geometry, n)
    BY <2>1, OrderHere DEF RunOrder
  <2>4. \A v \in Snapshotted : v \in Values /\ saved.values[v] = context[v] /\ n[v] = Names(context[v])
    BY DEF NamesOf, Snapshotted, Values
  <2>5. {"detection", "segmentation", "cutout", "refinement", "depth", "normals"} \subseteq Snapshotted
    BY DEF Snapshotted
  <2> HIDE DEF n, m, geometry, saved
  <2>6. SnapshotWhole(saved.values)
    BY <2>3, <2>4, <2>5, Reached DEF MadeBy, SnapshotWhole
  <2>7. MadeBy("shadow_generator", "render", geometry, n)
    BY <2>3, Reached DEF MadeBy
  <2>8. Current' = Current /\ Settings' = Settings
    BY <2>1, SameRun
  <2>9. Spot' = at' /\ NamesOf(context)' = NamesOf(context)
    BY <2>1, <2>2 DEF Spot, Answered200, NamesOf
  <2>10. MadeInOrder'
    BY <2>1, <2>2, <2>7, <2>8, <2>9 DEF MadeInOrder, n, geometry
  <2>11. CacheWhole'
    BY <2>1, <2>6 DEF RunOrder, CacheWhole
  <2> QED  BY <2>10, <2>11 DEF RunOrder
<1>8. CASE Encode
  <2>1. at = "encode" /\ UNCHANGED <<runtime, log, context, cache>> /\ at' = "idle"
    BY <1>8, RaisesRawIs DEF Encode, EndsWith, Ends
  <2>2. CASE result' # "completed"
    BY <2>1, <2>2, OrderEnds
  <2>3. CASE result' = "completed"
    <3>1. Spot' = "answered" /\ NamesOf(context)' = NamesOf(context)
      BY <2>1, <2>3 DEF Spot, Answered200, NamesOf
    <3>2. Current' = Current /\ Settings' = Settings
      BY <2>1, SameRun
    <3>3. MadeBy("encode", Current.kind, geometry, n)
      BY <2>1, OrderHere DEF RunOrder
    <3> HIDE DEF n, m, geometry
    <3>4. MadeBy("answered", Current.kind, geometry, n)
      BY <3>3, Reached DEF MadeBy
    <3>5. MadeInOrder'
      BY <3>1, <3>2, <3>4 DEF MadeInOrder, n, geometry
    <3>6. CacheWhole'
      BY <2>1 DEF RunOrder, CacheWhole
    <3> QED  BY <3>5, <3>6 DEF RunOrder
  <2> QED  BY <2>2, <2>3
<1>9. CASE DebugStage
  BY <1>9, DebugKeepsOrder
<1>10. CASE UNCHANGED pipelineVars
  <2>1. /\ Current' = Current /\ Settings' = Settings /\ Spot' = Spot
        /\ NamesOf(context)' = NamesOf(context) /\ cache' = cache /\ at' = at /\ Answered200' = Answered200
    BY <1>10, SameRun DEF pipelineVars, Spot, Answered200, NamesOf
  <2> QED  BY <2>1 DEF RunOrder, MadeInOrder, CacheWhole
<1>11. CASE Restart
  BY <1>11, OrderEnds DEF Restart
<1> QED
  BY <1>1, <1>2, <1>3, <1>4, <1>5, <1>6, <1>7, <1>8, <1>9, <1>10, <1>11 DEF PipelineNext

\* What MadeBy says to be made is there, which is all that is read.
LEMMA InputsPresentHolds ==
    ASSUME ControlOK, RunOrder
    PROVE  InputsPresent
<1> DEFINE n == NamesOf(context)
           geometry == Settings.geometry_enabled
<1>1. \A v \in Values : context[v] = {} <=> n[v] = {}
  BY NamesAre DEF NamesOf
<1>2. at # "idle" => MadeBy(at, Current.kind, geometry, n)
  BY OrderHere DEF RunOrder
<1> HIDE DEF n, geometry
<1>3. at \in Stages => \A v \in Inputs(at) : context[v] # {}
  <2> SUFFICES ASSUME at \in Stages PROVE \A v \in Inputs(at) : context[v] # {}
    OBVIOUS
  <2>1. at \in RunStages
    BY StagesAre, RunStagesAre DEF ControlOK, Steps
  <2>2. PICK stage \in RunStages : stage = at
    BY <2>1
  <2>3. PICK kind : kind = Current.kind
    OBVIOUS
  <2>4. MadeBy(stage, kind, geometry, n)
    BY <1>2, <2>2, <2>3, RunStagesAre
  <2>5. \A v \in Inputs(stage) : v \in Values /\ n[v] # {}
    <3>1. CASE stage \in {"detector", "geometry_estimator"}
      BY <2>4, <3>1 DEF Inputs, MadeBy, Values
    <3>2. CASE stage = "segmenter"
      BY <2>4, <3>2 DEF Inputs, MadeBy, Values, ByDetector
    <3>3. CASE stage = "foreground_refiner"
      BY <2>4, <3>3, Reached DEF Inputs, MadeBy, Values, BySegmenter
    <3>4. CASE stage = "depth_estimator"
      BY <2>4, <3>4, Reached DEF Inputs, MadeBy, Values, BySegmenter, ByRefiner
    <3>5. CASE stage = "normal_estimator"
      BY <2>4, <3>5, Reached DEF Inputs, MadeBy, Values, BySegmenter, ByRefiner, ByDepth
    <3>6. CASE stage = "shadow_generator"
      BY <2>4, <3>6, Reached DEF Inputs, MadeBy, Values, BySegmenter, ByRefiner, ByDepth, ByNormals
    <3>7. CASE stage = "composer"
      BY <2>4, <3>7, Reached DEF Inputs, MadeBy, Values, BySegmenter, ByRefiner, ByShadow, ByNormals, ByDepth
    <3> QED  BY <3>1, <3>2, <3>3, <3>4, <3>5, <3>6, <3>7, RunStagesAre
  <2> QED  BY <1>1, <2>2, <2>5
<1>4. at = "save" => \A v \in Snapshotted : context[v] # {}
  <2>1. ASSUME at = "save" PROVE \A v \in Snapshotted : v \in Values /\ n[v] # {}
    <3>1. MadeBy("save", "render", geometry, n)
      BY <1>2, <2>1 DEF ControlOK
    <3>2. /\ n["geometry"] # {} /\ n["detection"] = ByDetector /\ n["segmentation"] = BySegmenter
          /\ n["cutout"] = ByRefiner /\ n["refinement"] = ByRefiner
          /\ n["depth"] = ByDepth /\ n["normals"] = ByNormals
      BY <3>1, Reached DEF MadeBy
    <3>3. ByDetector # {} /\ BySegmenter # {} /\ ByRefiner # {} /\ ByDepth # {} /\ ByNormals # {}
      BY DEF ByDetector, BySegmenter, ByRefiner, ByDepth, ByNormals
    <3> QED  BY <3>2, <3>3 DEF Snapshotted, Values
  <2> QED  BY <1>1, <2>1
<1>5. at = "encode" => context["composition"] # {}
  <2>1. ASSUME at = "encode" PROVE n["composition"] # {}
    <3>1. MadeBy("encode", "render", geometry, n)
      BY <1>2, <2>1 DEF ControlOK
    <3> QED  BY <3>1, Reached DEF MadeBy, ByComposer
  <2>2. "composition" \in Values
    BY DEF Values
  <2> QED  BY <1>1, <2>1, <2>2
<1> QED
  BY <1>3, <1>4, <1>5 DEF InputsPresent

\* The stages up to the k-th.
LEMMA UpTo ==
    ASSUME NEW k \in 1..9
    PROVE  {StageOrder[i] : i \in 1..PlaceIn(StageOrder, StageOrder[k])}
               = {StageOrder[i] : i \in 1..k}
<1>1. StageOrder \in Seq(Stages) /\ Len(StageOrder) = 9
  BY StagesAre DEF StageOrder
<1>2. \A i \in 1..9 : StageOrder[i] = StageOrder[k] => i = k
  BY DEF StageOrder
<1>3. PICK order : order = StageOrder
  OBVIOUS
<1>4. /\ order \in Seq(Stages) /\ k \in 1..Len(order)
      /\ \A i \in 1..Len(order) : order[i] = order[k] => i = k
  BY <1>1, <1>2, <1>3
<1>5. PlaceIn(order, order[k]) = k
  BY <1>4, PlaceOf
<1> QED
  BY <1>3, <1>5

\* A completed render has the values that MadeBy says, on a hit or a miss.
LEMMA HitLooksLikeMissHolds ==
    ASSUME MadeInOrder
    PROVE  HitLooksLikeMiss
<1> SUFFICES ASSUME Answered200 PROVE HitLooksLikeMiss
  BY DEF HitLooksLikeMiss
<1> DEFINE n == NamesOf(context)
           upTo(stage) == {StageOrder[i] : i \in 1..SelectInSeq(StageOrder, LAMBDA x : x = stage)}
                           \ {"geometry_estimator"}
<1>1. MadeBy("answered", Current.kind, Settings.geometry_enabled, n)
  BY DEF MadeInOrder, Spot
<1>2. \A v \in Values : Names(context[v]) = n[v]
  BY DEF NamesOf
<1>3. /\ upTo("detector") = {"detector"}
      /\ upTo("segmenter") = {"detector", "segmenter"}
      /\ upTo("foreground_refiner") = {"detector", "segmenter", "foreground_refiner"}
      /\ upTo("depth_estimator") = {"detector", "segmenter", "foreground_refiner", "depth_estimator"}
      /\ upTo("normal_estimator")
            = {"detector", "segmenter", "foreground_refiner", "depth_estimator", "normal_estimator"}
      /\ upTo("shadow_generator")
            = {"detector", "segmenter", "foreground_refiner", "depth_estimator", "normal_estimator",
               "shadow_generator"}
      /\ upTo("composer")
            = {"detector", "segmenter", "foreground_refiner", "depth_estimator", "normal_estimator",
               "shadow_generator", "composer"}
  <2>1. /\ StageOrder[1] = "detector" /\ StageOrder[2] = "geometry_estimator"
        /\ StageOrder[3] = "segmenter" /\ StageOrder[4] = "foreground_refiner"
        /\ StageOrder[5] = "depth_estimator" /\ StageOrder[6] = "normal_estimator"
        /\ StageOrder[7] = "shadow_generator" /\ StageOrder[8] = "composer"
    BY DEF StageOrder
  <2> DEFINE upToPlace(stage) == {StageOrder[i] : i \in 1..PlaceIn(StageOrder, stage)}
             first(k) == {StageOrder[i] : i \in 1..k} \ {"geometry_estimator"}
  <2>2. \A k \in 1..9 : upTo(StageOrder[k]) = first(k)
    <3>1. \A stage : upTo(stage) = upToPlace(stage) \ {"geometry_estimator"}
      BY DEF PlaceIn
    <3>2. \A k \in 1..9 : upToPlace(StageOrder[k]) = {StageOrder[i] : i \in 1..k}
      BY UpTo
    <3> HIDE DEF upTo, upToPlace
    <3> QED  BY <3>1, <3>2
  <2>3. /\ first(1) = {"detector"} /\ first(3) = {"detector", "segmenter"}
        /\ first(4) = {"detector", "segmenter", "foreground_refiner"}
    BY <2>1
  <2>4. /\ first(5) = first(4) \cup {"depth_estimator"}
        /\ first(6) = first(5) \cup {"normal_estimator"}
        /\ first(7) = first(6) \cup {"shadow_generator"}
        /\ first(8) = first(7) \cup {"composer"}
    BY <2>1
  <2> HIDE DEF upTo, first
  <2>5. /\ upTo(StageOrder[1]) = first(1) /\ upTo(StageOrder[3]) = first(3)
        /\ upTo(StageOrder[4]) = first(4) /\ upTo(StageOrder[5]) = first(5)
        /\ upTo(StageOrder[6]) = first(6) /\ upTo(StageOrder[7]) = first(7)
        /\ upTo(StageOrder[8]) = first(8)
    BY <2>2 DEF first
  <2> QED  BY <2>1, <2>3, <2>4, <2>5
<1>4. /\ n["detection"] = ByDetector /\ n["segmentation"] = BySegmenter
      /\ n["cutout"] = ByRefiner /\ n["refinement"] = ByRefiner
      /\ n["depth"] = ByDepth /\ n["normals"] = ByNormals
      /\ n["shadow"] = ByShadow /\ n["composition"] = ByComposer
  BY <1>1, Reached DEF MadeBy
<1> DEFINE madeBy == [detection |-> upTo("detector"), segmentation |-> upTo("segmenter"),
                   cutout |-> upTo("foreground_refiner"),
                   refinement |-> upTo("foreground_refiner"),
                   depth |-> upTo("depth_estimator"), normals |-> upTo("normal_estimator"),
                   shadow |-> upTo("shadow_generator"), composition |-> upTo("composer")]
<1> HIDE DEF n, upTo
<1>5. \A v \in DOMAIN madeBy : v \in Values /\ n[v] \ {"source"} = madeBy[v]
  <2>1. /\ ByDetector \ {"source"} = upTo("detector")
        /\ BySegmenter \ {"source"} = upTo("segmenter")
        /\ ByRefiner \ {"source"} = upTo("foreground_refiner")
        /\ ByDepth \ {"source"} = upTo("depth_estimator")
        /\ ByNormals \ {"source"} = upTo("normal_estimator")
        /\ ByShadow \ {"source"} = upTo("shadow_generator")
        /\ ByComposer \ {"source"} = upTo("composer")
    BY <1>3 DEF ByDetector, BySegmenter, ByRefiner, ByDepth, ByNormals, ByShadow, ByComposer
  <2> QED  BY <1>4, <2>1 DEF Values
<1>6. \A v \in DOMAIN madeBy : {p[1] : p \in context[v]} \ {"source"} = madeBy[v]
  <2> HIDE DEF madeBy
  <2> QED  BY <1>2, <1>5 DEF Names
<1> QED
  BY <1>6 DEF HitLooksLikeMiss, upTo

-----------------------------------------------------------------------------
(* The shadow and the composition of the current request.                  *)

\* The shadow and the composition are made by this request, and not taken
\* from a snapshot.
MadeNow ==
    /\ Spot \in AfterShadow => <<"shadow_generator", Own>> \in context["shadow"]
    /\ Spot \in AfterComposer => <<"composer", Own>> \in context["composition"]

\* The spots of the end of a run.
LEMMA SpotIs ==
    /\ AfterShadow = {"composer", "encode", "answered"} /\ AfterComposer = {"encode", "answered"}
    /\ at # "idle" => Spot = at
    /\ (at = "idle" /\ result # "completed") => Spot = "idle"
    /\ (at = "idle" /\ result = "completed") => Spot = "answered"
BY DEF AfterShadow, AfterComposer, Spot, Answered200

\* MadeNow holds at first.
LEMMA MadeNowInit == PipelineInit => MadeNow
BY SpotIs DEF PipelineInit, MadeNow

\* It holds as long as the run is not beyond the shadow stage.
LEMMA NotMadeYet ==
    ASSUME (at' = "idle" /\ result' # "completed") \/ (at' # "idle" /\ at' \notin {"composer", "encode"}) ,
           at' \in Steps
    PROVE  MadeNow'
<1>1. Spot' \notin {"composer", "encode", "answered"}
  BY RunStagesAre DEF Spot, Answered200, Steps
<1> QED
  BY <1>1, SpotIs DEF MadeNow

\* What a stage makes has its mark, and nothing else changes.
LEMMA OwnMade ==
    ASSUME at \in RunStages, LineageOK, NEW id, NEW o, Hands(at, id, o)
    PROVE  /\ \A v \in Outputs(at) : v \in Values /\ <<at, Own>> \in Assign(context, at, Lineage(at, o, Own))[v]
           /\ \A v \in Values \ Outputs(at) : Assign(context, at, Lineage(at, o, Own))[v] = context[v]
<1>1. <<at, Own>> \in Lineage(at, o, Own)
  BY DEF Lineage, Hands
<1>2. Outputs(at) \subseteq Values
  BY InputsAreValues
<1> HIDE DEF Lineage
<1> QED
  BY <1>1, <1>2 DEF Assign

\* Every step keeps MadeNow.
LEMMA MadeNowNext ==
    ASSUME RuntimeMade, ControlOK, LineageOK, MadeNow, [PipelineNext]_pipelineVars
    PROVE  MadeNow'
<1>0. at' \in Steps
  BY ControlNext DEF ControlOK
<1>1. CASE Arrive
  BY <1>0, <1>1, NotMadeYet DEF Arrive
<1>2. CASE DecodeFails
  BY <1>0, <1>2, NotMadeYet DEF DecodeFails, Ends
<1>3. CASE Decode
  <2>1. \/ at' = "idle" /\ result' \in {"debug", "raw"}
        \/ at' \in {"lookup", "geometry_estimator", "detector"}
    BY <1>3, AfterDebug, RaisesRawIs DEF Decode, Ends
  <2> QED  BY <1>0, <2>1, NotMadeYet
<1>4. CASE Lookup
  BY <1>0, <1>4, NotMadeYet, RaisesRawIs DEF Lookup
<1>5. CASE RenderStage
  <2>1. at \in RunStages /\ at # "idle" /\ UNCHANGED <<runtime, log>>
    BY <1>5, RenderStageIs, RunStagesAre
  <2>2. PICK id, o : RenderHands(id, o) \/ RenderFails(o)
    BY <1>5, RenderStageIs
  <2>3. CASE RenderFails(o)
    BY <1>0, <2>3, NotMadeYet DEF RenderFails, EndsWith, Ends, Normalize
  <2>4. CASE RenderHands(id, o)
    <3>1. /\ Hands(at, id, o) /\ at' = After(RenderOrder, at)
          /\ context' = Assign(context, at, Lineage(at, o, Own))
      BY <2>4 DEF RenderHands
    <3>2. /\ \A v \in Outputs(at) : <<at, Own>> \in context'[v]
          /\ \A v \in Values \ Outputs(at) : context'[v] = context[v]
      BY <2>1, <3>1, OwnMade
    <3>3. Own' = Own
      BY <2>1, SameRun
    <3>4. CASE at = "shadow_generator"
      <4>1. at' = "composer"
        BY <3>1, <3>4, AfterRender
      <4>2. <<"shadow_generator", Own>> \in context'["shadow"]
        BY <3>2, <3>4 DEF Outputs
      <4>3. Spot' = "composer"
        BY <4>1 DEF Spot, Answered200
      <4> QED  BY <3>3, <4>2, <4>3, SpotIs DEF MadeNow
    <3>5. CASE at = "composer"
      <4>1. at' = "encode"
        BY <3>1, <3>5, AfterRender
      <4>2. <<"composer", Own>> \in context'["composition"] /\ context'["shadow"] = context["shadow"]
        BY <3>2, <3>5 DEF Outputs, Values
      <4>3. <<"shadow_generator", Own>> \in context["shadow"]
        BY <3>5, SpotIs DEF MadeNow
      <4> QED  BY <3>3, <4>2, <4>3 DEF MadeNow
    <3>6. CASE at \notin {"shadow_generator", "composer"}
      <4>1. at' \in {"geometry_estimator", "crop", "foreground_refiner", "depth_estimator",
                     "normal_estimator", "save"}
        BY <2>1, <3>1, <3>6, NotYetShadow
      <4> QED  BY <1>0, <4>1, NotMadeYet
    <3> QED  BY <3>4, <3>5, <3>6
  <2> QED  BY <2>2, <2>3, <2>4
<1>6. CASE Crop
  <2>1. (at' = "idle" /\ result' = "raw") \/ at' = "segmenter"
    BY <1>6, AfterRender DEF Crop, RaisesOnBox, EndsWith, Ends
  <2> QED  BY <1>0, <2>1, NotMadeYet
<1>7. CASE Save
  <2>1. (at' = "idle" /\ result' = "raw") \/ at' = "shadow_generator"
    BY <1>7, AfterRender, RaisesRawIs DEF Save
  <2> QED  BY <1>0, <2>1, NotMadeYet
<1>8. CASE Encode
  <2>1. at = "encode" /\ UNCHANGED <<runtime, log, context>>
    BY <1>8 DEF Encode
  <2>2. Own' = Own /\ Spot = "encode"
    BY <2>1, SameRun, SpotIs
  <2> QED  BY <2>1, <2>2, SpotIs DEF MadeNow
<1>9. CASE DebugStage
  <2>1. at \in RunStages /\ at # "idle" /\ UNCHANGED <<runtime, log>>
    BY <1>9, DebugStageIs, RunStagesAre
  <2>2. DebugFails \/ \E id, o : DebugHands(id, o) \/ DebugDraws(id, o) \/ DebugRaises(id, o)
    BY <1>9, DebugStageIs
  <2>3. CASE DebugFails
    BY <1>0, <2>1, <2>3, NotMadeYet, DebugListsIs DEF DebugFails
  <2>4. ASSUME NEW id, NEW o, DebugDraws(id, o) \/ DebugRaises(id, o) PROVE MadeNow'
    BY <1>0, <2>4, NotMadeYet, RaisesRawIs DEF DebugDraws, DebugRaises, RaisesOnBox, EndsWith, Ends
  <2>5. ASSUME NEW id, NEW o, DebugHands(id, o) PROVE MadeNow'
    <3>1. /\ Hands(at, id, o) /\ DebugLists("completed")
          /\ context' = IF at = "detector" THEN Cropped(DebugCtx(o)) ELSE DebugCtx(o)
      BY <2>5 DEF DebugHands
    <3>2. CASE at' = "idle" /\ result' = "debug"
      BY <1>0, <3>2, NotMadeYet
    <3>3. CASE at # "composer" /\ at' = After(DebugOrder, at)
      <4>1. CASE at = "shadow_generator"
        <5>1. at' = "composer"
          BY <3>3, <4>1, AfterDebug
        <5>2. <<at, Own>> \in context'["shadow"]
          BY <2>1, <3>1, <4>1, OwnMade DEF Outputs, DebugCtx
        <5>3. Own' = Own
          BY <2>1, SameRun
        <5>4. Spot' = "composer"
          BY <5>1 DEF Spot, Answered200
        <5> QED  BY <4>1, <5>2, <5>3, <5>4, SpotIs DEF MadeNow
      <4>2. CASE at # "shadow_generator"
        <5>1. at' \in {"detector", "segmenter", "foreground_refiner", "depth_estimator",
                       "normal_estimator", "shadow_generator"}
          <6>1. at = "geometry_estimator" => Settings.geometry_enabled
            BY DEF ControlOK
          <6> QED  BY <2>1, <3>3, <4>2, <6>1, AfterDebug, RunStagesAre
        <5> QED  BY <1>0, <5>1, NotMadeYet
      <4> QED  BY <4>1, <4>2
    <3> QED  BY <2>1, <3>1, <3>2, <3>3, DebugListsIs
  <2> QED  BY <2>2, <2>3, <2>4, <2>5
<1>10. CASE UNCHANGED pipelineVars
  BY <1>10 DEF pipelineVars, MadeNow, Spot, Answered200, Own
<1>11. CASE Restart
  BY <1>0, <1>11, NotMadeYet DEF Restart
<1> QED
  BY <1>1, <1>2, <1>3, <1>4, <1>5, <1>6, <1>7, <1>8, <1>9, <1>10, <1>11 DEF PipelineNext

\* With LineageOK it makes AnswerIsOfThisImage.
LEMMA AnswerHolds ==
    ASSUME ControlOK, LineageOK, MadeNow
    PROVE  AnswerIsOfThisImage
<1> SUFFICES ASSUME Answered200 PROVE AnswerIsOfThisImage
  BY DEF AnswerIsOfThisImage
<1>1. KeyOf(Own) = MakeKey(Current)
  BY KeyIsMade DEF Answered200
<1>2. Spot = "answered"
  BY DEF Spot
<1>3. /\ <<"shadow_generator", Own>> \in context["shadow"]
      /\ <<"composer", Own>> \in context["composition"]
  BY <1>2, SpotIs DEF MadeNow
<1>4. ASSUME NEW v \in Values, NEW p \in context[v]
      PROVE  log[p[2]].image = Current.image /\ log[p[2]].padding = Current.padding
  <2>1. p \in OwnParts
    BY DEF LineageOK
  <2>2. KeyOf(p[2]) = MakeKey(Current)
    BY <1>1, <2>1 DEF OwnParts, PartsOf
  <2> QED  BY <2>2 DEF KeyOf, MakeKey
<1> QED
  BY <1>3, <1>4 DEF AnswerIsOfThisImage

\* So it does AnswerIsOfThisRuntime: the key has the signature of the runtime
\* that a part was made in.
LEMMA RuntimeAnswerHolds ==
    ASSUME ControlOK, LineageOK
    PROVE  AnswerIsOfThisRuntime
<1> SUFFICES ASSUME Answered200, NEW v \in Values, NEW p \in context[v]
             PROVE  LET then == under[p[2]]
                    IN /\ then.settings.working_square = Settings.working_square
                       /\ p[1] \in Stages => /\ then.components[p[1]].id = Components[p[1]].id
                                             /\ then.versions[p[1]] = runtime.versions[p[1]]
  BY DEF AnswerIsOfThisRuntime
<1>1. KeyOf(p[2]) = MakeKey(Current)
  <2>1. KeyOf(Own) = MakeKey(Current)
    BY KeyIsMade DEF Answered200
  <2>2. p \in OwnParts
    BY DEF LineageOK
  <2> QED  BY <2>1, <2>2 DEF OwnParts, PartsOf
<1>2. PICK then : then = under[p[2]]
  OBVIOUS
<1>3. /\ then.settings.working_square = Settings.working_square
      /\ Signature(then) = Signature(runtime)
  BY <1>1, <1>2 DEF KeyOf, MakeKey
<1>4. ASSUME NEW stage \in Stages
      PROVE  /\ then.components[stage].id = Components[stage].id
             /\ then.versions[stage] = runtime.versions[stage]
  <2>1. Signature(then)[stage] = Signature(runtime)[stage]
    BY <1>3
  <2>2. \A r : Signature(r)[stage] = [id |-> r.components[stage].id, version |-> r.versions[stage]]
    BY DEF Signature
  <2>3. [id |-> then.components[stage].id, version |-> then.versions[stage]]
            = [id |-> runtime.components[stage].id, version |-> runtime.versions[stage]]
    BY <2>1, <2>2
  <2> QED  BY <2>3 DEF Components
<1> QED
  BY <1>2, <1>3, <1>4

-----------------------------------------------------------------------------
(* Timeouts.                                                               *)

\* The current request has a snapshot to find.
Saved == \E x \in cache : x.key = MakeKey(Current)

\* From the shadow stage on it has, by a hit or by saving it: a late render
\* leaves it to the retry.
SavedByNow ==
    (at \in {"shadow_generator", "composer", "encode"} /\ Current.kind = "render") => Saved

\* TimeoutsAreTimeouts, and what it needs of a run that may become late.
TimeoutsInv == SavedByNow /\ TimeoutsAreTimeouts

\* TimeoutsInv holds at first.
LEMMA TimeoutsInit == PipelineInit => TimeoutsInv
BY DEF PipelineInit, TimeoutsInv, SavedByNow, TimeoutsAreTimeouts

\* It holds inside a request if the snapshot is there from the shadow stage on.
LEMMA TimeoutsGoOn ==
    ASSUME at' # "idle", (at' \in {"shadow_generator", "composer", "encode"}
                              /\ Current'.kind = "render") => Saved'
    PROVE  TimeoutsInv'
BY DEF TimeoutsInv, SavedByNow, TimeoutsAreTimeouts

\* It holds at an end that has nothing to do with time.
LEMMA EndsInTime ==
    ASSUME at' = "idle", result' # "timeout", fault'.name # "late", fault'.wire \notin Timeouts
    PROVE  TimeoutsInv'
BY DEF TimeoutsInv, SavedByNow, TimeoutsAreTimeouts, Timeouts

\* It says nothing of a debug run.
LEMMA EndsDebugRun ==
    ASSUME at' = "idle", Current'.kind = "debug"
    PROVE  TimeoutsInv'
BY DEF TimeoutsInv, SavedByNow, TimeoutsAreTimeouts

\* The snapshot stays.
LEMMA SavedStays ==
    ASSUME UNCHANGED <<runtime, log, cache>>
    PROVE  Saved' = Saved
<1>1. Current' = Current /\ Settings' = Settings
  BY SameRun
<1> QED
  BY <1>1 DEF Saved, MakeKey, Signature

\* The exception of a box that cannot be cropped.
LEMMA RaisedIs ==
    ASSUME NEW ctx, ~HasArea(ctx), RaisesOnBox(ctx)
    PROVE  /\ at' = "idle" /\ result' = "raw" /\ fault'.wire = "ok" /\ fault'.stage = "crop"
           /\ fault'.name \in BadBoxes(ctx) /\ fault'.name \in {"ZeroDivisionError", "ValueError"}
<1>1. PICK raised : raised = CHOOSE name \in BadBoxes(ctx) : TRUE
  OBVIOUS
<1>2. raised \in BadBoxes(ctx)
  BY <1>1 DEF HasArea
<1>3. /\ at' = "idle" /\ result' = "raw"
      /\ fault' = [stage |-> "crop", name |-> Outcome(raised, "good", "ok").name,
                   wire |-> Outcome(raised, "good", "ok").wire]
  BY <1>1 DEF RaisesOnBox, EndsWith, Ends
<1>4. fault'.name = raised /\ fault'.wire = "ok" /\ fault'.stage = "crop"
  BY <1>3, OutcomeFields
<1> QED
  BY <1>2, <1>3, <1>4 DEF BadBoxes

\* Every step keeps TimeoutsInv.
LEMMA TimeoutsNext ==
    ASSUME RuntimeMade, ControlOK, TimeoutsInv, [PipelineNext]_pipelineVars
    PROVE  TimeoutsInv'
<1>1. CASE Arrive
  BY <1>1, TimeoutsGoOn DEF Arrive
<1>2. CASE DecodeFails
  <2>1. at' = "idle" /\ result' \in {"unsupported_input", "validation_error"} /\ fault' = NoFault
    BY <1>2 DEF DecodeFails, Ends, ControlOK
  <2>2. fault'.name = "none" /\ fault'.wire = "none"
    BY <2>1 DEF NoFault
  <2> QED  BY <2>1, <2>2, EndsInTime DEF Timeouts
<1>3r. CASE RaisesRaw
  <2>1. "late" \notin AssetErrors
    BY DEF AssetErrors
  <2> QED  BY <1>3r, <2>1, RaisesRawIs, EndsInTime DEF Timeouts
<1>3. CASE Decode /\ ~RaisesRaw
  <2>1. at = "decode" /\ fault' = NoFault
    BY <1>3 DEF Decode, ControlOK
  <2>2. fault'.name = "none" /\ fault'.wire = "none"
    BY <2>1 DEF NoFault
  <2>3. \/ at' = "idle" /\ result' = "debug"
        \/ at' \in {"lookup", "geometry_estimator", "detector"}
    BY <1>3, AfterDebug DEF Decode, Ends
  <2>4. CASE at' = "idle" /\ result' = "debug"
    BY <2>2, <2>4, EndsInTime DEF Timeouts
  <2> QED  BY <2>3, <2>4, TimeoutsGoOn
<1>4. CASE Lookup /\ ~RaisesRaw
  <2> DEFINE hits == {x \in cache : x.key = MakeKey(Current)}
  <2>1. UNCHANGED <<runtime, log, cache>>
    BY <1>4 DEF Lookup
  <2>2. at' = IF hits = {} THEN "detector" ELSE "shadow_generator"
    BY <1>4 DEF Lookup
  <2>3. hits # {} => Saved
    BY DEF Saved
  <2> QED  BY <2>1, <2>2, <2>3, SavedStays, TimeoutsGoOn
<1>5. CASE RenderStage
  <2>1. /\ at \in RunStages /\ at # "idle" /\ UNCHANGED <<runtime, log, cache>>
        /\ Current.kind = "render"
    BY <1>5, RenderStageIs, RunStagesAre
  <2>2. PICK id, o : RenderHands(id, o) \/ RenderFails(o)
    BY <1>5, RenderStageIs
  <2>3. CASE RenderFails(o)
    <3>1. /\ at' = "idle" /\ result' = Normalize(o.name) /\ fault'.name = o.name /\ fault'.wire = o.wire
          /\ Fails(o)
      BY <2>3 DEF RenderFails, EndsWith, Ends
    <3>2. result' = "timeout" <=> o.name = "TritonTimeout"
      BY <3>1 DEF Normalize
    <3>3. runtime' = runtime
      BY <2>1
    <3> QED  BY <3>1, <3>2, <3>3 DEF Fails, Native, TimeoutsInv, SavedByNow, TimeoutsAreTimeouts, Timeouts
  <2>4. CASE RenderHands(id, o)
    <3>1. at' = After(RenderOrder, at)
      BY <2>4 DEF RenderHands
    <3>2. at \in {"shadow_generator", "composer"} => Saved
      BY <2>1 DEF TimeoutsInv, SavedByNow
    <3>3. CASE at \in {"shadow_generator", "composer"}
      <4>1. at' \in {"composer", "encode"}
        BY <3>1, <3>3, AfterRender
      <4> QED  BY <2>1, <3>2, <3>3, <4>1, SavedStays, TimeoutsGoOn
    <3>4. CASE at \notin {"shadow_generator", "composer"}
      <4>1. at' \in {"geometry_estimator", "crop", "foreground_refiner", "depth_estimator",
                     "normal_estimator", "save"}
        BY <2>1, <3>1, <3>4, NotYetShadow
      <4> QED  BY <4>1, TimeoutsGoOn
    <3> QED  BY <3>3, <3>4
  <2> QED  BY <2>2, <2>3, <2>4
<1>6. CASE Crop
  <2> DEFINE ctx == IF Settings.geometry_enabled THEN context
                    ELSE [context EXCEPT !["geometry"] = {<<"disabled", Own>>}]
  <2>1. \/ at' = "segmenter"
        \/ ~HasArea(ctx) /\ RaisesOnBox(ctx)
    BY <1>6, AfterRender DEF Crop
  <2>2. CASE ~HasArea(ctx) /\ RaisesOnBox(ctx)
    <3> HIDE DEF ctx
    <3>1. at' = "idle" /\ result' = "raw" /\ fault'.wire = "ok" /\ fault'.name # "late"
      BY <2>2, RaisedIs
    <3> QED  BY <3>1, EndsInTime DEF Timeouts
  <2> QED  BY <2>1, <2>2, TimeoutsGoOn
<1>7. CASE Save /\ ~RaisesRaw
  <2> DEFINE saved == [key |-> MakeKey(Current), values |-> [v \in Snapshotted |-> context[v]]]
  <2>1. UNCHANGED <<runtime, log>> /\ saved \in cache' /\ at' = "shadow_generator"
    BY <1>7, AfterRender DEF Save
  <2>2. Current' = Current /\ Settings' = Settings /\ saved.key = MakeKey(Current)
    BY <2>1, SameRun
  <2> HIDE DEF saved
  <2>3. Saved'
    BY <2>1, <2>2 DEF Saved, MakeKey, Signature
  <2> QED  BY <2>1, <2>3, TimeoutsGoOn
<1>8. CASE Encode /\ ~RaisesRaw
  <2>1. /\ at = "encode" /\ UNCHANGED <<runtime, log, cache>> /\ Current.kind = "render" /\ Saved
        /\ fault = NoFault
    BY <1>8 DEF Encode, ControlOK, TimeoutsInv, SavedByNow
  <2>2. Saved' /\ Current' = Current
    BY <2>1, SavedStays, SameRun
  <2>3. \/ EndsWith("raw", at, Outcome("AttributeError", "good", "ok"))
        \/ EndsWith("timeout", at, Outcome("late", "good", "ok"))
        \/ Ends("completed") /\ UNCHANGED fault
    BY <1>8 DEF Encode
  <2>4. CASE EndsWith("raw", at, Outcome("AttributeError", "good", "ok"))
    <3>1. at' = "idle" /\ result' = "raw" /\ fault'.name = "AttributeError" /\ fault'.wire = "ok"
      BY <2>4, OutcomeFields DEF EndsWith, Ends
    <3> QED  BY <3>1, EndsInTime DEF Timeouts
  <2>5. CASE EndsWith("timeout", at, Outcome("late", "good", "ok"))
    <3>1. at' = "idle" /\ result' = "timeout" /\ fault'.name = "late"
      BY <2>5, OutcomeFields DEF EndsWith, Ends
    <3> QED  BY <2>2, <3>1 DEF TimeoutsInv, SavedByNow, TimeoutsAreTimeouts, Saved
  <2>6. CASE Ends("completed") /\ UNCHANGED fault
    <3>1. at' = "idle" /\ result' = "completed" /\ fault'.name = "none" /\ fault'.wire = "none"
      BY <2>1, <2>6 DEF Ends, NoFault
    <3> QED  BY <3>1, EndsInTime DEF Timeouts
  <2> QED  BY <2>3, <2>4, <2>5, <2>6
<1>9. CASE DebugStage
  <2>1. UNCHANGED <<runtime, log>> /\ Current.kind = "debug"
    BY <1>9, DebugStageIs
  <2>2. Current'.kind = "debug"
    BY <2>1, SameRun
  <2> QED  BY <2>2, EndsDebugRun, TimeoutsGoOn
<1>10. CASE UNCHANGED pipelineVars
  <2>1. Current' = Current /\ Settings' = Settings /\ Saved' = Saved
    BY <1>10, SameRun, SavedStays DEF pipelineVars
  <2> QED  BY <1>10, <2>1 DEF pipelineVars, TimeoutsInv, SavedByNow, TimeoutsAreTimeouts, Saved, MakeKey,
                              Signature
<1>11. CASE Restart
  BY <1>11 DEF Restart, TimeoutsInv, SavedByNow, TimeoutsAreTimeouts
<1> QED
  BY <1>1, <1>2, <1>3r, <1>3, <1>4, <1>5, <1>6, <1>7, <1>8, <1>9, <1>10, <1>11 DEF PipelineNext

-----------------------------------------------------------------------------
(* What escapes the service's own errors.                                  *)

\* A bad box on its way to the crop of a render is from Triton's plain
\* detector, which start-up has chosen.
BadBoxOfServed ==
    (at \in {"crop", "geometry_estimator"} /\ Current.kind = "render"
        /\ "ZeroDivisionError" \in NamesOf(context)["detection"])
      => Components["detector"].id = ServedDetector

\* RawFaultsAreKnown, and what it needs of a detection not yet cropped.
BoxesInv == BadBoxOfServed /\ RawFaultsAreKnown

\* BoxesInv holds at first.
LEMMA BoxesInit == PipelineInit => BoxesInv
BY DEF PipelineInit, BoxesInv, BadBoxOfServed, RawFaultsAreKnown

\* It holds after a step that raises nothing and leaves no detection uncropped.
LEMMA BoxesGoOn ==
    ASSUME result' # "raw", at' \notin {"crop", "geometry_estimator"} \/ Current'.kind # "render"
    PROVE  BoxesInv'
BY DEF BoxesInv, BadBoxOfServed, RawFaultsAreKnown

\* It holds at the end that an error of a file or a picture makes.
LEMMA EndsRaw ==
    ASSUME RaisesRaw, UNCHANGED <<runtime, log>>,
           at \in IF Current.kind = "render" THEN {"lookup", "save", "encode"} ELSE {"decode"} \cup Drawn
    PROVE  BoxesInv'
<1>1. Current' = Current
  BY SameRun
<1>2. at' = "idle" /\ fault'.stage = at /\ fault'.name \in AssetErrors
  BY RaisesRawIs
<1>3. at # "crop"
  BY DEF Drawn
<1> QED
  BY <1>1, <1>2, <1>3 DEF BoxesInv, BadBoxOfServed, RawFaultsAreKnown

\* The encoder finds all values it shows.
LEMMA EncodeHasAll ==
    ASSUME ControlOK, RunOrder, at = "encode"
    PROVE  \A v \in {"composition", "segmentation", "cutout", "depth", "normals", "shadow"} :
               context[v] # {}
<1> DEFINE n == NamesOf(context)
           geometry == Settings.geometry_enabled
<1>1. \A v \in Values : context[v] = {} <=> n[v] = {}
  BY NamesAre DEF NamesOf
<1>2. MadeBy("encode", Current.kind, geometry, n)
  BY OrderHere DEF RunOrder
<1> HIDE DEF n, geometry
<1>3. /\ n["composition"] = ByComposer /\ n["segmentation"] = BySegmenter /\ n["cutout"] = ByRefiner
      /\ n["depth"] = ByDepth /\ n["normals"] = ByNormals /\ n["shadow"] = ByShadow
  BY <1>2, Reached DEF MadeBy
<1>4. /\ ByComposer # {} /\ BySegmenter # {} /\ ByRefiner # {} /\ ByDepth # {} /\ ByNormals # {}
      /\ ByShadow # {}
  BY DEF ByDetector, BySegmenter, ByRefiner, ByDepth, ByNormals, ByShadow, ByComposer
<1> QED
  BY <1>1, <1>3, <1>4 DEF Values

\* The crop of a render keeps BoxesInv: what it raises is of an empty box.
LEMMA CropRaisesOnlyFor ==
    ASSUME RuntimeMade, ControlOK, LineageOK, RunOrder, BoxesInv, Crop
    PROVE  BoxesInv'
<1> DEFINE n == NamesOf(context)
           ctx == IF Settings.geometry_enabled THEN context
                  ELSE [context EXCEPT !["geometry"] = {<<"disabled", Own>>}]
<1>1. at = "crop" /\ UNCHANGED <<runtime, log>> /\ Current.kind = "render" /\ result = "none"
  BY DEF Crop, ControlOK
<1>2. Current' = Current /\ Components' = Components
  BY <1>1, SameRun
<1>3. \/ at' = "segmenter" /\ result' = result
      \/ ~HasArea(ctx) /\ RaisesOnBox(ctx)
  BY AfterRender DEF Crop
<1>4. ctx["detection"] = context["detection"]
  BY DEF LineageOK, Values
<1>5. BadBoxes(ctx) = n["detection"] \cap {"ZeroDivisionError", "ValueError"}
  BY <1>4, AreaNames DEF BadBoxes
<1>6. MadeBy("crop", "render", Settings.geometry_enabled, n)
  BY <1>1, OrderHere DEF RunOrder
<1> HIDE DEF n, ctx
<1>7. n["detection"] \ {"ZeroDivisionError"} = ByDetector
  BY <1>6 DEF MadeBy
<1>8. CASE ~HasArea(ctx) /\ RaisesOnBox(ctx)
  <2>1. at' = "idle" /\ result' = "raw" /\ fault'.stage = "crop" /\ fault'.name \in BadBoxes(ctx)
    BY <1>8, RaisedIs
  <2>2. fault'.name = "ZeroDivisionError" /\ "ZeroDivisionError" \in n["detection"]
    BY <1>5, <1>7, <2>1 DEF ByDetector
  <2>3. Components["detector"].id = ServedDetector
    BY <1>1, <2>2 DEF BoxesInv, BadBoxOfServed, n
  <2> QED  BY <1>1, <1>2, <2>1, <2>2, <2>3 DEF BoxesInv, BadBoxOfServed, RawFaultsAreKnown, ServedDetector
<1> QED
  BY <1>1, <1>3, <1>8, BoxesGoOn

\* A stage of a render keeps BoxesInv.
LEMMA RenderBoxes ==
    ASSUME RuntimeMade, ControlOK, RunOrder, BoxesInv, RenderStage
    PROVE  BoxesInv'
<1> DEFINE n == NamesOf(context)
           m == NamesOf(context')
<1>1. /\ at \in RunStages /\ at # "idle" /\ Current.kind = "render" /\ UNCHANGED <<runtime, log>>
      /\ result = "none"
  BY RenderStageIs, RunStagesAre DEF ControlOK
<1>2. Current' = Current /\ Components' = Components
  BY <1>1, SameRun
<1>3. PICK id, o : /\ at = "detector" => id = Components["detector"].id
                   /\ RenderHands(id, o) \/ RenderFails(o)
  BY RenderStageIs
<1>4. CASE RenderFails(o)
  BY <1>4, BoxesGoOn DEF RenderFails, EndsWith, Ends, Normalize
<1>5. CASE RenderHands(id, o)
  <2>1. /\ Hands(at, id, o) /\ context' = Assign(context, at, Lineage(at, o, Own))
        /\ at' = After(RenderOrder, at) /\ result' = "none"
    BY <1>1, <1>5 DEF RenderHands
  <2>2. CASE at = "detector"
    <3>1. PICK bad \in SUBSET {"ZeroDivisionError"} :
              /\ m = Given(n, "detector", ({"detector"} \cup InputNames("detector", n)) \cup bad)
              /\ o.box = "good" => bad = {}
      BY <1>1, <2>1, <2>2, GivenNames
    <3>2. MadeBy("detector", "render", Settings.geometry_enabled, n)
      BY <1>1, <2>2, OrderHere DEF RunOrder
    <3>3. NamesOf(context)' = m
      BY DEF NamesOf
    <3> HIDE DEF n, m
    <3>4. n["source"] = {"source"}
      BY <3>2 DEF MadeBy
    <3>5. m["detection"] = ({"detector"} \cup {"source"}) \cup bad
      BY <3>1, <3>4 DEF Given, Outputs, Values, InputNames
    <3>6. "ZeroDivisionError" \in m["detection"] => id = ServedDetector
      BY <2>1, <3>1, <3>5 DEF Hands
    <3> QED  BY <1>2, <1>3, <2>1, <2>2, <3>3, <3>6 DEF BoxesInv, BadBoxOfServed, RawFaultsAreKnown
  <2>3. CASE at = "geometry_estimator"
    <3>1. context'["detection"] = context["detection"]
      BY <2>1, <2>3 DEF Assign, Outputs, Values
    <3>2. NamesOf(context)'["detection"] = NamesOf(context)["detection"]
      BY <3>1 DEF NamesOf, Values
    <3> QED  BY <1>1, <1>2, <2>1, <2>3, <3>2 DEF BoxesInv, BadBoxOfServed, RawFaultsAreKnown
  <2>4. CASE at \notin {"detector", "geometry_estimator"}
    <3>1. at' \in {"foreground_refiner", "depth_estimator", "normal_estimator", "save", "composer",
                   "encode"}
      BY <1>1, <2>1, <2>4, AfterRender, RunStagesAre
    <3> QED  BY <2>1, <3>1, BoxesGoOn
  <2> QED  BY <2>2, <2>3, <2>4
<1> QED
  BY <1>3, <1>4, <1>5

\* A debug run that raises does so for an empty box of Triton's detector.
LEMMA DebugRaisesOnlyFor ==
    ASSUME ControlOK, RunOrder, at \in RunStages, Current.kind = "debug", UNCHANGED <<runtime, log>>,
           NEW id, NEW o, Executable(Backends, at, id), DebugRaises(id, o)
    PROVE  BoxesInv'
<1> DEFINE n == NamesOf(context)
           g == NamesOf(DebugCtx(o))
           geometry == Settings.geometry_enabled
<1>1. Hands(at, id, o) /\ ~HasArea(DebugCtx(o)) /\ RaisesOnBox(DebugCtx(o))
  BY DEF DebugRaises
<1>2. Current' = Current /\ Backends' = Backends
  BY SameRun
<1>3. PICK stage \in RunStages : stage = at
  OBVIOUS
<1>4. PICK bad \in SUBSET {"ZeroDivisionError"} :
          /\ g = Given(n, stage, ({stage} \cup InputNames(stage, n)) \cup bad)
          /\ (stage # "detector" \/ o.box = "good") => bad = {}
  BY <1>1, <1>3, GivenNames DEF DebugCtx
<1>5. MadeBy(stage, "debug", geometry, n)
  BY <1>3, OrderHere, RunStagesAre DEF RunOrder
<1>6. BadBoxes(DebugCtx(o)) = g["detection"] \cap {"ZeroDivisionError", "ValueError"}
  BY AreaNames
<1>7. /\ at' = "idle" /\ result' = "raw" /\ fault'.stage = "crop" /\ fault'.name \in BadBoxes(DebugCtx(o))
  BY <1>1, RaisedIs
<1> HIDE DEF n, g, geometry
<1>8. CASE stage = "detector"
  <2>1. g["detection"] = ({"detector"} \cup {"source"}) \cup bad
    BY <1>4, <1>5, <1>8 DEF MadeBy, Given, Outputs, Values, InputNames
  <2>2. fault'.name = "ZeroDivisionError" /\ bad # {}
    BY <1>6, <1>7, <2>1
  <2>3. id = ServedDetector
    BY <1>1, <1>4, <2>2 DEF Hands
  <2>4. Executable(Backends, "detector", ServedDetector)
    BY <1>3, <1>8, <2>3
  <2> QED  BY <1>2, <1>7, <2>2, <2>4 DEF BoxesInv, BadBoxOfServed, RawFaultsAreKnown, ServedDetector
<1>9. CASE stage = "geometry_estimator"
  <2>1. n["detection"] = {} /\ g["detection"] = n["detection"]
    BY <1>4, <1>5, <1>9 DEF MadeBy, Given, Outputs, Values
  <2> QED  BY <1>6, <1>7, <2>1
<1>10. CASE stage \in Later
  <2>1. g["detection"] = n["detection"]
    BY <1>4, <1>10 DEF Given, Outputs, Values, Later
  <2>2. n["detection"] = ByDetector
    BY <1>5, <1>10, Reached DEF MadeBy, Later
  <2> QED  BY <1>6, <1>7, <2>1, <2>2 DEF ByDetector
<1> QED
  BY <1>8, <1>9, <1>10, RunStagesAre DEF Later

\* Every step keeps BoxesInv.
LEMMA BoxesNext ==
    ASSUME RuntimeMade, ControlOK, LineageOK, RunOrder, BoxesInv, [PipelineNext]_pipelineVars
    PROVE  BoxesInv'
<1>1. CASE Arrive
  BY <1>1, BoxesGoOn DEF Arrive
<1>2. CASE DecodeFails
  BY <1>2, BoxesGoOn DEF DecodeFails, Ends
<1>3r. CASE (Decode \/ Lookup \/ Save \/ Encode) /\ RaisesRaw
  <2>1. /\ UNCHANGED <<runtime, log>> /\ at \in {"decode", "lookup", "save", "encode"}
        /\ at = "decode" => Current.kind # "render"
    <3>1. at = "decode" /\ Current.kind = "render" => at' = "lookup"
      BY <1>3r DEF Decode, Lookup, Save, Encode
    <3>2. at' = "idle"
      BY <1>3r, RaisesRawIs
    <3> QED  BY <1>3r, <3>1, <3>2 DEF Decode, Lookup, Save, Encode
  <2>2. at # "decode" => Current.kind = "render"
    BY <2>1 DEF ControlOK
  <2> QED  BY <1>3r, <2>1, <2>2, EndsRaw
<1>3. CASE Decode /\ ~RaisesRaw
  <2>1. at = "decode" /\ result = "none" /\ UNCHANGED <<runtime, log>>
    BY <1>3 DEF Decode, ControlOK
  <2>2. \/ at' = "lookup" /\ result' = result
        \/ at' = "idle" /\ result' = "debug"
        \/ Current.kind # "render" /\ result' = result
    BY <1>3 DEF Decode, Ends
  <2>3. Current' = Current
    BY <2>1, SameRun
  <2> QED  BY <2>1, <2>2, <2>3, BoxesGoOn
<1>4. CASE Lookup /\ ~RaisesRaw
  <2>1. at' \in {"detector", "shadow_generator"} /\ result' = "none"
    BY <1>4 DEF Lookup, ControlOK
  <2> QED  BY <2>1, BoxesGoOn
<1>5. CASE RenderStage
  BY <1>5, RenderBoxes
<1>6. CASE Crop
  BY <1>6, CropRaisesOnlyFor
<1>7. CASE Save /\ ~RaisesRaw
  <2>1. at' = "shadow_generator" /\ result' = "none"
    BY <1>7, AfterRender DEF Save, ControlOK
  <2> QED  BY <2>1, BoxesGoOn
<1>8. CASE Encode /\ ~RaisesRaw
  <2>1. at = "encode"
    BY <1>8 DEF Encode
  <2>2. at' = "idle" /\ result' \in {"timeout", "completed"}
    BY <1>8, <2>1, EncodeHasAll DEF Encode, EndsWith, Ends
  <2> QED  BY <2>2, BoxesGoOn
<1>9. CASE DebugStage
  <2>1. /\ at \in RunStages /\ at # "idle" /\ Current.kind = "debug" /\ UNCHANGED <<runtime, log>>
        /\ result = "none"
    BY <1>9, DebugStageIs, RunStagesAre DEF ControlOK
  <2>2. Current'.kind = "debug"
    BY <2>1, SameRun
  <2>3. \/ DebugFails
        \/ \E id, o : /\ Executable(Backends, at, id)
                      /\ DebugHands(id, o) \/ DebugDraws(id, o) \/ DebugRaises(id, o)
    BY <1>9, DebugStageIs
  <2>4. CASE \E status : DebugLists(status)
    <3>1. result' # "raw"
      BY <2>1, <2>4, DebugListsIs
    <3> QED  BY <2>2, <3>1, BoxesGoOn
  <2>5. ASSUME NEW id, NEW o, Executable(Backends, at, id), DebugRaises(id, o) PROVE BoxesInv'
    BY <2>1, <2>5, DebugRaisesOnlyFor
  <2>6. ASSUME NEW id, NEW o, DebugDraws(id, o) PROVE BoxesInv'
    BY <2>1, <2>6, EndsRaw DEF DebugDraws
  <2> QED  BY <2>3, <2>4, <2>5, <2>6 DEF DebugFails, DebugHands
<1>10. CASE UNCHANGED pipelineVars
  <2>1. /\ Current' = Current /\ Components' = Components /\ Backends' = Backends
        /\ NamesOf(context)' = NamesOf(context)
    BY <1>10, SameRun DEF pipelineVars, NamesOf
  <2> QED  BY <1>10, <2>1 DEF pipelineVars, BoxesInv, BadBoxOfServed, RawFaultsAreKnown
<1>11. CASE Restart
  BY <1>11, BoxesGoOn DEF Restart
<1> QED
  BY <1>1, <1>2, <1>3r, <1>3, <1>4, <1>5, <1>6, <1>7, <1>8, <1>9, <1>10,
     <1>11 DEF PipelineNext

-----------------------------------------------------------------------------
(* Warnings.                                                               *)

\* A selection for a request says when it is not what was asked for.
LEMMA FallbackTold ==
    ASSUME NEW registry, NEW stage, NEW kind, NEW variant
    PROVE  LET selection == SelectForDebug(registry, stage, kind, variant)
           IN selection.actual # NoBackend =>
                 selection.fallback = (selection.actual # Id(kind, variant))
<1> DEFINE order == FallbackCandidateIds(stage, kind, variant)
           selection == SelectForDebug(registry, stage, kind, variant)
<1>1. PICK first : first = SelectInSeq(order, LAMBDA id : Executable(registry, stage, id))
  OBVIOUS
<1>2. selection = IF first = 0
                  THEN [requested |-> Id(kind, variant), actual |-> NoBackend,
                        mode |-> [kind |-> "unavailable", fallback |-> FALSE], fallback |-> FALSE]
                  ELSE [requested |-> Id(kind, variant), actual |-> order[first],
                        mode |-> [kind |-> order[first].kind,
                                  fallback |-> order[first] # Id(kind, variant)],
                        fallback |-> order[first] # Id(kind, variant)]
  BY <1>1 DEF SelectForDebug
<1>3. PICK actual, requested : actual = order[first] /\ requested = Id(kind, variant)
  OBVIOUS
<1>4. CASE first = 0
  BY <1>2, <1>4
<1>5. CASE first # 0
  <2>1. selection = [requested |-> requested, actual |-> actual,
                     mode |-> [kind |-> actual.kind, fallback |-> actual # requested],
                     fallback |-> actual # requested]
    BY <1>2, <1>3, <1>5
  <2> HIDE DEF selection
  <2>2. selection.actual = actual /\ selection.fallback = (actual # requested)
    BY <2>1
  <2> QED  BY <1>3, <2>2 DEF selection
<1> QED
  BY <1>4, <1>5

\* The request asks for a shadow model, and another one is chosen.
ShadowReplaced ==
    /\ Current.model # ""
    /\ SelectForDebug(Backends, "shadow_generator", "local", Current.model).fallback

\* The warning about it.
ShadowWarning == <<"fallback_active", "shadow_generator">>

\* A render carries the warnings of the runtime until it is answered, and the
\* one about its shadow model from the shadow stage on.
WarnedInv ==
    Current.kind = "render" =>
        /\ (at # "idle" \/ result = "completed") => RuntimeWarnings \subseteq warnings
        /\ (Spot \in AfterShadow /\ ShadowReplaced) => ShadowWarning \in warnings

\* The shadow stage of such a request runs on a fallback.
LEMMA ShadowFallsBack ==
    ASSUME at = "shadow_generator", ShadowReplaced
    PROVE  SelectRender(at).fallback
BY DEF SelectRender, ShadowReplaced

\* WarnedInv holds at first.
LEMMA WarnedInit == PipelineInit => WarnedInv
BY SpotIs DEF PipelineInit, WarnedInv

\* It holds when warnings are only added.
LEMMA WarningsKept ==
    ASSUME UNCHANGED <<runtime, log>>, WarnedInv, warnings \subseteq warnings', at # "idle",
           (Spot' \in AfterShadow /\ Spot \notin AfterShadow /\ ShadowReplaced) => ShadowWarning \in warnings'
    PROVE  WarnedInv'
<1>1. /\ Current' = Current /\ Components' = Components /\ Backends' = Backends
      /\ RuntimeWarnings' = RuntimeWarnings
  BY SameRun DEF RuntimeWarnings
<1>2. ShadowReplaced' = ShadowReplaced /\ ShadowWarning' = ShadowWarning
  BY <1>1 DEF ShadowReplaced, ShadowWarning
<1> HIDE DEF RuntimeWarnings, ShadowReplaced, ShadowWarning
<1> QED
  BY <1>1, <1>2, SpotIs DEF WarnedInv

\* The runner only adds warnings, and adds one for a fallback.
LEMMA WarnedGrows ==
    ASSUME NEW stage, NEW selection
    PROVE  /\ warnings \subseteq Warned(stage, selection)
           /\ selection.fallback => <<"fallback_active", stage>> \in Warned(stage, selection)
BY DEF Warned

\* Every step keeps WarnedInv.
LEMMA WarnedNext ==
    ASSUME RuntimeMade, ControlOK, WarnedInv, [PipelineNext]_pipelineVars
    PROVE  WarnedInv'
<1>1. CASE Arrive
  <2>1. /\ at' = "decode" /\ UNCHANGED runtime
        /\ Current'.kind = "render" => warnings' = RuntimeWarnings
    BY <1>1 DEF Arrive, Current
  <2>2. RuntimeWarnings' = RuntimeWarnings
    BY <2>1 DEF RuntimeWarnings, Components
  <2>3. Spot' = "decode"
    BY <2>1 DEF Spot, Answered200
  <2> HIDE DEF RuntimeWarnings
  <2> QED  BY <2>1, <2>2, <2>3, SpotIs DEF WarnedInv
<1>2. CASE DecodeFails
  <2>1. /\ at = "decode" /\ UNCHANGED <<runtime, log, warnings>>
        /\ at' = "idle" /\ result' # "completed"
    BY <1>2 DEF DecodeFails, Ends
  <2>2. Spot' \notin AfterShadow
    BY <2>1, SpotIs DEF Spot, Answered200
  <2> QED  BY <2>1, <2>2, WarningsKept
<1>3. CASE Decode
  <2>1. at = "decode" /\ UNCHANGED <<runtime, log, warnings>>
    BY <1>3 DEF Decode
  <2>2. \/ at' = "idle" /\ result' \in {"debug", "raw"}
        \/ at' \in {"lookup", "geometry_estimator", "detector"}
    BY <1>3, AfterDebug, RaisesRawIs DEF Decode, Ends
  <2>3. Spot' \notin AfterShadow
    BY <2>2, SpotIs DEF Spot, Answered200
  <2> QED  BY <2>1, <2>3, WarningsKept
<1>4. CASE Lookup
  <2>1. /\ at = "lookup" /\ UNCHANGED <<runtime, log>> /\ warnings \subseteq warnings'
        /\ (at' = "idle" /\ result' = "raw") \/ at' \in {"detector", "shadow_generator"}
    BY <1>4, RaisesRawIs DEF Lookup
  <2>2. Spot' \notin AfterShadow
    BY <2>1, SpotIs DEF Spot, Answered200
  <2> QED  BY <2>1, <2>2, WarningsKept
<1>5. CASE RenderStage
  <2>1. at \in RunStages /\ at # "idle" /\ UNCHANGED <<runtime, log>> /\ Running("render")
    BY <1>5, RenderStageIs, RunStagesAre DEF RenderStage
  <2>2. PICK id, o : RenderHands(id, o) \/ RenderFails(o)
    BY <1>5, RenderStageIs
  <2>3. CASE RenderFails(o)
    <3>1. at' = "idle" /\ result' # "completed" /\ warnings' = warnings
      BY <2>3 DEF RenderFails, EndsWith, Ends, Normalize
    <3>2. Spot' \notin AfterShadow
      BY <3>1, SpotIs DEF Spot, Answered200
    <3> QED  BY <2>1, <3>1, <3>2, WarningsKept
  <2>4. CASE RenderHands(id, o)
    <3>1. at' = After(RenderOrder, at) /\ warnings' = Warned(at, SelectRender(at))
      BY <2>4 DEF RenderHands
    <3>2. PICK selection : selection = SelectRender(at)
      OBVIOUS
    <3>3. /\ warnings \subseteq warnings'
          /\ selection.fallback => <<"fallback_active", at>> \in warnings'
      BY <3>1, <3>2, WarnedGrows
    <3>4. CASE at = "shadow_generator"
      <4>1. ShadowReplaced => ShadowWarning \in warnings'
        BY <2>1, <3>2, <3>3, <3>4, ShadowFallsBack DEF ShadowWarning
      <4> QED  BY <2>1, <3>3, <4>1, WarningsKept
    <3>5. CASE at = "composer"
      <4>1. Spot \in AfterShadow
        BY <3>5, SpotIs
      <4> QED  BY <2>1, <3>3, <4>1, WarningsKept
    <3>6. CASE at \notin {"shadow_generator", "composer"}
      <4>1. at' \in {"geometry_estimator", "crop", "foreground_refiner", "depth_estimator",
                     "normal_estimator", "save"}
        BY <2>1, <3>1, <3>6, NotYetShadow
      <4>2. Spot' \notin AfterShadow
        BY <4>1, SpotIs DEF Spot, Answered200
      <4> QED  BY <2>1, <3>3, <4>2, WarningsKept
    <3> QED  BY <3>4, <3>5, <3>6
  <2> QED  BY <2>2, <2>3, <2>4
<1>6. CASE Crop
  <2>1. at = "crop" /\ UNCHANGED <<runtime, log, warnings>>
    BY <1>6 DEF Crop
  <2>2. (at' = "idle" /\ result' = "raw") \/ at' = "segmenter"
    BY <1>6, AfterRender DEF Crop, RaisesOnBox, EndsWith, Ends
  <2>3. Spot' \notin AfterShadow
    BY <2>2, SpotIs DEF Spot, Answered200
  <2> QED  BY <2>1, <2>3, WarningsKept
<1>7. CASE Save
  <2>1. /\ at = "save" /\ UNCHANGED <<runtime, log, warnings>>
        /\ (at' = "idle" /\ result' = "raw") \/ at' = "shadow_generator"
    BY <1>7, AfterRender, RaisesRawIs DEF Save
  <2>2. Spot' \notin AfterShadow
    BY <2>1, SpotIs DEF Spot, Answered200
  <2> QED  BY <2>1, <2>2, WarningsKept
<1>8. CASE Encode
  <2>1. at = "encode" /\ UNCHANGED <<runtime, log, warnings>>
    BY <1>8 DEF Encode
  <2>2. Spot \in AfterShadow
    BY <2>1, SpotIs
  <2> QED  BY <2>1, <2>2, WarningsKept
<1>9. CASE DebugStage
  <2>1. UNCHANGED <<runtime, log>> /\ Current.kind = "debug"
    BY <1>9, DebugStageIs
  <2>2. Current'.kind = "debug"
    BY <2>1, SameRun
  <2> QED  BY <2>2 DEF WarnedInv
<1>10. CASE UNCHANGED pipelineVars
  <2>1. /\ Current' = Current /\ Components' = Components /\ Backends' = Backends
        /\ RuntimeWarnings' = RuntimeWarnings /\ Spot' = Spot
    BY <1>10, SameRun DEF pipelineVars, RuntimeWarnings, Spot, Answered200
  <2>2. ShadowReplaced' = ShadowReplaced /\ ShadowWarning' = ShadowWarning
    BY <2>1 DEF ShadowReplaced, ShadowWarning
  <2> HIDE DEF RuntimeWarnings, ShadowReplaced, ShadowWarning
  <2> QED  BY <1>10, <2>1, <2>2 DEF pipelineVars, WarnedInv
<1>11. CASE Restart
  BY <1>11, SpotIs DEF Restart, WarnedInv, Spot, Answered200
<1> QED
  BY <1>1, <1>2, <1>3, <1>4, <1>5, <1>6, <1>7, <1>8, <1>9, <1>10, <1>11 DEF PipelineNext

\* A default that is no fallback is the first candidate: the preferred backend,
\* but for a mock and for normals.
LEMMA FirstDefault ==
    ASSUME RuntimeMade, NEW stage \in Stages, ~Components[stage].fallback
    PROVE  LET asked == Components[stage].preferred
               used == Components[stage].id
           IN \/ used = asked
              \/ used.kind = "mock" /\ asked.kind = "mock"
              \/ used = Id("local", "from-depth-v2")
              \/ stage = "normal_estimator"
                    /\ Settings.model_variant[stage] \notin {"from-depth-v2", "stable-normal"}
<1>0. PICK env : Settings \in ValidSettings /\ Backends = Registry(Settings, env)
  BY DEF RuntimeMade
<1>1. PICK s \in ValidSettings : s = Settings /\ Backends = Registry(s, env)
  BY <1>0
<1>2. Components[stage] = Component(s, Registry(s, env), stage)
  BY <1>1 DEF RuntimeMade
<1>3. PICK n \in 1..4 :
          /\ Component(s, Registry(s, env), stage).id = Order(s, stage)[n]
          /\ Component(s, Registry(s, env), stage).fallback <=> n > 1
          /\ Component(s, Registry(s, env), stage).preferred = Preferred(s, stage)
  BY ChosenDefault
<1>4. n = 1
  BY <1>2, <1>3
<1>5. PICK kind, variant : kind = DefaultStageBackend(s, stage) /\ variant = PreferredVariant(s, stage)
  OBVIOUS
<1>6. Components[stage].preferred = Id(kind, variant) /\ Components[stage].id = Order(s, stage)[1]
  BY <1>2, <1>3, <1>4, <1>5 DEF Preferred
<1>7. Order(s, stage)[1] = IF kind = "mock" THEN MockId(stage)
                           ELSE IF stage # "normal_estimator" THEN Id(kind, variant)
                           ELSE IF variant = "from-depth-v2" THEN Id("local", "from-depth-v2")
                           ELSE Id(kind, "stable-normal")
  BY <1>5, FirstCandidate DEF Preferred
<1>8. stage = "normal_estimator" => variant = s.model_variant[stage]
  BY <1>5 DEF PreferredVariant, VariantStages
<1>9. kind = "mock" => MockId(stage).kind = "mock" /\ Id(kind, variant).kind = "mock"
  BY DEF MockId, Id
<1> QED
  BY <1>1, <1>6, <1>7, <1>8, <1>9

\* It makes FallbacksAreWarned.
LEMMA FallbacksHold ==
    ASSUME RuntimeMade, ControlOK, WarnedInv
    PROVE  FallbacksAreWarned
<1> SUFFICES ASSUME Answered200 PROVE FallbacksAreWarned
  BY DEF FallbacksAreWarned
<1>1. Current.kind = "render" /\ at = "idle" /\ result = "completed" /\ log # <<>>
  BY DEF Answered200, ControlOK
<1>2. RuntimeWarnings \subseteq warnings
  BY <1>1 DEF WarnedInv
<1>3. ASSUME NEW stage \in Stages
      PROVE  /\ Components[stage].fallback => <<"fallback_active", stage>> \in warnings
             /\ Components[stage].id = Id("local", "from-depth-v2") =>
                   <<"neural_backend_unavailable", stage>> \in warnings
  <2>1. /\ Components[stage].fallback => <<"fallback_active", stage>> \in RuntimeWarnings
        /\ Components[stage].id = Id("local", "from-depth-v2") =>
              <<"neural_backend_unavailable", stage>> \in RuntimeWarnings
    BY DEF RuntimeWarnings
  <2> QED  BY <1>2, <2>1
<1>4. ShadowReplaced => ShadowWarning \in warnings
  BY <1>1, SpotIs DEF WarnedInv
<1>5. ASSUME Current.model # ""
      PROVE  \/ SelectRender("shadow_generator").actual = Id("local", Current.model)
             \/ ShadowReplaced
  <2>1. PICK env : Backends = Registry(Settings, env)
    BY DEF RuntimeMade
  <2>2. PICK selection : selection = SelectForDebug(Backends, "shadow_generator", "local", Current.model)
    OBVIOUS
  <2>3. "shadow_generator" \in RunStages /\ "local" \in Asked("shadow_generator")
    BY RunStagesAre DEF Asked
  <2>4. selection.actual # NoBackend
    BY <2>1, <2>2, <2>3, DebugBackend
  <2>5. selection.fallback = (selection.actual # Id("local", Current.model))
    BY <2>2, <2>4, FallbackTold
  <2>6. SelectRender("shadow_generator") = selection
    BY <1>5, <2>2 DEF SelectRender
  <2> QED  BY <1>5, <2>2, <2>5, <2>6 DEF ShadowReplaced
<1>6. ASSUME NEW stage \in Stages, ~(stage = "shadow_generator" /\ Current.model # "")
      PROVE  SelectRender(stage).actual = Components[stage].id
  BY <1>6 DEF SelectRender, SelectForPublic
<1>7. ASSUME NEW stage \in Stages
      PROVE  LET asked == IF stage = "shadow_generator" /\ Current.model # ""
                          THEN Id("local", Current.model) ELSE Components[stage].preferred
                 used == SelectRender(stage).actual
             IN \/ used = asked
                \/ <<"fallback_active", stage>> \in warnings
                \/ used.kind = "mock" /\ asked.kind = "mock"
                \/ used = Id("local", "from-depth-v2")
                      /\ <<"neural_backend_unavailable", stage>> \in warnings
                \/ stage = "normal_estimator"
                      /\ Settings.model_variant[stage] \notin {"from-depth-v2", "stable-normal"}
  <2>1. CASE stage = "shadow_generator" /\ Current.model # ""
    BY <1>4, <1>5, <2>1 DEF ShadowWarning
  <2>2. CASE ~(stage = "shadow_generator" /\ Current.model # "")
    <3>1. CASE Components[stage].fallback
      BY <1>3, <3>1
    <3>2. CASE ~Components[stage].fallback
      BY <1>3, <1>6, <2>2, <3>2, FirstDefault
    <3> QED  BY <3>1, <3>2
  <2> QED  BY <2>1, <2>2
<1> QED
  BY <1>7 DEF FallbacksAreWarned

-----------------------------------------------------------------------------
(* What a debug run lists.                                                 *)

\* What may be listed before the end of a run.
Entries == [stage : RunStages \cup {"decode"}, status : {"completed", "failed"}]

\* A stage that is listed has run, its mark is still in its values, and the
\* run was not to stop there.
Ran(e) ==
    /\ e.stage \in RunStages /\ e.status = "completed" /\ e.stage # Current.stop
    /\ \A v \in Outputs(e.stage) : <<e.stage, Own>> \in context[v]

\* All that is listed inside a run has run. The refined cutout replaces the
\* segmenter's and keeps its mark, but not the other way round: the segmenter
\* does not come after the refiner.
ListedSoFar ==
    (at \notin {"idle", "decode"} /\ Current.kind = "debug") =>
        /\ listed \in Seq(Entries) /\ listed # <<>>
        /\ listed[1] = [stage |-> "decode", status |-> "completed"] /\ Current.stop # "decode"
        /\ \A i \in 2..Len(listed) : /\ Ran(listed[i])
                                     /\ listed[i].stage = "foreground_refiner" => at \in AfterRefiner

\* DebugListsWhatRan, and what it needs of a run that goes on.
ListInv == ListedSoFar /\ DebugListsWhatRan

\* ListInv holds at first.
LEMMA ListInit == PipelineInit => ListInv
BY DEF PipelineInit, ListInv, ListedSoFar, DebugListsWhatRan

\* It says nothing of a render, or of a debug run not yet decoded or raising.
LEMMA ListApart ==
    ASSUME result' # "debug", at' \in {"idle", "decode"} \/ Current'.kind # "debug"
    PROVE  ListInv'
BY DEF ListInv, ListedSoFar, DebugListsWhatRan

\* The marks of the stages that ran outlast the next stage.
LEMMA OutputsKept ==
    ASSUME LineageOK, at \in RunStages, NEW id, NEW o, Hands(at, id, o), NEW s \in RunStages,
           at = "segmenter" => s # "foreground_refiner",
           \A v \in Outputs(s) : <<s, Own>> \in context[v]
    PROVE  \A v \in Outputs(s) : <<s, Own>> \in Assign(context, at, Lineage(at, o, Own))[v]
<1> SUFFICES ASSUME NEW v \in Outputs(s)
             PROVE  <<s, Own>> \in Assign(context, at, Lineage(at, o, Own))[v]
  OBVIOUS
<1>1. v \in Values /\ <<s, Own>> \in context[v]
  BY InputsAreValues
<1>2. CASE v \notin Outputs(at)
  BY <1>1, <1>2, OwnMade
<1>3. CASE v \in Outputs(at) /\ s = at
  BY <1>3, OwnMade
<1>4. CASE v \in Outputs(at) /\ s # at
  <2>1. at = "foreground_refiner" /\ v = "cutout"
    BY <1>4, RunStagesAre DEF Outputs
  <2>2. v \in Inputs(at)
    BY <2>1 DEF Inputs
  <2>3. context[v] \subseteq Lineage(at, o, Own)
    BY <2>2 DEF Lineage
  <2>4. <<s, Own>> \in Lineage(at, o, Own)
    BY <1>1, <2>3
  <2> HIDE DEF Lineage
  <2> QED  BY <1>1, <1>4, <2>4 DEF Assign
<1> QED
  BY <1>2, <1>3, <1>4

\* It holds when one more stage is listed.
LEMMA ListGrows ==
    ASSUME ControlOK, ListInv, at \in RunStages, Current.kind = "debug", UNCHANGED <<runtime, log>>,
           NEW status \in {"completed", "failed"}, DebugLists(status),
           \A s \in RunStages : (/\ at = "segmenter" => s # "foreground_refiner"
                                 /\ \A v \in Outputs(s) : <<s, Own>> \in context[v])
                                    => \A v \in Outputs(s) : <<s, Own>> \in context'[v],
           status = "completed" => \A v \in Outputs(at) : <<at, Own>> \in context'[v]
    PROVE  ListInv'
<1> DEFINE new == [stage |-> at, status |-> status]
           n == Len(listed)
<1>1. Current' = Current /\ Own' = Own /\ Settings' = Settings
  BY SameRun
<1>2. /\ listed \in Seq(Entries) /\ listed # <<>>
      /\ listed[1] = [stage |-> "decode", status |-> "completed"] /\ Current.stop # "decode"
      /\ \A i \in 2..n : /\ Ran(listed[i])
                         /\ listed[i].stage = "foreground_refiner" => at \in AfterRefiner
  BY RunStagesAre DEF ListInv, ListedSoFar
<1>3. new \in Entries /\ listed' = Append(listed, new)
  BY DEF DebugLists, Entries
<1>4. /\ n \in Nat \ {0} /\ listed' \in Seq(Entries) /\ Len(listed') = n + 1
      /\ listed'[n + 1] = new
      /\ \A i \in 1..n : listed'[i] = listed[i]
  <2> HIDE DEF new
  <2> QED  BY <1>2, <1>3
<1>5. at = "segmenter" => at \notin AfterRefiner
  BY Reached
<1>6. \A i \in 2..n : Ran(listed[i])'
  <2> SUFFICES ASSUME NEW i \in 2..n PROVE Ran(listed[i])'
    OBVIOUS
  <2>1. listed'[i] = listed[i]
    BY <1>4
  <2>2. PICK e : e = listed[i]
    OBVIOUS
  <2>3. /\ e.stage \in RunStages /\ e.status = "completed" /\ e.stage # Current.stop
        /\ \A v \in Outputs(e.stage) : <<e.stage, Own>> \in context[v]
        /\ at = "segmenter" => e.stage # "foreground_refiner"
    BY <1>2, <1>5, <2>2 DEF Ran
  <2>4. PICK s \in RunStages : s = e.stage
    BY <2>3
  <2>5. \A v \in Outputs(s) : <<s, Own>> \in context'[v]
    BY <2>3, <2>4
  <2> QED  BY <1>1, <2>1, <2>2, <2>3, <2>4, <2>5 DEF Ran
<1>7. \/ at' = "idle" /\ result' = "debug" /\ (status = "failed" \/ at \in {Current.stop, "composer"})
      \/ /\ at # "composer" /\ at' = After(DebugOrder, at) /\ result' = result
         /\ status = "completed" /\ at # Current.stop
  BY DEF DebugLists, EndsDebug, Ends
<1> HIDE DEF n, new
<1>8. new.stage = at /\ new.status = status
  BY DEF new
<1>9. CASE at' = "idle" /\ result' = "debug" /\ (status = "failed" \/ at \in {Current.stop, "composer"})
  <2>1. \A i \in 1..n : listed'[i].status = "completed" /\ listed'[i].stage # Current'.stop
    <3> SUFFICES ASSUME NEW i \in 1..n
                 PROVE  listed'[i].status = "completed" /\ listed'[i].stage # Current'.stop
      OBVIOUS
    <3>1. CASE i = 1
      BY <1>1, <1>2, <1>4, <3>1
    <3>2. CASE i \in 2..n
      BY <1>1, <1>2, <1>4, <3>2 DEF Ran
    <3> QED  BY <1>4, <3>1, <3>2
  <2>2. DOMAIN listed' = 1..(n + 1) /\ (n + 1) - 1 = n
    BY <1>4
  <2>3. \/ listed'[n + 1].status = "failed"
        \/ listed'[n + 1].stage \in {Current'.stop, "composer"}
    BY <1>1, <1>4, <1>8, <1>9
  <2>4. ASSUME NEW i \in 2..(n + 1), listed'[i].status = "completed"
        PROVE  \A v \in Outputs(listed'[i].stage) : <<listed'[i].stage, Own'>> \in context'[v]
    <3>1. CASE i \in 2..n
      BY <1>4, <1>6, <3>1 DEF Ran
    <3>2. CASE i = n + 1
      BY <1>1, <1>4, <1>8, <2>4, <3>2
    <3> QED  BY <1>4, <3>1, <3>2
  <2>5. \A i \in 1..(n + 1) : i # 1 => i \in 2..(n + 1)
    BY <1>4
  <2>6. DebugListsWhatRan'
    BY <1>4, <2>1, <2>2, <2>3, <2>4, <2>5 DEF DebugListsWhatRan
  <2> QED  BY <1>9, <2>6 DEF ListInv, ListedSoFar
<1>10. CASE /\ at # "composer" /\ at' = After(DebugOrder, at) /\ result' = result
            /\ status = "completed" /\ at # Current.stop
  <2>1. at' # "idle"
    <3>1. at = "geometry_estimator" => Settings.geometry_enabled
      BY DEF ControlOK
    <3> QED  BY <1>10, <3>1, NextDebug, RunStagesAre
  <2>1k. PICK k : k = n + 1
    OBVIOUS
  <2>2. Ran(listed[k])'
    BY <1>1, <1>4, <1>8, <1>10, <2>1k DEF Ran
  <2>3. \A i \in 2..(n + 1) : i \in 2..n \/ i = k
    BY <1>4, <2>1k
  <2>4. at \in AfterRefiner => at' \in AfterRefiner
    <3>1. CASE at \notin {"depth_estimator", "normal_estimator", "shadow_generator"}
      BY <1>10, <3>1, RunStagesAre, Reached DEF AfterRefiner, AfterDepth, AfterNormals, AfterShadow, AfterComposer
    <3>2. CASE at \in {"depth_estimator", "normal_estimator", "shadow_generator"}
      <4>1. at' \in {"normal_estimator", "shadow_generator", "composer"}
        BY <1>10, <3>2, AfterDebug
      <4> QED  BY <4>1, Reached
    <3> QED  BY <3>1, <3>2
  <2>5. at = "foreground_refiner" => at' \in AfterRefiner
    BY <1>10, AfterDebug, Reached
  <2>6. \A i \in 2..(n + 1) : /\ Ran(listed[i])'
                              /\ listed'[i].stage = "foreground_refiner" => at' \in AfterRefiner
    <3> SUFFICES ASSUME NEW i \in 2..(n + 1)
                 PROVE  /\ Ran(listed[i])'
                        /\ listed'[i].stage = "foreground_refiner" => at' \in AfterRefiner
      OBVIOUS
    <3>1. CASE i \in 2..n
      <4>1. listed'[i] = listed[i]
        BY <1>4, <3>1
      <4>2. listed[i].stage = "foreground_refiner" => at \in AfterRefiner
        BY <1>2, <3>1
      <4>3. Ran(listed[i])'
        BY <1>6, <3>1
      <4> QED  BY <2>4, <4>1, <4>2, <4>3
    <3>2. CASE i = k
      <4>1. listed'[k].stage = at
        BY <1>4, <1>8, <2>1k
      <4> QED  BY <2>2, <2>5, <3>2, <4>1
    <3> QED  BY <2>3, <3>1, <3>2
  <2>7. listed' # <<>> /\ listed'[1] = [stage |-> "decode", status |-> "completed"]
    BY <1>2, <1>4
  <2>8. ListedSoFar'
    BY <1>1, <1>2, <1>4, <2>6, <2>7 DEF ListedSoFar, Entries
  <2> QED  BY <2>1, <2>8 DEF ListInv, DebugListsWhatRan
<1> QED
  BY <1>7, <1>9, <1>10

\* Every step keeps ListInv.
LEMMA ListNext ==
    ASSUME RuntimeMade, ControlOK, LineageOK, ListInv, [PipelineNext]_pipelineVars
    PROVE  ListInv'
<1>1. CASE Arrive
  BY <1>1, ListApart DEF Arrive
<1>2. CASE DecodeFails
  BY <1>2, ListApart DEF DecodeFails, Ends
<1>3. CASE Decode
  <2> DEFINE decoded == [stage |-> "decode", status |-> "completed"]
             skipped == [stage |-> "geometry_estimator", status |-> "skipped"]
             skip == Current.stop = "geometry_estimator" /\ ~Settings.geometry_enabled
  <2>1. at = "decode" /\ UNCHANGED <<runtime, log>> /\ result = "none"
    BY <1>3 DEF Decode, ControlOK
  <2>1r. CASE at' = "idle" /\ result' = "raw"
    BY <2>1r, ListApart
  <2>2. Current' = Current
    BY <2>1, SameRun
  <2>3. CASE Current.kind = "render"
    <3>1. result' = "none"
      BY <1>3, <2>1, <2>3 DEF Decode
    <3> QED  BY <2>2, <2>3, <3>1, ListApart
  <2>4. CASE Current.kind # "render" /\ ~(at' = "idle" /\ result' = "raw")
    <3>1. /\ listed' = IF skip THEN <<decoded, skipped>> ELSE <<decoded>>
          /\ IF skip \/ Current.stop = "decode" THEN at' = "idle" /\ result' = "debug"
             ELSE at' = Head(DebugOrder) /\ result' = "none"
      BY <1>3, <2>1, <2>4, RaisesRawIs DEF Decode, Ends
    <3>2. CASE skip
      <4>1. listed' = <<decoded, skipped>> /\ at' = "idle" /\ Current'.stop = "geometry_estimator"
        BY <2>2, <3>1, <3>2
      <4>2. /\ Len(listed') = 2 /\ DOMAIN listed' = 1..2
            /\ listed'[1].status = "completed" /\ listed'[1].stage = "decode"
            /\ listed'[2].status = "skipped" /\ listed'[2].stage = "geometry_estimator"
        BY <4>1
      <4> HIDE DEF decoded, skipped
      <4>3. DebugListsWhatRan'
        BY <4>1, <4>2 DEF DebugListsWhatRan
      <4> QED  BY <4>1, <4>3 DEF ListInv, ListedSoFar
    <3>3. CASE ~skip
      <4>1. /\ Len(listed') = 1 /\ DOMAIN listed' = 1..1 /\ listed' = <<decoded>>
            /\ listed'[1].status = "completed" /\ listed'[1].stage = "decode"
        BY <3>1, <3>3
      <4>2. CASE Current.stop = "decode"
        <5>1. at' = "idle" /\ Current'.stop = "decode"
          BY <2>2, <3>1, <4>2
        <5>2. DebugListsWhatRan'
          BY <4>1, <5>1 DEF DebugListsWhatRan
        <5> QED  BY <5>1, <5>2 DEF ListInv, ListedSoFar
      <4>3. CASE Current.stop # "decode"
        <5>1. result' = "none" /\ listed'[1] = decoded
          BY <3>1, <3>3, <4>3
        <5>2. listed' \in Seq(Entries)
          BY <4>1 DEF Entries
        <5>3. ListedSoFar'
          BY <2>2, <4>1, <4>3, <5>1, <5>2 DEF ListedSoFar, Entries
        <5> QED  BY <5>1, <5>3 DEF ListInv, DebugListsWhatRan
      <4> QED  BY <4>2, <4>3
    <3> QED  BY <3>2, <3>3
  <2> QED  BY <2>1r, <2>3, <2>4
<1>4. CASE Lookup
  <2>1. Current' = Current /\ Current.kind = "render" /\ result' # "debug"
    BY <1>4, SameRun, RaisesRawIs DEF Lookup, ControlOK
  <2> QED  BY <2>1, ListApart
<1>5. CASE RenderStage
  <2>1. at # "idle" /\ Current.kind = "render" /\ UNCHANGED <<runtime, log>>
        /\ \E id, o : RenderHands(id, o) \/ RenderFails(o)
    BY <1>5, RenderStageIs, RunStagesAre
  <2>2. result' # "debug"
    BY <2>1 DEF RenderHands, RenderFails, EndsWith, Ends, Normalize, ControlOK
  <2>3. Current' = Current
    BY <2>1, SameRun
  <2> QED  BY <2>1, <2>2, <2>3, ListApart
<1>6. CASE Crop
  <2>1. Current' = Current /\ Current.kind = "render" /\ result' # "debug"
    BY <1>6, SameRun DEF Crop, RaisesOnBox, EndsWith, Ends, ControlOK
  <2> QED  BY <2>1, ListApart
<1>7. CASE Save
  <2>1. Current' = Current /\ Current.kind = "render" /\ result' # "debug"
    BY <1>7, SameRun, RaisesRawIs DEF Save, ControlOK
  <2> QED  BY <2>1, ListApart
<1>8. CASE Encode
  <2>1. Current' = Current /\ Current.kind = "render" /\ result' # "debug"
    BY <1>8, SameRun, RaisesRawIs DEF Encode, EndsWith, Ends, ControlOK
  <2> QED  BY <2>1, ListApart
<1>9. CASE DebugStage
  <2>1. at \in RunStages /\ Current.kind = "debug" /\ UNCHANGED <<runtime, log>>
    BY <1>9, DebugStageIs
  <2>2. DebugFails \/ \E id, o : DebugHands(id, o) \/ DebugRaises(id, o) \/ DebugDraws(id, o)
    BY <1>9, DebugStageIs
  <2>3. CASE DebugFails
    <3>1. DebugLists("failed") /\ context' = context
      BY <2>3 DEF DebugFails
    <3> QED  BY <2>1, <3>1, ListGrows
  <2>4. ASSUME NEW id, NEW o, DebugRaises(id, o) \/ DebugDraws(id, o) PROVE ListInv'
    <3>1. at' = "idle" /\ result' = "raw"
      BY <2>4, RaisesRawIs DEF DebugRaises, DebugDraws, RaisesOnBox, EndsWith, Ends
    <3> QED  BY <3>1, ListApart
  <2>5. ASSUME NEW id, NEW o, DebugHands(id, o) PROVE ListInv'
    <3>1. /\ Hands(at, id, o) /\ DebugLists("completed")
          /\ context' = IF at = "detector" THEN Cropped(DebugCtx(o)) ELSE DebugCtx(o)
      BY <2>5 DEF DebugHands
    <3>2. \A v \in Values \ {"crop"} : context'[v] = Assign(context, at, Lineage(at, o, Own))[v]
      BY <3>1 DEF Cropped, DebugCtx, Assign
    <3>3. ASSUME NEW s \in RunStages, at = "segmenter" => s # "foreground_refiner",
                 \A v \in Outputs(s) : <<s, Own>> \in context[v]
          PROVE  \A v \in Outputs(s) : <<s, Own>> \in context'[v]
      <4>1. \A v \in Outputs(s) : <<s, Own>> \in Assign(context, at, Lineage(at, o, Own))[v]
        BY <2>1, <3>1, <3>3, OutputsKept
      <4>2. \A v \in Outputs(s) : v \in Values \ {"crop"}
        BY RunStagesAre DEF Outputs, Values
      <4> QED  BY <3>2, <4>1, <4>2
    <3>4. \A v \in Outputs(at) : <<at, Own>> \in context'[v]
      <4>1. \A v \in Outputs(at) : <<at, Own>> \in Assign(context, at, Lineage(at, o, Own))[v]
        BY <2>1, <3>1, OwnMade
      <4>2. \A v \in Outputs(at) : v \in Values \ {"crop"}
        BY <2>1, RunStagesAre DEF Outputs, Values
      <4> QED  BY <3>2, <4>1, <4>2
    <3> QED  BY <2>1, <3>1, <3>3, <3>4, ListGrows
  <2> QED  BY <2>2, <2>3, <2>4, <2>5
<1>10. CASE UNCHANGED pipelineVars
  <2>1. Current' = Current /\ Own' = Own
    BY <1>10, SameRun DEF pipelineVars
  <2> QED  BY <1>10, <2>1 DEF pipelineVars, ListInv, ListedSoFar, DebugListsWhatRan, Ran
<1>11. CASE Restart
  BY <1>11, ListApart DEF Restart
<1> QED
  BY <1>1, <1>2, <1>3, <1>4, <1>5, <1>6, <1>7, <1>8, <1>9, <1>10, <1>11 DEF PipelineNext

-----------------------------------------------------------------------------
(* The theorems.                                                           *)

\* The inductive invariant: the properties TimeoutsAreTimeouts,
\* RawFaultsAreKnown and DebugListsWhatRan are part of it, and the others
\* follow from it.
PipelineInv ==
    /\ RuntimeMade /\ ControlOK /\ LineageOK /\ CacheOK /\ RunOrder
    /\ MadeNow /\ TimeoutsInv /\ BoxesInv /\ WarnedInv /\ ListInv

\* PipelineInv holds in every reachable state.
THEOREM PipelineInvariant == PipelineSpec => []PipelineInv
<1>1. PipelineInit => PipelineInv
  BY InitMakesRuntime, ControlInit, LineageInit, OrderInit, MadeNowInit, TimeoutsInit, BoxesInit,
     WarnedInit, ListInit DEF PipelineInv
<1>2. PipelineInv /\ [PipelineNext]_pipelineVars => PipelineInv'
  <2> SUFFICES ASSUME PipelineInv, [PipelineNext]_pipelineVars PROVE PipelineInv'
    OBVIOUS
  <2> USE DEF PipelineInv
  <2>1. RuntimeMade'
    BY RuntimeNext
  <2>2. ControlOK'
    BY ControlNext
  <2>3. LineageOK' /\ CacheOK'
    BY LineageNext
  <2>4. RunOrder'
    BY OrderNext
  <2>5. MadeNow'
    BY MadeNowNext
  <2>6. TimeoutsInv'
    BY TimeoutsNext
  <2>7. BoxesInv'
    BY BoxesNext
  <2>8. WarnedInv'
    BY WarnedNext
  <2>9. ListInv'
    BY ListNext
  <2> QED  BY <2>1, <2>2, <2>3, <2>4, <2>5, <2>6, <2>7, <2>8, <2>9
<1> QED
  BY <1>1, <1>2, PTL DEF PipelineSpec

\* No stage of either pipeline is called, nothing is saved and nothing encoded
\* with an input missing: no stage of the public pipeline is without a backend,
\* and a hit brings all that the stages after it read.
THEOREM NothingIsMissing == PipelineSpec => []InputsPresent
<1>1. PipelineInv => InputsPresent
  BY InputsPresentHolds DEF PipelineInv
<1> QED
  BY <1>1, PipelineInvariant, PTL

\* No value has a part of another thread's render, however many share a Triton
\* call and however Triton lays out its answer or batches the calls.
THEOREM NothingOfOthers == PipelineSpec => []OwnSample
<1>1. PipelineInv => OwnSample
  BY OwnSampleHolds DEF PipelineInv
<1> QED
  BY <1>1, PipelineInvariant, PTL

\* A completed render is of its own image and padding, with its own shadow and
\* composition, whatever was rendered and cached before.
THEOREM AnswersAreOfTheirImage == PipelineSpec => []AnswerIsOfThisImage
<1>1. PipelineInv => AnswerIsOfThisImage
  BY AnswerHolds DEF PipelineInv
<1> QED
  BY <1>1, PipelineInvariant, PTL

\* Every part of a completed render was made by the backend, of the version,
\* that its stage has by default now, whatever deployments the service ran as
\* when the snapshots were saved.
THEOREM AnswersAreOfTheirRuntime == PipelineSpec => []AnswerIsOfThisRuntime
<1>1. PipelineInv => AnswerIsOfThisRuntime
  BY RuntimeAnswerHolds DEF PipelineInv
<1> QED
  BY <1>1, PipelineInvariant, PTL

\* A completed render has been made by the same stages on a hit as on a miss.
THEOREM HitsLookLikeMisses == PipelineSpec => []HitLooksLikeMiss
<1>1. PipelineInv => HitLooksLikeMiss
  BY HitLooksLikeMissHolds DEF PipelineInv, RunOrder
<1> QED
  BY <1>1, PipelineInvariant, PTL

\* What escapes the service's own errors is an error of a file or a picture at
\* one of the places nothing guards, or the exception of a box without an area,
\* which only Triton's plain detector lets through: for pictures of any size and
\* whatever a network says of one.  Every stage's own error is caught.
THEOREM RawFaultsOfRuns == PipelineSpec => []RawFaultsAreKnown
<1>1. PipelineInv => RawFaultsAreKnown
  BY DEF PipelineInv, BoxesInv
<1> QED
  BY <1>1, PipelineInvariant, PTL

\* A late render is answered with a timeout and leaves its snapshot; another
\* timeout comes of a failed exchange with Triton, and by the JSON transport of
\* one that connected and was not answered in time, and of each of those.
THEOREM TimeoutsAreRight == PipelineSpec => []TimeoutsAreTimeouts
<1>1. PipelineInv => TimeoutsAreTimeouts
  BY DEF PipelineInv, TimeoutsInv
<1> QED
  BY <1>1, PipelineInvariant, PTL

\* A completed render warns of every stage that ran on another backend than the
\* settings or the request asked for, but for the three kinds of replacement
\* the property names.
THEOREM FallbacksAreTold == PipelineSpec => []FallbacksAreWarned
<1>1. PipelineInv => FallbacksAreWarned
  BY FallbacksHold DEF PipelineInv
<1> QED
  BY <1>1, PipelineInvariant, PTL

\* A debug answer lists the stages up to the first that failed or to the one
\* asked for, and all it calls completed have their value in the context.
THEOREM DebugListsAreTrue == PipelineSpec => []DebugListsWhatRan
<1>1. PipelineInv => DebugListsWhatRan
  BY DEF PipelineInv, ListInv
<1> QED
  BY <1>1, PipelineInvariant, PTL
=============================================================================
