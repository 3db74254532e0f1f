--------------------------- MODULE Release_proofs ---------------------------
(* Proofs about Release, for any number of developers, contracts and commits,  *)
(* and any contracts.                                                          *)
EXTENDS Release, SequenceTheorems, FiniteSetTheorems, WellFoundedInduction, TLAPS

Versions == Nat \X Nat \X Nat

-----------------------------------------------------------------------------
(* Induction over a finite set: a set of its subsets has a smallest member... *)
LEMMA MinimalSubset ==
  ASSUME NEW D, IsFiniteSet(D), NEW F \in SUBSET SUBSET D, F # {}
  PROVE  \E m \in F : \A s \in F : s \subseteq m => s = m
<1>1. F \subseteq FiniteSubsetsOf(D)
  <2>1. FiniteSubsetsOf(D) = SUBSET D
    BY FS_Subset DEF FiniteSubsetsOf
  <2> QED BY <2>1
<1>2. IsWellFoundedOn(StrictSubsetOrdering(D), FiniteSubsetsOf(D))
  BY FS_StrictSubsetOrderingWellFounded
<1>3. PICK m \in F : \A s \in F : ~(<<s, m>> \in StrictSubsetOrdering(D))
  BY <1>1, <1>2, WFMin
<1>4. ASSUME NEW s \in F, s \subseteq m
      PROVE  s = m
  <2>1. s \in SUBSET D /\ m \in SUBSET D
    OBVIOUS
  <2> QED BY <1>3, <1>4, <2>1 DEF StrictSubsetOrdering
<1> QED BY <1>4

(* ... and a largest one. *)
LEMMA MaximalSubset ==
  ASSUME NEW D, IsFiniteSet(D), NEW F \in SUBSET SUBSET D, F # {}
  PROVE  \E m \in F : \A s \in F : m \subseteq s => s = m
<1> DEFINE G == {D \ s : s \in F}
<1>1. G \in SUBSET SUBSET D
  OBVIOUS
<1>2. G # {}
  <2>1. PICK s \in F : TRUE
    OBVIOUS
  <2>2. D \ s \in G
    OBVIOUS
  <2> QED BY <2>2
<1>3. \E g \in G : \A s \in G : s \subseteq g => s = g
  <2> HIDE DEF G
  <2> QED BY <1>1, <1>2, MinimalSubset
<1>4. PICK m \in F : \A s \in F : D \ s \subseteq D \ m => D \ s = D \ m
  <2>1. PICK g \in G : \A s \in G : s \subseteq g => s = g
    BY <1>3
  <2>2. PICK m \in F : g = D \ m
    OBVIOUS
  <2>3. \A s \in F : D \ s \in G
    OBVIOUS
  <2>4. \A s \in F : D \ s \subseteq D \ m => D \ s = D \ m
    <3> HIDE DEF G
    <3> QED BY <2>1, <2>2, <2>3
  <2> QED BY <2>4
<1>5. ASSUME NEW s \in F, m \subseteq s
      PROVE  s = m
  <2>1. D \ s = D \ m
    BY <1>4, <1>5
  <2> QED BY <2>1
<1> QED BY <1>5

More(refs, found) == found \union (DOMAIN refs \intersect UNION {refs[n] : n \in found})

(* The work-list loops find the least set that has the seed and all that its members refer to. *)
LEMMA ClosureIsLeast ==
  ASSUME NEW refs, NEW seed, IsFiniteSet(DOMAIN refs)
  PROVE  /\ closure(refs, seed) \subseteq DOMAIN refs
         /\ seed \intersect DOMAIN refs \subseteq closure(refs, seed)
         /\ \A n \in closure(refs, seed) : refs[n] \intersect DOMAIN refs \subseteq closure(refs, seed)
         /\ \A S \in SUBSET DOMAIN refs :
              (seed \intersect DOMAIN refs \subseteq S
                /\ \A n \in S : refs[n] \intersect DOMAIN refs \subseteq S)
              => closure(refs, seed) \subseteq S
<1> DEFINE D == DOMAIN refs
           Grow(h) == [found \in SUBSET D |->
                         IF More(refs, found) = found THEN found ELSE h[More(refs, found)]]
           names == CHOOSE h : h = Grow(h)
           Least(f) == {n \in D : \A S \in SUBSET D : f \subseteq S /\ More(refs, S) = S => n \in S}
           g == [found \in SUBSET D |-> Least(found)]
<1>1. closure(refs, seed) = names[seed \intersect D]
  BY DEF closure, More
<1>2. \A f \in SUBSET D : More(refs, f) \in SUBSET D /\ f \subseteq More(refs, f)
  BY DEF More
<1>3. ASSUME NEW f \in SUBSET D, More(refs, f) = f
      PROVE  Least(f) = f
  BY <1>3
<1>4. ASSUME NEW f \in SUBSET D
      PROVE  Least(f) = Least(More(refs, f))
  <2>1. \A S \in SUBSET D : f \subseteq S /\ More(refs, S) = S => More(refs, f) \subseteq S
    BY DEF More
  <2> QED BY <1>2, <2>1
<1>5. g = Grow(g)
  <2>1. ASSUME NEW f \in SUBSET D
        PROVE  g[f] = Grow(g)[f]
    <3>1. CASE More(refs, f) = f
      BY <3>1, <1>3
    <3>2. CASE More(refs, f) # f
      <4> HIDE DEF Least
      <4>1. g[f] = Least(f) /\ g[More(refs, f)] = Least(More(refs, f))
        BY <1>2
      <4> QED BY <4>1, <3>2, <1>4
    <3> QED BY <3>1, <3>2
  <2> QED BY <2>1
<1>6. names = Grow(names)
  <2> HIDE DEF g, Grow
  <2> QED BY <1>5
<1>7. \A f \in SUBSET D : names[f] = Least(f)
  <2> DEFINE F == {f \in SUBSET D : names[f] # Least(f)}
  <2>1. SUFFICES ASSUME F # {} PROVE FALSE
    OBVIOUS
  <2>2. F \in SUBSET SUBSET D
    OBVIOUS
  <2>3. PICK m \in F : \A s \in F : m \subseteq s => s = m
    <3> HIDE DEF F, names, Least
    <3> QED BY <2>1, <2>2, MaximalSubset
  <2> HIDE DEF names, Least
  <2>4. names[m] = IF More(refs, m) = m THEN m ELSE names[More(refs, m)]
    BY <1>6
  <2>5. CASE More(refs, m) = m
    BY <2>5, <2>4, <1>3
  <2>6. CASE More(refs, m) # m
    <3>1. names[More(refs, m)] = Least(More(refs, m))
      BY <2>3, <2>6, <1>2
    <3> QED BY <3>1, <2>4, <2>6, <1>4
  <2> QED BY <2>5, <2>6
<1>8. closure(refs, seed) = Least(seed \intersect D)
  <2> HIDE DEF names, Least
  <2> QED BY <1>1, <1>7
<1>9. \A S \in SUBSET D : More(refs, S) = S <=> \A n \in S : refs[n] \intersect D \subseteq S
  BY DEF More
<1> DEFINE C == Least(seed \intersect D)
<1>10. C \in SUBSET D /\ seed \intersect D \subseteq C
  OBVIOUS
<1>11. \A S \in SUBSET D : seed \intersect D \subseteq S /\ More(refs, S) = S => C \subseteq S
  OBVIOUS
<1>12. \A n \in C : refs[n] \intersect D \subseteq C
  <2>1. ASSUME NEW n \in C, NEW k \in refs[n] \intersect D,
               NEW S \in SUBSET D, seed \intersect D \subseteq S, More(refs, S) = S
        PROVE  k \in S
    BY <2>1, <1>9, <1>11
  <2> QED BY <2>1
<1> HIDE DEF C
<1> QED BY <1>8, <1>9, <1>10, <1>11, <1>12 DEF C

-----------------------------------------------------------------------------
(* The three kinds of names of a contract *)
LEMMA Kinds ==
  ASSUME NEW c, IsContract(c)
  PROVE  /\ \A o \in Operations : /\ Fragment(c, o) = c.operations[o]
                                  /\ o \in Defined(c) => Fragment(c, o) \in Fragments
         /\ \A n \in Schemas : /\ Fragment(c, n) = c.schemas[n]
                               /\ n \in Defined(c) => /\ Fragment(c, n) \in Fragments
                                                      /\ Fragment(c, n).responses = {}
         /\ \A n \in Responses : /\ Fragment(c, n) = c.responses[n]
                                 /\ n \in Defined(c) => Fragment(c, n) \in Fragments
         /\ \A n \in Defined(c) : /\ Fragment(c, n).schemas \in SUBSET Schemas
                                  /\ Fragment(c, n).responses \in SUBSET Responses
<1>1. \A f \in Fragments : f.schemas \in SUBSET Schemas /\ f.responses \in SUBSET Responses
  BY DEF Fragments
<1>2. \A o \in Operations : Fragment(c, o) = c.operations[o]
  BY DEF Fragment
<1>3. \A n \in Schemas : Fragment(c, n) = c.schemas[n]
  BY NamesAssumption DEF Fragment
<1>4. \A n \in Responses : Fragment(c, n) = c.responses[n]
  BY NamesAssumption DEF Fragment
<1>5. /\ \A o \in Operations : c.operations[o] \in Fragments \union {None}
      /\ \A n \in Schemas : c.schemas[n] \in {f \in Fragments : f.responses = {}} \union {None}
      /\ \A n \in Responses : c.responses[n] \in Fragments \union {None}
  BY DEF IsContract
<1> HIDE DEF Fragments
<1>6. \A o \in Operations : o \in Defined(c) => Fragment(c, o) \in Fragments
  BY <1>2, <1>5 DEF Defined
<1>7. \A n \in Schemas : n \in Defined(c) => Fragment(c, n) \in Fragments /\ Fragment(c, n).responses = {}
  BY <1>3, <1>5 DEF Defined
<1>8. \A n \in Responses : n \in Defined(c) => Fragment(c, n) \in Fragments
  BY <1>4, <1>5 DEF Defined
<1>9. \A n \in Defined(c) : n \in Operations \union Schemas \union Responses
  BY DEF Defined
<1> QED BY <1>1, <1>2, <1>3, <1>4, <1>6, <1>7, <1>8, <1>9

(* What a slice takes up. *)
UsedResponses(c, P) == resolve_responses(c.responses, UNION {c.operations[o].responses : o \in P})

UsedSchemas(c, P) ==
  expand_schema_closure(c.schemas, (UNION {c.operations[o].schemas : o \in P})
                                     \union (UNION {c.responses[n].schemas : n \in UsedResponses(c, P)}))

(* The two work-list loops, one after the other, take up all that is reached from the operations. *)
LEMMA UsedIsReached ==
  ASSUME NEW c, IsContract(c), NEW P \in SUBSET (Operations \intersect Defined(c))
  PROVE  /\ UsedSchemas(c, P) \subseteq Schemas /\ UsedResponses(c, P) \subseteq Responses
         /\ P \union UsedSchemas(c, P) \union UsedResponses(c, P) = UNION {Reached(c, o) : o \in P}
<1> DEFINE R == {n \in Responses : c.responses[n] # None}
           S == {n \in Schemas : c.schemas[n] # None}
           rrefs == [n \in R |-> c.responses[n].responses]
           srefs == [n \in S |-> c.schemas[n].schemas]
           UR == UsedResponses(c, P)
           US == UsedSchemas(c, P)
           rseed == UNION {c.operations[o].responses : o \in P}
           sseed == (UNION {c.operations[o].schemas : o \in P}) \union (UNION {c.responses[n].schemas : n \in UR})
           U == UNION {Reached(c, o) : o \in P}
<1>1. IsFiniteSet(R) /\ IsFiniteSet(S)
  BY NamesAssumption, FS_Subset
<1>2. UR = closure(rrefs, rseed) /\ US = closure(srefs, sseed)
  BY DEF UsedResponses, UsedSchemas, resolve_responses, expand_schema_closure
<1>3. R \subseteq Defined(c) /\ S \subseteq Defined(c)
  BY Kinds DEF Defined
<1>4. \A n \in Defined(c) : n \in Operations \/ n \in R \/ n \in S
  BY Kinds DEF Defined
<1>5. /\ UR \subseteq R /\ rseed \intersect R \subseteq UR
      /\ \A n \in UR : c.responses[n].responses \intersect R \subseteq UR
      /\ \A X \in SUBSET R :
           (rseed \intersect R \subseteq X /\ \A n \in X : c.responses[n].responses \intersect R \subseteq X)
           => UR \subseteq X
  <2>1. DOMAIN rrefs = R /\ \A n \in R : rrefs[n] = c.responses[n].responses
    OBVIOUS
  <2> HIDE DEF R, rrefs, rseed, UR
  <2>2. /\ UR \subseteq R /\ rseed \intersect R \subseteq UR
        /\ \A n \in UR : rrefs[n] \intersect R \subseteq UR
        /\ \A X \in SUBSET R :
             (rseed \intersect R \subseteq X /\ \A n \in X : rrefs[n] \intersect R \subseteq X)
             => UR \subseteq X
    <3>1. /\ closure(rrefs, rseed) \subseteq DOMAIN rrefs
          /\ rseed \intersect DOMAIN rrefs \subseteq closure(rrefs, rseed)
          /\ \A n \in closure(rrefs, rseed) : rrefs[n] \intersect DOMAIN rrefs \subseteq closure(rrefs, rseed)
          /\ \A X \in SUBSET DOMAIN rrefs :
               (rseed \intersect DOMAIN rrefs \subseteq X
                 /\ \A n \in X : rrefs[n] \intersect DOMAIN rrefs \subseteq X)
               => closure(rrefs, rseed) \subseteq X
      BY <1>1, <2>1, ClosureIsLeast
    <3> QED BY <3>1, <2>1, <1>2
  <2>3. \A n \in UR : c.responses[n].responses \intersect R \subseteq UR
    BY <2>1, <2>2
  <2>4. ASSUME NEW X \in SUBSET R, rseed \intersect R \subseteq X,
               \A n \in X : c.responses[n].responses \intersect R \subseteq X
        PROVE  UR \subseteq X
    <3>1. \A n \in X : rrefs[n] \intersect R \subseteq X
      BY <2>1, <2>4
    <3> QED BY <2>2, <2>4, <3>1
  <2> QED BY <2>2, <2>3, <2>4
<1>6. /\ US \subseteq S /\ sseed \intersect S \subseteq US
      /\ \A n \in US : c.schemas[n].schemas \intersect S \subseteq US
      /\ \A X \in SUBSET S :
           (sseed \intersect S \subseteq X /\ \A n \in X : c.schemas[n].schemas \intersect S \subseteq X)
           => US \subseteq X
  <2>1. DOMAIN srefs = S /\ \A n \in S : srefs[n] = c.schemas[n].schemas
    OBVIOUS
  <2> HIDE DEF S, srefs, sseed, US
  <2>2. /\ US \subseteq S /\ sseed \intersect S \subseteq US
        /\ \A n \in US : srefs[n] \intersect S \subseteq US
        /\ \A X \in SUBSET S :
             (sseed \intersect S \subseteq X /\ \A n \in X : srefs[n] \intersect S \subseteq X)
             => US \subseteq X
    <3>1. /\ closure(srefs, sseed) \subseteq DOMAIN srefs
          /\ sseed \intersect DOMAIN srefs \subseteq closure(srefs, sseed)
          /\ \A n \in closure(srefs, sseed) : srefs[n] \intersect DOMAIN srefs \subseteq closure(srefs, sseed)
          /\ \A X \in SUBSET DOMAIN srefs :
               (sseed \intersect DOMAIN srefs \subseteq X
                 /\ \A n \in X : srefs[n] \intersect DOMAIN srefs \subseteq X)
               => closure(srefs, sseed) \subseteq X
      BY <1>1, <2>1, ClosureIsLeast
    <3> QED BY <3>1, <2>1, <1>2
  <2>3. \A n \in US : c.schemas[n].schemas \intersect S \subseteq US
    BY <2>1, <2>2
  <2>4. ASSUME NEW X \in SUBSET S, sseed \intersect S \subseteq X,
               \A n \in X : c.schemas[n].schemas \intersect S \subseteq X
        PROVE  US \subseteq X
    <3>1. \A n \in X : srefs[n] \intersect S \subseteq X
      BY <2>1, <2>4
    <3> QED BY <2>2, <2>4, <3>1
  <2> QED BY <2>2, <2>3, <2>4
<1>7. ASSUME NEW o \in P
      PROVE  Reached(c, o) \subseteq P \union US \union UR
  <2> DEFINE X == P \union US \union UR
  <2>1. X \in SUBSET Defined(c) /\ o \in X
    <3> HIDE DEF R, S, UR, US
    <3> QED BY <1>3, <1>5, <1>6
  <2>2. HasReferences(c, X)
    <3> SUFFICES ASSUME NEW n \in X, NEW k \in References(c, n)
                 PROVE  k \in X
      BY DEF HasReferences
    <3>1. k \in Defined(c) /\ (k \in Fragment(c, n).schemas \/ k \in Fragment(c, n).responses)
      BY DEF References
    <3>2. n \in Defined(c)
      BY <2>1
    <3>3. /\ k \in Fragment(c, n).schemas => k \in S
          /\ k \in Fragment(c, n).responses => k \in R
      BY <3>1, <3>2, Kinds DEF Defined
    <3>4. CASE n \in P
      <4>1. Fragment(c, n) = c.operations[n]
        BY <3>4, Kinds
      <4>2. /\ k \in Fragment(c, n).schemas => k \in sseed
            /\ k \in Fragment(c, n).responses => k \in rseed
        BY <3>4, <4>1
      <4> HIDE DEF R, S, sseed, rseed, UR, US
      <4> QED BY <3>1, <3>3, <4>2, <1>5, <1>6
    <3>5. CASE n \in UR
      <4>0. n \in R
        BY <1>5, <3>5
      <4>1. Fragment(c, n) = c.responses[n]
        <5> HIDE DEF UR
        <5> QED BY <4>0, Kinds
      <4>2. k \in Fragment(c, n).schemas => k \in sseed
        <5>1. n \in UR /\ c.responses[n].schemas \in {c.responses[m].schemas : m \in UR}
          BY <3>5
        <5> HIDE DEF UR
        <5> QED BY <5>1, <4>1
      <4> HIDE DEF R, S, sseed, rseed, UR, US
      <4> QED BY <3>1, <3>3, <3>5, <4>1, <4>2, <1>5, <1>6
    <3>6. CASE n \in US
      <4>0. n \in S
        BY <1>6, <3>6
      <4>1. Fragment(c, n) = c.schemas[n] /\ Fragment(c, n).responses = {}
        BY <4>0, <3>2, Kinds
      <4> HIDE DEF R, S, sseed, rseed, UR, US
      <4> QED BY <3>1, <3>3, <3>6, <4>1, <1>6
    <3> QED BY <3>4, <3>5, <3>6
  <2> HIDE DEF X
  <2>3. Reached(c, o) \subseteq X
    BY <2>1, <2>2 DEF Reached
  <2> QED BY <2>3 DEF X
<1>8. U \subseteq Defined(c) /\ P \subseteq U /\ HasReferences(c, U)
  <2>1. ASSUME NEW o \in P
        PROVE  Reached(c, o) \subseteq Defined(c) /\ o \in Reached(c, o) /\ HasReferences(c, Reached(c, o))
    BY DEF Reached, HasReferences, References
  <2>2. \A n \in U : \E o \in P : n \in Reached(c, o)
    OBVIOUS
  <2>3. \A o \in P : Reached(c, o) \subseteq U
    OBVIOUS
  <2> HIDE DEF U
  <2> QED BY <2>1, <2>2, <2>3 DEF HasReferences
<1>9. UR \subseteq U
  <2>1. rseed \intersect R \subseteq U
    <3> SUFFICES ASSUME NEW o \in P, NEW k \in c.operations[o].responses, k \in R
                 PROVE  k \in U
      OBVIOUS
    <3>1. k \in References(c, o)
      BY <1>3, Kinds DEF References
    <3> HIDE DEF U
    <3> QED BY <3>1, <1>8 DEF HasReferences
  <2>2. \A n \in U \intersect R : c.responses[n].responses \intersect R \subseteq U
    <3> SUFFICES ASSUME NEW n \in U \intersect R, NEW k \in c.responses[n].responses, k \in R
                 PROVE  k \in U
      OBVIOUS
    <3>1. k \in References(c, n)
      <4> HIDE DEF U
      <4> QED BY <1>3, Kinds DEF References
    <3> HIDE DEF U
    <3> QED BY <3>1, <1>8 DEF HasReferences
  <2>3. U \intersect R \in SUBSET R
    OBVIOUS
  <2> HIDE DEF U, R, rseed, UR
  <2> QED BY <2>1, <2>2, <2>3, <1>5
<1>10. US \subseteq U
  <2>1. sseed \intersect S \subseteq U
    <3>1. ASSUME NEW o \in P, NEW k \in c.operations[o].schemas, k \in S
          PROVE  k \in U
      <4>1. k \in References(c, o)
        BY <3>1, <1>3, Kinds DEF References
      <4> HIDE DEF U
      <4> QED BY <4>1, <1>8 DEF HasReferences
    <3>2. ASSUME NEW n \in UR, NEW k \in c.responses[n].schemas, k \in S
          PROVE  k \in U
      <4>1. n \in R
        BY <1>5
      <4>2. k \in References(c, n)
        <5> HIDE DEF UR, U
        <5> QED BY <3>2, <4>1, <1>3, Kinds DEF References
      <4> HIDE DEF U
      <4> QED BY <4>2, <1>8, <1>9 DEF HasReferences
    <3>3. \A k \in sseed : \/ \E o \in P : k \in c.operations[o].schemas
                           \/ \E n \in UR : k \in c.responses[n].schemas
      <4> HIDE DEF UR
      <4> QED OBVIOUS
    <3> HIDE DEF U, S, UR, sseed
    <3> QED BY <3>1, <3>2, <3>3
  <2>2. \A n \in U \intersect S : c.schemas[n].schemas \intersect S \subseteq U
    <3> SUFFICES ASSUME NEW n \in U \intersect S, NEW k \in c.schemas[n].schemas, k \in S
                 PROVE  k \in U
      OBVIOUS
    <3>1. k \in References(c, n)
      <4> HIDE DEF U
      <4> QED BY <1>3, Kinds DEF References
    <3> HIDE DEF U
    <3> QED BY <3>1, <1>8 DEF HasReferences
  <2>3. U \intersect S \in SUBSET S
    OBVIOUS
  <2> HIDE DEF U, S, sseed, US
  <2> QED BY <2>1, <2>2, <2>3, <1>6
<1>11. U \subseteq P \union US \union UR
  BY <1>7
<1> HIDE DEF U, US, UR
<1>12. US \subseteq Schemas /\ UR \subseteq Responses
  BY <1>5, <1>6
<1>13. P \union US \union UR = U
  BY <1>8, <1>9, <1>10, <1>11
<1> QED BY <1>12, <1>13 DEF U, US, UR

(* A slice is that of the operations that are defined. *)
LEMMA Slice ==
  ASSUME NEW c, IsContract(c), NEW r \in Resources, NEW M \in SUBSET Methods
  PROVE  LET P == paths_for_resource(c, r, M)
         IN  /\ P = {o \in {r} \X M : o \in Defined(c)}
             /\ P \in SUBSET (Operations \intersect Defined(c))
             /\ openapi_slice_for_resource(c, r, M) =
                  [paths     |-> [o \in P |-> openapi_structure_only(c.operations[o])],
                   schemas   |-> [n \in UsedSchemas(c, P) |-> openapi_structure_only(c.schemas[n])],
                   responses |-> [n \in UsedResponses(c, P) |-> openapi_structure_only(c.responses[n])]]
<1> DEFINE P == paths_for_resource(c, r, M)
<1>1. P = {o \in {r} \X M : o \in Defined(c)}
  <2>1. \A o \in {r} \X M : o \in Operations
    BY DEF Operations
  <2> QED BY <2>1, Kinds DEF paths_for_resource, Defined
<1>2. P \in SUBSET (Operations \intersect Defined(c))
  BY <1>1 DEF Operations
<1>3. openapi_slice_for_resource(c, r, M) =
                  [paths     |-> [o \in P |-> openapi_structure_only(c.operations[o])],
                   schemas   |-> [n \in UsedSchemas(c, P) |-> openapi_structure_only(c.schemas[n])],
                   responses |-> [n \in UsedResponses(c, P) |-> openapi_structure_only(c.responses[n])]]
  BY DEF openapi_slice_for_resource, UsedSchemas, UsedResponses
<1> QED BY <1>1, <1>2, <1>3

(* Two slices are equal exactly if the same is reached, with the same structure. *)
LEMMA SlicesEqual ==
  ASSUME NEW c, IsContract(c), NEW e, IsContract(e), NEW r \in Resources, NEW M \in SUBSET Methods
  PROVE  LET P == paths_for_resource(c, r, M)
             Q == paths_for_resource(e, r, M)
             U == UNION {Reached(c, o) : o \in P}
             V == UNION {Reached(e, o) : o \in Q}
         IN  openapi_slice_for_resource(c, r, M) = openapi_slice_for_resource(e, r, M) <=>
               P = Q /\ U = V /\ \A n \in U : openapi_structure_only(Fragment(c, n)) = openapi_structure_only(Fragment(e, n))
<1> DEFINE P == paths_for_resource(c, r, M)
           Q == paths_for_resource(e, r, M)
           U == UNION {Reached(c, o) : o \in P}
           V == UNION {Reached(e, o) : o \in Q}
           SameAt(n) == openapi_structure_only(Fragment(c, n)) = openapi_structure_only(Fragment(e, n))
           C == openapi_slice_for_resource(c, r, M)
           E == openapi_slice_for_resource(e, r, M)
<1>1. /\ P \in SUBSET (Operations \intersect Defined(c))
      /\ C = [paths     |-> [o \in P |-> openapi_structure_only(c.operations[o])],
              schemas   |-> [n \in UsedSchemas(c, P) |-> openapi_structure_only(c.schemas[n])],
              responses |-> [n \in UsedResponses(c, P) |-> openapi_structure_only(c.responses[n])]]
  BY Slice
<1>2. /\ Q \in SUBSET (Operations \intersect Defined(e))
      /\ E = [paths     |-> [o \in Q |-> openapi_structure_only(e.operations[o])],
              schemas   |-> [n \in UsedSchemas(e, Q) |-> openapi_structure_only(e.schemas[n])],
              responses |-> [n \in UsedResponses(e, Q) |-> openapi_structure_only(e.responses[n])]]
  BY Slice
<1>3. /\ UsedSchemas(c, P) \subseteq Schemas /\ UsedResponses(c, P) \subseteq Responses
      /\ P \union UsedSchemas(c, P) \union UsedResponses(c, P) = U
  BY <1>1, UsedIsReached
<1>4. /\ UsedSchemas(e, Q) \subseteq Schemas /\ UsedResponses(e, Q) \subseteq Responses
      /\ Q \union UsedSchemas(e, Q) \union UsedResponses(e, Q) = V
  BY <1>2, UsedIsReached
<1> DEFINE CS == UsedSchemas(c, P)
           CR == UsedResponses(c, P)
           ES == UsedSchemas(e, Q)
           ER == UsedResponses(e, Q)
<1>5. C = E <=> /\ P = Q /\ \A o \in P : openapi_structure_only(c.operations[o]) = openapi_structure_only(e.operations[o])
                /\ CS = ES /\ \A n \in CS : openapi_structure_only(c.schemas[n]) = openapi_structure_only(e.schemas[n])
                /\ CR = ER /\ \A n \in CR : openapi_structure_only(c.responses[n]) = openapi_structure_only(e.responses[n])
  <2> HIDE DEF P, Q, CS, CR, ES, ER, C, E
  <2>1. C = E <=> C.paths = E.paths /\ C.schemas = E.schemas /\ C.responses = E.responses
    BY <1>1, <1>2 DEF CS, CR, ES, ER
  <2>2. C.paths = E.paths <=> P = Q /\ \A o \in P : openapi_structure_only(c.operations[o]) = openapi_structure_only(e.operations[o])
    <3>1. /\ C.paths = [o \in P |-> openapi_structure_only(c.operations[o])]
          /\ E.paths = [o \in Q |-> openapi_structure_only(e.operations[o])]
      BY <1>1, <1>2
    <3> QED BY <3>1
  <2>3. C.schemas = E.schemas <=> CS = ES /\ \A n \in CS : openapi_structure_only(c.schemas[n]) = openapi_structure_only(e.schemas[n])
    <3>1. /\ C.schemas = [n \in CS |-> openapi_structure_only(c.schemas[n])]
          /\ E.schemas = [n \in ES |-> openapi_structure_only(e.schemas[n])]
      BY <1>1, <1>2 DEF CS, ES
    <3> QED BY <3>1
  <2>4. C.responses = E.responses <=> CR = ER /\ \A n \in CR : openapi_structure_only(c.responses[n]) = openapi_structure_only(e.responses[n])
    <3>1. /\ C.responses = [n \in CR |-> openapi_structure_only(c.responses[n])]
          /\ E.responses = [n \in ER |-> openapi_structure_only(e.responses[n])]
      BY <1>1, <1>2 DEF CR, ER
    <3> QED BY <3>1
  <2> QED BY <2>1, <2>2, <2>3, <2>4
<1>6. /\ \A o \in P : SameAt(o) <=> openapi_structure_only(c.operations[o]) = openapi_structure_only(e.operations[o])
      /\ \A n \in CS : SameAt(n) <=> openapi_structure_only(c.schemas[n]) = openapi_structure_only(e.schemas[n])
      /\ \A n \in CR : SameAt(n) <=> openapi_structure_only(c.responses[n]) = openapi_structure_only(e.responses[n])
  <2> HIDE DEF P, Q, CS, CR
  <2>1. P \subseteq Operations /\ CS \subseteq Schemas /\ CR \subseteq Responses
    BY <1>1, <1>3 DEF CS, CR
  <2>2. /\ \A o \in Operations : Fragment(c, o) = c.operations[o] /\ Fragment(e, o) = e.operations[o]
        /\ \A n \in Schemas : Fragment(c, n) = c.schemas[n] /\ Fragment(e, n) = e.schemas[n]
        /\ \A n \in Responses : Fragment(c, n) = c.responses[n] /\ Fragment(e, n) = e.responses[n]
    BY Kinds
  <2> QED BY <2>1, <2>2
<1>7. P = Q /\ U = V <=> P = Q /\ CS = ES /\ CR = ER
  <2>1. P \subseteq Operations /\ Q \subseteq Operations
    BY <1>1, <1>2
  <2>2. P \union CS \union CR = U /\ Q \union ES \union ER = V
    BY <1>3, <1>4
  <2>3. CS \subseteq Schemas /\ CR \subseteq Responses /\ ES \subseteq Schemas /\ ER \subseteq Responses
    BY <1>3, <1>4
  <2> HIDE DEF P, Q, CS, CR, ES, ER, U, V
  <2> QED BY <2>1, <2>2, <2>3, NamesAssumption
<1>8. P \union CS \union CR = U
  BY <1>3
<1>9. C = E <=> P = Q /\ U = V /\ \A n \in U : SameAt(n)
  <2> HIDE DEF P, Q, U, V, CS, CR, ES, ER, C, E, SameAt
  <2> QED BY <1>5, <1>6, <1>7, <1>8
<1> QED BY <1>9

(* What is reached is defined, and has what it refers to. *)
LEMMA ReachedIsClosed ==
  ASSUME NEW c, NEW o
  PROVE  /\ Reached(c, o) \in SUBSET Defined(c) /\ HasReferences(c, Reached(c, o))
         /\ Reached(c, o) # {} <=> o \in Defined(c)
         /\ o \in Defined(c) => o \in Reached(c, o)
<1>1. o \in Defined(c) => o \in Reached(c, o)
  BY DEF Reached
<1>2. HasReferences(c, Reached(c, o))
  BY DEF Reached, HasReferences, References
<1> QED BY <1>1, <1>2 DEF Reached

(* A definition is equal to another, but for its documentation, only if it refers to the same. *)
LEMMA SameReferences ==
  ASSUME NEW f \in Fragments, NEW g \in Fragments,
         openapi_structure_only(f) = openapi_structure_only(g)
  PROVE  f.schemas = g.schemas /\ f.responses = g.responses
  BY DEF Fragments, openapi_structure_only

(* A slice tells, of each of its operations, whether what it depends on is the same. *)
LEMMA SliceTells ==
  ASSUME NEW c, IsContract(c), NEW e, IsContract(e), NEW r \in Resources, NEW M \in SUBSET Methods
  PROVE  openapi_slice_for_resource(c, r, M) = openapi_slice_for_resource(e, r, M)
           <=> \A m \in M : DependsOn(c, <<r, m>>) = DependsOn(e, <<r, m>>)
<1> DEFINE P == paths_for_resource(c, r, M)
           Q == paths_for_resource(e, r, M)
           U == UNION {Reached(c, o) : o \in P}
           V == UNION {Reached(e, o) : o \in Q}
           SameAt(n) == openapi_structure_only(Fragment(c, n)) = openapi_structure_only(Fragment(e, n))
           Equal == P = Q /\ U = V /\ \A n \in U : SameAt(n)
           Same == \A m \in M : DependsOn(c, <<r, m>>) = DependsOn(e, <<r, m>>)
<1>1. openapi_slice_for_resource(c, r, M) = openapi_slice_for_resource(e, r, M) <=> Equal
  BY SlicesEqual
<1>2. P = {o \in {r} \X M : o \in Defined(c)} /\ Q = {o \in {r} \X M : o \in Defined(e)}
  BY Slice
<1>3. \A o : /\ DependsOn(c, o) = {<<n, openapi_structure_only(Fragment(c, n))>> : n \in Reached(c, o)}
             /\ DependsOn(e, o) = {<<n, openapi_structure_only(Fragment(e, n))>> : n \in Reached(e, o)}
  BY DEF DependsOn, openapi_structure_only
<1>4. \A o : (DependsOn(c, o) = DependsOn(e, o)) <=>
               (Reached(c, o) = Reached(e, o) /\ \A n \in Reached(c, o) : SameAt(n))
  <2> SUFFICES ASSUME NEW o
               PROVE  (DependsOn(c, o) = DependsOn(e, o)) <=>
                      (Reached(c, o) = Reached(e, o) /\ \A n \in Reached(c, o) : SameAt(n))
    OBVIOUS
  <2>1. /\ DependsOn(c, o) = {<<n, openapi_structure_only(Fragment(c, n))>> : n \in Reached(c, o)}
        /\ DependsOn(e, o) = {<<n, openapi_structure_only(Fragment(e, n))>> : n \in Reached(e, o)}
    BY <1>3
  <2>2. ASSUME DependsOn(c, o) = DependsOn(e, o)
        PROVE  Reached(c, o) = Reached(e, o) /\ \A n \in Reached(c, o) : SameAt(n)
    <3>1. ASSUME NEW n \in Reached(c, o)
          PROVE  n \in Reached(e, o) /\ SameAt(n)
      <4>1. <<n, openapi_structure_only(Fragment(c, n))>> \in DependsOn(e, o)
        BY <2>1, <2>2
      <4>2. PICK k \in Reached(e, o) :
              <<n, openapi_structure_only(Fragment(c, n))>> = <<k, openapi_structure_only(Fragment(e, k))>>
        BY <2>1, <4>1
      <4> QED BY <4>2
    <3>2. ASSUME NEW n \in Reached(e, o)
          PROVE  n \in Reached(c, o)
      <4>1. <<n, openapi_structure_only(Fragment(e, n))>> \in DependsOn(c, o)
        BY <2>1, <2>2
      <4>2. PICK k \in Reached(c, o) :
              <<n, openapi_structure_only(Fragment(e, n))>> = <<k, openapi_structure_only(Fragment(c, k))>>
        BY <2>1, <4>1
      <4> QED BY <4>2
    <3> QED BY <3>1, <3>2
  <2>3. ASSUME Reached(c, o) = Reached(e, o), \A n \in Reached(c, o) : SameAt(n)
        PROVE  DependsOn(c, o) = DependsOn(e, o)
    BY <2>1, <2>3
  <2> QED BY <2>2, <2>3
<1>5. ASSUME Same
      PROVE  Equal
  <2>1. \A o \in {r} \X M : Reached(c, o) = Reached(e, o) /\ \A n \in Reached(c, o) : SameAt(n)
    <3>1. \A o \in {r} \X M : DependsOn(c, o) = DependsOn(e, o)
      BY <1>5
    <3> QED BY <3>1, <1>4
  <2>2. P = Q
    <3>1. \A o \in {r} \X M : o \in Defined(c) <=> o \in Defined(e)
      BY <2>1, ReachedIsClosed
    <3> QED BY <3>1, <1>2
  <2>3. \A o \in P : o \in {r} \X M
    BY <1>2
  <2>4. U = V
    BY <2>1, <2>2, <2>3
  <2>5. \A n \in U : SameAt(n)
    BY <2>1, <2>3
  <2> QED BY <2>2, <2>4, <2>5
<1>6. ASSUME Equal
      PROVE  Same
  <2>1. P = Q /\ U = V /\ \A n \in U : SameAt(n)
    BY <1>6
  <2>2. \A o \in P : Reached(c, o) \subseteq U /\ Reached(e, o) \subseteq U
    BY <2>1
  <2>3. U \subseteq Defined(c) /\ U \subseteq Defined(e)
    <3>1. U \subseteq Defined(c)
      BY ReachedIsClosed
    <3>2. V \subseteq Defined(e)
      BY ReachedIsClosed
    <3> QED BY <3>1, <3>2, <2>1
  <2>4. \A n \in U : References(c, n) \subseteq U /\ References(e, n) \subseteq U
    <3>1. \A n \in U : References(c, n) \subseteq U
      <4>1. \A o : HasReferences(c, Reached(c, o))
        BY ReachedIsClosed
      <4> QED BY <4>1 DEF HasReferences
    <3>2. \A n \in V : References(e, n) \subseteq V
      <4>1. \A o : HasReferences(e, Reached(e, o))
        BY ReachedIsClosed
      <4> QED BY <4>1 DEF HasReferences
    <3> QED BY <3>1, <3>2, <2>1
  <2> HIDE DEF U, V, P, Q, Equal
  <2>5. \A n \in U : References(c, n) = References(e, n)
    <3> SUFFICES ASSUME NEW n \in U
                 PROVE  References(c, n) = References(e, n)
      OBVIOUS
    <3>1. Fragment(c, n) \in Fragments /\ Fragment(e, n) \in Fragments
      <4>1. n \in Operations \union Schemas \union Responses
        BY <2>3 DEF Defined
      <4> QED BY <4>1, <2>3, Kinds
    <3>2. Fragment(c, n).schemas = Fragment(e, n).schemas /\ Fragment(c, n).responses = Fragment(e, n).responses
      BY <3>1, <2>1, SameReferences
    <3>3. \A k \in References(c, n) : k \in Defined(e)
      BY <2>4, <2>3
    <3>4. \A k \in References(e, n) : k \in Defined(c)
      BY <2>4, <2>3
    <3> QED BY <3>2, <3>3, <3>4 DEF References
  <2>6. ASSUME NEW o \in P
        PROVE  Reached(c, o) = Reached(e, o)
    <3>1. o \in Defined(c) /\ o \in Defined(e)
      BY <1>2, <2>1
    <3>2. Reached(c, o) \subseteq Reached(e, o)
      <4>1. Reached(e, o) \in SUBSET Defined(c) /\ o \in Reached(e, o)
        BY <3>1, <2>2, <2>3, ReachedIsClosed
      <4>2. HasReferences(c, Reached(e, o))
        BY ReachedIsClosed, <2>2, <2>5 DEF HasReferences
      <4> QED BY <4>1, <4>2 DEF Reached
    <3>3. Reached(e, o) \subseteq Reached(c, o)
      <4>1. Reached(c, o) \in SUBSET Defined(e) /\ o \in Reached(c, o)
        BY <3>1, <2>2, <2>3, ReachedIsClosed
      <4>2. HasReferences(e, Reached(c, o))
        BY ReachedIsClosed, <2>2, <2>5 DEF HasReferences
      <4> QED BY <4>1, <4>2 DEF Reached
    <3> QED BY <3>2, <3>3
  <2>7. ASSUME NEW m \in M
        PROVE  DependsOn(c, <<r, m>>) = DependsOn(e, <<r, m>>)
    <3> DEFINE o == <<r, m>>
    <3>1. o \in {r} \X M
      OBVIOUS
    <3> HIDE DEF o
    <3>2. CASE o \in P
      BY <3>2, <2>6, <2>2, <2>1, <1>4 DEF o
    <3>3. CASE o \notin P
      <4>1. o \notin Defined(c) /\ o \notin Defined(e)
        BY <3>1, <3>3, <1>2, <2>1
      <4>2. Reached(c, o) = {} /\ Reached(e, o) = {}
        BY <4>1, ReachedIsClosed
      <4> QED BY <4>2, <1>4 DEF o
    <3> QED BY <3>2, <3>3
  <2> QED BY <2>7
<1> HIDE DEF Equal, Same
<1>7. openapi_slice_for_resource(c, r, M) = openapi_slice_for_resource(e, r, M) <=> Same
  BY <1>1, <1>5, <1>6
<1> QED BY <1>7 DEF Same

-----------------------------------------------------------------------------
(* A digest is equal to another exactly if what they are taken of is. *)
LEMMA DigestsTell ==
  ASSUME NEW c \in Contracts, NEW e \in Contracts
  PROVE  /\ \A r \in Resources :
              Hashes[c].api[r] = Hashes[e].api[r] <=>
                openapi_slice_for_resource(Defs[c], r, Methods) = openapi_slice_for_resource(Defs[e], r, Methods)
         /\ \A o \in Operations :
              Hashes[c].api_method[o] = Hashes[e].api_method[o] <=>
                compute_api_method_compatibility_hashes(Defs[c])[o] = compute_api_method_compatibility_hashes(Defs[e])[o]
         /\ \A t \in Tables :
              Hashes[c].schema[t] = Hashes[e].schema[t] <=>
                table_contract_descriptor(Defs[c].tables[t]) = table_contract_descriptor(Defs[e].tables[t])
         /\ Hashes[c] = Hashes[e] <=>
              /\ \A r \in Resources : Hashes[c].api[r] = Hashes[e].api[r]
              /\ \A o \in Operations : Hashes[c].api_method[o] = Hashes[e].api_method[o]
              /\ \A t \in Tables : Hashes[c].schema[t] = Hashes[e].schema[t]
<1> DEFINE Computed(x) == compute_hashes(Defs[x])
<1>1. ASSUME NEW s, NEW k, NEW x \in Contracts
      PROVE  /\ canonical_hash(s, k, Computed(x)[s][k]) \in Contracts
             /\ Computed(canonical_hash(s, k, Computed(x)[s][k]))[s][k] = Computed(x)[s][k]
  BY DEF canonical_hash
<1>2. ASSUME NEW s, NEW k
      PROVE  canonical_hash(s, k, Computed(c)[s][k]) = canonical_hash(s, k, Computed(e)[s][k])
               <=> Computed(c)[s][k] = Computed(e)[s][k]
  <2>1. /\ Computed(canonical_hash(s, k, Computed(c)[s][k]))[s][k] = Computed(c)[s][k]
        /\ Computed(canonical_hash(s, k, Computed(e)[s][k]))[s][k] = Computed(e)[s][k]
    BY <1>1
  <2> HIDE DEF Computed
  <2> QED BY <2>1
<1>3. ASSUME NEW x \in Contracts
      PROVE  /\ DOMAIN Computed(x) = {"api", "api_method", "schema"}
             /\ DOMAIN Computed(x)["api"] = Resources
             /\ DOMAIN Computed(x)["api_method"] = Operations
             /\ DOMAIN Computed(x)["schema"] = Tables
             /\ \A r \in Resources : Computed(x)["api"][r] = openapi_slice_for_resource(Defs[x], r, Methods)
             /\ \A o \in Operations : Computed(x)["api_method"][o] = compute_api_method_compatibility_hashes(Defs[x])[o]
             /\ \A t \in Tables : Computed(x)["schema"][t] = table_contract_descriptor(Defs[x].tables[t])
  BY DEF compute_hashes, compute_api_compatibility_hashes, compute_api_method_compatibility_hashes,
         compute_schema_compatibility_hashes
<1> HIDE DEF Computed
<1>4. ASSUME NEW x \in Contracts
      PROVE  Hashes[x] = [s \in DOMAIN Computed(x) |->
                            [k \in DOMAIN Computed(x)[s] |-> canonical_hash(s, k, Computed(x)[s][k])]]
  BY DEF Hashes, Computed
<1>5. ASSUME NEW x \in Contracts
      PROVE  /\ DOMAIN Hashes[x] = {"api", "api_method", "schema"}
             /\ Hashes[x] = [s \in {"api", "api_method", "schema"} |-> Hashes[x][s]]
             /\ Hashes[x].api = [r \in Resources |-> canonical_hash("api", r, Computed(x)["api"][r])]
             /\ Hashes[x].api_method = [o \in Operations |-> canonical_hash("api_method", o, Computed(x)["api_method"][o])]
             /\ Hashes[x].schema = [t \in Tables |-> canonical_hash("schema", t, Computed(x)["schema"][t])]
  <2>1. DOMAIN Computed(x) = {"api", "api_method", "schema"}
    BY <1>3
  <2>2. Hashes[x] = [s \in {"api", "api_method", "schema"} |->
                            [k \in DOMAIN Computed(x)[s] |-> canonical_hash(s, k, Computed(x)[s][k])]]
    BY <1>4, <2>1
  <2>3. /\ DOMAIN Hashes[x] = {"api", "api_method", "schema"}
        /\ Hashes[x] = [s \in {"api", "api_method", "schema"} |-> Hashes[x][s]]
    BY <2>2
  <2>4. \A s \in {"api", "api_method", "schema"} :
          Hashes[x][s] = [k \in DOMAIN Computed(x)[s] |-> canonical_hash(s, k, Computed(x)[s][k])]
    BY <2>2
  <2>5. /\ Hashes[x]["api"] = [r \in Resources |-> canonical_hash("api", r, Computed(x)["api"][r])]
        /\ Hashes[x]["api_method"] = [o \in Operations |-> canonical_hash("api_method", o, Computed(x)["api_method"][o])]
        /\ Hashes[x]["schema"] = [t \in Tables |-> canonical_hash("schema", t, Computed(x)["schema"][t])]
    <3>1. DOMAIN Computed(x)["api"] = Resources /\ DOMAIN Computed(x)["api_method"] = Operations
          /\ DOMAIN Computed(x)["schema"] = Tables
      BY <1>3
    <3> QED BY <2>4, <3>1
  <2> QED BY <2>3, <2>5
<1> DEFINE hc == Hashes[c]
           he == Hashes[e]
<1>6. /\ hc = [s \in {"api", "api_method", "schema"} |-> hc[s]]
      /\ hc.api = [r \in Resources |-> canonical_hash("api", r, Computed(c)["api"][r])]
      /\ hc.api_method = [o \in Operations |-> canonical_hash("api_method", o, Computed(c)["api_method"][o])]
      /\ hc.schema = [t \in Tables |-> canonical_hash("schema", t, Computed(c)["schema"][t])]
      /\ he = [s \in {"api", "api_method", "schema"} |-> he[s]]
      /\ he.api = [r \in Resources |-> canonical_hash("api", r, Computed(e)["api"][r])]
      /\ he.api_method = [o \in Operations |-> canonical_hash("api_method", o, Computed(e)["api_method"][o])]
      /\ he.schema = [t \in Tables |-> canonical_hash("schema", t, Computed(e)["schema"][t])]
  <2> HIDE DEF Hashes
  <2> QED BY <1>5
<1> HIDE DEF hc, he
<1>7. hc = he <=> hc.api = he.api /\ hc.api_method = he.api_method /\ hc.schema = he.schema
  BY <1>6
<1>8. /\ hc.api = he.api <=> \A r \in Resources : hc.api[r] = he.api[r]
      /\ hc.api_method = he.api_method <=> \A o \in Operations : hc.api_method[o] = he.api_method[o]
      /\ hc.schema = he.schema <=> \A t \in Tables : hc.schema[t] = he.schema[t]
  BY <1>6
<1>9. \A r \in Resources :
        hc.api[r] = he.api[r] <=>
          openapi_slice_for_resource(Defs[c], r, Methods) = openapi_slice_for_resource(Defs[e], r, Methods)
  <2> SUFFICES ASSUME NEW r \in Resources
               PROVE  hc.api[r] = he.api[r] <=> Computed(c)["api"][r] = Computed(e)["api"][r]
    BY <1>3
  <2>1. /\ hc.api[r] = canonical_hash("api", r, Computed(c)["api"][r])
        /\ he.api[r] = canonical_hash("api", r, Computed(e)["api"][r])
    BY <1>6
  <2> QED BY <2>1, <1>2
<1>10. \A o \in Operations :
         hc.api_method[o] = he.api_method[o] <=>
           compute_api_method_compatibility_hashes(Defs[c])[o] = compute_api_method_compatibility_hashes(Defs[e])[o]
  <2> SUFFICES ASSUME NEW o \in Operations
               PROVE  hc.api_method[o] = he.api_method[o] <=> Computed(c)["api_method"][o] = Computed(e)["api_method"][o]
    BY <1>3
  <2>1. /\ hc.api_method[o] = canonical_hash("api_method", o, Computed(c)["api_method"][o])
        /\ he.api_method[o] = canonical_hash("api_method", o, Computed(e)["api_method"][o])
    BY <1>6
  <2> QED BY <2>1, <1>2
<1>11. \A t \in Tables :
         hc.schema[t] = he.schema[t] <=>
           table_contract_descriptor(Defs[c].tables[t]) = table_contract_descriptor(Defs[e].tables[t])
  <2> SUFFICES ASSUME NEW t \in Tables
               PROVE  hc.schema[t] = he.schema[t] <=> Computed(c)["schema"][t] = Computed(e)["schema"][t]
    BY <1>3
  <2>1. /\ hc.schema[t] = canonical_hash("schema", t, Computed(c)["schema"][t])
        /\ he.schema[t] = canonical_hash("schema", t, Computed(e)["schema"][t])
    BY <1>6
  <2> QED BY <2>1, <1>2
<1> QED BY <1>7, <1>8, <1>9, <1>10, <1>11 DEF hc, he

(* Of two contracts the hash of a resource, or of an operation, is the same exactly if what its
   operations, or it, depends on is. *)
LEMMA PinsTell ==
  ASSUME NEW c \in Contracts, NEW e \in Contracts
  PROVE  /\ \A r \in Resources :
              Hashes[c].api[r] = Hashes[e].api[r] <=>
                \A m \in Methods : Dependencies[c][<<r, m>>] = Dependencies[e][<<r, m>>]
         /\ \A o \in Operations :
              Hashes[c].api_method[o] = Hashes[e].api_method[o] <=> Dependencies[c][o] = Dependencies[e][o]
<1>1. IsContract(Defs[c]) /\ IsContract(Defs[e])
  BY ReleaseAssumption
<1>2. \A o \in Operations : Dependencies[c][o] = DependsOn(Defs[c], o) /\ Dependencies[e][o] = DependsOn(Defs[e], o)
  BY DEF Dependencies
<1>3. ASSUME NEW r \in Resources
      PROVE  Hashes[c].api[r] = Hashes[e].api[r] <=>
                \A m \in Methods : Dependencies[c][<<r, m>>] = Dependencies[e][<<r, m>>]
  <2>1. \A m \in Methods : <<r, m>> \in Operations
    BY DEF Operations
  <2>2. openapi_slice_for_resource(Defs[c], r, Methods) = openapi_slice_for_resource(Defs[e], r, Methods)
          <=> \A m \in Methods : DependsOn(Defs[c], <<r, m>>) = DependsOn(Defs[e], <<r, m>>)
    BY <1>1, SliceTells
  <2> QED BY <2>1, <2>2, <1>2, DigestsTell
<1>4. ASSUME NEW o \in Operations
      PROVE  Hashes[c].api_method[o] = Hashes[e].api_method[o] <=> Dependencies[c][o] = Dependencies[e][o]
  <2> DEFINE Slice1(x) == openapi_slice_for_resource(Defs[x], o[1], {o[2]})
             OfMethod(x) == compute_api_method_compatibility_hashes(Defs[x])[o]
  <2>1. o[1] \in Resources /\ o[2] \in Methods /\ o = <<o[1], o[2]>>
    BY DEF Operations
  <2>2. Slice1(c) = Slice1(e) <=> DependsOn(Defs[c], o) = DependsOn(Defs[e], o)
    <3>1. Slice1(c) = Slice1(e)
            <=> \A m \in {o[2]} : DependsOn(Defs[c], <<o[1], m>>) = DependsOn(Defs[e], <<o[1], m>>)
      <4>1. {o[2]} \in SUBSET Methods
        BY <2>1
      <4> HIDE DEF Slice1
      <4> QED BY <1>1, <2>1, <4>1, SliceTells DEF Slice1
    <3> QED BY <3>1, <2>1
  <2>3. \A x \in Contracts : OfMethod(x) = IF Defs[x].operations[o] = None THEN None ELSE Slice1(x)
    BY DEF compute_api_method_compatibility_hashes
  <2>4. Slice1(c) # None /\ Slice1(e) # None
    BY NamesAssumption
  <2>5. /\ Defs[c].operations[o] = None <=> o \notin Defined(Defs[c])
        /\ Defs[e].operations[o] = None <=> o \notin Defined(Defs[e])
    BY <1>1, Kinds DEF Defined
  <2>6. /\ o \in Defined(Defs[c]) <=> DependsOn(Defs[c], o) # {}
        /\ o \in Defined(Defs[e]) <=> DependsOn(Defs[e], o) # {}
    <3>1. ASSUME NEW d
          PROVE  o \in Defined(d) <=> DependsOn(d, o) # {}
      <4>1. Reached(d, o) # {} <=> DependsOn(d, o) # {}
        BY DEF DependsOn
      <4> QED BY <4>1, ReachedIsClosed
    <3> QED BY <3>1
  <2> HIDE DEF Slice1, OfMethod
  <2>7. OfMethod(c) = OfMethod(e) <=> DependsOn(Defs[c], o) = DependsOn(Defs[e], o)
    BY <2>2, <2>3, <2>4, <2>5, <2>6
  <2>8. Hashes[c].api_method[o] = Hashes[e].api_method[o] <=> OfMethod(c) = OfMethod(e)
    BY DigestsTell DEF OfMethod
  <2> QED BY <2>7, <2>8, <1>2
<1> QED BY <1>3, <1>4

(* The compatibility hashes of two contracts are equal exactly if what each operation depends on,
   and the shape of each table, is the same: whatever the contracts are. *)
THEOREM HashesTellContracts == HashesTell
<1> SUFFICES ASSUME NEW c \in Contracts, NEW e \in Contracts
             PROVE  Hashes[c] = Hashes[e] <=> SameContract(c, e)
  BY DEF HashesTell
<1>1. /\ \A r \in Resources : \A m \in Methods : <<r, m>> \in Operations
      /\ \A o \in Operations : o[1] \in Resources /\ o[2] \in Methods /\ o = <<o[1], o[2]>>
  BY DEF Operations
<1>2. Dependencies[c] = Dependencies[e] <=> \A o \in Operations : Dependencies[c][o] = Dependencies[e][o]
  BY DEF Dependencies
<1>3. \A t \in Tables :
        table_contract_descriptor(Defs[c].tables[t]) = table_contract_descriptor(Defs[e].tables[t])
          <=> Defs[c].tables[t].shape = Defs[e].tables[t].shape
  <2>1. \A t \in Tables : Defs[c].tables[t] \in [shape : Shapes, text : Texts]
                        /\ Defs[e].tables[t] \in [shape : Shapes, text : Texts]
    BY ReleaseAssumption DEF IsContract
  <2>2. ASSUME NEW f \in [shape : Shapes, text : Texts], NEW g \in [shape : Shapes, text : Texts]
        PROVE  table_contract_descriptor(f) = table_contract_descriptor(g) <=> f.shape = g.shape
    BY DEF table_contract_descriptor
  <2> QED BY <2>1, <2>2
<1>4. (\A r \in Resources : Hashes[c].api[r] = Hashes[e].api[r])
        <=> \A o \in Operations : Dependencies[c][o] = Dependencies[e][o]
  <2>1. \A r \in Resources :
          Hashes[c].api[r] = Hashes[e].api[r] <=>
            \A m \in Methods : Dependencies[c][<<r, m>>] = Dependencies[e][<<r, m>>]
    BY PinsTell
  <2> QED BY <2>1, <1>1
<1>5. (\A o \in Operations : Hashes[c].api_method[o] = Hashes[e].api_method[o])
        <=> \A o \in Operations : Dependencies[c][o] = Dependencies[e][o]
  BY PinsTell
<1>6. (\A t \in Tables : Hashes[c].schema[t] = Hashes[e].schema[t])
        <=> \A t \in Tables : Defs[c].tables[t].shape = Defs[e].tables[t].shape
  BY <1>3, DigestsTell
<1>7. Hashes[c] = Hashes[e] <=>
        /\ \A r \in Resources : Hashes[c].api[r] = Hashes[e].api[r]
        /\ \A o \in Operations : Hashes[c].api_method[o] = Hashes[e].api_method[o]
        /\ \A t \in Tables : Hashes[c].schema[t] = Hashes[e].schema[t]
  BY DigestsTell
<1> QED BY <1>2, <1>4, <1>5, <1>6, <1>7 DEF SameContract

-----------------------------------------------------------------------------
(* Versions *)

(* The order of versions is transitive... *)
LEMMA LessTransitive ==
  ASSUME NEW u \in Versions, NEW v \in Versions, NEW w \in Versions,
         ~Less(v, u), ~Less(w, v)
  PROVE  ~Less(w, u)
  BY DEF Versions, Less

(* ... and total. *)
LEMMA LessTotal ==
  ASSUME NEW v \in Versions, NEW w \in Versions
  PROVE  Less(v, w) => ~Less(w, v)
  BY DEF Versions, Less

(* A higher version calls for a higher minor version. *)
LEMMA BumpMonotone ==
  ASSUME NEW v \in Versions, NEW w \in Versions, ~Less(w, v)
  PROVE  ~Less(bump_minor(w), bump_minor(v))
  BY DEF Versions, Less, bump_minor

LEMMA BumpTyped ==
  ASSUME NEW v \in Versions
  PROVE  bump_minor(v) \in Versions /\ bump_patch(v) \in Versions /\ ~Less(bump_minor(v), v)
  BY DEF Versions, Less, bump_minor, bump_patch

(* Versions that agree in major and minor are below the next minor version. *)
LEMMA SameMinorIsLess ==
  ASSUME NEW v \in Versions, NEW w \in Versions, SubSeq(v, 1, 2) = SubSeq(w, 1, 2)
  PROVE  Less(w, bump_minor(v))
<1>1. /\ v = <<v[1], v[2], v[3]>> /\ v[1] \in Nat /\ v[2] \in Nat /\ v[3] \in Nat
      /\ w = <<w[1], w[2], w[3]>> /\ w[1] \in Nat /\ w[2] \in Nat /\ w[3] \in Nat
  BY DEF Versions
<1>2. /\ \A i \in 1 .. 2 : v[i] \in Nat
      /\ \A i \in 1 .. 2 : w[i] \in Nat
  BY <1>1
<1>3. /\ \A i \in 1 .. 2 - 1 + 1 : SubSeq(v, 1, 2)[i] = v[1 + i - 1]
      /\ \A i \in 1 .. 2 - 1 + 1 : SubSeq(w, 1, 2)[i] = w[1 + i - 1]
  BY <1>2, SubSeqProperties
<1>4. SubSeq(v, 1, 2)[1] = v[1] /\ SubSeq(v, 1, 2)[2] = v[2]
  BY <1>3
<1>5. SubSeq(w, 1, 2)[1] = w[1] /\ SubSeq(w, 1, 2)[2] = w[2]
  BY <1>3
<1>6. v[1] = w[1] /\ v[2] = w[2]
  BY <1>4, <1>5
<1> QED BY <1>1, <1>6 DEF Less, bump_minor

(* Whatever is staged, the hook does not lower the version. *)
LEMMA PatchNeverLowers ==
  ASSUME NEW v \in Versions, NEW staged \in Staged(v)
  PROVE  /\ bump_patch_version(v, staged) \in Versions
         /\ ~Less(bump_patch_version(v, staged), v)
<1>1. staged \in Versions
  BY DEF Staged, bump_minor, Versions
<1>2. CASE Less(v, staged)
  BY <1>1, <1>2, LessTotal DEF bump_patch_version
<1>3. CASE ~Less(v, staged)
  BY <1>3 DEF bump_patch_version, bump_patch, Versions, Less
<1> QED BY <1>2, <1>3

LEMMA HigherIsHigher ==
  ASSUME NEW v \in Versions, NEW w \in Versions
  PROVE  /\ Higher(v, w) \in Versions
         /\ ~Less(Higher(v, w), v) /\ ~Less(Higher(v, w), w)
<1>1. ~Less(v, v) /\ ~Less(w, w)
  BY DEF Less, Versions
<1> QED BY <1>1, LessTotal DEF Higher

(* Of two versions that are missing one is the highest. *)
LEMMA HighestExists ==
  ASSUME NEW v \in Versions, NEW w \in Versions, NEW M \in SUBSET {v, w}, M # {}
  PROVE  \E h \in M : \A x \in M : ~Less(h, x)
<1>1. ~Less(v, v) /\ ~Less(w, w)
  BY DEF Less, Versions
<1>2. CASE M = {v, w}
  BY <1>1, <1>2, LessTotal
<1>3. CASE M = {v} \/ M = {w}
  BY <1>1, <1>3
<1> QED BY <1>2, <1>3

-----------------------------------------------------------------------------
(* The invariant *)

(* Commits are numbered in the order they are made, and the past of a commit is closed. *)
Log ==
  /\ commits \in Seq({commits[i] : i \in Ids}) /\ Len(commits) \in 1 .. MaxCommits
  /\ \A i \in Ids :
       /\ Version(i) \in Versions /\ commits[i].contract \in Contracts
       /\ commits[i].past \subseteq 1 .. i - 1
       /\ DOMAIN HashFile(i) = {"api", "api_method", "schema"}
       /\ \A j \in commits[i].past : commits[j].past \subseteq commits[i].past

(* main only moves forward. *)
Main ==
  /\ remote \in [Branches -> Ids \union {None}]
  /\ remote[main] \in tips /\ tips \subseteq Ids \intersect Past(remote[main])
  /\ \A t, u \in tips : t \in Past(u) \/ u \in Past(t)
  /\ behind \subseteq tips

Pushes ==
  [branch : Branches \union {None}, old : Ids \union {None}, commit : Ids \union {None}]

Clones ==
  /\ known \in [Developers -> Ids] /\ head \in [Developers -> Ids]
  /\ pushing \in [Developers -> Pushes]
  /\ \A d \in Developers :
       /\ known[d] \in tips
       /\ remote[d] # None => remote[d] \in Past(head[d])
       /\ ~Idle(d) =>
            LET p == pushing[d]
            IN  /\ p.branch \in {d, main} /\ p.commit = head[d]
                /\ p.old \in commits[head[d]].past \union {None}
                /\ p.branch = d => p.old = remote[d]
                /\ p.branch = main => p.old # None

(* What two developers have in common has been on main. *)
Apart ==
  \A d, e \in Developers : d # e => Past(head[d]) \intersect Past(head[e]) \subseteq Past(remote[main])

(* A developer whose work contains a former main has fetched it, or has pushed it himself. *)
Fetched ==
  \A d \in Developers :
    tips \intersect Past(head[d])
      \subseteq Past(known[d]) \union (IF remote[d] = None THEN {} ELSE Past(remote[d]))

(* The version of u tells that its hash file is not t's. *)
Told(t, u) ==
  HashFile(t) # HashFile(u) => ~Less(Version(u), bump_minor(Version(t)))

(* The changes of main are told where no branch was merged that did not contain it, and so would
   be those of a branch or of a push if main moved forward to it. *)
ChangesTold ==
  /\ \A t, u \in tips : t \in Past(u) /\ Behind(t) = Behind(u) => Told(t, u)
  /\ \A d \in Developers :
       /\ remote[d] # None /\ remote[main] \in Past(remote[d]) => Told(remote[main], remote[d])
       /\ ~Idle(d) =>
            LET p == pushing[d]
            IN  /\ p.old # None => Told(p.old, p.commit)
                /\ p.branch = d /\ remote[main] \in Past(p.commit) => Told(remote[main], p.commit)

ReleaseInv == Log /\ NeverDowngrades /\ Main /\ Clones /\ Apart /\ Fetched /\ ChangesTold

-----------------------------------------------------------------------------
(* What the invariant gives *)

LEMMA Names ==
  ASSUME ReleaseInv
  PROVE  /\ Ids = 1 .. Len(commits) /\ Len(commits) \in Nat /\ Ids \subseteq Nat /\ None \notin Ids
         /\ main \in Branches /\ main \notin Developers /\ Developers \subseteq Branches
         /\ tips \subseteq Ids /\ remote[main] \in Ids /\ remote[main] # None
         /\ \A d \in Developers : head[d] \in Ids /\ known[d] \in Ids
<1>1. Ids = 1 .. Len(commits) /\ Len(commits) \in Nat
  BY LenProperties DEF ReleaseInv, Log, Ids
<1>2. Ids \subseteq Nat /\ None \notin Ids
  BY <1>1, ReleaseAssumption
<1>3. main \in Branches /\ main \notin Developers /\ Developers \subseteq Branches
  BY ReleaseAssumption DEF Branches
<1>4. remote[main] \in Ids /\ tips \subseteq Ids
  BY <1>3 DEF ReleaseInv, Main
<1>5. \A d \in Developers : head[d] \in Ids /\ known[d] \in Ids
  BY DEF ReleaseInv, Clones
<1> QED BY <1>1, <1>2, <1>3, <1>4, <1>5

LEMMA PastIsOrdered ==
  ASSUME ReleaseInv, NEW i \in Ids
  PROVE  /\ i \notin commits[i].past /\ i \in Past(i) /\ Past(i) \subseteq Ids
         /\ \A j \in Past(i) : Past(j) \subseteq Past(i) /\ (i \in Past(j) => i = j)
         /\ \A j \in commits[i].past : i \notin Past(j)
         /\ Version(i) \in Versions
         /\ \A j \in Past(i) : ~Less(Version(i), Version(j))
<1>1. Ids = 1 .. Len(commits) /\ Len(commits) \in Nat
  BY Names
<1>2. commits[i].past \subseteq 1 .. i - 1 /\ Version(i) \in Versions
  BY DEF ReleaseInv, Log
<1>3. \A j \in commits[i].past : j \in Ids /\ j < i
  BY <1>1, <1>2
<1>4. ASSUME NEW j \in commits[i].past PROVE Past(j) \subseteq commits[i].past /\ i \notin Past(j)
  <2>1. commits[j].past \subseteq commits[i].past
    BY DEF ReleaseInv, Log
  <2> QED BY <2>1, <1>1, <1>2 DEF Past
<1>5. ~Less(Version(i), Version(i))
  BY <1>2 DEF Versions, Less
<1> QED BY <1>1, <1>2, <1>3, <1>4, <1>5 DEF Past, ReleaseInv, NeverDowngrades

(* What is told to u is told to what comes after u, and what differs from it is told if it is
   told to u. *)
LEMMA ToldOnwards ==
  ASSUME ReleaseInv, NEW t \in Ids, NEW u \in Ids, NEW x \in Ids,
         t \in Past(u), u \in Past(x), Told(t, u), Told(u, x)
  PROVE  Told(t, x)
<1> SUFFICES ASSUME HashFile(t) # HashFile(x)
             PROVE  ~Less(Version(x), bump_minor(Version(t)))
  BY DEF Told
<1>1. /\ Version(t) \in Versions /\ Version(u) \in Versions /\ Version(x) \in Versions
      /\ ~Less(Version(u), Version(t)) /\ ~Less(Version(x), Version(u))
  BY PastIsOrdered
<1>2. /\ bump_minor(Version(t)) \in Versions /\ bump_minor(Version(u)) \in Versions
  BY <1>1, BumpTyped
<1>3. CASE HashFile(t) # HashFile(u)
  <2>1. ~Less(Version(u), bump_minor(Version(t)))
    BY <1>3 DEF Told
  <2> QED BY <2>1, <1>1, <1>2, LessTransitive
<1>4. CASE HashFile(t) = HashFile(u)
  <2>1. ~Less(Version(x), bump_minor(Version(u)))
    BY <1>4 DEF Told
  <2>2. ~Less(bump_minor(Version(u)), bump_minor(Version(t)))
    BY <1>1, BumpMonotone
  <2> QED BY <2>1, <2>2, <1>1, <1>2, LessTransitive
<1> QED BY <1>3, <1>4

-----------------------------------------------------------------------------
(* A further commit *)

LEMMA Appended ==
  ASSUME NEW s, NEW e, s \in Seq({s[i] : i \in DOMAIN s})
  PROVE  /\ Len(s) \in Nat /\ DOMAIN s = 1 .. Len(s) /\ Len(Append(s, e)) = Len(s) + 1
         /\ DOMAIN Append(s, e) = 1 .. Len(s) + 1
         /\ \A i \in 1 .. Len(s) : Append(s, e)[i] = s[i]
         /\ Append(s, e)[Len(s) + 1] = e
         /\ Append(s, e) \in Seq({Append(s, e)[i] : i \in DOMAIN Append(s, e)})
<1> DEFINE S == {s[i] : i \in DOMAIN s} \union {e}
           a == Append(s, e)
<1>1. Len(s) \in Nat /\ DOMAIN s = 1 .. Len(s)
  BY LenProperties
<1>2. s \in Seq(S)
  BY SeqMonotonic
<1>3. /\ a \in Seq(S) /\ Len(a) = Len(s) + 1
      /\ \A i \in 1 .. Len(s) : a[i] = s[i]
      /\ a[Len(s) + 1] = e
  BY <1>2, AppendProperties
<1>4. DOMAIN a = 1 .. Len(s) + 1
  BY <1>3, LenProperties
<1>5. S \subseteq {a[i] : i \in DOMAIN a}
  <2>1. \A i \in DOMAIN s : s[i] = a[i] /\ i \in DOMAIN a
    BY <1>1, <1>3, <1>4
  <2>2. e = a[Len(s) + 1] /\ Len(s) + 1 \in DOMAIN a
    BY <1>1, <1>3, <1>4
  <2> QED BY <2>1, <2>2
<1>6. a \in Seq({a[i] : i \in DOMAIN a})
  BY <1>3, <1>5, SeqMonotonic
<1> QED BY <1>1, <1>3, <1>4, <1>6

(* The next commit, and what it leaves alone. *)
LEMMA NextCommit ==
  ASSUME ReleaseInv, NEW version, NEW contract, NEW file, NEW parents,
         MakeCommit(version, contract, file, parents)
  PROVE  LET n == Len(commits) + 1
         IN  /\ n \notin Ids /\ Ids' = Ids \union {n} /\ Len(commits') = n /\ n \in 1 .. MaxCommits
             /\ commits' \in Seq({commits'[i] : i \in Ids'})
             /\ \A i \in Ids : commits'[i] = commits[i] /\ n \notin Past(i)
             /\ commits'[n] = [version |-> version, contract |-> contract, file |-> file,
                               past |-> UNION {Past(p) : p \in parents}]
<1> DEFINE n == Len(commits) + 1
           c == [version |-> version, contract |-> contract, file |-> file,
                 past |-> UNION {Past(p) : p \in parents}]
<1>1. commits \in Seq({commits[i] : i \in DOMAIN commits})
  BY DEF ReleaseInv, Log, Ids
<1>2. commits' = Append(commits, c) /\ Len(commits) < MaxCommits
  BY DEF MakeCommit
<1> HIDE DEF c
<1> DEFINE a == Append(commits, c)
<1>b. /\ Len(commits) \in Nat /\ DOMAIN commits = 1 .. Len(commits) /\ Len(a) = n /\ DOMAIN a = 1 .. n
      /\ \A i \in 1 .. Len(commits) : a[i] = commits[i]
      /\ a[n] = c /\ a \in Seq({a[i] : i \in DOMAIN a})
  BY <1>1, Appended
<1>c. commits' = a
  BY <1>2
<1> HIDE DEF a
<1>3. /\ Len(commits) \in Nat /\ Ids = 1 .. Len(commits) /\ Len(commits') = n /\ Ids' = 1 .. n
      /\ \A i \in Ids : commits'[i] = commits[i]
      /\ commits'[n] = c /\ commits' \in Seq({commits'[i] : i \in Ids'})
  BY <1>b, <1>c DEF Ids
<1>4. \A i \in Ids : n \notin Past(i)
  BY <1>3, PastIsOrdered
<1>5. n \notin Ids /\ Ids' = Ids \union {n} /\ n \in 1 .. MaxCommits
  BY <1>2, <1>3, ReleaseAssumption
<1> QED BY <1>2, <1>3, <1>4, <1>5 DEF c

(* What names old commits means the same after a further one. *)
LEMMA OldCommits ==
  ASSUME NEW i \in Ids, commits'[i] = commits[i]
  PROVE  /\ Past(i)' = Past(i) /\ Version(i)' = Version(i) /\ HashFile(i)' = HashFile(i)
  BY DEF Past, Version, HashFile

(* A commit on top of what is checked out, or of that and of main, whose version is not below
   theirs. *)
LEMMA CommitPreserves ==
  ASSUME ReleaseInv, NEW d \in Developers, NEW version \in Versions, NEW contract \in Contracts,
         NEW file, NEW parents \in SUBSET Ids,
         Idle(d), AddCommit(d, version, contract, file, parents),
         DOMAIN file = {"api", "api_method", "schema"},
         \A p \in parents : ~Less(version, Version(p)),
         \/ parents = {head[d]} /\ known' \in {known, [known EXCEPT ![d] = remote[main]]}
         \/ parents = {head[d], remote[main]} /\ known' = [known EXCEPT ![d] = remote[main]],
         UNCHANGED <<remote, pushing, tips, behind>>
  PROVE  ReleaseInv'
<1> DEFINE older == UNION {Past(p) : p \in parents}
<1>a. PICK n : n = Len(commits) + 1
  OBVIOUS
<1>1. /\ n \notin Ids /\ Ids' = Ids \union {n} /\ Len(commits') = n /\ n \in 1 .. MaxCommits
      /\ commits' \in Seq({commits'[i] : i \in Ids'})
      /\ \A i \in Ids : commits'[i] = commits[i] /\ n \notin Past(i)
      /\ commits'[n] = [version |-> version, contract |-> contract, file |-> file, past |-> older]
      /\ head' = [head EXCEPT ![d] = n]
  BY <1>a, NextCommit DEF AddCommit, NextId
<1>2. \A i \in Ids : Past(i)' = Past(i) /\ Version(i)' = Version(i) /\ HashFile(i)' = HashFile(i)
  BY <1>1, OldCommits
<1>3. /\ Ids = 1 .. Len(commits) /\ Len(commits) \in Nat /\ None \notin Ids
      /\ tips \subseteq Ids /\ remote[main] \in Ids /\ main \in Branches /\ Developers \subseteq Branches
      /\ \A e \in Developers : head[e] \in Ids /\ known[e] \in Ids
  BY Names
<1>4. /\ older \subseteq Ids /\ \A j \in older : Past(j) \subseteq older
      /\ head[d] \in older /\ Past(head[d]) \subseteq older
      /\ older \subseteq Past(head[d]) \union Past(remote[main])
      /\ \A j \in older : ~Less(version, Version(j))
  <2>1. \A p \in parents : p \in Past(p) /\ Past(p) \subseteq Ids /\ \A j \in Past(p) : Past(j) \subseteq Past(p)
    BY PastIsOrdered
  <2>2. head[d] \in parents /\ parents \subseteq {head[d], remote[main]}
    OBVIOUS
  <2>3. ASSUME NEW p \in parents, NEW j \in Past(p) PROVE ~Less(version, Version(j))
    <3>1. Version(p) \in Versions /\ Version(j) \in Versions /\ ~Less(Version(p), Version(j))
      BY <2>1, PastIsOrdered
    <3> QED BY <3>1, LessTransitive
  <2> QED BY <2>1, <2>2, <2>3
<1>5. /\ Past(n)' = older \union {n} /\ Version(n)' = version /\ HashFile(n)' = file
  <2>1. commits'[n].past = older /\ commits'[n].version = version /\ commits'[n].file = file
    BY <1>1
  <2> QED BY <2>1 DEF Past, Version, HashFile
<1>0. /\ remote' = remote /\ pushing' = pushing /\ tips' = tips /\ behind' = behind
      /\ \A e \in Developers : known'[e] \in Ids /\ known'[e] \in {known[e], remote[main]}
      /\ \A e \in Developers \ {d} : known'[e] = known[e] /\ head'[e] = head[e]
      /\ known' \in [Developers -> Ids] /\ head'[d] = n
  BY <1>1, <1>3 DEF ReleaseInv, Clones
<1> HIDE DEF older
<1>6. Log'
  <2>1. ASSUME NEW i \in Ids
        PROVE  /\ Version(i)' \in Versions /\ commits'[i].contract \in Contracts
               /\ commits'[i].past \subseteq 1 .. i - 1
               /\ DOMAIN HashFile(i)' = {"api", "api_method", "schema"}
               /\ \A j \in commits'[i].past : commits'[j].past \subseteq commits'[i].past
    <3>1. commits'[i] = commits[i] /\ \A j \in commits[i].past : j \in Ids /\ commits'[j] = commits[j]
      BY <1>1, PastIsOrdered DEF Past
    <3> QED BY <3>1, <1>2 DEF ReleaseInv, Log
  <2>2. /\ commits'[n].contract \in Contracts
        /\ commits'[n].past \subseteq 1 .. n - 1
        /\ \A j \in commits'[n].past : commits'[j].past \subseteq commits'[n].past
    BY <1>1, <1>3, <1>4, <1>a DEF Past
  <2> QED BY <1>1, <1>5, <2>1, <2>2 DEF Log
<1>7. NeverDowngrades'
  <2>1. ASSUME NEW i \in Ids, NEW j \in commits[i].past PROVE ~Less(Version(i)', Version(j)')
    <3>1. j \in Ids
      BY PastIsOrdered DEF Past
    <3> QED BY <3>1, <1>2 DEF ReleaseInv, NeverDowngrades
  <2>2. ASSUME NEW j \in older PROVE ~Less(Version(n)', Version(j)')
    BY <1>2, <1>4, <1>5
  <2> QED BY <1>1, <2>1, <2>2 DEF NeverDowngrades
<1>8. Main'
  <2>1. tips \subseteq Ids \intersect Past(remote[main]) /\ behind \subseteq tips
    BY DEF ReleaseInv, Main
  <2>2. remote \in [Branches -> Ids' \union {None}] /\ remote[main] \in tips
    BY <1>1 DEF ReleaseInv, Main
  <2>3. \A t, u \in tips : t \in Past(u)' \/ u \in Past(t)'
    BY <1>2, <1>3 DEF ReleaseInv, Main
  <2>4. Past(remote[main])' = Past(remote[main])
    BY <1>0, <1>2, <1>3
  <2> QED BY <1>0, <1>1, <2>1, <2>2, <2>3, <2>4 DEF Main
<1>9. Clones'
  <2>1. known' \in [Developers -> Ids'] /\ \A e \in Developers : known'[e] \in tips
    BY <1>0, <1>1 DEF ReleaseInv, Clones, Main
  <2>2. head' \in [Developers -> Ids']
    BY <1>1 DEF ReleaseInv, Clones
  <2>3. pushing \in [Developers -> Pushes']
    BY <1>1 DEF ReleaseInv, Clones, Pushes
  <2>4. ASSUME NEW e \in Developers PROVE remote[e] # None => remote[e] \in Past(head[e])'
    <3>1. remote[e] # None => remote[e] \in Past(head[e])
      BY DEF ReleaseInv, Clones
    <3>2. CASE e = d
      <4>1. head'[e] = n
        BY <1>1, <3>2 DEF ReleaseInv, Clones
      <4>2. Past(n)' = older \union {n} /\ Past(head[e]) \subseteq older
        BY <1>4, <1>5, <3>2
      <4> QED BY <3>1, <4>1, <4>2
    <3>3. CASE e # d
      BY <1>1, <1>2, <1>3, <3>1, <3>3
    <3> QED BY <3>2, <3>3
  <2>5. ASSUME NEW e \in Developers, e # d PROVE head'[e] = head[e] /\ commits'[head[e]] = commits[head[e]]
    BY <1>1, <1>3, <2>5 DEF ReleaseInv, Clones
  <2>6. \A e \in Developers : Idle(e)' = Idle(e)
    BY DEF Idle, NoPush
  <2> QED BY <2>1, <2>2, <2>3, <2>4, <2>5, <2>6 DEF ReleaseInv, Clones
<1>10. Past(head[d])' \subseteq Past(head[d]) \union Past(remote[main]) \union {n}
       /\ \A e \in Developers \ {d} : Past(head[e])' = Past(head[e]) /\ n \notin Past(head[e])
  <2>1. head'[d] = n /\ \A e \in Developers \ {d} : head'[e] = head[e]
    BY <1>1 DEF ReleaseInv, Clones
  <2> QED BY <2>1, <1>1, <1>2, <1>3, <1>4, <1>5
<1>11. Apart'
  <2>1. Past(remote[main])' = Past(remote[main])
    BY <1>2, <1>3
  <2>2. ASSUME NEW e \in Developers, d # e PROVE Past(head[d])' \intersect Past(head[e])' \subseteq Past(remote[main])
    BY <1>10, <2>2 DEF ReleaseInv, Apart
  <2>3. ASSUME NEW e \in Developers, NEW f \in Developers, e # f, e # d, f # d
        PROVE  Past(head[e])' \intersect Past(head[f])' \subseteq Past(remote[main])
    BY <1>10, <2>3 DEF ReleaseInv, Apart
  <2>4. ASSUME NEW e \in Developers, NEW f \in Developers, e # f
        PROVE  Past(head[e])' \intersect Past(head[f])' \subseteq Past(remote[main])'
    BY <2>1, <2>2, <2>3, <2>4
  <2> QED BY <2>4 DEF Apart
<1>12. Fetched'
  <2>1. ASSUME NEW e \in Developers
        PROVE  (IF remote[e] = None THEN {} ELSE Past(remote[e]))'
                 = IF remote[e] = None THEN {} ELSE Past(remote[e])
    BY <1>2, <1>3 DEF ReleaseInv, Main
  <2>2. \A i \in Ids : Past(known[d]) \subseteq Past(remote[main]) /\ known[d] \in Ids
    BY <1>3, PastIsOrdered DEF ReleaseInv, Clones, Main
  <2>3. ASSUME NEW e \in Developers \ {d}
        PROVE  tips \intersect Past(head[e])' \subseteq Past(known[e])' \union (IF remote[e] = None THEN {} ELSE Past(remote[e]))
    <3>1. known'[e] = known[e] /\ Past(known[e])' = Past(known[e])
      BY <1>2, <1>3 DEF ReleaseInv, Clones
    <3> QED BY <3>1, <1>10 DEF ReleaseInv, Fetched
  <2>4. tips \intersect Past(head[d])' \subseteq Past(known[d])' \union (IF remote[d] = None THEN {} ELSE Past(remote[d]))
    <3>1. CASE known'[d] = remote[main]
      <4>1. Past(known[d])' = Past(remote[main])
        BY <1>2, <1>3, <3>1
      <4> QED BY <4>1 DEF ReleaseInv, Main
    <3>2. CASE known' = known /\ parents = {head[d]}
      <4>1. older = Past(head[d])
        BY <3>2 DEF older
      <4>2. head'[d] = n /\ Past(n)' = older \union {n} /\ n \notin tips
        BY <1>1, <1>3, <1>5 DEF ReleaseInv, Clones
      <4>3. Past(known[d])' = Past(known[d])
        BY <3>2, <1>2, <1>3
      <4> QED BY <4>1, <4>2, <4>3 DEF ReleaseInv, Fetched
    <3> QED BY <3>1, <3>2 DEF ReleaseInv, Clones
  <2>5. ASSUME NEW e \in Developers
        PROVE  tips \intersect Past(head[e])' \subseteq Past(known[e])' \union (IF remote[e] = None THEN {} ELSE Past(remote[e]))'
    BY <2>1, <2>3, <2>4
  <2> QED BY <2>5 DEF Fetched
<1>13. ChangesTold'
  <2>1. \A t, u \in Ids : Told(t, u)' = Told(t, u)
    BY <1>2 DEF Told
  <2>2. \A t, u \in tips : t \in Past(u)' /\ Behind(t)' = Behind(u)' => Told(t, u)'
    <3>1. \A t \in tips : Past(t)' = Past(t) /\ Behind(t)' = Behind(t)
      BY <1>2, <1>3 DEF Behind
    <3> QED BY <1>3, <2>1, <3>1 DEF ReleaseInv, ChangesTold
  <2>3. ASSUME NEW e \in Developers, remote[e] # None, remote[main] \in Past(remote[e])'
        PROVE  Told(remote[main], remote[e])'
    <3>1. remote[e] \in Ids
      BY <1>3, <2>3 DEF ReleaseInv, Main
    <3> QED BY <3>1, <1>2, <1>3, <2>1, <2>3 DEF ReleaseInv, ChangesTold
  <2>4. ASSUME NEW e \in Developers, ~Idle(e)'
        PROVE  /\ pushing[e].old # None => Told(pushing[e].old, pushing[e].commit)'
               /\ pushing[e].branch = e /\ remote[main] \in Past(pushing[e].commit)'
                    => Told(remote[main], pushing[e].commit)'
    <3>1. ~Idle(e)
      BY <2>4 DEF Idle, NoPush
    <3>2. pushing[e].commit \in Ids /\ pushing[e].old \in Ids \union {None}
      BY <3>1, <1>3 DEF ReleaseInv, Clones, Pushes
    <3> QED BY <3>1, <3>2, <1>2, <1>3, <2>1, <2>4 DEF ReleaseInv, ChangesTold
  <2> QED BY <2>2, <2>3, <2>4 DEF ChangesTold
<1> QED BY <1>6, <1>7, <1>8, <1>9, <1>11, <1>12, <1>13 DEF ReleaseInv

-----------------------------------------------------------------------------
(* Steps that make no commit *)

(* Such a step leaves what can be said of commits. *)
LEMMA SameCommits ==
  ASSUME commits' = commits
  PROVE  /\ Ids' = Ids
         /\ \A i : Past(i)' = Past(i) /\ Version(i)' = Version(i) /\ HashFile(i)' = HashFile(i)
         /\ \A i, j : Told(i, j)' = Told(i, j)
         /\ Log' = Log /\ NeverDowngrades' = NeverDowngrades
  BY DEF Ids, Past, Version, HashFile, Told, Log, NeverDowngrades

LEMMA ToldItself == \A i : Told(i, i)
  BY DEF Told

(* main moves forward to a commit that a developer's branch, or his push, has told. *)
LEMMA MainPreserves ==
  ASSUME ReleaseInv, NEW d \in Developers, NEW X \in Past(head[d]),
         remote[main] \in commits[X].past, Told(remote[main], X),
         commits' = commits, head' = head,
         remote' = [remote EXCEPT ![main] = X], tips' = tips \union {X}, behind' = behind,
         \/ X = remote[d] /\ known' = known /\ pushing' = pushing
         \/ /\ X = head[d] /\ known' = [known EXCEPT ![d] = X]
            /\ pushing' = [pushing EXCEPT ![d] = NoPush]
  PROVE  ReleaseInv'
<1> DEFINE M == remote[main]
           Pushed(e) == IF remote[e] = None THEN {} ELSE Past(remote[e])
<1>1. /\ None \notin Ids /\ main \in Branches /\ main \notin Developers /\ Developers \subseteq Branches
      /\ tips \subseteq Ids /\ M \in Ids
      /\ \A e \in Developers : head[e] \in Ids /\ known[e] \in Ids
  BY Names
<1>2. /\ X \in Ids /\ M \in Past(X) /\ X \in Past(X) /\ Past(M) \subseteq Past(X) /\ X \notin Past(M)
  BY <1>1, PastIsOrdered DEF Past
<1>3. /\ Ids' = Ids
      /\ \A i : Past(i)' = Past(i) /\ HashFile(i)' = HashFile(i)
      /\ \A i, j : Told(i, j)' = Told(i, j)
      /\ Log' /\ NeverDowngrades'
  BY SameCommits DEF ReleaseInv
<1>4. /\ remote'[main] = X /\ \A e \in Developers : remote'[e] = remote[e]
      /\ remote' \in [Branches -> Ids \union {None}]
      /\ \A e \in Developers : known'[e] \in {known[e], X}
      /\ \A e \in Developers : remote[e] # None => remote[e] \in Ids /\ remote[e] \in Past(head[e])
      /\ \A e \in Developers \ {d} : known'[e] = known[e] /\ pushing'[e] = pushing[e]
  BY <1>1, <1>2 DEF ReleaseInv, Main, Clones
<1>5. \A t \in tips : t \in Past(M) /\ t \in Past(X) /\ X \notin Past(t)
  BY <1>1, <1>2, PastIsOrdered DEF ReleaseInv, Main
<1>6. ASSUME NEW e \in Developers \ {d} PROVE X \notin Past(head[e])
  BY <1>2 DEF ReleaseInv, Apart
<1>7. ASSUME NEW e \in Developers, remote[e] # None, X \in Past(remote[e]) PROVE X = remote[e]
  <2>1. Past(remote[e]) \subseteq Past(head[e])
    BY <1>1, <1>4, <1>7, PastIsOrdered
  <2>2. e = d
    BY <1>6, <1>7, <2>1
  <2>3. CASE X = head[d]
    BY <1>1, <1>4, <1>7, <2>2, <2>3, PastIsOrdered
  <2> QED BY <2>2, <2>3
<1>8. Main'
  <2>1. ASSUME NEW t \in tips', NEW u \in tips' PROVE t \in Past(u) \/ u \in Past(t)
    BY <1>2, <1>5 DEF ReleaseInv, Main
  <2>2. tips' \subseteq Ids \intersect Past(X) /\ X \in tips'
    BY <1>1, <1>2, <1>5
  <2>3. behind' \subseteq tips'
    BY DEF ReleaseInv, Main
  <2> QED BY <1>3, <1>4, <2>1, <2>2, <2>3 DEF Main
<1>9. Clones'
  <2>1. known' \in [Developers -> Ids] /\ \A e \in Developers : known'[e] \in tips'
    BY <1>2, <1>4 DEF ReleaseInv, Clones
  <2>2. NoPush \in Pushes
    BY DEF NoPush, Pushes
  <2>3. pushing' \in [Developers -> Pushes] /\ Pushes' = Pushes
    BY <1>3, <2>2 DEF ReleaseInv, Clones, Pushes
  <2>4. ASSUME NEW e \in Developers, ~Idle(e)' PROVE ~Idle(e) /\ pushing'[e] = pushing[e]
    BY <1>4, <2>4 DEF ReleaseInv, Clones, Idle, NoPush
  <2>5. ASSUME NEW e \in Developers, ~Idle(e)'
        PROVE  /\ pushing'[e].branch \in {e, main} /\ pushing'[e].commit = head'[e]
               /\ pushing'[e].old \in commits'[head'[e]].past \union {None}
               /\ pushing'[e].branch = e => pushing'[e].old = remote'[e]
               /\ pushing'[e].branch = main => pushing'[e].old # None
    BY <1>4, <2>4, <2>5 DEF ReleaseInv, Clones
  <2> QED BY <1>3, <1>4, <2>1, <2>3, <2>5 DEF ReleaseInv, Clones
<1>10. Apart'
  <2>1. Past(remote[main])' = Past(X)
    BY <1>3, <1>4
  <2>2. \A e \in Developers : Past(head[e])' = Past(head[e])
    BY <1>3
  <2> QED BY <1>2, <2>1, <2>2 DEF ReleaseInv, Apart
<1>11. Fetched'
  <2>1. ASSUME NEW e \in Developers
        PROVE  tips' \intersect Past(head[e]) \subseteq Past(known[e])' \union Pushed(e)
    <3>1. tips \intersect Past(head[e]) \subseteq Past(known[e]) \union Pushed(e)
      BY DEF ReleaseInv, Fetched
    <3>2. CASE e # d
      BY <1>3, <1>4, <1>6, <3>1, <3>2
    <3>3. CASE e = d /\ X = remote[d] /\ known' = known
      BY <1>1, <1>2, <1>3, <3>1, <3>3
    <3>4. CASE e = d /\ known'[d] = X
      <4>1. Past(known[e])' = Past(X)
        BY <1>3, <3>4
      <4> QED BY <1>2, <1>5, <4>1
    <3> QED BY <3>2, <3>3, <3>4 DEF ReleaseInv, Clones
  <2>2. ASSUME NEW e \in Developers PROVE Pushed(e)' = Pushed(e) /\ Past(head[e])' = Past(head[e])
    BY <1>3, <1>4
  <2> QED BY <2>1, <2>2 DEF Fetched
<1>12. ChangesTold'
  <2>1. ASSUME NEW t \in tips', NEW u \in tips', t \in Past(u), Behind(t) = Behind(u) PROVE Told(t, u)
    <3>1. CASE t \in tips /\ u \in tips
      BY <2>1, <3>1 DEF ReleaseInv, ChangesTold
    <3>2. CASE t \in tips /\ u = X
      <4>0. Behind(t) = Behind(M)
        <5>1. Past(t) \subseteq Past(M)
          BY <1>1, <1>5, <3>2, PastIsOrdered
        <5> QED BY <1>2, <2>1, <3>2, <5>1 DEF Behind
      <4>1. Told(t, M)
        BY <1>5, <3>2, <4>0 DEF ReleaseInv, ChangesTold, Main
      <4> QED BY <1>1, <1>2, <1>5, <3>2, <4>1, ToldOnwards
    <3>3. CASE t = X
      BY <1>5, <2>1, <3>3, ToldItself
    <3> QED BY <3>1, <3>2, <3>3
  <2>2. ASSUME NEW e \in Developers, remote[e] # None, X \in Past(remote[e]) PROVE Told(X, remote[e])
    BY <1>7, <2>2, ToldItself
  <2>3. ASSUME NEW e \in Developers, ~Idle(e)'
        PROVE  /\ pushing'[e].old # None => Told(pushing'[e].old, pushing'[e].commit)
               /\ pushing'[e].branch = e /\ X \in Past(pushing'[e].commit) => Told(X, pushing'[e].commit)
    <3>1. ~Idle(e) /\ pushing'[e] = pushing[e]
      BY <1>4, <2>3 DEF ReleaseInv, Clones, Idle, NoPush
    <3>2. pushing[e].old # None => Told(pushing[e].old, pushing[e].commit)
      BY <3>1 DEF ReleaseInv, ChangesTold
    <3>3. /\ pushing[e].commit = head[e] /\ (pushing[e].branch = e => pushing[e].old = remote[e])
      BY <3>1 DEF ReleaseInv, Clones
    <3>4. CASE e # d
      BY <1>6, <3>1, <3>2, <3>3, <3>4
    <3>5. CASE e = d
      <4>1. X = remote[d]
        BY <2>3, <3>5 DEF ReleaseInv, Clones, Idle, NoPush
      <4> QED BY <1>1, <1>2, <3>1, <3>2, <3>3, <3>5, <4>1
    <3> QED BY <3>4, <3>5
  <2>4. \A e \in Developers : Idle(e)' <=> pushing'[e] = NoPush
    BY DEF Idle, NoPush
  <2>5. \A i : Behind(i)' = Behind(i)
    BY <1>3 DEF Behind
  <2> QED BY <1>3, <1>4, <2>1, <2>2, <2>3, <2>5 DEF ChangesTold
<1> QED BY <1>3, <1>8, <1>9, <1>10, <1>11, <1>12 DEF ReleaseInv

(* A push moves a developer's own branch. *)
LEMMA BranchPreserves ==
  ASSUME ReleaseInv, NEW d \in Developers, ~Idle(d), pushing[d].branch = d, Push(d)
  PROVE  ReleaseInv'
<1> DEFINE X == pushing[d].commit
           Pushed(e) == IF remote[e] = None THEN {} ELSE Past(remote[e])
<1>1. /\ None \notin Ids /\ main \in Branches /\ main \notin Developers /\ Developers \subseteq Branches
      /\ \A e \in Developers : head[e] \in Ids /\ known[e] \in Ids
  BY Names
<1>2. /\ remote' = [remote EXCEPT ![d] = X] /\ tips' = tips /\ known' = known /\ head' = head
      /\ behind' = behind
      /\ commits' = commits /\ pushing' = [pushing EXCEPT ![d] = NoPush]
  BY <1>1 DEF Push, MoveTip
<1>3. /\ X = head[d] /\ X \in Ids /\ pushing[d].old = remote[d]
      /\ remote[d] \in commits[X].past \union {None}
  BY <1>1 DEF ReleaseInv, Clones
<1>4. /\ Ids' = Ids
      /\ \A i : Past(i)' = Past(i) /\ HashFile(i)' = HashFile(i)
      /\ \A i, j : Told(i, j)' = Told(i, j)
      /\ Log' /\ NeverDowngrades'
  BY <1>2, SameCommits DEF ReleaseInv
<1>5. /\ remote'[main] = remote[main] /\ remote'[d] = X /\ \A e \in Developers \ {d} : remote'[e] = remote[e]
      /\ remote' \in [Branches -> Ids \union {None}] /\ X \in Past(X)
  BY <1>1, <1>2, <1>3, PastIsOrdered DEF ReleaseInv, Main
<1>6. Main'
  BY <1>2, <1>4, <1>5 DEF ReleaseInv, Main
<1>7. /\ \A e \in Developers : Idle(e)' <=> pushing'[e] = NoPush
      /\ \A e \in Developers : pushing'[e] # NoPush => e # d /\ ~Idle(e) /\ pushing'[e] = pushing[e]
  BY <1>2 DEF Idle, ReleaseInv, Clones
<1>8. Clones'
  <2>1. NoPush \in Pushes /\ Pushes' = Pushes
    BY <1>4 DEF NoPush, Pushes
  <2>2. pushing' \in [Developers -> Pushes]
    BY <1>2, <2>1 DEF ReleaseInv, Clones
  <2>3. ASSUME NEW e \in Developers PROVE known'[e] \in tips' /\ (remote'[e] # None => remote'[e] \in Past(head[e]))
    BY <1>2, <1>3, <1>5 DEF ReleaseInv, Clones
  <2>4. ASSUME NEW e \in Developers, pushing'[e] # NoPush
        PROVE  /\ pushing'[e].branch \in {e, main} /\ pushing'[e].commit = head'[e]
               /\ pushing'[e].old \in commits'[head'[e]].past \union {None}
               /\ pushing'[e].branch = e => pushing'[e].old = remote'[e]
               /\ pushing'[e].branch = main => pushing'[e].old # None
    <3>1. e # d /\ ~Idle(e) /\ pushing'[e] = pushing[e] /\ remote'[e] = remote[e]
      BY <1>5, <1>7, <2>4
    <3> QED BY <1>2, <3>1 DEF ReleaseInv, Clones
  <2>5. \A e \in Developers : Past(head[e])' = Past(head[e])
    BY <1>2, <1>4
  <2> QED BY <1>2, <1>4, <1>7, <2>1, <2>2, <2>3, <2>4, <2>5 DEF ReleaseInv, Clones
<1>9. Apart' /\ Fetched'
  <2>1. \A e \in Developers : Past(head[e])' = Past(head[e]) /\ Past(known[e])' = Past(known[e])
    BY <1>2, <1>4
  <2>2. Past(remote[main])' = Past(remote[main])
    BY <1>4, <1>5
  <2>3. \A e \in Developers : Pushed(e) \subseteq Pushed(e)'
    <3>1. \A e \in Developers \ {d} : Pushed(e)' = Pushed(e)
      BY <1>4, <1>5
    <3>2. Pushed(d)' = Past(X)
      BY <1>1, <1>3, <1>4, <1>5
    <3>3. Pushed(d) \subseteq Past(X)
      BY <1>3, PastIsOrdered DEF Past
    <3> QED BY <3>1, <3>2, <3>3
  <2>4. Apart'
    BY <2>1, <2>2 DEF ReleaseInv, Apart
  <2>5. Fetched'
    BY <1>2, <2>1, <2>3 DEF ReleaseInv, Fetched
  <2> QED BY <2>4, <2>5
<1>10. ChangesTold'
  <2>1. ASSUME NEW e \in Developers, remote'[e] # None, remote[main] \in Past(remote'[e])
        PROVE  Told(remote[main], remote'[e])
    BY <1>5, <2>1 DEF ReleaseInv, ChangesTold
  <2>2. ASSUME NEW e \in Developers, pushing'[e] # NoPush
        PROVE  /\ pushing'[e].old # None => Told(pushing'[e].old, pushing'[e].commit)
               /\ pushing'[e].branch = e /\ remote[main] \in Past(pushing'[e].commit)
                    => Told(remote[main], pushing'[e].commit)
    BY <1>7, <2>2 DEF ReleaseInv, ChangesTold
  <2>3. \A t, u \in tips' : t \in Past(u) /\ Behind(t) = Behind(u) => Told(t, u)
    BY <1>2 DEF ReleaseInv, ChangesTold
  <2>4. \A i : Behind(i)' = Behind(i)
    BY <1>2, <1>4 DEF Behind
  <2> QED BY <1>4, <1>5, <1>7, <2>1, <2>2, <2>3, <2>4 DEF ChangesTold
<1> QED BY <1>4, <1>6, <1>8, <1>9, <1>10 DEF ReleaseInv

(* The checked-out branch moves forward to main. *)
LEMMA ForwardPreserves ==
  ASSUME ReleaseInv, NEW d \in Developers, Idle(d), head[d] \in Past(remote[main]),
         head' = [head EXCEPT ![d] = remote[main]], known' = [known EXCEPT ![d] = remote[main]],
         UNCHANGED <<commits, remote, pushing, tips, behind>>
  PROVE  ReleaseInv'
<1> DEFINE M == remote[main]
           Pushed(e) == IF remote[e] = None THEN {} ELSE Past(remote[e])
<1>1. /\ None \notin Ids /\ M \in Ids /\ M \in tips
      /\ \A e \in Developers : head[e] \in Ids /\ known[e] \in Ids
  BY Names DEF ReleaseInv, Main
<1>2. /\ Ids' = Ids
      /\ \A i : Past(i)' = Past(i) /\ HashFile(i)' = HashFile(i)
      /\ \A i, j : Told(i, j)' = Told(i, j)
      /\ Log' /\ NeverDowngrades'
  BY SameCommits DEF ReleaseInv
<1>3. /\ remote' = remote /\ pushing' = pushing /\ tips' = tips /\ commits' = commits /\ behind' = behind
      /\ head'[d] = M /\ known'[d] = M
      /\ \A e \in Developers \ {d} : head'[e] = head[e] /\ known'[e] = known[e]
      /\ head' \in [Developers -> Ids] /\ known' \in [Developers -> Ids]
  BY <1>1 DEF ReleaseInv, Clones
<1>4. Past(head[d]) \subseteq Past(M)
  BY <1>1, PastIsOrdered
<1>5. /\ Past(head[d])' = Past(M) /\ Past(known[d])' = Past(M) /\ Past(remote[main])' = Past(M)
      /\ \A e \in Developers \ {d} : Past(head[e])' = Past(head[e]) /\ Past(known[e])' = Past(known[e])
  BY <1>2, <1>3
<1>6. \A e \in Developers : Idle(e)' = Idle(e) /\ (~Idle(e) => e # d)
  BY <1>3 DEF Idle, NoPush
<1>7. Main'
  BY <1>2, <1>3 DEF ReleaseInv, Main
<1>8. Clones'
  <2>1. pushing' \in [Developers -> Pushes']
    BY <1>2, <1>3 DEF ReleaseInv, Clones, Pushes
  <2>2. ASSUME NEW e \in Developers PROVE known'[e] \in tips
    BY <1>1, <1>3 DEF ReleaseInv, Clones
  <2>3. ASSUME NEW e \in Developers, remote[e] # None PROVE remote[e] \in Past(head[e])'
    BY <1>4, <1>5, <2>3 DEF ReleaseInv, Clones
  <2>4. ASSUME NEW e \in Developers, ~Idle(e)
        PROVE  /\ pushing[e].branch \in {e, main} /\ pushing[e].commit = head'[e]
               /\ pushing[e].old \in commits[head'[e]].past \union {None}
               /\ pushing[e].branch = e => pushing[e].old = remote[e]
               /\ pushing[e].branch = main => pushing[e].old # None
    BY <1>3, <1>6, <2>4 DEF ReleaseInv, Clones
  <2> QED BY <1>2, <1>3, <1>6, <2>1, <2>2, <2>3, <2>4 DEF Clones
<1>9. Apart'
  BY <1>5 DEF ReleaseInv, Apart
<1>10. Fetched'
  <2>1. tips \subseteq Past(M)
    BY DEF ReleaseInv, Main
  <2>2. \A e \in Developers : Pushed(e)' = Pushed(e)
    BY <1>2, <1>3
  <2>3. ASSUME NEW e \in Developers
        PROVE  tips \intersect Past(head[e])' \subseteq Past(known[e])' \union Pushed(e)
    BY <1>5, <2>1 DEF ReleaseInv, Fetched
  <2> QED BY <1>3, <2>2, <2>3 DEF Fetched
<1>11. ChangesTold'
  <2>1. \A i : Behind(i)' = Behind(i)
    BY <1>2, <1>3 DEF Behind
  <2> QED BY <1>2, <1>3, <1>6, <2>1 DEF ReleaseInv, ChangesTold
<1> QED BY <1>2, <1>7, <1>8, <1>9, <1>10, <1>11 DEF ReleaseInv

(* The hook lets a push go on. *)
LEMMA AllowPreserves ==
  ASSUME ReleaseInv, NEW d \in Developers, NEW branch \in {d, main}, NEW from_ref \in Ids,
         Idle(d), remote[branch] \in commits[head[d]].past \union {None},
         known' \in {known, [known EXCEPT ![d] = remote[main]]},
         pushing' = [pushing EXCEPT ![d] = Pushing(d, branch)],
         remote[branch] # None => from_ref = remote[branch],
         \A b \in collect_hash_baseline_refs(from_ref, known'[d]) : Told(b, head[d]),
         UNCHANGED <<commits, remote, head, tips, behind>>
  PROVE  ReleaseInv'
<1> DEFINE X == head[d]
           M == remote[main]
           Pushed(e) == IF remote[e] = None THEN {} ELSE Past(remote[e])
<1>1. /\ None \notin Ids /\ M \in Ids /\ M \in tips /\ tips \subseteq Ids
      /\ main \in Branches /\ main \notin Developers /\ Developers \subseteq Branches
      /\ \A e \in Developers : head[e] \in Ids /\ known[e] \in Ids
  BY Names DEF ReleaseInv, Main
<1>2. /\ Ids' = Ids
      /\ \A i : Past(i)' = Past(i)
      /\ \A i, j : Told(i, j)' = Told(i, j)
      /\ Log' /\ NeverDowngrades'
  BY SameCommits DEF ReleaseInv
<1>3. /\ remote' = remote /\ head' = head /\ tips' = tips /\ commits' = commits /\ behind' = behind
      /\ known' \in [Developers -> Ids] /\ \A e \in Developers : known'[e] \in {known[e], M}
      /\ \A e \in Developers \ {d} : known'[e] = known[e] /\ pushing'[e] = pushing[e]
      /\ pushing'[d] = [branch |-> branch, old |-> remote[branch], commit |-> X]
      /\ remote[branch] \in Ids \union {None}
  BY <1>1 DEF ReleaseInv, Clones, Main, Pushing
<1>4. \A e \in Developers : Idle(e)' <=> pushing'[e] = NoPush
  BY DEF Idle, NoPush
<1>5. Main'
  BY <1>2, <1>3 DEF ReleaseInv, Main
<1>6. Clones'
  <2>1. pushing'[d] \in Pushes /\ Pushes' = Pushes
    BY <1>1, <1>2, <1>3 DEF Pushes
  <2>2. pushing' \in [Developers -> Pushes]
    BY <2>1 DEF ReleaseInv, Clones
  <2>3. ASSUME NEW e \in Developers, pushing'[e] # NoPush
        PROVE  /\ pushing'[e].branch \in {e, main} /\ pushing'[e].commit = head[e]
               /\ pushing'[e].old \in commits[head[e]].past \union {None}
               /\ pushing'[e].branch = e => pushing'[e].old = remote[e]
               /\ pushing'[e].branch = main => pushing'[e].old # None
    <3>1. CASE e = d
      BY <1>1, <1>3, <3>1
    <3>2. CASE e # d
      BY <1>3, <2>3, <3>2 DEF ReleaseInv, Clones, Idle
    <3> QED BY <3>1, <3>2
  <2>4. ASSUME NEW e \in Developers PROVE known'[e] \in tips /\ (remote[e] # None => remote[e] \in Past(head[e]))
    BY <1>1, <1>3 DEF ReleaseInv, Clones
  <2>5. \A e \in Developers : Past(head[e])' = Past(head[e])
    BY <1>2, <1>3
  <2> QED BY <1>2, <1>3, <1>4, <2>1, <2>2, <2>3, <2>4, <2>5 DEF ReleaseInv, Clones
<1>7. /\ Past(remote[main])' = Past(M)
      /\ \A e \in Developers : Past(head[e])' = Past(head[e]) /\ Pushed(e)' = Pushed(e)
  BY <1>2, <1>3
<1>8. Apart'
  BY <1>7 DEF ReleaseInv, Apart
<1>9. ASSUME NEW e \in Developers PROVE tips \intersect Past(head[e]) \subseteq Past(known[e])' \union Pushed(e)
  <2>1. Past(known[e])' = Past(known[e]) \/ Past(known[e])' = Past(M)
    BY <1>2, <1>3
  <2> QED BY <2>1 DEF ReleaseInv, Fetched, Main
<1>10. Fetched'
  BY <1>3, <1>7, <1>9 DEF Fetched
<1>11. ChangesTold'
  <2>1. remote[branch] # None => Told(remote[branch], X)
    BY DEF collect_hash_baseline_refs, resolve_remote_baseline
  <2>2. Told(known'[d], X)
    BY DEF collect_hash_baseline_refs
  <2>3. ASSUME branch = d, M \in Past(X) PROVE Told(M, X)
    <3>1. M \in Past(known[d])' \/ (remote[d] # None /\ M \in Past(remote[d]))
      BY <1>1, <1>9, <2>3
    <3>2. CASE M \in Past(known[d])'
      <4>1. M \in Past(known'[d]) /\ known'[d] \in tips /\ known'[d] \in Ids
        BY <1>1, <1>2, <1>3, <3>2 DEF ReleaseInv, Clones
      <4>2. known'[d] = M
        BY <1>1, <4>1, PastIsOrdered DEF ReleaseInv, Main
      <4> QED BY <2>2, <4>2
    <3>3. CASE remote[d] # None /\ M \in Past(remote[d])
      <4>1. Told(M, remote[d])
        BY <3>3 DEF ReleaseInv, ChangesTold
      <4>2. Told(remote[d], X) /\ remote[d] \in Past(X) /\ remote[d] \in Ids
        BY <1>1, <1>3, <2>1, <2>3, <3>3 DEF Past
      <4> QED BY <1>1, <3>3, <4>1, <4>2, ToldOnwards
    <3> QED BY <3>1, <3>2, <3>3
  <2>4. ASSUME NEW e \in Developers, pushing'[e] # NoPush
        PROVE  /\ pushing'[e].old # None => Told(pushing'[e].old, pushing'[e].commit)
               /\ pushing'[e].branch = e /\ M \in Past(pushing'[e].commit) => Told(M, pushing'[e].commit)
    <3>1. CASE e = d
      BY <1>3, <2>1, <2>3, <3>1
    <3>2. CASE e # d
      BY <1>3, <2>4, <3>2 DEF ReleaseInv, ChangesTold, Idle
    <3> QED BY <3>1, <3>2
  <2>5. \A i : Behind(i)' = Behind(i)
    BY <1>2, <1>3 DEF Behind
  <2> QED BY <1>2, <1>3, <1>4, <2>4, <2>5 DEF ReleaseInv, ChangesTold
<1> QED BY <1>2, <1>5, <1>6, <1>8, <1>10, <1>11 DEF ReleaseInv

-----------------------------------------------------------------------------
(* The steps *)

LEMMA HashFilesTyped ==
  ASSUME NEW c \in Contracts
  PROVE  DOMAIN Hashes[c] = {"api", "api_method", "schema"}
  BY DEF Hashes, compute_hashes

LEMMA CommitStep ==
  ASSUME ReleaseInv, NEW d \in Developers, Commit(d)
  PROVE  ReleaseInv'
<1>1. Idle(d) /\ UNCHANGED <<remote, known, pushing, tips, behind>>
  BY DEF Commit
<1>2. PICK contract \in Contracts, staged \in Staged(Version(head[d])) :
        AddCommit(d, bump_patch_version(Version(head[d]), staged), contract, Hashes[contract], {head[d]})
  BY DEF Commit
<1>3. head[d] \in Ids /\ Version(head[d]) \in Versions
  BY Names, PastIsOrdered
<1>4. /\ bump_patch_version(Version(head[d]), staged) \in Versions
      /\ ~Less(bump_patch_version(Version(head[d]), staged), Version(head[d]))
  BY <1>3, PatchNeverLowers
<1> QED BY <1>1, <1>2, <1>3, <1>4, HashFilesTyped, CommitPreserves

(* What git merges by itself has the higher version of the two, and a hash file. *)
LEMMA GitMerges ==
  ASSUME ReleaseInv, NEW i \in Ids, NEW j \in Ids, GitMerge(i, j)
  PROVE  \E version \in Versions, c \in Contracts : \E file :
           /\ MakeCommit(version, c, file, {i, j}) /\ DOMAIN file = {"api", "api_method", "schema"}
           /\ ~Less(version, Version(i)) /\ ~Less(version, Version(j))
<1> DEFINE version == Higher(Version(i), Version(j))
           b == MergeBase(i, j)
           file == Merged(HashFile(i), HashFile(j), HashFile(b))
<1>1. PICK c \in Contracts : MakeCommit(version, c, file, {i, j})
  BY DEF GitMerge
<1>2. DOMAIN file = {"api", "api_method", "schema"}
  BY DEF Merged, ReleaseInv, Log
<1>3. Version(i) \in Versions /\ Version(j) \in Versions
  BY PastIsOrdered
<1>4. version \in Versions /\ ~Less(version, Version(i)) /\ ~Less(version, Version(j))
  BY <1>3, HigherIsHigher
<1> HIDE DEF version, file
<1> QED BY <1>1, <1>2, <1>4

LEMMA MergeStep ==
  ASSUME ReleaseInv, NEW d \in Developers, MergeMain(d)
  PROVE  ReleaseInv'
<1> DEFINE i == head[d]
           j == remote[main]
<1>1. Idle(d) /\ known' = [known EXCEPT ![d] = j] /\ UNCHANGED <<remote, pushing, tips, behind>>
  BY DEF MergeMain
<1>2. i \in Ids /\ j \in Ids /\ Version(i) \in Versions /\ Version(j) \in Versions
  BY Names, PastIsOrdered
<1>3. ASSUME NEW version \in Versions, NEW contract \in Contracts, NEW file,
             AddCommit(d, version, contract, file, {i, j}), DOMAIN file = {"api", "api_method", "schema"},
             ~Less(version, Version(i)), ~Less(version, Version(j))
      PROVE  ReleaseInv'
  BY <1>1, <1>2, <1>3, CommitPreserves
<1>4. CASE i \in Past(j) /\ head' = [head EXCEPT ![d] = j] /\ UNCHANGED commits
  BY <1>1, <1>4, ForwardPreserves
<1>5. CASE GitMerge(i, j) /\ head' = [head EXCEPT ![d] = NextId]
  <2>0. PICK version \in Versions, c \in Contracts : \E file :
          /\ MakeCommit(version, c, file, {i, j}) /\ DOMAIN file = {"api", "api_method", "schema"}
          /\ ~Less(version, Version(i)) /\ ~Less(version, Version(j))
    BY <1>2, <1>5, GitMerges
  <2>1. PICK file :
          /\ MakeCommit(version, c, file, {i, j}) /\ DOMAIN file = {"api", "api_method", "schema"}
          /\ ~Less(version, Version(i)) /\ ~Less(version, Version(j))
    BY <2>0
  <2>2. AddCommit(d, version, c, file, {i, j})
    BY <1>5, <2>1 DEF AddCommit
  <2> QED BY <1>3, <2>1, <2>2
<1>6. CASE \E c \in Contracts : AddCommit(d, Higher(Version(i), Version(j)), c, Hashes[c], {i, j})
  <2>1. PICK c \in Contracts : AddCommit(d, Higher(Version(i), Version(j)), c, Hashes[c], {i, j})
    BY <1>6
  <2>2. /\ Higher(Version(i), Version(j)) \in Versions
        /\ ~Less(Higher(Version(i), Version(j)), Version(i)) /\ ~Less(Higher(Version(i), Version(j)), Version(j))
    BY <1>2, HigherIsHigher
  <2> QED BY <1>3, <2>1, <2>2, HashFilesTyped
<1> QED BY <1>4, <1>5, <1>6 DEF MergeMain

LEMMA PrePushStep ==
  ASSUME ReleaseInv, NEW d \in Developers, NEW branch \in Branches, PrePush(d, branch)
  PROVE  ReleaseInv'
<1> DEFINE X == head[d]
<1>0. PICK from_ref \in from_refs(d, branch) :
        LET required == required_versions(X, collect_hash_baseline_refs(from_ref, known'[d]))
            missing == {v \in required : Less(Version(X), v)}
        IN  IF missing = {}
              THEN /\ pushing' = [pushing EXCEPT ![d] = Pushing(d, branch)] /\ UNCHANGED <<commits, head>>
              ELSE bump_and_abort(d, branch, CHOOSE v \in missing : \A w \in missing : ~Less(v, w))
  BY DEF PrePush
<1> DEFINE B == collect_hash_baseline_refs(from_ref, known'[d])
           required == required_versions(X, B)
           missing == {v \in required : Less(Version(X), v)}
<1>1. /\ Idle(d) /\ branch \in {d, main} /\ remote[branch] \in commits[X].past \union {None}
      /\ known' \in {known, [known EXCEPT ![d] = remote[main]]}
      /\ remote' = remote /\ tips' = tips /\ behind' = behind
      /\ \/ missing = {} /\ pushing' = [pushing EXCEPT ![d] = Pushing(d, branch)] /\ UNCHANGED <<commits, head>>
         \/ missing # {} /\ bump_and_abort(d, branch, CHOOSE v \in missing : \A w \in missing : ~Less(v, w))
  BY <1>0 DEF PrePush, fetch_baseline_refs
<1>2. /\ X \in Ids /\ Version(X) \in Versions /\ None \notin Ids
      /\ remote[main] \in Ids /\ known[d] \in Ids
  BY Names, PastIsOrdered
<1>3. known'[d] \in Ids /\ from_ref \in Ids /\ (remote[branch] # None => from_ref = remote[branch])
  <2>1. Past(known[d]) \subseteq Ids /\ commits[X].past \subseteq Ids
    BY <1>2, PastIsOrdered DEF Past
  <2> QED BY <1>1, <1>2, <2>1 DEF ReleaseInv, Clones, from_refs
<1>4. PICK b \in Ids : B = {b, known'[d]}
  BY <1>2, <1>3 DEF collect_hash_baseline_refs, resolve_remote_baseline
<1>5. CASE missing = {}
  <2>1. ASSUME NEW a \in B PROVE Told(a, X)
    <3>1. HashFile(a) # HashFile(X) => bump_minor(Version(a)) \in required
      BY DEF required_versions
    <3> QED BY <1>5, <3>1 DEF Told
  <2> QED BY <1>1, <1>3, <1>5, <2>1, AllowPreserves
<1>6. CASE missing # {}
  <2> DEFINE p == bump_minor(Version(b)) q == bump_minor(Version(known'[d]))
             version == CHOOSE v \in missing : \A w \in missing : ~Less(v, w)
  <2>1. p \in Versions /\ q \in Versions
    BY <1>3, PastIsOrdered, BumpTyped
  <2>2. missing \in SUBSET {p, q} /\ \A v \in missing : Less(Version(X), v)
    BY <1>4 DEF required_versions
  <2> HIDE DEF missing, p, q
  <2>3. \E v \in missing : \A w \in missing : ~Less(v, w)
    BY <1>6, <2>1, <2>2, HighestExists
  <2>4. version \in missing
    BY <2>3
  <2>5. version \in Versions /\ Less(Version(X), version)
    BY <2>1, <2>2, <2>4
  <2>6. ~Less(version, Version(X))
    BY <1>2, <2>5, LessTotal
  <2>7. /\ AddCommit(d, version, commits[X].contract, HashFile(X), {X}) /\ pushing' = pushing
    BY <1>1, <1>6 DEF bump_and_abort
  <2>8. commits[X].contract \in Contracts /\ DOMAIN HashFile(X) = {"api", "api_method", "schema"}
    BY <1>2 DEF ReleaseInv, Log
  <2> HIDE DEF version
  <2> QED BY <1>1, <1>2, <2>5, <2>6, <2>7, <2>8, CommitPreserves
<1> QED BY <1>5, <1>6

LEMMA PushStep ==
  ASSUME ReleaseInv, NEW d \in Developers, Push(d)
  PROVE  ReleaseInv'
<1> DEFINE X == pushing[d].commit
<1>1. /\ ~Idle(d) /\ remote[pushing[d].branch] = pushing[d].old
      /\ pushing[d].branch \in {d, main} /\ X = head[d]
      /\ pushing[d].old \in commits[X].past \union {None}
      /\ (pushing[d].branch = main => pushing[d].old # None)
  BY DEF Push, ReleaseInv, Clones
<1>2. CASE pushing[d].branch = d
  BY <1>1, <1>2, BranchPreserves
<1>3. CASE pushing[d].branch = main
  <2>1. /\ commits' = commits /\ head' = head /\ remote' = [remote EXCEPT ![main] = X]
        /\ tips' = tips \union {X} /\ known' = [known EXCEPT ![d] = X]
        /\ pushing' = [pushing EXCEPT ![d] = NoPush] /\ behind' = behind
    BY <1>3 DEF Push, MoveTip
  <2>2. remote[main] \in commits[X].past /\ Told(remote[main], X)
    BY <1>1, <1>3 DEF ReleaseInv, ChangesTold
  <2>3. X \in Past(head[d])
    BY <1>1, Names, PastIsOrdered
  <2> QED BY <1>1, <2>1, <2>2, <2>3, MainPreserves
<1> QED BY <1>1, <1>2, <1>3

(* The server merges a branch that does not contain main. *)
LEMMA BehindPreserves ==
  ASSUME ReleaseInv, NEW d \in Developers, remote[d] # None,
         remote[main] \notin Past(remote[d]), GitMerge(remote[main], remote[d]),
         MoveTip(main, NextId), behind' = behind \union {NextId},
         UNCHANGED <<known, head, pushing>>
  PROVE  ReleaseInv'
<1> DEFINE M == remote[main]
           X == remote[d]
           Pushed(e) == IF remote[e] = None THEN {} ELSE Past(remote[e])
<1>1. /\ Ids = 1 .. Len(commits) /\ Len(commits) \in Nat /\ None \notin Ids
      /\ main \in Branches /\ main \notin Developers /\ Developers \subseteq Branches
      /\ tips \subseteq Ids /\ M \in Ids
      /\ \A e \in Developers : head[e] \in Ids /\ known[e] \in Ids
  BY Names
<1>2. X \in Ids
  BY <1>1 DEF ReleaseInv, Main
<1>0. PICK version \in Versions, contract \in Contracts : \E file :
        /\ MakeCommit(version, contract, file, {M, X}) /\ DOMAIN file = {"api", "api_method", "schema"}
        /\ ~Less(version, Version(M)) /\ ~Less(version, Version(X))
  BY <1>1, <1>2, GitMerges
<1>3. PICK file :
        /\ MakeCommit(version, contract, file, {M, X}) /\ DOMAIN file = {"api", "api_method", "schema"}
        /\ ~Less(version, Version(M)) /\ ~Less(version, Version(X))
  BY <1>0
<1>a. PICK n : n = Len(commits) + 1
  OBVIOUS
<1> DEFINE older == UNION {Past(p) : p \in {M, X}}
<1>4. /\ n \notin Ids /\ Ids' = Ids \union {n} /\ Len(commits') = n /\ n \in 1 .. MaxCommits
      /\ commits' \in Seq({commits'[i] : i \in Ids'})
      /\ \A i \in Ids : commits'[i] = commits[i] /\ n \notin Past(i)
      /\ commits'[n] = [version |-> version, contract |-> contract, file |-> file, past |-> older]
  BY <1>a, <1>3, NextCommit
<1>5. \A i \in Ids : Past(i)' = Past(i) /\ Version(i)' = Version(i) /\ HashFile(i)' = HashFile(i)
  BY <1>4, OldCommits
<1>6. /\ older = Past(M) \union Past(X) /\ older \subseteq Ids
      /\ \A j \in older : Past(j) \subseteq older /\ ~Less(version, Version(j))
  <2>1. ASSUME NEW p \in {M, X}, NEW j \in Past(p)
        PROVE  j \in Ids /\ Past(j) \subseteq Past(p) /\ ~Less(version, Version(j))
    <3>1. /\ p \in Ids /\ j \in Ids /\ Past(j) \subseteq Past(p)
          /\ Version(p) \in Versions /\ Version(j) \in Versions /\ ~Less(Version(p), Version(j))
      BY <1>1, <1>2, <2>1, PastIsOrdered
    <3> QED BY <1>3, <3>1, LessTransitive
  <2>2. older = Past(M) \union Past(X)
    OBVIOUS
  <2> HIDE DEF older
  <2> QED BY <2>1, <2>2
<1>7. /\ Past(n)' = older \union {n} /\ Version(n)' = version /\ HashFile(n)' = file
  <2>1. commits'[n].past = older /\ commits'[n].version = version /\ commits'[n].file = file
    BY <1>4
  <2> QED BY <2>1 DEF Past, Version, HashFile
<1>8. /\ remote' = [remote EXCEPT ![main] = n] /\ tips' = tips \union {n} /\ behind' = behind \union {n}
      /\ known' = known /\ head' = head /\ pushing' = pushing
  BY <1>a DEF MoveTip, NextId
<1>9. /\ remote'[main] = n /\ \A e \in Developers : remote'[e] = remote[e]
      /\ remote' \in [Branches -> Ids' \union {None}]
  BY <1>1, <1>4, <1>8 DEF ReleaseInv, Main
<1> HIDE DEF older
<1>10. Log'
  <2>1. ASSUME NEW i \in Ids
        PROVE  /\ Version(i)' \in Versions /\ commits'[i].contract \in Contracts
               /\ commits'[i].past \subseteq 1 .. i - 1
               /\ DOMAIN HashFile(i)' = {"api", "api_method", "schema"}
               /\ \A j \in commits'[i].past : commits'[j].past \subseteq commits'[i].past
    <3>1. commits'[i] = commits[i] /\ \A j \in commits[i].past : j \in Ids /\ commits'[j] = commits[j]
      BY <1>4, PastIsOrdered DEF Past
    <3> QED BY <3>1, <1>5 DEF ReleaseInv, Log
  <2>2. /\ commits'[n].contract \in Contracts
        /\ commits'[n].past \subseteq 1 .. n - 1
        /\ \A j \in commits'[n].past : commits'[j].past \subseteq commits'[n].past
    BY <1>1, <1>4, <1>6, <1>a DEF Past
  <2> QED BY <1>3, <1>4, <1>7, <2>1, <2>2 DEF Log
<1>11. NeverDowngrades'
  <2>1. ASSUME NEW i \in Ids, NEW j \in commits[i].past PROVE ~Less(Version(i)', Version(j)')
    <3>1. j \in Ids
      BY PastIsOrdered DEF Past
    <3> QED BY <3>1, <1>5 DEF ReleaseInv, NeverDowngrades
  <2>2. ASSUME NEW j \in older PROVE ~Less(Version(n)', Version(j)')
    BY <1>5, <1>6, <1>7
  <2> QED BY <1>4, <2>1, <2>2 DEF NeverDowngrades
<1>12. Main'
  <2>1. ASSUME NEW t \in tips PROVE t \in Past(n)' /\ n # t
    BY <1>1, <1>4, <1>6, <1>7 DEF ReleaseInv, Main
  <2>2. ASSUME NEW t \in tips', NEW u \in tips' PROVE t \in Past(u)' \/ u \in Past(t)'
    BY <1>1, <1>5, <1>7, <1>8, <2>1 DEF ReleaseInv, Main
  <2>3. tips' \subseteq Ids' \intersect Past(n)' /\ n \in tips' /\ behind' \subseteq tips'
    BY <1>1, <1>4, <1>7, <1>8, <2>1 DEF ReleaseInv, Main
  <2> QED BY <1>9, <2>2, <2>3 DEF Main
<1>13. Clones'
  <2>1. known' \in [Developers -> Ids'] /\ head' \in [Developers -> Ids'] /\ \A e \in Developers : known'[e] \in tips'
    BY <1>4, <1>8 DEF ReleaseInv, Clones
  <2>2. pushing' \in [Developers -> Pushes']
    BY <1>4, <1>8 DEF ReleaseInv, Clones, Pushes
  <2>3. ASSUME NEW e \in Developers
        PROVE  /\ head'[e] = head[e] /\ Past(head[e])' = Past(head[e]) /\ commits'[head[e]] = commits[head[e]]
               /\ Idle(e)' = Idle(e)
    BY <1>1, <1>4, <1>5, <1>8 DEF Idle, NoPush
  <2> QED BY <1>8, <1>9, <2>1, <2>2, <2>3 DEF ReleaseInv, Clones
<1>14. Apart'
  <2>1. \A e \in Developers : Past(head[e])' = Past(head[e])
    BY <1>1, <1>5, <1>8
  <2>2. Past(M) \subseteq Past(remote[main])'
    BY <1>6, <1>7, <1>9
  <2> QED BY <2>1, <2>2 DEF ReleaseInv, Apart
<1>15. Fetched'
  <2>1. ASSUME NEW e \in Developers
        PROVE  /\ Past(head[e])' = Past(head[e]) /\ Past(known[e])' = Past(known[e]) /\ n \notin Past(head[e])
               /\ (IF remote[e] = None THEN {} ELSE Past(remote[e]))' = Pushed(e)
    BY <1>1, <1>4, <1>5, <1>8, <1>9 DEF ReleaseInv, Main
  <2> QED BY <1>8, <2>1 DEF ReleaseInv, Fetched
<1>16. ChangesTold'
  <2>1. \A t, u \in Ids : Told(t, u)' = Told(t, u)
    BY <1>5 DEF Told
  <2>2. ASSUME NEW t \in tips', NEW u \in tips', t \in Past(u)', Behind(t)' = Behind(u)' PROVE Told(t, u)'
    <3>1. n \in Behind(n)' /\ \A i \in tips : n \notin Behind(i)' /\ Behind(i)' = Behind(i)
      BY <1>1, <1>4, <1>5, <1>7, <1>8 DEF Behind
    <3>2. CASE t \in tips /\ u \in tips
      BY <1>1, <1>5, <2>1, <2>2, <3>1, <3>2 DEF ReleaseInv, ChangesTold
    <3>3. CASE t = n /\ u = n
      BY <3>3 DEF Told
    <3> QED BY <1>8, <2>2, <3>1, <3>2, <3>3
  <2>3. ASSUME NEW e \in Developers, remote[e] # None PROVE n \notin Past(remote[e])'
    BY <1>1, <1>4, <1>5, <1>9, <2>3 DEF ReleaseInv, Main
  <2>4. ASSUME NEW e \in Developers, ~Idle(e)'
        PROVE  /\ pushing[e].old # None => Told(pushing[e].old, pushing[e].commit)'
               /\ n \notin Past(pushing[e].commit)'
    <3>1. ~Idle(e) /\ pushing' = pushing
      BY <1>8, <2>4 DEF Idle, NoPush
    <3>2. pushing[e].commit = head[e] /\ pushing[e].commit \in Ids /\ pushing[e].old \in Ids \union {None}
      BY <1>1, <3>1 DEF ReleaseInv, Clones, Pushes
    <3>3. pushing[e].old # None => Told(pushing[e].old, pushing[e].commit)
      BY <3>1 DEF ReleaseInv, ChangesTold
    <3>4. pushing[e].old # None => Told(pushing[e].old, pushing[e].commit)'
      BY <1>8, <2>1, <3>2, <3>3 DEF Told
    <3> QED BY <1>4, <1>5, <1>8, <3>2, <3>4
  <2> QED BY <1>8, <1>9, <2>2, <2>3, <2>4 DEF ChangesTold
<1> QED BY <1>10, <1>11, <1>12, <1>13, <1>14, <1>15, <1>16 DEF ReleaseInv

LEMMA PullStep ==
  ASSUME ReleaseInv, NEW d \in Developers, MergePull(d)
  PROVE  ReleaseInv'
<1> DEFINE X == remote[d]
<1>1. X # None /\ UNCHANGED <<known, head, pushing>>
  BY DEF MergePull
<1>2. CASE /\ remote[main] \in commits[X].past
           /\ MoveTip(main, X) /\ UNCHANGED <<commits, behind>>
  <2>1. /\ remote' = [remote EXCEPT ![main] = X] /\ tips' = tips \union {X}
        /\ commits' = commits /\ behind' = behind /\ known' = known /\ head' = head /\ pushing' = pushing
    BY <1>1, <1>2 DEF MoveTip
  <2>2. X \in Past(head[d])
    BY <1>1 DEF ReleaseInv, Clones
  <2>3. Told(remote[main], X)
    BY <1>1, <1>2 DEF ReleaseInv, ChangesTold, Past
  <2> QED BY <1>1, <1>2, <2>1, <2>2, <2>3, MainPreserves
<1>3. CASE /\ remote[main] \notin Past(X) /\ GitMerge(remote[main], X)
           /\ MoveTip(main, NextId) /\ behind' = behind \union {NextId}
  BY <1>1, <1>3, BehindPreserves
<1> QED BY <1>2, <1>3 DEF MergePull

LEMMA RejectedStep ==
  ASSUME ReleaseInv, NEW d \in Developers, Rejected(d)
  PROVE  ReleaseInv'
<1>1. /\ pushing' = [pushing EXCEPT ![d] = NoPush] /\ commits' = commits /\ remote' = remote
      /\ known' = known /\ head' = head /\ tips' = tips /\ behind' = behind
  BY DEF Rejected
<1>2. /\ Ids' = Ids
      /\ \A i : Past(i)' = Past(i)
      /\ \A i, j : Told(i, j)' = Told(i, j)
      /\ Log' /\ NeverDowngrades'
  BY <1>1, SameCommits DEF ReleaseInv
<1>3. /\ \A e \in Developers : Idle(e)' <=> pushing'[e] = NoPush
      /\ \A e \in Developers : pushing'[e] # NoPush => ~Idle(e) /\ pushing'[e] = pushing[e]
  BY <1>1 DEF Idle, ReleaseInv, Clones
<1>4. Main' /\ Apart' /\ Fetched'
  <2>1. /\ Past(remote[main])' = Past(remote[main])
        /\ \A e \in Developers : /\ Past(remote[e])' = Past(remote[e])
                                /\ Past(head[e])' = Past(head[e]) /\ Past(known[e])' = Past(known[e])
    BY <1>1, <1>2
  <2>2. Main'
    BY <1>1, <1>2 DEF ReleaseInv, Main
  <2>3. Apart'
    BY <2>1 DEF ReleaseInv, Apart
  <2>4. Fetched'
    BY <1>1, <2>1 DEF ReleaseInv, Fetched
  <2> QED BY <2>2, <2>3, <2>4
<1>5. Clones'
  <2>1. NoPush \in Pushes /\ Pushes' = Pushes
    BY <1>2 DEF NoPush, Pushes
  <2>2. pushing' \in [Developers -> Pushes]
    BY <1>1, <2>1 DEF ReleaseInv, Clones
  <2>3. \A e \in Developers : Past(head[e])' = Past(head[e])
    BY <1>1, <1>2
  <2> QED BY <1>1, <1>2, <1>3, <2>1, <2>2, <2>3 DEF ReleaseInv, Clones
<1>6. ChangesTold'
  <2>1. \A i : Behind(i)' = Behind(i)
    BY <1>1, <1>2 DEF Behind
  <2> QED BY <1>1, <1>2, <1>3, <2>1 DEF ReleaseInv, ChangesTold
<1> QED BY <1>2, <1>4, <1>5, <1>6 DEF ReleaseInv

-----------------------------------------------------------------------------
(* The theorems *)

(* The first commit. *)
LEMMA FirstCommit ==
  ASSUME Init
  PROVE  ReleaseInv
<1> DEFINE c == [version |-> <<1, 1, 0>>, contract |-> Base, file |-> Hashes[Base], past |-> {}]
<1>1. commits = <<c>> /\ Ids = {1} /\ Len(commits) = 1 /\ commits[1] = c
  BY DEF Init, Ids
<1>2. /\ Base \in Contracts /\ None # 1 /\ main \in Branches /\ main \notin Developers
      /\ 1 \in 1 .. MaxCommits
  BY ReleaseAssumption DEF Branches
<1>3. /\ remote = [b \in Branches |-> IF b = main THEN 1 ELSE None]
      /\ known = [d \in Developers |-> 1] /\ head = [d \in Developers |-> 1]
      /\ pushing = [d \in Developers |-> NoPush] /\ tips = {1} /\ behind = {}
  BY DEF Init
<1>4. /\ Past(1) = {1} /\ Version(1) = <<1, 1, 0>> /\ Version(1) \in Versions
      /\ HashFile(1) = Hashes[Base]
  BY <1>1 DEF Past, Version, HashFile, Versions
<1>5. Log
  <2>1. commits \in Seq({commits[i] : i \in Ids})
    BY <1>1
  <2> QED BY <1>1, <1>2, <1>4, <2>1, HashFilesTyped DEF Log
<1>6. NeverDowngrades
  BY <1>1 DEF NeverDowngrades
<1>7. Main
  BY <1>1, <1>2, <1>3, <1>4 DEF Main
<1>8. \A d \in Developers : Idle(d) /\ remote[d] = None
  BY <1>2, <1>3 DEF Idle, Branches
<1>9. Clones
  BY <1>1, <1>2, <1>3, <1>4, <1>8 DEF Clones, Pushes, NoPush
<1>10. Apart /\ Fetched
  BY <1>2, <1>3, <1>4 DEF Apart, Fetched
<1>11. ChangesTold
  BY <1>3, <1>8, ToldItself DEF ChangesTold
<1> QED BY <1>5, <1>6, <1>7, <1>9, <1>10, <1>11 DEF ReleaseInv

(* Every step preserves the invariant. *)
LEMMA EveryStep ==
  ASSUME ReleaseInv, [Next]_vars
  PROVE  ReleaseInv'
<1>1. CASE UNCHANGED vars
  <2>1. /\ commits' = commits /\ remote' = remote /\ known' = known /\ head' = head
        /\ pushing' = pushing /\ tips' = tips /\ behind' = behind
    BY <1>1 DEF vars
  <2> QED BY <2>1 DEF ReleaseInv, Log, NeverDowngrades, Main, Clones, Apart, Fetched, ChangesTold,
                      Told, Ids, Past, Version, HashFile, Idle, Pushes, Behind
<1>2. ASSUME NEW d \in Developers,
             \/ Commit(d) \/ MergeMain(d) \/ \E branch \in Branches : PrePush(d, branch)
             \/ Push(d) \/ Rejected(d) \/ MergePull(d)
      PROVE  ReleaseInv'
  BY <1>2, CommitStep, MergeStep, PrePushStep, PushStep, RejectedStep, PullStep
<1> QED BY <1>1, <1>2 DEF Next

(* Commits, branches, clones and pushes keep what the hooks rely on: main only moves forward,
   whatever developers share has been on main, and every change of the hash file that is on main,
   or may get there, is told by a minor version, unless a branch was merged that did not contain
   main. *)
THEOREM ReleaseInvariance == Spec => []ReleaseInv
<1>1. Init => ReleaseInv
  BY FirstCommit
<1>2. ReleaseInv /\ [Next]_vars => ReleaseInv'
  BY EveryStep
<1> QED BY <1>1, <1>2, PTL DEF Spec

(* Names refer to commits that exist, and a push is of what is checked out. *)
THEOREM ReleaseTyped == Spec => []TypeOK
<1>1. ReleaseInv => TypeOK
  <2> SUFFICES ASSUME ReleaseInv PROVE TypeOK
    OBVIOUS
  <2>1. Len(commits) \in 1 .. MaxCommits
    BY DEF ReleaseInv, Log
  <2>2. \A i \in Ids :
          /\ Version(i) \in Nat \X Nat \X Nat
          /\ commits[i].contract \in Contracts /\ commits[i].past \subseteq 1 .. i - 1
          /\ DOMAIN HashFile(i) = {"api", "api_method", "schema"}
    BY DEF ReleaseInv, Log, Versions
  <2>3. remote \in [Branches -> Ids \union {None}] /\ remote[main] \in tips /\ tips \subseteq Ids
        /\ behind \subseteq tips
    BY DEF ReleaseInv, Main
  <2>4. /\ known \in [Developers -> Ids] /\ head \in [Developers -> Ids]
        /\ \A d \in Developers : ~Idle(d) => pushing[d].branch \in {d, main} /\ pushing[d].commit = head[d]
    BY DEF ReleaseInv, Clones
  <2> QED BY <2>1, <2>2, <2>3, <2>4 DEF TypeOK
<1> QED BY <1>1, ReleaseInvariance, PTL

(* Whatever is staged, merged or bumped, and in whatever order clones push and fetch, no commit
   has a lower version than one before it. *)
THEOREM VersionsNeverFall == Spec => []NeverDowngrades
<1>1. ReleaseInv => NeverDowngrades
  BY DEF ReleaseInv
<1> QED BY <1>1, ReleaseInvariance, PTL

(* Two releases with the same major and minor version define the same contract, if no branch was
   merged between them that did not contain main. *)
THEOREM MinorVersionsTell == Spec => []MinorTellsContract
<1>1. ReleaseInv => MinorTellsContract
  <2> SUFFICES ASSUME ReleaseInv, NEW i \in Released, NEW j \in Released,
                      Behind(i) = Behind(j), SubSeq(Version(i), 1, 2) = SubSeq(Version(j), 1, 2)
               PROVE  SameContract(commits[i].contract, commits[j].contract)
    BY DEF MinorTellsContract
  <2>1. /\ i \in tips /\ j \in tips /\ i \in Ids /\ j \in Ids
        /\ HashFile(i) = Hashes[commits[i].contract] /\ HashFile(j) = Hashes[commits[j].contract]
        /\ commits[i].contract \in Contracts /\ commits[j].contract \in Contracts
    BY Names DEF Released, check_hashes, ReleaseInv, Log
  <2>2. Version(i) \in Versions /\ Version(j) \in Versions
    BY <2>1, PastIsOrdered
  <2>3. Less(Version(j), bump_minor(Version(i))) /\ Less(Version(i), bump_minor(Version(j)))
    BY <2>2, SameMinorIsLess
  <2>4. Told(i, j) \/ Told(j, i)
    BY <2>1 DEF ReleaseInv, Main, ChangesTold
  <2>5. HashFile(i) = HashFile(j)
    BY <2>3, <2>4 DEF Told
  <2> QED BY <2>1, <2>5, HashesTellContracts DEF HashesTell
<1> QED BY <1>1, ReleaseInvariance, PTL

(* A client that has pinned the hash of a resource, or of an operation, is refused by another
   release exactly when something it depends on has changed. *)
THEOREM PinsAreExact == Spec => []PinsTellDependencies
<1>1. ReleaseInv => PinsTellDependencies
  <2> SUFFICES ASSUME ReleaseInv, NEW i \in Released, NEW j \in Released
               PROVE  LET c == commits[i].contract e == commits[j].contract
                          pinned == get_version(i).hashes now == get_version(j).hashes
                          Same(o) == Dependencies[c][o] = Dependencies[e][o]
                      IN  /\ \A r \in Resources :
                               (pinned.api[r] = now.api[r]) = \A m \in Methods : Same(<<r, m>>)
                          /\ \A o \in Operations : (pinned.api_method[o] = now.api_method[o]) = Same(o)
    BY HashesTellContracts DEF PinsTellDependencies
  <2>1. commits[i].contract \in Contracts /\ commits[j].contract \in Contracts
    BY Names DEF Released, ReleaseInv, Log
  <2>2. get_version(i).hashes = Hashes[commits[i].contract] /\ get_version(j).hashes = Hashes[commits[j].contract]
    BY DEF get_version
  <2> DEFINE c == commits[i].contract
             e == commits[j].contract
  <2> HIDE DEF c, e
  <2>3. c \in Contracts /\ e \in Contracts
    BY <2>1 DEF c, e
  <2>4. ASSUME NEW r \in Resources
        PROVE  (Hashes[c].api[r] = Hashes[e].api[r])
                 = \A m \in Methods : Dependencies[c][<<r, m>>] = Dependencies[e][<<r, m>>]
    <3>1. Hashes[c].api[r] = Hashes[e].api[r]
            <=> \A m \in Methods : Dependencies[c][<<r, m>>] = Dependencies[e][<<r, m>>]
      BY <2>3, PinsTell
    <3> QED BY <3>1
  <2>5. ASSUME NEW o \in Operations
        PROVE  (Hashes[c].api_method[o] = Hashes[e].api_method[o]) = (Dependencies[c][o] = Dependencies[e][o])
    <3>1. Hashes[c].api_method[o] = Hashes[e].api_method[o] <=> Dependencies[c][o] = Dependencies[e][o]
      BY <2>3, PinsTell
    <3> QED BY <3>1
  <2> QED BY <2>2, <2>4, <2>5 DEF c, e
<1> QED BY <1>1, ReleaseInvariance, PTL

(* The hook bumps nothing for the sake of documentation, or of a baseline that defines the same. *)
THEOREM BumpsHaveReasons == Spec => NoIdleBump
<1>1. ASSUME ReleaseInv, NEW d \in Developers, NEW branch \in Branches,
             PrePush(d, branch), commits' # commits
      PROVE  \E b \in {known'[d]} \union from_refs(d, branch) :
               \/ ~check_hashes(b) \/ ~check_hashes(head[d])
               \/ ~SameContract(commits[b].contract, commits[head[d]].contract)
  <2> DEFINE X == head[d]
  <2>0. PICK from_ref \in from_refs(d, branch) :
          {v \in required_versions(X, collect_hash_baseline_refs(from_ref, known'[d])) :
             Less(Version(X), v)} # {}
    BY <1>1 DEF PrePush
  <2> DEFINE B == collect_hash_baseline_refs(from_ref, known'[d])
             missing == {v \in required_versions(X, B) : Less(Version(X), v)}
  <2>1. /\ missing # {} /\ known' \in {known, [known EXCEPT ![d] = remote[main]]}
        /\ remote[branch] \in commits[X].past \union {None}
    BY <1>1, <2>0 DEF PrePush, fetch_baseline_refs
  <2>2. PICK b \in B : HashFile(b) # HashFile(X)
    BY <2>1 DEF required_versions
  <2>3. X \in Ids /\ known'[d] \in Ids /\ None \notin Ids
    BY <1>1, <2>1, Names DEF ReleaseInv, Clones
  <2>4. b \in {known'[d]} \union from_refs(d, branch)
    BY DEF collect_hash_baseline_refs, resolve_remote_baseline
  <2>5. b \in Ids
    <3>1. Past(known[d]) \subseteq Ids /\ commits[X].past \subseteq Ids
      BY <1>1, <2>3, Names, PastIsOrdered DEF Past
    <3> QED BY <2>1, <2>3, <2>4, <3>1 DEF from_refs
  <2>6. commits[b].contract \in Contracts /\ commits[X].contract \in Contracts
    BY <1>1, <2>3, <2>4, <2>5 DEF ReleaseInv, Log
  <2>7. check_hashes(b) /\ check_hashes(X)
          => Hashes[commits[b].contract] # Hashes[commits[X].contract]
    BY <2>2 DEF check_hashes
  <2>8. check_hashes(b) /\ check_hashes(X) => ~SameContract(commits[b].contract, commits[X].contract)
    BY <2>6, <2>7, HashesTellContracts DEF HashesTell
  <2> QED BY <2>4, <2>8
<1>2. ReleaseInv /\ [Next]_vars
        => [\A d \in Developers, branch \in Branches :
              PrePush(d, branch) /\ commits' # commits =>
                \E b \in {known'[d]} \union from_refs(d, branch) :
                  \/ ~check_hashes(b) \/ ~check_hashes(head[d])
                  \/ ~SameContract(commits[b].contract, commits[head[d]].contract)]_vars
  BY <1>1
<1> QED BY <1>2, ReleaseInvariance, PTL DEF Spec, NoIdleBump
=============================================================================
