------------------------ MODULE ConfigSecrets_proofs ------------------------
(***************************************************************************)
(* What redaction, the merge, validation and the diff do to every text,    *)
(* of any depth and with any keys.  A merge is decided section by section, *)
(* so the one argument that needs induction is that every path outside the *)
(* merged sections has a first ancestor outside them (FirstOutside).       *)
(***************************************************************************)
EXTENDS Integers, FiniteSetsExt, ConfigSecrets, WellFoundedInduction, SequenceTheorems, TLAPS

\* The least-number principle, for sets.
LEMMA Least ==
  ASSUME NEW S \in SUBSET Nat, S # {}
  PROVE  \E m \in S : \A k \in S : m <= k
<1> DEFINE R == {ss \in Nat \X Nat : ss[1] < ss[2]}
<1>1. IsWellFoundedOn(R, Nat)
  BY NatLessThanWellFounded DEF OpToRel
<1>2. PICK m \in S : \A k \in S : ~(<<k, m>> \in R)
  <2> HIDE DEF R
  <2>. QED
    BY <1>1, WFMin
<1>3. ASSUME NEW k \in S PROVE m <= k
  <2>1. k < m => <<k, m>> \in R
    <3>1. <<k, m>> \in Nat \X Nat /\ <<k, m>>[1] = k /\ <<k, m>>[2] = m
      OBVIOUS
    <3>. QED
      BY <3>1
  <2>2. k \in Nat /\ m \in Nat
    OBVIOUS
  <2>. QED
    BY <1>2, <2>1, <2>2
<1>. QED
  BY <1>3

\* A set of numbers with a bound has a maximum, and Max is it.
LEMMA Greatest ==
  ASSUME NEW N \in Nat, NEW S \in SUBSET (0 .. N), S # {}
  PROVE  Max(S) \in S /\ \A k \in S : k <= Max(S)
<1> DEFINE T == {n \in Nat : \E k \in S : n = N - k}
<1>1. T \in SUBSET Nat
  OBVIOUS
<1>2. T # {}
  <2>1. PICK k \in S : TRUE
    OBVIOUS
  <2>2. N - k \in T
    OBVIOUS
  <2>. QED
    BY <2>2
<1>3. PICK m \in T : \A k \in T : m <= k
  <2> HIDE DEF T
  <2>. QED
    BY <1>1, <1>2, Least
<1>4. PICK x \in S : m = N - x
  BY <1>3
<1>5. ASSUME NEW k \in S PROVE k <= x
  <2>1. N - k \in T
    OBVIOUS
  <2>2. m <= N - k
    BY <1>3, <2>1
  <2>. QED
    BY <1>4, <2>2
<1>. QED
  BY <1>5 DEF Max

\* The ancestor of a path at depth n.
Ancestor(q, n) == SubSeq(q, 1, n)

LEMMA AncestorPath ==
  ASSUME NEW q \in Seq(STRING), NEW n \in 0 .. Len(q)
  PROVE  LET a == Ancestor(q, n)
         IN  /\ a \in Seq(STRING) /\ Len(a) = n
             /\ n = 0 => a = <<>>
             /\ n # 0 => a # <<>> /\ Front(a) = Ancestor(q, n - 1)
             /\ n < Len(q) => IsStrictPrefix(a, q)
<1> USE DEF Ancestor
<1> DEFINE a == Ancestor(q, n)
<1>1. a \in Seq(STRING) /\ Len(a) = n
  OBVIOUS
<1>2. SubSeq(a, 1, n) = a
  BY <1>1, SubSeqFull
<1>3. n < Len(q) => IsStrictPrefix(a, q)
  BY <1>1, <1>2 DEF IsPrefix, IsStrictPrefix
<1>4. n = 0 => a = <<>>
  OBVIOUS
<1>5. ASSUME n # 0 PROVE a # <<>> /\ Front(a) = Ancestor(q, n - 1)
  <2>1. a # <<>>
    BY <1>1, <1>5
  <2>2. Front(a) \in Seq(STRING) /\ SubSeq(q, 1, n - 1) \in Seq(STRING)
    BY <1>1, <1>5 DEF Front
  <2>3. Len(Front(a)) = n - 1 /\ Len(SubSeq(q, 1, n - 1)) = n - 1
    BY <1>1, <1>5 DEF Front
  <2>4. \A i \in 1 .. n - 1 : Front(a)[i] = SubSeq(q, 1, n - 1)[i]
    BY <1>1, <1>5 DEF Front
  <2>. QED
    BY <2>1, <2>2, <2>3, <2>4, SeqEqual
<1>. QED
  BY <1>1, <1>3, <1>4, <1>5

\* Every proper ancestor of a path of a document is a mapping of it.
LEMMA AncestorsAreMappings ==
  ASSUME NEW d, IsDocument(d), NEW q \in DOMAIN d, NEW n \in 0 .. Len(q) - 1
  PROVE  IsMapping(d, Ancestor(q, n))
<1> DEFINE N == Len(q) - 1
           Bad == {k \in 0 .. N : ~IsMapping(d, Ancestor(q, k))}
<1>1. q \in Seq(STRING) /\ Len(q) \in Nat \ {0} /\ N \in Nat
  <2>1. q \in Seq(STRING) /\ q # <<>>
    BY PathsAssumption DEF IsDocument
  <2>. QED
    BY <2>1, EmptySeq
<1>2. SUFFICES ASSUME Bad # {} PROVE FALSE
  BY <1>1
<1>3. PICK m \in Bad : \A k \in Bad : k <= m
  <2>1. Bad \in SUBSET (0 .. N)
    OBVIOUS
  <2>2. Max(Bad) \in Bad /\ \A k \in Bad : k <= Max(Bad)
    <3> HIDE DEF Bad, N
    <3>. QED
      BY <1>1, <1>2, <2>1, Greatest
  <2>. QED
    BY <2>2
<1>4. m \in Nat /\ m <= N
  OBVIOUS
<1>5. CASE m = N
  <2>1. Ancestor(q, N) = Front(q)
    BY DEF Ancestor, Front
  <2>. QED
    BY <1>5, <2>1 DEF IsDocument
<1>6. CASE m < N
  <2>1. m + 1 \in 0 .. N /\ m + 1 \in 0 .. Len(q) /\ m + 1 # 0
    BY <1>1, <1>4, <1>6
  <2>2. m + 1 \notin Bad
    BY <1>3, <1>4
  <2>3. IsMapping(d, Ancestor(q, m + 1))
    BY <2>1, <2>2
  <2>4. Ancestor(q, m + 1) # <<>> /\ Front(Ancestor(q, m + 1)) = Ancestor(q, m)
    <3>1. (m + 1) - 1 = m
      BY <1>4
    <3>. QED
      BY <1>1, <2>1, <3>1, AncestorPath
  <2>5. Ancestor(q, m + 1) \in DOMAIN d
    BY <2>3, <2>4 DEF IsMapping
  <2>. QED
    BY <2>4, <2>5 DEF IsDocument
<1>. QED
  BY <1>1, <1>4, <1>5, <1>6

\* A path of the candidate whose parent is not merged has a first ancestor
\* that is not, under a parent that is.
LEMMA FirstOutside ==
  ASSUME NEW c, NEW b, IsDocument(c), NEW q \in DOMAIN c, Front(q) \notin Merged(c, b)
  PROVE  \E a \in DOMAIN c : /\ IsStrictPrefix(a, q)
                             /\ c[a] = "mapping"
                             /\ a \notin Merged(c, b)
                             /\ Front(a) \in Merged(c, b)
<1> DEFINE Out == {k \in Nat : k < Len(q) /\ Ancestor(q, k) \notin Merged(c, b)}
<1>1. q \in Seq(STRING) /\ Len(q) \in Nat \ {0}
  <2>1. q \in Seq(STRING) /\ q # <<>>
    BY PathsAssumption DEF IsDocument
  <2>. QED
    BY <2>1, EmptySeq
<1>2. Len(q) - 1 \in Out
  <2>1. Ancestor(q, Len(q) - 1) = Front(q)
    BY DEF Ancestor, Front
  <2>. QED
    BY <1>1, <2>1
<1>3. PICK m \in Out : \A k \in Out : m <= k
  <2>1. Out \in SUBSET Nat /\ Out # {}
    BY <1>2
  <2> HIDE DEF Out
  <2>. QED
    BY <2>1, Least
<1>4. m \in Nat /\ m < Len(q) /\ m \in 0 .. Len(q) /\ m \in 0 .. Len(q) - 1
  BY <1>1
<1>5. m # 0
  <2>1. <<>> \in Merged(c, b)
    BY DEF Merged, IsMapping
  <2>. QED
    BY <1>1, <1>4, <2>1, AncestorPath
<1>6. /\ Ancestor(q, m) # <<>> /\ IsStrictPrefix(Ancestor(q, m), q)
      /\ Front(Ancestor(q, m)) = Ancestor(q, m - 1)
  BY <1>1, <1>4, <1>5, AncestorPath
<1>7. IsMapping(c, Ancestor(q, m))
  BY <1>4, AncestorsAreMappings
<1>8. Ancestor(q, m - 1) \in Merged(c, b)
  <2>1. m - 1 \in Nat /\ m - 1 < Len(q) /\ ~(m <= m - 1)
    BY <1>1, <1>4, <1>5
  <2>2. m - 1 \notin Out
    BY <1>3, <2>1
  <2>. QED
    BY <2>1, <2>2
<1>. QED
  BY <1>6, <1>7, <1>8 DEF IsMapping

\* What an accepted merge yields, path by path.
LEMMA MergedValue ==
  ASSUME NEW c, NEW b, MergeAccepts(c, b), NEW p \in DOMAIN c
  PROVE  LET t == mergeSecretPlaceholders(c, b)
         IN  /\ DOMAIN t = DOMAIN c
             /\ p \notin sensitiveConfigPaths => t[p] = c[p]
             /\ Front(p) \notin Merged(c, b) => t[p] = c[p]
             /\ p \in sensitiveConfigPaths /\ Front(p) \in Merged(c, b) =>
                  p \in DOMAIN b /\ t[p] \in {b[p], ""}
<1>1. p \notin illegal(c, b)
  BY DEF MergeAccepts
<1>. QED
  BY <1>1 DEF illegal, mergeSecretPlaceholders

\* An accepted merge of two documents is a document.
LEMMA MergeIsDocument ==
  ASSUME NEW c, NEW b, IsDocument(c), IsDocument(b), MergeAccepts(c, b)
  PROVE  IsDocument(mergeSecretPlaceholders(c, b))
<1> DEFINE t == mergeSecretPlaceholders(c, b)
<1>1. DOMAIN t = DOMAIN c
  BY DEF mergeSecretPlaceholders
<1>2. ASSUME NEW p \in DOMAIN c
      PROVE  t[p] \in {"mapping", "null"} \union Scalars \union Placeholders
  <2>1. t[p] = c[p] \/ (p \in DOMAIN b /\ t[p] \in {b[p], ""})
    BY <1>2, MergedValue
  <2> HIDE DEF t
  <2>. QED
    BY <2>1, ScalarsAssumption DEF IsDocument
<1>3. ASSUME NEW p \in DOMAIN c PROVE IsMapping(t, Front(p))
  <2>1. IsMapping(c, Front(p)) /\ Front(p) \notin sensitiveConfigPaths
    BY <1>3, PathsAssumption DEF IsDocument
  <2>2. Front(p) \in DOMAIN c => t[Front(p)] = c[Front(p)]
    BY <2>1, MergedValue, ZenonT(60)
  <2>. QED
    BY <1>1, <2>1, <2>2 DEF IsMapping
<1>4. IsDocument(t)
  <2> HIDE DEF t
  <2>. QED
    BY <1>1, <1>2, <1>3 DEF IsDocument
<1>. QED
  BY <1>4

\* The text `config edit` shows merges back into the text it was made from
\* when nothing is changed in it.
THEOREM RoundTrip ==
  ASSUME NEW b, IsDocument(b), b = [p \in DOMAIN b |-> b[p]],
         \A p \in DOMAIN b : p \notin sensitiveConfigPaths => b[p] \notin Placeholders
  PROVE  /\ MergeAccepts(redactNode(b), b)
         /\ mergeSecretPlaceholders(redactNode(b), b) = b
<1> DEFINE c == redactNode(b)
<1>1. /\ DOMAIN c = DOMAIN b
      /\ \A p \in DOMAIN b : c[p] = IF p \in sensitiveConfigPaths THEN KEEP ELSE b[p]
  BY DEF redactNode
<1>2. \A p \in DOMAIN b : Front(p) \in Merged(c, b)
  BY <1>1 DEF Merged, IsDocument, IsMapping
<1>3. removed(c, b) = {}
  BY <1>1 DEF removed
<1>4. illegal(c, b) = {}
  BY <1>1 DEF illegal, Placeholders
<1>5. MergeAccepts(c, b)
  BY <1>3, <1>4 DEF MergeAccepts
<1>6. KEEP # CLEAR
  BY DEF KEEP, CLEAR
<1>7. \A p \in DOMAIN b : (IF p \in sensitiveConfigPaths /\ Front(p) \in Merged(c, b)
                             THEN IF c[p] = CLEAR THEN "" ELSE b[p]
                             ELSE c[p]) = b[p]
  BY <1>1, <1>2, <1>6
<1> HIDE DEF c
<1>8. mergeSecretPlaceholders(c, b) = [p \in DOMAIN b |-> b[p]]
  BY <1>1, <1>7 DEF mergeSecretPlaceholders
<1>. QED
  BY <1>5, <1>8 DEF c

\* A secret of the base keeps its value or is emptied, or its section is gone.
LEMMA MergeKeepsSecrets ==
  ASSUME NEW c, NEW b, IsDocument(c), IsDocument(b), MergeAccepts(c, b),
         NEW s \in sensitiveConfigPaths \intersect DOMAIN b
  PROVE  LET t == mergeSecretPlaceholders(c, b)
         IN  IF s \in DOMAIN t THEN t[s] \in {b[s], ""} ELSE Front(s) \notin DOMAIN t
<1>1. DOMAIN mergeSecretPlaceholders(c, b) = DOMAIN c
  BY DEF mergeSecretPlaceholders
<1>2. IsMapping(b, Front(s))
  BY DEF IsDocument
<1>3. CASE s \in DOMAIN c
  <2>1. Front(s) \in Merged(c, b)
    BY <1>2, <1>3 DEF Merged, IsDocument, IsMapping
  <2>. QED
    BY <1>1, <1>3, <2>1, MergedValue
<1>4. CASE s \notin DOMAIN c
  <2>1. Front(s) \notin Merged(c, b)
    BY <1>4 DEF MergeAccepts, removed
  <2>2. Front(s) \notin DOMAIN c
    BY <1>2, <2>1 DEF Merged, IsMapping
  <2>. QED
    BY <1>1, <1>4, <2>2
<1>. QED
  BY <1>3, <1>4

\* A placeholder or a new secret that an accepted merge lets through lies in a
\* mapping where the base has a node of another kind.
LEMMA MergeLetsNothingIn ==
  ASSUME NEW c, NEW b, IsDocument(c), MergeAccepts(c, b), NEW q \in DOMAIN c,
         LET t == mergeSecretPlaceholders(c, b)
         IN  \/ t[q] \in Placeholders /\ t[q] # Node(b, q)
             \/ q \in sensitiveConfigPaths /\ q \notin DOMAIN b
  PROVE  \E a \in DOMAIN b : IsStrictPrefix(a, q) /\ b[a] # "mapping"
<1> DEFINE t == mergeSecretPlaceholders(c, b)
<1>1. illegal(c, b) = {}
  BY DEF MergeAccepts
<1>2. Front(q) \notin Merged(c, b)
  <2> SUFFICES ASSUME Front(q) \in Merged(c, b) PROVE FALSE
    OBVIOUS
  <2>1. q \in sensitiveConfigPaths => q \in DOMAIN b /\ t[q] \in {Node(b, q), ""}
    BY MergedValue DEF Node
  <2>2. q \notin sensitiveConfigPaths => t[q] \notin Placeholders
    BY <1>1, MergedValue, ZenonT(60) DEF illegal
  <2>3. "" \notin Placeholders
    BY ScalarsAssumption
  <2>. QED
    BY <2>1, <2>2, <2>3
<1>3. t[q] = c[q]
  BY <1>2, MergedValue
<1>4. PICK a \in DOMAIN c : /\ IsStrictPrefix(a, q) /\ c[a] = "mapping"
                            /\ a \notin Merged(c, b) /\ Front(a) \in Merged(c, b)
  BY <1>2, FirstOutside
<1>5. CASE a \in DOMAIN b
  BY <1>4, <1>5 DEF Merged, IsMapping
<1>6. CASE a \notin DOMAIN b
  <2>1. rejectSecretPlaceholderMap(c, a)
    BY <1>3, <1>4 DEF rejectSecretPlaceholderMap
  <2>2. a \in illegal(c, b)
    BY <1>4, <1>6, <2>1 DEF illegal
  <2>. QED
    BY <1>1, <2>2
<1>. QED
  BY <1>5, <1>6

\* What a valid text merges into is valid, unless a secret it keeps is empty
\* or no scalar.
LEMMA MergeValidates ==
  ASSUME NEW c, NEW b, IsDocument(c), IsDocument(b), ValidateYAML(c), MergeAccepts(c, b)
  PROVE  LET t == mergeSecretPlaceholders(c, b)
         IN  \/ ValidateYAML(t)
             \/ \E s \in sensitiveConfigPaths \intersect DOMAIN t : t[s] \in {"", "null", "mapping"}
<1> DEFINE t == mergeSecretPlaceholders(c, b)
<1>1. DOMAIN t = DOMAIN c
  BY DEF mergeSecretPlaceholders
<1>2. SUFFICES ASSUME \A s \in sensitiveConfigPaths \intersect DOMAIN t :
                        t[s] \notin {"", "null", "mapping"}
               PROVE  ValidateYAML(t)
  OBVIOUS
<1>3. \A p \in DOMAIN c : p \notin sensitiveConfigPaths => t[p] = c[p]
  BY MergedValue, ZenonT(60)
<1>4. Driver \notin sensitiveConfigPaths /\ DSN \in sensitiveConfigPaths
  BY DEF Driver, DSN, sensitiveConfigPaths
<1> HIDE DEF t
<1>5. Sections \intersect sensitiveConfigPaths = {}
  BY PathsAssumption DEF Sections
<1>6. \A p \in DOMAIN t : IF p \in Sections THEN t[p] \in {"mapping", "null"} ELSE t[p] # "mapping"
  BY <1>1, <1>2, <1>3, <1>5 DEF ValidateYAML
<1>7. Node(t, Driver) = Node(c, Driver)
  BY <1>1, <1>3, <1>4 DEF Node
<1>8. Node(c, DSN) \notin {"null", ""} => Node(t, DSN) \notin {"null", ""}
  BY <1>1, <1>2, <1>4 DEF Node
<1>. QED
  BY <1>6, <1>7, <1>8 DEF ValidateYAML

\* A difference that is classified normal changes no secret, except with the
\* section that holds it.
LEMMA NormalSparesSecrets ==
  ASSUME NEW b, NEW a, Danger(b, a) = "normal", NEW s \in sensitiveConfigPaths,
         Node(b, s) # Node(a, s)
  PROVE  ~IsMapping(b, Front(s)) \/ ~IsMapping(a, Front(s))
<1> SUFFICES ASSUME IsMapping(b, Front(s)), IsMapping(a, Front(s)) PROVE FALSE
  OBVIOUS
<1>1. s \in diffValue(b, a)
  BY DEF diffValue, Node
<1>2. classifyChange(s) = "dangerous"
  BY DEF classifyChange
<1>. QED
  BY <1>1, <1>2 DEF Danger
=============================================================================
