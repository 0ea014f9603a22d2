------------------------- MODULE RiskEngine_proofs -------------------------
(***************************************************************************)
(* RiskEngine's safety for every rule set, every order of the search for   *)
(* cycles and any number of concurrent requests.                           *)
(***************************************************************************)
EXTENDS RiskEngine, SequenceTheorems, FiniteSetTheorems, TLAPS

\* A function on 1 .. n is a sequence.
LEMMA FunctionIsSeq ==
  ASSUME NEW S, NEW n \in Nat, NEW f \in [1 .. n -> S]
  PROVE  f \in Seq(S) /\ Len(f) = n /\ DOMAIN f = 1 .. n
<1>1. f \in Seq(S)
  <2>1. f \in UNION {[1 .. m -> S] : m \in Nat}
    OBVIOUS
  <2>. QED
    BY <2>1, SeqDef
<1>2. Len(f) \in Nat /\ DOMAIN f = 1 .. Len(f)
  BY <1>1, LenProperties
<1>. QED
  BY <1>1, <1>2

\* Front and Last of a sequence that is not empty.
LEMMA FrontLast ==
  ASSUME NEW S, NEW s \in Seq(S), s # <<>>
  PROVE  /\ Len(s) \in Nat \ {0} /\ DOMAIN s = 1 .. Len(s)
         /\ Last(s) = s[Len(s)] /\ Last(s) \in S
         /\ Front(s) \in Seq(S) /\ Len(Front(s)) = Len(s) - 1
         /\ DOMAIN Front(s) = 1 .. Len(s) - 1
         /\ \A i \in 1 .. Len(s) - 1 : Front(s)[i] = s[i]
<1>1. Len(s) \in Nat \ {0} /\ DOMAIN s = 1 .. Len(s)
  BY EmptySeq, LenProperties
<1>2. Last(s) = s[Len(s)] /\ Last(s) \in S
  BY <1>1 DEF Last
<1> DEFINE k == Len(s) - 1
<1>3. k \in Nat /\ \A i \in 1 .. k : s[i] \in S
  BY <1>1
<1>4. Front(s) = SubSeq(s, 1, k)
  BY DEF Front
<1>5. /\ SubSeq(s, 1, k) \in Seq(S)
      /\ Len(SubSeq(s, 1, k)) = IF 1 <= k THEN k - 1 + 1 ELSE 0
      /\ \A i \in 1 .. k - 1 + 1 : SubSeq(s, 1, k)[i] = s[1 + i - 1]
  <2> HIDE DEF k
  <2>. QED
    BY <1>3, SubSeqProperties, 1 \in Int, k \in Int
<1>6. DOMAIN SubSeq(s, 1, k) = 1 .. Len(SubSeq(s, 1, k))
  BY <1>5, LenProperties
<1>. QED
  BY <1>1, <1>2, <1>3, <1>4, <1>5, <1>6

(***************************************************************************)
(* detectCycles.  The colours mean: gray chains are those on the path, and *)
(* what a black chain can reach is black and has no cycle.                 *)
(***************************************************************************)
Known == DOMAIN Jumps

Visit == [chain : Known, at : Nat \ {0}]

SearchType ==
  /\ color \in [Names -> {"white", "gray", "black"}]
  /\ path \in Seq(Visit)
  /\ todo \subseteq Known
  /\ problems \in BOOLEAN

\* The chains on path p are the gray ones, each there once.
GrayOn(p, col) ==
  /\ \A n \in Names : col[n] = "gray" <=> \E i \in DOMAIN p : p[i].chain = n
  /\ \A i, j \in DOMAIN p : p[i].chain = p[j].chain => i = j

\* A visit was begun by the rule its caller last looked at.
Linked(p) ==
  \A i \in DOMAIN p : i + 1 \in DOMAIN p =>
    /\ p[i].at - 1 \in DOMAIN Jumps[p[i].chain]
    /\ Jumps[p[i].chain][p[i].at - 1] = p[i + 1].chain

\* Rules before the current one led to black chains, or to the next visit.
Searched(p, col) ==
  \A i \in DOMAIN p : \A j \in DOMAIN Jumps[p[i].chain] :
    j < p[i].at =>
      \/ Jumps[p[i].chain][j] = ""
      \/ col[Jumps[p[i].chain][j]] = "black"
      \/ i + 1 \in DOMAIN p /\ j = p[i].at - 1

BlackClosed(col) ==
  \A n \in Known : col[n] = "black" =>
    \A j \in DOMAIN Jumps[n] : Jumps[n][j] = "" \/ col[Jumps[n][j]] = "black"

\* Each chain of S jumps into S.
Circular(S) == S # {} /\ \A n \in S : \E j \in DOMAIN Jumps[n] : Jumps[n][j] \in S

BlackAcyclic(col) ==
  \A S \in SUBSET Known : (\A n \in S : col[n] = "black") => ~Circular(S)

Covered == \A n \in Known \ todo : color[n] # "white"

Clean ==
  /\ GrayOn(path, color) /\ Linked(path) /\ Searched(path, color)
  /\ BlackClosed(color) /\ BlackAcyclic(color) /\ Covered

SearchInv ==
  /\ SearchType
  /\ problems => Cycles!Cyclic
  /\ ~problems => Clean

\* What the rule sets look like.
ChainsOK == chains \in ChainMaps

LEMMA JumpsType ==
  ASSUME ChainsOK
  PROVE  /\ Known = DOMAIN chains /\ Known \subseteq Names
         /\ \A n \in Known :
              /\ chains[n].rules \in Seq(Rule)
              /\ chains[n].policy \in Policy
              /\ Jumps[n] \in Seq(Names \union {""})
              /\ DOMAIN Jumps[n] = 1 .. Len(chains[n].rules)
              /\ DOMAIN Jumps[n] = 1 .. Len(Jumps[n])
              /\ \A i \in DOMAIN Jumps[n] : i \in Nat \ {0} /\ Jumps[n][i] \in Names \union {""}
              /\ \A i \in DOMAIN Jumps[n] :
                   Jumps[n][i] = IF isJump(chains[n].rules[i]) THEN chains[n].rules[i].chain ELSE ""
<1>1. Known = DOMAIN chains /\ Known \subseteq Names
  BY RuleSetAssumption DEF ChainsOK, Known, Jumps
<1>2. ASSUME NEW n \in Known
      PROVE  chains[n].rules \in Seq(Rule) /\ chains[n].policy \in Policy
  BY <1>1, <1>2, RuleSetAssumption DEF ChainsOK
<1>3. ASSUME NEW n \in Known
      PROVE  /\ Jumps[n] \in Seq(Names \union {""})
             /\ DOMAIN Jumps[n] = 1 .. Len(chains[n].rules)
             /\ DOMAIN Jumps[n] = 1 .. Len(Jumps[n])
             /\ \A i \in DOMAIN Jumps[n] : i \in Nat \ {0} /\ Jumps[n][i] \in Names \union {""}
             /\ \A i \in DOMAIN Jumps[n] :
                  Jumps[n][i] = IF isJump(chains[n].rules[i]) THEN chains[n].rules[i].chain ELSE ""
  <2> DEFINE rs == chains[n].rules
             J == [i \in 1 .. Len(rs) |-> IF isJump(rs[i]) THEN rs[i].chain ELSE ""]
  <2>1. rs \in Seq(Rule) /\ Len(rs) \in Nat /\ DOMAIN rs = 1 .. Len(rs)
    BY <1>2
  <2>2. \A i \in 1 .. Len(rs) : rs[i].chain \in Names \union {""}
    <3>1. \A i \in 1 .. Len(rs) : rs[i] \in Rule
      BY <2>1
    <3>2. \A x \in Rule : x.chain \in Names \union {""}
      BY DEF Rule
    <3> HIDE DEF rs
    <3>. QED
      BY <3>1, <3>2
  <2>3. Jumps[n] = J
    BY <1>1, <2>1 DEF Jumps
  <2>4. J \in [1 .. Len(rs) -> Names \union {""}]
    BY <2>2
  <2>5. J \in Seq(Names \union {""}) /\ Len(J) = Len(rs)
    <3> HIDE DEF rs, J
    <3>. QED
      BY <2>1, <2>4, FunctionIsSeq
  <2>6. DOMAIN Jumps[n] = 1 .. Len(rs) /\ Len(Jumps[n]) = Len(rs) /\ Jumps[n] \in Seq(Names \union {""})
    BY <2>3, <2>5
  <2>7. \A i \in 1 .. Len(rs) : Jumps[n][i] = IF isJump(rs[i]) THEN rs[i].chain ELSE ""
    BY <2>3
  <2>8. \A i \in 1 .. Len(rs) : i \in Nat \ {0} /\ Jumps[n][i] \in Names \union {""}
    <3>1. \A i \in 1 .. Len(rs) : i \in Nat \ {0}
      BY <2>1
    <3>2. \A i \in 1 .. Len(rs) : Jumps[n][i] \in Names \union {""}
      BY <2>2, <2>7 DEF isJump
    <3>. QED
      BY <3>1, <3>2
  <2>. QED
    BY <2>6, <2>7, <2>8
<1>. QED
  BY <1>1, <1>2, <1>3

\* Cyclic, in the terms used here.
LEMMA CyclicMeans == Cycles!Cyclic <=> \E S \in SUBSET Known : Circular(S)
BY ZenonT(60) DEF Cycles!Cyclic, Cycles!Known, Known, Circular

\* The effect of advancing the last visit.
LEMMA Advanced ==
  ASSUME SearchType, path # <<>>
  PROVE  LET k == Len(path)
             p == Cycles!Advance(Last(path))
         IN  /\ k \in Nat \ {0} /\ Last(path) = path[k] /\ path[k] \in Visit
             /\ DOMAIN path = 1 .. k
             /\ p \in Seq(Visit) /\ Len(p) = k /\ DOMAIN p = 1 .. k
             /\ \A i \in 1 .. k - 1 : p[i] = path[i]
             /\ p[k].chain = path[k].chain /\ p[k].at = path[k].at + 1
<1> DEFINE k == Len(path)
           v == [path[k] EXCEPT !.at = @ + 1]
           f == Front(path)
<1>0. path \in Seq(Visit)
  BY DEF SearchType
<1>1. /\ k \in Nat \ {0} /\ DOMAIN path = 1 .. k
      /\ Last(path) = path[k] /\ path[k] \in Visit
  BY <1>0, FrontLast
<1>2. v \in Visit /\ v.chain = path[k].chain /\ v.at = path[k].at + 1
  BY <1>1 DEF Visit
<1>3. /\ f \in Seq(Visit) /\ Len(f) = k - 1
      /\ \A i \in 1 .. k - 1 : f[i] = path[i]
  BY <1>0, FrontLast
<1>4. Cycles!Advance(Last(path)) = Append(f, v)
  BY <1>1 DEF Cycles!Advance, Cycles!Front, Front
<1> HIDE DEF f, v, k
<1>5. Append(f, v) \in Seq(Visit) /\ Len(Append(f, v)) = k
  BY <1>1, <1>2, <1>3, AppendProperties
<1>6. \A i \in 1 .. k - 1 : Append(f, v)[i] = path[i]
  BY <1>1, <1>2, <1>3, AppendProperties
<1>7. Append(f, v)[k] = v
  BY <1>1, <1>2, <1>3, AppendProperties
<1>8. DOMAIN Append(f, v) = 1 .. k
  BY <1>5, LenProperties
<1>. QED
  BY <1>1, <1>2, <1>4, <1>5, <1>6, <1>7, <1>8 DEF k

\* The chains of a path exist, and so do those their rules jump to.
LEMMA PathType ==
  ASSUME ChainsOK, NEW p \in Seq(Visit)
  PROVE  /\ Len(p) \in Nat /\ DOMAIN p = 1 .. Len(p)
         /\ \A i \in DOMAIN p :
              /\ p[i].chain \in Known /\ p[i].at \in Nat \ {0}
              /\ \A j \in DOMAIN Jumps[p[i].chain] :
                   j \in Nat \ {0} /\ Jumps[p[i].chain][j] \in Names \union {""}
<1>1. Len(p) \in Nat /\ DOMAIN p = 1 .. Len(p)
  BY LenProperties
<1>2. \A i \in DOMAIN p : p[i] \in Visit
  BY <1>1
<1>3. \A v \in Visit : v.chain \in Known /\ v.at \in Nat \ {0}
  BY DEF Visit
<1>4. \A n \in Known : \A j \in DOMAIN Jumps[n] : j \in Nat \ {0} /\ Jumps[n][j] \in Names \union {""}
  BY JumpsType
<1>. QED
  BY <1>1, <1>2, <1>3, <1>4

\* Before visit(n, above): all is in order but for the rule that calls it.
Calling(n, above) ==
  /\ above \in Seq(Visit)
  /\ GrayOn(above, color) /\ Linked(above)
  /\ above # <<>> => LET top == above[Len(above)]
                     IN  top.at - 1 \in DOMAIN Jumps[top.chain] /\ Jumps[top.chain][top.at - 1] = n
  /\ \A i \in DOMAIN above : \A j \in DOMAIN Jumps[above[i].chain] :
       j < above[i].at =>
         \/ Jumps[above[i].chain][j] = ""
         \/ color[Jumps[above[i].chain][j]] = "black"
         \/ i + 1 \in DOMAIN above /\ j = above[i].at - 1
         \/ i = Len(above) /\ j = above[i].at - 1

\* A JUMP to a chain on the path closes a circle.
LEMMA GrayIsCircle ==
  ASSUME ChainsOK, SearchType, NEW n \in Names, NEW above, Calling(n, above), color[n] = "gray"
  PROVE  Cycles!Cyclic
<1>1. PICK k \in DOMAIN above : above[k].chain = n
  BY DEF Calling, GrayOn
<1> DEFINE m == Len(above)
           S == {above[i].chain : i \in k .. m}
<1>2. above \in Seq(Visit) /\ m \in Nat /\ DOMAIN above = 1 .. m /\ k \in 1 .. m
  BY <1>1, LenProperties DEF Calling
<1>3. above # <<>>
  BY <1>2
<1>4. \A i \in 1 .. m : above[i].chain \in Known
  <2>1. \A i \in 1 .. m : above[i] \in Visit
    BY <1>2
  <2>2. \A v \in Visit : v.chain \in Known
    BY DEF Visit
  <2>. QED
    BY <2>1, <2>2
<1>5. S \in SUBSET Known /\ n \in S
  BY <1>1, <1>2, <1>4
<1>6. ASSUME NEW i \in k .. m PROVE \E j \in DOMAIN Jumps[above[i].chain] : Jumps[above[i].chain][j] \in S
  <2>1. CASE i = m
    BY <2>1, <1>3, <1>5 DEF Calling
  <2>2. CASE i < m
    <3>1. i \in DOMAIN above /\ i + 1 \in DOMAIN above /\ i + 1 \in k .. m
      BY <1>2, <2>2
    <3>. QED
      BY <3>1 DEF Calling, Linked
  <2>3. m \in Int /\ i \in Int /\ i <= m
    BY <1>2
  <2> HIDE DEF m
  <2>. QED
    BY <2>1, <2>2, <2>3
<1>7. Circular(S)
  BY <1>5, <1>6 DEF Circular
<1>. QED
  BY <1>5, <1>7, CyclicMeans

\* What a visit leaves of the search, but for the chains not yet begun.
Visited ==
  /\ SearchType'
  /\ problems' => Cycles!Cyclic
  /\ ~problems' =>
       /\ GrayOn(path', color') /\ Linked(path') /\ Searched(path', color')
       /\ BlackClosed(color') /\ BlackAcyclic(color')
       /\ \A n \in Names : color[n] # "white" => color'[n] # "white"

\* The rule sets do not change during the search.
LEMMA SameJumps == ASSUME chains' = chains PROVE Jumps' = Jumps /\ Known' = Known /\ Visit' = Visit
BY DEF Jumps, Known, Visit

\* visit keeps the meaning of the colours.
LEMMA VisitInv ==
  ASSUME ChainsOK, SearchInv, ~problems, chains' = chains, todo' \subseteq todo,
         NEW n \in Names, NEW above, Calling(n, above), Cycles!visit(n, above)
  PROVE  Visited /\ (~problems' => color'[n] # "white")
<1>1. Jumps' = Jumps /\ Known' = Known /\ Visit' = Visit
  BY SameJumps
<1>2. SearchType /\ BlackClosed(color) /\ BlackAcyclic(color) /\ Known \subseteq Names
  BY JumpsType DEF SearchInv, Clean
<1>3. above \in Seq(Visit) /\ Len(above) \in Nat /\ DOMAIN above = 1 .. Len(above)
  BY LenProperties DEF Calling
<1>10. \A i \in DOMAIN above : above # <<>>
  BY <1>3, EmptySeq
<1>4. todo' \subseteq Known'
  BY <1>1, <1>2 DEF SearchType
<1>5. color[n] \in {"white", "gray", "black"}
  BY <1>2 DEF SearchType
<1>6. CASE color[n] = "gray"
  <2>1. problems' = TRUE /\ path' = <<>> /\ color' = color
    BY <1>6 DEF Cycles!visit
  <2>2. SearchType'
    BY <1>1, <1>2, <1>4, <2>1 DEF SearchType
  <2>3. Cycles!Cyclic
    BY <1>2, <1>6, GrayIsCircle
  <2>. QED
    BY <2>1, <2>2, <2>3 DEF Visited
<1>7. CASE color[n] = "black"
  <2>1. problems' = problems /\ path' = above /\ color' = color
    BY <1>7 DEF Cycles!visit
  <2>2. SearchType'
    BY <1>1, <1>2, <1>3, <1>4, <2>1 DEF SearchType
  <2>3. Searched(above, color)
    <3> SUFFICES ASSUME NEW i \in DOMAIN above, NEW j \in DOMAIN Jumps[above[i].chain],
                        j < above[i].at, Jumps[above[i].chain][j] # "",
                        ~(i + 1 \in DOMAIN above /\ j = above[i].at - 1)
                 PROVE  color[Jumps[above[i].chain][j]] = "black"
      BY DEF Searched
    <3>1. CASE i = Len(above) /\ j = above[i].at - 1
      <4>1. above # <<>>
        BY <1>10
      <4>. QED
        BY <1>7, <3>1, <4>1 DEF Calling
    <3>. QED
      BY <3>1 DEF Calling
  <2>. QED
    BY <1>2, <1>7, <2>1, <2>2, <2>3 DEF Visited, Calling
<1>8. CASE color[n] = "white" /\ n \in Known
  <2> DEFINE v == [chain |-> n, at |-> 1]
             p == Append(above, v)
             col == [color EXCEPT ![n] = "gray"]
  <2>1. problems' = problems /\ path' = p /\ color' = col
    BY <1>8 DEF Cycles!visit, Cycles!Known, Known
  <2>2. v \in Visit
    BY <1>8 DEF Visit
  <2>3. /\ p \in Seq(Visit) /\ Len(p) = Len(above) + 1 /\ DOMAIN p = 1 .. Len(above) + 1
        /\ \A i \in 1 .. Len(above) : p[i] = above[i]
        /\ p[Len(above) + 1] = v
    <3> HIDE DEF v
    <3>1. /\ p \in Seq(Visit) /\ Len(p) = Len(above) + 1
          /\ \A i \in 1 .. Len(above) : p[i] = above[i]
          /\ p[Len(above) + 1] = v
      BY <1>3, <2>2, AppendProperties
    <3> HIDE DEF p
    <3>. QED
      BY <3>1, LenProperties
  <2>4. \A m \in Names : col[m] = IF m = n THEN "gray" ELSE color[m]
    BY <1>2 DEF SearchType
  <2>5. SearchType'
    BY <1>1, <1>2, <1>4, <2>1, <2>3 DEF SearchType
  <2>6. v.chain = n /\ v.at = 1
    OBVIOUS
  <2> HIDE DEF v, p, col
  <2>7. GrayOn(p, col)
    <3>0. \A i, j \in DOMAIN p : p[i].chain = p[j].chain => i = j
      <4>1. \A i \in DOMAIN above : above[i].chain # n
        BY <1>8 DEF Calling, GrayOn
      <4>2. \A i, j \in DOMAIN above : above[i].chain = above[j].chain => i = j
        BY DEF Calling, GrayOn
      <4>. QED
        BY <1>3, <2>3, <2>6, <4>1, <4>2
    <3> SUFFICES ASSUME NEW m \in Names
                 PROVE  col[m] = "gray" <=> \E i \in DOMAIN p : p[i].chain = m
      BY <3>0 DEF GrayOn
    <3>1. color[m] = "gray" <=> \E i \in DOMAIN above : above[i].chain = m
      BY DEF Calling, GrayOn
    <3>2. Len(above) + 1 \in DOMAIN p /\ p[Len(above) + 1].chain = n
      BY <1>3, <2>3, <2>6
    <3>3. CASE m = n
      BY <2>4, <3>2, <3>3
    <3>4. CASE m # n
      <4>1. col[m] = color[m]
        BY <2>4, <3>4
      <4>2. \A i \in DOMAIN above : i \in DOMAIN p /\ p[i].chain = above[i].chain
        BY <1>3, <2>3
      <4>3. \A i \in DOMAIN p : p[i].chain = m => i \in DOMAIN above
        BY <1>3, <2>3, <3>2, <3>4
      <4>. QED
        BY <3>1, <4>1, <4>2, <4>3
    <3>. QED
      BY <3>3, <3>4
  <2>8. Linked(p)
    <3> SUFFICES ASSUME NEW i \in DOMAIN p, i + 1 \in DOMAIN p
                 PROVE  /\ p[i].at - 1 \in DOMAIN Jumps[p[i].chain]
                        /\ Jumps[p[i].chain][p[i].at - 1] = p[i + 1].chain
      BY DEF Linked
    <3>1. i \in 1 .. Len(above) /\ p[i] = above[i] /\ i \in DOMAIN above
      BY <1>3, <2>3
    <3>2. CASE i = Len(above)
      <4>1. above # <<>>
        BY <1>3, <3>1
      <4>. QED
        BY <2>3, <2>6, <3>1, <3>2, <4>1 DEF Calling
    <3>3. CASE i # Len(above)
      <4>1. i + 1 \in 1 .. Len(above) /\ p[i + 1] = above[i + 1] /\ i + 1 \in DOMAIN above
        BY <1>3, <2>3, <3>1, <3>3
      <4>. QED
        BY <3>1, <4>1 DEF Calling, Linked
    <3>. QED
      BY <3>2, <3>3
  <2>9. \A m \in Names : color[m] = "black" <=> col[m] = "black"
    BY <1>8, <2>4
  <2>12. \A i \in DOMAIN p : \A j \in DOMAIN Jumps[p[i].chain] :
           j \in Nat \ {0} /\ Jumps[p[i].chain][j] \in Names \union {""}
    BY <2>3, PathType
  <2>13. \A i \in DOMAIN p : (i \in DOMAIN above /\ p[i] = above[i] /\ i + 1 \in DOMAIN p) \/ p[i].at = 1
    BY <1>3, <2>3, <2>6
  <2>14. ASSUME NEW i \in DOMAIN p, NEW j \in Nat \ {0}, j < p[i].at
         PROVE  i \in DOMAIN above /\ p[i] = above[i] /\ i + 1 \in DOMAIN p
    BY <2>13, <2>14
  <2>10. Searched(p, col)
    <3> SUFFICES ASSUME NEW i \in DOMAIN p, NEW j \in DOMAIN Jumps[p[i].chain], j < p[i].at,
                        Jumps[p[i].chain][j] # "", ~(i + 1 \in DOMAIN p /\ j = p[i].at - 1)
                 PROVE  col[Jumps[p[i].chain][j]] = "black"
      BY DEF Searched
    <3>1. j \in Nat \ {0} /\ Jumps[p[i].chain][j] \in Names
      BY <2>12
    <3>2. i \in DOMAIN above /\ p[i] = above[i] /\ i + 1 \in DOMAIN p
      BY <2>14, <3>1
    <3>3. color[Jumps[above[i].chain][j]] = "black"
      <4>1. j \in DOMAIN Jumps[above[i].chain] /\ j < above[i].at /\ Jumps[above[i].chain][j] # ""
        BY <3>2
      <4>2. j # above[i].at - 1
        BY <3>2
      <4>. QED
        BY <3>2, <4>1, <4>2 DEF Calling
    <3>. QED
      BY <3>1, <3>2, <3>3, <2>9
  <2>11. BlackClosed(col) /\ BlackAcyclic(col)
    <3>1. \A m \in Known : \A j \in DOMAIN Jumps[m] : Jumps[m][j] \in Names \union {""}
      BY JumpsType
    <3>2. BlackClosed(col)
      BY <1>2, <2>9, <3>1 DEF BlackClosed
    <3>3. BlackAcyclic(col)
      BY <1>2, <2>9 DEF BlackAcyclic
    <3>. QED
      BY <3>2, <3>3
  <2>. QED
    BY <2>1, <2>4, <2>5, <2>7, <2>8, <2>10, <2>11 DEF Visited
<1>9. CASE color[n] = "white" /\ n \notin Known
  <2> DEFINE col == [color EXCEPT ![n] = "black"]
  <2>1. problems' = problems /\ path' = above /\ color' = col
    BY <1>9 DEF Cycles!visit, Cycles!Known, Known
  <2>2. \A m \in Names : col[m] = IF m = n THEN "black" ELSE color[m]
    BY <1>2 DEF SearchType
  <2>3. SearchType'
    BY <1>1, <1>2, <1>3, <1>4, <2>1 DEF SearchType
  <2> HIDE DEF col
  <2>4. \A i \in DOMAIN above : above[i].chain \in Known
    <3>1. \A i \in DOMAIN above : above[i] \in Visit
      BY <1>3
    <3>. QED
      BY <3>1 DEF Visit
  <2>5. GrayOn(above, col)
    <3> SUFFICES ASSUME NEW m \in Names
                 PROVE  col[m] = "gray" <=> \E i \in DOMAIN above : above[i].chain = m
      BY DEF GrayOn, Calling
    <3>1. color[m] = "gray" <=> \E i \in DOMAIN above : above[i].chain = m
      BY DEF Calling, GrayOn
    <3>. QED
      <4>1. CASE m = n
        BY <1>9, <2>2, <2>4, <4>1
      <4>2. CASE m # n
        BY <2>2, <3>1, <4>2
      <4>. QED
        BY <4>1, <4>2
  <2>6. \A m \in Known : \A j \in DOMAIN Jumps[m] : Jumps[m][j] \in Names \union {""}
    BY JumpsType
  <2>7. \A m \in Names : color[m] = "black" => col[m] = "black"
    BY <2>2
  <2>8. Searched(above, col)
    <3> SUFFICES ASSUME NEW i \in DOMAIN above, NEW j \in DOMAIN Jumps[above[i].chain],
                        j < above[i].at, Jumps[above[i].chain][j] # "",
                        ~(i + 1 \in DOMAIN above /\ j = above[i].at - 1)
                 PROVE  col[Jumps[above[i].chain][j]] = "black"
      BY DEF Searched
    <3>1. Jumps[above[i].chain][j] \in Names
      BY <2>4, <2>6
    <3>2. CASE color[Jumps[above[i].chain][j]] = "black"
      BY <2>7, <3>1, <3>2
    <3>3. CASE i = Len(above) /\ j = above[i].at - 1
      <4>1. above # <<>>
        BY <1>10
      <4>. QED
        BY <2>2, <3>3, <4>1 DEF Calling
    <3>4. \/ color[Jumps[above[i].chain][j]] = "black"
          \/ i = Len(above) /\ j = above[i].at - 1
      BY DEF Calling
    <3>. QED
      BY <3>2, <3>3, <3>4
  <2>9. BlackClosed(col)
    <3> SUFFICES ASSUME NEW m \in Known, col[m] = "black", NEW j \in DOMAIN Jumps[m],
                        Jumps[m][j] # ""
                 PROVE  col[Jumps[m][j]] = "black"
      BY DEF BlackClosed
    <3>1. color[m] = "black" /\ Jumps[m][j] \in Names
      BY <1>2, <1>9, <2>2, <2>6
    <3>. QED
      BY <1>2, <2>7, <3>1 DEF BlackClosed
  <2>10. BlackAcyclic(col)
    BY <1>2, <1>9, <2>2 DEF BlackAcyclic
  <2>. QED
    BY <2>1, <2>2, <2>3, <2>5, <2>8, <2>9, <2>10 DEF Visited, Calling
<1>. QED
  BY <1>5, <1>6, <1>7, <1>8, <1>9

\* A chain whose rules are all searched becomes black: what it reaches has no
\* cycle, because black chains do not lead back to it.
LEMMA BlackenKeeps ==
  ASSUME ChainsOK, SearchType, BlackClosed(color), BlackAcyclic(color),
         NEW t \in Known, color[t] = "gray",
         \A j \in DOMAIN Jumps[t] : Jumps[t][j] = "" \/ color[Jumps[t][j]] = "black"
  PROVE  LET col == [color EXCEPT ![t] = "black"] IN BlackClosed(col) /\ BlackAcyclic(col)
<1> DEFINE col == [color EXCEPT ![t] = "black"]
<1>1. Known \subseteq Names /\ "" \notin Names
  BY JumpsType, RuleSetAssumption
<1>2. \A m \in Names : col[m] = IF m = t THEN "black" ELSE color[m]
  BY DEF SearchType
<1>3. \A m \in Known : \A j \in DOMAIN Jumps[m] : Jumps[m][j] \in Names \union {""}
  BY JumpsType
<1> HIDE DEF col
<1>4. BlackClosed(col)
  <2> SUFFICES ASSUME NEW m \in Known, col[m] = "black", NEW j \in DOMAIN Jumps[m], Jumps[m][j] # ""
               PROVE  col[Jumps[m][j]] = "black"
    BY DEF BlackClosed
  <2>1. Jumps[m][j] \in Names
    BY <1>3
  <2>2. color[Jumps[m][j]] = "black"
    <3>1. CASE m = t
      BY <3>1
    <3>2. CASE m # t
      BY <1>1, <1>2, <3>2 DEF BlackClosed
    <3>. QED
      BY <3>1, <3>2
  <2>. QED
    BY <1>2, <2>1, <2>2
<1>5. BlackAcyclic(col)
  <2> SUFFICES ASSUME NEW S \in SUBSET Known, \A n \in S : col[n] = "black", Circular(S)
               PROVE  FALSE
    BY DEF BlackAcyclic
  <2> DEFINE T == S \ {t}
  <2>1. \A n \in T : color[n] = "black"
    BY <1>1, <1>2
  <2>2. ASSUME NEW n \in S PROVE \E j \in DOMAIN Jumps[n] : Jumps[n][j] \in T
    <3>1. PICK j \in DOMAIN Jumps[n] : Jumps[n][j] \in S
      BY DEF Circular
    <3>2. Jumps[n][j] # ""
      BY <1>1, <3>1
    <3>3. color[Jumps[n][j]] = "black"
      <4>1. CASE n = t
        BY <3>2, <4>1
      <4>2. CASE n # t
        BY <2>1, <3>2, <4>2 DEF BlackClosed
      <4>. QED
        BY <4>1, <4>2
    <3>. QED
      BY <3>1, <3>3
  <2>3. Circular(T)
    BY <2>2 DEF Circular
  <2>. QED
    BY <2>1, <2>3 DEF BlackAcyclic
<1>. QED
  BY <1>4, <1>5 DEF col

\* The search starts with all chains white.
LEMMA SearchInit == ASSUME ChainsOK, Cycles!Start PROVE SearchInv
<1>1. color = [n \in Names |-> "white"] /\ path = <<>> /\ todo = Known /\ problems = FALSE
  BY DEF Cycles!Start, Cycles!Known, Known
<1>2. SearchType
  <2>1. problems \in BOOLEAN
    BY <1>1
  <2>2. path \in Seq(Visit)
    BY <1>1, EmptySeq
  <2>. QED
    BY <1>1, <2>1, <2>2 DEF SearchType
<1>3. Known \subseteq Names
  BY JumpsType
<1>4. GrayOn(path, color) /\ Linked(path) /\ Searched(path, color) /\ Covered
  BY <1>1 DEF GrayOn, Linked, Searched, Covered
<1>5. BlackClosed(color) /\ BlackAcyclic(color)
  BY <1>1, <1>3 DEF BlackClosed, BlackAcyclic, Circular
<1>. QED
  BY <1>1, <1>2, <1>4, <1>5 DEF SearchInv, Clean

\* The next rule of the last visit.
LEMMA NextHop ==
  ASSUME ChainsOK, SearchType, path # <<>>
  PROVE  LET top == Last(path)
             k == Len(path)
         IN  /\ top.chain \in Known /\ top.at \in Nat \ {0}
             /\ Len(Jumps[top.chain]) \in Nat
             /\ DOMAIN Jumps[top.chain] = 1 .. Len(Jumps[top.chain])
             /\ Cycles!Last(path) = top
             /\ top.at <= Len(Jumps[top.chain]) /\ Jumps[top.chain][top.at] # "" =>
                  Jumps[top.chain][top.at] \in Names
<1>1. Last(path) \in Visit
  BY Advanced
<1>2. Last(path).chain \in Known /\ Last(path).at \in Nat \ {0}
  BY <1>1 DEF Visit
<1> DEFINE J == Jumps[Last(path).chain]
<1>3. J \in Seq(Names \union {""}) /\ DOMAIN J = 1 .. Len(J) /\ \A i \in DOMAIN J : J[i] \in Names \union {""}
  BY <1>2, JumpsType
<1>4. Len(J) \in Nat
  BY <1>3, LenProperties
<1>5. Cycles!Last(path) = Last(path)
  BY DEF Cycles!Last, Last
<1> HIDE DEF J
<1>6. Last(path).at <= Len(J) => Last(path).at \in DOMAIN J
  <2> DEFINE a == Last(path).at
             l == Len(J)
  <2>1. a \in Nat \ {0} /\ l \in Nat /\ DOMAIN J = 1 .. l
    BY <1>2, <1>3, <1>4
  <2> HIDE DEF a, l
  <2>2. a <= l => a \in DOMAIN J
    BY <2>1
  <2>. QED
    BY <2>2 DEF a, l
<1>. QED
  BY <1>2, <1>3, <1>4, <1>5, <1>6 DEF J

\* visit keeps the types.
LEMMA VisitType ==
  ASSUME ChainsOK, SearchType, chains' = chains, todo' \subseteq todo,
         NEW n \in Names, NEW above \in Seq(Visit), Cycles!visit(n, above)
  PROVE  SearchType' /\ (problems => problems')
<1>1. Jumps' = Jumps /\ Known' = Known /\ Visit' = Visit
  BY SameJumps
<1>2. todo' \subseteq Known' /\ problems \in BOOLEAN /\ color[n] \in {"white", "gray", "black"}
  BY <1>1 DEF SearchType
<1>3. CASE color[n] = "gray"
  <2>1. problems' = TRUE /\ path' = <<>> /\ color' = color
    BY <1>3 DEF Cycles!visit
  <2>2. problems' \in BOOLEAN /\ path' \in Seq(Visit')
    BY <2>1, EmptySeq
  <2>. QED
    BY <1>2, <2>1, <2>2 DEF SearchType
<1>4. CASE color[n] = "black"
  <2>1. problems' = problems /\ path' = above /\ color' = color
    BY <1>4 DEF Cycles!visit
  <2>. QED
    BY <1>1, <1>2, <2>1 DEF SearchType
<1>5. CASE color[n] = "white" /\ n \in Known
  <2>1. /\ problems' = problems /\ path' = Append(above, [chain |-> n, at |-> 1])
        /\ color' = [color EXCEPT ![n] = "gray"]
    BY <1>5 DEF Cycles!visit, Cycles!Known, Known
  <2>2. [chain |-> n, at |-> 1] \in Visit
    BY <1>5 DEF Visit
  <2>3. path' \in Seq(Visit')
    BY <1>1, <2>1, <2>2, AppendProperties
  <2>4. color' \in [Names -> {"white", "gray", "black"}]
    BY <2>1 DEF SearchType
  <2>. QED
    BY <1>2, <2>1, <2>3, <2>4 DEF SearchType
<1>6. CASE color[n] = "white" /\ n \notin Known
  <2>1. /\ problems' = problems /\ path' = above
        /\ color' = [color EXCEPT ![n] = "black"]
    BY <1>6 DEF Cycles!visit, Cycles!Known, Known
  <2>2. color' \in [Names -> {"white", "gray", "black"}]
    BY <2>1 DEF SearchType
  <2>. QED
    BY <1>1, <1>2, <2>1, <2>2 DEF SearchType
<1>. QED
  BY <1>2, <1>3, <1>4, <1>5, <1>6

\* Every step of the search keeps the types, and no cycle is taken back.
LEMMA SearchTypeStep ==
  ASSUME ChainsOK, SearchType, chains' = chains, Cycles!Step
  PROVE  SearchType' /\ (problems => problems')
<1>1. Jumps' = Jumps /\ Known' = Known /\ Visit' = Visit
  BY SameJumps
<1>2. problems \in BOOLEAN /\ path \in Seq(Visit) /\ Known \subseteq Names
  BY JumpsType DEF SearchType
<1>3. ASSUME NEW n \in todo, Cycles!Root(n) PROVE SearchType' /\ (problems => problems')
  <2>1. n \in Names /\ todo' \subseteq todo /\ Cycles!visit(n, <<>>) /\ <<>> \in Seq(Visit)
    BY <1>2, <1>3, EmptySeq DEF Cycles!Root, SearchType
  <2>. QED
    BY <2>1, VisitType
<1>4. CASE Cycles!Follow
  <2> DEFINE top == Last(path)
             n == Jumps[top.chain][top.at]
             above == Cycles!Advance(top)
  <2>1. path # <<>> /\ todo' = todo
    BY <1>4 DEF Cycles!Follow
  <2>2. n # "" /\ top.at <= Len(Jumps[top.chain]) /\ Cycles!visit(n, above)
    BY <1>4, <2>1, NextHop DEF Cycles!Follow
  <2>3. n \in Names
    BY <2>1, <2>2, NextHop
  <2>4. above \in Seq(Visit)
    BY <2>1, Advanced
  <2> HIDE DEF n, above
  <2>. QED
    BY <2>1, <2>2, <2>3, <2>4, VisitType
<1>5. CASE Cycles!Skip
  <2>1. path # <<>> /\ todo' = todo /\ color' = color /\ problems' = problems
    BY <1>5 DEF Cycles!Skip
  <2>2. path' = Cycles!Advance(Last(path))
    BY <1>5, <2>1, NextHop DEF Cycles!Skip
  <2>3. path' \in Seq(Visit)
    BY <2>1, <2>2, Advanced
  <2>. QED
    BY <1>1, <2>1, <2>3 DEF SearchType
<1>6. CASE Cycles!Blacken
  <2>1. path # <<>> /\ todo' = todo /\ problems' = problems /\ path' = Front(path)
    BY <1>6 DEF Cycles!Blacken, Cycles!Front, Front
  <2>2. color' = [color EXCEPT ![Last(path).chain] = "black"]
    BY <1>6, <2>1, NextHop DEF Cycles!Blacken
  <2>3. path' \in Seq(Visit)
    BY <1>2, <2>1, FrontLast
  <2>4. color' \in [Names -> {"white", "gray", "black"}]
    BY <2>2 DEF SearchType
  <2>. QED
    BY <1>1, <2>1, <2>3, <2>4 DEF SearchType
<1>. QED
  BY <1>3, <1>4, <1>5, <1>6 DEF Cycles!Step

\* Advancing the last visit, before its rule is followed.
LEMMA AdvanceCalls ==
  ASSUME ChainsOK, SearchInv, ~problems, path # <<>>,
         Last(path).at <= Len(Jumps[Last(path).chain])
  PROVE  Calling(Jumps[Last(path).chain][Last(path).at], Cycles!Advance(Last(path)))
<1> DEFINE k == Len(path)
           p == Cycles!Advance(Last(path))
           n == Jumps[Last(path).chain][Last(path).at]
<1>1. SearchType /\ GrayOn(path, color) /\ Linked(path) /\ Searched(path, color)
  BY DEF SearchInv, Clean
<1>2. /\ k \in Nat \ {0} /\ Last(path) = path[k]
      /\ DOMAIN path = 1 .. k
      /\ p \in Seq(Visit) /\ Len(p) = k /\ DOMAIN p = 1 .. k
      /\ \A i \in 1 .. k - 1 : p[i] = path[i]
      /\ p[k].chain = path[k].chain /\ p[k].at = path[k].at + 1
  BY <1>1, Advanced
<1>3. path[k].chain \in Known /\ path[k].at \in Nat \ {0} /\ path[k].at \in DOMAIN Jumps[path[k].chain]
  <2>1. /\ path[k].chain \in Known /\ path[k].at \in Nat \ {0}
        /\ Len(Jumps[path[k].chain]) \in Nat
        /\ DOMAIN Jumps[path[k].chain] = 1 .. Len(Jumps[path[k].chain])
        /\ path[k].at <= Len(Jumps[path[k].chain])
    BY <1>1, <1>2, NextHop
  <2> DEFINE a == path[k].at
             l == Len(Jumps[path[k].chain])
  <2> HIDE DEF a, l
  <2>2. a \in 1 .. l
    BY <2>1 DEF a, l
  <2>. QED
    BY <2>1, <2>2 DEF a, l
<1>4. n = Jumps[path[k].chain][path[k].at]
  BY <1>2
<1> HIDE DEF p, k, n
<1>5. \A i \in 1 .. k : p[i].chain = path[i].chain
  BY <1>2
<1>6. GrayOn(p, color)
  BY <1>1, <1>2, <1>5 DEF GrayOn
<1>7. Linked(p)
  <2> SUFFICES ASSUME NEW i \in 1 .. k, i + 1 \in 1 .. k
               PROVE  /\ p[i].at - 1 \in DOMAIN Jumps[p[i].chain]
                      /\ Jumps[p[i].chain][p[i].at - 1] = p[i + 1].chain
    BY <1>2 DEF Linked
  <2>1. p[i] = path[i] /\ p[i + 1].chain = path[i + 1].chain
    BY <1>2, <1>5
  <2>. QED
    BY <1>1, <1>2, <2>1 DEF Linked
<1>8. p[Len(p)].at - 1 \in DOMAIN Jumps[p[Len(p)].chain] /\ Jumps[p[Len(p)].chain][p[Len(p)].at - 1] = n
  BY <1>2, <1>3, <1>4
<1>9. ASSUME NEW i \in DOMAIN p, NEW j \in DOMAIN Jumps[p[i].chain], j < p[i].at
      PROVE  \/ Jumps[p[i].chain][j] = ""
             \/ color[Jumps[p[i].chain][j]] = "black"
             \/ i + 1 \in DOMAIN p /\ j = p[i].at - 1
             \/ i = Len(p) /\ j = p[i].at - 1
  <2>1. CASE i = k
    <3>1. j \in Nat \ {0}
      BY <1>2, PathType
    <3>2. CASE j = path[k].at
      <4>1. p[k].at - 1 = path[k].at
        BY <1>2, <1>3
      <4>. QED
        BY <1>2, <2>1, <3>2, <4>1
    <3>3. CASE j # path[k].at
      <4>1. j < path[k].at /\ p[k].chain = path[k].chain
        BY <1>2, <1>3, <1>9, <2>1, <3>1, <3>3
      <4>2. k + 1 \notin DOMAIN path /\ k \in DOMAIN path
        BY <1>2
      <4>. QED
        BY <1>1, <1>9, <2>1, <4>1, <4>2 DEF Searched
    <3>. QED
      BY <3>2, <3>3
  <2>2. CASE i # k
    <3>1. p[i] = path[i] /\ i \in DOMAIN path /\ DOMAIN p = DOMAIN path
      BY <1>2, <2>2
    <3>. QED
      BY <1>1, <1>9, <3>1 DEF Searched
  <2>. QED
    BY <2>1, <2>2
<1>10. Calling(n, p)
  BY <1>2, <1>6, <1>7, <1>8, <1>9 DEF Calling
<1>. QED
  BY <1>10 DEF n, p

\* Every step of the search keeps its invariant.
LEMMA SearchStep ==
  ASSUME ChainsOK, SearchInv, chains' = chains, Cycles!Step
  PROVE  SearchInv'
<1>1. Jumps' = Jumps /\ Known' = Known
  BY SameJumps
<1>2. (Cycles!Cyclic)' <=> Cycles!Cyclic
  BY <1>1 DEF Cycles!Cyclic, Cycles!Known
<1>3. SearchType /\ SearchType' /\ (problems => problems')
  BY SearchTypeStep DEF SearchInv
<1>4. CASE problems
  BY <1>2, <1>3, <1>4 DEF SearchInv
<1>5. ASSUME GrayOn(path', color'), Linked(path'), Searched(path', color'),
             BlackClosed(color'), BlackAcyclic(color'), Covered'
      PROVE  Clean'
  <2>1. GrayOn(path, color)'
    BY <1>5 DEF GrayOn
  <2>2. Linked(path)'
    BY <1>1, <1>5 DEF Linked
  <2>3. Searched(path, color)'
    BY <1>1, <1>5 DEF Searched
  <2>4. BlackClosed(color)'
    BY <1>1, <1>5 DEF BlackClosed
  <2>5. BlackAcyclic(color)'
    BY <1>1, <1>5 DEF BlackAcyclic, Circular
  <2>. QED
    BY <1>5, <2>1, <2>2, <2>3, <2>4, <2>5 DEF Clean
<1>6. ASSUME Visited, ~problems' => Covered' PROVE SearchInv'
  BY <1>2, <1>5, <1>6 DEF Visited, SearchInv
<1>7. CASE ~problems
  <2>1. /\ GrayOn(path, color) /\ Linked(path) /\ Searched(path, color)
        /\ BlackClosed(color) /\ BlackAcyclic(color) /\ Covered
        /\ Known \subseteq Names
    BY <1>7, JumpsType DEF SearchInv, Clean
  <2>2. ASSUME NEW n \in todo, Cycles!Root(n) PROVE SearchInv'
    <3>1. n \in Names /\ todo' = todo \ {n} /\ path = <<>> /\ Cycles!visit(n, <<>>)
      BY <1>3, <2>1, <2>2 DEF Cycles!Root, SearchType
    <3>2. Calling(n, <<>>)
      <4>1. <<>> \in Seq(Visit) /\ DOMAIN <<>> = {}
        BY EmptySeq, LenProperties
      <4>2. GrayOn(<<>>, color) /\ Linked(<<>>)
        BY <2>1, <3>1
      <4>. QED
        BY <4>1, <4>2 DEF Calling
    <3>3. Visited /\ (~problems' => color'[n] # "white")
      BY <1>7, <3>1, <3>2, VisitInv
    <3>4. ~problems' => Covered'
      BY <1>1, <2>1, <3>1, <3>3 DEF Covered, Visited
    <3>. QED
      BY <1>6, <3>3, <3>4
  <2>3. CASE Cycles!Follow
    <3> DEFINE n == Jumps[Last(path).chain][Last(path).at]
               above == Cycles!Advance(Last(path))
    <3>1. path # <<>> /\ todo' = todo
      BY <2>3 DEF Cycles!Follow
    <3>2. n # "" /\ Last(path).at <= Len(Jumps[Last(path).chain]) /\ Cycles!visit(n, above)
      BY <1>3, <2>3, <3>1, NextHop DEF Cycles!Follow
    <3>3. n \in Names
      BY <1>3, <3>1, <3>2, NextHop
    <3>4. Calling(n, above)
      BY <1>7, <3>1, <3>2, AdvanceCalls
    <3> HIDE DEF n, above
    <3>5. Visited
      BY <1>7, <3>1, <3>2, <3>3, <3>4, VisitInv
    <3>6. ~problems' => Covered'
      BY <1>1, <2>1, <3>1, <3>5 DEF Covered, Visited
    <3>. QED
      BY <1>6, <3>5, <3>6
  <2>4. CASE Cycles!Skip
    <3> DEFINE n == Jumps[Last(path).chain][Last(path).at]
               above == Cycles!Advance(Last(path))
    <3>1. path # <<>> /\ todo' = todo /\ color' = color /\ problems' = problems
      BY <2>4 DEF Cycles!Skip
    <3>2. n = "" /\ Last(path).at <= Len(Jumps[Last(path).chain]) /\ path' = above
      BY <1>3, <2>4, <3>1, NextHop DEF Cycles!Skip
    <3>3. Calling(n, above)
      BY <1>7, <3>1, <3>2, AdvanceCalls
    <3>4. \A i \in DOMAIN above : above # <<>>
      <4>1. above \in Seq(Visit)
        BY <3>3 DEF Calling
      <4> HIDE DEF above
      <4>. QED
        BY <4>1, EmptySeq, LenProperties
    <3> HIDE DEF n, above
    <3>5. Searched(above, color)
      <4> SUFFICES ASSUME NEW i \in DOMAIN above, NEW j \in DOMAIN Jumps[above[i].chain],
                          j < above[i].at, Jumps[above[i].chain][j] # "",
                          ~(i + 1 \in DOMAIN above /\ j = above[i].at - 1)
                   PROVE  color[Jumps[above[i].chain][j]] = "black"
        BY DEF Searched
      <4>1. ~(i = Len(above) /\ j = above[i].at - 1)
        BY <3>2, <3>3, <3>4 DEF Calling
      <4>. QED
        BY <3>3, <4>1 DEF Calling
    <3>6. Covered'
      BY <1>1, <2>1, <3>1 DEF Covered
    <3>7. Clean'
      BY <1>5, <2>1, <3>1, <3>2, <3>3, <3>5, <3>6 DEF Calling
    <3>. QED
      BY <1>3, <1>7, <3>1, <3>7 DEF SearchInv
  <2>5. CASE Cycles!Blacken
    <3> DEFINE k == Len(path)
               t == path[k].chain
               col == [color EXCEPT ![t] = "black"]
               p == Front(path)
    <3>1. path # <<>> /\ todo' = todo /\ problems' = problems /\ path' = p
      BY <2>5 DEF Cycles!Blacken, Cycles!Front, Front
    <3>2. /\ k \in Nat \ {0} /\ DOMAIN path = 1 .. k /\ Last(path) = path[k]
          /\ DOMAIN p = 1 .. k - 1 /\ \A i \in 1 .. k - 1 : p[i] = path[i]
      BY <1>3, <3>1, FrontLast DEF SearchType
    <3>3. color' = col /\ path[k].at > Len(Jumps[t])
      BY <1>3, <2>5, <3>1, <3>2, NextHop DEF Cycles!Blacken
    <3>4. /\ t \in Known /\ path[k].at \in Nat /\ Len(Jumps[t]) \in Nat
          /\ DOMAIN Jumps[t] = 1 .. Len(Jumps[t])
      BY <1>3, <3>1, <3>2, NextHop
    <3> HIDE DEF k, t, p
    <3>5. \A m \in Names : col[m] = IF m = t THEN "black" ELSE color[m]
      BY <1>3 DEF SearchType
    <3>6. color[t] = "gray"
      BY <2>1, <3>2, <3>4 DEF GrayOn, t
    <3>7. \A j \in DOMAIN Jumps[t] : Jumps[t][j] = "" \/ color[Jumps[t][j]] = "black"
      <4>1. k \in DOMAIN path /\ k + 1 \notin DOMAIN path /\ path[k].chain = t
        BY <3>2 DEF t
      <4>2. \A j \in DOMAIN Jumps[t] : j < path[k].at
        BY <3>3, <3>4
      <4>. QED
        BY <2>1, <4>1, <4>2 DEF Searched
    <3>8. BlackClosed(col) /\ BlackAcyclic(col)
      BY <1>3, <2>1, <3>4, <3>6, <3>7, BlackenKeeps
    <3> HIDE DEF col
    <3>9. GrayOn(p, col)
      <4>1. \A i \in 1 .. k : path[i].chain = t => i = k
        BY <2>1, <3>2 DEF GrayOn, t
      <4>2. \A i, j \in DOMAIN p : p[i].chain = p[j].chain => i = j
        BY <2>1, <3>2 DEF GrayOn
      <4>3. ASSUME NEW m \in Names PROVE col[m] = "gray" <=> \E i \in DOMAIN p : p[i].chain = m
        <5>1. color[m] = "gray" <=> \E i \in 1 .. k : path[i].chain = m
          BY <2>1, <3>2 DEF GrayOn
        <5>2. CASE m = t
          BY <3>2, <3>5, <4>1, <5>2
        <5>3. CASE m # t
          <6>1. path[k].chain # m
            BY <5>3 DEF t
          <6>2. (\E i \in 1 .. k : path[i].chain = m) <=> \E i \in 1 .. k - 1 : path[i].chain = m
            BY <3>2, <6>1
          <6>. QED
            BY <3>2, <3>5, <5>1, <5>3, <6>2
        <5>. QED
          BY <5>2, <5>3
      <4>. QED
        BY <4>2, <4>3 DEF GrayOn
    <3>10. Linked(p)
      BY <2>1, <3>2 DEF Linked
    <3>11. Searched(p, col)
      <4>1. p \in Seq(Visit)
        BY <1>3, <3>1, FrontLast DEF SearchType, p
      <4>2. \A i \in DOMAIN p : \A j \in DOMAIN Jumps[p[i].chain] : Jumps[p[i].chain][j] \in Names \union {""}
        BY <4>1, PathType
      <4>0. \A i \in DOMAIN p : /\ i \in DOMAIN path /\ p[i] = path[i]
                                /\ i + 1 \in DOMAIN path => i + 1 \in DOMAIN p \/ i + 1 = k
        BY <3>2
      <4> SUFFICES ASSUME NEW i \in DOMAIN p, NEW j \in DOMAIN Jumps[p[i].chain],
                          j < p[i].at, Jumps[p[i].chain][j] # "",
                          ~(i + 1 \in DOMAIN p /\ j = p[i].at - 1)
                   PROVE  col[Jumps[p[i].chain][j]] = "black"
        BY DEF Searched
      <4>3. i \in DOMAIN path /\ p[i] = path[i]
        BY <4>0
      <4>4. CASE color[Jumps[p[i].chain][j]] = "black"
        BY <3>5, <4>2, <4>4
      <4>5. CASE i + 1 \in DOMAIN path /\ j = p[i].at - 1
        <5>1. i + 1 = k
          BY <4>0, <4>5
        <5>2. Jumps[p[i].chain][j] = t
          BY <2>1, <4>3, <4>5, <5>1 DEF Linked, t
        <5>. QED
          BY <3>5, <4>2, <5>2
      <4>. QED
        BY <2>1, <4>3, <4>4, <4>5 DEF Searched
    <3>12. Covered'
      BY <1>1, <2>1, <3>1, <3>3, <3>5 DEF Covered
    <3>13. Clean'
      BY <1>5, <3>1, <3>3, <3>8, <3>9, <3>10, <3>11, <3>12
    <3>. QED
      BY <1>3, <1>7, <3>1, <3>13 DEF SearchInv
  <2>. QED
    BY <2>2, <2>3, <2>4, <2>5 DEF Cycles!Step
<1>. QED
  BY <1>4, <1>7

\* A search that is over has found a cycle exactly if there is one.
LEMMA SearchDone == ASSUME ChainsOK, SearchInv PROVE CyclesFound
<1> SUFFICES ASSUME path = <<>>, todo = {}, ~problems, Cycles!Cyclic PROVE FALSE
  BY DEF CyclesFound, Cycles!CyclesFound, Cycles!Done, SearchInv
<1>1. PICK S \in SUBSET Known : Circular(S)
  BY CyclicMeans
<1>2. \A n \in Known : color[n] = "black"
  <2>1. \A n \in Known : n \in Names /\ color[n] \in {"white", "gray", "black"} /\ color[n] # "white"
    BY JumpsType DEF SearchInv, SearchType, Clean, Covered
  <2>2. \A n \in Names : color[n] # "gray"
    BY DEF SearchInv, Clean, GrayOn
  <2>. QED
    BY <2>1, <2>2
<1>. QED
  BY <1>1, <1>2 DEF SearchInv, Clean, BlackAcyclic

(***************************************************************************)
(* An evaluation.  Its frames are a path of JUMPs, which in an accepted    *)
(* rule set meets no chain twice.                                          *)
(***************************************************************************)
Store == INSTANCE CounterStore_proofs
           WITH Callers <- Requests, Window <- [s \in Series |-> WindowOf[s[1]]]

\* Validation let the rule set through.
Admitted == phase = "serving" => ~Cycles!Cyclic /\ checkRiskControl

\* Frame i waits at the JUMP that called frame i + 1.
Called(f) ==
  \A i \in DOMAIN f :
    /\ f[i].chain \in DOMAIN chains
    /\ i + 1 \in DOMAIN f =>
         /\ f[i].at \in DOMAIN chains[f[i].chain].rules
         /\ isJump(chains[f[i].chain].rules[f[i].at])
         /\ chains[f[i].chain].rules[f[i].at].chain = f[i + 1].chain

OnFrames(f, n) == \E i \in DOMAIN f : f[i].chain = n

Evaluating == {"rule", "reading", "returning"}

\* Where an evaluation stands.
Walk(q) ==
  /\ q.pc = "failed" => "INPUT" \notin DOMAIN chains
  /\ q.pc \in Evaluating => q.frames # <<>> /\ Called(q.frames)
  /\ q.pc \in {"rule", "reading"} =>
       \A n \in Names : q.visited[n] = IF OnFrames(q.frames, n) THEN 1 ELSE 0
  /\ q.pc \in {"returning", "counting"} =>
       q.dec.target \in Terminal /\ \A n \in Names : q.visited[n] <= 1
  /\ q.pc = "counting" => q.todo \subseteq toCount(q)

\* What a call of the store is for.
Asks(q, o) ==
  /\ o.pc # "idle" => q.pc \in {"reading", "counting"} /\ o.now <= clock /\ o.series[2] = q.in.key
  /\ q.pc = "reading" =>
       /\ o.pc # "idle" /\ o.kind = "Get"
       /\ Top(q).at <= Len(chains[Top(q).chain].rules)
       /\ RuleOf(q).counter # NoCounter /\ o.series[1] = RuleOf(q).counter.name
       /\ q.cache[o.series[1]] = Unread
  /\ q.pc = "counting" /\ o.pc # "idle" => o.kind = "Incr"

EvalFor(q, o) ==
  /\ q \in Request \union {Idle}
  /\ phase # "serving" => q = Idle
  /\ Walk(q)
  /\ Asks(q, o)

EvalOK(r) == EvalFor(req[r], op[r])

(***************************************************************************)
(* The overshoot.  A request that read a counter under its threshold owes  *)
(* it an increment.                                                        *)
(***************************************************************************)
\* r still has to increment counter c, or to report that it could not.
Uncounted(r, c) ==
  LET q == req[r]
  IN  \/ /\ q.pc \in Evaluating /\ c \in toCount(q)
         /\ \/ q.cache[c] # Unread
            \/ q.pc = "reading" /\ op[r].pc = "ok" /\ op[r].series[1] = c
      \/ q.pc = "counting" /\ c \in q.todo
      \/ q.pc = "counting" /\ op[r].pc \notin {"idle", "ok"} /\ op[r].series[1] = c

Owes(r, b) ==
  /\ Uncounted(r, b[1][1])
  /\ req[r].in.key = b[1][2]
  /\ /\ req[r].pc = "counting" /\ op[r].pc \notin {"idle", "ok", "check"}
     /\ op[r].series = b[1] /\ driver = "redis"
     => b[2] <= op[r].now

\* The window of b has begun and is not over.
Current(b) == b = Counters!bucketKey(b[1], clock)

Owed(b) ==
  Current(b) => \E P \in SUBSET Requests :
    /\ \A r \in P : Owes(r, b)
    /\ under[b] <= counted[b] + missed[b] + Cardinality(P)

\* A window that has not begun has seen no request.
NotBegun(b) == clock < b[2] => under[b] = 0

\* A bucket that lives as long as its window bounds the requests that read it
\* under the threshold.
Bounded(b) ==
  Counters!Lasting(b[1]) =>
    under[b] <= Threshold[b[1][1]] + Cardinality(Requests) - 1 + missed[b]

SlotOK(b) == Bounded(b) /\ Owed(b) /\ NotBegun(b)

OvershootInv == \A b \in Counters!Slot : SlotOK(b)

EngineInv ==
  /\ phase \in {"validating", "serving", "refused"}
  /\ ChainsOK /\ SearchInv /\ Admitted
  /\ Store!CounterInv /\ ~closed
  /\ arrivals \in 0 .. MaxArrivals
  /\ under \in [Counters!Slot -> Nat] /\ missed \in [Counters!Slot -> Nat]
  /\ req \in [Requests -> Request \union {Idle}] /\ \A r \in Requests : EvalOK(r)

(***************************************************************************)
(* The counter store inside the engine.                                    *)
(***************************************************************************)
LEMMA StoreAssumes == Store!DriverAssumption /\ Store!WindowAssumption /\ Store!BoundAssumption
<1>1. [s \in Series |-> WindowOf[s[1]]] \in [Series -> Nat \ {0}]
  BY CounterAssumption DEF Series
<1>. QED
  BY <1>1, StoreAssumption DEF Store!DriverAssumption, Store!WindowAssumption, Store!BoundAssumption

LEMMA SameStore ==
  /\ Counters!Init <=> Store!Init
  /\ Counters!Environment <=> Store!Environment
  /\ Counters!Slot = Store!Slot
  /\ \A s, t : Counters!bucketKey(s, t) = Store!bucketKey(s, t)
  /\ \A r, kind, s : Counters!Begin(r, kind, s) <=> Store!Begin(r, kind, s)
  /\ \A r : Counters!Serve(r) <=> Store!Serve(r)
  /\ \A r : Counters!Return(r) <=> Store!Return(r)
<1>1. Counters!Init <=> Store!Init
  BY Zenon DEF Counters!Init, Store!Init, Counters!NoBuckets, Store!NoBuckets, Counters!Idle,
               Store!Idle, Counters!Slot, Store!Slot, Counters!Time, Store!Time
<1>2. /\ Counters!Environment <=> Store!Environment
      /\ Counters!Slot = Store!Slot
  BY Zenon DEF Counters!Environment, Store!Environment, Counters!RedisEvict, Store!RedisEvict,
               Counters!Tick, Store!Tick, Counters!Live, Store!Live, Counters!Without,
               Store!Without, Counters!Slot, Store!Slot, Counters!Time, Store!Time
<1>3. \A s, t : Counters!bucketKey(s, t) = Store!bucketKey(s, t)
  BY Zenon DEF Counters!bucketKey, Store!bucketKey
<1>4. \A r, kind, s : Counters!Begin(r, kind, s) <=> Store!Begin(r, kind, s)
  BY Zenon DEF Counters!Begin, Store!Begin
<1>5. \A r : Counters!Return(r) <=> Store!Return(r)
  BY Zenon DEF Counters!Return, Store!Return, Counters!Outcomes, Store!Outcomes,
               Counters!Idle, Store!Idle
<1>6. ASSUME NEW r PROVE Counters!Serve(r) <=> Store!Serve(r)
  BY Zenon DEF Counters!Serve, Store!Serve, Counters!isClosed, Store!isClosed,
     Counters!MemoryIncr, Store!MemoryIncr, Counters!MemoryGet, Store!MemoryGet,
     Counters!MemoryReset, Store!MemoryReset, Counters!RedisIncr, Store!RedisIncr,
     Counters!RedisReset, Store!RedisReset, Counters!RedisGet, Store!RedisGet,
     Counters!RedisError, Store!RedisError, Counters!AfterLoss, Store!AfterLoss,
     Counters!CanSend, Store!CanSend, Counters!Reply, Store!Reply, Counters!Answer, Store!Answer,
     Counters!bucketKey, Store!bucketKey, Counters!valueAt, Store!valueAt, Counters!Live,
     Store!Live, Counters!Put, Store!Put, Counters!Without, Store!Without,
     Counters!sweepLocked, Store!sweepLocked, Counters!sweepTime, Store!sweepTime,
     Counters!expiresAt, Store!expiresAt, Counters!Lifetime, Store!Lifetime,
     Counters!formatSec, Store!formatSec
<1>. QED
  BY <1>1, <1>2, <1>3, <1>4, <1>5, <1>6, Zenon

\* What a step does to the calls of the store: r is the goroutine that steps.
CallStep(r) ==
  \/ \E kind \in {"Get", "Incr"}, s \in Series : Counters!Begin(r, kind, s)
  \/ Counters!Serve(r) \/ Counters!Return(r)
  \/ UNCHANGED counterVars

\* The store's invariant is kept.
LEMMA StoreKept ==
  ASSUME Store!CounterInv, NEW r \in Requests, CallStep(r) PROVE Store!CounterInv'
<1>1. [Store!Next]_(Store!counterVars)
  BY SameStore, Zenon DEF CallStep, Store!Next, Store!Kinds, counterVars, Store!counterVars
<1>. QED
  BY <1>1, StoreAssumes, Store!StepInv

(***************************************************************************)
(* Evaluation steps.                                                       *)
(***************************************************************************)
Decision == [target : Targets \union {""}, reason : Texts, chain : Names]

LEMMA RequestFields ==
  ASSUME NEW q \in Request
  PROVE  /\ q.pc \in {"rule", "reading", "returning", "counting", "failed"}
         /\ q.in \in Inputs /\ q.frames \in Seq(Frame)
         /\ q.visited \in [Names -> 0 .. MaxVisits + 1] /\ q.marks \in Seq(Texts)
         /\ q.cache \in [CounterNames -> Nat \union {Unread}] /\ q.dec \in Decision
         /\ q.blind \in BOOLEAN /\ q.todo \subseteq CounterNames
<1>1. q.blind \in BOOLEAN
  BY DEF Request
<1>. QED
  BY <1>1 DEF Request, Decision

\* The innermost chain of an evaluation.
LEMMA TopOf ==
  ASSUME ChainsOK, NEW q \in Request, q.frames # <<>>, Called(q.frames)
  PROVE  LET k == Len(q.frames)
             n == Top(q).chain
         IN  /\ k \in Nat \ {0} /\ DOMAIN q.frames = 1 .. k /\ Top(q) = q.frames[k]
             /\ \A i \in 1 .. k : q.frames[i] \in Frame
             /\ n \in DOMAIN chains /\ n \in Names /\ Top(q).at \in Nat \ {0}
             /\ chains[n].rules \in Seq(Rule) /\ chains[n].policy \in Policy
             /\ DOMAIN chains[n].rules = 1 .. Len(chains[n].rules)
             /\ Len(chains[n].rules) \in Nat
<1>1. q.frames \in Seq(Frame)
  BY RequestFields
<1>2. /\ Len(q.frames) \in Nat \ {0} /\ DOMAIN q.frames = 1 .. Len(q.frames)
      /\ Top(q) = q.frames[Len(q.frames)] /\ Top(q) \in Frame
  BY <1>1, FrontLast DEF Top
<1>3. \A i \in 1 .. Len(q.frames) : q.frames[i] \in Frame
  BY <1>1, <1>2
<1>4. Top(q).chain \in DOMAIN chains /\ Top(q).chain \in Names /\ Top(q).at \in Nat \ {0}
  BY <1>2 DEF Called, Frame
<1>5. chains[Top(q).chain].rules \in Seq(Rule) /\ chains[Top(q).chain].policy \in Policy
  BY <1>4, JumpsType
<1>6. /\ DOMAIN chains[Top(q).chain].rules = 1 .. Len(chains[Top(q).chain].rules)
      /\ Len(chains[Top(q).chain].rules) \in Nat
  BY <1>5, LenProperties
<1>. QED
  BY <1>2, <1>3, <1>4, <1>5, <1>6

\* p is the evaluation q some steps later: it is about the same request, and
\* has the same values of counters.
Later(q, p) ==
  /\ p \in Request /\ Walk(p)
  /\ p.in = q.in /\ p.cache = q.cache /\ p.todo = q.todo /\ p.blind = q.blind

\* g is f with its last frame one rule further.
Moved(f, g) ==
  /\ DOMAIN g = DOMAIN f
  /\ \A i \in DOMAIN f : /\ g[i].chain = f[i].chain
                          /\ g[i].at = IF i = Len(f) THEN f[i].at + 1 ELSE f[i].at

LEMMA NextRuleOK ==
  ASSUME ChainsOK, NEW q \in Request, Walk(q), q.pc = "rule"
  PROVE  /\ Later(q, NextRule(q)) /\ NextRule(q).pc = "rule"
         /\ Moved(q.frames, NextRule(q).frames)
<1> DEFINE k == Len(q.frames)
           e == [q.frames[k] EXCEPT !.at = @ + 1]
           f == [q.frames EXCEPT ![k] = e]
           p == NextRule(q)
<1>1. q.frames # <<>> /\ Called(q.frames)
  BY DEF Walk, Evaluating
<1>2. /\ k \in Nat \ {0} /\ DOMAIN q.frames = 1 .. k
      /\ \A i \in 1 .. k : q.frames[i] \in Frame
  BY <1>1, TopOf
<1>3. e \in Frame /\ e.chain = q.frames[k].chain /\ e.at = q.frames[k].at + 1
  BY <1>2 DEF Frame
<1> HIDE DEF e
<1>4. f \in Seq(Frame) /\ DOMAIN f = 1 .. k /\ f # <<>>
  <2>1. f \in [1 .. k -> Frame]
    BY <1>2, <1>3, RequestFields
  <2> HIDE DEF f, k
  <2>2. f \in Seq(Frame) /\ Len(f) = k /\ DOMAIN f = 1 .. k
    BY <1>2, <2>1, FunctionIsSeq
  <2>. QED
    BY <1>2, <2>2, EmptySeq
<1>5. /\ \A i \in 1 .. k : f[i].chain = q.frames[i].chain
      /\ \A i \in 1 .. k : i + 1 \in 1 .. k => f[i] = q.frames[i]
      /\ \A i \in 1 .. k : f[i].at = IF i = k THEN q.frames[i].at + 1 ELSE q.frames[i].at
  BY <1>2, <1>3
<1>6. Called(f)
  <2> HIDE DEF f, k
  <2>. QED
    BY <1>1, <1>2, <1>4, <1>5 DEF Called
<1>7. \A n : OnFrames(f, n) <=> OnFrames(q.frames, n)
  <2> HIDE DEF f, k
  <2>. QED
    BY <1>2, <1>4, <1>5 DEF OnFrames
<1>8. p = [q EXCEPT !.frames = f]
  BY DEF NextRule, f, e
<1>11. Moved(q.frames, f)
  <2> HIDE DEF f
  <2>. QED
    BY <1>2, <1>4, <1>5 DEF Moved
<1> HIDE DEF f, p
<1>9. /\ p \in Request /\ p.frames = f /\ p.pc = "rule" /\ p.visited = q.visited
      /\ p.in = q.in /\ p.cache = q.cache /\ p.todo = q.todo /\ p.blind = q.blind
  BY <1>4, <1>8 DEF Request
<1>10. Walk(p)
  BY <1>4, <1>6, <1>7, <1>9 DEF Walk, Evaluating
<1>. QED
  BY <1>9, <1>10, <1>11 DEF Later, p

LEMMA DecideOK ==
  ASSUME NEW q \in Request, Walk(q), q.pc = "rule",
         NEW d \in Decision, d.target \in Terminal
  PROVE  /\ Later(q, Decide(q, d)) /\ Decide(q, d).pc = "returning"
         /\ Decide(q, d).frames = q.frames /\ Decide(q, d).dec = d
<1> DEFINE p == Decide(q, d)
<1>1. p = [q EXCEPT !.pc = "returning", !.dec = d]
  BY DEF Decide
<1>2. /\ p \in Request /\ p.frames = q.frames /\ p.pc = "returning" /\ p.visited = q.visited
      /\ p.in = q.in /\ p.cache = q.cache /\ p.todo = q.todo /\ p.dec = d /\ p.blind = q.blind
  BY <1>1 DEF Request, Decision
<1> HIDE DEF p
<1>3. q.visited \in [Names -> 0 .. MaxVisits + 1]
  BY RequestFields
<1>4. \A n \in Names : q.visited[n] <= 1
  BY <1>3 DEF Walk
<1>5. Walk(p)
  BY <1>2, <1>4 DEF Walk, Evaluating
<1>. QED
  BY <1>2, <1>5 DEF Later, p

LEMMA PolicyOK ==
  ASSUME ChainsOK, checkRiskControl, NEW q \in Request, Walk(q), q.pc = "rule"
  PROVE  LET n == Top(q).chain
         IN  /\ Later(q, applyPolicy(q)) /\ applyPolicy(q).pc = "returning"
             /\ applyPolicy(q).frames = q.frames
             /\ applyPolicy(q).dec = [target |-> chains[n].policy.target,
                                      reason |-> chains[n].policy.reason, chain |-> n]
<1> DEFINE n == Top(q).chain
           d == [target |-> chains[n].policy.target, reason |-> chains[n].policy.reason,
                 chain |-> n]
<1>1. n \in DOMAIN chains /\ n \in Names /\ chains[n].policy \in Policy
  BY TopOf DEF Walk, Evaluating
<1>2. chains[n].policy.target \in Terminal
  BY <1>1 DEF checkRiskControl
<1>3. d \in Decision /\ d.target \in Terminal
  BY <1>1, <1>2 DEF Decision, Policy
<1>4. applyPolicy(q) = Decide(q, d)
  BY DEF applyPolicy
<1>5. /\ Later(q, applyPolicy(q)) /\ applyPolicy(q).pc = "returning"
      /\ applyPolicy(q).frames = q.frames /\ applyPolicy(q).dec = d
  <2> HIDE DEF d
  <2>. QED
    BY <1>3, <1>4, DecideOK
<1>. QED
  BY <1>5

\* In an accepted rule set a JUMP never leads back to a chain under
\* evaluation.
LEMMA NoRevisit ==
  ASSUME ChainsOK, ~Cycles!Cyclic, NEW q \in Request, q.frames # <<>>, Called(q.frames),
         Top(q).at <= Len(chains[Top(q).chain].rules), isJump(RuleOf(q)),
         RuleOf(q).chain \in DOMAIN chains
  PROVE  ~OnFrames(q.frames, RuleOf(q).chain)
<1> DEFINE f == q.frames
           k == Len(q.frames)
           to(i) == IF i = k THEN RuleOf(q).chain ELSE f[i + 1].chain
<1>1. /\ k \in Nat \ {0} /\ DOMAIN f = 1 .. k /\ Top(q) = f[k] /\ Top(q).at \in Nat \ {0}
      /\ Top(q).at \in DOMAIN chains[Top(q).chain].rules
  BY TopOf
<1>2. Known = DOMAIN chains /\ \A n \in Known : DOMAIN Jumps[n] = DOMAIN chains[n].rules
  BY JumpsType DEF Jumps
<1> HIDE DEF f, k
<1>3. \A i \in 1 .. k :
        /\ f[i].chain \in Known
        /\ f[i].at \in DOMAIN Jumps[f[i].chain]
        /\ Jumps[f[i].chain][f[i].at] = to(i)
  <2> SUFFICES ASSUME NEW i \in 1 .. k
               PROVE  /\ f[i].chain \in Known
                      /\ f[i].at \in DOMAIN Jumps[f[i].chain]
                      /\ Jumps[f[i].chain][f[i].at] = to(i)
    OBVIOUS
  <2>1. f[i].chain \in DOMAIN chains
    BY <1>1 DEF Called, f
  <2>2. /\ f[i].at \in DOMAIN chains[f[i].chain].rules
        /\ isJump(chains[f[i].chain].rules[f[i].at])
        /\ chains[f[i].chain].rules[f[i].at].chain = to(i)
    <3>1. CASE i = k
      BY <1>1, <3>1, SMTT(30) DEF RuleOf
    <3>2. CASE i # k
      BY <1>1, <3>2 DEF Called, f
    <3>. QED
      BY <3>1, <3>2
  <2>. QED
    BY <1>2, <2>1, <2>2, JumpsType
<1> SUFFICES ASSUME NEW h \in 1 .. k, f[h].chain = RuleOf(q).chain PROVE FALSE
  BY <1>1 DEF OnFrames, f
<1> DEFINE S == {f[i].chain : i \in h .. k}
<1>4. S \in SUBSET Known
  BY <1>1, <1>3
<1>5. ASSUME NEW i \in h .. k PROVE to(i) \in S
  <2>1. CASE i = k
    BY <1>1, <2>1
  <2>2. CASE i # k
    BY <1>1, <2>2
  <2>. QED
    BY <2>1, <2>2
<1>6. \A n \in S : \E j \in DOMAIN Jumps[n] : Jumps[n][j] \in S
  <2> SUFFICES ASSUME NEW i \in h .. k
               PROVE  \E j \in DOMAIN Jumps[f[i].chain] : Jumps[f[i].chain][j] \in S
    OBVIOUS
  <2>1. i \in 1 .. k
    BY <1>1
  <2> HIDE DEF S, to
  <2>. QED
    BY <1>3, <1>5, <2>1
<1>7. S # {}
  <2>1. h \in h .. k
    BY <1>1
  <2>2. f[h].chain \in S
    BY <2>1
  <2>. QED
    BY <2>2
<1> HIDE DEF S
<1>. QED
  BY <1>4, <1>6, <1>7, CyclicMeans DEF Circular

\* A JUMP enters its chain: the depth limit does not intervene.
LEMMA EnterOK ==
  ASSUME ChainsOK, ~Cycles!Cyclic, NEW q \in Request, Walk(q), AtRule(q), isJump(RuleOf(q)),
         RuleOf(q).chain \in DOMAIN chains
  PROVE  LET p == enterChain(q, RuleOf(q).chain)
         IN  /\ Later(q, p) /\ p.pc = "rule"
             /\ p.frames = Append(q.frames, [chain |-> RuleOf(q).chain, at |-> 1])
<1> DEFINE n == RuleOf(q).chain
           k == Len(q.frames)
           e == [chain |-> n, at |-> 1]
           f == Append(q.frames, e)
           vis == [q.visited EXCEPT ![n] = @ + 1]
           p == [q EXCEPT !.visited = vis, !.frames = f]
<1>1. /\ q.pc = "rule" /\ q.frames # <<>> /\ Called(q.frames)
      /\ Top(q).at <= Len(chains[Top(q).chain].rules)
  BY DEF Walk, Evaluating, AtRule
<1>2. /\ k \in Nat \ {0} /\ DOMAIN q.frames = 1 .. k /\ Top(q) = q.frames[k]
      /\ Top(q).at \in DOMAIN chains[Top(q).chain].rules
  BY <1>1, TopOf
<1>3. n \in Names /\ ~OnFrames(q.frames, n)
  BY <1>1, NoRevisit, RuleSetAssumption DEF ChainsOK
<1> HIDE DEF n
<1>4. q.visited \in [Names -> 0 .. MaxVisits + 1] /\ MaxVisits \in Nat \ {0}
  BY RequestFields, LimitAssumption
<1>5. q.visited[n] = 0
  BY <1>1, <1>3 DEF Walk
<1>6. /\ vis \in [Names -> 0 .. MaxVisits + 1]
      /\ \A m \in Names : vis[m] = IF m = n THEN 1 ELSE q.visited[m]
  BY <1>3, <1>4, <1>5
<1>7. e \in Frame /\ e.chain = n
  BY <1>3 DEF Frame
<1> HIDE DEF e
<1>8. /\ f \in Seq(Frame) /\ DOMAIN f = 1 .. k + 1 /\ f # <<>>
      /\ \A i \in 1 .. k : f[i] = q.frames[i]
      /\ f[k + 1] = e
  <2>1. q.frames \in Seq(Frame)
    BY RequestFields
  <2>2. /\ f \in Seq(Frame) /\ Len(f) = k + 1
        /\ \A i \in 1 .. k : f[i] = q.frames[i]
        /\ f[k + 1] = e
    BY <1>2, <1>7, <2>1, AppendProperties
  <2> HIDE DEF f
  <2>3. DOMAIN f = 1 .. k + 1
    BY <2>2, LenProperties
  <2>4. f # <<>>
    BY <1>2, <2>2, EmptySeq
  <2>. QED
    BY <2>2, <2>3, <2>4
<1> HIDE DEF f, vis
<1>9. /\ p \in Request /\ p.frames = f /\ p.pc = "rule" /\ p.visited = vis
      /\ p.in = q.in /\ p.cache = q.cache /\ p.todo = q.todo /\ p.blind = q.blind
  BY <1>1, <1>6, <1>8 DEF Request
<1>10. Called(f)
  <2>1. \A i \in 1 .. k : i + 1 \in 1 .. k \/ i = k
    BY <1>2
  <2>2. ASSUME NEW i \in 1 .. k
        PROVE  /\ f[i].chain \in DOMAIN chains
               /\ f[i].at \in DOMAIN chains[f[i].chain].rules
               /\ isJump(chains[f[i].chain].rules[f[i].at])
               /\ chains[f[i].chain].rules[f[i].at].chain = f[i + 1].chain
    <3>1. CASE i = k
      <4>1. f[i] = Top(q) /\ f[i + 1].chain = n
        BY <1>2, <1>7, <1>8, <3>1, SMTT(30)
      <4>. QED
        BY <1>1, <1>2, <4>1, TopOf DEF RuleOf, n
    <3>2. CASE i # k
      <4>1. i + 1 \in 1 .. k /\ f[i] = q.frames[i] /\ f[i + 1] = q.frames[i + 1]
        BY <1>8, <2>1, <3>2
      <4>. QED
        BY <1>1, <1>2, <4>1 DEF Called
    <3>. QED
      BY <3>1, <3>2, Zenon
  <2>3. f[k + 1].chain \in DOMAIN chains
    BY <1>7, <1>8 DEF n
  <2>4. \A i \in 1 .. k + 1 : (i \in 1 .. k \/ i = k + 1) /\ (i + 1 \in 1 .. k + 1 => i \in 1 .. k)
    BY <1>2
  <2>. QED
    BY <1>8, <2>2, <2>3, <2>4, SMTT(30) DEF Called
<1>11. \A m : OnFrames(f, m) <=> OnFrames(q.frames, m) \/ m = n
  <2>1. \A i : i \in 1 .. k + 1 <=> i \in 1 .. k \/ i = k + 1
    BY <1>2
  <2>. QED
    BY <1>2, <1>7, <1>8, <2>1 DEF OnFrames
<1>12. \A m \in Names : vis[m] = IF OnFrames(f, m) THEN 1 ELSE 0
  BY <1>1, <1>6, <1>11 DEF Walk
<1>13. Walk(p)
  <2> HIDE DEF p
  <2>. QED
    BY <1>8, <1>9, <1>10, <1>12 DEF Walk, Evaluating
<1>14. enterChain(q, n) = p
  <2>1. p = [q EXCEPT !.visited[n] = @ + 1, !.frames = Append(@, [chain |-> n, at |-> 1])]
    BY <1>9 DEF vis, f, e
  <2>2. ~(p.visited[n] > MaxVisits)
    BY <1>3, <1>4, <1>6, <1>9
  <2> HIDE DEF p
  <2>3. n \in DOMAIN chains
    BY DEF n
  <2>. QED
    BY <2>1, <2>2, <2>3 DEF enterChain
<1> HIDE DEF p
<1>. QED
  BY <1>9, <1>13, <1>14 DEF Later, n, f, e

\* Every target of a rule that matched.
LEMMA DispatchOK ==
  ASSUME ChainsOK, ~Cycles!Cyclic, checkRiskControl, NEW q \in Request, Walk(q), AtRule(q)
  PROVE  Later(q, dispatch(q)) /\ dispatch(q).pc \in {"rule", "returning"}
<1> DEFINE n == Top(q).chain
           rule == RuleOf(q)
<1>1. /\ q.pc = "rule" /\ q.frames # <<>> /\ Called(q.frames)
      /\ Top(q).at <= Len(chains[n].rules)
  BY DEF Walk, Evaluating, AtRule
<1>2. n \in DOMAIN chains /\ n \in Names /\ Top(q).at \in DOMAIN chains[n].rules
  BY <1>1, TopOf
<1>3. rule \in Rule /\ rule = chains[n].rules[Top(q).at]
  <2>1. chains[n].rules \in Seq(Rule)
    BY <1>1, TopOf
  <2>. QED
    BY <1>2, <2>1 DEF RuleOf
<1>4. CASE rule.target \in Terminal
  <2> DEFINE d == [target |-> rule.target, reason |-> rule.reason, chain |-> n]
  <2>1. dispatch(q) = Decide(q, d)
    BY <1>4 DEF dispatch, Terminal
  <2>2. d \in Decision /\ d.target \in Terminal
    BY <1>2, <1>3, <1>4 DEF Decision, Rule
  <2> HIDE DEF d
  <2>. QED
    BY <1>1, <2>1, <2>2, DecideOK
<1>5. CASE rule.target = "JUMP"
  <2>1. dispatch(q) = enterChain(q, rule.chain)
    BY <1>5 DEF dispatch, Terminal
  <2>2. isJump(rule) /\ rule.chain \in DOMAIN chains
    BY <1>2, <1>3, <1>5 DEF isJump, checkRiskControl
  <2>. QED
    BY <2>1, <2>2, EnterOK
<1>6. CASE rule.target = "RETURN"
  <2>1. dispatch(q) = applyPolicy(q)
    BY <1>6 DEF dispatch, Terminal
  <2>. QED
    BY <1>1, <2>1, PolicyOK
<1>7. CASE rule.target = "LOG"
  <2>1. dispatch(q) = NextRule(q)
    BY <1>7 DEF dispatch, Terminal
  <2>. QED
    BY <1>1, <2>1, NextRuleOK
<1>8. CASE rule.target = "MARK"
  <2> DEFINE p == IF rule.mark = "" THEN q ELSE [q EXCEPT !.marks = Append(@, rule.mark)]
  <2>1. dispatch(q) = NextRule(p)
    BY <1>8 DEF dispatch, Terminal
  <2>2. /\ p \in Request /\ p.pc = q.pc /\ p.frames = q.frames /\ p.visited = q.visited
        /\ p.in = q.in /\ p.cache = q.cache /\ p.todo = q.todo /\ p.blind = q.blind
    <3>1. q.marks \in Seq(Texts) /\ rule.mark \in Texts
      BY <1>3, RequestFields DEF Rule
    <3>2. Append(q.marks, rule.mark) \in Seq(Texts)
      BY <3>1
    <3>. QED
      BY <3>2 DEF Request
  <2> HIDE DEF p
  <2>3. Walk(p)
    BY <1>1, <2>2 DEF Walk, Evaluating
  <2>4. Later(p, NextRule(p)) /\ NextRule(p).pc = "rule"
    BY <1>1, <2>2, <2>3, NextRuleOK
  <2>. QED
    BY <2>1, <2>2, <2>4 DEF Later
<1>. QED
  BY <1>3, <1>4, <1>5, <1>6, <1>7, <1>8 DEF Rule, Targets

LEMMA TestOK ==
  ASSUME ChainsOK, ~Cycles!Cyclic, checkRiskControl, NEW q \in Request, Walk(q), AtRule(q),
         NEW v
  PROVE  Later(q, afterTest(q, v)) /\ afterTest(q, v).pc \in {"rule", "returning"}
<1>1. q.pc = "rule"
  BY DEF AtRule
<1>2. afterTest(q, v) \in {dispatch(q), NextRule(q)}
  BY DEF afterTest
<1>. QED
  BY <1>1, <1>2, DispatchOK, NextRuleOK

\* A new evaluation.
LEMMA FreshOK ==
  ASSUME ChainsOK, NEW in \in Inputs
  PROVE  LET p == enterChain(Fresh(in), "INPUT")
         IN  /\ p \in Request /\ Walk(p) /\ p.pc \in {"rule", "failed"}
             /\ p.in = in /\ p.cache = [c \in CounterNames |-> Unread]
             /\ p.pc = "rule" => p.frames = <<[chain |-> "INPUT", at |-> 1]>>
<1> DEFINE q == Fresh(in)
           n == "INPUT"
           e == [chain |-> n, at |-> 1]
           f == <<e>>
           vis == [[m \in Names |-> 0] EXCEPT ![n] = @ + 1]
           p == [q EXCEPT !.visited = vis, !.frames = f]
<1>0. "" \in Texts
  BY RuleSetAssumption
<1>1. n \in Names /\ MaxVisits \in Nat \ {0}
  BY RuleSetAssumption, LimitAssumption
<1>2. /\ q \in Request /\ q.pc = "rule" /\ q.in = in /\ q.frames = <<>>
      /\ q.visited = [m \in Names |-> 0] /\ q.cache = [c \in CounterNames |-> Unread]
  <2>1. NoDecision \in Decision
    BY <1>0, <1>1 DEF NoDecision, Decision
  <2>2. [m \in Names |-> 0] \in [Names -> 0 .. MaxVisits + 1]
    BY <1>1
  <2>3. [c \in CounterNames |-> Unread] \in [CounterNames -> Nat \union {Unread}]
    OBVIOUS
  <2>4. <<>> \in Seq(Frame) /\ <<>> \in Seq(Texts) /\ {} \subseteq CounterNames
    OBVIOUS
  <2>5. FALSE \in BOOLEAN
    OBVIOUS
  <2>. QED
    BY <2>1, <2>2, <2>3, <2>4, <2>5 DEF Fresh, Request, Decision
<1> HIDE DEF n
<1>3. CASE n \notin DOMAIN chains
  <2> DEFINE p1 == [q EXCEPT !.pc = "failed"]
  <2>1. enterChain(q, n) = p1
    BY <1>3 DEF enterChain
  <2> HIDE DEF q
  <2>2. p1 \in Request /\ p1.pc = "failed" /\ p1.in = in /\ p1.cache = q.cache
    BY <1>2 DEF Request
  <2> HIDE DEF p1
  <2>3. Walk(p1)
    BY <1>3, <2>2 DEF Walk, Evaluating, n
  <2>. QED
    BY <1>2, <2>1, <2>2, <2>3 DEF q, n
<1>4. CASE n \in DOMAIN chains
  <2>1. /\ vis \in [Names -> 0 .. MaxVisits + 1]
        /\ \A m \in Names : vis[m] = IF m = n THEN 1 ELSE 0
    BY <1>1
  <2>2. e \in Frame /\ e.chain = n
    BY <1>1 DEF Frame
  <2> HIDE DEF e
  <2>3. f \in Seq(Frame) /\ DOMAIN f = {1} /\ f[1] = e /\ f # <<>>
    BY <2>2
  <2>4. f = Append(q.frames, e)
    BY <1>2, <2>2
  <2> HIDE DEF q, f, vis
  <2>5. /\ p \in Request /\ p.frames = f /\ p.pc = "rule" /\ p.visited = vis
        /\ p.in = q.in /\ p.cache = q.cache
    BY <1>2, <2>1, <2>3 DEF Request
  <2>6. Called(f) /\ \A m \in Names : vis[m] = IF OnFrames(f, m) THEN 1 ELSE 0
    BY <1>4, <2>1, <2>2, <2>3, 2 \notin {1} DEF Called, OnFrames
  <2>7. Walk(p)
    <3> HIDE DEF p
    <3>. QED
      BY <2>3, <2>5, <2>6 DEF Walk, Evaluating
  <2>8. enterChain(q, n) = p
    <3>1. p = [q EXCEPT !.visited[n] = @ + 1, !.frames = Append(@, [chain |-> n, at |-> 1])]
      BY <1>2, <2>4, <2>5 DEF vis, e
    <3>2. ~(p.visited[n] > MaxVisits)
      BY <1>1, <2>1, <2>5
    <3> HIDE DEF p
    <3>. QED
      BY <1>4, <3>1, <3>2 DEF enterChain
  <2>. QED
    BY <1>2, <2>5, <2>7, <2>8 DEF q, n, f, e
<1>. QED
  BY <1>3, <1>4 DEF n

\* The return of evalChain.
Popped(q) ==
  LET up == [q EXCEPT !.frames = Front(@)]
  IN  IF Len(q.frames) = 1 THEN [up EXCEPT !.pc = "counting", !.todo = toCount(q)]
      ELSE IF q.dec.target \in Terminal
           THEN [up EXCEPT !.dec.reason = IF @ = "" THEN RuleOf(up).reason ELSE @]
           ELSE [NextRule(up) EXCEPT !.pc = "rule"]

LEMMA ReturnOK ==
  ASSUME ChainsOK, NEW q \in Request, Walk(q), q.pc = "returning"
  PROVE  LET p == Popped(q)
         IN  /\ p \in Request /\ Walk(p) /\ p.in = q.in /\ p.cache = q.cache /\ p.blind = q.blind
             /\ \/ p.pc = "counting" /\ p.todo = toCount(q) /\ Len(q.frames) = 1 /\ p.dec = q.dec
                \/ /\ p.pc = "returning" /\ p.todo = q.todo /\ Len(q.frames) # 1
                   /\ p.frames = Front(q.frames)
                   /\ p.dec = [q.dec EXCEPT !.reason = IF @ = "" THEN RuleOf(p).reason ELSE @]
<1> DEFINE k == Len(q.frames)
           f == Front(q.frames)
           up == [q EXCEPT !.frames = Front(@)]
<1>1. /\ q.frames # <<>> /\ Called(q.frames) /\ q.frames \in Seq(Frame) /\ q.dec \in Decision
      /\ q.dec.target \in Terminal /\ \A n \in Names : q.visited[n] <= 1
  BY RequestFields DEF Walk, Evaluating
<1>2. /\ k \in Nat \ {0} /\ DOMAIN q.frames = 1 .. k
      /\ f \in Seq(Frame) /\ Len(f) = k - 1 /\ DOMAIN f = 1 .. k - 1
      /\ \A i \in 1 .. k - 1 : f[i] = q.frames[i]
  BY <1>1, FrontLast
<1> HIDE DEF f, k
<1>3. up = [q EXCEPT !.frames = f]
  BY DEF f
<1> HIDE DEF up
<1>4. /\ up \in Request /\ up.frames = f /\ up.pc = "returning" /\ up.visited = q.visited
      /\ up.in = q.in /\ up.cache = q.cache /\ up.todo = q.todo /\ up.dec = q.dec
      /\ up.blind = q.blind
  BY <1>2, <1>3 DEF Request
<1>5. CASE k = 1
  <2> DEFINE p == [up EXCEPT !.pc = "counting", !.todo = toCount(q)]
  <2>1. toCount(q) \subseteq CounterNames
    BY DEF toCount
  <2>2. /\ p \in Request /\ p.pc = "counting" /\ p.visited = q.visited /\ p.dec = q.dec
        /\ p.in = q.in /\ p.cache = q.cache /\ p.todo = toCount(q) /\ p.blind = q.blind
    BY <1>4, <2>1 DEF Request
  <2> HIDE DEF p
  <2>3. Walk(p)
    BY <1>1, <2>2 DEF Walk, Evaluating, toCount
  <2>4. Popped(q) = p
    BY <1>5 DEF Popped, k, p, up
  <2>. QED
    BY <1>5, <2>2, <2>3, <2>4 DEF k
<1>6. CASE k # 1
  <2> DEFINE d == [up.dec EXCEPT !.reason = IF @ = "" THEN RuleOf(up).reason ELSE @]
             p == [up EXCEPT !.dec.reason = IF @ = "" THEN RuleOf(up).reason ELSE @]
  <2>1. f # <<>> /\ Called(f)
    <3>1. f # <<>>
      BY <1>2, <1>6, EmptySeq
    <3>2. \A i \in 1 .. k - 1 : i \in 1 .. k /\ (i + 1 \in 1 .. k - 1 => i + 1 \in 1 .. k)
      BY <1>2
    <3>3. Called(f)
      BY <1>1, <1>2, <3>2 DEF Called
    <3>. QED
      BY <3>1, <3>3
  <2>2. Top(up) = q.frames[k - 1]
    <3>1. Top(up) = up.frames[Len(up.frames)]
      BY <1>4, <2>1, TopOf
    <3>. QED
      BY <1>2, <1>4, <1>6, <3>1
  <2>3. RuleOf(up).reason \in Texts
    <3>1. Top(up).at \in DOMAIN chains[Top(up).chain].rules
      BY <1>1, <1>2, <1>6, <2>2 DEF Called
    <3>2. chains[Top(up).chain].rules \in Seq(Rule)
      BY <1>4, <2>1, TopOf
    <3>3. RuleOf(up) \in Rule
      BY <3>1, <3>2 DEF RuleOf
    <3>. QED
      BY <3>3 DEF Rule
  <2>4. d \in Decision /\ d.target = q.dec.target
    BY <1>1, <1>4, <2>3 DEF Decision
  <2>5. p = [up EXCEPT !.dec = d]
    OBVIOUS
  <2> HIDE DEF d
  <2>6. /\ p \in Request /\ p.pc = "returning" /\ p.visited = q.visited /\ p.dec = d
        /\ p.in = q.in /\ p.cache = q.cache /\ p.todo = q.todo /\ p.frames = f
        /\ p.blind = q.blind
    <3> HIDE DEF p
    <3>. QED
      BY <1>4, <2>4, <2>5 DEF Request, Decision
  <2>7. Walk(p)
    <3> HIDE DEF p
    <3>. QED
      BY <1>1, <2>1, <2>4, <2>6 DEF Walk, Evaluating
  <2>8. p.dec = [q.dec EXCEPT !.reason = IF @ = "" THEN RuleOf(p).reason ELSE @]
    <3>1. RuleOf(p) = RuleOf(up)
      BY <1>4, <2>6 DEF RuleOf, Top
    <3>. QED
      BY <1>4, <2>6, <3>1 DEF d
  <2> HIDE DEF p
  <2>9. Len(q.frames) # 1 /\ q.dec.target \in Terminal
    BY <1>1, <1>6 DEF k
  <2>10. Popped(q) = p
    BY <2>9 DEF Popped, p, up
  <2>11. p.frames = Front(q.frames)
    BY <2>6 DEF f
  <2>. QED
    BY <2>6, <2>7, <2>8, <2>9, <2>10, <2>11
<1>. QED
  BY <1>5, <1>6

\* A step of one goroutine leaves the calls of the others alone.
LEMMA OneCall ==
  ASSUME Store!CounterInv, NEW r \in Requests, CallStep(r)
  PROVE  /\ \A x \in Requests \ {r} : op'[x] = op[x]
         /\ clock' = clock /\ closed' = closed /\ driver' = driver
<1>1. op \in [Requests -> Store!Op \union {Store!Idle}]
  BY DEF Store!CounterInv, Store!TypeOK
<1>2. CASE \E kind \in {"Get", "Incr"}, s \in Series : Counters!Begin(r, kind, s)
  BY <1>1, <1>2 DEF Counters!Begin
<1>3. CASE Counters!Serve(r)
  BY <1>1, <1>3 DEF Counters!Serve, Counters!isClosed, Counters!MemoryIncr, Counters!MemoryGet,
     Counters!MemoryReset, Counters!RedisIncr, Counters!RedisGet, Counters!RedisReset,
     Counters!RedisError, Counters!Answer, Counters!Reply
<1>4. CASE Counters!Return(r)
  BY <1>1, <1>4 DEF Counters!Return
<1>5. CASE UNCHANGED counterVars
  BY <1>5 DEF counterVars
<1>. QED
  BY <1>2, <1>3, <1>4, <1>5 DEF CallStep

\* What the store does inside a call.
LEMMA Served ==
  ASSUME Store!CounterInv, NEW r \in Requests, Counters!Serve(r)
  PROVE  /\ op[r].pc \in {"check", "body"} /\ op'[r].pc # "idle"
         /\ op'[r].kind = op[r].kind /\ op'[r].series = op[r].series
         /\ op'[r].now \in {op[r].now, clock}
         /\ op'[r].pc \in Counters!Outcomes \union {"body"}
         /\ op'[r].pc = "closed" => closed
<1>1. op \in [Requests -> Store!Op \union {Store!Idle}]
  BY DEF Store!CounterInv, Store!TypeOK
<1>2. op[r].pc \in {"check", "body"}
  BY DEF Counters!Serve, Counters!isClosed, Counters!MemoryIncr, Counters!MemoryGet,
     Counters!MemoryReset, Counters!RedisIncr, Counters!RedisGet, Counters!RedisReset,
     Counters!RedisError, Counters!CanSend
<1>3. op[r] \in Store!Op
  BY <1>1, <1>2 DEF Store!Idle
<1>4. CASE Counters!isClosed(r)
  BY <1>1, <1>2, <1>3, <1>4 DEF Counters!isClosed, Counters!Outcomes, Store!Op
<1>5. ASSUME NEW pc \in Counters!Outcomes \union {"body"}, NEW v, Counters!Answer(r, pc, v), pc # "closed"
      PROVE  /\ op'[r].pc = pc /\ op'[r].kind = op[r].kind /\ op'[r].series = op[r].series
             /\ op'[r].now = op[r].now
  BY <1>1, <1>3, <1>5 DEF Counters!Answer, Store!Op
<1>6. ASSUME NEW pc \in Counters!Outcomes \union {"body"}, NEW v, Counters!Reply(r, pc, v), pc # "closed"
      PROVE  /\ op'[r].pc = pc /\ op'[r].kind = op[r].kind /\ op'[r].series = op[r].series
             /\ op'[r].now = op[r].now
  BY <1>1, <1>3, <1>6 DEF Counters!Reply, Store!Op
<1>7. CASE ~Counters!isClosed(r)
  <2>1. \E pc \in Counters!Outcomes \union {"body"} : \E v :
          pc # "closed" /\ (Counters!Answer(r, pc, v) \/ Counters!Reply(r, pc, v))
    BY <1>7 DEF Counters!Serve, Counters!MemoryIncr, Counters!MemoryGet,
       Counters!MemoryReset, Counters!RedisIncr, Counters!RedisGet, Counters!RedisReset,
       Counters!RedisError, Counters!AfterLoss, Counters!Outcomes
  <2>. QED
    BY <1>2, <1>5, <1>6, <2>1 DEF Counters!Outcomes
<1>. QED
  BY <1>4, <1>7

\* The rule set never changes.
LEMMA RulesKept ==
  ASSUME chains' = chains
  PROVE  /\ ChainsOK' <=> ChainsOK
         /\ Cycles!Cyclic' <=> Cycles!Cyclic
         /\ checkRiskControl' <=> checkRiskControl
         /\ UNCHANGED cycleVars => (SearchInv' <=> SearchInv)
<1>1. Jumps' = Jumps /\ Known' = Known /\ Visit' = Visit
  BY SameJumps
<1>2. Cycles!Cyclic' <=> Cycles!Cyclic
  BY <1>1 DEF Cycles!Cyclic, Cycles!Known
<1>3. ChainsOK' <=> ChainsOK
  BY DEF ChainsOK
<1>4. checkRiskControl' <=> checkRiskControl
  BY DEF checkRiskControl, isJump
<1>5. ASSUME UNCHANGED cycleVars PROVE SearchInv' <=> SearchInv
  <2>1. UNCHANGED <<color, path, todo, problems>>
    BY <1>5 DEF cycleVars
  <2>2. SearchType' <=> SearchType
    BY <1>1, <2>1, Zenon DEF SearchType
  <2>3. /\ GrayOn(path, color)' <=> GrayOn(path, color)
        /\ Linked(path)' <=> Linked(path)
    BY <1>1, <2>1, ZenonT(60) DEF GrayOn, Linked
  <2>4. Searched(path, color)' <=> Searched(path, color)
    BY <1>1, <2>1, Zenon DEF Searched
  <2>5. /\ BlackClosed(color)' <=> BlackClosed(color)
        /\ BlackAcyclic(color)' <=> BlackAcyclic(color)
        /\ Covered' <=> Covered
    BY <1>1, <2>1, Zenon DEF BlackClosed, BlackAcyclic, Circular, Covered
  <2>. QED
    BY <1>2, <2>1, <2>2, <2>3, <2>4, <2>5 DEF SearchInv, Clean
<1>. QED
  BY <1>2, <1>3, <1>4, <1>5

\* An evaluation that is sound with the old rules and time is with the new.
LEMMA EvalKept ==
  ASSUME chains' = chains, clock \in Nat, clock' \in Nat, clock <= clock',
         NEW x \in Requests, EvalFor(req'[x], op'[x]),
         op'[x].pc # "idle" => op'[x].now \in Nat,
         phase' # "serving" => req'[x] = Idle
  PROVE  EvalOK(x)'
<1>1. Walk(req[x])'
  <2> DEFINE f == req'[x].frames
  <2>1. Called(req[x].frames)' <=> Called(f)
    BY Zenon DEF Called, isJump
  <2>2. \A n \in Names : OnFrames(req[x].frames, n)' <=> OnFrames(f, n)
    BY Zenon DEF OnFrames
  <2>3. Walk(req'[x])
    BY DEF EvalFor
  <2>4. toCount(req[x])' = toCount(req'[x])
    BY DEF toCount
  <2>. QED
    BY <2>1, <2>2, <2>3, <2>4, Zenon DEF Walk
<1>2. Asks(req[x], op[x])'
  BY DEF EvalFor, Asks, Top, RuleOf
<1>. QED
  BY <1>1, <1>2 DEF EvalOK, EvalFor

\* A step of one goroutine: what remains to be shown is its own evaluation.
LEMMA Stepped ==
  ASSUME EngineInv, NEW r \in Requests, CallStep(r), UNCHANGED <<phase, chains, cycleVars>>,
         req' = [req EXCEPT ![r] = req'[r]], EvalFor(req'[r], op'[r]),
         arrivals' \in 0 .. MaxArrivals,
         under' \in [Counters!Slot -> Nat], missed' \in [Counters!Slot -> Nat]
  PROVE  EngineInv'
<1>1. ChainsOK' /\ SearchInv' /\ Admitted'
  BY RulesKept DEF EngineInv, Admitted
<1>2. Store!CounterInv'
  BY StoreKept DEF EngineInv
<1>3. /\ \A x \in Requests \ {r} : op'[x] = op[x]
      /\ clock' = clock /\ closed' = closed
  BY OneCall DEF EngineInv
<1>4. ASSUME NEW x \in Requests PROVE EvalFor(req'[x], op'[x])
  BY <1>3 DEF EngineInv, EvalOK
<1>5. ASSUME NEW x \in Requests PROVE EvalOK(x)'
  <2>1. clock \in Nat /\ (op'[x].pc # "idle" => op'[x].now \in Nat)
    <3>1. op' \in [Requests -> Store!Op \union {Store!Idle}] /\ clock \in Store!Time
      BY <1>2 DEF EngineInv, Store!CounterInv, Store!TypeOK
    <3>2. \A t \in Store!Time : t \in Nat
      BY StoreAssumption DEF Store!Time
    <3>. QED
      BY <3>1, <3>2 DEF Store!Op, Store!Idle
  <2>2. phase' # "serving" => req'[x] = Idle
    BY <1>4 DEF EvalFor
  <2>. QED
    BY <1>3, <1>4, <2>1, <2>2, EvalKept
<1>6. req' \in [Requests -> Request \union {Idle}]
  BY <1>4 DEF EngineInv, EvalFor
<1>. QED
  BY <1>1, <1>2, <1>3, <1>5, <1>6 DEF EngineInv

\* A goroutine that is evaluating.
LEMMA Active ==
  ASSUME EngineInv, NEW r \in Requests, req[r].pc # "idle"
  PROVE  /\ req[r] \in Request /\ Walk(req[r]) /\ Asks(req[r], op[r])
         /\ phase = "serving" /\ ChainsOK /\ ~Cycles!Cyclic /\ checkRiskControl
         /\ req \in [Requests -> Request \union {Idle}]
BY DEF EngineInv, EvalOK, EvalFor, Idle, Admitted

\* A call has the type of one.
LEMMA CallType ==
  ASSUME EngineInv, NEW r \in Requests
  PROVE  /\ op \in [Requests -> Store!Op \union {Store!Idle}]
         /\ op[r].pc # "idle" => op[r] \in Store!Op /\ op[r].series \in Series /\ op[r].now \in Nat
         /\ clock \in Nat
<1>1. op \in [Requests -> Store!Op \union {Store!Idle}] /\ clock \in Store!Time
  BY DEF EngineInv, Store!CounterInv, Store!TypeOK
<1>2. op[r].pc # "idle" => op[r] \in Store!Op
  BY <1>1 DEF Store!Idle
<1>3. \A t \in Store!Time : t \in Nat
  BY StoreAssumption DEF Store!Time
<1>. QED
  BY <1>1, <1>2, <1>3 DEF Store!Op

\* The steps that only move the evaluation on.
LEMMA MoveInv ==
  ASSUME EngineInv, NEW r \in Requests,
         \/ \E in \in Inputs : Evaluate(r, in)
         \/ Match(r) \/ EndOfChain(r) \/ ReturnToCaller(r) \/ Finish(r)
  PROVE  EngineInv'
<1> DEFINE q == req[r]
<1>1. \/ \E in \in Inputs : Evaluate(r, in)
      \/ Match(r) \/ EndOfChain(r) \/ ReturnToCaller(r) \/ Finish(r)
  OBVIOUS
<1>2. req \in [Requests -> Request \union {Idle}] /\ Asks(q, op[r]) /\ ChainsOK
  BY DEF EngineInv, EvalOK, EvalFor
<1>3. /\ UNCHANGED <<phase, chains, cycleVars, under, missed, counterVars>>
      /\ arrivals' \in 0 .. MaxArrivals
      /\ req' = [req EXCEPT ![r] = req'[r]]
      /\ op[r].pc = "idle"
      /\ req'[r] \in Request \union {Idle} /\ Walk(req'[r]) /\ req'[r].pc # "reading"
      /\ phase # "serving" => req'[r] = Idle
  <2>1. CASE \E in \in Inputs : Evaluate(r, in)
    <3>1. PICK in \in Inputs : Evaluate(r, in)
      BY <2>1
    <3>2. req' = [req EXCEPT ![r] = enterChain(Fresh(in), "INPUT")] /\ q.pc = "idle"
      BY <3>1 DEF Evaluate
    <3>3. req'[r] = enterChain(Fresh(in), "INPUT")
      BY <1>2, <3>2
    <3>4. req'[r] \in Request /\ Walk(req'[r]) /\ req'[r].pc # "reading"
      BY <1>2, <3>3, FreshOK
    <3>5. op[r].pc = "idle"
      BY <1>2, <3>2 DEF Asks
    <3>6. arrivals' \in 0 .. MaxArrivals
      BY <3>1, LimitAssumption DEF Evaluate, EngineInv
    <3>. QED
      BY <3>1, <3>2, <3>3, <3>4, <3>5, <3>6 DEF Evaluate
  <2>2. CASE Match(r)
    <3>1. q.pc = "rule" /\ AtRule(q)
      BY <2>2 DEF Match, AtRule
    <3>2. \E v : req' = [req EXCEPT ![r] = afterTest(q, v)]
      BY <2>2 DEF Match, Become
    <3>3. PICK v : req' = [req EXCEPT ![r] = afterTest(q, v)]
      BY <3>2
    <3>4. req'[r] = afterTest(q, v)
      BY <1>2, <3>3
    <3>5. req'[r] \in Request /\ Walk(req'[r]) /\ req'[r].pc # "reading" /\ phase = "serving"
      BY <3>1, <3>4, Active, TestOK DEF Later
    <3>6. op[r].pc = "idle"
      BY <1>2, <3>1 DEF Asks
    <3>. QED
      BY <2>2, <3>3, <3>4, <3>5, <3>6 DEF Match, Become, EngineInv
  <2>3. CASE EndOfChain(r)
    <3>1. q.pc = "rule"
      BY <2>3 DEF EndOfChain
    <3>2. req' = [req EXCEPT ![r] = applyPolicy(q)]
      BY <2>3 DEF EndOfChain, Become
    <3>3. req'[r] = applyPolicy(q)
      BY <1>2, <3>2
    <3>4. req'[r] \in Request /\ Walk(req'[r]) /\ req'[r].pc # "reading" /\ phase = "serving"
      BY <3>1, <3>3, Active, PolicyOK DEF Later
    <3>5. op[r].pc = "idle"
      BY <1>2, <3>1 DEF Asks
    <3>. QED
      BY <2>3, <3>2, <3>3, <3>4, <3>5 DEF EndOfChain, Become, EngineInv
  <2>4. CASE ReturnToCaller(r)
    <3> DEFINE p == Popped(q)
    <3>1. q.pc = "returning" /\ req' = [req EXCEPT ![r] = p]
      BY <2>4 DEF ReturnToCaller, Become, Popped
    <3>2. p \in Request /\ Walk(p) /\ p.pc # "reading"
      BY <3>1, Active, ReturnOK
    <3> HIDE DEF p
    <3>3. req'[r] = p
      BY <1>2, <3>1
    <3>4. op[r].pc = "idle"
      BY <1>2, <3>1 DEF Asks
    <3>5. phase = "serving"
      BY <3>1, Active
    <3>. QED
      BY <2>4, <3>1, <3>2, <3>3, <3>4, <3>5 DEF ReturnToCaller, Become, EngineInv
  <2>5. CASE Finish(r)
    <3>1. req' = [req EXCEPT ![r] = Idle] /\ op[r].pc = "idle"
      BY <1>2, <2>5 DEF Finish, Become, Asks
    <3>2. req'[r] = Idle
      BY <1>2, <3>1
    <3>3. Walk(Idle) /\ Idle.pc # "reading"
      BY DEF Walk, Idle, Evaluating
    <3>. QED
      BY <2>5, <3>1, <3>2, <3>3 DEF Finish, Become, EngineInv
  <2>. QED
    BY <1>1, <2>1, <2>2, <2>3, <2>4, <2>5
<1>4. Asks(req'[r], op'[r])
  BY <1>3 DEF Asks, counterVars
<1>5. EvalFor(req'[r], op'[r])
  BY <1>3, <1>4 DEF EvalFor
<1>6. CallStep(r)
  BY <1>3 DEF CallStep
<1>. QED
  BY <1>3, <1>5, <1>6, Stepped DEF EngineInv

\* A call that has just begun.
LEMMA Begun ==
  ASSUME EngineInv, NEW r \in Requests, NEW kind, NEW s, Counters!Begin(r, kind, s)
  PROVE  /\ op'[r].pc = "check" /\ op'[r].kind = kind /\ op'[r].series = s /\ op'[r].now <= clock
         /\ op[r].pc = "idle"
<1>1. op \in [Requests -> Store!Op \union {Store!Idle}] /\ clock \in Nat
  BY CallType
<1>2. op'[r] = [pc |-> "check", kind |-> kind, series |-> s, now |-> 0, sends |-> 0, value |-> 0]
  BY <1>1 DEF Counters!Begin
<1>. QED
  BY <1>1, <1>2 DEF Counters!Begin

\* Fetch leaves the evaluation at its rule, waiting.
LEMMA FetchInv == ASSUME EngineInv, NEW r \in Requests, Fetch(r) PROVE EngineInv' /\ CallStep(r)
<1> DEFINE q == req[r]
           n == RuleOf(q).counter.name
           p == [q EXCEPT !.pc = "reading"]
<1>1. q.pc = "rule" /\ AtRule(q) /\ Top(q).at <= Len(chains[Top(q).chain].rules)
  BY DEF Fetch, AtRule
<1>2. /\ q \in Request /\ Walk(q) /\ ChainsOK /\ phase = "serving"
      /\ req \in [Requests -> Request \union {Idle}]
  BY <1>1, Active
<1>3. RuleOf(q).counter # NoCounter /\ q.cache[n] = Unread /\ q.in.key # NoKey
  BY DEF Fetch, TestsCounter, mustFetch
<1>4. n \in CounterNames /\ q.in.key \in Keys
  <2>1. q.frames # <<>> /\ Called(q.frames)
    BY <1>1, <1>2 DEF Walk, Evaluating
  <2>2. /\ chains[Top(q).chain].rules \in Seq(Rule)
        /\ Top(q).at \in DOMAIN chains[Top(q).chain].rules
    BY <1>1, <1>2, <2>1, TopOf
  <2>3. RuleOf(q) \in Rule
    BY <2>2 DEF RuleOf
  <2>4. q.in \in Inputs
    BY <1>2, RequestFields
  <2>. QED
    BY <1>3, <2>3, <2>4 DEF Rule, CounterMatch, Inputs
<1>5. p \in Request /\ p.frames = q.frames /\ p.pc = "reading" /\ p.visited = q.visited
      /\ p.cache = q.cache /\ p.in = q.in
  BY <1>2 DEF Request
<1>6. req' = [req EXCEPT ![r] = p] /\ Counters!Begin(r, "Get", <<n, q.in.key>>)
  BY DEF Fetch, Become
<1> HIDE DEF p
<1>7. req'[r] = p
  BY <1>2, <1>6
<1>8. Walk(p)
  BY <1>1, <1>2, <1>5 DEF Walk, Evaluating
<1>9. /\ op'[r].pc = "check" /\ op'[r].kind = "Get" /\ op'[r].series = <<n, q.in.key>>
      /\ op'[r].now <= clock
  BY <1>6, Begun
<1>10. Asks(p, op'[r])
  <2>1. Top(p) = Top(q) /\ RuleOf(p) = RuleOf(q)
    BY <1>5 DEF Top, RuleOf
  <2>2. op'[r].series[1] = n /\ op'[r].series[2] = q.in.key
    BY <1>9
  <2> HIDE DEF n, q
  <2>. QED
    BY <1>1, <1>3, <1>5, <1>9, <2>1, <2>2 DEF Asks, n
<1>11. EvalFor(req'[r], op'[r])
  BY <1>2, <1>5, <1>7, <1>8, <1>10 DEF EvalFor
<1>12. CallStep(r)
  BY <1>4, <1>6 DEF CallStep, Series
<1>13. UNCHANGED <<phase, chains, arrivals, under, missed, cycleVars>>
  BY DEF Fetch, Become
<1>14. req' = [req EXCEPT ![r] = req'[r]]
  BY <1>6, <1>7
<1>. QED
  BY <1>11, <1>12, <1>13, <1>14, Stepped DEF EngineInv

\* An increment begins.
LEMMA CountInv ==
  ASSUME EngineInv, NEW r \in Requests, NEW c \in CounterNames, Count(r, c)
  PROVE  EngineInv' /\ CallStep(r)
<1> DEFINE q == req[r]
           p == [q EXCEPT !.todo = @ \ {c}]
<1>1. q.pc = "counting" /\ c \in q.todo
  BY DEF Count
<1>2. q \in Request /\ Walk(q) /\ phase = "serving" /\ req \in [Requests -> Request \union {Idle}]
  BY <1>1, Active
<1>3. q.in.key \in Keys
  BY <1>1, <1>2, RequestFields DEF Walk, toCount, Inputs
<1>4. /\ p \in Request /\ p.pc = "counting" /\ p.visited = q.visited /\ p.dec = q.dec
      /\ p.in = q.in /\ p.todo = q.todo \ {c}
  BY <1>1, <1>2 DEF Request
<1>5. req' = [req EXCEPT ![r] = p] /\ Counters!Begin(r, "Incr", <<c, q.in.key>>)
  BY DEF Count, Become
<1> HIDE DEF p
<1>6. req'[r] = p
  BY <1>2, <1>5
<1>7. Walk(p)
  BY <1>1, <1>2, <1>4 DEF Walk, Evaluating, toCount
<1>8. /\ op'[r].pc = "check" /\ op'[r].kind = "Incr" /\ op'[r].series = <<c, q.in.key>>
      /\ op'[r].now <= clock
  BY <1>5, Begun
<1>9. Asks(p, op'[r])
  BY <1>4, <1>8 DEF Asks
<1>10. EvalFor(req'[r], op'[r])
  BY <1>2, <1>4, <1>6, <1>7, <1>9 DEF EvalFor
<1>11. CallStep(r)
  BY <1>3, <1>5 DEF CallStep, Series
<1>12. UNCHANGED <<phase, chains, arrivals, under, missed, cycleVars>>
  BY DEF Count, Become
<1>13. req' = [req EXCEPT ![r] = req'[r]]
  BY <1>5, <1>6
<1>. QED
  BY <1>10, <1>11, <1>12, <1>13, Stepped DEF EngineInv

\* The answer of a call is taken.
LEMMA Returned ==
  ASSUME EngineInv, NEW r \in Requests, Counters!Return(r)
  PROVE  op'[r].pc = "idle" /\ CallStep(r)
<1>1. op \in [Requests -> Store!Op \union {Store!Idle}]
  BY CallType
<1>. QED
  BY <1>1 DEF Counters!Return, Counters!Idle, CallStep

LEMMA CountedInv == ASSUME EngineInv, NEW r \in Requests, Counted(r) PROVE EngineInv'
<1>1. /\ req[r].pc = "counting" /\ Counters!Return(r)
      /\ UNCHANGED <<phase, chains, req, arrivals, under, cycleVars>>
  BY DEF Counted
<1>2. op'[r].pc = "idle" /\ CallStep(r)
  BY <1>1, Returned
<1>3. req[r] \in Request /\ Walk(req[r]) /\ phase = "serving"
  BY <1>1, Active
<1>4. req'[r] = req[r] /\ req' = [req EXCEPT ![r] = req'[r]]
  BY <1>1 DEF EngineInv
<1>5. EvalFor(req'[r], op'[r])
  BY <1>1, <1>2, <1>3, <1>4 DEF EvalFor, Asks
<1>6. missed' \in [Counters!Slot -> Nat]
  <2> DEFINE b == SlotOf(r)
  <2>1. missed' \in {missed, [missed EXCEPT ![b] = @ + 1]} /\ missed \in [Counters!Slot -> Nat]
    BY DEF Counted, EngineInv
  <2> HIDE DEF b
  <2>. QED
    BY <2>1
<1>. QED
  BY <1>1, <1>2, <1>4, <1>5, <1>6, Stepped DEF EngineInv

LEMMA ResolveInv == ASSUME EngineInv, NEW r \in Requests, Resolve(r) PROVE EngineInv'
<1> DEFINE q  == [req[r] EXCEPT !.pc = "rule"]
           c  == op[r].series[1]
           ok == op[r].pc = "ok"
           v  == IF ok THEN op[r].value ELSE 0
           q1 == IF ok THEN [q EXCEPT !.cache[c] = v] ELSE [q EXCEPT !.blind = TRUE]
<1>1. /\ req[r].pc = "reading" /\ op[r].pc # "idle" /\ Counters!Return(r)
      /\ req' = [req EXCEPT ![r] = afterTest(q1, v)]
      /\ UNCHANGED <<phase, chains, arrivals, under, missed, cycleVars>>
  BY DEF Resolve, Counters!Outcomes
<1>2. /\ req[r] \in Request /\ Walk(req[r]) /\ Asks(req[r], op[r]) /\ phase = "serving"
      /\ req \in [Requests -> Request \union {Idle}]
      /\ ChainsOK /\ ~Cycles!Cyclic /\ checkRiskControl
  BY <1>1, Active
<1>3. op'[r].pc = "idle" /\ CallStep(r)
  BY <1>1, Returned
<1>4. op[r].series \in Series /\ op[r].value \in Nat
  BY <1>1, CallType DEF Store!Op
<1>5. v \in Nat
  BY <1>4
<1>6. /\ q \in Request /\ q.pc = "rule" /\ q.frames = req[r].frames
      /\ q.visited = req[r].visited
  BY <1>2 DEF Request
<1> HIDE DEF q, v
<1>7. /\ q1 \in Request /\ q1.pc = "rule" /\ q1.frames = req[r].frames
      /\ q1.visited = req[r].visited
  <2>1. CASE ok
    <3> DEFINE ch == [q.cache EXCEPT ![c] = v]
    <3>1. ch \in [CounterNames -> Nat \union {Unread}]
      BY <1>5, <1>6, RequestFields
    <3>2. q1 = [q EXCEPT !.cache = ch]
      BY <2>1
    <3> HIDE DEF ch
    <3>. QED
      BY <1>6, <3>1, <3>2 DEF Request
  <2>2. CASE ~ok
    <3>1. q1 = [q EXCEPT !.blind = TRUE]
      BY <2>2
    <3>. QED
      BY <1>6, <3>1 DEF Request
  <2>. QED
    BY <2>1, <2>2
<1> HIDE DEF q1
<1>8. Walk(q1) /\ AtRule(q1)
  <2>1. Walk(q1)
    BY <1>1, <1>2, <1>7 DEF Walk, Evaluating
  <2>2. Top(q1) = Top(req[r])
    BY <1>7 DEF Top
  <2>. QED
    BY <1>1, <1>2, <1>7, <2>1, <2>2 DEF Asks, AtRule
<1>9. req'[r] = afterTest(q1, v)
  BY <1>1, <1>2
<1>10. Later(q1, req'[r]) /\ req'[r].pc \in {"rule", "returning"}
  BY <1>2, <1>7, <1>8, <1>9, TestOK
<1>11. EvalFor(req'[r], op'[r])
  BY <1>2, <1>3, <1>10 DEF EvalFor, Later, Asks
<1>12. req' = [req EXCEPT ![r] = req'[r]]
  BY <1>1, <1>9
<1>. QED
  BY <1>1, <1>3, <1>11, <1>12, Stepped DEF EngineInv

LEMMA StoreStepInv == ASSUME EngineInv, NEW r \in Requests, StoreStep(r) PROVE EngineInv'
<1>1. Counters!Serve(r) /\ UNCHANGED <<phase, chains, req, arrivals, missed, cycleVars>>
  BY DEF StoreStep
<1>2. /\ op[r].pc \in {"check", "body"} /\ op'[r].pc # "idle"
      /\ op'[r].kind = op[r].kind /\ op'[r].series = op[r].series
      /\ op'[r].now \in {op[r].now, clock}
  BY <1>1, Served DEF EngineInv
<1>3. Asks(req[r], op[r])
  BY DEF EngineInv, EvalOK, EvalFor
<1>4. req[r].pc # "idle"
  BY <1>2, <1>3 DEF Asks
<1>5. req[r] \in Request /\ Walk(req[r]) /\ phase = "serving" /\ clock \in Nat
  BY <1>4, Active, CallType
<1>6. req'[r] = req[r] /\ req' = [req EXCEPT ![r] = req'[r]]
  BY <1>1 DEF EngineInv
<1>7. Asks(req[r], op'[r])
  BY <1>2, <1>3, <1>5 DEF Asks
<1>8. EvalFor(req'[r], op'[r])
  BY <1>1, <1>5, <1>6, <1>7 DEF EvalFor
<1>9. under' \in [Counters!Slot -> Nat]
  <2> DEFINE b == SlotOf(r)
  <2>1. under' \in {under, [under EXCEPT ![b] = @ + 1]} /\ under \in [Counters!Slot -> Nat]
    BY DEF StoreStep, EngineInv
  <2> HIDE DEF b
  <2>. QED
    BY <2>1
<1>10. CallStep(r)
  BY <1>1 DEF CallStep
<1>. QED
  BY <1>1, <1>6, <1>8, <1>9, <1>10, Stepped DEF EngineInv

\* The steps of no goroutine.
LEMMA OutsideInv ==
  ASSUME EngineInv, detectCycles \/ Loaded \/ Environment \/ UNCHANGED vars PROVE EngineInv'
<1> DEFINE Same == UNCHANGED <<chains, req, arrivals, under, missed>>
<1>1. /\ ChainsOK /\ SearchInv /\ Admitted /\ Store!CounterInv /\ ~closed
      /\ phase \in {"validating", "serving", "refused"}
  BY DEF EngineInv
<1>2. /\ Same
      /\ op' = op /\ closed' = closed
      /\ phase' \in {"validating", "serving", "refused"}
      /\ phase' # "serving" => phase # "serving"
      /\ Store!CounterInv' /\ clock <= clock' /\ clock' \in Nat
      /\ SearchInv' /\ Admitted'
  <2>0. clock \in Nat
    <3>1. clock \in Store!Time
      BY <1>1 DEF Store!CounterInv, Store!TypeOK
    <3>. QED
      BY <3>1, StoreAssumption DEF Store!Time
  <2>1. CASE UNCHANGED counterVars
    <3>1. op' = op /\ closed' = closed /\ clock' = clock
      BY <2>1 DEF counterVars
    <3>2. Store!CounterInv'
      <4>1. UNCHANGED Store!counterVars
        BY <2>1 DEF counterVars, Store!counterVars
      <4>. QED
        BY <1>1, <4>1, StoreAssumes, Store!StepInv
    <3>3. CASE detectCycles
      <4>1. /\ Cycles!Step /\ phase = "validating"
            /\ UNCHANGED <<phase, chains, req, arrivals, under, missed>>
        BY <3>3 DEF detectCycles, engineVars
      <4>2. SearchInv' /\ Admitted'
        BY <1>1, <4>1, SearchStep DEF Admitted
      <4>. QED
        BY <2>0, <3>1, <3>2, <4>1, <4>2
    <3>4. CASE Loaded
      <4>1. /\ Cycles!Done /\ phase = "validating" /\ Same /\ UNCHANGED cycleVars
            /\ phase' = IF ~problems /\ checkRiskControl THEN "serving" ELSE "refused"
        BY <3>4 DEF Loaded
      <4>2. Cycles!CyclesFound
        BY <1>1, SearchDone DEF CyclesFound
      <4>3. Admitted' /\ SearchInv'
        BY <1>1, <4>1, <4>2, RulesKept DEF Admitted, Cycles!CyclesFound
      <4>. QED
        BY <2>0, <3>1, <3>2, <4>1, <4>3
    <3>5. CASE UNCHANGED vars
      <4>1. Same /\ phase' = phase /\ UNCHANGED cycleVars
        BY <3>5 DEF vars, engineVars
      <4>2. Admitted' /\ SearchInv'
        BY <1>1, <4>1, RulesKept DEF Admitted
      <4>. QED
        BY <1>1, <2>0, <3>1, <3>2, <4>1, <4>2
    <3>6. CASE Environment
      <4>1. Same /\ phase' = phase /\ UNCHANGED cycleVars
        BY <3>6 DEF Environment, engineVars
      <4>2. Admitted' /\ SearchInv'
        BY <1>1, <4>1, RulesKept DEF Admitted
      <4>. QED
        BY <1>1, <2>0, <3>1, <3>2, <4>1, <4>2
    <3>. QED
      BY <3>3, <3>4, <3>5, <3>6
  <2>2. CASE Environment
    <3>1. Same /\ phase' = phase /\ UNCHANGED cycleVars /\ Counters!Environment
      BY <2>2 DEF Environment, engineVars
    <3>2. op' = op /\ closed' = closed /\ clock' \in {clock, clock + 1}
      BY <3>1 DEF Counters!Environment, Counters!RedisEvict, Counters!Tick
    <3>3. Store!CounterInv'
      <4>1. Store!Next
        BY <3>1, SameStore DEF Store!Next
      <4>. QED
        BY <1>1, <4>1, StoreAssumes, Store!StepInv
    <3>4. Admitted' /\ SearchInv'
      BY <1>1, <3>1, RulesKept DEF Admitted
    <3>. QED
      BY <1>1, <2>0, <3>1, <3>2, <3>3, <3>4
  <2>. QED
    BY <2>1, <2>2 DEF detectCycles, Loaded, vars
<1>3. ASSUME NEW x \in Requests PROVE EvalOK(x)'
  <2>1. EvalFor(req'[x], op'[x])
    BY <1>2 DEF EngineInv, EvalOK
  <2>2. clock \in Nat /\ (op'[x].pc # "idle" => op'[x].now \in Nat)
    BY <1>2, CallType
  <2>3. phase' # "serving" => req'[x] = Idle
    BY <1>2, <2>1 DEF EvalFor
  <2>. QED
    BY <1>2, <2>1, <2>2, <2>3, EvalKept
<1>. QED
  BY <1>1, <1>2, <1>3, RulesKept DEF EngineInv

LEMMA EngineStep == EngineInv /\ [Next]_vars => EngineInv'
<1> SUFFICES ASSUME EngineInv, [Next]_vars PROVE EngineInv'
  OBVIOUS
<1>1. ASSUME NEW r \in Requests, Step(r) PROVE EngineInv'
  BY <1>1, MoveInv, FetchInv, ResolveInv, CountInv, CountedInv, StoreStepInv DEF Step
<1>. QED
  BY <1>1, OutsideInv DEF Next, Terminated

LEMMA EngineInit == Init => EngineInv
<1> SUFFICES ASSUME Init PROVE EngineInv
  OBVIOUS
<1>1. ChainsOK /\ phase = "validating" /\ arrivals = 0 /\ req = [r \in Requests |-> Idle]
  BY DEF Init, ChainsOK
<1>2. SearchInv
  BY <1>1, SearchInit DEF Init
<1>3. Store!CounterInv
  BY StoreAssumes, SameStore, Store!InitInv DEF Init
<1>4. ~closed /\ op = [r \in Requests |-> Counters!Idle]
  BY DEF Init, Counters!Init
<1>5. ASSUME NEW r \in Requests PROVE EvalOK(r)
  <2>1. req[r] = Idle /\ op[r].pc = "idle"
    BY <1>1, <1>4 DEF Counters!Idle
  <2>2. Walk(Idle) /\ Idle.pc = "idle"
    BY DEF Walk, Idle, Evaluating
  <2>. QED
    BY <2>1, <2>2 DEF EvalOK, EvalFor, Asks
<1>6. under \in [Counters!Slot -> Nat] /\ missed \in [Counters!Slot -> Nat]
  BY DEF Init
<1>7. req \in [Requests -> Request \union {Idle}] /\ arrivals \in 0 .. MaxArrivals
  BY <1>1, LimitAssumption
<1>. QED
  BY <1>1, <1>2, <1>3, <1>4, <1>5, <1>6, <1>7 DEF EngineInv, Admitted

LEMMA EngineSafe == Spec => []EngineInv
BY EngineInit, EngineStep, PTL DEF Spec

\* Every variable keeps its type, and a goroutine is inside the counter store
\* only while its request reads or increments a counter, and always while it
\* reads one (engine.go, resolver.go).
THEOREM TypeCorrect == Spec => []TypeOK
<1>1. EngineInv => TypeOK
  BY DEF EngineInv, ChainsOK, TypeOK, EvalOK, EvalFor, Asks
<1>. QED
  BY <1>1, EngineSafe, PTL

\* detectCycles (validate.go) refuses a rule set exactly if its JUMPs can run
\* in a circle, for every rule set and every order of the search.
THEOREM CyclesAreFound == Spec => []CyclesFound
<1>1. EngineInv => CyclesFound
  BY SearchDone DEF EngineInv
<1>. QED
  BY <1>1, EngineSafe, PTL

\* With a rule set that passed validation every evaluation (engine.go) visits
\* a chain at most once and ends in a terminal verdict; only a missing INPUT
\* chain makes one fail.
THEOREM EvaluationsSound == Spec => []EvaluationSound
<1>1. EngineInv => EvaluationSound
  <2> SUFFICES ASSUME EngineInv, NEW r \in Requests
               PROVE  /\ req[r].pc = "failed" => "INPUT" \notin DOMAIN chains
                      /\ req[r].pc \notin {"idle", "failed"} => \A n \in Names : req[r].visited[n] <= 1
                      /\ req[r].pc = "counting" => req[r].dec.target \in Terminal
    BY DEF EvaluationSound
  <2>1. CASE req[r].pc = "idle"
    BY <2>1
  <2>2. CASE req[r].pc # "idle"
    <3>1. req[r] \in Request /\ Walk(req[r])
      BY <2>2, Active
    <3>2. req[r].pc \in {"rule", "reading", "returning", "counting", "failed"}
      BY <3>1, RequestFields
    <3>. QED
      BY <3>1, <3>2 DEF Walk
  <2>. QED
    BY <2>1, <2>2
<1>. QED
  BY <1>1, EngineSafe, PTL

(***************************************************************************)
(* The overshoot.                                                          *)
(***************************************************************************)
\* A product grows with its factor by whole windows.
LEMMA Multiples ==
  ASSUME NEW j \in Nat, NEW k \in Nat, NEW W \in Nat, j < k PROVE j * W + W <= k * W
<1>1. k - j - 1 \in Nat /\ k = j + (k - j - 1) + 1
  OBVIOUS
<1>2. (k - j - 1) * W >= 0
  BY <1>1
<1>3. k * W = j * W + (k - j - 1) * W + W
  BY <1>1
<1>4. j * W \in Nat /\ (k - j - 1) * W \in Nat /\ k * W \in Nat
  BY <1>1
<1>. QED
  BY <1>2, <1>3, <1>4

\* Times in one window have one slot.
LEMMA SameWindow ==
  ASSUME NEW s \in Series, NEW t \in Nat, NEW u \in Nat,
         Counters!bucketKey(s, t)[2] <= u, u < Counters!bucketKey(s, t)[2] + WindowOf[s[1]]
  PROVE  Counters!bucketKey(s, u) = Counters!bucketKey(s, t)
<1> DEFINE W == WindowOf[s[1]]
           j == t \div W
           k == u \div W
<1>1. W \in Nat \ {0}
  BY CounterAssumption DEF Series
<1>2. /\ Counters!bucketKey(s, t) = <<s, j * W>>
      /\ Counters!bucketKey(s, u) = <<s, k * W>>
  BY DEF Counters!bucketKey
<1>3. j \in Nat /\ k \in Nat /\ j * W \in Nat /\ k * W \in Nat
  <2> HIDE DEF W
  <2>. QED
    BY <1>1
<1>4. k * W <= u /\ u < k * W + W
  <2> HIDE DEF W
  <2>. QED
    BY <1>1, Store!Division
<1>5. j * W <= u /\ u < j * W + W
  BY <1>2
<1> HIDE DEF W, j, k
<1>6. ~(j < k)
  <2> SUFFICES ASSUME j < k PROVE FALSE
    OBVIOUS
  <2>1. j * W + W <= k * W
    BY <1>1, <1>3, Multiples
  <2>. QED
    BY <1>1, <1>3, <1>4, <1>5, <2>1
<1>7. ~(k < j)
  <2> SUFFICES ASSUME k < j PROVE FALSE
    OBVIOUS
  <2>1. k * W + W <= j * W
    BY <1>1, <1>3, Multiples
  <2>. QED
    BY <1>1, <1>3, <1>4, <1>5, <2>1
<1>8. j = k
  BY <1>3, <1>6, <1>7
<1>. QED
  BY <1>2, <1>8

\* The slot of a time, and what is known of a slot.
LEMMA KeyOfTime ==
  ASSUME NEW s \in Series, NEW t \in Nat, t <= MaxTime
  PROVE  LET b == Counters!bucketKey(s, t)
         IN  b \in Counters!Slot /\ b[1] = s /\ b[2] <= t /\ t < b[2] + WindowOf[s[1]]
<1>1. t \in Store!Time /\ [x \in Series |-> WindowOf[x[1]]][s] = WindowOf[s[1]]
  BY StoreAssumption DEF Store!Time
<1>2. LET b == Store!bucketKey(s, t)
      IN  b \in Store!Slot /\ b[1] = s /\ b[2] <= t /\ t < b[2] + [x \in Series |-> WindowOf[x[1]]][b[1]]
  BY <1>1, StoreAssumes, Store!KeyOfTime
<1>. QED
  BY <1>1, <1>2, SameStore

LEMMA SlotFields ==
  ASSUME EngineInv, NEW b \in Counters!Slot
  PROVE  /\ b[1] \in Series /\ b[1][1] \in CounterNames /\ b[1][2] \in Keys /\ b[2] \in Nat
         /\ b = <<b[1], b[2]>> /\ b[1] = <<b[1][1], b[1][2]>>
         /\ WindowOf[b[1][1]] \in Nat \ {0} /\ Threshold[b[1][1]] \in Nat \ {0}
         /\ under[b] \in Nat /\ missed[b] \in Nat /\ counted[b] \in Nat
<1>1. b[1] \in Series /\ b = <<b[1], b[2]>> /\ b[2] \in Nat
  BY StoreAssumption DEF Counters!Slot, Counters!Time
<1>2. b[1][1] \in CounterNames /\ b[1][2] \in Keys /\ b[1] = <<b[1][1], b[1][2]>>
  BY <1>1 DEF Series
<1>3. counted \in [Counters!Slot -> Nat]
  BY SameStore DEF EngineInv, Store!CounterInv, Store!TypeOK
<1>. QED
  BY <1>1, <1>2, <1>3, CounterAssumption DEF EngineInv

\* The time is within the window of a current slot.
LEMMA CurrentTime ==
  ASSUME EngineInv, NEW b \in Counters!Slot, Current(b)
  PROVE  b[2] <= clock /\ clock < b[2] + WindowOf[b[1][1]]
<1>1. clock \in Nat /\ clock <= MaxTime
  <2>1. clock \in Store!Time
    BY DEF EngineInv, Store!CounterInv, Store!TypeOK
  <2>. QED
    BY <2>1, StoreAssumption DEF Store!Time
<1>2. b[1] \in Series
  BY SlotFields
<1>. QED
  BY <1>1, <1>2, KeyOfTime DEF Current

\* A time in the window of a current slot has that slot.
LEMMA CurrentSlot ==
  ASSUME EngineInv, NEW b \in Counters!Slot, Current(b), NEW t \in Nat, b[2] <= t, t <= clock
  PROVE  Counters!bucketKey(b[1], t) = b
<1>1. b[1] \in Series /\ b[2] \in Nat /\ WindowOf[b[1][1]] \in Nat \ {0}
  BY SlotFields
<1>2. clock \in Nat
  <2>1. clock \in Store!Time
    BY DEF EngineInv, Store!CounterInv, Store!TypeOK
  <2>. QED
    BY <2>1, StoreAssumption DEF Store!Time
<1>3. t < b[2] + WindowOf[b[1][1]]
  BY <1>1, <1>2, CurrentTime
<1>4. b = Counters!bucketKey(b[1], clock)
  BY DEF Current
<1>5. Counters!bucketKey(b[1], t) = Counters!bucketKey(b[1], clock)
  BY <1>1, <1>2, <1>3, <1>4, SameWindow
<1>. QED
  BY <1>4, <1>5

\* The step of r settles b: what r owed is counted or missed, or still owed.
Settles(r, b) ==
  /\ under'[b] = under[b] /\ missed'[b] >= missed[b]
  /\ Current(b) =>
       \/ counted'[b] + missed'[b] >= counted[b] + missed[b] + 1
       \/ /\ counted'[b] + missed'[b] >= counted[b] + missed[b]
          /\ Owes(r, b) => Owes(r, b)'

\* A goroutine that does not step owes what it owed.
LEMMA OthersOwe ==
  ASSUME NEW x, NEW b, req'[x] = req[x], op'[x] = op[x], driver' = driver
  PROVE  Owes(x, b)' <=> Owes(x, b)
BY DEF Owes, Uncounted, toCount

\* Whether a bucket lasts does not change.
LEMMA LastingFixed ==
  ASSUME NEW b, driver' = driver
  PROVE  Counters!Lasting(b[1])' <=> Counters!Lasting(b[1])
BY DEF Counters!Lasting, Counters!Lifetime

LEMMA OweStep ==
  ASSUME EngineInv, EngineInv', OvershootInv, NEW r \in Requests, CallStep(r),
         \A x \in Requests \ {r} : req'[x] = req[x],
         NEW b \in Counters!Slot, Settles(r, b)
  PROVE  SlotOK(b)'
<1>1. /\ \A x \in Requests \ {r} : op'[x] = op[x]
      /\ clock' = clock /\ driver' = driver
  BY OneCall DEF EngineInv
<1>2. \A x \in Requests \ {r} : Owes(x, b)' <=> Owes(x, b)
  BY <1>1, OthersOwe
<1>3. Settles(r, b)
  OBVIOUS
<1>4. /\ under[b] \in Nat /\ missed[b] \in Nat /\ counted[b] \in Nat
      /\ under'[b] \in Nat /\ missed'[b] \in Nat /\ counted'[b] \in Nat
      /\ Threshold[b[1][1]] \in Nat
  <2>1. under[b] \in Nat /\ missed[b] \in Nat /\ counted[b] \in Nat /\ Threshold[b[1][1]] \in Nat
    BY SlotFields
  <2>2. under' \in [Counters!Slot -> Nat] /\ missed' \in [Counters!Slot -> Nat] /\ Store!CounterInv'
    BY DEF EngineInv
  <2>3. counted' \in [Counters!Slot -> Nat]
    BY <2>2, SameStore DEF Store!CounterInv, Store!TypeOK
  <2>. QED
    BY <2>1, <2>2, <2>3
<1>5. Cardinality(Requests) \in Nat
  BY RequestsFinite, FS_CardinalityType
<1>6. Bounded(b) /\ (Counters!Lasting(b[1])' <=> Counters!Lasting(b[1]))
  BY <1>1, LastingFixed DEF OvershootInv, SlotOK
<1>7. Bounded(b)'
  <2>1. missed[b] <= missed'[b] /\ under'[b] = under[b]
    BY <1>3 DEF Settles
  <2>. QED
    BY <1>4, <1>5, <1>6, <2>1 DEF Bounded
<1>8. NotBegun(b)'
  BY <1>1, <1>3 DEF OvershootInv, SlotOK, NotBegun, Settles
<1>9. Owed(b)'
  <2> SUFFICES ASSUME Current(b)'
               PROVE  \E P \in SUBSET Requests :
                        /\ \A x \in P : Owes(x, b)'
                        /\ under'[b] <= counted'[b] + missed'[b] + Cardinality(P)
    BY Zenon DEF Owed
  <2>1. Current(b)
    BY <1>1 DEF Current, Counters!bucketKey
  <2>2. PICK P \in SUBSET Requests :
          /\ \A x \in P : Owes(x, b)
          /\ under[b] <= counted[b] + missed[b] + Cardinality(P)
    BY <2>1 DEF OvershootInv, SlotOK, Owed
  <2>3. IsFiniteSet(P) /\ IsFiniteSet(P \ {r}) /\ Cardinality(P) \in Nat
        /\ Cardinality(P \ {r}) \in Nat /\ Cardinality(P) <= Cardinality(P \ {r}) + 1
    <3>1. IsFiniteSet(P)
      BY <2>2, RequestsFinite, FS_Subset
    <3>2. /\ IsFiniteSet(P \ {r})
          /\ Cardinality(P \ {r}) = IF r \in P THEN Cardinality(P) - 1 ELSE Cardinality(P)
      BY <3>1, FS_RemoveElement
    <3>3. Cardinality(P) \in Nat /\ Cardinality(P \ {r}) \in Nat
      BY <3>1, <3>2, FS_CardinalityType
    <3>. QED
      BY <3>1, <3>2, <3>3
  <2>4. CASE counted'[b] + missed'[b] >= counted[b] + missed[b] + 1
    <3>1. under'[b] <= counted'[b] + missed'[b] + Cardinality(P \ {r})
      BY <1>3, <1>4, <2>2, <2>3, <2>4 DEF Settles
    <3>2. \A x \in P \ {r} : Owes(x, b)'
      BY <1>2, <2>2
    <3>. QED
      BY <3>1, <3>2
  <2>5. CASE /\ counted'[b] + missed'[b] >= counted[b] + missed[b]
             /\ Owes(r, b) => Owes(r, b)'
    <3>1. under'[b] <= counted'[b] + missed'[b] + Cardinality(P)
      BY <1>3, <1>4, <2>2, <2>3, <2>5 DEF Settles
    <3>2. \A x \in P : Owes(x, b)'
      BY <1>2, <2>2, <2>5
    <3>. QED
      BY <3>1, <3>2
  <2>. QED
    BY <1>3, <2>1, <2>4, <2>5 DEF Settles
<1>. QED
  BY <1>7, <1>8, <1>9 DEF SlotOK

\* Moving an evaluation on does not forget what it read.
LEMMA MoveOwes ==
  ASSUME EngineInv, NEW r \in Requests, NEW b \in Counters!Slot, Owes(r, b),
         \/ \E in \in Inputs : Evaluate(r, in)
         \/ Match(r) \/ EndOfChain(r) \/ ReturnToCaller(r) \/ Finish(r)
  PROVE  Owes(r, b)'
<1> DEFINE q == req[r]
           c == b[1][1]
<1>1. q.pc \in Evaluating \union {"counting"}
  BY DEF Owes, Uncounted
<1>2. /\ q \in Request /\ Walk(q) /\ Asks(q, op[r]) /\ ChainsOK /\ ~Cycles!Cyclic
      /\ checkRiskControl /\ req \in [Requests -> Request \union {Idle}]
  BY <1>1, Active DEF Evaluating
<1>3. c \in CounterNames
  BY SlotFields
<1>4. Match(r) \/ EndOfChain(r) \/ ReturnToCaller(r)
  <2>1. ~\E in \in Inputs : Evaluate(r, in)
    BY <1>1 DEF Evaluate, Evaluating
  <2>2. ~Finish(r)
    BY <1>1 DEF Finish, Owes, Uncounted, Evaluating
  <2>. QED
    BY <2>1, <2>2
<1>5. q.pc \in {"rule", "returning"} /\ op[r].pc = "idle" /\ op' = op
  BY <1>2, <1>4 DEF Match, AtRule, EndOfChain, ReturnToCaller, Asks, counterVars
<1>6. /\ req'[r].in = q.in /\ req'[r].cache = q.cache
      /\ req'[r].pc \in {"rule", "returning"} \/ (req'[r].pc = "counting" /\ req'[r].todo = toCount(q))
  <2>1. CASE Match(r)
    <3>1. q.pc = "rule" /\ AtRule(q)
      BY <2>1 DEF Match, AtRule
    <3>2. \E v : req' = [req EXCEPT ![r] = afterTest(q, v)]
      BY <2>1 DEF Match, Become
    <3>3. PICK v : req' = [req EXCEPT ![r] = afterTest(q, v)]
      BY <3>2
    <3>4. req'[r] = afterTest(q, v)
      BY <1>2, <3>3
    <3>. QED
      BY <1>2, <3>1, <3>4, TestOK DEF Later
  <2>2. CASE EndOfChain(r)
    <3>1. q.pc = "rule" /\ req' = [req EXCEPT ![r] = applyPolicy(q)]
      BY <2>2 DEF EndOfChain, Become
    <3>2. req'[r] = applyPolicy(q)
      BY <1>2, <3>1
    <3>. QED
      BY <1>2, <3>1, <3>2, PolicyOK DEF Later
  <2>3. CASE ReturnToCaller(r)
    <3> DEFINE p == Popped(q)
    <3>1. q.pc = "returning" /\ req' = [req EXCEPT ![r] = p]
      BY <2>3 DEF ReturnToCaller, Become, Popped
    <3>2. /\ p.in = q.in /\ p.cache = q.cache
          /\ p.pc = "returning" \/ (p.pc = "counting" /\ p.todo = toCount(q))
      BY <1>2, <3>1, ReturnOK
    <3> HIDE DEF p
    <3>3. req'[r] = p
      BY <1>2, <3>1
    <3>. QED
      BY <3>2, <3>3
  <2>. QED
    BY <1>4, <2>1, <2>2, <2>3
<1>7. c \in toCount(q) /\ q.cache[c] # Unread /\ q.in.key = b[1][2]
  BY <1>5 DEF Owes, Uncounted
<1>8. Uncounted(r, c)'
  <2>1. toCount(req[r])' = toCount(q)
    BY <1>6 DEF toCount
  <2>. QED
    BY <1>6, <1>7, <2>1 DEF Uncounted, Evaluating
<1>. QED
  BY <1>5, <1>6, <1>7, <1>8 DEF Owes

LEMMA FetchOwes ==
  ASSUME EngineInv, NEW r \in Requests, NEW b \in Counters!Slot, Owes(r, b), Fetch(r)
  PROVE  Owes(r, b)'
<1> DEFINE q == req[r]
           c == b[1][1]
           p == [q EXCEPT !.pc = "reading"]
<1>1. q.pc = "rule" /\ req' = [req EXCEPT ![r] = p]
  BY DEF Fetch, AtRule, Become
<1>2. q \in Request /\ req \in [Requests -> Request \union {Idle}]
  BY <1>1, Active
<1>3. p.pc = "reading" /\ p.in = q.in /\ p.cache = q.cache
  BY <1>2 DEF Request
<1> HIDE DEF p
<1>4. req'[r] = p
  BY <1>1, <1>2
<1>5. c \in toCount(q) /\ q.cache[c] # Unread /\ q.in.key = b[1][2]
  BY <1>1 DEF Owes, Uncounted
<1>6. toCount(req[r])' = toCount(q)
  BY <1>3, <1>4 DEF toCount
<1>7. Uncounted(r, c)'
  BY <1>3, <1>4, <1>5, <1>6 DEF Uncounted, Evaluating
<1>. QED
  BY <1>3, <1>4, <1>5, <1>7 DEF Owes

LEMMA ResolveOwes ==
  ASSUME EngineInv, NEW r \in Requests, NEW b \in Counters!Slot, Owes(r, b), Resolve(r)
  PROVE  Owes(r, b)'
<1> DEFINE q  == [req[r] EXCEPT !.pc = "rule"]
           n  == op[r].series[1]
           ok == op[r].pc = "ok"
           v  == IF ok THEN op[r].value ELSE 0
           q1 == IF ok THEN [q EXCEPT !.cache[n] = v] ELSE [q EXCEPT !.blind = TRUE]
           c  == b[1][1]
<1>1. /\ req[r].pc = "reading" /\ op[r].pc # "idle" /\ Counters!Return(r)
      /\ req' = [req EXCEPT ![r] = afterTest(q1, v)]
  BY DEF Resolve, Counters!Outcomes
<1>2. /\ req[r] \in Request /\ Walk(req[r]) /\ Asks(req[r], op[r])
      /\ req \in [Requests -> Request \union {Idle}]
      /\ ChainsOK /\ ~Cycles!Cyclic /\ checkRiskControl
  BY <1>1, Active
<1>3. v \in Nat /\ n \in CounterNames /\ c \in CounterNames
  BY <1>1, CallType, SlotFields DEF Store!Op, Series
<1>4. /\ q \in Request /\ q.pc = "rule" /\ q.frames = req[r].frames
      /\ q.visited = req[r].visited /\ q.in = req[r].in /\ q.cache = req[r].cache
  BY <1>2 DEF Request
<1> HIDE DEF q, v, n
<1>5. /\ q1 \in Request /\ q1.pc = "rule" /\ q1.frames = req[r].frames
      /\ q1.visited = req[r].visited /\ q1.in = req[r].in
      /\ \/ q1.cache[c] = req[r].cache[c] /\ ~(ok /\ n = c)
         \/ q1.cache[c] = v
  <2>1. CASE ok
    <3> DEFINE ch == [q.cache EXCEPT ![n] = v]
    <3>1. /\ ch \in [CounterNames -> Nat \union {Unread}]
          /\ ch[c] = IF c = n THEN v ELSE q.cache[c]
      BY <1>3, <1>4, RequestFields
    <3>2. q1 = [q EXCEPT !.cache = ch]
      BY <2>1
    <3> HIDE DEF ch
    <3>3. q1 \in Request /\ q1.cache = ch /\ q1.pc = "rule" /\ q1.frames = q.frames /\ q1.visited = q.visited /\ q1.in = q.in
      BY <1>4, <3>1, <3>2 DEF Request
    <3>. QED
      BY <1>4, <3>1, <3>3
  <2>2. CASE ~ok
    <3>1. q1 = [q EXCEPT !.blind = TRUE]
      BY <2>2
    <3>2. q1 \in Request /\ q1.cache = q.cache /\ q1.pc = "rule" /\ q1.frames = q.frames /\ q1.visited = q.visited /\ q1.in = q.in
      BY <1>4, <3>1 DEF Request
    <3>. QED
      BY <1>4, <2>2, <3>2
  <2>. QED
    BY <2>1, <2>2
<1> HIDE DEF q1
<1>6. Walk(q1) /\ AtRule(q1)
  <2>1. Walk(q1)
    BY <1>1, <1>2, <1>5 DEF Walk, Evaluating
  <2>2. Top(q1) = Top(req[r])
    BY <1>5 DEF Top
  <2>. QED
    BY <1>1, <1>2, <1>5, <2>1, <2>2 DEF Asks, AtRule
<1>7. req'[r] = afterTest(q1, v)
  BY <1>1, <1>2
<1>8. Later(q1, req'[r]) /\ req'[r].pc \in {"rule", "returning"}
  BY <1>2, <1>5, <1>6, <1>7, TestOK
<1>9. /\ c \in toCount(req[r]) /\ req[r].in.key = b[1][2]
      /\ req[r].cache[c] # Unread \/ (ok /\ n = c)
  BY <1>1 DEF Owes, Uncounted, n
<1>10. req'[r].cache[c] # Unread
  BY <1>3, <1>5, <1>8, <1>9 DEF Later, Unread
<1>11. toCount(req[r])' = toCount(req[r])
  BY <1>5, <1>8 DEF Later, toCount
<1>12. Uncounted(r, c)'
  BY <1>8, <1>9, <1>10, <1>11 DEF Uncounted, Evaluating
<1>. QED
  BY <1>5, <1>8, <1>9, <1>12 DEF Owes, Later

LEMMA CountOwes ==
  ASSUME EngineInv, NEW r \in Requests, NEW b \in Counters!Slot, Owes(r, b),
         NEW c \in CounterNames, Count(r, c)
  PROVE  Owes(r, b)'
<1> DEFINE q == req[r]
           p == [q EXCEPT !.todo = @ \ {c}]
<1>1. /\ q.pc = "counting" /\ req' = [req EXCEPT ![r] = p]
      /\ Counters!Begin(r, "Incr", <<c, q.in.key>>)
  BY DEF Count, Become
<1>2. q \in Request /\ req \in [Requests -> Request \union {Idle}]
  BY <1>1, Active
<1>3. p.pc = "counting" /\ p.in = q.in /\ p.todo = q.todo \ {c}
  BY <1>1, <1>2 DEF Request
<1> HIDE DEF p
<1>4. req'[r] = p
  BY <1>1, <1>2
<1>5. op[r].pc = "idle" /\ op'[r].pc = "check" /\ op'[r].series = <<c, q.in.key>>
  BY <1>1, Begun
<1>6. b[1][1] \in q.todo /\ q.in.key = b[1][2]
  BY <1>1, <1>5 DEF Owes, Uncounted, Evaluating
<1>7. Uncounted(r, b[1][1])'
  <2>1. CASE b[1][1] = c
    <3>1. op'[r].series[1] = b[1][1]
      BY <1>5, <2>1
    <3>. QED
      BY <1>3, <1>4, <1>5, <3>1 DEF Uncounted
  <2>2. CASE b[1][1] # c
    BY <1>3, <1>4, <1>6, <2>2 DEF Uncounted
  <2>. QED
    BY <2>1, <2>2
<1>. QED
  BY <1>3, <1>4, <1>5, <1>6, <1>7 DEF Owes

\* An increment in flight that is owed to the current slot goes to that slot.
LEMMA DebtSlot ==
  ASSUME EngineInv, NEW r \in Requests, NEW b \in Counters!Slot, Current(b), Owes(r, b),
         req[r].pc = "counting", b[1][1] \notin req[r].todo, op[r].pc # "check"
  PROVE  SlotOf(r) = b /\ op[r].pc \notin {"idle", "ok"}
<1>1. op[r].pc \notin {"idle", "ok"} /\ op[r].series[1] = b[1][1] /\ req[r].in.key = b[1][2]
  BY DEF Owes, Uncounted, Evaluating
<1>2. Asks(req[r], op[r])
  BY DEF EngineInv, EvalOK, EvalFor
<1>3. op[r].series[2] = b[1][2] /\ op[r].now <= clock
  BY <1>1, <1>2 DEF Asks
<1>4. op[r].series \in Series /\ op[r].now \in Nat
  BY <1>1, CallType
<1>5. op[r].series = b[1]
  <2>1. op[r].series = <<op[r].series[1], op[r].series[2]>>
    BY <1>4 DEF Series
  <2>. QED
    BY <1>1, <1>3, <2>1, SlotFields
<1>6. CASE driver = "memory"
  BY <1>1, <1>5, <1>6 DEF SlotOf, Current
<1>7. CASE driver # "memory"
  <2>1. driver = "redis"
    BY <1>7, StoreAssumption DEF EngineInv, Store!CounterInv, Store!TypeOK
  <2>2. b[2] <= op[r].now
    BY <1>1, <1>5, <2>1 DEF Owes
  <2>3. Counters!bucketKey(b[1], op[r].now) = b
    BY <1>3, <1>4, <2>2, CurrentSlot
  <2>. QED
    BY <1>1, <1>5, <1>7, <2>3 DEF SlotOf
<1>. QED
  BY <1>6, <1>7

LEMMA CountedSettles ==
  ASSUME EngineInv, NEW r \in Requests, NEW b \in Counters!Slot, Counted(r)
  PROVE  Settles(r, b)
<1>1. /\ req[r].pc = "counting" /\ Counters!Return(r)
      /\ UNCHANGED <<phase, chains, req, arrivals, under, cycleVars>>
      /\ op[r].pc \in Counters!Outcomes
      /\ missed' = IF op[r].pc = "ok" THEN missed ELSE [missed EXCEPT ![SlotOf(r)] = @ + 1]
  BY DEF Counted
<1>2. op'[r].pc = "idle"
  BY <1>1, Returned
<1>3. counted' = counted /\ counted[b] \in Nat /\ missed[b] \in Nat
  BY <1>1, SlotFields DEF Counters!Return
<1>4. missed \in [Counters!Slot -> Nat]
  BY DEF EngineInv
<1>5. missed'[b] = IF op[r].pc # "ok" /\ SlotOf(r) = b THEN missed[b] + 1 ELSE missed[b]
  <2> DEFINE m == SlotOf(r)
  <2> HIDE DEF m
  <2>1. missed' = IF op[r].pc = "ok" THEN missed ELSE [missed EXCEPT ![m] = @ + 1]
    BY <1>1 DEF m
  <2>2. missed'[b] = IF op[r].pc # "ok" /\ m = b THEN missed[b] + 1 ELSE missed[b]
    BY <1>4, <2>1
  <2>. QED
    BY <2>2 DEF m
<1>6. ASSUME Current(b), Owes(r, b), ~(op[r].pc # "ok" /\ SlotOf(r) = b) PROVE Owes(r, b)'
  <2>1. b[1][1] \in req[r].todo
    BY <1>1, <1>6, DebtSlot DEF Counters!Outcomes
  <2>2. Uncounted(r, b[1][1])'
    BY <1>1, <2>1 DEF Uncounted
  <2>. QED
    BY <1>1, <1>2, <1>6, <2>2 DEF Owes
<1>. QED
  BY <1>1, <1>3, <1>5, <1>6 DEF Settles

\* What a step inside the store does to the acknowledged increments.
LEMMA ServedCounts ==
  ASSUME EngineInv, NEW r \in Requests, Counters!Serve(r)
  PROVE  /\ op[r].kind \in {"Get", "Incr"}
         /\ counted' = IF op[r].kind = "Incr" /\ op'[r].pc = "ok"
                       THEN [counted EXCEPT ![SlotOf(r)] = @ + 1] ELSE counted
         /\ op[r].pc = "check" => op'[r].pc = "body" /\ (driver = "redis" => op'[r].now = clock)
         /\ op[r].pc = "body" => op'[r].now = op[r].now
         /\ op[r].kind = "Get" /\ op'[r].pc = "ok" => op'[r].value = Counters!valueAt(SlotOf(r), clock)
<1>1. /\ op[r].pc \in {"check", "body"}
      /\ op'[r].pc \in Counters!Outcomes \union {"body"}
      /\ ~closed
  BY Served DEF EngineInv
<1>2. op \in [Requests -> Store!Op \union {Store!Idle}] /\ op[r] \in Store!Op
  BY <1>1, CallType
<1>3. op[r].kind \in {"Get", "Incr"} /\ op[r].kind # "Reset"
  <2>1. Asks(req[r], op[r])
    BY DEF EngineInv, EvalOK, EvalFor
  <2>. QED
    BY <1>1, <2>1 DEF Asks
<1>4. CASE Counters!isClosed(r)
  BY <1>1, <1>2, <1>3, <1>4 DEF Counters!isClosed, Store!Op
<1>5. CASE Counters!MemoryIncr(r)
  <2>1. SlotOf(r) = Counters!bucketKey(op[r].series, clock)
    BY <1>5 DEF SlotOf, Counters!MemoryIncr
  <2>2. op[r].pc = "body" /\ op[r].kind = "Incr" /\ counted' = [counted EXCEPT ![SlotOf(r)] = @ + 1]
    BY <1>1, <1>5, <2>1 DEF Counters!MemoryIncr
  <2>3. \E v : op' = [op EXCEPT ![r].pc = "ok", ![r].value = v]
    BY <1>1, <1>5 DEF Counters!MemoryIncr, Counters!Answer
  <2>4. op'[r].pc = "ok" /\ op'[r].now = op[r].now
    BY <1>2, <2>3 DEF Store!Op
  <2>. QED
    BY <1>3, <2>2, <2>4
<1>6. CASE Counters!MemoryGet(r)
  <2>1. SlotOf(r) = Counters!bucketKey(op[r].series, clock)
    BY <1>6 DEF SlotOf, Counters!MemoryGet
  <2>2. op' = [op EXCEPT ![r].pc = "ok", ![r].value = Counters!valueAt(SlotOf(r), clock)]
    BY <1>6, <2>1 DEF Counters!MemoryGet, Counters!Answer
  <2>3. op'[r].pc = "ok" /\ op'[r].now = op[r].now /\ op'[r].value = Counters!valueAt(SlotOf(r), clock)
    BY <1>2, <2>2 DEF Store!Op
  <2>. QED
    BY <1>3, <1>6, <2>3 DEF Counters!MemoryGet
<1>7. CASE Counters!RedisGet(r)
  <2>1. SlotOf(r) = Counters!bucketKey(op[r].series, op[r].now)
    BY <1>7 DEF SlotOf, Counters!RedisGet, Counters!CanSend
  <2>2. op' = [op EXCEPT ![r].pc = "ok", ![r].value = Counters!valueAt(SlotOf(r), clock), ![r].sends = @ + 1]
    BY <1>7, <2>1 DEF Counters!RedisGet, Counters!Reply
  <2>3. op'[r].pc = "ok" /\ op'[r].now = op[r].now /\ op'[r].value = Counters!valueAt(SlotOf(r), clock)
    BY <1>2, <2>2 DEF Store!Op
  <2>. QED
    BY <1>3, <1>7, <2>3 DEF Counters!RedisGet, Counters!CanSend
<1>8. CASE Counters!RedisError(r)
  <2>1. op' = [op EXCEPT ![r].pc = "error", ![r].value = 0] /\ counted' = counted /\ op[r].pc = "body"
    BY <1>8 DEF Counters!RedisError, Counters!Answer
  <2>2. op'[r].pc = "error" /\ op'[r].now = op[r].now
    BY <1>2, <2>1 DEF Store!Op
  <2>. QED
    BY <1>3, <2>1, <2>2
<1>9. ASSUME NEW pc \in {"body", "error", "ok"}, Counters!RedisIncr(r, pc)
      PROVE  /\ op'[r].pc = pc /\ op'[r].now = op[r].now /\ op[r].pc = "body" /\ op[r].kind = "Incr"
             /\ counted' = IF pc = "ok" THEN [counted EXCEPT ![SlotOf(r)] = @ + 1] ELSE counted
  <2>1. SlotOf(r) = Counters!bucketKey(op[r].series, op[r].now)
    BY <1>9 DEF SlotOf, Counters!RedisIncr, Counters!CanSend
  <2>2. \E v : op' = [op EXCEPT ![r].pc = pc, ![r].value = v, ![r].sends = @ + 1]
    BY <1>9 DEF Counters!RedisIncr, Counters!Reply
  <2>3. op'[r].pc = pc /\ op'[r].now = op[r].now
    BY <1>2, <2>2 DEF Store!Op
  <2>4. counted' = IF pc = "ok" THEN [counted EXCEPT ![SlotOf(r)] = @ + 1] ELSE counted
    BY <1>9, <2>1 DEF Counters!RedisIncr
  <2>. QED
    BY <1>9, <2>3, <2>4 DEF Counters!RedisIncr, Counters!CanSend
<1>10. /\ ~Counters!MemoryReset(r)
       /\ ~\E pc \in Counters!AfterLoss \union {"ok"} : Counters!RedisReset(r, pc)
  BY <1>3 DEF Counters!MemoryReset, Counters!RedisReset, Counters!CanSend
<1>. QED
  BY <1>3, <1>4, <1>5, <1>6, <1>7, <1>8, <1>9, <1>10 DEF Counters!Serve, Counters!AfterLoss

\* The work of the store for r pays what r owes, or leaves it owed.
LEMMA StoreOwes ==
  ASSUME EngineInv, NEW r \in Requests, NEW b \in Counters!Slot, Current(b), Owes(r, b),
         StoreStep(r), ~(op[r].kind = "Incr" /\ op'[r].pc = "ok" /\ SlotOf(r) = b)
  PROVE  Owes(r, b)'
<1> DEFINE c == b[1][1]
<1>1. Counters!Serve(r) /\ req' = req
  BY DEF StoreStep
<1>2. /\ op[r].pc \in {"check", "body"} /\ op'[r].pc # "idle" /\ op'[r].pc # "check"
      /\ op'[r].series = op[r].series
  BY <1>1, Served DEF EngineInv, Counters!Outcomes
<1>3. driver' = driver
  <2>1. CallStep(r)
    BY <1>1 DEF CallStep
  <2>. QED
    BY <2>1, OneCall DEF EngineInv
<1>4. /\ op[r].pc = "check" => op'[r].pc = "body" /\ (driver = "redis" => op'[r].now = clock)
      /\ op[r].pc = "body" => op'[r].now = op[r].now
  BY <1>1, ServedCounts
<1>5. Asks(req[r], op[r])
  BY DEF EngineInv, EvalOK, EvalFor
<1>6. req[r].pc \in {"reading", "counting"}
  BY <1>2, <1>5 DEF Asks
<1>7. req[r].in.key = b[1][2] /\ Uncounted(r, c)
  BY DEF Owes
<1>8. toCount(req[r])' = toCount(req[r])
  BY <1>1 DEF toCount
<1>9. CASE req[r].pc = "reading"
  <2>1. c \in toCount(req[r]) /\ req[r].cache[c] # Unread
    BY <1>2, <1>7, <1>9 DEF Uncounted
  <2>2. Uncounted(r, c)'
    BY <1>1, <1>8, <1>9, <2>1 DEF Uncounted, Evaluating
  <2>. QED
    BY <1>1, <1>7, <1>9, <2>2 DEF Owes
<1>10. CASE req[r].pc = "counting"
  <2>1. op[r].kind = "Incr"
    BY <1>2, <1>5, <1>10 DEF Asks
  <2>2. ASSUME op[r].series = b[1], driver = "redis" PROVE b[2] <= op'[r].now
    <3>1. CASE op[r].pc = "check"
      BY <1>4, <2>2, <3>1, CurrentTime
    <3>2. CASE op[r].pc = "body"
      BY <1>4, <1>10, <2>2, <3>2 DEF Owes
    <3>. QED
      BY <1>2, <3>1, <3>2
  <2>3. Uncounted(r, c)'
    <3>1. CASE c \in req[r].todo
      BY <1>1, <1>10, <3>1 DEF Uncounted
    <3>2. CASE c \notin req[r].todo
      <4>1. op[r].series[1] = c
        BY <1>7, <1>10, <3>2 DEF Uncounted, Evaluating
      <4>2. op'[r].pc # "ok"
        <5>1. CASE op[r].pc = "check"
          BY <1>4, <5>1
        <5>2. CASE op[r].pc # "check"
          BY <1>10, <2>1, <3>2, <5>2, DebtSlot
        <5>. QED
          BY <5>1, <5>2
      <4>. QED
        BY <1>1, <1>2, <1>10, <4>1, <4>2 DEF Uncounted
    <3>. QED
      BY <3>1, <3>2
  <2>. QED
    BY <1>1, <1>2, <1>3, <1>7, <2>2, <2>3 DEF Owes
<1>. QED
  BY <1>6, <1>9, <1>10

LEMMA StoreSettles ==
  ASSUME EngineInv, NEW r \in Requests, NEW b \in Counters!Slot, StoreStep(r), under'[b] = under[b]
  PROVE  Settles(r, b)
<1>1. Counters!Serve(r) /\ missed' = missed
  BY DEF StoreStep
<1>2. counted' = IF op[r].kind = "Incr" /\ op'[r].pc = "ok"
                 THEN [counted EXCEPT ![SlotOf(r)] = @ + 1] ELSE counted
  BY <1>1, ServedCounts
<1>3. counted[b] \in Nat /\ missed[b] \in Nat
  BY SlotFields
<1>4. counted \in [Counters!Slot -> Nat]
  BY SameStore DEF EngineInv, Store!CounterInv, Store!TypeOK
<1>5. counted'[b] = IF op[r].kind = "Incr" /\ op'[r].pc = "ok" /\ SlotOf(r) = b
                    THEN counted[b] + 1 ELSE counted[b]
  <2> DEFINE m == SlotOf(r)
             paid == op[r].kind = "Incr" /\ op'[r].pc = "ok"
  <2> HIDE DEF m, paid
  <2>1. counted' = IF paid THEN [counted EXCEPT ![m] = @ + 1] ELSE counted
    BY <1>2 DEF m, paid
  <2>2. counted'[b] = IF paid /\ m = b THEN counted[b] + 1 ELSE counted[b]
    BY <1>4, <2>1
  <2>. QED
    BY <2>2 DEF m, paid
<1>. QED
  BY <1>1, <1>3, <1>5, StoreOwes DEF Settles

\* A read under the threshold: the increments acknowledged in the window are
\* fewer than the threshold, and whoever read before and has not been counted
\* is another goroutine.
LEMMA UnderRead ==
  ASSUME EngineInv, OvershootInv, NEW r \in Requests, StoreStep(r),
         op'[r].pc = "ok", op[r].kind = "Get", op'[r].value < Threshold[op[r].series[1]],
         SlotOf(r) = Counters!bucketKey(op[r].series, clock),
         req[r].in.kind \in When[op[r].series[1]],
         NEW b \in Counters!Slot, b = SlotOf(r)
  PROVE  SlotOK(b)'
<1> DEFINE c == b[1][1]
<1>1. Counters!Serve(r) /\ req' = req /\ missed' = missed /\ under' = [under EXCEPT ![b] = @ + 1]
  BY DEF StoreStep
<1>2. op[r].pc \in {"check", "body"} /\ op'[r].series = op[r].series
  BY <1>1, Served DEF EngineInv
<1>3. counted' = counted /\ op'[r].value = Counters!valueAt(b, clock)
  BY <1>1, ServedCounts
<1>4. clock' = clock
  <2>1. CallStep(r)
    BY <1>1 DEF CallStep
  <2>. QED
    BY <2>1, OneCall DEF EngineInv
<1>5. op[r].series \in Series /\ clock \in Nat /\ clock <= MaxTime
  <2>1. clock \in Store!Time
    BY DEF EngineInv, Store!CounterInv, Store!TypeOK
  <2>. QED
    BY <1>2, <2>1, CallType, StoreAssumption DEF Store!Time
<1>6. b[1] = op[r].series /\ b[2] <= clock /\ clock < b[2] + WindowOf[c]
  BY <1>5, KeyOfTime
<1>7. Current(b)
  BY <1>6 DEF Current
<1>8. /\ under[b] \in Nat /\ missed[b] \in Nat /\ counted[b] \in Nat /\ b[2] \in Nat
      /\ Threshold[c] \in Nat \ {0} /\ c \in CounterNames /\ op[r].series[2] \in Keys
  BY <1>6, SlotFields
<1>9. ASSUME Counters!Lasting(b[1])
      PROVE  counted[b] <= op'[r].value /\ op'[r].value \in Nat
  <2>1. b \in Store!Slot
    BY <1>6, SameStore
  <2>2. Store!Open(b)
    <3>1. Store!Lasting(b[1])
      BY <1>9, Zenon DEF Counters!Lasting, Store!Lasting, Counters!Lifetime, Store!Lifetime,
                         Counters!formatSec, Store!formatSec
    <3>2. clock < b[2] + [x \in Series |-> WindowOf[x[1]]][b[1]]
      BY <1>5, <1>6
    <3>. QED
      BY <1>5, <2>1, <3>1, <3>2, StoreAssumes, Store!LastingIsOpen
  <2>3. IF driver = "memory" THEN Store!valueAt(b, clock) = counted[b]
                             ELSE Store!valueAt(b, clock) >= counted[b]
    BY <2>2, <2>1, StoreAssumes, Store!OpenIsLive DEF EngineInv
  <2>4. Store!valueAt(b, clock) = Counters!valueAt(b, clock)
    BY DEF Store!valueAt, Counters!valueAt, Store!Live, Counters!Live
  <2>5. Store!valueAt(b, clock) \in Nat
    BY StoreAssumes, Store!ValueType DEF EngineInv, Store!CounterInv
  <2>. QED
    BY <1>3, <1>8, <2>3, <2>4, <2>5
<1>10. req[r].pc = "reading" /\ req[r].cache[c] = Unread /\ op[r].series[2] = req[r].in.key
  <2>1. Asks(req[r], op[r])
    BY DEF EngineInv, EvalOK, EvalFor
  <2>. QED
    BY <1>2, <1>6, <2>1 DEF Asks
<1> HIDE DEF c
<1>11. ~Owes(r, b)
  BY <1>2, <1>10 DEF Owes, Uncounted, c
<1>12. Owes(r, b)'
  <2>1. c \in toCount(req[r])
    BY <1>6, <1>8, <1>10, CounterAssumption DEF toCount, c
  <2>2. toCount(req[r])' = toCount(req[r])
    BY <1>1 DEF toCount
  <2>3. Uncounted(r, c)'
    BY <1>1, <1>2, <1>6, <1>10, <2>1, <2>2 DEF Uncounted, Evaluating, c
  <2>. QED
    BY <1>1, <1>6, <1>10, <2>3 DEF Owes, c
<1>13. under'[b] = under[b] + 1
  BY <1>1, <1>6 DEF EngineInv
<1>14. PICK P \in SUBSET Requests :
         /\ \A x \in P : Owes(x, b)
         /\ under[b] <= counted[b] + missed[b] + Cardinality(P)
  BY <1>6, <1>7 DEF OvershootInv, SlotOK, Owed
<1> DEFINE Q == P \union {r}
<1>15. /\ Q \in SUBSET Requests /\ Cardinality(P) \in Nat /\ Cardinality(Requests) \in Nat
       /\ Cardinality(Q) = Cardinality(P) + 1 /\ Cardinality(Q) <= Cardinality(Requests)
  <2>1. r \notin P
    BY <1>11, <1>14
  <2>2. Q \in SUBSET Requests
    OBVIOUS
  <2>3. IsFiniteSet(P) /\ Cardinality(Q) <= Cardinality(Requests)
    BY <2>2, RequestsFinite, FS_Subset
  <2>4. Cardinality(Q) = Cardinality(P) + 1
    BY <2>1, <2>3, FS_AddElement
  <2>. QED
    BY <2>2, <2>3, <2>4, RequestsFinite, FS_CardinalityType
<1> HIDE DEF Q
<1>16. under'[b] <= counted'[b] + missed'[b] + Cardinality(Q)
  BY <1>1, <1>3, <1>8, <1>13, <1>14, <1>15
<1>17. Bounded(b)'
  <2> SUFFICES ASSUME Counters!Lasting(b[1])'
               PROVE  under'[b] <= Threshold[b[1][1]] + Cardinality(Requests) - 1 + missed'[b]
    BY DEF Bounded
  <2>1. driver' = driver
    <3>1. CallStep(r)
      BY <1>1 DEF CallStep
    <3>. QED
      BY <3>1, OneCall DEF EngineInv
  <2>2. counted[b] <= op'[r].value /\ op'[r].value \in Nat
    BY <1>9, <2>1, LastingFixed
  <2>3. counted[b] <= Threshold[c] - 1
    BY <1>6, <1>8, <2>2 DEF c
  <2>. QED
    BY <1>1, <1>3, <1>8, <1>15, <1>16, <2>3 DEF c
<1>18. \A x \in Q : Owes(x, b)'
  <2>1. CallStep(r)
    BY <1>1 DEF CallStep
  <2>2. (\A x \in Requests \ {r} : op'[x] = op[x]) /\ driver' = driver
    BY <2>1, OneCall DEF EngineInv
  <2>3. \A x \in P \ {r} : Owes(x, b)'
    BY <1>1, <1>14, <2>2, OthersOwe
  <2>. QED
    BY <1>12, <2>3 DEF Q
<1>19. Owed(b)'
  BY <1>15, <1>16, <1>18, Zenon DEF Owed
<1>20. NotBegun(b)'
  BY <1>4, <1>5, <1>6, <1>8 DEF NotBegun
<1>. QED
  BY <1>17, <1>19, <1>20 DEF SlotOK

\* A goroutine that steps keeps the account of every slot.
LEMMA OvershootMove ==
  ASSUME EngineInv, EngineInv', OvershootInv, NEW r \in Requests, Step(r) PROVE OvershootInv'
<1> SUFFICES ASSUME NEW b \in Counters!Slot PROVE SlotOK(b)'
  BY DEF OvershootInv
<1>1. under[b] \in Nat /\ missed[b] \in Nat /\ counted[b] \in Nat
  BY SlotFields
<1>2. CASE \/ \E in \in Inputs : Evaluate(r, in)
           \/ Match(r) \/ EndOfChain(r) \/ ReturnToCaller(r) \/ Finish(r)
  <2>1. /\ UNCHANGED counterVars /\ under' = under /\ missed' = missed
        /\ \A x \in Requests \ {r} : req'[x] = req[x]
    BY <1>2 DEF Evaluate, Match, EndOfChain, ReturnToCaller, Finish, Become, EngineInv
  <2>2. counted' = counted /\ CallStep(r)
    BY <2>1 DEF counterVars, CallStep
  <2>3. Settles(r, b)
    BY <1>1, <1>2, <2>1, <2>2, MoveOwes DEF Settles
  <2>. QED
    BY <2>1, <2>2, <2>3, OweStep
<1>3. CASE Fetch(r) \/ Resolve(r) \/ \E c \in CounterNames : Count(r, c)
  <2>1. /\ counted' = counted /\ under' = under /\ missed' = missed
        /\ \A x \in Requests \ {r} : req'[x] = req[x]
    BY <1>3 DEF Fetch, Resolve, Count, Become, EngineInv, Counters!Begin, Counters!Return
  <2>2. CallStep(r)
    <3>1. CASE Resolve(r)
      BY <3>1, Returned DEF Resolve
    <3>2. CASE Fetch(r)
      BY <3>2, FetchInv
    <3>3. CASE \E c \in CounterNames : Count(r, c)
      BY <3>3, CountInv
    <3>. QED
      BY <1>3, <3>1, <3>2, <3>3
  <2>3. Settles(r, b)
    BY <1>1, <1>3, <2>1, FetchOwes, ResolveOwes, CountOwes DEF Settles
  <2>. QED
    BY <2>1, <2>2, <2>3, OweStep
<1>4. CASE Counted(r)
  <2>1. CallStep(r) /\ req' = req
    BY <1>4, Returned DEF Counted
  <2>2. Settles(r, b)
    BY <1>4, CountedSettles
  <2>. QED
    BY <2>1, <2>2, OweStep
<1>5. CASE StoreStep(r)
  <2>1. CallStep(r) /\ req' = req
    BY <1>5 DEF StoreStep, CallStep
  <2>2. CASE under'[b] = under[b]
    BY <1>5, <2>1, <2>2, StoreSettles, OweStep
  <2>3. CASE under'[b] # under[b]
    <3>1. under \in [Counters!Slot -> Nat]
      BY DEF EngineInv
    <3>2. /\ op'[r].pc = "ok" /\ op[r].kind = "Get"
          /\ op'[r].value < Threshold[op[r].series[1]]
          /\ SlotOf(r) = Counters!bucketKey(op[r].series, clock)
          /\ req[r].in.kind \in When[op[r].series[1]]
          /\ under' = [under EXCEPT ![SlotOf(r)] = @ + 1]
      BY <1>5, <2>3 DEF StoreStep
    <3>3. b = SlotOf(r)
      <4> DEFINE m == SlotOf(r)
      <4> HIDE DEF m
      <4>1. under' = [under EXCEPT ![m] = @ + 1]
        BY <3>2 DEF m
      <4>2. b = m
        BY <2>3, <3>1, <4>1
      <4>. QED
        BY <4>2 DEF m
    <3>. QED
      BY <1>5, <3>2, <3>3, UnderRead
  <2>. QED
    BY <2>2, <2>3
<1>. QED
  BY <1>2, <1>3, <1>4, <1>5 DEF Step

\* Time passes: a slot whose window begins has not been read yet.
LEMMA OvershootTime ==
  ASSUME EngineInv, OvershootInv, Environment PROVE OvershootInv'
<1>1. /\ op' = op /\ counted' = counted /\ driver' = driver /\ clock' \in {clock, clock + 1}
      /\ UNCHANGED <<req, under, missed>>
  BY DEF Environment, engineVars, Counters!Environment, Counters!RedisEvict, Counters!Tick
<1> SUFFICES ASSUME NEW b \in Counters!Slot PROVE SlotOK(b)'
  BY DEF OvershootInv
<1>2. SlotOK(b)
  BY DEF OvershootInv
<1>3. /\ b[1] \in Series /\ b[2] \in Nat /\ WindowOf[b[1][1]] \in Nat \ {0}
      /\ under[b] \in Nat /\ missed[b] \in Nat /\ counted[b] \in Nat
  BY SlotFields
<1>4. clock \in Nat /\ clock' \in Nat /\ clock' <= MaxTime
  <2>1. clock \in Store!Time /\ driver \in Drivers
    BY DEF EngineInv, Store!CounterInv, Store!TypeOK
  <2>2. clock \in Nat /\ clock <= MaxTime /\ Horizon[driver] \in 0 .. MaxTime /\ MaxTime \in Nat
    BY <2>1, StoreAssumption DEF Store!Time
  <2>3. clock' = clock \/ clock < Horizon[driver]
    BY DEF Environment, Counters!Environment, Counters!RedisEvict, Counters!Tick
  <2>. QED
    BY <1>1, <2>2, <2>3
<1>5. NotBegun(b)'
  BY <1>1, <1>2, <1>3, <1>4 DEF SlotOK, NotBegun
<1>6. \A x : Owes(x, b)' <=> Owes(x, b)
  BY <1>1, OthersOwe
<1>7. ASSUME Current(b)'
      PROVE  \E P \in SUBSET Requests :
               /\ \A x \in P : Owes(x, b)'
               /\ under'[b] <= counted'[b] + missed'[b] + Cardinality(P)
  <2>1. CASE Current(b)
    <3>1. PICK P \in SUBSET Requests :
            /\ \A x \in P : Owes(x, b)
            /\ under[b] <= counted[b] + missed[b] + Cardinality(P)
      BY <1>2, <2>1 DEF SlotOK, Owed
    <3>. QED
      BY <1>1, <1>6, <3>1
  <2>2. CASE ~Current(b)
    <3>1. b = Counters!bucketKey(b[1], clock')
      BY <1>7 DEF Current, Counters!bucketKey
    <3>2. b[2] <= clock' /\ clock' < b[2] + WindowOf[b[1][1]]
      BY <1>3, <1>4, <3>1, KeyOfTime
    <3>3. ~(b[2] <= clock)
      <4> SUFFICES ASSUME b[2] <= clock PROVE FALSE
        OBVIOUS
      <4>1. clock < b[2] + WindowOf[b[1][1]]
        BY <1>1, <1>3, <1>4, <3>2
      <4>2. Counters!bucketKey(b[1], clock) = Counters!bucketKey(b[1], clock')
        BY <1>3, <1>4, <3>1, <4>1, SameWindow
      <4>. QED
        BY <2>2, <3>1, <4>2 DEF Current
    <3>4. under[b] = 0
      BY <1>2, <1>3, <1>4, <3>3 DEF SlotOK, NotBegun
    <3>5. Cardinality({}) = 0
      BY FS_EmptySet
    <3>6. /\ {} \in SUBSET Requests /\ \A x \in {} : Owes(x, b)'
          /\ under'[b] <= counted'[b] + missed'[b] + Cardinality({})
      BY <1>1, <1>3, <3>4, <3>5
    <3>. QED
      BY <3>6, Zenon
  <2>. QED
    BY <2>1, <2>2
<1>8. Owed(b)'
  BY <1>7, Zenon DEF Owed
<1>9. Bounded(b)'
  BY <1>1, <1>2, LastingFixed DEF SlotOK, Bounded
<1>. QED
  BY <1>5, <1>8, <1>9 DEF SlotOK

LEMMA OvershootInit == ASSUME EngineInv, Init PROVE OvershootInv
<1> SUFFICES ASSUME NEW b \in Counters!Slot PROVE SlotOK(b)
  BY DEF OvershootInv
<1>1. under[b] = 0
  BY DEF Init
<1>2. Threshold[b[1][1]] \in Nat \ {0} /\ missed[b] \in Nat /\ counted[b] \in Nat
  BY SlotFields
<1>3. Cardinality(Requests) \in Nat /\ Cardinality({}) = 0
  BY RequestsFinite, FS_CardinalityType, FS_EmptySet
<1>4. Bounded(b)
  BY <1>1, <1>2, <1>3 DEF Bounded
<1>5. /\ {} \in SUBSET Requests /\ \A r \in {} : Owes(r, b)
      /\ under[b] <= counted[b] + missed[b] + Cardinality({})
  BY <1>1, <1>2, <1>3
<1>. QED
  BY <1>1, <1>4, <1>5, Zenon DEF SlotOK, Owed, NotBegun

LEMMA OvershootStep == EngineInv /\ EngineInv' /\ OvershootInv /\ [Next]_vars => OvershootInv'
<1> SUFFICES ASSUME EngineInv, EngineInv', OvershootInv, [Next]_vars PROVE OvershootInv'
  OBVIOUS
<1>1. CASE detectCycles \/ Loaded \/ UNCHANGED vars
  <2>1. UNCHANGED <<req, under, missed, counterVars>>
    BY <1>1 DEF detectCycles, Loaded, vars, engineVars
  <2>2. op' = op /\ clock' = clock /\ counted' = counted /\ driver' = driver
    BY <2>1 DEF counterVars
  <2> SUFFICES ASSUME NEW b \in Counters!Slot PROVE SlotOK(b)'
    BY DEF OvershootInv
  <2>3. SlotOK(b)
    BY DEF OvershootInv
  <2>4. \A x : Owes(x, b)' <=> Owes(x, b)
    BY <2>1, <2>2, OthersOwe
  <2>5. Current(b)' <=> Current(b)
    BY <2>2 DEF Current, Counters!bucketKey
  <2>6. Owed(b)'
    BY <2>1, <2>2, <2>3, <2>4, <2>5, Zenon DEF SlotOK, Owed
  <2>7. Bounded(b)'
    BY <2>1, <2>2, <2>3, LastingFixed DEF SlotOK, Bounded
  <2>. QED
    BY <2>1, <2>2, <2>3, <2>6, <2>7 DEF SlotOK, NotBegun
<1>. QED
  BY <1>1, OvershootMove, OvershootTime DEF Next, Terminated

\* Evaluate reads the counters and IncrementForRequest counts afterwards, so
\* concurrent requests pass a limit together; in one window at most the limit
\* plus the other goroutines, and one for each failed increment, do.  This is
\* so with the memory driver for every window, with redis for windows of whole
\* seconds or less than one, which are the ones a TTL covers.
THEOREM OvershootIsBounded == Spec => []OvershootBounded
<1>1. Init => EngineInv /\ OvershootInv
  BY EngineInit, OvershootInit
<1>2. EngineInv /\ OvershootInv /\ [Next]_vars => (EngineInv /\ OvershootInv)'
  BY EngineStep, OvershootStep
<1>3. OvershootInv => OvershootBounded
  BY DEF OvershootInv, SlotOK, Bounded, OvershootBounded
<1>. QED
  BY <1>1, <1>2, <1>3, PTL DEF Spec

(***************************************************************************)
(* The declarative meaning.  Without cycles the verdicts of the chains are *)
(* well defined: Meaning solves its own equation.                          *)
(***************************************************************************)
\* A set of natural numbers that is not empty has a least one.
LEMMA Least ==
  ASSUME NEW S \in SUBSET Nat, S # {}
  PROVE  \E m \in S : \A k \in S : m <= k
<1> DEFINE R == {ss \in Nat \X Nat : ss[1] < ss[2]}
<1>1. IsWellFoundedOn(R, Nat)
  BY NatLessThanWellFounded DEF OpToRel
<1>2. PICK m \in S : \A k \in S : ~(<<k, m>> \in R)
  <2> HIDE DEF R
  <2>. QED
    BY <1>1, WFMin
<1>3. ASSUME NEW k \in S PROVE m <= k
  <2>1. k < m => <<k, m>> \in R
    <3>1. <<k, m>> \in Nat \X Nat /\ <<k, m>>[1] = k /\ <<k, m>>[2] = m
      OBVIOUS
    <3>. QED
      BY <3>1
  <2>2. k \in Nat /\ m \in Nat
    OBVIOUS
  <2>. QED
    BY <1>2, <2>1, <2>2
<1>. QED
  BY <1>3

LEMMA FirstStop ==
  ASSUME ChainsOK, NEW n \in DOMAIN chains, NEW w, stops(n, w) # {}
  PROVE  firstStop(n, w) \in stops(n, w) /\ \A j \in stops(n, w) : firstStop(n, w) <= j
<1>1. stops(n, w) \in SUBSET Nat
  <2>1. DOMAIN chains[n].rules \subseteq Nat
    BY JumpsType DEF Known, Jumps
  <2>. QED
    BY <2>1 DEF stops
<1>2. \E i \in stops(n, w) : \A j \in stops(n, w) : i <= j
  BY <1>1, Least
<1>. QED
  BY <1>2 DEF firstStop

\* Chain n is decided by a JUMP, to that chain.
Jumping(n, w) == stops(n, w) # {} /\ chains[n].rules[firstStop(n, w)].target = "JUMP"
Goal(n, w) == chains[n].rules[firstStop(n, w)].chain

LEMMA GoalKnown ==
  ASSUME ChainsOK, checkRiskControl, NEW n \in DOMAIN chains, NEW w, Jumping(n, w)
  PROVE  /\ Goal(n, w) \in DOMAIN chains
         /\ \E j \in DOMAIN Jumps[n] : Jumps[n][j] = Goal(n, w)
<1> DEFINE i == firstStop(n, w)
<1>1. i \in DOMAIN chains[n].rules
  BY FirstStop DEF Jumping, stops
<1>2. isJump(chains[n].rules[i])
  BY DEF Jumping, isJump
<1>3. DOMAIN Jumps[n] = DOMAIN chains[n].rules /\ Jumps[n][i] = chains[n].rules[i].chain
  BY <1>1, <1>2 DEF Jumps
<1>. QED
  BY <1>1, <1>2, <1>3 DEF Goal, checkRiskControl

\* A chain's verdict depends on that of its goal, if it has one.
LEMMA JudgeLocal ==
  ASSUME NEW n, NEW w, NEW v, NEW u, Jumping(n, w) => v[Goal(n, w)] = u[Goal(n, w)]
  PROVE  Judge(v, n, w) = Judge(u, n, w)
BY DEF Judge, Jumping, Goal

\* Every set of chains has one that does not jump into it.
LEMMA Escapes ==
  ASSUME ChainsOK, checkRiskControl, ~Cycles!Cyclic, NEW w,
         NEW S \in SUBSET (DOMAIN chains), S # {}
  PROVE  \E n \in S : ~(Jumping(n, w) /\ Goal(n, w) \in S)
<1> SUFFICES ASSUME \A n \in S : Jumping(n, w) /\ Goal(n, w) \in S PROVE FALSE
  OBVIOUS
<1>1. \A n \in S : \E j \in DOMAIN Jumps[n] : Jumps[n][j] \in S
  BY GoalKnown
<1>2. S \in SUBSET Known
  BY JumpsType
<1>. QED
  BY <1>1, <1>2, CyclicMeans DEF Circular

\* v solves the equation of Meaning on C, which no goal leaves.
Solves(v, C, w) ==
  /\ C \subseteq DOMAIN chains
  /\ \A n \in C : Jumping(n, w) => Goal(n, w) \in C
  /\ \A n \in C : v[n] = Judge(v, n, w)

LEMMA SolutionsAgree ==
  ASSUME ChainsOK, checkRiskControl, ~Cycles!Cyclic, NEW w, NEW v, NEW u, NEW C, NEW E,
         Solves(v, C, w), Solves(u, E, w)
  PROVE  \A n \in C \intersect E : v[n] = u[n]
<1> DEFINE S == {n \in C \intersect E : v[n] # u[n]}
<1> SUFFICES ASSUME S # {} PROVE FALSE
  OBVIOUS
<1>1. S \in SUBSET (DOMAIN chains)
  BY DEF Solves
<1>2. PICK n \in S : ~(Jumping(n, w) /\ Goal(n, w) \in S)
  <2> HIDE DEF S
  <2>. QED
    BY <1>1, Escapes
<1>3. n \in C /\ n \in E /\ v[n] # u[n]
  OBVIOUS
<1>4. Jumping(n, w) => v[Goal(n, w)] = u[Goal(n, w)]
  BY <1>2, <1>3 DEF Solves
<1>5. Judge(v, n, w) = Judge(u, n, w)
  BY <1>4, JudgeLocal
<1>. QED
  BY <1>3, <1>5 DEF Solves

\* Every chain is in a set on which there is a solution.
LEMMA SolutionAt ==
  ASSUME ChainsOK, checkRiskControl, ~Cycles!Cyclic, NEW w, NEW m \in DOMAIN chains
  PROVE  \E v, C : Solves(v, C, w) /\ m \in C
<1> DEFINE D == DOMAIN chains
           S == {n \in D : ~\E v, C : Solves(v, C, w) /\ n \in C}
<1> SUFFICES ASSUME S # {} PROVE FALSE
  OBVIOUS
<1>1. PICK n \in S : ~(Jumping(n, w) /\ Goal(n, w) \in S)
  <2>1. S \in SUBSET D
    OBVIOUS
  <2> HIDE DEF S
  <2>. QED
    BY <2>1, Escapes
<1>2. n \in D /\ ~\E v, C : Solves(v, C, w) /\ n \in C
  OBVIOUS
<1>3. CASE ~Jumping(n, w)
  <2> DEFINE v == [k \in D |-> Judge(0, n, w)]
  <2>1. v[n] = Judge(0, n, w)
    BY <1>2
  <2> HIDE DEF v
  <2>2. Judge(v, n, w) = Judge(0, n, w)
    BY <1>3, JudgeLocal
  <2>3. Solves(v, {n}, w)
    BY <1>2, <1>3, <2>1, <2>2 DEF Solves
  <2>. QED
    BY <1>2, <2>3
<1>4. CASE Jumping(n, w)
  <2>1. Goal(n, w) \in D /\ Goal(n, w) \notin S
    BY <1>1, <1>2, <1>4, GoalKnown
  <2>2. PICK v, C : Solves(v, C, w) /\ Goal(n, w) \in C
    BY <2>1
  <2> DEFINE u == [k \in D |-> IF k = n THEN Judge(v, n, w) ELSE v[k]]
  <2>3. n \notin C /\ C \subseteq D
    BY <1>2, <2>2 DEF Solves
  <2>4. u[n] = Judge(v, n, w) /\ \A k \in C : u[k] = v[k]
    BY <1>2, <2>3
  <2> HIDE DEF u
  <2>5. ASSUME NEW k \in C PROVE u[k] = Judge(u, k, w)
    <3>1. Jumping(k, w) => u[Goal(k, w)] = v[Goal(k, w)]
      BY <2>2, <2>4 DEF Solves
    <3>2. Judge(u, k, w) = Judge(v, k, w)
      BY <3>1, JudgeLocal
    <3>. QED
      BY <2>2, <2>4, <3>2 DEF Solves
  <2>6. u[n] = Judge(u, n, w)
    <3>1. u[Goal(n, w)] = v[Goal(n, w)]
      BY <2>2, <2>4
    <3>2. Judge(u, n, w) = Judge(v, n, w)
      BY <3>1, JudgeLocal
    <3>. QED
      BY <2>4, <3>2
  <2>7. Solves(u, C \union {n}, w)
    BY <1>2, <2>2, <2>3, <2>5, <2>6 DEF Solves
  <2>. QED
    BY <1>2, <2>7
<1>. QED
  BY <1>3, <1>4

LEMMA MeaningSolves ==
  ASSUME ChainsOK, checkRiskControl, ~Cycles!Cyclic, NEW w
  PROVE  \A n \in DOMAIN chains : Meaning(w)[n] = Judge(Meaning(w), n, w)
<1> DEFINE D == DOMAIN chains
           At(x, n) == \E v, C : Solves(v, C, w) /\ n \in C /\ x = v[n]
           V == [n \in D |-> CHOOSE x : At(x, n)]
<1>1. ASSUME NEW n \in D, NEW v, NEW C, Solves(v, C, w), n \in C PROVE V[n] = v[n]
  <2>1. At(v[n], n)
    BY <1>1
  <2>2. At(CHOOSE x : At(x, n), n)
    BY <2>1
  <2>3. PICK u, E : Solves(u, E, w) /\ n \in E /\ (CHOOSE x : At(x, n)) = u[n]
    BY <2>2
  <2>4. u[n] = v[n]
    BY <1>1, <2>3, SolutionsAgree
  <2>. QED
    BY <2>3, <2>4
<1>2. ASSUME NEW n \in D PROVE V[n] = Judge(V, n, w)
  <2>1. PICK v, C : Solves(v, C, w) /\ n \in C
    BY SolutionAt
  <2>2. \A k \in C : k \in D /\ V[k] = v[k]
    BY <1>1, <2>1 DEF Solves
  <2> HIDE DEF V
  <2>3. Judge(V, n, w) = Judge(v, n, w)
    BY <2>1, <2>2, JudgeLocal DEF Solves
  <2>. QED
    BY <2>1, <2>2, <2>3 DEF Solves
<1>3. V = [n \in D |-> V[n]]
  OBVIOUS
<1> HIDE DEF V
<1>4. V = [n \in D |-> Judge(V, n, w)]
  BY <1>2, <1>3
<1>5. Meaning(w) = CHOOSE v : v = [n \in D |-> Judge(v, n, w)]
  BY Zenon DEF Meaning
<1>6. Meaning(w) = [n \in D |-> Judge(Meaning(w), n, w)]
  BY <1>4, <1>5, Zenon
<1>. QED
  BY <1>6, Zenon

(***************************************************************************)
(* An evaluation that has lost no read is on its way to that meaning.      *)
(***************************************************************************)
\* Whether the rule matches does not depend on a read to come.
Settled(rule, w) == TestsCounter(w, rule) => ~mustFetch(w, rule.counter.name)

\* The rules before the current ones did not decide.
Passed(f, w) ==
  \A i \in DOMAIN f : \A j \in DOMAIN chains[f[i].chain].rules :
    j < f[i].at => Settled(chains[f[i].chain].rules[j], w) /\ j \notin stops(f[i].chain, w)

\* The JUMP that called a chain decides the one it stands in.
Crossed(f, w) ==
  \A i \in DOMAIN f : i + 1 \in DOMAIN f =>
    Settled(chains[f[i].chain].rules[f[i].at], w) /\ f[i].at \in stops(f[i].chain, w)

VerdictFor(q) ==
  /\ q.pc \in Evaluating => q.frames[1].chain = "INPUT"
  /\ ~q.blind =>
       /\ q.pc \in Evaluating => Passed(q.frames, View(q)) /\ Crossed(q.frames, View(q))
       /\ q.pc = "returning" => q.dec = Meaning(View(q))[Top(q).chain]
       /\ q.pc = "counting" => q.dec = Meaning(View(q))["INPUT"]

VerdictInv == \A r \in Requests : req[r].pc # "idle" => VerdictFor(req[r])

\* The verdict is about the fields of the view.
LEMMA Viewed ==
  ASSUME NEW q
  PROVE  /\ View(q).in = q.in /\ View(q).cache = q.cache
         /\ \A rule : TestsCounter(View(q), rule) <=> TestsCounter(q, rule)
         /\ \A c : mustFetch(View(q), c) <=> mustFetch(q, c)
         /\ \A c : Cached(View(q), c) = Cached(q, c)
BY DEF View, TestsCounter, mustFetch, Cached

LEMMA SameView ==
  ASSUME NEW p, NEW q, p.in = q.in, p.cache = q.cache PROVE View(p) = View(q)
BY DEF View

\* The next rule: the current one has been tested and does not decide.
LEMMA NextVerdict ==
  ASSUME ChainsOK, NEW q \in Request, Walk(q), AtRule(q), VerdictFor(q),
         ~q.blind => /\ Settled(RuleOf(q), View(q))
                     /\ Top(q).at \notin stops(Top(q).chain, View(q)),
         NEW p, Later(q, p), p.pc = "rule", Moved(q.frames, p.frames)
  PROVE  VerdictFor(p)
<1> DEFINE k == Len(q.frames)
           w == View(q)
           f == q.frames
           g == p.frames
<1>1. q.pc = "rule" /\ f # <<>> /\ Called(f)
  BY DEF AtRule, Walk, Evaluating
<1>2. /\ k \in Nat \ {0} /\ DOMAIN f = 1 .. k /\ Top(q) = f[k]
      /\ \A i \in 1 .. k : f[i].chain \in DOMAIN chains /\ f[i].at \in Nat
  BY <1>1, TopOf DEF Frame, Called
<1>3. DOMAIN g = 1 .. k /\ \A i \in 1 .. k : /\ g[i].chain = f[i].chain
                                              /\ g[i].at = IF i = k THEN f[i].at + 1 ELSE f[i].at
  BY <1>2 DEF Moved
<1>4. View(p) = w /\ p.blind = q.blind
  BY SameView DEF Later
<1>5. g[1].chain = "INPUT"
  BY <1>1, <1>2, <1>3 DEF VerdictFor, Evaluating
<1>6. ASSUME ~q.blind PROVE Passed(g, w) /\ Crossed(g, w)
  <2>1. Passed(f, w) /\ Crossed(f, w)
    BY <1>1, <1>6 DEF VerdictFor, Evaluating
  <2>2. Settled(chains[f[k].chain].rules[f[k].at], w) /\ f[k].at \notin stops(f[k].chain, w)
    BY <1>2, <1>6 DEF RuleOf
  <2> HIDE DEF f, g, w, k
  <2>3. \A i \in 1 .. k : \A j \in DOMAIN chains[f[i].chain].rules :
          j \in Nat /\ (j < g[i].at => j < f[i].at \/ (i = k /\ j = f[i].at))
    <3>1. \A n \in DOMAIN chains : \A j \in DOMAIN chains[n].rules : j \in Nat
      BY JumpsType DEF Known, Jumps
    <3>. QED
      BY <1>2, <1>3, <3>1
  <2>4. Passed(g, w)
    BY <1>2, <1>3, <2>1, <2>2, <2>3 DEF Passed
  <2>5. \A i \in 1 .. k : i + 1 \in 1 .. k => g[i].at = f[i].at
    BY <1>2, <1>3
  <2>6. Crossed(g, w)
    BY <1>2, <1>3, <2>1, <2>5 DEF Crossed
  <2>. QED
    BY <2>4, <2>6
<1>. QED
  BY <1>4, <1>5, <1>6 DEF VerdictFor, Evaluating

\* A JUMP that decides its chain.
LEMMA JumpVerdict ==
  ASSUME ChainsOK, NEW q \in Request, Walk(q), AtRule(q), VerdictFor(q),
         ~q.blind => /\ Settled(RuleOf(q), View(q))
                     /\ Top(q).at \in stops(Top(q).chain, View(q)),
         NEW p, Later(q, p), p.pc = "rule", NEW n,
         p.frames = Append(q.frames, [chain |-> n, at |-> 1])
  PROVE  VerdictFor(p)
<1> DEFINE k == Len(q.frames)
           w == View(q)
           f == q.frames
           e == [chain |-> n, at |-> 1]
           g == Append(f, e)
<1>1. q.pc = "rule" /\ f # <<>> /\ Called(f)
  BY DEF AtRule, Walk, Evaluating
<1>2. /\ k \in Nat \ {0} /\ DOMAIN f = 1 .. k /\ Top(q) = f[k]
  BY <1>1, TopOf
<1>3. /\ DOMAIN g = 1 .. k + 1 /\ g[k + 1] = e /\ \A i \in 1 .. k : g[i] = f[i]
  <2>1. f \in Seq(Frame)
    BY RequestFields
  <2> HIDE DEF e, f
  <2>. QED
    BY <1>2, <2>1 DEF f
<1>4. View(p) = w /\ p.blind = q.blind /\ p.frames = g
  BY SameView DEF Later
<1>5. e.at = 1 /\ e.chain = n
  OBVIOUS
<1> HIDE DEF e
<1>6. g[1].chain = "INPUT"
  BY <1>1, <1>2, <1>3 DEF VerdictFor, Evaluating
<1>7. ASSUME ~q.blind PROVE Passed(g, w) /\ Crossed(g, w)
  <2>1. Passed(f, w) /\ Crossed(f, w)
    BY <1>1, <1>7 DEF VerdictFor, Evaluating
  <2>2. Settled(chains[f[k].chain].rules[f[k].at], w) /\ f[k].at \in stops(f[k].chain, w)
    BY <1>2, <1>7 DEF RuleOf
  <2>3. DOMAIN chains[n].rules \subseteq Nat \ {0}
    <3>1. Called(p.frames) /\ k + 1 \in DOMAIN p.frames
      BY <1>2, <1>3, SMTT(30) DEF Later, Walk, Evaluating
    <3>2. n \in DOMAIN chains
      BY <1>3, <1>5, <3>1, SMTT(30) DEF Called
    <3>. QED
      BY <3>2, JumpsType DEF Known, Jumps
  <2> HIDE DEF f, g, w, k
  <2>4. Passed(g, w)
    <3>1. \A j \in DOMAIN chains[n].rules : ~(j < 1)
      BY <2>3
    <3>2. \A i \in 1 .. k + 1 : i \in 1 .. k \/ i = k + 1
      BY <1>2
    <3>. QED
      BY <1>2, <1>3, <1>5, <2>1, <3>1, <3>2 DEF Passed
  <2>5. \A i \in 1 .. k + 1 : i + 1 \in 1 .. k + 1 => i \in 1 .. k /\ (i + 1 \in 1 .. k \/ i = k)
    BY <1>2
  <2>6. Crossed(g, w)
    BY <1>2, <1>3, <2>1, <2>2, <2>5 DEF Crossed
  <2>. QED
    BY <2>4, <2>6
<1> HIDE DEF g
<1>. QED
  BY <1>4, <1>6, <1>7 DEF VerdictFor, Evaluating

\* A decision that is the meaning of its chain.
LEMMA DecideVerdict ==
  ASSUME NEW q, VerdictFor(q), q.pc = "rule", NEW p, Later(q, p), p.pc = "returning",
         p.frames = q.frames, ~q.blind => p.dec = Meaning(View(q))[Top(q).chain]
  PROVE  VerdictFor(p)
<1>1. View(p) = View(q) /\ p.blind = q.blind /\ Top(p) = Top(q)
  BY SameView DEF Later, Top
<1>. QED
  BY <1>1 DEF VerdictFor, Evaluating

\* Where the chain on top is decided.
LEMMA Stopping ==
  ASSUME ChainsOK, NEW q \in Request, q.frames # <<>>, Called(q.frames), NEW w,
         Passed(q.frames, w)
  PROVE  LET n == Top(q).chain
         IN  /\ Top(q).at \in stops(n, w) => firstStop(n, w) = Top(q).at
             /\ Top(q).at > Len(chains[n].rules) => stops(n, w) = {}
<1> DEFINE n == Top(q).chain
           a == Top(q).at
           k == Len(q.frames)
<1>1. /\ k \in Nat \ {0} /\ DOMAIN q.frames = 1 .. k /\ Top(q) = q.frames[k]
      /\ n \in DOMAIN chains /\ a \in Nat \ {0} /\ Len(chains[n].rules) \in Nat
      /\ DOMAIN chains[n].rules = 1 .. Len(chains[n].rules)
  BY TopOf
<1>2. \A j \in DOMAIN chains[n].rules : j < a => j \notin stops(n, w)
  BY <1>1 DEF Passed
<1> HIDE DEF n, a, k
<1>3. \A j \in stops(n, w) : j \in DOMAIN chains[n].rules /\ j \in Nat /\ j >= a
  <2>1. \A j \in stops(n, w) : j \in DOMAIN chains[n].rules
    BY DEF stops
  <2>. QED
    BY <1>1, <1>2, <2>1
<1>4. ASSUME a \in stops(n, w) PROVE firstStop(n, w) = a
  <2>1. firstStop(n, w) \in stops(n, w) /\ firstStop(n, w) <= a
    BY <1>1, <1>4, FirstStop
  <2>. QED
    BY <1>1, <1>3, <2>1
<1>5. ASSUME a > Len(chains[n].rules) PROVE stops(n, w) = {}
  BY <1>1, <1>3, <1>5
<1>. QED
  BY <1>4, <1>5 DEF n, a

\* A chain decided at the rule on top of an evaluation.
LEMMA TopVerdict ==
  ASSUME ChainsOK, checkRiskControl, ~Cycles!Cyclic, NEW q \in Request, q.frames # <<>>,
         Called(q.frames), NEW w, Passed(q.frames, w)
  PROVE  LET n == Top(q).chain
             policy == [target |-> chains[n].policy.target,
                        reason |-> chains[n].policy.reason, chain |-> n]
         IN  /\ Top(q).at > Len(chains[n].rules) => Meaning(w)[n] = policy
             /\ Top(q).at \in stops(n, w) /\ RuleOf(q).target = "RETURN" => Meaning(w)[n] = policy
             /\ Top(q).at \in stops(n, w) /\ RuleOf(q).target \in Terminal =>
                  Meaning(w)[n] = [target |-> RuleOf(q).target, reason |-> RuleOf(q).reason,
                                   chain |-> n]
             /\ Top(q).at \in stops(n, w) /\ RuleOf(q).target = "JUMP" =>
                  Meaning(w)[n] = [Meaning(w)[RuleOf(q).chain] EXCEPT
                                     !.reason = IF @ = "" THEN RuleOf(q).reason ELSE @]
<1> DEFINE n == Top(q).chain
           a == Top(q).at
           M == Meaning(w)
<1>1. n \in DOMAIN chains
  BY TopOf
<1>2. M[n] = Judge(M, n, w)
  BY <1>1, MeaningSolves
<1>3. /\ a \in stops(n, w) => stops(n, w) # {} /\ chains[n].rules[firstStop(n, w)] = RuleOf(q)
      /\ a > Len(chains[n].rules) => stops(n, w) = {}
  BY Stopping DEF RuleOf
<1> DEFINE policy == [target |-> chains[n].policy.target,
                      reason |-> chains[n].policy.reason, chain |-> n]
           rule == chains[n].rules[firstStop(n, w)]
<1> HIDE DEF M
<1>4. /\ stops(n, w) = {} => Judge(M, n, w) = policy
      /\ rule.target = "RETURN" => Judge(M, n, w) = policy
      /\ stops(n, w) # {} /\ rule.target \in Terminal =>
           Judge(M, n, w) = [target |-> rule.target, reason |-> rule.reason, chain |-> n]
      /\ stops(n, w) # {} /\ rule.target = "JUMP" =>
           Judge(M, n, w) = [M[rule.chain] EXCEPT !.reason = IF @ = "" THEN rule.reason ELSE @]
  BY DEF Judge, Terminal
<1>5. ASSUME a \in stops(n, w) PROVE stops(n, w) # {} /\ rule = RuleOf(q)
  BY <1>3, <1>5, SMTT(30)
<1>6. a > Len(chains[n].rules) => M[n] = policy
  BY <1>2, <1>3, <1>4
<1>7. a \in stops(n, w) /\ RuleOf(q).target = "RETURN" => M[n] = policy
  BY <1>2, <1>4, <1>5, Zenon
<1>8. a \in stops(n, w) /\ RuleOf(q).target \in Terminal =>
        M[n] = [target |-> RuleOf(q).target, reason |-> RuleOf(q).reason, chain |-> n]
  BY <1>2, <1>4, <1>5, Zenon
<1>9. a \in stops(n, w) /\ RuleOf(q).target = "JUMP" =>
        M[n] = [M[RuleOf(q).chain] EXCEPT !.reason = IF @ = "" THEN RuleOf(q).reason ELSE @]
  <2>1. ASSUME a \in stops(n, w), rule.target = "JUMP"
        PROVE  M[n] = [M[rule.chain] EXCEPT !.reason = IF @ = "" THEN rule.reason ELSE @]
    BY <1>2, <1>4, <1>5, <2>1, Zenon
  <2> HIDE DEF rule
  <2>. QED
    BY <1>5, <2>1, Zenon
<1>. QED
  BY <1>6, <1>7, <1>8, <1>9, Zenon DEF M

\* A rule is tested, with the counter value the evaluation has.
LEMMA TestVerdict ==
  ASSUME ChainsOK, checkRiskControl, ~Cycles!Cyclic, NEW q \in Request, Walk(q), AtRule(q),
         VerdictFor(q), NEW v,
         ~q.blind => /\ Settled(RuleOf(q), View(q))
                     /\ TestsCounter(q, RuleOf(q)) => v = Cached(q, RuleOf(q).counter.name)
  PROVE  VerdictFor(afterTest(q, v))
<1> DEFINE n == Top(q).chain
           a == Top(q).at
           rule == RuleOf(q)
           w == View(q)
           p == afterTest(q, v)
           hit == /\ q.in.kind \in rule.kinds
                  /\ \/ rule.counter = NoCounter
                     \/ compareCounter(v, rule.counter.op, rule.counter.value)
<1>1. /\ q.pc = "rule" /\ q.frames # <<>> /\ Called(q.frames)
      /\ a <= Len(chains[n].rules)
  BY DEF Walk, Evaluating, AtRule
<1>2. n \in DOMAIN chains /\ n \in Names /\ a \in DOMAIN chains[n].rules
  BY <1>1, TopOf
<1>3. rule \in Rule /\ rule = chains[n].rules[a]
  <2>1. chains[n].rules \in Seq(Rule)
    BY <1>1, TopOf
  <2>. QED
    BY <1>2, <2>1 DEF RuleOf
<1>4. p = IF hit THEN dispatch(q) ELSE NextRule(q)
  BY DEF afterTest
<1>5. ~q.blind => (a \in stops(n, w) <=> hit /\ rule.target \notin {"LOG", "MARK"})
  <2>1. ~q.blind => (hit <=> hits(rule, w))
    BY Viewed, Zenon DEF hits, TestsCounter
  <2>. QED
    BY <1>2, <1>3, <2>1 DEF stops
<1>6. ~q.blind => Passed(q.frames, w)
  BY <1>1 DEF VerdictFor, Evaluating
<1> HIDE DEF hit, p, w
<1>7. CASE ~hit
  BY <1>1, <1>4, <1>5, <1>7, NextRuleOK, NextVerdict DEF w, p
<1>8. CASE hit /\ rule.target \in Terminal
  <2> DEFINE d == [target |-> rule.target, reason |-> rule.reason, chain |-> n]
  <2>1. p = Decide(q, d)
    BY <1>4, <1>8 DEF dispatch, Terminal
  <2>2. d \in Decision /\ d.target \in Terminal
    BY <1>2, <1>3, <1>8 DEF Decision, Rule
  <2>3. ~q.blind => d = Meaning(w)[n]
    <3>1. ~q.blind => a \in stops(n, w)
      BY <1>5, <1>8 DEF Terminal
    <3>. QED
      BY <1>1, <1>6, <1>8, <3>1, TopVerdict, Zenon
  <2> HIDE DEF d
  <2>4. Later(q, p) /\ p.pc = "returning" /\ p.frames = q.frames /\ p.dec = d
    BY <1>1, <2>1, <2>2, DecideOK
  <2>. QED
    BY <1>1, <2>3, <2>4, DecideVerdict DEF w, p
<1>9. CASE hit /\ rule.target = "JUMP"
  <2>1. p = enterChain(q, rule.chain)
    BY <1>4, <1>9 DEF dispatch, Terminal
  <2>2. isJump(rule) /\ rule.chain \in DOMAIN chains
    BY <1>2, <1>3, <1>9 DEF isJump, checkRiskControl
  <2>3. /\ Later(q, p) /\ p.pc = "rule"
        /\ p.frames = Append(q.frames, [chain |-> rule.chain, at |-> 1])
    BY <2>1, <2>2, EnterOK
  <2>4. ~q.blind => a \in stops(n, w)
    BY <1>5, <1>9
  <2>. QED
    BY <2>3, <2>4, JumpVerdict DEF w, p
<1>10. CASE hit /\ rule.target = "RETURN"
  <2> DEFINE d == [target |-> chains[n].policy.target, reason |-> chains[n].policy.reason,
                   chain |-> n]
  <2>1. p = applyPolicy(q)
    BY <1>4, <1>10 DEF dispatch, Terminal
  <2>2. Later(q, p) /\ p.pc = "returning" /\ p.frames = q.frames /\ p.dec = d
    BY <1>1, <2>1, PolicyOK
  <2>3. ~q.blind => d = Meaning(w)[n]
    <3>1. ~q.blind => a \in stops(n, w)
      BY <1>5, <1>10
    <3>. QED
      BY <1>1, <1>6, <1>10, <3>1, TopVerdict, Zenon
  <2> HIDE DEF d
  <2>. QED
    BY <1>1, <2>2, <2>3, DecideVerdict DEF w, p
<1>11. CASE hit /\ rule.target = "LOG"
  <2>1. p = NextRule(q)
    BY <1>4, <1>11 DEF dispatch, Terminal
  <2>2. ~q.blind => a \notin stops(n, w)
    BY <1>5, <1>11
  <2>. QED
    BY <1>1, <2>1, <2>2, NextRuleOK, NextVerdict DEF w, p
<1>12. CASE hit /\ rule.target = "MARK"
  <2> DEFINE m == IF rule.mark = "" THEN q ELSE [q EXCEPT !.marks = Append(@, rule.mark)]
  <2>1. p = NextRule(m)
    BY <1>4, <1>12 DEF dispatch, Terminal
  <2>2. /\ m \in Request /\ m.pc = q.pc /\ m.frames = q.frames /\ m.visited = q.visited
        /\ m.in = q.in /\ m.cache = q.cache /\ m.todo = q.todo /\ m.blind = q.blind
    <3>1. q.marks \in Seq(Texts) /\ rule.mark \in Texts
      BY <1>3, RequestFields DEF Rule
    <3>2. Append(q.marks, rule.mark) \in Seq(Texts)
      BY <3>1
    <3>. QED
      BY <3>2 DEF Request
  <2> HIDE DEF m
  <2>3. Walk(m)
    BY <1>1, <2>2 DEF Walk, Evaluating
  <2>4. Later(m, p) /\ p.pc = "rule" /\ Moved(m.frames, p.frames)
    BY <1>1, <2>1, <2>2, <2>3, NextRuleOK
  <2>5. Later(q, p) /\ Moved(q.frames, p.frames)
    BY <2>2, <2>4 DEF Later
  <2>6. ~q.blind => a \notin stops(n, w)
    BY <1>5, <1>12
  <2>. QED
    BY <2>4, <2>5, <2>6, NextVerdict DEF w, p
<1>. QED
  BY <1>3, <1>7, <1>8, <1>9, <1>10, <1>11, <1>12 DEF Rule, Targets, p

LEMMA EndVerdict ==
  ASSUME ChainsOK, checkRiskControl, ~Cycles!Cyclic, NEW q \in Request, Walk(q), q.pc = "rule",
         ~AtRule(q), VerdictFor(q)
  PROVE  VerdictFor(applyPolicy(q))
<1> DEFINE n == Top(q).chain
           w == View(q)
           p == applyPolicy(q)
           d == [target |-> chains[n].policy.target, reason |-> chains[n].policy.reason,
                 chain |-> n]
<1>1. q.frames # <<>> /\ Called(q.frames)
  BY DEF Walk, Evaluating
<1>2. Top(q).at > Len(chains[n].rules)
  BY <1>1, TopOf DEF AtRule
<1>3. ~q.blind => Passed(q.frames, w)
  BY DEF VerdictFor, Evaluating
<1>4. Later(q, p) /\ p.pc = "returning" /\ p.frames = q.frames /\ p.dec = d
  BY PolicyOK
<1>5. ~q.blind => d = Meaning(w)[n]
  BY <1>1, <1>2, <1>3, TopVerdict, Zenon
<1> HIDE DEF d, p
<1>. QED
  BY <1>4, <1>5, DecideVerdict DEF p

LEMMA ReturnVerdict ==
  ASSUME ChainsOK, checkRiskControl, ~Cycles!Cyclic, NEW q \in Request, Walk(q),
         q.pc = "returning", VerdictFor(q)
  PROVE  VerdictFor(Popped(q))
<1> DEFINE k == Len(q.frames)
           f == q.frames
           w == View(q)
           p == Popped(q)
<1>1. f # <<>> /\ Called(f) /\ f \in Seq(Frame)
  BY RequestFields DEF Walk, Evaluating
<1>2. /\ k \in Nat \ {0} /\ DOMAIN f = 1 .. k /\ Top(q) = f[k]
  BY <1>1, TopOf
<1>3. /\ p \in Request /\ Walk(p) /\ p.in = q.in /\ p.cache = q.cache /\ p.blind = q.blind
  BY ReturnOK
<1>4. \/ p.pc = "counting" /\ Len(q.frames) = 1 /\ p.dec = q.dec
      \/ /\ p.pc = "returning" /\ Len(q.frames) # 1 /\ p.frames = Front(q.frames)
         /\ p.dec = [q.dec EXCEPT !.reason = IF @ = "" THEN RuleOf(p).reason ELSE @]
  BY ReturnOK, Zenon
<1>5. View(p) = w
  BY <1>3, SameView
<1>6. /\ f[1].chain = "INPUT"
      /\ ~q.blind => /\ Passed(f, w) /\ Crossed(f, w)
                     /\ q.dec = Meaning(w)[f[k].chain]
  BY <1>2 DEF VerdictFor, Evaluating
<1> HIDE DEF p, w, k
<1>7. CASE p.pc = "counting" /\ k = 1 /\ p.dec = q.dec
  <2>1. ~p.blind => p.dec = Meaning(View(p))["INPUT"]
    BY <1>3, <1>5, <1>6, <1>7
  <2>. QED
    BY <1>7, <2>1 DEF VerdictFor, Evaluating, p
<1>8. CASE /\ p.pc = "returning" /\ k # 1 /\ p.frames = Front(q.frames)
           /\ p.dec = [q.dec EXCEPT !.reason = IF @ = "" THEN RuleOf(p).reason ELSE @]
  <2> DEFINE g == p.frames
  <2>0. p.pc = "returning" /\ k # 1 /\ p.frames = Front(f)
    BY <1>8, Zenon
  <2>1. g # <<>> /\ Called(g)
    BY <1>3, <2>0 DEF Walk, Evaluating
  <2>2. DOMAIN g = 1 .. k - 1 /\ \A i \in 1 .. k - 1 : g[i] = f[i]
    BY <1>1, <1>2, <2>0, FrontLast DEF k
  <2>3. Top(p) = f[k - 1]
    <3>1. /\ Len(g) \in Nat \ {0} /\ DOMAIN g = 1 .. Len(g) /\ Top(p) = g[Len(g)]
      BY <1>3, <2>1, TopOf
    <3>2. Len(g) = k - 1
      BY <1>1, <2>0, FrontLast DEF k
    <3> HIDE DEF g
    <3>. QED
      BY <1>2, <2>0, <2>2, <3>1, <3>2
  <2> HIDE DEF g
  <2>4. k - 1 \in 1 .. k /\ (k - 1) + 1 = k /\ 1 \in 1 .. k - 1 /\ k \in 1 .. k
    BY <1>2, <2>0, SMTT(30)
  <2>5. /\ RuleOf(p).target = "JUMP" /\ RuleOf(p).chain = f[k].chain
    BY <1>1, <1>2, <2>3, <2>4 DEF Called, isJump, RuleOf
  <2>6. ASSUME ~q.blind PROVE Passed(g, w) /\ Crossed(g, w)
    <3>1. \A i \in 1 .. k - 1 : i \in 1 .. k /\ (i + 1 \in 1 .. k - 1 => i + 1 \in 1 .. k)
      BY <1>2
    <3>2. Passed(g, w)
      BY <1>2, <1>6, <2>2, <2>6, <3>1 DEF Passed
    <3>3. Crossed(g, w)
      BY <1>2, <1>6, <2>2, <2>6, <3>1 DEF Crossed
    <3>. QED
      BY <3>2, <3>3
  <2>7. ASSUME ~q.blind PROVE p.dec = Meaning(w)[Top(p).chain]
    <3>1. Top(p).at \in stops(Top(p).chain, w)
      BY <1>2, <1>6, <2>3, <2>4, <2>7 DEF Crossed
    <3>2. Meaning(w)[Top(p).chain] = [Meaning(w)[RuleOf(p).chain] EXCEPT
                                        !.reason = IF @ = "" THEN RuleOf(p).reason ELSE @]
      BY <1>3, <2>1, <2>5, <2>6, <2>7, <3>1, TopVerdict, Zenon DEF g
    <3>3. Meaning(w)[RuleOf(p).chain] = q.dec
      BY <1>6, <2>5, <2>7
    <3>. QED
      BY <1>8, <3>2, <3>3, Zenon
  <2>8. p.frames[1].chain = "INPUT"
    BY <1>6, <2>2, <2>4 DEF g
  <2>9. p.pc = "returning"
    BY <1>8
  <2>. QED
    BY <1>3, <1>5, <2>6, <2>7, <2>8, <2>9 DEF VerdictFor, Evaluating, g, p
<1>. QED
  BY <1>4, <1>7, <1>8, Zenon DEF k

\* A value that was still to be read changes no rule that has been tested.
LEMMA ReadVerdict ==
  ASSUME ChainsOK, NEW q \in Request, Walk(q), q.pc = "reading", VerdictFor(q), NEW c, q.cache[c] = Unread,
         q.in.key # NoKey, NEW p, p.pc = "rule", p.frames = q.frames, p.in = q.in,
         ~p.blind => ~q.blind /\ \A b \in CounterNames : b # c => p.cache[b] = q.cache[b]
  PROVE  VerdictFor(p)
<1> DEFINE w == View(q)
           u == View(p)
<1>1. ASSUME ~p.blind, NEW rule, Settled(rule, w), rule.counter \in CounterMatch \union {NoCounter}
      PROVE  Settled(rule, u) /\ (hits(rule, u) <=> hits(rule, w))
  <2>1. u.in = w.in /\ w.cache = q.cache /\ u.cache = p.cache /\ w.in = q.in
    BY Viewed
  <2>2. CASE TestsCounter(w, rule)
    <3> DEFINE b == rule.counter.name
    <3>1. b # c /\ b \in CounterNames
      BY <1>1, <2>1, <2>2 DEF Settled, TestsCounter, mustFetch, CounterMatch
    <3>2. u.cache[b] = w.cache[b]
      BY <1>1, <2>1, <3>1
    <3>3. mustFetch(u, b) <=> mustFetch(w, b)
      BY <2>1, <3>2 DEF mustFetch
    <3>4. Cached(u, b) = Cached(w, b)
      BY <3>2 DEF Cached
    <3>5. TestsCounter(u, rule) <=> TestsCounter(w, rule)
      BY <2>1 DEF TestsCounter
    <3> HIDE DEF u, w
    <3>. QED
      BY <1>1, <2>1, <3>3, <3>4, <3>5 DEF Settled, hits
  <2>3. CASE ~TestsCounter(w, rule)
    <3>1. ~TestsCounter(u, rule)
      BY <2>1, <2>3 DEF TestsCounter
    <3> HIDE DEF u, w
    <3>. QED
      BY <2>1, <2>3, <3>1 DEF Settled, hits, TestsCounter
  <2>. QED
    BY <2>2, <2>3
<1>2. ASSUME NEW i \in DOMAIN q.frames, NEW j \in DOMAIN chains[q.frames[i].chain].rules
      PROVE  chains[q.frames[i].chain].rules[j].counter \in CounterMatch \union {NoCounter}
  <2>1. q.frames[i].chain \in DOMAIN chains
    BY DEF Walk, Evaluating, Called
  <2>2. chains[q.frames[i].chain].rules \in Seq(Rule)
    BY <2>1, JumpsType
  <2>3. chains[q.frames[i].chain].rules[j] \in Rule
    BY <2>2, SMTT(30)
  <2>. QED
    BY <2>3 DEF Rule
<1>3. ASSUME ~p.blind, NEW i \in DOMAIN q.frames,
             NEW j \in DOMAIN chains[q.frames[i].chain].rules,
             Settled(chains[q.frames[i].chain].rules[j], w)
      PROVE  /\ Settled(chains[q.frames[i].chain].rules[j], u)
             /\ j \in stops(q.frames[i].chain, u) <=> j \in stops(q.frames[i].chain, w)
  BY <1>1, <1>2, <1>3 DEF stops
<1>4. ~p.blind => Passed(q.frames, w) /\ Crossed(q.frames, w)
  BY DEF VerdictFor, Evaluating
<1>5. Called(q.frames) /\ q.frames[1].chain = "INPUT"
  BY DEF Walk, VerdictFor, Evaluating
<1> HIDE DEF u, w
<1>6. ~p.blind => Passed(q.frames, u)
  BY <1>3, <1>4 DEF Passed
<1>7. ~p.blind => Crossed(q.frames, u)
  BY <1>3, <1>4, <1>5 DEF Crossed, Called
<1>. QED
  BY <1>5, <1>6, <1>7 DEF VerdictFor, Evaluating, u

LEMMA FreshVerdict ==
  ASSUME ChainsOK, NEW in \in Inputs PROVE VerdictFor(enterChain(Fresh(in), "INPUT"))
<1> DEFINE p == enterChain(Fresh(in), "INPUT")
           e == [chain |-> "INPUT", at |-> 1]
           f == <<e>>
<1>1. /\ Walk(p) /\ p.pc \in {"rule", "failed"}
      /\ p.pc = "rule" => p.frames = f
  BY FreshOK
<1>2. DOMAIN f = {1} /\ f[1] = e /\ e.chain = "INPUT" /\ e.at = 1
  OBVIOUS
<1> HIDE DEF p, e, f
<1>3. ASSUME p.pc = "rule" PROVE p.frames = f /\ "INPUT" \in DOMAIN chains
  BY <1>1, <1>2, <1>3 DEF Walk, Evaluating, Called
<1>4. ASSUME NEW w, "INPUT" \in DOMAIN chains PROVE Passed(f, w) /\ Crossed(f, w)
  <2>1. \A j \in DOMAIN chains["INPUT"].rules : ~(j < 1)
    <3>1. DOMAIN chains["INPUT"].rules \subseteq Nat \ {0}
      BY <1>4, JumpsType DEF Known, Jumps
    <3>. QED
      BY <3>1
  <2>2. Passed(f, w)
    BY <1>2, <2>1 DEF Passed
  <2>3. Crossed(f, w)
    BY <1>2, 1 + 1 \notin {1} DEF Crossed
  <2>. QED
    BY <2>2, <2>3
<1>5. CASE p.pc = "rule"
  BY <1>2, <1>3, <1>4, <1>5 DEF VerdictFor, Evaluating, p
<1>6. CASE p.pc = "failed"
  BY <1>6 DEF VerdictFor, Evaluating, p
<1>. QED
  BY <1>1, <1>5, <1>6

\* A step that keeps the place and the view.
LEMMA SameVerdict ==
  ASSUME NEW q, NEW p, VerdictFor(q), p.in = q.in, p.cache = q.cache, p.blind = q.blind,
         \/ q.pc = "counting" /\ p.pc = "counting" /\ p.dec = q.dec
         \/ q.pc = "rule" /\ p.pc = "reading" /\ p.frames = q.frames
  PROVE  VerdictFor(p)
<1>1. View(p) = View(q)
  BY SameView
<1>. QED
  BY <1>1 DEF VerdictFor, Evaluating

\* The answer of the store decides the rule that asked.
LEMMA ResolveVerdict ==
  ASSUME EngineInv, NEW r \in Requests, Resolve(r), VerdictFor(req[r])
  PROVE  VerdictFor(req'[r])
<1> DEFINE q  == [req[r] EXCEPT !.pc = "rule"]
           c  == op[r].series[1]
           ok == op[r].pc = "ok"
           v  == IF ok THEN op[r].value ELSE 0
           q1 == IF ok THEN [q EXCEPT !.cache[c] = v] ELSE [q EXCEPT !.blind = TRUE]
<1>1. /\ req[r].pc = "reading" /\ op[r].pc # "idle"
      /\ req' = [req EXCEPT ![r] = afterTest(q1, v)]
  BY DEF Resolve, Counters!Outcomes
<1>2. /\ req[r] \in Request /\ Walk(req[r]) /\ Asks(req[r], op[r])
      /\ req \in [Requests -> Request \union {Idle}]
      /\ ChainsOK /\ ~Cycles!Cyclic /\ checkRiskControl
  BY <1>1, Active
<1>3. /\ op[r].series \in Series /\ op[r].value \in Nat /\ c \in CounterNames
      /\ op[r].series[2] \in Keys
  BY <1>1, CallType DEF Store!Op, Series
<1>4. /\ req[r].in.key # NoKey /\ req[r].cache[c] = Unread /\ RuleOf(req[r]).counter # NoCounter
      /\ c = RuleOf(req[r]).counter.name /\ Top(req[r]).at <= Len(chains[Top(req[r]).chain].rules)
  BY <1>1, <1>2, <1>3, CounterAssumption DEF Asks
<1>5. v \in Nat
  BY <1>3
<1>6. /\ q \in Request /\ q.pc = "rule" /\ q.frames = req[r].frames /\ q.in = req[r].in
      /\ q.visited = req[r].visited /\ q.cache = req[r].cache /\ q.blind = req[r].blind
  BY <1>2 DEF Request
<1> HIDE DEF q, v, c
<1>7. /\ q1 \in Request /\ q1.pc = "rule" /\ q1.frames = req[r].frames
      /\ q1.visited = req[r].visited /\ q1.in = req[r].in
      /\ ~q1.blind => /\ ok /\ ~req[r].blind
                      /\ q1.cache[c] = v
                      /\ \A b \in CounterNames : b # c => q1.cache[b] = req[r].cache[b]
  <2>1. CASE ok
    <3> DEFINE ch == [q.cache EXCEPT ![c] = v]
    <3>0. q.cache \in [CounterNames -> Nat \union {Unread}]
      BY <1>6, RequestFields
    <3>1. /\ ch \in [CounterNames -> Nat \union {Unread}] /\ ch[c] = v
          /\ \A b \in CounterNames : b # c => ch[b] = q.cache[b]
      BY <1>3, <1>5, <3>0
    <3>2. q1 = [q EXCEPT !.cache = ch]
      BY <2>1
    <3> HIDE DEF ch, ok, q1
    <3>3. /\ q1 \in Request /\ q1.pc = "rule" /\ q1.frames = req[r].frames /\ q1.cache = ch
          /\ q1.visited = req[r].visited /\ q1.in = req[r].in /\ q1.blind = q.blind
      BY <1>6, <3>1, <3>2 DEF Request
    <3>. QED
      BY <1>6, <2>1, <3>1, <3>3
  <2>2. CASE ~ok
    <3>1. q1 = [q EXCEPT !.blind = TRUE]
      BY <2>2
    <3> HIDE DEF q1
    <3>2. q1.blind = TRUE
      BY <1>6, <3>1, ZenonT(60) DEF Request
    <3>. QED
      BY <1>6, <3>1, <3>2 DEF Request
  <2>. QED
    BY <2>1, <2>2
<1> HIDE DEF q1, ok
<1>8. Walk(q1) /\ AtRule(q1) /\ RuleOf(q1) = RuleOf(req[r])
  <2>1. Walk(q1)
    BY <1>1, <1>2, <1>7 DEF Walk, Evaluating
  <2>2. Top(q1) = Top(req[r])
    BY <1>7 DEF Top
  <2>. QED
    BY <1>4, <1>7, <2>1, <2>2 DEF AtRule, RuleOf
<1>9. VerdictFor(q1)
  BY <1>1, <1>2, <1>4, <1>7, ReadVerdict
<1>10. ~q1.blind => ~mustFetch(q1, c) /\ Cached(q1, c) = v
  BY <1>5, <1>7 DEF mustFetch, Cached, Unread
<1>11. ~q1.blind => Settled(RuleOf(q1), View(q1))
  BY <1>4, <1>8, <1>10, Viewed DEF Settled
<1>12. VerdictFor(afterTest(q1, v))
  BY <1>2, <1>4, <1>7, <1>8, <1>9, <1>10, <1>11, TestVerdict
<1>. QED
  BY <1>1, <1>2, <1>12

LEMMA StepVerdict ==
  ASSUME EngineInv, NEW r \in Requests, Step(r), req[r].pc # "idle" => VerdictFor(req[r])
  PROVE  /\ chains' = chains /\ req' = [req EXCEPT ![r] = req'[r]]
         /\ req'[r].pc # "idle" => VerdictFor(req'[r])
<1> DEFINE q == req[r]
           Goes == /\ chains' = chains /\ req' = [req EXCEPT ![r] = req'[r]]
                   /\ req'[r].pc # "idle" => VerdictFor(req'[r])
<1>0. req \in [Requests -> Request \union {Idle}] /\ ChainsOK
  BY DEF EngineInv
<1>1. ASSUME NEW p, req' = [req EXCEPT ![r] = p], chains' = chains,
             p.pc # "idle" => VerdictFor(p)
      PROVE  Goes
  <2>1. req'[r] = p
    BY <1>0, <1>1
  <2>. QED
    BY <1>1, <2>1
<1>2. ASSUME q.pc # "idle"
      PROVE  /\ q \in Request /\ Walk(q) /\ Asks(q, op[r]) /\ VerdictFor(q)
             /\ ChainsOK /\ ~Cycles!Cyclic /\ checkRiskControl
  BY <1>2, Active
<1> SUFFICES Goes
  OBVIOUS
<1> HIDE DEF Goes
<1>3. ASSUME NEW in \in Inputs, Evaluate(r, in) PROVE Goes
  <2>1. VerdictFor(enterChain(Fresh(in), "INPUT"))
    BY <1>0, FreshVerdict
  <2>2. req' = [req EXCEPT ![r] = enterChain(Fresh(in), "INPUT")] /\ chains' = chains
    BY <1>3 DEF Evaluate
  <2>. QED
    BY <1>1, <2>1, <2>2
<1>4. CASE Match(r)
  <2> DEFINE c == RuleOf(q).counter.name
             v == IF TestsCounter(q, RuleOf(q)) THEN Cached(q, c) ELSE 0
  <2>1. /\ AtRule(q) /\ q.pc # "idle" /\ (TestsCounter(q, RuleOf(q)) => ~mustFetch(q, c))
        /\ req' = [req EXCEPT ![r] = afterTest(q, v)] /\ chains' = chains
    BY <1>4 DEF Match, Become, AtRule
  <2>2. Settled(RuleOf(q), View(q))
    BY <2>1, Viewed DEF Settled
  <2>3. TestsCounter(q, RuleOf(q)) => v = Cached(q, c)
    OBVIOUS
  <2> HIDE DEF v
  <2>4. VerdictFor(afterTest(q, v))
    BY <1>2, <2>1, <2>2, <2>3, TestVerdict
  <2>. QED
    BY <1>1, <2>1, <2>4
<1>5. CASE Fetch(r)
  <2> DEFINE p == [q EXCEPT !.pc = "reading"]
  <2>1. q.pc = "rule" /\ req' = [req EXCEPT ![r] = p] /\ chains' = chains
    BY <1>5 DEF Fetch, Become, AtRule
  <2>2. /\ p.pc = "reading" /\ p.frames = q.frames /\ p.in = q.in /\ p.cache = q.cache
        /\ p.blind = q.blind
    BY <1>2, <2>1 DEF Request
  <2> HIDE DEF p
  <2>3. VerdictFor(p)
    BY <1>2, <2>1, <2>2, SameVerdict
  <2>. QED
    BY <1>1, <2>1, <2>3
<1>6. CASE Resolve(r)
  <2>1. q.pc # "idle" /\ chains' = chains /\ \E p : req' = [req EXCEPT ![r] = p]
    BY <1>6 DEF Resolve
  <2>2. VerdictFor(req'[r])
    BY <1>2, <1>6, <2>1, ResolveVerdict
  <2>3. PICK p : req' = [req EXCEPT ![r] = p]
    BY <2>1
  <2>4. req'[r] = p
    BY <1>0, <2>3
  <2>. QED
    BY <1>1, <2>1, <2>2, <2>3, <2>4
<1>7. CASE EndOfChain(r)
  <2>1. /\ q.pc = "rule" /\ ~AtRule(q) /\ chains' = chains
        /\ req' = [req EXCEPT ![r] = applyPolicy(q)]
    BY <1>7 DEF EndOfChain, Become
  <2>2. VerdictFor(applyPolicy(q))
    BY <1>2, <2>1, EndVerdict
  <2>. QED
    BY <1>1, <2>1, <2>2
<1>8. CASE ReturnToCaller(r)
  <2>1. q.pc = "returning" /\ chains' = chains /\ req' = [req EXCEPT ![r] = Popped(q)]
    BY <1>8 DEF ReturnToCaller, Become, Popped
  <2>2. VerdictFor(Popped(q))
    BY <1>2, <2>1, ReturnVerdict
  <2>. QED
    BY <1>1, <2>1, <2>2
<1>9. ASSUME NEW c \in CounterNames, Count(r, c) PROVE Goes
  <2> DEFINE p == [q EXCEPT !.todo = @ \ {c}]
  <2>1. q.pc = "counting" /\ req' = [req EXCEPT ![r] = p] /\ chains' = chains
    BY <1>9 DEF Count, Become
  <2>2. p.pc = "counting" /\ p.in = q.in /\ p.cache = q.cache /\ p.blind = q.blind /\ p.dec = q.dec
    BY <1>2, <2>1 DEF Request
  <2> HIDE DEF p
  <2>3. VerdictFor(p)
    BY <1>2, <2>1, <2>2, SameVerdict
  <2>. QED
    BY <1>1, <2>1, <2>3
<1>10. CASE Counted(r) \/ StoreStep(r)
  <2>1. req' = req /\ chains' = chains
    BY <1>10 DEF Counted, StoreStep
  <2>2. req' = [req EXCEPT ![r] = q]
    BY <1>0, <2>1
  <2>. QED
    BY <1>1, <2>1, <2>2
<1>11. CASE Finish(r)
  <2>1. req' = [req EXCEPT ![r] = Idle] /\ chains' = chains /\ Idle.pc = "idle"
    BY <1>11 DEF Finish, Become, Idle
  <2>. QED
    BY <1>1, <2>1
<1>. QED
  BY <1>3, <1>4, <1>5, <1>6, <1>7, <1>8, <1>9, <1>10, <1>11, Zenon DEF Step

\* The meaning belongs to the rule set, which never changes.
LEMMA VerdictKept ==
  ASSUME chains' = chains, NEW x \in Requests, VerdictFor(req'[x]) PROVE VerdictFor(req[x])'
<1> DEFINE w == View(req'[x])
           f == req'[x].frames
<1>1. Passed(req[x].frames, View(req[x]))' <=> Passed(f, w)
  BY Zenon DEF Passed, stops
<1>2. Crossed(req[x].frames, View(req[x]))' <=> Crossed(f, w)
  BY Zenon DEF Crossed, stops
<1>3. Meaning(View(req[x]))' = Meaning(w)
  <2> DEFINE old(v) == [n \in DOMAIN chains |-> Judge(v, n, w)]
             new(v) == [n \in DOMAIN chains' |-> Judge(v, n, View(req[x]))']
  <2>1. Meaning(w) = CHOOSE v : v = old(v)
    BY Zenon DEF Meaning
  <2>2. Meaning(View(req[x]))' = CHOOSE v : v = new(v)
    BY Zenon DEF Meaning
  <2>3. ASSUME NEW n PROVE /\ stops(n, View(req[x]))' = stops(n, w)
                           /\ firstStop(n, View(req[x]))' = firstStop(n, w)
    <3>1. stops(n, View(req[x]))' = stops(n, w)
      BY Zenon DEF stops
    <3>2. firstStop(n, View(req[x]))' = firstStop(n, w)
      BY <3>1, Zenon DEF firstStop
    <3>. QED
      BY <3>1, <3>2
  <2>4. ASSUME NEW v, NEW n PROVE Judge(v, n, View(req[x]))' = Judge(v, n, w)
    <3> DEFINE judge(rules, policy, S, i) ==
                 IF S = {} \/ rules[i].target = "RETURN"
                 THEN [target |-> policy.target, reason |-> policy.reason, chain |-> n]
                 ELSE IF rules[i].target # "JUMP"
                 THEN [target |-> rules[i].target, reason |-> rules[i].reason, chain |-> n]
                 ELSE [v[rules[i].chain] EXCEPT !.reason = IF @ = "" THEN rules[i].reason ELSE @]
    <3>1. Judge(v, n, w) = judge(chains[n].rules, chains[n].policy, stops(n, w), firstStop(n, w))
      BY Zenon DEF Judge
    <3>2. Judge(v, n, View(req[x]))' = judge(chains'[n].rules, chains'[n].policy,
            stops(n, View(req[x]))', firstStop(n, View(req[x]))')
      BY Zenon DEF Judge
    <3> HIDE DEF judge
    <3>. QED
      BY <2>3, <3>1, <3>2, Zenon
  <2>5. \A v : new(v) = old(v)
    BY <2>4
  <2> HIDE DEF old, new
  <2>6. (CHOOSE v : v = new(v)) = (CHOOSE v : v = old(v))
    BY <2>5, Zenon
  <2>. QED
    BY <2>1, <2>2, <2>6, Zenon
<1>4. Top(req[x])' = Top(req'[x])
  BY Zenon DEF Top
<1>. QED
  BY <1>1, <1>2, <1>3, <1>4, Zenon DEF VerdictFor

LEMMA VerdictStep == EngineInv /\ VerdictInv /\ [Next]_vars => VerdictInv'
<1> SUFFICES ASSUME EngineInv, VerdictInv, [Next]_vars, NEW x \in Requests,
                    req'[x].pc # "idle"
             PROVE  VerdictFor(req[x])'
  BY DEF VerdictInv
<1>1. chains' = chains /\ VerdictFor(req'[x])
  <2>1. CASE \E r \in Requests : Step(r)
    <3>1. PICK r \in Requests : Step(r)
      BY <2>1
    <3>2. /\ chains' = chains /\ req' = [req EXCEPT ![r] = req'[r]]
          /\ req'[r].pc # "idle" => VerdictFor(req'[r])
      BY <3>1, StepVerdict DEF VerdictInv
    <3>3. x # r => req'[x] = req[x]
      BY <3>2 DEF EngineInv
    <3>. QED
      BY <3>2, <3>3 DEF VerdictInv
  <2>2. CASE detectCycles \/ Loaded \/ Environment \/ Terminated \/ UNCHANGED vars
    <3>1. chains' = chains /\ req' = req
      BY <2>2 DEF detectCycles, Loaded, Environment, Terminated, vars, engineVars
    <3>. QED
      BY <3>1 DEF VerdictInv
  <2>. QED
    BY <2>1, <2>2 DEF Next
<1>. QED
  BY <1>1, VerdictKept

\* With a rule set that passed validation the engine's verdict (evalChain,
\* engine.go) is the declarative meaning of the rule set at the values of the
\* counters the request saw, however requests interleave, unless a read of a
\* counter failed (cachingResolver.Get, resolver.go).
THEOREM VerdictsAgree == Spec => []VerdictAgrees
<1>1. Init => VerdictInv
  BY DEF Init, VerdictInv, Idle
<1>2. VerdictInv => VerdictAgrees
  BY DEF VerdictInv, VerdictFor, VerdictAgrees
<1>. QED
  BY <1>1, <1>2, EngineSafe, VerdictStep, PTL DEF Spec
=============================================================================
