----------------------------- MODULE ChainCycles -----------------------------
(***************************************************************************)
(* detectCycles of internal/config/validate.go: the depth-first search     *)
(* over JUMP rules that decides whether a rule set may be loaded.  Go      *)
(* ranges over the chains in any order, and a visit that meets a cycle     *)
(* returns at once, leaving its path gray for the visits that follow.      *)
(***************************************************************************)
EXTENDS Integers, Sequences, SequencesExt

CONSTANTS
  Names,    \* the chain names, in upper case, that rules mention
  NoJump    \* what a rule that is no JUMP, or has no chain, jumps to

VARIABLES
  jumps,     \* per configured chain, where each of its rules jumps to
  color,     \* white, gray or black, per name
  path,      \* the visits under way: a chain and its next rule
  todo,      \* the chains the outer loop has not visited yet
  problems   \* has a cycle been reported?

searchVars == <<color, path, todo, problems>>

Known == DOMAIN jumps

\* Fault: a gray chain is taken for one that was searched already.
FaultGrayIsBlack(n, above) ==
  CASE color[n] = "white" /\ n \in Known ->
         /\ color' = [color EXCEPT ![n] = "gray"]
         /\ path' = Append(above, [chain |-> n, at |-> 1])
         /\ UNCHANGED problems
    [] OTHER -> color' = color /\ path' = above /\ problems' = problems

\* visit, up to its loop; above is the path it was called from.  A chain that
\* does not exist is reported elsewhere and is a leaf here.
visit(n, above) ==
  CASE color[n] = "gray" ->
         /\ problems' = TRUE
         /\ path' = <<>>
         /\ UNCHANGED color
    [] color[n] = "black" ->
         /\ path' = above
         /\ UNCHANGED <<color, problems>>
    [] color[n] = "white" /\ n \in Known ->
         /\ color' = [color EXCEPT ![n] = "gray"]
         /\ path' = Append(above, [chain |-> n, at |-> 1])
         /\ UNCHANGED problems
    [] OTHER ->
         /\ color' = [color EXCEPT ![n] = "black"]
         /\ path' = above
         /\ UNCHANGED problems

Root(n) ==
  /\ path = <<>>
  /\ n \in todo
  /\ todo' = todo \ {n}
  /\ visit(n, <<>>)

\* The loop of the innermost visit: its next rule, which may be a JUMP, or
\* its end.
Advance(top) == Append(Front(path), [top EXCEPT !.at = @ + 1])

Follow ==
  /\ path # <<>>
  /\ LET top == Last(path)
     IN  /\ top.at <= Len(jumps[top.chain])
         /\ jumps[top.chain][top.at] # NoJump
         /\ visit(jumps[top.chain][top.at], Advance(top))
  /\ UNCHANGED todo

Skip ==
  /\ path # <<>>
  /\ LET top == Last(path)
     IN  /\ top.at <= Len(jumps[top.chain])
         /\ jumps[top.chain][top.at] = NoJump
         /\ path' = Advance(top)
  /\ UNCHANGED <<color, todo, problems>>

Blacken ==
  /\ path # <<>>
  /\ LET top == Last(path)
     IN  /\ top.at > Len(jumps[top.chain])
         /\ color' = [color EXCEPT ![top.chain] = "black"]
  /\ path' = Front(path)
  /\ UNCHANGED <<todo, problems>>

Start ==
  /\ color = [n \in Names |-> "white"]
  /\ path = <<>>
  /\ todo = Known
  /\ problems = FALSE

Step == (\E n \in todo : Root(n)) \/ Follow \/ Skip \/ Blacken

Done == path = <<>> /\ todo = {}

-----------------------------------------------------------------------------
\* A set of chains each of which jumps into the set.
Cyclic ==
  \E S \in SUBSET Known :
    S # {} /\ \A n \in S : \E i \in DOMAIN jumps[n] : jumps[n][i] \in S

\* Whatever the order of the search, a rule set is refused exactly when its
\* JUMPs can run in a circle (TestValidate_RiskControlCycle): no cycle is
\* missed because an earlier visit coloured part of it, and chains that merely
\* share a target are not reported.
CyclesFound == Done => (problems <=> Cyclic)
=============================================================================
