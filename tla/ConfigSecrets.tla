---------------------------- MODULE ConfigSecrets ----------------------------
(***************************************************************************)
(* internal/configctl: what happens to a configuration text between the    *)
(* active file and the file garmr writes.  `config edit` shows the text    *)
(* with its secrets replaced by placeholders, validates what comes back,   *)
(* merges the secrets in again and classifies the difference.              *)
(*                                                                         *)
(* A text is its YAML tree: a function from the paths it has to "mapping", *)
(* "null" or a scalar, the parent of every path being a mapping.  A list   *)
(* is a scalar here; comments, order and layout are left out.              *)
(***************************************************************************)
EXTENDS Sequences, SequencesExt

CONSTANTS
  Paths,    \* the keys of config.Config that are looked at, as sequences
  Scalars   \* values, "" among them

sensitiveConfigPaths ==
  {<<"pow", "public_salt">>, <<"pow", "allowed_previous_salts">>,
   <<"storage", "postgres", "dsn">>, <<"storage", "redis", "password">>,
   <<"logging", "log_salt">>}

KEEP == "${SECRET:KEEP}"
CLEAR == "${SECRET:CLEAR}"
Placeholders == {KEEP, CLEAR}

ASSUME PathsAssumption ==
  /\ Paths \subseteq Seq(STRING)
  /\ \A p \in Paths : p # <<>> /\ (Front(p) = <<>> \/ Front(p) \in Paths)
  /\ \A p \in Paths : Front(p) \notin sensitiveConfigPaths
ASSUME ScalarsAssumption ==
  /\ "" \in Scalars
  /\ Scalars \intersect (Placeholders \union {"mapping", "null"}) = {}

IsMapping(d, p) == p = <<>> \/ (p \in DOMAIN d /\ d[p] = "mapping")

IsDocument(d) ==
  /\ DOMAIN d \subseteq Paths
  /\ \A p \in DOMAIN d : /\ d[p] \in {"mapping", "null"} \union Scalars \union Placeholders
                         /\ IsMapping(d, Front(p))

\* A key that is absent and a key without a value decode alike.
Node(d, p) == IF p \in DOMAIN d THEN d[p] ELSE "null"

(***************************************************************************)
(* Redaction, and the merge that undoes it.                                *)
(***************************************************************************)
redactNode(d) == [p \in DOMAIN d |-> IF p \in sensitiveConfigPaths THEN KEEP ELSE d[p]]

\* The nodes mergeSecretNode is called on: the mappings of the base that the
\* candidate has too, in whatever form.
Merged(c, b) == {p \in {<<>>} \union (DOMAIN c \intersect DOMAIN b) : IsMapping(b, p)}

\* Fault: a sensitive key that the candidate lacks is not missed.
FaultRemovalAccepted(c, b) == {}

removed(c, b) ==
  {p \in (sensitiveConfigPaths \intersect DOMAIN b) \ DOMAIN c : Front(p) \in Merged(c, b)}

\* A mapping the base lacks altogether may hold no secret and no placeholder;
\* one where the base has something else is not looked into.
rejectSecretPlaceholderMap(c, p) ==
  \E q \in DOMAIN c : /\ IsStrictPrefix(p, q)
                      /\ q \in sensitiveConfigPaths \/ c[q] \in Placeholders

illegal(c, b) ==
  {p \in DOMAIN c :
     /\ Front(p) \in Merged(c, b)
     /\ IF p \in sensitiveConfigPaths
          THEN p \notin DOMAIN b \/ c[p] \notin Placeholders \union {b[p]}
          ELSE \/ c[p] \in Placeholders
               \/ p \notin DOMAIN b /\ c[p] = "mapping" /\ rejectSecretPlaceholderMap(c, p)}

MergeAccepts(c, b) == removed(c, b) = {} /\ illegal(c, b) = {}

\* Fault: only CLEAR is resolved.
FaultKeepUnresolved(c, b) ==
  [p \in DOMAIN c |->
     IF p \in sensitiveConfigPaths /\ Front(p) \in Merged(c, b) /\ c[p] = CLEAR
       THEN "" ELSE c[p]]

mergeSecretPlaceholders(c, b) ==
  [p \in DOMAIN c |->
     IF p \in sensitiveConfigPaths /\ Front(p) \in Merged(c, b)
       THEN IF c[p] = CLEAR THEN "" ELSE b[p]
       ELSE c[p]]

(***************************************************************************)
(* Validation.  Of config.Validate, the rule that reads a secret and the   *)
(* one on its driver; UnmarshalExact wants mappings where the structure    *)
(* has mappings and nowhere else.                                          *)
(***************************************************************************)
Driver == <<"storage", "driver">>
DSN == <<"storage", "postgres", "dsn">>
Sections == {Front(p) : p \in Paths}

ValidateYAML(d) ==
  /\ \A p \in DOMAIN d : IF p \in Sections THEN d[p] \in {"mapping", "null"}
                                           ELSE d[p] # "mapping"
  /\ Node(d, Driver) \in {"null", "", "memory", "postgres", "redis"}
  /\ Node(d, Driver) = "postgres" => Node(d, DSN) \notin {"null", ""}

(***************************************************************************)
(* The difference between two texts, leaf by leaf.  A mapping on one side  *)
(* only is one change, at the mapping.                                     *)
(***************************************************************************)
diffValue(b, a) ==
  {p \in DOMAIN b \union DOMAIN a :
     /\ IsMapping(b, Front(p)) /\ IsMapping(a, Front(p))
     /\ Node(b, p) # Node(a, p)}

\* The path contains, anywhere, a key that switches protection on or off.
NamesGuard(p) ==
  \E i \in DOMAIN p : p[i] \in {"enabled", "bypass_all", "excluded_paths", "allow_empty_salt"}

\* Fault: a change of a secret counts as any other.
FaultSecretsNormal(p) ==
  IF (p[1] = "protection" /\ Len(p) > 1) \/ NamesGuard(p) THEN "dangerous" ELSE "normal"

\* "critical" and "dangerous" ask for the same; a lowered difficulty, which
\* is critical too, is not modelled.
classifyChange(p) ==
  IF \/ p \in sensitiveConfigPaths
     \/ p[1] = "protection" /\ Len(p) > 1
     \/ NamesGuard(p)
    THEN "dangerous" ELSE "normal"

Danger(b, a) ==
  IF \E p \in diffValue(b, a) : classifyChange(p) = "dangerous" THEN "dangerous" ELSE "normal"
=============================================================================
