-------------------------- MODULE ConfigStore_proofs --------------------------
(***************************************************************************)
(* The configuration history is sound for every set of texts, every edit   *)
(* and any number of revisions, through failing writes, kills and editors. *)
(* The argument: a process writes only the revision after the newest, and  *)
(* every reported revision is older, so nothing it writes, removes or      *)
(* leaves behind touches one.                                              *)
(***************************************************************************)
EXTENDS ConfigStore, ConfigSecrets_proofs

CliFields == {"pc", "raw", "revision", "text", "action"}

Shaped ==
  /\ DOMAIN cli = Clis
  /\ \A p \in Clis : cli[p] = Exited \/ DOMAIN cli[p] = CliFields

\* A change classified normal between the texts b and a.
Spared(b, a) ==
  \A s \in sensitiveConfigPaths :
    Node(b, s) # Node(a, s) => ~IsMapping(b, Front(s)) \/ ~IsMapping(a, Front(s))

\* A reported revision has its text and metadata, and its parent is older.
Ledger ==
  \A r \in DOMAIN committed :
    /\ r \in DOMAIN json /\ r \in DOMAIN yaml /\ yaml[r] = committed[r]
    /\ json[r].parent < r
    /\ json[r].danger = "normal" =>
         json[r].parent \in DOMAIN yaml /\ Spared(yaml[json[r].parent], yaml[r])

\* Whatever else the history holds is being written or is a leftover.
Accounted ==
  \A r \in DOMAIN json :
    \/ r \in DOMAIN committed \/ r \in debris
    \/ \E p \in Clis : cli[p].pc \in Writing /\ r = next(p)

\* The last reported revision is active, unless an editor wrote since.
Recorded ==
  ~external => \E m \in DOMAIN committed :
                 committed[m] = active /\ \A r \in DOMAIN committed : r <= m

\* The process stands on the newest revision until it writes the next, and on
\* no account on one before a reported one.
AtNewest(p) ==
  /\ cli[p].pc \in {"compare", "ready", "planned", "writeYaml", "writeJson"} =>
       /\ cli[p].revision \in DOMAIN json \union {0}
       /\ \A r \in DOMAIN json : r <= cli[p].revision
  /\ cli[p].pc \in Writing =>
       /\ next(p) \in Revisions
       /\ \A r \in DOMAIN committed : r <= cli[p].revision

\* What a write in progress has left in the history so far.
Written(p) ==
  /\ cli[p].pc \in {"writeJson", "replace"} =>
       next(p) \in DOMAIN yaml /\ yaml[next(p)] = cli[p].text
  /\ cli[p].pc = "replace" =>
       /\ ~Records(p)
       /\ next(p) \in DOMAIN json /\ json[next(p)] = metadata(p)
       /\ \A r \in DOMAIN json : r <= next(p)

\* A plan is made on the text of a revision.
Based(p) ==
  \/ cli[p].pc \in {"ready", "planned"}
  \/ cli[p].pc \in {"writeYaml", "writeJson", "replace"} /\ ~Records(p)
  => /\ cli[p].revision \in DOMAIN json /\ cli[p].revision \in DOMAIN yaml
     /\ yaml[cli[p].revision] = cli[p].raw

\* Opening records the active text as it was read.
Opening(p) ==
  /\ cli[p].pc \in {"loading", "compare"} => Records(p)
  /\ cli[p].pc \in {"loading", "compare", "writeYaml", "writeJson"} /\ Records(p) =>
       cli[p].text = cli[p].raw /\ (external \/ cli[p].raw = active)

\* Apply found the active file as planned for, and only an editor changed it.
Guarded(p) ==
  cli[p].pc \in {"writeYaml", "writeJson", "replace"} /\ ~Records(p) =>
    window \/ active = cli[p].raw

\* The text t is what an accepted and valid edit of b merges into.
Edited(b, t) ==
  \E c : /\ IsDocument(c) /\ ValidateYAML(c) /\ MergeAccepts(c, b)
         /\ t = mergeSecretPlaceholders(c, b)

Content(p) ==
  /\ cli[p].pc = "planned" => ~Records(p)
  /\ cli[p].pc \in {"planned", "writeYaml", "writeJson", "replace"} =>
       /\ cli[p].action = "apply" => Edited(cli[p].raw, cli[p].text)
       /\ cli[p].action = "rollback" => ValidateYAML(cli[p].text)

Stage(p) == AtNewest(p) /\ Written(p) /\ Based(p) /\ Opening(p) /\ Guarded(p) /\ Content(p)

ConfigInv ==
  /\ TypeOK /\ Shaped
  /\ Ledger /\ Accounted /\ Recorded /\ PublishedValidates
  /\ \A p \in Clis : Stage(p)

\* newest is the newest revision.
LEMMA NewestIs ==
  ASSUME TypeOK
  PROVE  newest \in DOMAIN json \union {0} /\ \A r \in DOMAIN json : r <= newest
<1> DEFINE S == DOMAIN json \union {0}
<1>1. MaxRev \in Nat /\ S \in SUBSET (0 .. MaxRev) /\ S # {}
  BY MaxRevAssumption DEF TypeOK, Revisions
<1>2. Max(S) \in S /\ \A k \in S : k <= Max(S)
  <2> HIDE DEF S
  <2>. QED
    BY <1>1, Greatest
<1>. QED
  BY <1>2 DEF newest

\* A number that is a maximum of the history is newest.
LEMMA NewestUnique ==
  ASSUME TypeOK, NEW n \in Nat, n \in DOMAIN json \union {0}, \A r \in DOMAIN json : r <= n
  PROVE  newest = n
<1>1. newest \in DOMAIN json \union {0} /\ \A r \in DOMAIN json : r <= newest
  BY NewestIs
<1>2. newest \in Nat
  BY <1>1, MaxRevAssumption DEF TypeOK, Revisions
<1>. QED
  BY <1>1, <1>2

\* The fields of a running process.
LEMMA Running ==
  ASSUME ConfigInv, NEW p \in Clis, cli[p].pc # "exited"
  PROVE  /\ IsCli(cli[p]) /\ DOMAIN cli[p] = CliFields
         /\ cli[p].revision \in Nat /\ cli[p].revision <= MaxRev /\ MaxRev \in Nat
         /\ next(p) = cli[p].revision + 1 /\ next(p) \in Nat \ {0}
BY MaxRevAssumption DEF ConfigInv, TypeOK, Shaped, IsCli, Exited, next

\* A process that moves on keeps its other fields.
LEMMA Moved ==
  ASSUME ConfigInv, NEW p \in Clis, cli[p].pc # "exited", NEW x, cli' = [cli EXCEPT ![p].pc = x]
  PROVE  /\ DOMAIN cli' = Clis /\ DOMAIN cli'[p] = CliFields
         /\ cli'[p].pc = x /\ cli'[p].raw = cli[p].raw /\ cli'[p].text = cli[p].text
         /\ cli'[p].revision = cli[p].revision /\ cli'[p].action = cli[p].action
<1>1. DOMAIN cli[p] = CliFields /\ DOMAIN cli = Clis
  BY Running DEF ConfigInv, Shaped
<1>. QED
  BY <1>1 DEF CliFields

\* Initially there is no history and no process.
LEMMA InitInv == Init => ConfigInv
<1> SUFFICES ASSUME Init PROVE ConfigInv
  OBVIOUS
<1>1. DOMAIN yaml = {} /\ DOMAIN json = {} /\ DOMAIN committed = {}
  BY DEF Init, None
<1>2. external \in BOOLEAN /\ window \in BOOLEAN
  BY DEF Init
<1>3. TypeOK
  BY <1>1, <1>2, TextsAssumption DEF Init, TypeOK
<1>4. Shaped
  BY DEF Init, Shaped
<1>5. Ledger /\ Accounted
  BY <1>1 DEF Ledger, Accounted
<1>6. Recorded /\ PublishedValidates
  BY DEF Init, Recorded, PublishedValidates
<1>7. \A p \in Clis : cli[p].pc = "exited"
  BY DEF Init, Exited
<1>8. \A p \in Clis : Stage(p)
  BY <1>7 DEF Stage, AtNewest, Written, Based, Opening, Guarded, Content, Writing
<1>. QED
  BY <1>3, <1>4, <1>5, <1>6, <1>8 DEF ConfigInv

\* A process that exits, with the files as they are and what it was writing
\* accounted for.
LEMMA ExitInv ==
  ASSUME ConfigInv, NEW p \in Clis, Exit(p), UNCHANGED <<files, committed, external, window>>,
         debris \subseteq debris', debris' \in SUBSET Revisions,
         cli[p].pc \in Writing => next(p) \notin DOMAIN json \/ next(p) \in debris'
  PROVE  ConfigInv'
<1> USE DEF ConfigInv, files
<1>1. DOMAIN cli' = Clis /\ cli'[p] = Exited
  BY DEF Exit, Shaped
<1>2. \A q \in Clis : q = p
  BY SingleInstance
<1>3. TypeOK' /\ Shaped'
  BY <1>1, <1>2 DEF TypeOK, Shaped
<1>4. Ledger' /\ Recorded' /\ PublishedValidates'
  BY DEF Ledger, Recorded, PublishedValidates
<1>5. Accounted'
  BY <1>2 DEF Accounted
<1>6. Stage(p)'
  <2>1. cli'[p].pc = "exited"
    BY <1>1 DEF Exited
  <2>. QED
    BY <2>1 DEF Stage, AtNewest, Written, Based, Opening, Guarded, Content, Writing
<1>. QED
  BY <1>2, <1>3, <1>4, <1>5, <1>6

\* A process that goes on without touching the files or what was recorded.
LEMMA GoOnInv ==
  ASSUME ConfigInv, NEW p \in Clis, UNCHANGED <<files, committed, debris, external>>,
         window' \in BOOLEAN,
         DOMAIN cli' = Clis, DOMAIN cli'[p] = CliFields, IsCli(cli'[p]), Stage(p)',
         cli[p].pc \in Writing => cli'[p].pc \in Writing /\ cli'[p].revision = cli[p].revision
  PROVE  ConfigInv'
<1> USE DEF ConfigInv, files
<1>1. \A q \in Clis : q = p
  BY SingleInstance
<1>2. TypeOK' /\ Shaped'
  BY <1>1 DEF TypeOK, Shaped
<1>3. Ledger' /\ Recorded' /\ PublishedValidates'
  BY DEF Ledger, Recorded, PublishedValidates
<1>4. Accounted'
  BY <1>1 DEF Accounted, next
<1>. QED
  BY <1>1, <1>2, <1>3, <1>4

\* Opening: reading the file and the history, and comparing them.
LEMMA OpenInv ==
  ASSUME ConfigInv, NEW p \in Clis, ReadActive(p) \/ LoadHistory(p) \/ CompareLatest(p)
  PROVE  ConfigInv'
<1> USE DEF ConfigInv
<1>0. TypeOK /\ Shaped /\ Stage(p) /\ MaxRev \in Nat \ {0} /\ window \in BOOLEAN
  BY MaxRevAssumption DEF TypeOK
<1>1. CASE ReadActive(p)
  <2>1. /\ cli[p].pc = "exited" /\ UNCHANGED <<files, history>>
        /\ cli' = [cli EXCEPT ![p] = [pc |-> "loading", raw |-> active, revision |-> 0,
                                     text |-> active, action |-> "bootstrap"]]
    BY <1>1 DEF ReadActive
  <2>2. /\ DOMAIN cli' = Clis /\ DOMAIN cli'[p] = CliFields
        /\ cli'[p].pc = "loading" /\ cli'[p].raw = active /\ cli'[p].text = active
        /\ cli'[p].revision = 0 /\ cli'[p].action = "bootstrap"
    BY <1>0, <2>1 DEF Shaped, CliFields
  <2>3. IsCli(cli'[p])
    BY <1>0, <2>2 DEF IsCli, TypeOK, Actions
  <2>4. Stage(p)'
    BY <2>1, <2>2 DEF Stage, AtNewest, Written, Based, Opening, Guarded, Content, Writing, Records, files
  <2>. QED
    BY <1>0, <2>1, <2>2, <2>3, <2>4, GoOnInv DEF Writing, history
<1>2. CASE LoadHistory(p)
  <2>1. /\ cli[p].pc = "loading" /\ UNCHANGED <<files, history>>
        /\ cli' = [cli EXCEPT ![p].revision = newest,
                             ![p].pc = IF newest = 0 THEN "writeYaml" ELSE "compare"]
    BY <1>2 DEF LoadHistory
  <2>2. IsCli(cli[p]) /\ DOMAIN cli[p] = CliFields
    BY <2>1, Running
  <2>3. newest \in DOMAIN json \union {0} /\ \A r \in DOMAIN json : r <= newest
    BY <1>0, NewestIs
  <2>4. newest \in 0 .. MaxRev
    BY <1>0, <2>3 DEF TypeOK, Revisions
  <2>5. /\ DOMAIN cli' = Clis /\ DOMAIN cli'[p] = CliFields
        /\ cli'[p].pc = IF newest = 0 THEN "writeYaml" ELSE "compare"
        /\ cli'[p].raw = cli[p].raw /\ cli'[p].text = cli[p].text
        /\ cli'[p].revision = newest /\ cli'[p].action = cli[p].action
    BY <1>0, <2>1, <2>2 DEF Shaped, CliFields
  <2>6. IsCli(cli'[p])
    BY <2>2, <2>4, <2>5 DEF IsCli, Writing
  <2>7. \A r \in DOMAIN committed : r <= newest
    BY <2>3 DEF Ledger
  <2>8. Records(p) /\ cli[p].text = cli[p].raw /\ (external \/ cli[p].raw = active)
    BY <1>0, <2>1 DEF Stage, Opening
  <2>9. Records(p)'
    BY <2>5, <2>8 DEF Records
  <2>10. UNCHANGED <<active, yaml, json, committed, external, window>>
    BY <2>1 DEF files, history
  <2>11. AtNewest(p)'
    <3>1. newest = 0 => newest + 1 \in Revisions
      BY <1>0 DEF Revisions
    <3>. QED
      BY <2>3, <2>5, <2>7, <2>10, <3>1 DEF AtNewest, Writing, next
  <2>12. Written(p)' /\ Based(p)' /\ Guarded(p)' /\ Opening(p)'
    BY <2>5, <2>8, <2>9, <2>10 DEF Written, Based, Guarded, Opening
  <2>13. Content(p)'
    BY <2>5, <2>9 DEF Content, Records
  <2>. QED
    BY <1>0, <2>1, <2>5, <2>6, <2>11, <2>12, <2>13, GoOnInv DEF Stage, Writing, history
<1>3. CASE CompareLatest(p)
  <2>1. cli[p].pc = "compare" /\ UNCHANGED <<files, history>>
    BY <1>3 DEF CompareLatest
  <2>2. IsCli(cli[p]) /\ DOMAIN cli[p] = CliFields /\ cli[p].revision \in Nat /\ cli[p].revision <= MaxRev
    BY <2>1, Running
  <2>3. UNCHANGED <<active, yaml, json, committed, external, window>>
    BY <2>1 DEF files, history
  <2>4. /\ cli[p].revision \in DOMAIN json \union {0} /\ \A r \in DOMAIN json : r <= cli[p].revision
        /\ \A r \in DOMAIN committed : r <= cli[p].revision
        /\ Records(p) /\ cli[p].text = cli[p].raw /\ (external \/ cli[p].raw = active)
    BY <1>0, <2>1 DEF Stage, AtNewest, Opening, Ledger
  <2>5. CASE Exit(p)
    BY <2>1, <2>5, ExitInv DEF Writing, history, TypeOK
  <2>6. CASE /\ cli[p].revision \in DOMAIN yaml
             /\ yaml[cli[p].revision] = cli[p].raw
             /\ Goto(p, "ready")
    <3>1. /\ DOMAIN cli' = Clis /\ DOMAIN cli'[p] = CliFields
          /\ cli'[p].pc = "ready" /\ cli'[p].raw = cli[p].raw /\ cli'[p].text = cli[p].text
          /\ cli'[p].revision = cli[p].revision /\ cli'[p].action = cli[p].action
      BY <2>1, <2>6, Moved DEF Goto
    <3>2. IsCli(cli'[p])
      BY <2>2, <3>1 DEF IsCli
    <3>3. cli[p].revision \in DOMAIN json
      BY <2>4, <2>6 DEF TypeOK, Revisions
    <3>4. Stage(p)'
      BY <2>3, <2>4, <2>6, <3>1, <3>3
         DEF Stage, AtNewest, Written, Based, Opening, Guarded, Content, Writing
    <3>. QED
      BY <1>0, <2>1, <3>1, <3>2, <3>4, GoOnInv DEF Writing, history
  <2>7. CASE /\ cli[p].revision < MaxRev
             /\ cli' = [cli EXCEPT ![p].pc = "writeYaml", ![p].action = "external"]
    <3>1. /\ DOMAIN cli' = Clis /\ DOMAIN cli'[p] = CliFields
          /\ cli'[p].pc = "writeYaml" /\ cli'[p].raw = cli[p].raw /\ cli'[p].text = cli[p].text
          /\ cli'[p].revision = cli[p].revision /\ cli'[p].action = "external"
      BY <1>0, <2>2, <2>7 DEF Shaped, CliFields
    <3>2. IsCli(cli'[p])
      BY <2>2, <3>1 DEF IsCli, Writing, Actions
    <3>3. Records(p)' /\ cli[p].revision + 1 \in Revisions
      BY <1>0, <2>2, <2>7, <3>1 DEF Records, Revisions
    <3>4. AtNewest(p)'
      BY <2>3, <2>4, <3>1, <3>3 DEF AtNewest, next, Writing
    <3>5. Written(p)' /\ Based(p)' /\ Opening(p)' /\ Guarded(p)' /\ Content(p)'
      BY <2>3, <2>4, <3>1, <3>3 DEF Written, Based, Opening, Guarded, Content, Records
    <3>. QED
      BY <1>0, <2>1, <3>1, <3>2, <3>4, <3>5, GoOnInv DEF Stage, Writing, history
  <2>. QED
    BY <1>3, <2>5, <2>6, <2>7 DEF CompareLatest
<1>. QED
  BY <1>1, <1>2, <1>3

\* The commands, up to Apply's check of the active file.
LEMMA CommandInv ==
  ASSUME ConfigInv, NEW p \in Clis,
         \/ \E edited \in Edits : Edit(p, edited)
         \/ \E r \in Revisions : PlanRollback(p, r)
         \/ Quit(p) \/ CheckExternal(p)
  PROVE  ConfigInv'
<1> USE DEF ConfigInv
<1>0. TypeOK /\ Shaped /\ Stage(p) /\ window \in BOOLEAN
  BY DEF TypeOK
<1>1. ASSUME NEW text, NEW action \in {"apply", "rollback"}, cli[p].pc = "ready",
             UNCHANGED <<files, history>>, IsDocument(text),
             action = "apply" => Edited(cli[p].raw, text),
             action = "rollback" => ValidateYAML(text),
             cli' = [cli EXCEPT ![p].pc = "planned", ![p].text = text, ![p].action = action]
      PROVE  ConfigInv'
  <2>1. IsCli(cli[p]) /\ DOMAIN cli[p] = CliFields
    BY <1>1, Running
  <2>2. /\ DOMAIN cli' = Clis /\ DOMAIN cli'[p] = CliFields
        /\ cli'[p].pc = "planned" /\ cli'[p].raw = cli[p].raw /\ cli'[p].text = text
        /\ cli'[p].revision = cli[p].revision /\ cli'[p].action = action
    BY <1>0, <1>1, <2>1 DEF Shaped, CliFields
  <2>3. IsCli(cli'[p])
    BY <1>1, <2>1, <2>2 DEF IsCli, Actions
  <2>4. UNCHANGED <<active, yaml, json, committed, external, window>>
    BY <1>1 DEF files, history
  <2>5. AtNewest(p)' /\ Written(p)' /\ Based(p)' /\ Opening(p)' /\ Guarded(p)'
    BY <1>0, <1>1, <2>2, <2>4
       DEF Stage, AtNewest, Written, Based, Opening, Guarded, Writing
  <2>6. Content(p)'
    BY <1>1, <2>2 DEF Content, Records
  <2>. QED
    BY <1>0, <1>1, <2>2, <2>3, <2>5, <2>6, GoOnInv DEF Stage, Writing, history
<1>2. ASSUME NEW edited \in Edits, Edit(p, edited) PROVE ConfigInv'
  <2> DEFINE text == mergeSecretPlaceholders(edited, cli[p].raw)
  <2>1. /\ cli[p].pc = "ready" /\ ValidateYAML(edited) /\ MergeAccepts(edited, cli[p].raw)
        /\ cli' = [cli EXCEPT ![p].pc = "planned", ![p].text = text, ![p].action = "apply"]
        /\ UNCHANGED <<files, history>>
    BY <1>2 DEF Edit
  <2>2. IsDocument(edited) /\ IsDocument(cli[p].raw)
    BY <2>1, Running, TextsAssumption DEF IsCli
  <2>3. IsDocument(text) /\ Edited(cli[p].raw, text)
    BY <2>1, <2>2, MergeIsDocument DEF Edited
  <2> HIDE DEF text
  <2>. QED
    BY <1>1, <2>1, <2>3
<1>3. ASSUME NEW r \in Revisions, PlanRollback(p, r) PROVE ConfigInv'
  <2>1. /\ cli[p].pc = "ready" /\ ValidateYAML(yaml[r]) /\ IsDocument(yaml[r])
        /\ cli' = [cli EXCEPT ![p].pc = "planned", ![p].text = yaml[r], ![p].action = "rollback"]
        /\ UNCHANGED <<files, history>>
    BY <1>0, <1>3 DEF PlanRollback, TypeOK
  <2>. QED
    BY <1>1, <2>1
<1>4. CASE Quit(p)
  BY <1>4, ExitInv DEF Quit, history, Writing, TypeOK
<1>5. CASE CheckExternal(p)
  <2>1. /\ cli[p].pc = "planned" /\ next(p) <= MaxRev /\ window' = FALSE
        /\ UNCHANGED <<files, committed, debris, external>>
    BY <1>5 DEF CheckExternal
  <2>2. /\ IsCli(cli[p]) /\ MaxRev \in Nat
        /\ next(p) = cli[p].revision + 1 /\ next(p) \in Nat \ {0}
    BY <2>1, Running
  <2>3. CASE active = cli[p].raw
    <3>1. Goto(p, "writeYaml")
      BY <1>5, <2>3 DEF CheckExternal
    <3>2. /\ DOMAIN cli' = Clis /\ DOMAIN cli'[p] = CliFields
          /\ cli'[p].pc = "writeYaml" /\ cli'[p].raw = cli[p].raw /\ cli'[p].text = cli[p].text
          /\ cli'[p].revision = cli[p].revision /\ cli'[p].action = cli[p].action
      BY <2>1, <3>1, Moved DEF Goto
    <3>3. IsCli(cli'[p])
      BY <2>2, <3>2 DEF IsCli, Writing
    <3>4. UNCHANGED <<active, yaml, json, committed, external>>
      BY <2>1 DEF files
    <3>5. ~Records(p) /\ ~Records(p)'
      BY <1>0, <2>1, <3>2 DEF Stage, Content, Records
    <3>6. /\ cli[p].revision \in DOMAIN json /\ \A r \in DOMAIN json : r <= cli[p].revision
          /\ cli[p].revision \in DOMAIN yaml /\ yaml[cli[p].revision] = cli[p].raw
      BY <1>0, <2>1 DEF Stage, AtNewest, Based
    <3>7. AtNewest(p)'
      <4>1. next(p) \in Revisions
        BY <2>1, <2>2 DEF Revisions
      <4>2. \A r \in DOMAIN committed : r <= cli[p].revision
        BY <3>6 DEF Ledger
      <4>. QED
        BY <3>2, <3>4, <3>6, <4>1, <4>2 DEF AtNewest, next, Writing
    <3>8. Written(p)' /\ Based(p)' /\ Opening(p)' /\ Guarded(p)'
      BY <2>3, <3>2, <3>4, <3>5, <3>6 DEF Written, Based, Opening, Guarded
    <3>9. Content(p)'
      BY <1>0, <2>1, <3>2 DEF Stage, Content
    <3>10. window' \in BOOLEAN
      BY <2>1
    <3>. QED
      BY <2>1, <3>2, <3>3, <3>7, <3>8, <3>9, <3>10, GoOnInv DEF Stage, Writing
  <2>4. CASE active # cli[p].raw
    <3>1. Exit(p)
      BY <1>5, <2>4 DEF CheckExternal
    <3>2. DOMAIN cli' = Clis /\ cli'[p] = Exited /\ cli'[p].pc = "exited"
      BY <1>0, <3>1 DEF Exit, Shaped, Exited
    <3>3. \A q \in Clis : q = p
      BY SingleInstance
    <3>4. window' \in BOOLEAN
      BY <2>1
    <3>5. TypeOK' /\ Shaped'
      BY <2>1, <3>2, <3>3, <3>4 DEF TypeOK, Shaped, files
    <3>6. Ledger' /\ Recorded' /\ PublishedValidates'
      BY <2>1 DEF Ledger, Recorded, PublishedValidates, files
    <3>7. Accounted'
      BY <2>1, <3>3 DEF Accounted, files, Writing
    <3>8. Stage(p)'
      BY <3>2 DEF Stage, AtNewest, Written, Based, Opening, Guarded, Content, Writing
    <3>. QED
      BY <3>3, <3>5, <3>6, <3>7, <3>8
  <2>. QED
    BY <2>3, <2>4
<1>. QED
  BY <1>2, <1>3, <1>4, <1>5

\* The writes of a revision.
LEMMA WriteInv ==
  ASSUME ConfigInv, NEW p \in Clis, WriteYaml(p) \/ WriteJson(p) \/ Replace(p)
  PROVE  ConfigInv'
<1> USE DEF ConfigInv
<1> DEFINE n == next(p)
<1>0. TypeOK /\ Shaped /\ Stage(p) /\ \A q \in Clis : q = p
  BY SingleInstance
<1>1. cli[p].pc \in {"writeYaml", "writeJson", "replace"}
  BY DEF WriteYaml, WriteJson, Replace
<1>2. /\ IsCli(cli[p]) /\ DOMAIN cli[p] = CliFields
      /\ cli[p].revision \in Nat /\ n = cli[p].revision + 1 /\ n \in Nat \ {0}
  BY <1>1, Running
<1>3. n \in Revisions /\ \A r \in DOMAIN committed : r <= cli[p].revision
  BY <1>0, <1>1 DEF Stage, AtNewest, Writing
<1>4. n \notin DOMAIN committed
  BY <1>2, <1>3
<1>5. DOMAIN yaml \subseteq Nat /\ DOMAIN json \subseteq Nat /\ DOMAIN committed \subseteq Nat
  BY <1>0, MaxRevAssumption DEF TypeOK, Revisions
<1>6. CASE WriteYaml(p)
  <2>1. /\ cli[p].pc = "writeYaml" /\ yaml' = Put(yaml, n, cli[p].text) /\ Goto(p, "writeJson")
        /\ UNCHANGED <<active, json, committed, debris, external, window>>
    BY <1>6 DEF WriteYaml, history
  <2>2. /\ DOMAIN cli' = Clis /\ DOMAIN cli'[p] = CliFields
        /\ cli'[p].pc = "writeJson" /\ cli'[p].raw = cli[p].raw /\ cli'[p].text = cli[p].text
        /\ cli'[p].revision = cli[p].revision /\ cli'[p].action = cli[p].action
    BY <2>1, Moved DEF Goto
  <2>3. /\ DOMAIN yaml' = DOMAIN yaml \union {n} /\ yaml'[n] = cli[p].text
        /\ \A r \in DOMAIN yaml : r # n => yaml'[r] = yaml[r]
    BY <2>1 DEF Put
  <2>4. next(p)' = n
    BY <2>2 DEF next
  <2> HIDE DEF n
  <2>5. IsCli(cli'[p])
    BY <1>2, <2>2 DEF IsCli, Writing
  <2>6. TypeOK'
    BY <1>0, <1>2, <1>3, <2>1, <2>2, <2>3, <2>5 DEF TypeOK, IsCli
  <2>7. Shaped'
    BY <1>0, <2>2 DEF Shaped
  <2>8. Ledger'
    <3> SUFFICES ASSUME NEW r \in DOMAIN committed
                 PROVE  /\ r \in DOMAIN json /\ r \in DOMAIN yaml' /\ yaml'[r] = committed[r]
                        /\ json[r].parent < r
                        /\ json[r].danger = "normal" =>
                             /\ json[r].parent \in DOMAIN yaml'
                             /\ Spared(yaml'[json[r].parent], yaml'[r])
      BY <2>1 DEF Ledger
    <3>1. /\ r \in DOMAIN json /\ r \in DOMAIN yaml /\ yaml[r] = committed[r] /\ json[r].parent < r
          /\ json[r].danger = "normal" =>
               json[r].parent \in DOMAIN yaml /\ Spared(yaml[json[r].parent], yaml[r])
      BY DEF Ledger
    <3>2. json[r].parent \in Nat /\ r \in Nat
      <4>1. json[r] \in Meta
        BY <1>0, <3>1 DEF TypeOK
      <4>2. json[r].parent \in 0 .. MaxRev
        BY <4>1 DEF Meta
      <4>. QED
        BY <1>5, <4>2
    <3>3. r # n /\ json[r].parent # n /\ yaml'[r] = yaml[r]
      BY <1>2, <1>3, <2>3, <3>1, <3>2
    <3>4. json[r].parent \in DOMAIN yaml => yaml'[json[r].parent] = yaml[json[r].parent]
      BY <2>3, <3>3
    <3>. QED
      BY <2>3, <3>1, <3>3, <3>4
  <2>9. Accounted' /\ Recorded' /\ PublishedValidates'
    <3>1. Accounted'
      BY <1>0, <2>1, <2>2, <2>4 DEF Accounted, Writing, n
    <3>. QED
      BY <2>1, <3>1 DEF Recorded, PublishedValidates
  <2>10. Stage(p)'
    <3>1. Records(p)' = Records(p)
      BY <2>2 DEF Records
    <3>2. AtNewest(p)'
      BY <1>0, <1>1, <2>1, <2>2, <2>4 DEF Stage, AtNewest, Writing, n
    <3>3. Written(p)'
      BY <2>2, <2>3, <2>4 DEF Written
    <3>4. Based(p)'
      BY <1>0, <1>2, <2>1, <2>2, <2>3, <3>1 DEF Stage, Based
    <3>5. Opening(p)' /\ Guarded(p)' /\ Content(p)'
      BY <1>0, <2>1, <2>2, <3>1 DEF Stage, Opening, Guarded, Content
    <3>. QED
      BY <3>2, <3>3, <3>4, <3>5 DEF Stage
  <2>. QED
    BY <1>0, <2>6, <2>7, <2>8, <2>9, <2>10
<1>7. CASE WriteJson(p)
  <2>1. /\ cli[p].pc = "writeJson" /\ json' = Put(json, n, metadata(p))
        /\ UNCHANGED <<active, yaml, debris, external, window>>
    BY <1>7 DEF WriteJson
  <2>2. /\ DOMAIN json' = DOMAIN json \union {n} /\ json'[n] = metadata(p)
        /\ \A r \in DOMAIN json : r # n => json'[r] = json[r]
    BY <2>1 DEF Put
  <2>3. /\ n \in DOMAIN yaml /\ yaml[n] = cli[p].text
        /\ \A r \in DOMAIN json : r <= cli[p].revision
    BY <1>0, <2>1 DEF Stage, Written, AtNewest
  <2>4. /\ metadata(p) \in Meta /\ metadata(p).parent = cli[p].revision
        /\ metadata(p).danger = IF Records(p) THEN "" ELSE Danger(cli[p].raw, cli[p].text)
    <3>1. Danger(cli[p].raw, cli[p].text) \in {"normal", "dangerous"}
      BY DEF Danger
    <3>. QED
      BY <1>2, <3>1 DEF metadata, Meta, IsCli
  <2>5. ASSUME NEW r \in DOMAIN committed
        PROVE  /\ r \in DOMAIN json' /\ r \in DOMAIN yaml /\ yaml[r] = committed[r]
               /\ json'[r].parent < r
               /\ json'[r].danger = "normal" =>
                    json'[r].parent \in DOMAIN yaml /\ Spared(yaml[json'[r].parent], yaml[r])
    BY <1>4, <2>2, <2>5 DEF Ledger
  <2>6. CASE Records(p)
    <3>1. /\ cli' = [cli EXCEPT ![p].pc = "ready", ![p].revision = n, ![p].raw = cli[p].text]
          /\ committed' = Put(committed, n, cli[p].text)
      BY <1>7, <2>6 DEF WriteJson, Committed
    <3>2. /\ DOMAIN cli' = Clis /\ DOMAIN cli'[p] = CliFields
          /\ cli'[p].pc = "ready" /\ cli'[p].raw = cli[p].text /\ cli'[p].text = cli[p].text
          /\ cli'[p].revision = n /\ cli'[p].action = cli[p].action
      BY <1>0, <1>2, <3>1 DEF Shaped, CliFields
    <3>3. /\ DOMAIN committed' = DOMAIN committed \union {n} /\ committed'[n] = cli[p].text
          /\ \A r \in DOMAIN committed : r # n => committed'[r] = committed[r]
      BY <3>1 DEF Put
    <3>4. cli[p].text = cli[p].raw /\ (external \/ cli[p].raw = active)
      BY <1>0, <2>1, <2>6 DEF Stage, Opening
    <3> HIDE DEF n
    <3>5. IsCli(cli'[p])
      BY <1>2, <1>3, <3>2 DEF IsCli, Revisions
    <3>6. TypeOK' /\ Shaped'
      BY <1>0, <1>3, <2>1, <2>2, <2>4, <3>2, <3>3, <3>5 DEF TypeOK, Shaped
    <3>7. Ledger'
      <4>1. json'[n].parent < n /\ json'[n].danger = ""
        <5>1. cli[p].revision < n
          BY <1>2
        <5>2. metadata(p).danger = ""
          BY <2>4, <2>6
        <5>. QED
          BY <2>2, <2>4, <5>1, <5>2
      <4>. QED
        BY <1>4, <2>1, <2>2, <2>3, <2>5, <3>3, <4>1 DEF Ledger
    <3>8. Accounted'
      BY <1>0, <2>1, <2>2, <3>3 DEF Accounted, n
    <3>9. Recorded'
      BY <1>2, <1>3, <1>5, <2>1, <3>3, <3>4 DEF Recorded
    <3>10. PublishedValidates'
      BY <2>1 DEF PublishedValidates
    <3>11. Stage(p)'
      <4>1. AtNewest(p)'
        BY <1>2, <1>5, <2>2, <2>3, <3>2 DEF AtNewest, Writing
      <4>2. Based(p)'
        BY <2>1, <2>2, <2>3, <3>2 DEF Based
      <4>3. Written(p)' /\ Opening(p)' /\ Guarded(p)' /\ Content(p)'
        BY <3>2 DEF Written, Opening, Guarded, Content
      <4>. QED
        BY <4>1, <4>2, <4>3 DEF Stage
    <3>. QED
      BY <1>0, <3>6, <3>7, <3>8, <3>9, <3>10, <3>11
  <2>7. CASE ~Records(p)
    <3>1. Goto(p, "replace") /\ committed' = committed
      BY <1>7, <2>7 DEF WriteJson
    <3>2. /\ DOMAIN cli' = Clis /\ DOMAIN cli'[p] = CliFields
          /\ cli'[p].pc = "replace" /\ cli'[p].raw = cli[p].raw /\ cli'[p].text = cli[p].text
          /\ cli'[p].revision = cli[p].revision /\ cli'[p].action = cli[p].action
      BY <2>1, <3>1, Moved DEF Goto
    <3>3. next(p)' = n /\ metadata(p)' = metadata(p) /\ Records(p)' = Records(p)
      BY <3>2 DEF next, metadata, Records
    <3> HIDE DEF n
    <3>4. IsCli(cli'[p])
      BY <1>2, <3>2 DEF IsCli, Writing
    <3>5. TypeOK' /\ Shaped'
      BY <1>0, <1>3, <2>1, <2>2, <2>4, <3>1, <3>2, <3>4 DEF TypeOK, Shaped
    <3>6. Ledger'
      BY <2>1, <2>5, <3>1 DEF Ledger
    <3>7. Accounted'
      BY <1>0, <2>1, <2>2, <3>1, <3>2, <3>3 DEF Accounted, Writing, n
    <3>8. Recorded' /\ PublishedValidates'
      BY <2>1, <3>1 DEF Recorded, PublishedValidates
    <3>9. Stage(p)'
      <4>1. AtNewest(p)'
        BY <1>3, <3>1, <3>2, <3>3 DEF AtNewest
      <4>2. Written(p)'
        <5>1. \A r \in DOMAIN json' : r <= n
          BY <1>2, <1>5, <2>2, <2>3
        <5>. QED
          BY <2>1, <2>2, <2>3, <2>7, <3>2, <3>3, <5>1 DEF Written
      <4>3. Based(p)'
        BY <1>0, <2>1, <2>2, <2>7, <3>2 DEF Stage, Based
      <4>4. Opening(p)' /\ Guarded(p)' /\ Content(p)'
        BY <1>0, <2>1, <2>7, <3>2, <3>3 DEF Stage, Opening, Guarded, Content
      <4>. QED
        BY <4>1, <4>2, <4>3, <4>4 DEF Stage
    <3>. QED
      BY <1>0, <3>5, <3>6, <3>7, <3>8, <3>9
  <2>. QED
    BY <2>6, <2>7
<1>8. CASE Replace(p)
  <2>1. /\ cli[p].pc = "replace" /\ active' = cli[p].text /\ external' = FALSE
        /\ cli' = [cli EXCEPT ![p].pc = "ready", ![p].revision = n, ![p].raw = cli[p].text]
        /\ committed' = Put(committed, n, cli[p].text)
        /\ UNCHANGED <<yaml, json, debris, window>>
    BY <1>8 DEF Replace, Committed
  <2>2. /\ DOMAIN cli' = Clis /\ DOMAIN cli'[p] = CliFields
        /\ cli'[p].pc = "ready" /\ cli'[p].raw = cli[p].text /\ cli'[p].text = cli[p].text
        /\ cli'[p].revision = n /\ cli'[p].action = cli[p].action
    BY <1>0, <1>2, <2>1 DEF Shaped, CliFields
  <2>3. /\ DOMAIN committed' = DOMAIN committed \union {n} /\ committed'[n] = cli[p].text
        /\ \A r \in DOMAIN committed : r # n => committed'[r] = committed[r]
    BY <2>1 DEF Put
  <2>4. /\ ~Records(p) /\ n \in DOMAIN yaml /\ yaml[n] = cli[p].text
        /\ n \in DOMAIN json /\ json[n] = metadata(p) /\ \A r \in DOMAIN json : r <= n
        /\ cli[p].revision \in DOMAIN yaml /\ yaml[cli[p].revision] = cli[p].raw
    BY <1>0, <2>1 DEF Stage, Written, Based
  <2> HIDE DEF n
  <2>5. IsCli(cli'[p])
    BY <1>2, <1>3, <2>2 DEF IsCli, Revisions
  <2>6. external' \in BOOLEAN
    BY <2>1
  <2>7. TypeOK'
    BY <1>0, <1>2, <1>3, <2>1, <2>2, <2>3, <2>5, <2>6 DEF TypeOK, IsCli
  <2>8. Shaped'
    BY <1>0, <2>2 DEF Shaped
  <2>9. Ledger'
    <3>1. /\ json[n].parent = cli[p].revision
          /\ json[n].danger = Danger(cli[p].raw, cli[p].text)
      BY <2>4 DEF metadata
    <3>2. json[n].danger = "normal" =>
            json[n].parent \in DOMAIN yaml /\ Spared(yaml[json[n].parent], yaml[n])
      BY <2>4, <3>1, NormalSparesSecrets DEF Spared
    <3>. QED
      BY <1>2, <1>4, <2>1, <2>3, <2>4, <3>1, <3>2 DEF Ledger
  <2>10. Accounted'
    BY <1>0, <2>1, <2>3 DEF Accounted, n
  <2>11. Recorded'
    BY <1>2, <1>3, <1>5, <2>1, <2>3 DEF Recorded
  <2>12. PublishedValidates'
    <3>1. CASE cli[p].action = "apply"
      <4>1. PICK c : /\ IsDocument(c) /\ ValidateYAML(c) /\ MergeAccepts(c, cli[p].raw)
                     /\ cli[p].text = mergeSecretPlaceholders(c, cli[p].raw)
        BY <1>0, <2>1, <3>1 DEF Stage, Content, Edited
      <4>2. IsDocument(cli[p].raw)
        BY <1>2 DEF IsCli
      <4> DEFINE t == mergeSecretPlaceholders(c, cli[p].raw)
      <4>3. \/ ValidateYAML(t)
            \/ \E s \in sensitiveConfigPaths \intersect DOMAIN t : t[s] \in {"", "null", "mapping"}
        BY <4>1, <4>2, MergeValidates, Zenon
      <4> HIDE DEF t
      <4>. QED
        BY <2>1, <4>1, <4>3 DEF PublishedValidates, t
    <3>2. CASE cli[p].action = "rollback"
      BY <1>0, <2>1, <3>2 DEF Stage, Content, PublishedValidates
    <3>. QED
      BY <1>2, <2>4, <3>1, <3>2 DEF IsCli, Actions, Records
  <2>13. Stage(p)'
    <3>1. AtNewest(p)'
      BY <2>1, <2>2, <2>4 DEF AtNewest, Writing
    <3>2. Based(p)'
      BY <2>1, <2>2, <2>4 DEF Based
    <3>3. Written(p)' /\ Opening(p)' /\ Guarded(p)' /\ Content(p)'
      BY <2>2 DEF Written, Opening, Guarded, Content
    <3>. QED
      BY <3>1, <3>2, <3>3 DEF Stage
  <2>. QED
    BY <1>0, <2>7, <2>8, <2>9, <2>10, <2>11, <2>12, <2>13
<1>. QED
  BY <1>6, <1>7, <1>8

\* The writes that fail, the undoing and the kill.
LEMMA UndoInv ==
  ASSUME ConfigInv, NEW p \in Clis,
         \/ WriteYamlFails(p) \/ WriteFails(p) \/ RemoveYaml(p) \/ RemoveJson(p) \/ Kill(p)
  PROVE  ConfigInv'
<1> USE DEF ConfigInv
<1> DEFINE n == next(p)
<1>0. TypeOK /\ Shaped /\ Stage(p) /\ \A q \in Clis : q = p
  BY SingleInstance
<1>1. cli[p].pc # "exited"
  BY DEF WriteYamlFails, WriteFails, RemoveYaml, RemoveJson, Kill
<1>2. /\ IsCli(cli[p]) /\ DOMAIN cli[p] = CliFields
      /\ cli[p].revision \in Nat /\ n = cli[p].revision + 1 /\ n \in Nat \ {0}
  BY <1>1, Running
<1>3. cli[p].pc \in Writing => n \in Revisions /\ \A r \in DOMAIN committed : r <= cli[p].revision
  BY <1>0 DEF Stage, AtNewest
<1>4. cli[p].pc \in Writing => n \notin DOMAIN committed
  BY <1>2, <1>3
<1>5. DOMAIN yaml \subseteq Nat /\ DOMAIN json \subseteq Nat /\ DOMAIN committed \subseteq Nat
  BY <1>0, MaxRevAssumption DEF TypeOK, Revisions
<1>6. window \in BOOLEAN /\ debris \in SUBSET Revisions
  BY <1>0 DEF TypeOK
<1>7. CASE WriteYamlFails(p)
  <2>1. cli[p].pc = "writeYaml" /\ Exit(p) /\ UNCHANGED <<files, committed, debris, external, window>>
    BY <1>7 DEF WriteYamlFails, history
  <2>2. \A r \in DOMAIN json : r <= cli[p].revision
    BY <1>0, <2>1 DEF Stage, AtNewest
  <2>3. next(p) \notin DOMAIN json
    BY <1>2, <2>2
  <2>. QED
    BY <1>6, <2>1, <2>3, ExitInv
<1>8. CASE WriteFails(p)
  <2>1. /\ cli[p].pc \in {"writeJson", "replace"} /\ Goto(p, "removeYaml")
        /\ UNCHANGED <<files, committed, debris, external, window>>
    BY <1>8 DEF WriteFails, history
  <2>2. /\ DOMAIN cli' = Clis /\ DOMAIN cli'[p] = CliFields
        /\ cli'[p].pc = "removeYaml" /\ cli'[p].raw = cli[p].raw /\ cli'[p].text = cli[p].text
        /\ cli'[p].revision = cli[p].revision /\ cli'[p].action = cli[p].action
    BY <1>1, <2>1, Moved DEF Goto
  <2>3. IsCli(cli'[p])
    BY <1>2, <2>2 DEF IsCli, Writing
  <2>4. next(p)' = n
    BY <2>2 DEF next
  <2> HIDE DEF n
  <2>5. AtNewest(p)'
    BY <1>3, <2>1, <2>2, <2>4 DEF AtNewest, Writing
  <2>6. Stage(p)'
    BY <2>2, <2>5 DEF Stage, Written, Based, Opening, Guarded, Content
  <2>7. window' \in BOOLEAN
    BY <1>6, <2>1
  <2>. QED
    BY <2>1, <2>2, <2>3, <2>6, <2>7, GoOnInv DEF Writing
<1>9. CASE RemoveYaml(p)
  <2>1. /\ cli[p].pc = "removeYaml" /\ Goto(p, "removeJson")
        /\ UNCHANGED <<active, json, committed, external, window>>
    BY <1>9 DEF RemoveYaml
  <2>2. /\ DOMAIN cli' = Clis /\ DOMAIN cli'[p] = CliFields
        /\ cli'[p].pc = "removeJson" /\ cli'[p].raw = cli[p].raw /\ cli'[p].text = cli[p].text
        /\ cli'[p].revision = cli[p].revision /\ cli'[p].action = cli[p].action
    BY <1>1, <2>1, Moved DEF Goto
  <2>3. IsCli(cli'[p])
    BY <1>2, <2>2 DEF IsCli, Writing
  <2>4. /\ n \in Revisions /\ \A r \in DOMAIN committed : r <= cli[p].revision
        /\ n \notin DOMAIN committed
    BY <1>3, <1>4, <2>1 DEF Writing
  <2>5. next(p)' = n
    BY <2>2 DEF next
  <2>6. debris' \in SUBSET Revisions /\ debris \subseteq debris'
    BY <1>6, <1>9, <2>4 DEF RemoveYaml
  <2>7. /\ DOMAIN yaml' \subseteq DOMAIN yaml /\ \A r \in DOMAIN yaml' : yaml'[r] = yaml[r]
        /\ \A r \in DOMAIN yaml : r # n => r \in DOMAIN yaml'
    BY <1>9 DEF RemoveYaml, Delete
  <2> HIDE DEF n
  <2>8. TypeOK'
    BY <1>0, <2>1, <2>2, <2>3, <2>6, <2>7 DEF TypeOK
  <2>9. Shaped'
    BY <1>0, <2>2 DEF Shaped
  <2>10. Ledger'
    <3> SUFFICES ASSUME NEW r \in DOMAIN committed
                 PROVE  /\ r \in DOMAIN json /\ r \in DOMAIN yaml' /\ yaml'[r] = committed[r]
                        /\ json[r].parent < r
                        /\ json[r].danger = "normal" =>
                             /\ json[r].parent \in DOMAIN yaml'
                             /\ Spared(yaml'[json[r].parent], yaml'[r])
      BY <2>1 DEF Ledger
    <3>1. /\ r \in DOMAIN json /\ r \in DOMAIN yaml /\ yaml[r] = committed[r] /\ json[r].parent < r
          /\ json[r].danger = "normal" =>
               json[r].parent \in DOMAIN yaml /\ Spared(yaml[json[r].parent], yaml[r])
      BY DEF Ledger
    <3>2. json[r].parent \in Nat /\ r \in Nat
      <4>1. json[r] \in Meta
        BY <1>0, <3>1 DEF TypeOK
      <4>2. json[r].parent \in 0 .. MaxRev
        BY <4>1 DEF Meta
      <4>. QED
        BY <1>5, <4>2
    <3>3. r # n /\ json[r].parent # n
      BY <1>2, <2>4, <3>1, <3>2
    <3>. QED
      BY <2>7, <3>1, <3>3
  <2>11. Accounted'
    BY <1>0, <2>1, <2>2, <2>5, <2>6 DEF Accounted, Writing, n
  <2>12. Recorded' /\ PublishedValidates'
    BY <2>1 DEF Recorded, PublishedValidates
  <2>13. AtNewest(p)'
    BY <2>1, <2>2, <2>4, <2>5 DEF AtNewest, Writing
  <2>14. Stage(p)'
    BY <2>2, <2>13 DEF Stage, Written, Based, Opening, Guarded, Content
  <2>. QED
    BY <1>0, <2>8, <2>9, <2>10, <2>11, <2>12, <2>14
<1>10. CASE RemoveJson(p)
  <2>1. /\ cli[p].pc = "removeJson" /\ Exit(p)
        /\ UNCHANGED <<active, yaml, committed, external, window>>
    BY <1>10 DEF RemoveJson
  <2>2. DOMAIN cli' = Clis /\ cli'[p] = Exited /\ cli'[p].pc = "exited"
    BY <1>0, <2>1 DEF Exit, Shaped, Exited
  <2>3. n \in Revisions /\ n \notin DOMAIN committed
    BY <1>3, <1>4, <2>1 DEF Writing
  <2>4. debris' \in SUBSET Revisions /\ debris \subseteq debris'
    BY <1>6, <1>10, <2>3 DEF RemoveJson
  <2>5. /\ DOMAIN json' \subseteq DOMAIN json /\ \A r \in DOMAIN json' : json'[r] = json[r]
        /\ \A r \in DOMAIN json : r # n => r \in DOMAIN json'
        /\ n \notin DOMAIN json' \/ n \in debris'
    BY <1>10 DEF RemoveJson, Delete
  <2> HIDE DEF n
  <2>6. TypeOK'
    BY <1>0, <2>1, <2>2, <2>4, <2>5 DEF TypeOK
  <2>7. Shaped'
    BY <1>0, <2>2 DEF Shaped
  <2>8. Ledger'
    <3> SUFFICES ASSUME NEW r \in DOMAIN committed
                 PROVE  /\ r \in DOMAIN json' /\ r \in DOMAIN yaml /\ yaml[r] = committed[r]
                        /\ json'[r].parent < r
                        /\ json'[r].danger = "normal" =>
                             /\ json'[r].parent \in DOMAIN yaml
                             /\ Spared(yaml[json'[r].parent], yaml[r])
      BY <2>1 DEF Ledger
    <3>1. r # n /\ r \in DOMAIN json
      BY <2>3 DEF Ledger
    <3>2. r \in DOMAIN json' /\ json'[r] = json[r]
      BY <2>5, <3>1
    <3>. QED
      BY <3>2 DEF Ledger
  <2>9. Accounted'
    BY <1>0, <2>1, <2>4, <2>5 DEF Accounted, n
  <2>10. Recorded' /\ PublishedValidates'
    BY <2>1 DEF Recorded, PublishedValidates
  <2>11. Stage(p)'
    BY <2>2 DEF Stage, AtNewest, Written, Based, Opening, Guarded, Content, Writing
  <2>. QED
    BY <1>0, <2>6, <2>7, <2>8, <2>9, <2>10, <2>11
<1>11. CASE Kill(p)
  <2>1. /\ Exit(p) /\ UNCHANGED <<files, committed, external, window>>
        /\ debris' = IF cli[p].pc \in Writing THEN debris \union {n} ELSE debris
    BY <1>11 DEF Kill
  <2>2. /\ debris' \in SUBSET Revisions /\ debris \subseteq debris'
        /\ cli[p].pc \in Writing => next(p) \in debris'
    BY <1>3, <1>6, <2>1
  <2>. QED
    BY <2>1, <2>2, ExitInv
<1>. QED
  BY <1>7, <1>8, <1>9, <1>10, <1>11

\* An editor that saves the active file leaves the history as it is.
LEMMA EditorInv ==
  ASSUME ConfigInv, NEW text \in Files, EditorSaves(text)
  PROVE  ConfigInv'
<1> USE DEF ConfigInv
<1>1. /\ active' = text /\ external' = TRUE
      /\ window' = \E p \in Clis : cli[p].pc \in {"writeYaml", "writeJson", "replace"} /\ ~Records(p)
      /\ UNCHANGED <<yaml, json, cli, committed, debris>>
  BY DEF EditorSaves
<1>2. window' \in BOOLEAN /\ external' \in BOOLEAN
  BY <1>1
<1>3. TypeOK' /\ Shaped'
  BY <1>1, <1>2, TextsAssumption DEF TypeOK, Shaped
<1>4. Ledger' /\ Accounted' /\ Recorded' /\ PublishedValidates'
  BY <1>1 DEF Ledger, Accounted, Recorded, PublishedValidates, next
<1>5. ASSUME NEW p \in Clis PROVE Stage(p)'
  <2>1. AtNewest(p)' /\ Written(p)' /\ Based(p)' /\ Content(p)'
    BY <1>1 DEF Stage, AtNewest, Written, Based, Content, next, metadata, Records
  <2>2. Opening(p)'
    BY <1>1 DEF Stage, Opening, Records
  <2>3. Guarded(p)'
    BY <1>1 DEF Guarded, Records
  <2>. QED
    BY <2>1, <2>2, <2>3 DEF Stage
<1>. QED
  BY <1>3, <1>4, <1>5

\* Every step preserves the invariant.
LEMMA StepInv == ConfigInv /\ [Next]_vars => ConfigInv'
<1> SUFFICES ASSUME ConfigInv, [Next]_vars PROVE ConfigInv'
  OBVIOUS
<1>1. ASSUME NEW p \in Clis, Command(p) PROVE ConfigInv'
  BY <1>1, OpenInv, CommandInv, WriteInv, UndoInv DEF Command
<1>2. ASSUME NEW p \in Clis, Kill(p) PROVE ConfigInv'
  BY <1>2, UndoInv
<1>3. ASSUME NEW text \in Files, EditorSaves(text) PROVE ConfigInv'
  BY <1>3, EditorInv
<1>4. CASE UNCHANGED vars
  <2>1. UNCHANGED <<active, yaml, json, cli, committed, debris, external, window>>
    BY <1>4 DEF vars, files, history
  <2>2. TypeOK' /\ Shaped'
    BY <2>1 DEF ConfigInv, TypeOK, Shaped
  <2>3. Ledger' /\ Accounted' /\ Recorded' /\ PublishedValidates'
    BY <2>1 DEF ConfigInv, Ledger, Accounted, Recorded, PublishedValidates, next
  <2>4. ASSUME NEW p \in Clis PROVE Stage(p)'
    <3>1. AtNewest(p)' /\ Written(p)' /\ Based(p)'
      BY <2>1 DEF ConfigInv, Stage, AtNewest, Written, Based, next, metadata, Records
    <3>2. Opening(p)' /\ Guarded(p)' /\ Content(p)'
      BY <2>1 DEF ConfigInv, Stage, Opening, Guarded, Content, Records
    <3>. QED
      BY <3>1, <3>2 DEF Stage
  <2>. QED
    BY <2>2, <2>3, <2>4 DEF ConfigInv
<1>. QED
  BY <1>1, <1>2, <1>3, <1>4 DEF Next

\* The configuration store satisfies its inductive invariant.
LEMMA ConfigCorrect == Spec => []ConfigInv
BY InitInv, StepInv, PTL DEF Spec

-----------------------------------------------------------------------------
\* The active file, the history and every process stay well formed.
THEOREM TypeCorrect == Spec => []TypeOK
<1>1. ConfigInv => TypeOK
  BY DEF ConfigInv
<1>. QED
  BY <1>1, ConfigCorrect, PTL

\* A reported revision keeps its metadata and its text, whatever fails, is
\* killed or is saved by an editor; what else the history lists is in progress
\* or a leftover; and an open store stands on the newest revision.
THEOREM HistoryIsSound == Spec => []HistorySound
<1>1. ASSUME ConfigInv PROVE HistorySound
  <2>1. \A r \in DOMAIN committed : r \in DOMAIN json /\ r \in DOMAIN yaml /\ yaml[r] = committed[r]
    BY <1>1 DEF ConfigInv, Ledger
  <2>2. DOMAIN json \subseteq DOMAIN committed \union InProgress \union debris
    BY <1>1 DEF ConfigInv, Accounted, InProgress
  <2>3. ASSUME NEW p \in Clis, cli[p].pc \in {"ready", "planned"}
        PROVE  /\ cli[p].revision = newest
               /\ newest \in DOMAIN yaml
               /\ yaml[newest] = cli[p].raw
    <3>1. /\ \A r \in DOMAIN json : r <= cli[p].revision
          /\ cli[p].revision \in DOMAIN json /\ cli[p].revision \in DOMAIN yaml
          /\ yaml[cli[p].revision] = cli[p].raw
      BY <1>1, <2>3 DEF ConfigInv, Stage, AtNewest, Based
    <3>2. TypeOK /\ cli[p].revision \in Nat
      BY <1>1, <2>3, Running DEF ConfigInv
    <3>3. newest = cli[p].revision
      BY <3>1, <3>2, NewestUnique
    <3>. QED
      BY <3>1, <3>3
  <2>. QED
    BY <2>1, <2>2, <2>3 DEF HistorySound
<1>. QED
  BY <1>1, ConfigCorrect, PTL

\* What garmr last published is the newest reported revision, until an editor
\* writes the file.
THEOREM ActiveRecorded == Spec => []ActiveIsRecorded
<1>1. ASSUME ConfigInv PROVE ActiveIsRecorded
  <2> SUFFICES ASSUME ~external
               PROVE  DOMAIN committed # {} /\ committed[Max(DOMAIN committed)] = active
    BY DEF ActiveIsRecorded
  <2> DEFINE S == DOMAIN committed
  <2>1. PICK m \in S : committed[m] = active /\ \A r \in S : r <= m
    BY <1>1 DEF ConfigInv, Recorded
  <2>2. MaxRev \in Nat /\ S \in SUBSET (0 .. MaxRev) /\ S # {}
    BY <1>1, <2>1, MaxRevAssumption DEF ConfigInv, TypeOK, Revisions
  <2>3. Max(S) \in S /\ \A k \in S : k <= Max(S)
    <3> HIDE DEF S
    <3>. QED
      BY <2>2, Greatest
  <2>4. Max(S) = m
    <3> HIDE DEF S
    <3>1. Max(S) <= m /\ m <= Max(S)
      BY <2>1, <2>3
    <3>2. Max(S) \in 0 .. MaxRev /\ m \in 0 .. MaxRev
      BY <2>1, <2>2, <2>3
    <3> DEFINE k == Max(S)
    <3> HIDE DEF k
    <3>3. k \in 0 .. MaxRev /\ k <= m /\ m <= k
      BY <3>1, <3>2 DEF k
    <3>4. k = m
      BY <2>2, <3>2, <3>3
    <3>. QED
      BY <3>4 DEF k
  <2>. QED
    BY <2>1, <2>2, <2>4
<1>. QED
  BY <1>1, ConfigCorrect, PTL

\* What a running Apply carries is an edit merged with the text it read.
LEMMA ApplyingEdited ==
  ASSUME ConfigInv, NEW p \in Clis, Applying(p)
  PROVE  \E c : /\ IsDocument(c) /\ MergeAccepts(c, cli[p].raw) /\ IsDocument(cli[p].raw)
                /\ cli[p].text = mergeSecretPlaceholders(c, cli[p].raw)
<1>1. cli[p].pc # "exited"
  BY DEF Applying
<1>2. IsDocument(cli[p].raw)
  BY <1>1, Running DEF IsCli
<1>. QED
  BY <1>2 DEF ConfigInv, Stage, Content, Edited, Applying

\* A secret survives the round trip through the editor, is emptied, or goes
\* with its section.
THEOREM SecretsKept == Spec => []SecretsSurvive
<1>1. ASSUME ConfigInv PROVE SecretsSurvive
  <2> SUFFICES ASSUME NEW p \in Clis, Applying(p),
                      NEW s \in sensitiveConfigPaths \intersect DOMAIN cli[p].raw
               PROVE  IF s \in DOMAIN cli[p].text THEN cli[p].text[s] \in {cli[p].raw[s], ""}
                                                  ELSE Front(s) \notin DOMAIN cli[p].text
    BY DEF SecretsSurvive
  <2>1. PICK c : /\ IsDocument(c) /\ MergeAccepts(c, cli[p].raw) /\ IsDocument(cli[p].raw)
                 /\ cli[p].text = mergeSecretPlaceholders(c, cli[p].raw)
    BY <1>1, ApplyingEdited
  <2>. QED
    BY <2>1, MergeKeepsSecrets, Zenon
<1>. QED
  BY <1>1, ConfigCorrect, PTL

\* No placeholder and no new secret comes in by an edit, outside what the
\* merge does not look into.
THEOREM NothingGetsIn == Spec => []NothingSlipsIn
<1>1. ASSUME ConfigInv PROVE NothingSlipsIn
  <2> SUFFICES ASSUME NEW p \in Clis, Applying(p), NEW q \in DOMAIN cli[p].text,
                      \/ cli[p].text[q] \in Placeholders /\ cli[p].text[q] # Node(cli[p].raw, q)
                      \/ q \in sensitiveConfigPaths /\ q \notin DOMAIN cli[p].raw
               PROVE  \E a \in DOMAIN cli[p].raw : IsStrictPrefix(a, q) /\ cli[p].raw[a] # "mapping"
    BY DEF NothingSlipsIn
  <2>1. PICK c : /\ IsDocument(c) /\ MergeAccepts(c, cli[p].raw) /\ IsDocument(cli[p].raw)
                 /\ cli[p].text = mergeSecretPlaceholders(c, cli[p].raw)
    BY <1>1, ApplyingEdited
  <2>2. DOMAIN cli[p].text = DOMAIN c
    BY <2>1 DEF mergeSecretPlaceholders
  <2>. QED
    BY <2>1, <2>2, MergeLetsNothingIn, Zenon
<1>. QED
  BY <1>1, ConfigCorrect, PTL

\* The history marks dangerous every change of a secret whose section stayed.
THEOREM SecretsFlagged == Spec => []SecretChangesFlagged
<1>1. ConfigInv => SecretChangesFlagged
  BY DEF ConfigInv, Ledger, Spared, SecretChangesFlagged
<1>. QED
  BY <1>1, ConfigCorrect, PTL

\* What garmr publishes validates, unless a secret in it is empty or no scalar.
THEOREM PublishedValid == Spec => []PublishedValidates
<1>1. ConfigInv => PublishedValidates
  BY DEF ConfigInv
<1>. QED
  BY <1>1, ConfigCorrect, PTL

\* A publication overwrites a text the history holds, unless an editor saved
\* between the comparison and the replace.
THEOREM OverwritesAreRecoverable == Spec => OverwritesRecoverable
<1> DEFINE A == \A p \in Clis : cli[p].pc = "replace" /\ cli'[p].pc = "ready" =>
                  window \/ \E r \in DOMAIN json \intersect DOMAIN yaml : yaml[r] = active
<1>1. ConfigInv => A
  <2> SUFFICES ASSUME ConfigInv, NEW p \in Clis, cli[p].pc = "replace", ~window
               PROVE  \E r \in DOMAIN json \intersect DOMAIN yaml : yaml[r] = active
    OBVIOUS
  <2>1. ~Records(p)
    BY DEF ConfigInv, Stage, Written
  <2>2. active = cli[p].raw
    BY <2>1 DEF ConfigInv, Stage, Guarded
  <2>3. /\ cli[p].revision \in DOMAIN json /\ cli[p].revision \in DOMAIN yaml
        /\ yaml[cli[p].revision] = cli[p].raw
    BY <2>1 DEF ConfigInv, Stage, Based
  <2>. QED
    BY <2>2, <2>3
<1>2. ConfigInv => [A]_vars
  BY <1>1
<1> HIDE DEF A
<1>3. Spec => [][A]_vars
  BY <1>2, ConfigCorrect, PTL
<1>. QED
  BY <1>3 DEF OverwritesRecoverable, A
=============================================================================
