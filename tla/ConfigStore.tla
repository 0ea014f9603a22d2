----------------------------- MODULE ConfigStore -----------------------------
(***************************************************************************)
(* internal/configstore and the part of internal/configctl and the garmr   *)
(* CLI that drives it: the active configuration file, and beside it one    *)
(* .yaml (the text) and one .json (its metadata) per revision.             *)
(*                                                                         *)
(* A garmr process opens the store, shows, edits or rolls back, and exits. *)
(* Each step below is one call into the file system, each of which may     *)
(* fail; between two of them the process may be killed, and an operator    *)
(* may save the active file with an editor.                                *)
(***************************************************************************)
EXTENDS Integers, FiniteSetsExt, ConfigSecrets

CONSTANTS
  Clis,    \* the garmr process, run again and again
  Files,   \* the texts an operator saves as the active file
  Edits,   \* the texts a user leaves behind in `config edit`
  MaxRev   \* bound: the last revision number

\* New makes a "single-instance" store (store.go:114): nothing locks the
\* history, and two garmr processes at a time are outside its contract.
ASSUME SingleInstance == \A p, q \in Clis : p = q
ASSUME MaxRevAssumption == MaxRev \in Nat \ {0}
ASSUME TextsAssumption == Files # {} /\ \A d \in Files \union Edits : IsDocument(d)

VARIABLES
  active,     \* the text of the configuration file
  yaml,       \* the revision texts, as a function on the revisions that have one
  json,       \* the revision metadata, likewise
  cli,        \* per process, where it is and its Store
  committed,  \* history: the revisions a store reported as written, with their text
  debris,     \* history: revisions whose writing or undoing was cut short
  external,   \* history: was the active file last written by an editor?
  window      \* history: was that between Apply's check and its replace?

files == <<active, yaml, json>>
history == <<committed, debris, external, window>>
vars == <<files, cli, history>>

Revisions == 1..MaxRev

Actions == {"bootstrap", "external", "apply", "rollback"}

Meta == [parent : 0..MaxRev, action : Actions, danger : {"", "normal", "dangerous"}]

None == [r \in {} |-> 0]

Put(f, r, x) == [i \in DOMAIN f \union {r} |-> IF i = r THEN x ELSE f[i]]
Delete(f, r) == [i \in DOMAIN f \ {r} |-> f[i]]

Exited == [pc |-> "exited"]

\* raw, revision: the fields of Store.  text, action: the revision being
\* written, whose number is revision + 1.
Writing == {"writeYaml", "writeJson", "replace", "removeYaml", "removeJson"}

IsCli(c) ==
  /\ c.pc \in {"loading", "compare", "ready", "planned"} \union Writing
  /\ IsDocument(c.raw) /\ IsDocument(c.text)
  /\ c.revision \in 0..MaxRev
  /\ c.action \in Actions

next(p) == cli[p].revision + 1

Goto(p, pc) == cli' = [cli EXCEPT ![p].pc = pc]
Exit(p) == cli' = [cli EXCEPT ![p] = Exited]

(***************************************************************************)
(* Opening: configctl.Open and configstore.New.                            *)
(***************************************************************************)
\* Fault: the first revision is written without an action in its metadata.
FaultNoAction(p) ==
  /\ cli[p].pc = "exited"
  /\ cli' = [cli EXCEPT ![p] = [pc |-> "loading", raw |-> active, revision |-> 0,
                                text |-> active, action |-> ""]]
  /\ UNCHANGED <<files, history>>

ReadActive(p) ==
  /\ cli[p].pc = "exited"
  /\ cli' = [cli EXCEPT ![p] = [pc |-> "loading", raw |-> active, revision |-> 0,
                                text |-> active, action |-> "bootstrap"]]
  /\ UNCHANGED <<files, history>>

newest == Max(DOMAIN json \union {0})

LoadHistory(p) ==
  /\ cli[p].pc = "loading"
  /\ cli' = [cli EXCEPT ![p].revision = newest,
                        ![p].pc = IF newest = 0 THEN "writeYaml" ELSE "compare"]
  /\ UNCHANGED <<files, history>>

\* A newest revision without its text makes Open fail.  A text other than the
\* newest revision's was edited outside and becomes a revision of its own.
CompareLatest(p) ==
  /\ cli[p].pc = "compare"
  /\ \/ cli[p].revision \notin DOMAIN yaml /\ Exit(p)
     \/ /\ cli[p].revision \in DOMAIN yaml
        /\ yaml[cli[p].revision] = cli[p].raw
        /\ Goto(p, "ready")
     \/ /\ cli[p].revision \in DOMAIN yaml
        /\ yaml[cli[p].revision] # cli[p].raw
        /\ cli[p].revision < MaxRev
        /\ cli' = [cli EXCEPT ![p].pc = "writeYaml", ![p].action = "external"]
  /\ UNCHANGED <<files, history>>

(***************************************************************************)
(* The commands.  A user who changes nothing, or declines the plan, exits; *)
(* one whose text is refused edits again or exits.                         *)
(***************************************************************************)
\* Fault: the edited text is merged without having been validated.
FaultNotValidated(p, edited) ==
  LET base == cli[p].raw
      text == mergeSecretPlaceholders(edited, base)
  IN  /\ cli[p].pc = "ready"
      /\ edited # redactNode(base)
      /\ MergeAccepts(edited, base)
      /\ diffValue(base, text) # {}
      /\ cli' = [cli EXCEPT ![p].pc = "planned", ![p].text = text, ![p].action = "apply"]
      /\ UNCHANGED <<files, history>>

\* configEdit validates the text with its placeholders in, then merges.
Edit(p, edited) ==
  LET base == cli[p].raw
      text == mergeSecretPlaceholders(edited, base)
  IN  /\ cli[p].pc = "ready"
      /\ edited # redactNode(base)
      /\ ValidateYAML(edited)
      /\ MergeAccepts(edited, base)
      /\ diffValue(base, text) # {}
      /\ cli' = [cli EXCEPT ![p].pc = "planned", ![p].text = text, ![p].action = "apply"]
      /\ UNCHANGED <<files, history>>

PlanRollback(p, r) ==
  /\ cli[p].pc = "ready"
  /\ r \in DOMAIN json \intersect DOMAIN yaml
  /\ ValidateYAML(yaml[r])
  /\ diffValue(cli[p].raw, yaml[r]) # {}
  /\ cli' = [cli EXCEPT ![p].pc = "planned", ![p].text = yaml[r],
                        ![p].action = "rollback"]
  /\ UNCHANGED <<files, history>>

Quit(p) ==
  /\ cli[p].pc \in {"ready", "planned"}
  /\ Exit(p)
  /\ UNCHANGED <<files, history>>

\* Fault: the file is published before the revision is recorded.
FaultPublishFirst(p) ==
  /\ cli[p].pc = "planned"
  /\ next(p) <= MaxRev
  /\ IF active = cli[p].raw THEN Goto(p, "writeYaml") ELSE Exit(p)
  /\ active' = IF active = cli[p].raw THEN cli[p].text ELSE active
  /\ external' = (external /\ active # cli[p].raw)
  /\ UNCHANGED <<yaml, json, committed, debris, window>>

\* Fault: the plan is applied to whatever the file holds by now.
FaultConflictIgnored(p) ==
  /\ cli[p].pc = "planned"
  /\ next(p) <= MaxRev
  /\ Goto(p, "writeYaml")
  /\ window' = FALSE
  /\ UNCHANGED <<files, committed, debris, external>>

\* Apply: a file that is no longer what the plan was made for is a conflict.
CheckExternal(p) ==
  /\ cli[p].pc = "planned"
  /\ next(p) <= MaxRev
  /\ IF active = cli[p].raw THEN Goto(p, "writeYaml") ELSE Exit(p)
  /\ window' = FALSE
  /\ UNCHANGED <<files, committed, debris, external>>

(***************************************************************************)
(* Writing a revision, publishing it, and undoing a failure.               *)
(***************************************************************************)
WriteYaml(p) ==
  /\ cli[p].pc = "writeYaml"
  /\ yaml' = Put(yaml, next(p), cli[p].text)
  /\ Goto(p, "writeJson")
  /\ UNCHANGED <<active, json, history>>

\* The first write failed: nothing to undo.
WriteYamlFails(p) ==
  /\ cli[p].pc = "writeYaml"
  /\ Exit(p)
  /\ UNCHANGED <<files, history>>

Committed(p) ==
  /\ cli' = [cli EXCEPT ![p].pc = "ready", ![p].revision = next(p),
                        ![p].raw = cli[p].text]
  /\ committed' = Put(committed, next(p), cli[p].text)

Records(p) == cli[p].action \in {"bootstrap", "external"}

metadata(p) ==
  [parent |-> cli[p].revision, action |-> cli[p].action,
   danger |-> IF Records(p) THEN "" ELSE Danger(cli[p].raw, cli[p].text)]

\* A bootstrap or external revision records what is active already.
WriteJson(p) ==
  /\ cli[p].pc = "writeJson"
  /\ json' = Put(json, next(p), metadata(p))
  /\ IF Records(p) THEN Committed(p) ELSE Goto(p, "replace") /\ UNCHANGED committed
  /\ UNCHANGED <<active, yaml, debris, external, window>>

Replace(p) ==
  /\ cli[p].pc = "replace"
  /\ active' = cli[p].text
  /\ external' = FALSE
  /\ Committed(p)
  /\ UNCHANGED <<yaml, json, debris, window>>

\* Fault: Apply returns the error and leaves the revision behind.
FaultNoUndo(p) ==
  /\ cli[p].pc \in {"writeJson", "replace"}
  /\ Exit(p)
  /\ UNCHANGED <<files, history>>

WriteFails(p) ==
  /\ cli[p].pc \in {"writeJson", "replace"}
  /\ Goto(p, "removeYaml")
  /\ UNCHANGED <<files, history>>

\* removeRevisionLocked; an error of os.Remove is ignored.
RemoveYaml(p) ==
  /\ cli[p].pc = "removeYaml"
  /\ Goto(p, "removeJson")
  /\ \/ yaml' = Delete(yaml, next(p)) /\ UNCHANGED debris
     \/ debris' = debris \union {next(p)} /\ UNCHANGED yaml
  /\ UNCHANGED <<active, json, committed, external, window>>

RemoveJson(p) ==
  /\ cli[p].pc = "removeJson"
  /\ Exit(p)
  /\ \/ json' = Delete(json, next(p)) /\ UNCHANGED debris
     \/ debris' = debris \union {next(p)} /\ UNCHANGED json
  /\ UNCHANGED <<active, yaml, committed, external, window>>

(***************************************************************************)
(* The rest of the world.                                                  *)
(***************************************************************************)
\* The process is killed, or a read fails and it gives up.
Kill(p) ==
  /\ cli[p].pc # "exited"
  /\ Exit(p)
  /\ debris' = IF cli[p].pc \in Writing THEN debris \union {next(p)} ELSE debris
  /\ UNCHANGED <<files, committed, external, window>>

EditorSaves(text) ==
  /\ text # active
  /\ active' = text
  /\ external' = TRUE
  /\ window' = \E p \in Clis : cli[p].pc \in {"writeYaml", "writeJson", "replace"} /\ ~Records(p)
  /\ UNCHANGED <<yaml, json, cli, committed, debris>>

-----------------------------------------------------------------------------
Init ==
  /\ active \in Files
  /\ yaml = None /\ json = None
  /\ cli = [p \in Clis |-> Exited]
  /\ committed = None
  /\ debris = {}
  /\ external = TRUE
  /\ window = FALSE

Command(p) ==
  \/ ReadActive(p) \/ LoadHistory(p) \/ CompareLatest(p)
  \/ \E edited \in Edits : Edit(p, edited)
  \/ \E r \in Revisions : PlanRollback(p, r)
  \/ Quit(p) \/ CheckExternal(p)
  \/ WriteYaml(p) \/ WriteYamlFails(p) \/ WriteJson(p) \/ Replace(p)
  \/ WriteFails(p) \/ RemoveYaml(p) \/ RemoveJson(p)

Next ==
  \/ \E p \in Clis : Command(p) \/ Kill(p)
  \/ \E text \in Files : EditorSaves(text)

Spec == Init /\ [][Next]_vars

-----------------------------------------------------------------------------
(***************************************************************************)
(* Properties.                                                             *)
(***************************************************************************)
TypeOK ==
  /\ IsDocument(active)
  /\ DOMAIN yaml \subseteq Revisions /\ \A r \in DOMAIN yaml : IsDocument(yaml[r])
  /\ DOMAIN json \subseteq Revisions /\ \A r \in DOMAIN json : json[r] \in Meta
  /\ \A p \in Clis : cli[p] = Exited \/ IsCli(cli[p])
  /\ DOMAIN committed \subseteq Revisions
  /\ debris \in SUBSET Revisions
  /\ external \in BOOLEAN /\ window \in BOOLEAN

\* What a process is writing or undoing.
InProgress == {next(p) : p \in {q \in Clis : cli[q].pc \in Writing}}

\* A revision that was reported written keeps its metadata and its exact text
\* through every later failure and kill.  A revision that was never reported
\* is in progress or the leftover of a killed process or a failed removal: a
\* failed Apply alone publishes no phantom revision (store_test.go:232).  And a
\* store that opened stands on the newest revision and on its text, whatever
\* an earlier process left behind.
HistorySound ==
  /\ \A r \in DOMAIN committed :
       r \in DOMAIN json /\ r \in DOMAIN yaml /\ yaml[r] = committed[r]
  /\ DOMAIN json \subseteq DOMAIN committed \union InProgress \union debris
  /\ \A p \in Clis : cli[p].pc \in {"ready", "planned"} =>
       /\ cli[p].revision = newest
       /\ newest \in DOMAIN yaml
       /\ yaml[newest] = cli[p].raw

\* The file is published only after its revision is recorded: a text that
\* garmr wrote and no editor touched since is the newest reported revision's,
\* so history and rollback always know what the service runs on.
ActiveIsRecorded ==
  ~external => /\ DOMAIN committed # {}
               /\ committed[Max(DOMAIN committed)] = active

\* What a publication overwrites is the text of a recorded revision, so it can
\* be got back.  The exception is a text an editor saved while Apply was
\* between its comparison and its replace (store.go:266 and 284).
OverwritesRecoverable ==
  [][\A p \in Clis : cli[p].pc = "replace" /\ cli'[p].pc = "ready" =>
       window \/ \E r \in DOMAIN json \intersect DOMAIN yaml : yaml[r] = active]_vars

Applying(p) == cli[p].pc \in {"planned", "writeYaml", "writeJson", "replace"}
               /\ cli[p].action = "apply"

\* Through the redacted text, the user's edit and the merge, a secret keeps
\* its value or is emptied; it disappears only with the section that holds
\* it ("Sensitive base fields must survive", secret.go:128).
SecretsSurvive ==
  \A p \in Clis : Applying(p) =>
    LET base == cli[p].raw
        text == cli[p].text
    IN  \A s \in sensitiveConfigPaths \intersect DOMAIN base :
          IF s \in DOMAIN text THEN text[s] \in {base[s], ""} ELSE Front(s) \notin DOMAIN text

\* No placeholder and no secret the file did not have comes in by an edit,
\* except inside a mapping where the file had another kind of node: there the
\* merge does not look (secret.go:140 and 178).
NothingSlipsIn ==
  \A p \in Clis : Applying(p) =>
    LET base == cli[p].raw
        text == cli[p].text
    IN  \A q \in DOMAIN text :
          \/ text[q] \in Placeholders /\ text[q] # Node(base, q)
          \/ q \in sensitiveConfigPaths /\ q \notin DOMAIN base
          =>
            \E a \in DOMAIN base : IsStrictPrefix(a, q) /\ base[a] # "mapping"

\* The history flags every change of a secret as dangerous, which is what
\* asks for the confirmation phrase and the reason (README.md:242), unless
\* the section that holds it came or went as a whole.
SecretChangesFlagged ==
  \A r \in DOMAIN committed :
    json[r].danger = "normal" =>
      LET before == yaml[json[r].parent]
          after  == yaml[r]
      IN  \A s \in sensitiveConfigPaths :
            Node(before, s) # Node(after, s) =>
              ~IsMapping(before, Front(s)) \/ ~IsMapping(after, Front(s))

\* What garmr publishes, by an edit or a rollback, passes the validation of
\* the service unless a secret in it is empty or no scalar: a placeholder
\* stands for a value when the edited text is validated (main.go:181), and
\* the value it stands for is taken from the active file as it is.
PublishedValidates ==
  ~external => \/ ValidateYAML(active)
               \/ \E s \in sensitiveConfigPaths \intersect DOMAIN active :
                    active[s] \in {"", "null", "mapping"}

\* What `config edit` writes has been validated and the service restarts on
\* it: "$EDITOR -> validate -> diff -> confirm -> write" (README.md:231), "A
\* restart applies the change" (README.md:244).
EditedValidates == ~external => ValidateYAML(active)
=============================================================================
