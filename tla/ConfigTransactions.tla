------------------------- MODULE ConfigTransactions -------------------------
(***************************************************************************)
(* How a saved configuration comes back into config.json: named states     *)
(* (config_states.py), bundles and imports (config_bundle.py,              *)
(* config_artifacts.py, config_migration.py), and the transaction that     *)
(* previews and commits them and ordinary edits (settings_service.py).     *)
(*                                                                         *)
(* A change is prepared in one request and committed in another, minutes   *)
(* later.  The requests are asynchronous handlers that do not wait once    *)
(* their body is read, so they exclude one another; the controller loop,   *)
(* which reloads the file, and an administrator who edits it come between  *)
(* any two steps of a request.  Between preview and commit states are      *)
(* renamed, deleted and damaged, other previews are taken, tokens expire.  *)
(*                                                                         *)
(* The configuration is reduced to the kinds of keys that are treated      *)
(* differently (Keys).  The content of a file stands for its bytes and for *)
(* their sha256 revision.  The write of a commit is one step here; its     *)
(* failures, the start modes and torn reads are those of SettingsRuntime.  *)
(***************************************************************************)
EXTENDS Naturals, Sequences, FiniteSets

CONSTANTS Absent,      \* the key is not in the file
          Contents,    \* what an administrator may put into the file
          Scopes,      \* scopes a state may be saved with (materialize_scope)
          Exports,     \* bundles exported earlier, here or elsewhere
          OldFiles,    \* raw configuration files of older versions
          Changes,     \* what the settings page may ask for
          StateIds,    \* uuids of named states
          Names,
          Sessions,
          MaxStates, MaxPreviews, MaxImports,
          MaxEdits, MaxTokens \* bounds on edits of the file and on previews taken

\* cross: CROSS_CHARGE_ENABLED; integration: SECOND_BATTERY_INTEGRATION_ENABLED,
\* whose default depends on it; threshold: CROSS_CHARGE_SIGNIFICANT_W; alias:
\* SMA_DISCHARGE_BLOCK_W, its name before RC20; obsolete: a key without effect;
\* password: a secret; foreign: a key the registry does not know.
Plain == {"cross", "integration", "threshold"}
Managed == Plain \cup {"password"}
Keys == Managed \cup {"alias", "obsolete", "foreign"}
Values == {0, 1}
Raw == [Keys -> Values \cup {Absent}]
SecretOps == {"keep", "clear", "replace"}

ASSUME TransactionsAssumption ==
  /\ Absent \notin Values
  /\ Contents \subseteq Raw /\ OldFiles \subseteq Raw
  /\ Scopes \subseteq SUBSET Managed
  /\ Exports \subseteq [content : Raw, scope : SUBSET Managed,
                        secrets : BOOLEAN, newer : BOOLEAN]
  /\ Changes \subseteq [key : Managed, value : Values]
  /\ MaxEdits \in Nat /\ MaxTokens \in Nat
  /\ MaxStates \in Nat /\ MaxPreviews \in Nat \ {0} /\ MaxImports \in Nat \ {0}

VARIABLES
  file,     \* config.json
  base,     \* candidate_base_config: the file as the loop or a commit saw it last
  states,   \* the files of the state store
  previews, \* SettingsPreviewStore, in the order of creation
  imports,  \* ImportTokenStore, in the order of creation
  req,      \* the request that is under way
  edits, tokens \* how many there have been, for the bounds

vars == <<file, base, states, previews, imports, req, edits, tokens>>
bounds == <<edits, tokens>>

-----------------------------------------------------------------------------
(* Configurations *)

Default == 0
Set(value) == value # Absent

\* parse_full_candidate: absent keys get their default; the integration switch
\* is on by default where the feature that needs it is on.
Given(raw, key) == IF Set(raw[key]) THEN raw[key] ELSE Default
Resolved(raw) ==
  [k \in Managed |->
     IF k = "integration" /\ ~Set(raw[k]) THEN Given(raw, "cross") ELSE Given(raw, k)]

\* VAL-006 and LEGACY_KEYS_REQUIRE_RC20_MIGRATION
Valid(raw) ==
  /\ ~Set(raw["alias"]) /\ ~Set(raw["obsolete"])
  /\ Resolved(raw)["cross"] = 1 => Resolved(raw)["integration"] = 1

\* get_configured; of an invalid file the view is built without the derived
\* default (configured_view_from_raw).
Configured(raw) ==
  IF Valid(raw) THEN Resolved(raw) ELSE [k \in Managed |-> Given(raw, k)]

Revision(raw) == raw

\* migrate_rc19_to_rc20: an old name gives its value to the new one, unless
\* that has a value already; two that disagree are an error.
Conflict(raw) ==
  Set(raw["alias"]) /\ Set(raw["threshold"]) /\ raw["alias"] # raw["threshold"]
Migrated(raw) ==
  [raw EXCEPT !["threshold"] = IF Set(@) THEN @ ELSE raw["alias"],
              !["alias"] = Absent, !["obsolete"] = Absent]

-----------------------------------------------------------------------------
(* Bundles: a state, an export, or a raw file treated like one *)

\* scope_keys without those a candidate takes no value for.
PlainScope(bundle) == bundle.scope \cap Plain

\* build_bundle_payload of the two configurations the manager returned.
BundleOf(persisted, configured, scope, secrets) ==
  [scope |-> scope,
   explicit |-> [k \in Plain |-> IF k \in scope THEN persisted[k] ELSE Absent],
   resolved |-> [k \in Plain |-> IF k \in scope THEN configured[k] ELSE Absent],
   password |-> IF secrets /\ "password" \in scope THEN configured["password"] ELSE Absent,
   unknown |-> FALSE, codes |-> {}]

\* parse_bundle of an export; _compatibility
ExportBundle(e) ==
  [BundleOf(e.content, Configured(e.content), e.scope, e.secrets)
     EXCEPT !.codes = IF e.newer THEN {"newer"} ELSE {}]

\* inspect_legacy_raw: every managed key is in scope, and only what the file
\* holds is known of its values.
LegacyBundle(raw) ==
  LET now == Migrated(raw)
      values == [k \in Plain |-> now[k]]
  IN [scope |-> Managed, explicit |-> values, resolved |-> values,
      password |-> now["password"], unknown |-> Set(now["foreign"]),
      codes |-> {"legacy"} \cup (IF now = raw THEN {} ELSE {"migrated"})]

Bundles ==
  [scope : SUBSET Managed, explicit : [Plain -> Values \cup {Absent}],
   resolved : [Plain -> Values \cup {Absent}], password : Values \cup {Absent},
   unknown : BOOLEAN, codes : SUBSET {"newer", "legacy", "migrated"}]

-----------------------------------------------------------------------------
(* _materialize_candidate *)

\* now is the target's raw file: a key of the scope is set as in the source,
\* or not at all; keys out of scope stay as they are.
Candidate(bundle, now, op) ==
  [k \in Keys |->
     IF k \in PlainScope(bundle) THEN bundle.explicit[k]
     ELSE IF k = "password" /\ k \in bundle.scope /\ op = "clear" THEN 0
     ELSE IF k = "password" /\ k \in bundle.scope /\ op = "replace" THEN bundle.password
     ELSE now[k]]

\* Inherited keys whose value would not be the one the source ran with.
DriftAgainst(bundle, view) ==
  {k \in PlainScope(bundle) : /\ ~Set(bundle.explicit[k]) /\ Set(bundle.resolved[k])
                              /\ bundle.resolved[k] # view[k]}
\* A comparison with the plain defaults of the registry.
PlainDrift(bundle, cand) == DriftAgainst(bundle, [k \in Managed |-> Given(cand, k)])
Drift(bundle, cand) == DriftAgainst(bundle, Resolved(cand))

Refused(bundle, op, expert, skip) ==
  \/ bundle.unknown /\ ~(skip /\ expert)
  \/ "password" \in bundle.scope /\ op # "keep" /\ ~expert
  \/ "password" \in bundle.scope /\ op = "replace" /\ ~Set(bundle.password)

\* What the commit will have to confirm.
Warnings(bundle, cand, op) ==
  bundle.codes
  \cup (IF bundle.unknown THEN {"skipped"} ELSE {})
  \cup (IF "password" \in bundle.scope /\ op = "clear" THEN {"clear"} ELSE {})
  \cup (IF Drift(bundle, cand) # {} THEN {"drift"} ELSE {})

Codes == {"newer", "legacy", "migrated", "skipped", "clear", "drift"}

-----------------------------------------------------------------------------
(* The preview of a request, and the store it goes to *)

\* What a preview is made from: an ordinary edit of one key, a named state, or
\* an import.  held is the state's file as the request read it; bundle what is
\* loaded; clean is history: no reload came between the revision the client
\* asked for and the base the candidate was built on.
NoBundle == [scope |-> {}, explicit |-> [k \in Plain |-> Absent],
             resolved |-> [k \in Plain |-> Absent], password |-> Absent,
             unknown |-> FALSE, codes |-> {}]
NoState == [at |-> "unused", bundle |-> NoBundle, name |-> Absent]
Idle == [at |-> "idle", session |-> Absent, kind |-> "none", id |-> Absent,
         held |-> NoState, bundle |-> NoBundle, op |-> "keep", key |-> "foreign",
         value |-> Absent, rev |-> Absent, cand |-> Absent, codes |-> {}, clean |-> TRUE]

\* A file that can be parsed; a damaged one still has a revision.
Readable == {id \in StateIds : states[id].at = "file"}

\* _cleanup trims the store to its limit before something is added to it.
Trimmed(seq, limit) ==
  IF Len(seq) > limit THEN SubSeq(seq, Len(seq) - limit + 1, Len(seq)) ELSE seq
Remove(seq, i) == SubSeq(seq, 1, i - 1) \o SubSeq(seq, i + 1, Len(seq))

\* _finalize_preview: diff is taken against the configured view of this
\* moment, and only a valid candidate that changes something gets a token.
Differs(cand) ==
  \/ \E k \in Managed : Resolved(cand)[k] # Configured(base)[k]
  \/ \E k \in Keys \ Managed : cand[k] # base[k]
FinishPreview ==
  /\ req.at = "checked"
  /\ IF Valid(req.cand) /\ Differs(req.cand)
     THEN /\ tokens < MaxTokens /\ tokens' = tokens + 1
          /\ previews' = Append(Trimmed(previews, MaxPreviews), req)
     ELSE UNCHANGED <<previews, tokens>>
  /\ req' = Idle
  /\ UNCHANGED <<file, base, states, imports, edits>>

-----------------------------------------------------------------------------
(* Loading a state or an import *)

\* Every request that is not under way ends at once when it is refused.
Load(s, kind, id, held, bundle, rev) ==
  \E op \in SecretOps, expert, skip \in BOOLEAN :
    /\ ~Refused(bundle, op, expert, skip)
    /\ req' = [Idle EXCEPT !.at = "built", !.session = s, !.kind = kind, !.id = id,
                           !.held = held, !.bundle = bundle, !.op = op, !.rev = rev,
                           !.cand = Candidate(bundle, base, op),
                           !.codes = Warnings(bundle, Candidate(bundle, base, op), op),
                           !.clean = rev = Revision(base)]

\* The revision a client asks for is one it has seen: that of the manager, or
\* one the manager will have when it has reloaded the file.
AskedRevisions == {Revision(base), Revision(file)}

\* preview_state up to the candidate
LoadState(s) ==
  /\ req = Idle
  /\ \E id \in Readable, rev \in AskedRevisions :
       Load(s, "state", id, states[id], states[id].bundle, rev)
  /\ UNCHANGED <<file, base, states, previews, imports, bounds>>

\* preview_import: the token stays, and may be used again
LoadImport(s) ==
  /\ req = Idle
  /\ imports' = Trimmed(imports, MaxImports)
  /\ \E i \in DOMAIN imports', rev \in AskedRevisions :
       /\ imports'[i].session = s
       /\ Load(s, "import", Absent, NoState, imports'[i].bundle, rev)
  /\ UNCHANGED <<file, base, states, previews, bounds>>

\* preview_candidate compares the revision the client asked for.
CheckLoad ==
  /\ req.at = "built"
  /\ req' = IF req.rev = Revision(base) THEN [req EXCEPT !.at = "checked"] ELSE Idle
  /\ UNCHANGED <<file, base, states, previews, imports, bounds>>

\* preview of an ordinary edit: the revision first, then the base
EditSettings(s) ==
  /\ req = Idle
  /\ \E change \in Changes :
       req' = [Idle EXCEPT !.at = "asked", !.session = s, !.kind = "edit",
                           !.key = change.key, !.value = change.value,
                           !.rev = Revision(base)]
  /\ UNCHANGED <<file, base, states, previews, imports, bounds>>

BuildEdit ==
  /\ req.at = "asked"
  /\ req' = [req EXCEPT !.at = "checked", !.cand = [base EXCEPT ![req.key] = req.value],
                        !.clean = req.rev = Revision(base)]
  /\ UNCHANGED <<file, base, states, previews, imports, bounds>>

\* inspect_bundle, inspect_legacy_raw: exported bundles and old files
Inspect(s) ==
  /\ req = Idle
  /\ \E bundle \in {ExportBundle(e) : e \in Exports}
                   \cup {LegacyBundle(raw) : raw \in {o \in OldFiles : ~Conflict(o)}} :
       imports' = Append(Trimmed(imports, MaxImports), [session |-> s, bundle |-> bundle])
  /\ tokens < MaxTokens /\ tokens' = tokens + 1
  /\ UNCHANGED <<file, base, states, previews, req, edits>>

-----------------------------------------------------------------------------
(* SettingsService.commit *)

\* A commit that does not ask the source again.
TrustsPreview(p) == TRUE
\* The source_revalidator of a state: its file is the one that was read.
SourceUnchanged(p) ==
  p.kind = "state" => p.id \in Readable /\ states[p.id] = p.held

\* _base_revision and the reread of commit_candidate.
SameRevision(p) == Revision(base) = p.rev /\ Revision(file) = p.rev

\* A commit that takes no confirmation for a yes.
AnyConfirmation(p, codes) == codes # {} \/ p.codes = {}
Confirmed(p, codes) == p.codes \subseteq codes

\* The preview is consumed whatever becomes of the commit.
Takable == DOMAIN Trimmed(previews, MaxPreviews)
Chosen(i) == Trimmed(previews, MaxPreviews)[i]
Taken(s, i) ==
  /\ req = Idle
  /\ Chosen(i).session = s
  /\ previews' = Remove(Trimmed(previews, MaxPreviews), i)

\* commit_candidate writes and adopts the candidate.
Commits(s, i, codes) ==
  /\ Taken(s, i)
  /\ SourceUnchanged(Chosen(i)) /\ SameRevision(Chosen(i)) /\ Confirmed(Chosen(i), codes)
  /\ file' = Chosen(i).cand
  /\ base' = file'
  /\ UNCHANGED <<states, imports, req, bounds>>

\* The source or the configuration has moved on, or a confirmation is missing.
CommitFails(s, i, codes) ==
  /\ Taken(s, i)
  /\ ~(SourceUnchanged(Chosen(i)) /\ SameRevision(Chosen(i)) /\ Confirmed(Chosen(i), codes))
  /\ UNCHANGED <<file, base, states, imports, req, bounds>>

\* A token of another session, one that is gone, or an import that is refused:
\* only _cleanup has run.
UnknownToken ==
  /\ req = Idle
  /\ \/ previews' = Trimmed(previews, MaxPreviews) /\ UNCHANGED imports
     \/ imports' = Trimmed(imports, MaxImports) /\ UNCHANGED previews
  /\ UNCHANGED <<file, base, states, req, bounds>>

Commit(s) ==
  \E i \in Takable : \E codes \in SUBSET Chosen(i).codes :
    Commits(s, i, codes) \/ CommitFails(s, i, codes)

\* The oldest preview or import reaches its 300 seconds.
Expire ==
  /\ \/ previews # <<>> /\ previews' = Tail(previews) /\ UNCHANGED imports
     \/ imports # <<>> /\ imports' = Tail(imports) /\ UNCHANGED previews
  /\ UNCHANGED <<file, base, states, req, bounds>>

-----------------------------------------------------------------------------
(* The store of named states (ConfigStateStore) *)

Stored == {id \in StateIds : states[id].at \in {"file", "damaged"}}

\* create: the validity, the raw values and the configured values are asked
\* of the manager one after the other.
CreateState ==
  /\ req = Idle
  /\ Valid(base) /\ Cardinality(Stored) < MaxStates
  /\ \E id \in StateIds, scope \in Scopes :
       /\ states[id].at = "unused"
       /\ req' = [Idle EXCEPT !.at = "saving", !.id = id, !.bundle.scope = scope]
  /\ UNCHANGED <<file, base, states, previews, imports, bounds>>

ReadPersisted ==
  /\ req.at = "saving"
  /\ req' = [req EXCEPT !.at = "persisted", !.cand = base]
  /\ UNCHANGED <<file, base, states, previews, imports, bounds>>

WriteState ==
  /\ req.at = "persisted"
  /\ \E name \in Names :
       states' = [states EXCEPT ![req.id] =
                    [at |-> "file", name |-> name,
                     bundle |-> BundleOf(req.cand, Configured(base), req.bundle.scope, FALSE)]]
  /\ req' = Idle
  /\ UNCHANGED <<file, base, previews, imports, bounds>>

\* patch with the present revision: another name, the same values
RenameState ==
  /\ req = Idle
  /\ \E id \in Readable, name \in Names : states' = [states EXCEPT ![id].name = name]
  /\ UNCHANGED <<file, base, previews, imports, req, bounds>>

\* delete with the present revision, of a damaged file too
DeleteState ==
  /\ req = Idle
  /\ \E id \in Stored : states' = [states EXCEPT ![id] = [NoState EXCEPT !.at = "deleted"]]
  /\ UNCHANGED <<file, base, previews, imports, req, bounds>>

DamageState ==
  /\ \E id \in Readable : states' = [states EXCEPT ![id].at = "damaged"]
  /\ UNCHANGED <<file, base, previews, imports, req, bounds>>

-----------------------------------------------------------------------------
(* The loop, the administrator, the process *)

\* reload_if_needed, for a decodable file
Reload ==
  /\ base # file /\ base' = file
  /\ UNCHANGED <<file, states, previews, imports, req, bounds>>

Edit ==
  /\ edits < MaxEdits /\ edits' = edits + 1
  /\ file' \in Contents
  /\ UNCHANGED <<base, states, previews, imports, req, tokens>>

\* Previews, imports and the request under way are in memory only.
Restart ==
  /\ base' = file
  /\ previews' = <<>> /\ imports' = <<>> /\ req' = Idle
  /\ UNCHANGED <<file, states, bounds>>

Init ==
  /\ file \in Contents /\ base = file
  /\ states = [id \in StateIds |-> NoState]
  /\ previews = <<>> /\ imports = <<>> /\ req = Idle
  /\ edits = 0 /\ tokens = 0

Request(s) ==
  LoadState(s) \/ LoadImport(s) \/ EditSettings(s) \/ Inspect(s) \/ Commit(s)
Proceed ==
  \/ CheckLoad \/ BuildEdit \/ FinishPreview
  \/ ReadPersisted \/ WriteState
Store == CreateState \/ RenameState \/ DeleteState \/ DamageState

Next ==
  \/ \E s \in Sessions : Request(s)
  \/ UnknownToken \/ Expire \/ Proceed \/ Store
  \/ Reload \/ Edit \/ Restart

Spec == Init /\ [][Next]_vars

-----------------------------------------------------------------------------
(* Properties *)

StateFiles ==
  [at : {"unused", "file", "damaged", "deleted"}, bundle : Bundles, name : Names \cup {Absent}]
Requests ==
  [at : {"idle", "built", "asked", "checked", "saving", "persisted"},
   session : Sessions \cup {Absent}, kind : {"none", "edit", "state", "import"},
   id : StateIds \cup {Absent}, held : StateFiles, bundle : Bundles, op : SecretOps,
   key : Keys, value : Values \cup {Absent}, rev : Raw \cup {Absent},
   cand : Raw \cup {Absent}, codes : SUBSET Codes, clean : BOOLEAN]

\* A bundle that was saved or exported gives the value of every key it has.
KnowsItsValues(bundle) ==
  "legacy" \in bundle.codes \/ \A k \in PlainScope(bundle) : Set(bundle.resolved[k])

\* What a preview would write is the change its user asked for, made to the
\* very file whose revision the preview carries, and its user is told what the
\* source did not say.
BuiltFromItsSource(p) ==
  /\ p.clean => p.cand = IF p.kind = "edit" THEN [p.rev EXCEPT ![p.key] = p.value]
                         ELSE Candidate(p.bundle, p.rev, p.op)
  /\ p.kind # "edit" => p.codes = Warnings(p.bundle, p.cand, p.op)
  /\ p.kind = "state" => p.id \in StateIds /\ p.held.bundle = p.bundle

\* Requests that have built a candidate.
Prepared ==
  {p \in Requests : /\ p.session \in Sessions /\ p.kind \in {"edit", "state", "import"}
                    /\ p.rev \in Raw /\ p.cand \in Raw
                    /\ KnowsItsValues(p.bundle) /\ BuiltFromItsSource(p)}

\* Every variable has its type.
TypeOK ==
  /\ file \in Raw /\ base \in Raw
  /\ states \in [StateIds -> StateFiles]
  /\ imports \in Seq([session : Sessions, bundle : Bundles])
  /\ previews \in Seq(Requests) /\ req \in Requests
  /\ edits \in 0..MaxEdits /\ tokens \in 0..MaxTokens

PreviewsAreBuilt ==
  /\ \A i \in DOMAIN previews : previews[i] \in Prepared
  /\ req.at \in {"built", "checked"} => req \in Prepared

\* No store outgrows its limit by more than what the next clean-up removes.
StoresAreBounded ==
  /\ Len(previews) <= MaxPreviews + 1 /\ Len(imports) <= MaxImports + 1
  /\ Cardinality(Stored) <= MaxStates

\* The configuration a raw file with these plain values would have.
Plainly(values) == [k \in Keys |-> IF k \in Plain THEN values[k] ELSE Absent]
\* A state saved of everything, between two reloads, comes back without a
\* question about defaults, derived ones included.
RoundTripIsSilent ==
  \A id \in Readable :
    LET b == states[id].bundle
    IN b.scope = Managed /\ (\A k \in Plain : b.resolved[k] = Resolved(Plainly(b.explicit))[k])
         => Drift(b, Candidate(b, base, "keep")) = {}

\* The stores, the previews in them and the saved states are what the
\* transactions rely on.
TransactionsAreConsistent ==
  TypeOK /\ StoresAreBounded /\ PreviewsAreBuilt /\ RoundTripIsSilent

Source(p) == IF p.kind = "state" THEN states[p.id].bundle ELSE p.bundle
PasswordAfter(p, b) ==
  IF "password" \notin b.scope \/ p.op = "keep" THEN file["password"]
  ELSE IF p.op = "clear" THEN 0 ELSE b.password

Loaded(p, b) ==
  /\ \A k \in PlainScope(b) : file'[k] = b.explicit[k]
  /\ \A k \in Keys \ (PlainScope(b) \cup {"password"}) : file'[k] = file[k]
  /\ file'["password"] = PasswordAfter(p, b)

\* A commit does to the file of that moment what its preview promised: every
\* key of the scope is set, or not set, as in the source as it is now, and
\* whatever is out of scope, unknown or secret stays, whatever was edited,
\* reloaded, renamed, deleted, damaged, previewed or committed since (commit,
\* _materialize_candidate, revalidate, commit_candidate).  Exempt is a preview
\* during whose request a reload brought the revision the client asked for.
CommitLoadsItsSource ==
  [][\A s \in Sessions, i \in Takable : \A codes \in SUBSET Chosen(i).codes :
       Commits(s, i, codes) /\ Chosen(i).clean =>
         LET p == Chosen(i)
         IN IF p.kind = "edit" THEN file' = [file EXCEPT ![p.key] = p.value]
            ELSE /\ p.kind = "state" => p.id \in Readable
                 /\ Loaded(p, Source(p))]_vars

\* No commit changes, unasked, what the source knew: an inherited value that
\* is not the one the source ran with, a secret that is cleared, and a value
\* of the target that is lost because the source does not know the key are
\* confirmed by the request that commits (confirmations of _finalize_preview).
NothingUnconfirmed ==
  [][\A s \in Sessions, i \in Takable : \A codes \in SUBSET Chosen(i).codes :
       Commits(s, i, codes) /\ Chosen(i).kind # "edit" =>
         LET p == Chosen(i)
             b == p.bundle
         IN /\ \A k \in PlainScope(b) :
                 ~Set(b.explicit[k]) /\ Set(b.resolved[k]) /\ Resolved(file')[k] # b.resolved[k]
                   => "drift" \in codes
            /\ \A k \in PlainScope(b) :
                 ~Set(file'[k]) /\ Set(file[k]) /\ ~Set(b.resolved[k]) => "legacy" \in codes
            /\ p.clean /\ file'["password"] # file["password"]
                 => p.op = "replace" \/ "clear" \in codes]_vars
=============================================================================
