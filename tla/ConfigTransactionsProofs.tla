---------------------- MODULE ConfigTransactionsProofs ----------------------
(***************************************************************************)
(* Theorems about ConfigTransactions: a commit writes what its source      *)
(* holds, for every set of contents, scopes, exports and sessions and      *)
(* every limit of the stores.                                              *)
(***************************************************************************)
EXTENDS ConfigTransactions, FiniteSetTheorems, TLAPS

USE TransactionsAssumption

-----------------------------------------------------------------------------
(* Sequences: what the stores do keeps to what they held. *)

\* The clean-up of a store leaves a sequence of entries it had.
LEMMA TrimmedType ==
  ASSUME NEW S, NEW seq \in Seq(S), NEW limit \in Nat
  PROVE  Trimmed(seq, limit) \in Seq(S)
BY DEF Trimmed

\* A consumed preview leaves the others in place.
LEMMA RemoveType ==
  ASSUME NEW S, NEW seq \in Seq(S), NEW i \in DOMAIN seq
  PROVE  Remove(seq, i) \in Seq(S)
<1>1. /\ SubSeq(seq, 1, i - 1) \in Seq(S)
      /\ SubSeq(seq, i + 1, Len(seq)) \in Seq(S)
  OBVIOUS
<1> QED
  BY <1>1 DEF Remove

\* Every entry of a store has the type of its entries.
LEMMA EntryType ==
  ASSUME NEW S, NEW seq \in Seq(S), NEW i \in DOMAIN seq
  PROVE  seq[i] \in S
OBVIOUS

-----------------------------------------------------------------------------
(* Operators: configurations, bundles and candidates *)

\* A resolved configuration has a value for every managed key.
LEMMA ResolvedType ==
  ASSUME NEW raw \in Raw
  PROVE  /\ Resolved(raw) \in [Managed -> Values]
         /\ Configured(raw) \in [Managed -> Values]
<1>1. \A k \in Managed : Given(raw, k) \in Values
  BY DEF Given, Raw, Keys, Managed, Plain, Set, Values, Default
<1> QED
  BY <1>1 DEF Resolved, Configured, Managed, Plain

\* A bundle built from a raw configuration and a configured view is a bundle,
\* and gives a value for every key of its scope.
LEMMA BundleOfType ==
  ASSUME NEW raw \in Raw, NEW view \in [Managed -> Values],
         NEW scope \in SUBSET Managed, NEW secrets \in BOOLEAN
  PROVE  /\ BundleOf(raw, view, scope, secrets) \in Bundles
         /\ KnowsItsValues(BundleOf(raw, view, scope, secrets))
<1>1. BundleOf(raw, view, scope, secrets) \in Bundles
  BY DEF BundleOf, Bundles, Raw, Keys, Managed, Plain
<1>2. KnowsItsValues(BundleOf(raw, view, scope, secrets))
  BY DEF BundleOf, KnowsItsValues, PlainScope, Managed, Plain, Set
<1> QED
  BY <1>1, <1>2

\* An exported bundle and an old file are bundles that know what they hold.
LEMMA ArtifactType ==
  /\ \A e \in Exports : ExportBundle(e) \in Bundles /\ KnowsItsValues(ExportBundle(e))
  /\ \A raw \in OldFiles : LegacyBundle(raw) \in Bundles /\ KnowsItsValues(LegacyBundle(raw))
<1>1. ASSUME NEW e \in Exports
      PROVE  ExportBundle(e) \in Bundles /\ KnowsItsValues(ExportBundle(e))
  <2>1. /\ e.content \in Raw /\ e.scope \in SUBSET Managed /\ e.secrets \in BOOLEAN
        /\ Configured(e.content) \in [Managed -> Values]
    BY <1>1, ResolvedType
  <2> DEFINE b == BundleOf(e.content, Configured(e.content), e.scope, e.secrets)
  <2>2. b \in Bundles /\ KnowsItsValues(b) /\ b.codes = {}
    <3>1. b \in Bundles /\ KnowsItsValues(b)
      BY <2>1, BundleOfType
    <3> QED
      BY <3>1 DEF BundleOf
  <2>3. ExportBundle(e) = [b EXCEPT !.codes = IF e.newer THEN {"newer"} ELSE {}]
    BY DEF ExportBundle
  <2> HIDE DEF b
  <2> QED
    BY <2>2, <2>3 DEF Bundles, KnowsItsValues, PlainScope
<1>2. ASSUME NEW raw \in OldFiles
      PROVE  LegacyBundle(raw) \in Bundles /\ KnowsItsValues(LegacyBundle(raw))
  <2>1. Migrated(raw) \in Raw
    BY DEF Migrated, Raw, Keys, Managed, Plain
  <2> QED
    BY <2>1 DEF LegacyBundle, Bundles, KnowsItsValues, Raw, Keys, Managed, Plain, Set
<1> QED
  BY <1>1, <1>2

\* A candidate is a raw configuration.
LEMMA CandidateType ==
  ASSUME NEW b \in Bundles, NEW now \in Raw, NEW op \in SecretOps
  PROVE  Candidate(b, now, op) \in Raw
BY DEF Candidate, Bundles, Raw, Keys, Managed, Plain, Values, PlainScope

LEMMA WarningsType ==
  ASSUME NEW b \in Bundles, NEW cand, NEW op
  PROVE  Warnings(b, cand, op) \in SUBSET Codes
BY DEF Warnings, Bundles, Codes

-----------------------------------------------------------------------------
(* The inductive invariant *)

\* Bundles at rest know their values; a request carries what its next step
\* needs; previews are typed as sequences of requests that were prepared.
KnowingBundles == {b \in Bundles : KnowsItsValues(b)}
IInv ==
  /\ file \in Raw /\ base \in Raw
  /\ states \in [StateIds -> StateFiles]
  /\ \A id \in StateIds : KnowsItsValues(states[id].bundle)
  /\ imports \in Seq([session : Sessions, bundle : KnowingBundles])
  /\ previews \in Seq(Prepared)
  /\ req \in Requests
  /\ req.at \in {"built", "checked"} => req \in Prepared
  /\ req.at = "asked" => /\ req.session \in Sessions /\ req.kind = "edit"
                         /\ req.rev \in Raw /\ req.bundle = NoBundle
  /\ req.at = "persisted" => req.cand \in Raw
  /\ edits \in 0..MaxEdits /\ tokens \in 0..MaxTokens

LEMMA NothingType ==
  /\ NoBundle \in KnowingBundles
  /\ NoState \in StateFiles /\ KnowsItsValues(NoState.bundle)
  /\ Idle \in Requests
<1>1. NoBundle \in KnowingBundles
  BY DEF NoBundle, KnowingBundles, Bundles, KnowsItsValues, PlainScope
<1>2. NoState \in StateFiles /\ NoState.bundle = NoBundle
  BY <1>1 DEF NoState, StateFiles, KnowingBundles
<1>3. Idle \in Requests
  <2> HIDE DEF NoBundle, NoState
  <2> QED
    BY <1>1, <1>2 DEF Idle, Requests, KnowingBundles, SecretOps, Keys
<1> QED
  BY <1>1, <1>2, <1>3 DEF KnowingBundles

LEMMA InitIInv == Init => IInv
<1> SUFFICES ASSUME Init PROVE IInv
  OBVIOUS
<1>1. Idle.at = "idle"
  BY DEF Idle
<1> QED
  BY <1>1, NothingType DEF Init, IInv

-----------------------------------------------------------------------------
(* Every step keeps it *)

\* Loading a state or an import prepares its request.
LEMMA LoadPrepares ==
  ASSUME IInv, NEW s \in Sessions, NEW kind \in {"state", "import"},
         NEW id \in StateIds \cup {Absent}, NEW held \in StateFiles,
         NEW bundle \in KnowingBundles, NEW rev \in Raw,
         kind = "state" => id \in StateIds /\ held.bundle = bundle,
         Load(s, kind, id, held, bundle, rev)
  PROVE  req' \in Requests /\ req' \in Prepared /\ req'.at = "built"
<1>1. PICK op \in SecretOps :
        req' = [Idle EXCEPT !.at = "built", !.session = s, !.kind = kind, !.id = id,
                            !.held = held, !.bundle = bundle, !.op = op, !.rev = rev,
                            !.cand = Candidate(bundle, base, op),
                            !.codes = Warnings(bundle, Candidate(bundle, base, op), op),
                            !.clean = rev = Revision(base)]
  BY DEF Load
<1> DEFINE cand == Candidate(bundle, base, op)
           codes == Warnings(bundle, cand, op)
<1>2. bundle \in Bundles /\ KnowsItsValues(bundle)
  BY DEF KnowingBundles
<1>3. cand \in Raw /\ codes \in SUBSET Codes
  BY <1>2, CandidateType, WarningsType DEF IInv
<1>4. /\ req'.at = "built" /\ req'.session = s /\ req'.kind = kind /\ req'.id = id
      /\ req'.held = held /\ req'.bundle = bundle /\ req'.op = op /\ req'.rev = rev
      /\ req'.cand = cand /\ req'.codes = codes /\ req'.clean = (rev = base)
  BY <1>1 DEF Idle, Revision
<1> HIDE DEF cand, codes
<1>5. req' \in Requests
  <2>1. req' = [Idle EXCEPT !.at = "built", !.session = s, !.kind = kind, !.id = id,
                            !.held = held, !.bundle = bundle, !.op = op, !.rev = rev,
                            !.cand = cand, !.codes = codes, !.clean = (rev = base)]
    BY <1>1 DEF cand, codes, Revision
  <2>2. Idle.key \in Keys /\ Idle.value \in Values \cup {Absent}
    BY NothingType DEF Requests
  <2>3. req' = [at |-> "built", session |-> s, kind |-> kind, id |-> id,
                held |-> held, bundle |-> bundle, op |-> op, key |-> Idle.key,
                value |-> Idle.value, rev |-> rev, cand |-> cand, codes |-> codes,
                clean |-> (rev = base)]
    BY <2>1 DEF Idle
  <2>4. (rev = base) \in BOOLEAN
    OBVIOUS
  <2> QED
    BY <2>2, <2>3, <2>4, <1>2, <1>3 DEF Requests
<1>6. BuiltFromItsSource(req')
  BY <1>4 DEF BuiltFromItsSource, cand, codes
<1> QED
  BY <1>2, <1>3, <1>4, <1>5, <1>6 DEF Prepared

LEMMA NextIInv == IInv /\ [Next]_vars => IInv'
<1> SUFFICES ASSUME IInv, [Next]_vars PROVE IInv'
  OBVIOUS
<1> USE DEF IInv
<1>0. Idle.at = "idle" /\ Idle \in Requests
  BY NothingType DEF Idle
<1>1. ASSUME NEW s \in Sessions, LoadState(s) PROVE IInv'
  <2>1. PICK id \in Readable, rev \in AskedRevisions :
          Load(s, "state", id, states[id], states[id].bundle, rev)
    BY <1>1 DEF LoadState
  <2>2. id \in StateIds /\ states[id] \in StateFiles /\ rev \in Raw
    BY <2>1 DEF Readable, AskedRevisions, Revision
  <2>3. states[id].bundle \in KnowingBundles
    BY <2>2 DEF StateFiles, KnowingBundles
  <2>4. req' \in Requests /\ req' \in Prepared /\ req'.at = "built"
    BY <2>1, <2>2, <2>3, LoadPrepares
  <2> QED
    BY <1>1, <2>4 DEF LoadState, bounds
<1>2. ASSUME NEW s \in Sessions, LoadImport(s) PROVE IInv'
  <2>1. imports' \in Seq([session : Sessions, bundle : KnowingBundles])
    BY <1>2, TrimmedType DEF LoadImport
  <2>2. PICK i \in DOMAIN imports', rev \in AskedRevisions :
          Load(s, "import", Absent, NoState, imports'[i].bundle, rev)
    BY <1>2 DEF LoadImport
  <2>3. imports'[i].bundle \in KnowingBundles
    <3> DEFINE imps == imports'
    <3>1. imps \in Seq([session : Sessions, bundle : KnowingBundles]) /\ i \in DOMAIN imps
      BY <2>1, <2>2
    <3> HIDE DEF imps
    <3>2. imps[i] \in [session : Sessions, bundle : KnowingBundles]
      BY <3>1, EntryType
    <3>3. imps[i].bundle \in KnowingBundles
      BY <3>2
    <3> QED
      BY <3>3 DEF imps
  <2>4. rev \in Raw
    BY <2>2 DEF AskedRevisions, Revision
  <2>5. req' \in Requests /\ req' \in Prepared /\ req'.at = "built"
    BY <2>2, <2>3, <2>4, LoadPrepares, NothingType
  <2> QED
    BY <1>2, <2>1, <2>5 DEF LoadImport, bounds
<1>3. ASSUME NEW s \in Sessions, EditSettings(s) PROVE IInv'
  <2>1. PICK change \in Changes :
          req' = [Idle EXCEPT !.at = "asked", !.session = s, !.kind = "edit",
                              !.key = change.key, !.value = change.value,
                              !.rev = Revision(base)]
    BY <1>3 DEF EditSettings
  <2>2. change.key \in Keys /\ change.value \in Values
    BY <2>1 DEF Keys
  <2>3. req' \in Requests
    BY <2>1, <2>2, NothingType DEF Requests, Revision
  <2>4. /\ req'.at = "asked" /\ req'.session = s /\ req'.kind = "edit"
        /\ req'.rev = base /\ req'.bundle = NoBundle
    BY <2>1 DEF Idle, Revision
  <2> QED
    BY <1>3, <2>3, <2>4 DEF EditSettings, bounds
<1>4. ASSUME NEW s \in Sessions, Inspect(s) PROVE IInv'
  <2>1. PICK bundle \in {ExportBundle(e) : e \in Exports}
                        \cup {LegacyBundle(raw) : raw \in {o \in OldFiles : ~Conflict(o)}} :
          imports' = Append(Trimmed(imports, MaxImports), [session |-> s, bundle |-> bundle])
    BY <1>4 DEF Inspect
  <2>2. bundle \in KnowingBundles
    BY <2>1, ArtifactType DEF KnowingBundles
  <2>3. imports' \in Seq([session : Sessions, bundle : KnowingBundles])
    BY <2>1, <2>2, TrimmedType
  <2> QED
    BY <1>4, <2>3 DEF Inspect
<1>5. ASSUME NEW s \in Sessions, Commit(s) PROVE IInv'
  <2>1. PICK i \in Takable : \E codes \in SUBSET Chosen(i).codes :
                            Commits(s, i, codes) \/ CommitFails(s, i, codes)
    BY <1>5 DEF Commit
  <2>2. Trimmed(previews, MaxPreviews) \in Seq(Prepared)
    BY TrimmedType
  <2>3. previews' \in Seq(Prepared) /\ Chosen(i) \in Prepared
    BY <2>1, <2>2, RemoveType DEF Commits, CommitFails, Taken, Takable, Chosen
  <2>4. Chosen(i).cand \in Raw
    BY <2>3 DEF Prepared
  <2> QED
    BY <2>1, <2>3, <2>4 DEF Commits, CommitFails, bounds
<1>6. ASSUME UnknownToken \/ Expire PROVE IInv'
  <2> DEFINE Imports == Seq([session : Sessions, bundle : KnowingBundles])
  <2>1. previews' \in Seq(Prepared) /\ imports' \in Imports
    <3>1. CASE UnknownToken
      <4>1. /\ Trimmed(previews, MaxPreviews) \in Seq(Prepared)
            /\ Trimmed(imports, MaxImports) \in Imports
        BY TrimmedType
      <4> QED
        BY <3>1, <4>1 DEF UnknownToken
    <3>2. CASE Expire
      <4>1. previews # <<>> => Tail(previews) \in Seq(Prepared)
        OBVIOUS
      <4>2. imports # <<>> => Tail(imports) \in Imports
        OBVIOUS
      <4> QED
        BY <3>2, <4>1, <4>2 DEF Expire
    <3> QED
      BY <1>6, <3>1, <3>2
  <2> QED
    BY <1>6, <2>1 DEF UnknownToken, Expire, bounds
<1>7. ASSUME CheckLoad PROVE IInv'
  <2>1. CASE req' = Idle
    BY <1>0, <1>7, <2>1 DEF CheckLoad, bounds
  <2>2. CASE req' = [req EXCEPT !.at = "checked"]
    <3>1. req \in Prepared
      BY <1>7 DEF CheckLoad
    <3>2. req' \in Requests /\ req' \in Prepared /\ req'.at = "checked"
      BY <2>2, <3>1 DEF Prepared, Requests, BuiltFromItsSource
    <3> QED
      BY <1>7, <3>2 DEF CheckLoad, bounds
  <2> QED
    BY <1>7, <2>1, <2>2 DEF CheckLoad
<1>8. ASSUME BuildEdit PROVE IInv'
  <2> DEFINE cand == [base EXCEPT ![req.key] = req.value]
             clean == req.rev = Revision(base)
  <2>1. cand \in Raw
    BY DEF Requests, Raw
  <2>2. req' = [req EXCEPT !.at = "checked", !.cand = cand, !.clean = clean]
    BY <1>8 DEF BuildEdit
  <2>3. clean => cand = [req.rev EXCEPT ![req.key] = req.value]
    BY DEF Revision
  <2>4. KnowsItsValues(req.bundle) /\ req.kind = "edit" /\ req.session \in Sessions /\ req.rev \in Raw
    BY <1>8, NothingType DEF BuildEdit, KnowingBundles
  <2> HIDE DEF cand, clean
  <2>5. clean \in BOOLEAN
    BY DEF clean
  <2>6. req' \in Requests
    BY <2>1, <2>2, <2>5 DEF Requests
  <2>7. /\ req'.at = "checked" /\ req'.cand = cand /\ req'.clean = clean
        /\ req'.rev = req.rev /\ req'.key = req.key /\ req'.value = req.value
        /\ req'.kind = req.kind /\ req'.session = req.session /\ req'.bundle = req.bundle
    BY <2>2 DEF Requests
  <2>8. BuiltFromItsSource(req')
    BY <2>3, <2>4, <2>7 DEF BuiltFromItsSource
  <2>9. req' \in Prepared
    BY <2>1, <2>4, <2>6, <2>7, <2>8 DEF Prepared
  <2> QED
    BY <1>8, <2>6, <2>7, <2>9 DEF BuildEdit, bounds
<1>9. ASSUME FinishPreview PROVE IInv'
  <2>1. Trimmed(previews, MaxPreviews) \in Seq(Prepared) /\ req \in Prepared
    BY <1>9, TrimmedType DEF FinishPreview
  <2>2. Append(Trimmed(previews, MaxPreviews), req) \in Seq(Prepared)
    BY <2>1
  <2>3. CASE Valid(req.cand) /\ Differs(req.cand)
    <3>1. tokens < MaxTokens /\ tokens' = tokens + 1
      BY <1>9, <2>3 DEF FinishPreview
    <3>2. tokens' \in 0..MaxTokens
      BY <3>1
    <3>3. previews' = Append(Trimmed(previews, MaxPreviews), req)
      BY <1>9, <2>3 DEF FinishPreview
    <3> QED
      BY <1>0, <1>9, <2>2, <3>2, <3>3 DEF FinishPreview
  <2>4. CASE ~(Valid(req.cand) /\ Differs(req.cand))
    BY <1>0, <1>9, <2>4 DEF FinishPreview
  <2> QED
    BY <2>3, <2>4
<1>10. ASSUME ReadPersisted PROVE IInv'
  <2>1. req' \in Requests /\ req'.at = "persisted" /\ req'.cand = base
    BY <1>10 DEF ReadPersisted, Requests
  <2> QED
    BY <1>10, <2>1 DEF ReadPersisted, bounds
<1>11. ASSUME WriteState PROVE IInv'
  <2>1. PICK name \in Names :
          states' = [states EXCEPT ![req.id] =
                       [at |-> "file", name |-> name,
                        bundle |-> BundleOf(req.cand, Configured(base), req.bundle.scope, FALSE)]]
    BY <1>11 DEF WriteState
  <2> DEFINE b == BundleOf(req.cand, Configured(base), req.bundle.scope, FALSE)
  <2>2. req.cand \in Raw /\ req.bundle.scope \in SUBSET Managed
    BY <1>11 DEF WriteState, Requests, Bundles
  <2>3. b \in Bundles /\ KnowsItsValues(b)
    BY <2>2, ResolvedType, BundleOfType
  <2> HIDE DEF b
  <2>4. [at |-> "file", name |-> name, bundle |-> b] \in StateFiles
    BY <2>3 DEF StateFiles
  <2>5. /\ states' \in [StateIds -> StateFiles]
        /\ \A id \in StateIds : KnowsItsValues(states'[id].bundle)
    BY <2>1, <2>3, <2>4 DEF b
  <2> QED
    BY <1>0, <1>11, <2>5 DEF WriteState, bounds
<1>12. ASSUME Store PROVE IInv'
  <2>1. CASE CreateState
    <3>1. PICK id \in StateIds, scope \in Scopes :
            req' = [Idle EXCEPT !.at = "saving", !.id = id, !.bundle.scope = scope]
      BY <2>1 DEF CreateState
    <3>2. [NoBundle EXCEPT !.scope = scope] \in Bundles
      BY <3>1, NothingType DEF KnowingBundles, Bundles
    <3>3. req' = [Idle EXCEPT !.at = "saving", !.id = id,
                              !.bundle = [NoBundle EXCEPT !.scope = scope]]
      BY <3>1 DEF Idle
    <3>4. req' \in Requests /\ req'.at = "saving"
      BY <3>1, <3>2, <3>3, NothingType DEF Requests
    <3> QED
      BY <2>1, <3>4 DEF CreateState, bounds
  <2>2. CASE RenameState
    <3>1. PICK id \in Readable, name \in Names : states' = [states EXCEPT ![id].name = name]
      BY <2>2 DEF RenameState
    <3>2. id \in StateIds /\ states[id] \in StateFiles
      BY DEF Readable
    <3>3. /\ [states[id] EXCEPT !.name = name] \in StateFiles
          /\ [states[id] EXCEPT !.name = name].bundle = states[id].bundle
      BY <3>2 DEF StateFiles
    <3>4. /\ states' \in [StateIds -> StateFiles]
          /\ \A other \in StateIds : KnowsItsValues(states'[other].bundle)
      BY <3>1, <3>2, <3>3
    <3> QED
      BY <2>2, <3>4 DEF RenameState, bounds
  <2>3. CASE DamageState
    <3>1. PICK id \in Readable : states' = [states EXCEPT ![id].at = "damaged"]
      BY <2>3 DEF DamageState
    <3>2. id \in StateIds /\ states[id] \in StateFiles
      BY DEF Readable
    <3>3. /\ [states[id] EXCEPT !.at = "damaged"] \in StateFiles
          /\ [states[id] EXCEPT !.at = "damaged"].bundle = states[id].bundle
      BY <3>2 DEF StateFiles
    <3>4. /\ states' \in [StateIds -> StateFiles]
          /\ \A other \in StateIds : KnowsItsValues(states'[other].bundle)
      BY <3>1, <3>2, <3>3
    <3> QED
      BY <2>3, <3>4 DEF DamageState, bounds
  <2>4. CASE DeleteState
    <3>1. PICK id \in Stored : states' = [states EXCEPT ![id] = [NoState EXCEPT !.at = "deleted"]]
      BY <2>4 DEF DeleteState
    <3>2. id \in StateIds
      BY DEF Stored
    <3>3. /\ [NoState EXCEPT !.at = "deleted"] \in StateFiles
          /\ KnowsItsValues([NoState EXCEPT !.at = "deleted"].bundle)
      BY NothingType DEF StateFiles, NoState
    <3>4. /\ states' \in [StateIds -> StateFiles]
          /\ \A other \in StateIds : KnowsItsValues(states'[other].bundle)
      BY <3>1, <3>2, <3>3
    <3> QED
      BY <2>4, <3>4 DEF DeleteState, bounds
  <2> QED
    BY <1>12, <2>1, <2>2, <2>3, <2>4 DEF Store
<1>13. ASSUME Reload \/ Edit \/ Restart PROVE IInv'
  <2>1. CASE Reload
    BY <2>1 DEF Reload, bounds
  <2>2. CASE Edit
    <3>1. file' \in Raw
      BY <2>2 DEF Edit
    <3> QED
      BY <2>2, <3>1 DEF Edit
  <2>3. CASE Restart
    <3>1. <<>> \in Seq(Prepared) /\ <<>> \in Seq([session : Sessions, bundle : KnowingBundles])
      OBVIOUS
    <3> QED
      BY <1>0, <2>3, <3>1 DEF Restart, bounds
  <2> QED
    BY <1>13, <2>1, <2>2, <2>3
<1>14. CASE UNCHANGED vars
  BY <1>14 DEF vars
<1> QED
  BY <1>1, <1>2, <1>3, <1>4, <1>5, <1>6, <1>7, <1>8, <1>9, <1>10, <1>11, <1>12, <1>13, <1>14
     DEF Next, Request, Proceed

\* The stores and what is in them are well formed in every reachable state.
LEMMA IInvIsInvariant == Spec => []IInv
BY InitIInv, NextIInv, PTL DEF Spec

\* Every variable has its type, and every preview in the store is made of its
\* source and of the file whose revision it carries, for every set of contents,
\* scopes, exports and sessions.
THEOREM TransactionsTypeCorrect == Spec => [](TypeOK /\ PreviewsAreBuilt)
<1>1. IInv => TypeOK
  <2> SUFFICES ASSUME IInv PROVE TypeOK
    OBVIOUS
  <2>1. Prepared \subseteq Requests /\ KnowingBundles \subseteq Bundles
    BY DEF Prepared, KnowingBundles
  <2>2. previews \in Seq(Requests)
    BY <2>1 DEF IInv
  <2>3. imports \in Seq([session : Sessions, bundle : Bundles])
    <3>1. [session : Sessions, bundle : KnowingBundles]
            \subseteq [session : Sessions, bundle : Bundles]
      BY <2>1
    <3> HIDE DEF IInv
    <3>2. ASSUME NEW S, NEW T, S \subseteq T, NEW q \in Seq(S)
          PROVE  q \in Seq(T)
      BY <3>2
    <3> QED
      BY <3>1, <3>2 DEF IInv
  <2> QED
    BY <2>2, <2>3 DEF IInv, TypeOK
<1>2. IInv => PreviewsAreBuilt
  BY EntryType DEF IInv, PreviewsAreBuilt
<1> QED
  BY <1>1, <1>2, IInvIsInvariant, PTL

-----------------------------------------------------------------------------
(* Commits *)

\* The preview that is chosen for a commit was prepared.
LEMMA ChosenIsPrepared ==
  ASSUME IInv, NEW i \in Takable
  PROVE  /\ Chosen(i) \in Prepared /\ Chosen(i).bundle \in Bundles
         /\ Chosen(i).kind \in {"edit", "state", "import"}
<1>1. Trimmed(previews, MaxPreviews) \in Seq(Prepared)
  BY TrimmedType DEF IInv
<1>2. Chosen(i) \in Prepared
  BY <1>1, EntryType DEF Chosen, Takable
<1> QED
  BY <1>2 DEF Prepared, Requests

\* What a candidate built on the present file would be, key by key.
LEMMA CandidateLoads ==
  ASSUME NEW b \in Bundles, NEW now \in Raw, NEW op \in SecretOps
  PROVE  /\ \A k \in PlainScope(b) : Candidate(b, now, op)[k] = b.explicit[k]
         /\ \A k \in Keys \ (PlainScope(b) \cup {"password"}) : Candidate(b, now, op)[k] = now[k]
         /\ Candidate(b, now, op)["password"] =
              IF "password" \notin b.scope \/ op = "keep" THEN now["password"]
              ELSE IF op = "clear" THEN 0 ELSE b.password
<1>1. "password" \in Keys /\ "password" \notin PlainScope(b) /\ PlainScope(b) \subseteq Keys
  BY DEF Keys, Managed, Plain, PlainScope
<1> QED
  BY <1>1 DEF Candidate, SecretOps

\* A commit replaces the very file its preview was built on by its candidate.
LEMMA CommitReplaces ==
  ASSUME IInv, NEW s \in Sessions, NEW i \in Takable, NEW codes, Commits(s, i, codes)
  PROVE  /\ file = Chosen(i).rev /\ file' = Chosen(i).cand
         /\ Confirmed(Chosen(i), codes) /\ SourceUnchanged(Chosen(i))
         /\ states' = states
BY DEF Commits, SameRevision, Revision

\* CommitLoadsItsSource: for every set of contents, scopes, exports, sessions
\* and every limit of the stores, a commit does to the file of that moment what
\* its preview promised, with the source as it is at that moment.
THEOREM SourceIsLoaded == Spec => CommitLoadsItsSource
<1> DEFINE Promise(s, i, codes) ==
             Commits(s, i, codes) /\ Chosen(i).clean =>
               LET p == Chosen(i)
               IN IF p.kind = "edit" THEN file' = [file EXCEPT ![p.key] = p.value]
                  ELSE /\ p.kind = "state" => p.id \in Readable
                       /\ Loaded(p, Source(p))
<1>1. ASSUME IInv, [Next]_vars, NEW s \in Sessions, NEW i \in Takable,
             NEW codes \in SUBSET Chosen(i).codes
      PROVE  Promise(s, i, codes)
  <2> DEFINE p == Chosen(i)
  <2> SUFFICES ASSUME Commits(s, i, codes), p.clean
               PROVE  IF p.kind = "edit" THEN file' = [file EXCEPT ![p.key] = p.value]
                      ELSE /\ p.kind = "state" => p.id \in Readable
                           /\ Loaded(p, Source(p))
    OBVIOUS
  <2>1. /\ p \in Prepared /\ p.bundle \in Bundles
        /\ p.kind \in {"edit", "state", "import"}
    BY <1>1, ChosenIsPrepared
  <2>2. file = p.rev /\ file' = p.cand /\ SourceUnchanged(p)
    BY <1>1, CommitReplaces
  <2>3. BuiltFromItsSource(p) /\ p.rev \in Raw /\ p.op \in SecretOps
    BY <2>1 DEF Prepared, Requests
  <2> HIDE DEF p
  <2>4. CASE p.kind = "edit"
    BY <2>2, <2>3, <2>4 DEF BuiltFromItsSource
  <2>5. CASE p.kind # "edit"
    <3>1. file' = Candidate(p.bundle, file, p.op)
      BY <2>2, <2>3, <2>5 DEF BuiltFromItsSource
    <3>2. /\ p.kind = "state" => p.id \in Readable
          /\ Source(p) = p.bundle
      BY <2>2, <2>3 DEF SourceUnchanged, BuiltFromItsSource, Source
    <3>3. Loaded(p, p.bundle)
      BY <2>1, <2>2, <2>3, <3>1, CandidateLoads DEF Loaded, PasswordAfter
    <3> QED
      BY <2>5, <3>2, <3>3
  <2> QED
    BY <2>4, <2>5
<1>2. IInv /\ [Next]_vars =>
        [\A s \in Sessions, i \in Takable : \A codes \in SUBSET Chosen(i).codes :
           Promise(s, i, codes)]_vars
  BY <1>1
<1> QED
  BY <1>2, IInvIsInvariant, PTL DEF Spec, CommitLoadsItsSource

\* NothingUnconfirmed: for every set of contents, scopes, exports, sessions and
\* every limit of the stores, what a commit changes beyond what its source
\* said is confirmed by the request that commits.
THEOREM NothingIsUnconfirmed == Spec => NothingUnconfirmed
<1> DEFINE Told(s, i, codes) ==
             Commits(s, i, codes) /\ Chosen(i).kind # "edit" =>
               LET p == Chosen(i)
                   b == p.bundle
               IN /\ \A k \in PlainScope(b) :
                       ~Set(b.explicit[k]) /\ Set(b.resolved[k]) /\ Resolved(file')[k] # b.resolved[k]
                         => "drift" \in codes
                  /\ \A k \in PlainScope(b) :
                       ~Set(file'[k]) /\ Set(file[k]) /\ ~Set(b.resolved[k]) => "legacy" \in codes
                  /\ p.clean /\ file'["password"] # file["password"]
                       => p.op = "replace" \/ "clear" \in codes
<1>1. ASSUME IInv, [Next]_vars, NEW s \in Sessions, NEW i \in Takable,
             NEW codes \in SUBSET Chosen(i).codes
      PROVE  Told(s, i, codes)
  <2> DEFINE p == Chosen(i)
             b == p.bundle
  <2> SUFFICES ASSUME Commits(s, i, codes), p.kind # "edit"
               PROVE  /\ \A k \in PlainScope(b) :
                            ~Set(b.explicit[k]) /\ Set(b.resolved[k]) /\ Resolved(file')[k] # b.resolved[k]
                              => "drift" \in codes
                      /\ \A k \in PlainScope(b) :
                            ~Set(file'[k]) /\ Set(file[k]) /\ ~Set(b.resolved[k]) => "legacy" \in codes
                      /\ p.clean /\ file'["password"] # file["password"]
                            => p.op = "replace" \/ "clear" \in codes
    OBVIOUS
  <2>1. p \in Prepared /\ b \in Bundles
    BY <1>1, ChosenIsPrepared
  <2>2. file = p.rev /\ file' = p.cand /\ p.codes \subseteq codes
    BY <1>1, CommitReplaces DEF Confirmed
  <2>3. /\ BuiltFromItsSource(p) /\ KnowsItsValues(b)
        /\ p.rev \in Raw /\ p.op \in SecretOps
    BY <2>1 DEF Prepared, Requests
  <2> HIDE DEF p
  <2>4. p.codes = Warnings(b, file', p.op)
    BY <2>2, <2>3 DEF BuiltFromItsSource
  <2>5. ASSUME NEW k \in PlainScope(b), ~Set(b.explicit[k]), Set(b.resolved[k]),
               Resolved(file')[k] # b.resolved[k]
        PROVE  "drift" \in codes
    <3>1. k \in Drift(b, file')
      BY <2>5 DEF Drift, DriftAgainst
    <3> QED
      BY <2>2, <2>4, <3>1 DEF Warnings
  <2>6. ASSUME NEW k \in PlainScope(b), ~Set(b.resolved[k])
        PROVE  "legacy" \in codes
    <3>1. "legacy" \in b.codes
      BY <2>3, <2>6 DEF KnowsItsValues
    <3> QED
      BY <2>2, <2>4, <3>1 DEF Warnings
  <2>7. ASSUME p.clean, file'["password"] # file["password"]
        PROVE  p.op = "replace" \/ "clear" \in codes
    <3>1. file' = Candidate(b, file, p.op)
      BY <2>2, <2>3, <2>7 DEF BuiltFromItsSource
    <3>2. "password" \in b.scope /\ p.op # "keep"
      BY <2>1, <2>2, <2>3, <2>7, <3>1, CandidateLoads
    <3>3. CASE p.op = "clear"
      BY <2>2, <2>4, <3>2, <3>3 DEF Warnings
    <3> QED
      BY <2>3, <3>2, <3>3 DEF SecretOps
  <2> QED
    BY <2>5, <2>6, <2>7
<1>2. IInv /\ [Next]_vars =>
        [\A s \in Sessions, i \in Takable : \A codes \in SUBSET Chosen(i).codes :
           Told(s, i, codes)]_vars
  BY <1>1
<1> QED
  BY <1>2, IInvIsInvariant, PTL DEF Spec, NothingUnconfirmed

-----------------------------------------------------------------------------
(* The limits of the stores, and the way of a saved state back *)

\* The clean-up brings a store to its limit, and never makes it longer.
LEMMA TrimmedLength ==
  ASSUME NEW S, NEW seq \in Seq(S), NEW limit \in Nat
  PROVE  /\ Len(Trimmed(seq, limit)) <= limit
         /\ Len(Trimmed(seq, limit)) <= Len(seq)
<1>1. CASE Len(seq) > limit
  <2>1. Len(SubSeq(seq, Len(seq) - limit + 1, Len(seq))) = limit
    BY <1>1
  <2> QED
    BY <1>1, <2>1 DEF Trimmed
<1>2. CASE ~(Len(seq) > limit)
  BY <1>2 DEF Trimmed
<1> QED
  BY <1>1, <1>2

\* A consumed preview makes its store shorter by one.
LEMMA RemoveLength ==
  ASSUME NEW S, NEW seq \in Seq(S), NEW i \in DOMAIN seq
  PROVE  Len(Remove(seq, i)) = Len(seq) - 1
<1> DEFINE front == SubSeq(seq, 1, i - 1)
           rear == SubSeq(seq, i + 1, Len(seq))
<1>1. i \in 1..Len(seq) /\ Len(seq) \in Nat
  OBVIOUS
<1>2. front \in Seq(S) /\ Len(front) = i - 1
  BY <1>1
<1>3. rear \in Seq(S) /\ Len(rear) = Len(seq) - i
  BY <1>1
<1> HIDE DEF front, rear
<1>4. Len(front \o rear) = Len(front) + Len(rear)
  BY <1>2, <1>3, SMTT(30)
<1>5. Remove(seq, i) = front \o rear
  BY DEF Remove, front, rear
<1> QED
  BY <1>1, <1>2, <1>3, <1>4, <1>5

\* What is not inductive about the bounds as they stand: a state that is being
\* saved was given its place when the request began, and no other request has
\* come between.
SavingHasRoom ==
  req.at \in {"saving", "persisted"} => Cardinality(Stored) < MaxStates /\ req.id \in StateIds
BoundInv ==
  /\ Len(previews) <= MaxPreviews + 1 /\ Len(imports) <= MaxImports + 1
  /\ IsFiniteSet(Stored) /\ Cardinality(Stored) <= MaxStates
  /\ SavingHasRoom

\* What holds of the states holds after a step that leaves as many of them.
LEMMA BoundKept ==
  ASSUME BoundInv, Stored' \subseteq Stored,
         Len(previews') <= MaxPreviews + 1, Len(imports') <= MaxImports + 1,
         \/ req'.at \notin {"saving", "persisted"}
         \/ req'.at \in {"saving", "persisted"} /\ req.at \in {"saving", "persisted"} /\ req'.id = req.id
  PROVE  BoundInv'
<1>1. IsFiniteSet(Stored') /\ Cardinality(Stored') <= Cardinality(Stored)
  BY FS_Subset DEF BoundInv
<1>2. Cardinality(Stored') \in Nat /\ Cardinality(Stored) \in Nat
  BY <1>1, FS_CardinalityType DEF BoundInv
<1>3. Cardinality(Stored') <= MaxStates
  BY <1>1, <1>2 DEF BoundInv
<1>4. SavingHasRoom'
  BY <1>1, <1>2 DEF BoundInv, SavingHasRoom
<1> QED
  BY <1>1, <1>3, <1>4 DEF BoundInv

\* A request that was loaded has been built.
LEMMA LoadIsBuilt ==
  ASSUME NEW s, NEW kind, NEW id, NEW held, NEW bundle, NEW rev,
         Load(s, kind, id, held, bundle, rev)
  PROVE  req'.at = "built"
BY DEF Load, Idle

LEMMA NextBoundInv == IInv /\ BoundInv /\ [Next]_vars => BoundInv'
<1> SUFFICES ASSUME IInv, BoundInv, [Next]_vars PROVE BoundInv'
  OBVIOUS
<1>0. /\ previews \in Seq(Prepared) /\ imports \in Seq([session : Sessions, bundle : KnowingBundles])
      /\ Len(previews) \in Nat /\ Len(imports) \in Nat
      /\ Len(previews) <= MaxPreviews + 1 /\ Len(imports) <= MaxImports + 1
      /\ states \in [StateIds -> StateFiles]
      /\ Idle.at = "idle"
  BY DEF IInv, BoundInv, Idle
<1>1. states' = states => Stored' \subseteq Stored
  BY DEF Stored
<1>2. /\ Trimmed(previews, MaxPreviews) \in Seq(Prepared)
      /\ Len(Trimmed(previews, MaxPreviews)) <= MaxPreviews
      /\ Trimmed(imports, MaxImports) \in Seq([session : Sessions, bundle : KnowingBundles])
      /\ Len(Trimmed(imports, MaxImports)) <= MaxImports
  BY <1>0, TrimmedType, TrimmedLength
<1>3. /\ Len(Trimmed(previews, MaxPreviews)) \in Nat
      /\ Len(Trimmed(imports, MaxImports)) \in Nat
  BY <1>2
<1>4. ASSUME NEW s \in Sessions, LoadState(s) \/ LoadImport(s) PROVE BoundInv'
  <2>1. req'.at = "built"
    <3>1. CASE LoadState(s)
      BY <3>1, LoadIsBuilt DEF LoadState
    <3>2. CASE LoadImport(s)
      BY <3>2, LoadIsBuilt DEF LoadImport
    <3> QED
      BY <1>4, <3>1, <3>2
  <2>2. Len(imports') <= MaxImports + 1
    BY <1>0, <1>2, <1>3, <1>4 DEF LoadState, LoadImport
  <2> QED
    BY <1>0, <1>1, <1>4, <2>1, <2>2, BoundKept DEF LoadState, LoadImport
<1>5. ASSUME NEW s \in Sessions, EditSettings(s) PROVE BoundInv'
  <2>1. req'.at = "asked"
    BY <1>5 DEF EditSettings, Idle
  <2> QED
    BY <1>0, <1>1, <1>5, <2>1, BoundKept DEF EditSettings
<1>6. ASSUME NEW s \in Sessions, Inspect(s) PROVE BoundInv'
  <2>1. Len(imports') <= MaxImports + 1
    BY <1>2, <1>3, <1>6 DEF Inspect
  <2>2. req' = req
    BY <1>6 DEF Inspect
  <2>3. previews' = previews /\ states' = states
    BY <1>6 DEF Inspect
  <2> QED
    BY <1>0, <1>1, <2>1, <2>2, <2>3, BoundKept
<1>7. ASSUME NEW s \in Sessions, Commit(s) PROVE BoundInv'
  <2>1. PICK i \in Takable :
          previews' = Remove(Trimmed(previews, MaxPreviews), i) /\ req' = req
          /\ states' = states /\ imports' = imports
    BY <1>7 DEF Commit, Commits, CommitFails, Taken
  <2>2. Len(previews') = Len(Trimmed(previews, MaxPreviews)) - 1
    BY <1>2, <2>1, RemoveLength DEF Takable
  <2>3. Len(previews') <= MaxPreviews + 1
    BY <1>2, <1>3, <2>2
  <2> QED
    BY <1>0, <1>1, <2>1, <2>3, BoundKept
<1>8. ASSUME UnknownToken \/ Expire PROVE BoundInv'
  <2>1. Len(previews') <= MaxPreviews + 1 /\ Len(imports') <= MaxImports + 1
    <3>1. CASE UnknownToken
      BY <1>0, <1>2, <1>3, <3>1 DEF UnknownToken
    <3>2. CASE Expire
      <4>1. previews # <<>> => Len(Tail(previews)) <= MaxPreviews + 1
        BY <1>0
      <4>2. imports # <<>> => Len(Tail(imports)) <= MaxImports + 1
        BY <1>0
      <4> QED
        BY <1>0, <3>2, <4>1, <4>2 DEF Expire
    <3> QED
      BY <1>8, <3>1, <3>2
  <2>2. states' = states /\ req' = req
    BY <1>8 DEF UnknownToken, Expire
  <2> QED
    BY <1>1, <2>1, <2>2, BoundKept
<1>9. ASSUME CheckLoad \/ BuildEdit PROVE BoundInv'
  <2>1. req'.at \in {"checked", "idle"}
    BY <1>0, <1>9 DEF CheckLoad, BuildEdit, IInv, Requests
  <2>2. states' = states /\ previews' = previews /\ imports' = imports
    BY <1>9 DEF CheckLoad, BuildEdit
  <2> QED
    BY <1>0, <1>1, <2>1, <2>2, BoundKept
<1>10. ASSUME FinishPreview PROVE BoundInv'
  <2>1. Len(Append(Trimmed(previews, MaxPreviews), req)) = Len(Trimmed(previews, MaxPreviews)) + 1
    BY <1>2
  <2>2. Len(previews') <= MaxPreviews + 1
    BY <1>0, <1>2, <1>3, <1>10, <2>1 DEF FinishPreview
  <2>3. states' = states /\ imports' = imports /\ req' = Idle
    BY <1>10 DEF FinishPreview
  <2> QED
    BY <1>0, <1>1, <2>2, <2>3, BoundKept
<1>11. ASSUME CreateState PROVE BoundInv'
  <2>1. Cardinality(Stored) < MaxStates /\ req'.id \in StateIds
    BY <1>11 DEF CreateState, Idle
  <2>2. Stored' = Stored /\ previews' = previews /\ imports' = imports
    BY <1>11 DEF CreateState, Stored
  <2>3. SavingHasRoom'
    BY <2>1, <2>2 DEF SavingHasRoom
  <2> QED
    BY <2>2, <2>3 DEF BoundInv
<1>12. ASSUME ReadPersisted PROVE BoundInv'
  <2>1. req'.at = "persisted" /\ req.at = "saving" /\ req'.id = req.id
    BY <1>12 DEF ReadPersisted, IInv, Requests
  <2>2. states' = states /\ previews' = previews /\ imports' = imports
    BY <1>12 DEF ReadPersisted
  <2> QED
    BY <1>0, <1>1, <2>1, <2>2, BoundKept
<1>13. ASSUME WriteState PROVE BoundInv'
  <2>1. Cardinality(Stored) < MaxStates /\ req.id \in StateIds
    BY <1>13 DEF WriteState, BoundInv, SavingHasRoom
  <2>2. PICK new : new.at = "file" /\ states' = [states EXCEPT ![req.id] = new]
    <3>1. PICK name \in Names :
            states' = [states EXCEPT ![req.id] =
                         [at |-> "file", name |-> name,
                          bundle |-> BundleOf(req.cand, Configured(base), req.bundle.scope, FALSE)]]
      BY <1>13 DEF WriteState
    <3> WITNESS [at |-> "file", name |-> name,
                 bundle |-> BundleOf(req.cand, Configured(base), req.bundle.scope, FALSE)]
    <3> QED
      BY <3>1
  <2>3. Stored' = Stored \cup {req.id}
    BY <1>0, <2>1, <2>2 DEF Stored
  <2>4. IsFiniteSet(Stored') /\ Cardinality(Stored') <= Cardinality(Stored) + 1
    <3>1. IsFiniteSet(Stored) /\ Cardinality(Stored) \in Nat
      BY FS_CardinalityType DEF BoundInv
    <3> DEFINE more == Stored \cup {req.id}
    <3>2. /\ IsFiniteSet(more)
          /\ Cardinality(more) = IF req.id \in Stored THEN Cardinality(Stored) ELSE Cardinality(Stored) + 1
      BY <3>1, FS_AddElement
    <3>3. Cardinality(more) <= Cardinality(Stored) + 1
      BY <3>1, <3>2
    <3> QED
      BY <2>3, <3>2, <3>3
  <2>5. Cardinality(Stored') <= MaxStates
    <3>1. Cardinality(Stored) \in Nat /\ Cardinality(Stored') \in Nat
      BY <2>4, FS_CardinalityType DEF BoundInv
    <3> QED
      BY <2>1, <2>4, <3>1
  <2>6. previews' = previews /\ imports' = imports /\ req' = Idle
    BY <1>13 DEF WriteState
  <2> QED
    BY <1>0, <2>4, <2>5, <2>6 DEF BoundInv, SavingHasRoom
<1>14. ASSUME RenameState \/ DamageState \/ DeleteState PROVE BoundInv'
  <2>1. previews' = previews /\ imports' = imports /\ req' = req
    BY <1>14 DEF RenameState, DamageState, DeleteState
  <2>2. Stored' \subseteq Stored
    BY <1>0, <1>14 DEF RenameState, DamageState, DeleteState, Readable, Stored, StateFiles, NoState
  <2> QED
    BY <1>0, <2>1, <2>2, BoundKept
<1>15. ASSUME Reload \/ Edit PROVE BoundInv'
  <2>1. states' = states /\ previews' = previews /\ imports' = imports /\ req' = req
    BY <1>15 DEF Reload, Edit
  <2> QED
    BY <1>0, <1>1, <2>1, BoundKept
<1>16. ASSUME Restart PROVE BoundInv'
  <2>1. states' = states /\ Len(previews') = 0 /\ Len(imports') = 0 /\ req' = Idle
    BY <1>16 DEF Restart
  <2> QED
    BY <1>0, <1>1, <2>1, BoundKept
<1>17. CASE UNCHANGED vars
  <2>1. states' = states /\ previews' = previews /\ imports' = imports /\ req' = req
    BY <1>17 DEF vars
  <2> QED
    BY <1>0, <1>1, <2>1, BoundKept
<1> QED
  BY <1>4, <1>5, <1>6, <1>7, <1>8, <1>9, <1>10, <1>11, <1>12, <1>13, <1>14, <1>15, <1>16, <1>17
     DEF Next, Request, Proceed, Store

LEMMA BoundInvIsInvariant == Spec => []BoundInv
<1>1. Init => BoundInv
  <2> SUFFICES ASSUME Init PROVE BoundInv
    OBVIOUS
  <2>1. Stored = {}
    BY DEF Init, Stored, NoState
  <2>2. IsFiniteSet(Stored) /\ Cardinality(Stored) = 0
    BY <2>1, FS_EmptySet
  <2>3. Len(previews) = 0 /\ Len(imports) = 0 /\ req.at = "idle"
    BY DEF Init, Idle
  <2> QED
    BY <2>2, <2>3 DEF BoundInv, SavingHasRoom
<1> QED
  BY <1>1, IInvIsInvariant, NextBoundInv, PTL DEF Spec

\* A derived default depends on plain keys only, so a candidate that has all of
\* them from one source resolves them as the source does.
LEMMA RoundTrip ==
  ASSUME NEW b \in Bundles, NEW raw \in Raw, b.scope = Managed,
         \A k \in Plain : b.resolved[k] = Resolved(Plainly(b.explicit))[k]
  PROVE  Drift(b, Candidate(b, raw, "keep")) = {}
<1> DEFINE cand == Candidate(b, raw, "keep")
           saved == Plainly(b.explicit)
<1>1. PlainScope(b) = Plain
  BY DEF PlainScope, Managed
<1>2. \A k \in Plain : cand[k] = b.explicit[k] /\ saved[k] = b.explicit[k]
  BY <1>1 DEF Candidate, Plainly, Keys, Managed
<1> HIDE DEF cand, saved
<1>3. \A k \in Plain : Given(cand, k) = Given(saved, k)
  BY <1>2 DEF Given
<1>4. \A k \in Plain : Resolved(cand)[k] = Resolved(saved)[k]
  BY <1>2, <1>3 DEF Resolved, Managed, Plain
<1>5. DriftAgainst(b, Resolved(cand)) = {}
  BY <1>1, <1>4 DEF DriftAgainst, saved
<1> QED
  BY <1>5 DEF Drift, cand

\* No store outgrows its limit, every preview is made of its source and the
\* file whose revision it carries, and a state saved of everything comes back
\* without a question about defaults, for every set of contents, scopes,
\* exports, sessions and names and every limit (settings_service.py,
\* config_states.py, config_artifacts.py).
THEOREM TransactionsConsistent == Spec => []TransactionsAreConsistent
<1>1. IInv /\ TypeOK => RoundTripIsSilent
  <2> SUFFICES ASSUME TypeOK, NEW id \in Readable
               PROVE  LET b == states[id].bundle
                      IN b.scope = Managed /\ (\A k \in Plain : b.resolved[k] = Resolved(Plainly(b.explicit))[k])
                           => Drift(b, Candidate(b, base, "keep")) = {}
    BY DEF RoundTripIsSilent
  <2>1. states[id].bundle \in Bundles /\ base \in Raw
    BY DEF TypeOK, Readable, StateFiles
  <2> QED
    BY <2>1, RoundTrip
<1>2. BoundInv => StoresAreBounded
  BY DEF BoundInv, StoresAreBounded
<1> QED
  BY <1>1, <1>2, IInvIsInvariant, BoundInvIsInvariant, TransactionsTypeCorrect, PTL
     DEF TransactionsAreConsistent
=============================================================================
