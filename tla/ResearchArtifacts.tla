------------------------- MODULE ResearchArtifacts -------------------------
(* The chain of immutable directories from a source to the shadow bundle: datasets
   of research/builder.py, execution_builder.py and price_history_builder.py, their
   evaluations (evaluator.py, execution_evaluator.py) and bundles (shadow/bundle.py).
   Each is named by what it was made from, appears by one rename, and is validated
   whenever it is used.  A SHA-256 or fingerprint is the value it is taken of.  What
   a build writes need not be the same bit for bit when it is built again. *)
EXTENDS NoValue, Integers, FiniteSets

CONSTANTS
  Workers,    \* processes that run research commands
  Outputs,    \* contents that a build may write
  Rotten,     \* the content of a directory whose files were damaged
  MaxDays,    \* bound: days in the archive catalog
  MaxDatasets, MaxEvaluations, MaxBundles  \* bounds

ASSUME ArtifactsAssumption ==
  /\ Rotten \notin Outputs
  /\ {MaxDays, MaxDatasets, MaxEvaluations, MaxBundles} \subseteq Nat \ {0}

VARIABLES
  archived,     \* days the archive catalog lists; the catalog only grows
  datasets,     \* directories of the three builders
  evaluations, bundles,
  work          \* of each worker: None or its command

artifactVars == <<archived, datasets, evaluations, bundles, work>>

Sources(profile) == IF profile = "price" THEN {"history"} ELSE {"canonical", "catalog"}

\* What a source holds now: canonical datasets and selected history do not change.
Version(kind) == IF kind = "catalog" THEN archived ELSE 1

ArtifactsInit ==
  /\ archived = 1 /\ datasets = {} /\ evaluations = {} /\ bundles = {}
  /\ work = [w \in Workers |-> None]

SetWork(w, command) == work' = [work EXCEPT ![w] = command]
Doing(w, step) == work[w] # None /\ work[w].step = step
Fail(w) == SetWork(w, None)
Answer(w, artifact) == SetWork(w, [step |-> "done", artifact |-> artifact])
Free == \A w \in Workers : work[w] = None

\* Every file's size and SHA-256, and the fingerprint of them all, are the manifest's.
Unharmed(artifact) == artifact.content = artifact.named

Artifact(id, output) == [id |-> id, named |-> output, content |-> output]

Made(id, artifacts) == {a \in artifacts : a.id = id}

\* _validate_existing_research_dataset and its likes: what is there is taken when it
\* is unharmed.
Reuse(w, artifact) == IF Unharmed(artifact) THEN Answer(w, artifact) ELSE Fail(w)

-----------------------------------------------------------------------------
\* A dataset.  Sources are validated; a catalog is read first and hashed later.

LoadSource(w) ==
  /\ work[w] = None
  /\ \E profile \in {"market", "execution", "price"} : \E kind \in Sources(profile) :
        SetWork(w, [step |-> "loaded", profile |-> profile, kind |-> kind, version |-> Version(kind)])
  /\ UNCHANGED <<archived, datasets, evaluations, bundles>>

HashManifest(w) ==
  /\ Doing(w, "loaded")
  /\ LET c == work[w]
         id == [profile |-> c.profile, kind |-> c.kind, version |-> c.version,
                manifest |-> Version(c.kind)]
     IN SetWork(w, [step |-> "named", id |-> id])
  /\ UNCHANGED <<archived, datasets, evaluations, bundles>>

ReuseDataset(w) ==
  /\ Doing(w, "named")
  /\ \E ds \in Made(work[w].id, datasets) : Reuse(w, ds)
  /\ UNCHANGED <<archived, datasets, evaluations, bundles>>

\* The copied manifest must be the one that was hashed.
CopyManifest(w) ==
  /\ Doing(w, "named") /\ Made(work[w].id, datasets) = {}
  /\ IF Version(work[w].id.kind) = work[w].id.manifest
       THEN SetWork(w, [work[w] EXCEPT !.step = "staged"])
       ELSE Fail(w)
  /\ UNCHANGED <<archived, datasets, evaluations, bundles>>

\* os.replace does not replace a directory with files in it.
PublishResearch(w) ==
  /\ Doing(w, "staged") /\ UNCHANGED <<archived, evaluations, bundles>>
  /\ \/ /\ Made(work[w].id, datasets) = {} /\ Cardinality(datasets) < MaxDatasets
        /\ \E output \in Outputs :
              /\ datasets' = datasets \cup {Artifact(work[w].id, output)}
              /\ Answer(w, Artifact(work[w].id, output))
     \/ Made(work[w].id, datasets) # {} /\ Fail(w) /\ UNCHANGED datasets

\* validate_research_dataset wants the names of the source in the copied manifest; an
\* archive catalog has neither.  validate_execution_research_dataset takes any copy.
NamesSource(id) == id.profile # "execution" => id.kind # "catalog"

ValidDataset(ds) == Unharmed(ds) /\ NamesSource(ds.id)

-----------------------------------------------------------------------------
\* An evaluation, named by its dataset's identity and output.

EvaluationId(ds) == [dataset |-> ds.id, output |-> ds.named]

StartEvaluation(w) ==
  /\ work[w] = None
  /\ \E ds \in datasets :
        /\ ValidDataset(ds)
        /\ LET there == Made(EvaluationId(ds), evaluations) IN
           \/ there = {} /\ SetWork(w, [step |-> "evaluate", dataset |-> ds])
           \/ \E e \in there : Reuse(w, e)
  /\ UNCHANGED <<archived, datasets, evaluations, bundles>>

\* Models learn from the rows as they are now.
PublishEvaluation(w) ==
  /\ Doing(w, "evaluate") /\ UNCHANGED <<archived, datasets, bundles>>
  /\ LET id == EvaluationId(work[w].dataset) IN
     \/ /\ Made(id, evaluations) = {} /\ Cardinality(evaluations) < MaxEvaluations
        /\ \E output \in Outputs :
             LET e == [id |-> id, named |-> output, content |-> output,
                       learned |-> work[w].dataset.content]
             IN evaluations' = evaluations \cup {e} /\ Answer(w, e)
     \/ Made(id, evaluations) # {} /\ Fail(w) /\ UNCHANGED evaluations

-----------------------------------------------------------------------------
\* build_shadow_bundle: the models of an evaluation with estimates from the dataset.

SameName(e, ds) == e.id.dataset = ds.id
SameDataset(e, ds) == e.id.dataset = ds.id /\ e.id.output = ds.named

BundleId(e, ds) == [evaluation |-> e.id, models |-> e.named, dataset |-> ds.id, output |-> ds.named]

FreezeBundle(w) ==
  /\ work[w] = None /\ UNCHANGED <<archived, datasets, evaluations>>
  /\ \E e \in evaluations, ds \in datasets :
        LET there == Made(BundleId(e, ds), bundles)
            bundle == [id |-> BundleId(e, ds), named |-> e.content, content |-> e.content,
                       learned |-> e.learned, estimated |-> ds.content]
        IN /\ e.id.dataset.profile = "execution" /\ ds.id.profile = "execution"
           /\ Unharmed(e) /\ ValidDataset(ds) /\ SameDataset(e, ds)
           /\ \/ /\ there = {} /\ Cardinality(bundles) < MaxBundles
                 /\ bundles' = bundles \cup {bundle} /\ Answer(w, bundle)
              \/ \E b \in there : Reuse(w, b) /\ UNCHANGED bundles

Return(w) ==
  /\ Doing(w, "done") /\ SetWork(w, None)
  /\ UNCHANGED <<archived, datasets, evaluations, bundles>>

\* A killed command leaves a staging directory whose name is never used again.
KillWork(w) ==
  /\ work[w] # None /\ work[w].step # "done" /\ SetWork(w, None)
  /\ UNCHANGED <<archived, datasets, evaluations, bundles>>

-----------------------------------------------------------------------------

\* The archiver commits a day at any time.
ArchiveDay ==
  /\ archived < MaxDays /\ archived' = archived + 1
  /\ UNCHANGED <<datasets, evaluations, bundles, work>>

Damaged(artifacts) ==
  {(artifacts \ {a}) \cup {[a EXCEPT !.content = Rotten]} : a \in {b \in artifacts : Unharmed(b)}}

\* Between two commands files are damaged, or an operator removes a dataset.
Damage ==
  /\ Free /\ UNCHANGED <<archived, work>>
  /\ \/ datasets' \in Damaged(datasets) /\ UNCHANGED <<evaluations, bundles>>
     \/ evaluations' \in Damaged(evaluations) /\ UNCHANGED <<datasets, bundles>>
     \/ bundles' \in Damaged(bundles) /\ UNCHANGED <<datasets, evaluations>>

RemoveDataset ==
  /\ Free /\ \E ds \in datasets : datasets' = datasets \ {ds}
  /\ UNCHANGED <<archived, evaluations, bundles, work>>

ArtifactsNext ==
  \/ \E w \in Workers :
        \/ LoadSource(w) \/ HashManifest(w) \/ ReuseDataset(w) \/ CopyManifest(w)
        \/ PublishResearch(w) \/ StartEvaluation(w) \/ PublishEvaluation(w)
        \/ FreezeBundle(w) \/ Return(w) \/ KillWork(w)
  \/ ArchiveDay \/ Damage \/ RemoveDataset

ArtifactsSpec == ArtifactsInit /\ [][ArtifactsNext]_artifactVars

-----------------------------------------------------------------------------
\* The models of a bundle learned from the very rows its estimates were taken from,
\* which are the rows its name says and never damaged ones, though datasets may be
\* removed and built again under their name; every command answers with an unharmed
\* artifact; and the copied manifest of a dataset describes at least the days its
\* rows were built from, also while the catalog grows under the build.
Provenance ==
  /\ \A b \in bundles : b.learned = b.estimated /\ b.learned = b.id.output
  /\ \A w \in Workers : Doing(w, "done") => Unharmed(work[w].artifact)
  /\ \A ds \in datasets : ds.id.version <= ds.id.manifest

\* README.md: for long collection the market labels are built from the catalog of
\* daily archives, and the evaluation is run on the immutable dataset.
PublishedIsEvaluable == \A ds \in datasets : Unharmed(ds) => ValidDataset(ds)
=============================================================================
