---------------------------- MODULE ModelRegistry ----------------------------
(***************************************************************************)
(* The model registry (server/model_manager/registry.py), which reads      *)
(* configs/model_registry.yaml anew for every request, and the two places  *)
(* that look a vision model up in it: _resolve_vision_model, which decides *)
(* what the answer calls the model, and _raw_model_config, which searches  *)
(* the YAML a second time for the file that is loaded.                     *)
(*                                                                         *)
(* raw.status maps the variants of the old status block to their entries;  *)
(* raw.models is the list below "models".  A field that is absent is Nil;  *)
(* key is the YAML key of an entry of a mapping, Nil in a list.  Of the    *)
(* many fields that are copied the model keeps the file.                   *)
(***************************************************************************)
EXTENDS Naturals, Sequences, SequencesExt

CONSTANT Nil     \* a field that is absent, a lookup that finds nothing

Variants == <<"all_npu", "hybrid">>
VariantId == [all_npu |-> "qwen3-4b-rkllm-all-npu", hybrid |-> "qwen3-4b-rkllm-hybrid"]

OrElse(value, default) == IF value = Nil THEN default ELSE value

\* What an item gives: one model, or none.
StatusModels(item, id) ==
  IF item = Nil THEN <<>>
  ELSE <<[id |-> id, name |-> id, task |-> "llm", recommended |-> item.recommended,
          file |-> item.file]>>

\* The entries of the old status block.
ParseStatus(raw) ==
  FlattenSeq([i \in DOMAIN Variants |->
               StatusModels(raw.status[Variants[i]], VariantId[Variants[i]])])

\* An entry's identity: its YAML key, or its id, or its name.
EntryKey(item) == OrElse(item.key, OrElse(item.id, item.name))

\* An entry without any identity is dropped.
GenericModels(item) ==
  IF EntryKey(item) = Nil THEN <<>>
  ELSE <<[id |-> OrElse(item.id, EntryKey(item)), name |-> OrElse(item.name, EntryKey(item)),
          task |-> OrElse(item.task, "unknown"), recommended |-> item.recommended,
          file |-> item.file]>>

\* The entries below "models".
ParseGeneric(raw) == FlattenSeq([i \in DOMAIN raw.models |-> GenericModels(raw.models[i])])

Parsed(raw) == ParseStatus(raw) \o ParseGeneric(raw)

\* A dict keyed by id: the last entry of an id takes the place of the first.
SameId(all, i) == {j \in DOMAIN all : all[j].id = all[i].id}
LastOf(all, i) == CHOOSE j \in SameId(all, i) : \A l \in SameId(all, i) : l <= j
LastOfEach(all) ==
  FlattenSeq([i \in DOMAIN all |->
    IF \E j \in SameId(all, i) : j < i THEN <<>> ELSE <<all[LastOf(all, i)]>>])

\* list_models
ListModels(raw) == LastOfEach(Parsed(raw))

\* The first of some places of a sequence, or nothing.
FirstOf(seq, places) ==
  IF places = {} THEN Nil ELSE seq[CHOOSE i \in places : \A j \in places : i <= j]

\* get_model: the first one of that id or that name; Nil is KeyError.
GetModel(raw, name) ==
  LET models == ListModels(raw)
  IN  FirstOf(models, {i \in DOMAIN models : name \in {models[i].id, models[i].name}})

\* get_default_model: the first recommended one of the task, or the first.
GetDefaultModel(raw, task) ==
  LET models == ListModels(raw)
      candidates == {i \in DOMAIN models : models[i].task = task}
      recommended == {i \in candidates : models[i].recommended}
  IN  FirstOf(models, IF recommended = {} THEN candidates ELSE recommended)

NotFound(code) == [model |-> Nil, status |-> 404, code |-> code]
Resolved(m) ==
  IF m.task = "object-detection"
  THEN [model |-> m, status |-> 200, code |-> "none"]
  ELSE [model |-> Nil, status |-> 400, code |-> "model_not_vision"]

\* _resolve_vision_model: the named one, or the preferred one if it detects
\* objects, or the registry's default for the task.
ResolveVisionModel(raw, id, preferred) ==
  LET named == GetModel(raw, id)
      wanted == GetModel(raw, preferred)
      byDefault == GetDefaultModel(raw, "object-detection")
  IN  IF id # Nil THEN IF named = Nil THEN NotFound("model_not_found") ELSE Resolved(named)
      ELSE IF wanted # Nil /\ wanted.task = "object-detection" THEN Resolved(wanted)
      ELSE IF byDefault = Nil THEN NotFound("vision_model_not_configured")
      ELSE Resolved(byDefault)

\* Mutant: the YAML is searched for the name only.
RawModelConfigByName(raw, m) ==
  FirstOf(raw.models, {i \in DOMAIN raw.models : raw.models[i].name = m.name})

\* _raw_model_config: the first entry of the list one of whose identities is
\* one of the model's; a mapping below "models" is not searched.
RawModelConfig(raw, m) ==
  LET bears(item) == {OrElse(item.id, item.name), OrElse(item.name, item.id)} \ {Nil}
  IN  FirstOf(raw.models, {i \in DOMAIN raw.models :
                            /\ raw.models[i].key = Nil
                            /\ {m.id, m.name} \cap bears(raw.models[i]) # {}})

\* _model_path: runtime_model and model_file of the YAML entry, then of the
\* model, of which the registry keeps model_file; Nil is RKNNYoloProbeError.
ModelPath(raw, m) ==
  LET item == RawModelConfig(raw, m)
  IN  IF item = Nil THEN m.file
      ELSE OrElse(item.runtimeFile, OrElse(item.file, m.file))
-----------------------------------------------------------------------------
(* What the two lookups promise. *)

\* The names by which an entry of the list can be found.
Identities(item) == {item.key, item.id, item.name} \ {Nil}

\* No two entries share a name, and none has the name of a status model.
Unambiguous(raw) ==
  /\ \A i, j \in DOMAIN raw.models :
       i # j => Identities(raw.models[i]) \cap Identities(raw.models[j]) = {}
  /\ \A i \in DOMAIN raw.models :
       Identities(raw.models[i]) \cap {VariantId[v] : v \in DOMAIN VariantId} = {}

\* The id of a listed model leads back to it, whatever else is in the file,
\* unless another one bears that id as its name.
IdLeadsToModel(raw) ==
  LET models == ListModels(raw) IN
  \A i \in DOMAIN models :
    GetModel(raw, models[i].id) # models[i] =>
      \E j \in 1..(i-1) : models[j].name = models[i].id

\* Whoever asks for a model by a name is told about one of that name, and a
\* request that names none gets an object-detection model whenever there is
\* one, the preferred one if it can be had.
ResolvesToDetector(raw, id, preferred) ==
  LET answer == ResolveVisionModel(raw, id, preferred)
      detectors == {m \in ToSet(ListModels(raw)) : m.task = "object-detection"}
  IN  /\ answer.status = 200 => answer.model \in detectors
      /\ answer.status = 200 /\ id # Nil => id \in {answer.model.id, answer.model.name}
      /\ id = Nil => ((answer.status = 200) <=> (detectors # {}))
      /\ id = Nil /\ (\E m \in detectors : preferred = m.id)
                  /\ (\A n \in ToSet(ListModels(raw)) \ detectors : n.name # preferred) =>
           preferred \in {answer.model.id, answer.model.name}

\* If every name is some entry's own, the file that is loaded is the file of
\* the model the answer names, although it is looked up a second time.
FileIsOfTheModel(raw, id, preferred) ==
  LET answer == ResolveVisionModel(raw, id, preferred)
  IN  answer.status = 200 /\ Unambiguous(raw) =>
        \E i \in DOMAIN raw.models :
          /\ answer.model.id = OrElse(raw.models[i].id, EntryKey(raw.models[i]))
          /\ IF raw.models[i].key = Nil
             THEN ModelPath(raw, answer.model) = OrElse(raw.models[i].runtimeFile, raw.models[i].file)
             ELSE ModelPath(raw, answer.model) = raw.models[i].file
=============================================================================
