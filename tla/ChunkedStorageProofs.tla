------------------------ MODULE ChunkedStorageProofs ------------------------
(***************************************************************************)
(* The chunked storage of the session is a register, for any sessions, any *)
(* number of chunks and any versions createVersion may draw.               *)
(***************************************************************************)
EXTENDS ChunkedStorage, TLAPS

LateWrites == [version : used, index : Index, part : Parts]

\* An entry that is written or deleted changes no other.
LEMMA OneEntry ==
    ASSUME chunk \in [Versions -> [Index -> Parts]],
           NEW w \in Versions, NEW i \in Index, NEW p \in Parts,
           chunk' = [chunk EXCEPT ![w] = [@ EXCEPT ![i] = p]]
    PROVE  /\ chunk' \in [Versions -> [Index -> Parts]]
           /\ \A u \in Versions : u # w => chunk'[u] = chunk[u]
           /\ chunk'[w][i] = p
           /\ \A j \in Index : j # i => chunk'[w][j] = chunk[w][j]
  OBVIOUS

\* A step that leaves the manifest and the entries of its version alone leaves the value
\* it names.
LEMMA SameValue ==
    ASSUME TypeOK, manifest' = manifest, manifest # NoManifest,
           chunk'[manifest.version] = chunk[manifest.version]
    PROVE  \A v \in Values : Whole(manifest, v)' <=> Whole(manifest, v)
  BY DEF Whole, Part

LEMMA KeepsNaming ==
    ASSUME Inv, manifest' = manifest, used \subseteq used',
           manifest # NoManifest => chunk'[manifest.version] = chunk[manifest.version]
    PROVE  NamesWhole'
  <1>1. SUFFICES ASSUME manifest # NoManifest PROVE NamesWhole'
    BY DEF NamesWhole
  <1>2. \A v \in Values : Whole(manifest, v)' <=> Whole(manifest, v)
    BY <1>1, SameValue DEF Inv
  <1> QED
    BY <1>1, <1>2 DEF Inv, NamesWhole

LEMMA NamedVersion ==
    ASSUME TypeOK
    PROVE  /\ manifest # NoManifest => manifest.version \in Versions /\ manifest.count \in Index
           /\ manifest = NoManifest => manifest.version = None /\ manifest.count = 0
  BY DEF TypeOK, Manifests, NoManifest

LEMMA Idling ==
    /\ NoOp \in Operations
    /\ NoOp.at = "idle" /\ NoOp.value = Idle /\ NoOp.version = None
  BY DEF NoOp, Operations, Manifests

-----------------------------------------------------------------------------
LEMMA InitInv == Init => Inv
  <1> SUFFICES ASSUME Init PROVE Inv
    OBVIOUS
  <1>1. TypeOK
    BY Idling DEF Init, TypeOK, Manifests, Parts
  <1> QED
    BY <1>1, Idling DEF Init, Inv, NamesWhole, LateElsewhere, Writing, Cleaning

LEMMA BeginSetInv ==
    ASSUME Inv, NEW v \in Values, NEW w \in Versions, BeginSet(v, w)
    PROVE  Inv'
  <1> USE DEF BeginSet
  <1>1. TypeOK /\ 1..Size[v] \subseteq Index
    BY ChunkAssumption DEF Inv, Index
  <1>2. /\ op' \in Operations /\ op'.at = "write" /\ op'.value = v /\ op'.version = w
        /\ op'.old = manifest /\ op'.left = 1..Size[v]
    BY <1>1 DEF TypeOK, Operations
  <1>3. TypeOK'
    BY <1>1, <1>2 DEF TypeOK
  <1>4. NamesWhole'
    BY KeepsNaming DEF Inv
  <1>5. w # manifest.version
    BY <1>1, NamedVersion, ChunkAssumption DEF Inv, NamesWhole
  <1>6. LateElsewhere'
    <2> SUFFICES ASSUME NEW x \in late PROVE x.version # manifest.version /\ x.version # w
      BY <1>2 DEF LateElsewhere
    <2>1. x.version \in used
      BY <1>1 DEF TypeOK
    <2> QED
      BY <2>1 DEF Inv, LateElsewhere
  <1>7. Writing'
    BY <1>2, <1>5, ChunkAssumption DEF Writing
  <1> QED
    BY <1>2, <1>3, <1>4, <1>6, <1>7, ChunkAssumption DEF Inv, Cleaning

LEMMA BeginRemoveInv ==
    ASSUME Inv, BeginRemove
    PROVE  Inv'
  <1> USE DEF BeginRemove
  <1>1. TypeOK
    BY DEF Inv
  <1>2. /\ op' \in Operations /\ op'.at = "write" /\ op'.value = None /\ op'.version = None
        /\ op'.old = manifest /\ op'.left = {}
    BY <1>1 DEF TypeOK, Operations
  <1>3. TypeOK'
    BY <1>1, <1>2 DEF TypeOK
  <1>4. NamesWhole'
    BY KeepsNaming DEF Inv
  <1>5. LateElsewhere'
    <2> SUFFICES ASSUME NEW x \in late PROVE x.version # manifest.version /\ x.version # None
      BY <1>2 DEF LateElsewhere
    <2>1. x.version \in Versions
      BY <1>1 DEF TypeOK
    <2> QED
      BY <2>1, ChunkAssumption DEF Inv, LateElsewhere
  <1>6. Writing'
    BY <1>2, ChunkAssumption DEF Writing
  <1> QED
    BY <1>2, <1>3, <1>4, <1>5, <1>6, ChunkAssumption DEF Inv, Cleaning

LEMMA WriteChunkInv ==
    ASSUME Inv, NEW i \in Index, WriteChunk(i)
    PROVE  Inv'
  <1> USE DEF WriteChunk
  <1>1. TypeOK /\ op.at = "write" /\ i \in op.left
    BY DEF Inv
  <1>2. op.value \in Values
    BY <1>1 DEF Inv, TypeOK, Operations, Writing
  <1>3. op.version \in Versions /\ op.version # manifest.version /\ op.version \in used
    BY <1>1, <1>2 DEF Inv, Writing, TypeOK
  <1>4. Part(op.value, i) \in Parts
    BY <1>2 DEF Part, Parts
  <1>5. /\ chunk' \in [Versions -> [Index -> Parts]]
        /\ \A u \in Versions : u # op.version => chunk'[u] = chunk[u]
        /\ chunk'[op.version][i] = Part(op.value, i)
        /\ \A j \in Index : j # i => chunk'[op.version][j] = chunk[op.version][j]
    BY <1>1, <1>3, <1>4, OneEntry DEF TypeOK
  <1>6. /\ op' \in Operations /\ op'.at = "write" /\ op'.value = op.value
        /\ op'.version = op.version /\ op'.old = op.old /\ op'.left = op.left \ {i}
    BY <1>1 DEF TypeOK, Operations
  <1>7. TypeOK'
    BY <1>1, <1>5, <1>6 DEF TypeOK
  <1>8. NamesWhole'
    BY <1>1, <1>3, <1>5, NamedVersion, KeepsNaming
  <1>9. LateElsewhere'
    BY <1>6 DEF Inv, LateElsewhere
  <1>10. Writing'
    <2>1. 1..Size[op.value] \subseteq Index
      BY <1>2, ChunkAssumption DEF Index
    <2>2. \A j \in (1..Size[op.value]) \ op'.left : chunk'[op.version][j] = Part(op.value, j)
      BY <1>1, <1>2, <1>5, <1>6, <2>1 DEF Inv, Writing
    <2>3. op.left \subseteq 1..Size[op.value] /\ op.old = manifest
      BY <1>1, <1>2 DEF Inv, Writing
    <2> QED
      BY <1>2, <1>3, <1>6, <2>2, <2>3, ChunkAssumption DEF Writing
  <1> QED
    BY <1>2, <1>6, <1>7, <1>8, <1>9, <1>10, ChunkAssumption DEF Inv, Cleaning

LEMMA WriteManifestInv ==
    ASSUME Inv, WriteManifest
    PROVE  Inv'
  <1> USE DEF WriteManifest
  <1>1. TypeOK /\ op.at = "write" /\ op.left = {} /\ op.old = manifest /\ op.value # Idle
    BY DEF Inv, Writing
  <1>2. op.value = None \/ op.value \in Values
    BY <1>1 DEF TypeOK, Operations
  <1>3. op.old.count \in 0..MaxChunks
    BY <1>1, NamedVersion, ChunkAssumption DEF Index
  <1>4. /\ op' \in Operations /\ op'.at = "clean" /\ op'.value = op.value
        /\ op'.version = op.version /\ op'.old = op.old /\ op'.left = 1..op.old.count
    <2>1. 1..op.old.count \in SUBSET Index
      BY <1>3, ChunkAssumption DEF Index
    <2> QED
      BY <1>1, <2>1 DEF TypeOK, Operations
  <1>5. CASE op.value = None
    <2>1. manifest' = NoManifest /\ manifest'.version = None
      BY <1>5 DEF NewManifest, NoManifest
    <2>2. TypeOK'
      BY <1>1, <1>4, <2>1 DEF TypeOK, Manifests
    <2>3. LateElsewhere'
      <3> SUFFICES ASSUME NEW x \in late PROVE x.version # None /\ x.version # op.version
        BY <1>4, <2>1 DEF LateElsewhere
      <3>1. x.version \in Versions
        BY <1>1 DEF TypeOK
      <3> QED
        BY <3>1, ChunkAssumption DEF Inv, LateElsewhere
    <2>4. op'.left # {} => op'.old.version \in used' /\ op'.old.version # manifest'.version
      <3> SUFFICES ASSUME op'.left # {}
                   PROVE  manifest.version \in used /\ manifest.version # None
        BY <1>1, <1>4, <2>1
      <3>1. manifest # NoManifest
        BY <1>1, <1>4, NamedVersion
      <3> QED
        BY <1>1, <3>1, NamedVersion, ChunkAssumption DEF Inv, NamesWhole
    <2>5. Cleaning'
      BY <1>4, <1>5, <2>1, <2>4, ChunkAssumption DEF Cleaning
    <2> QED
      BY <1>1, <1>4, <2>1, <2>2, <2>3, <2>5 DEF Inv, NamesWhole, Writing
  <1>6. CASE op.value \in Values
    <2>1. /\ op.version \in used /\ op.version \in Versions /\ op.version # manifest.version
          /\ \A j \in 1..Size[op.value] : chunk[op.version][j] = Part(op.value, j)
      BY <1>1, <1>6 DEF Inv, Writing, TypeOK
    <2>2. /\ manifest' = [version |-> op.version, count |-> Size[op.value]]
          /\ manifest'.version = op.version /\ manifest'.count = Size[op.value]
      BY <1>6, ChunkAssumption DEF NewManifest
    <2>3. manifest' # NoManifest
      BY <2>1, <2>2, ChunkAssumption DEF NoManifest
    <2>4. TypeOK'
      BY <1>1, <1>4, <1>6, <2>1, <2>2, ChunkAssumption DEF TypeOK, Manifests, Index
    <2>5. Whole(manifest, op.value)'
      BY <1>4, <2>1, <2>2 DEF Whole, Part
    <2>6. LateElsewhere'
      BY <1>4, <2>2 DEF Inv, LateElsewhere
    <2>7. op'.left # {} => op'.old.version \in used' /\ op'.old.version # manifest'.version
      <3> SUFFICES ASSUME op'.left # {}
                   PROVE  manifest.version \in used /\ manifest.version # op.version
        BY <1>1, <1>4, <2>2
      <3>1. manifest # NoManifest
        BY <1>1, <1>4, NamedVersion
      <3> QED
        BY <2>1, <3>1 DEF Inv, NamesWhole
    <2>8. Cleaning'
      BY <1>4, <1>6, <2>3, <2>5, <2>7, ChunkAssumption DEF Cleaning
    <2>9. NamesWhole'
      BY <1>4, <1>6, <2>1, <2>2, <2>5 DEF NamesWhole
    <2> QED
      BY <1>1, <1>4, <2>4, <2>6, <2>8, <2>9 DEF Inv, Writing
  <1> QED
    BY <1>2, <1>5, <1>6

LEMMA RemoveChunkInv ==
    ASSUME Inv, NEW i \in Index, RemoveChunk(i)
    PROVE  Inv'
  <1> USE DEF RemoveChunk
  <1>1. TypeOK /\ op.at = "clean" /\ i \in op.left
    BY DEF Inv
  <1>2. /\ op.old.version \in Versions /\ op.old.version \in used
        /\ op.old.version # manifest.version
    BY <1>1 DEF Inv, Cleaning, TypeOK
  <1>3. /\ chunk' \in [Versions -> [Index -> Parts]]
        /\ \A u \in Versions : u # op.old.version => chunk'[u] = chunk[u]
    BY <1>1, <1>2, OneEntry DEF TypeOK, Parts
  <1>4. /\ op' \in Operations /\ op'.at = "clean" /\ op'.value = op.value
        /\ op'.version = op.version /\ op'.old = op.old /\ op'.left = op.left \ {i}
    BY <1>1 DEF TypeOK, Operations
  <1>5. TypeOK'
    BY <1>1, <1>3, <1>4 DEF TypeOK
  <1>6. NamesWhole'
    BY <1>1, <1>2, <1>3, NamedVersion, KeepsNaming
  <1>7. LateElsewhere'
    BY <1>4 DEF Inv, LateElsewhere
  <1>8. manifest # NoManifest => \A v \in Values : Whole(manifest, v)' <=> Whole(manifest, v)
    BY <1>1, <1>2, <1>3, NamedVersion, SameValue
  <1>9. Cleaning'
    <2>1. /\ op.left \subseteq 1..op.old.count
          /\ op.value = None => manifest = NoManifest
          /\ op.value \in Values => manifest # NoManifest /\ Whole(manifest, op.value)
      BY <1>1 DEF Inv, Cleaning
    <2>2. op.value \in Values => Whole(manifest, op.value)'
      BY <1>8, <2>1, <1>4 DEF Whole, Part
    <2> QED
      BY <1>2, <1>4, <2>1, <2>2 DEF Cleaning, Whole, Part
  <1> QED
    BY <1>1, <1>4, <1>5, <1>6, <1>7, <1>9 DEF Inv, Writing

\* An operation that ends, well or badly, leaves the manifest to name what it names.
LEMMA EndInv ==
    ASSUME Inv, op' = NoOp, outcome' \in {"done", "broken"},
           UNCHANGED <<manifest, chunk, used>>,
           late' \subseteq LateWrites,
           \A x \in late' : x.version # manifest.version
    PROVE  Inv'
  <1>1. TypeOK'
    BY Idling DEF Inv, TypeOK, LateWrites
  <1>2. NamesWhole'
    BY KeepsNaming
  <1>3. LateElsewhere'
    <2> SUFFICES ASSUME NEW x \in late' PROVE x.version # manifest.version /\ x.version # None
      BY Idling DEF LateElsewhere
    <2> QED
      BY ChunkAssumption DEF Inv, TypeOK, LateWrites
  <1> QED
    BY <1>1, <1>2, <1>3, Idling DEF Inv, Writing, Cleaning

LEMMA RestElsewhere ==
    ASSUME Inv, op.at # "idle"
    PROVE  Rest \subseteq LateWrites /\ \A x \in Rest : x.version # manifest.version
  <1>1. CASE op.at = "write"
    <2> SUFFICES ASSUME NEW i \in op.left
                 PROVE  /\ [version |-> op.version, index |-> i, part |-> Part(op.value, i)]
                             \in LateWrites
                        /\ op.version # manifest.version
      BY <1>1 DEF Rest
    <2>1. op.value \in Values /\ i \in Index
      BY <1>1 DEF Inv, TypeOK, Operations, Writing
    <2> QED
      BY <1>1, <2>1 DEF Inv, Writing, LateWrites, Part, Parts
  <1>2. CASE op.at = "clean"
    <2> SUFFICES ASSUME NEW i \in op.left
                 PROVE  /\ [version |-> op.old.version, index |-> i, part |-> None] \in LateWrites
                        /\ op.old.version # manifest.version
      BY <1>2 DEF Rest
    <2>1. i \in Index
      BY DEF Inv, TypeOK, Operations
    <2> QED
      BY <1>2, <2>1 DEF Inv, Cleaning, LateWrites, Parts
  <1> QED
    BY <1>1, <1>2 DEF Inv, TypeOK, Operations

LEMMA LateTyped ==
    ASSUME Inv
    PROVE  late \subseteq LateWrites /\ \A x \in late : x.version # manifest.version
  BY DEF Inv, TypeOK, LateWrites, LateElsewhere

LEMMA EffectInv ==
    ASSUME Inv, NEW x \in late, TakesEffect(x)
    PROVE  Inv'
  <1> USE DEF TakesEffect
  <1>1. TypeOK /\ late' \subseteq late
    BY DEF Inv
  <1>2. /\ x.version \in Versions /\ x.index \in Index /\ x.part \in Parts
        /\ x.version # manifest.version /\ x.version # op.version
    BY <1>1 DEF TypeOK, Inv, LateElsewhere
  <1>3. /\ chunk' \in [Versions -> [Index -> Parts]]
        /\ \A u \in Versions : u # x.version => chunk'[u] = chunk[u]
    BY <1>1, <1>2, OneEntry DEF TypeOK
  <1>4. TypeOK'
    BY <1>1, <1>3 DEF TypeOK
  <1>5. NamesWhole'
    BY <1>1, <1>2, <1>3, NamedVersion, KeepsNaming
  <1>6. LateElsewhere'
    BY <1>1 DEF Inv, LateElsewhere
  <1>7. manifest # NoManifest => \A v \in Values : Whole(manifest, v)' <=> Whole(manifest, v)
    BY <1>1, <1>2, <1>3, NamedVersion, SameValue
  <1>8. Writing'
    <2> SUFFICES ASSUME op.at = "write" PROVE Writing'
      BY DEF Writing
    <2>1. op.value \in Values => chunk'[op.version] = chunk[op.version]
      BY <1>1, <1>2, <1>3 DEF Inv, Writing, TypeOK
    <2> QED
      BY <2>1 DEF Inv, Writing, Part
  <1>9. Cleaning'
    <2> SUFFICES ASSUME op.at = "clean" PROVE Cleaning'
      BY DEF Cleaning
    <2>1. op.value \in Values => manifest # NoManifest /\ Whole(manifest, op.value)
      BY DEF Inv, Cleaning
    <2>2. op.value \in Values => Whole(manifest, op.value)'
      BY <1>7, <2>1 DEF Whole, Part
    <2> QED
      BY <2>1, <2>2 DEF Inv, Cleaning, Whole, Part
  <1> QED
    BY <1>4, <1>5, <1>6, <1>8, <1>9 DEF Inv

LEMMA NextInv ==
    ASSUME Inv, [Next]_vars
    PROVE  Inv'
  <1>1. CASE UNCHANGED vars
    BY <1>1 DEF vars, Inv, TypeOK, NamesWhole, LateElsewhere, Writing, Cleaning, Whole
  <1>2. ASSUME NEW v \in Values, NEW w \in Versions, BeginSet(v, w) PROVE Inv'
    BY <1>2, BeginSetInv
  <1>3. ASSUME NEW i \in Index, WriteChunk(i) \/ RemoveChunk(i) PROVE Inv'
    BY <1>3, WriteChunkInv, RemoveChunkInv
  <1>4. ASSUME NEW x \in late, TakesEffect(x) PROVE Inv'
    BY <1>4, EffectInv
  <1>5. CASE BeginRemove \/ WriteManifest
    BY <1>5, BeginRemoveInv, WriteManifestInv
  <1>6. CASE Return
    BY <1>6, LateTyped, EndInv DEF Return
  <1>7. CASE Fail
    <2>1. op.at # "idle" /\ late' = late \union Rest
      BY <1>7 DEF Fail
    <2>2. late' \subseteq LateWrites /\ \A x \in late' : x.version # manifest.version
      BY <2>1, RestElsewhere, LateTyped
    <2> QED
      BY <1>7, <2>2, EndInv DEF Fail
  <1>8. CASE Kill
    <2>1. late' \subseteq LateWrites /\ \A x \in late' : x.version # manifest.version
      BY <1>8 DEF Kill
    <2> QED
      BY <1>8, <2>1, EndInv DEF Kill
  <1> QED
    BY <1>1, <1>2, <1>3, <1>4, <1>5, <1>6, <1>7, <1>8 DEF Next

\* The manifest always names the whole of one session, and no entry that is written or
\* deleted, in time or after its operation has failed, belongs to it
\* (createChunkedSessionStorage writes each session under a version of its own).
THEOREM StorageInvariant == Spec => []Inv
  <1>1. Init => Inv
    BY InitInv
  <1>2. Inv /\ [Next]_vars => Inv'
    BY NextInv
  <1> QED
    BY <1>1, <1>2, PTL DEF Spec

-----------------------------------------------------------------------------
\* What getItem returns under the invariant.
LEMMA ItemNamed ==
    ASSUME TypeOK, NEW v \in Values, manifest # NoManifest, Whole(manifest, v)
    PROVE  Item = v
  <1>1. 1 \in 1..Size[v]
    BY ChunkAssumption
  <1>2. \A i \in 1..manifest.count : Entry(i) = <<v, i>>
    BY DEF Whole, Entry, Part
  <1>3. 1..Size[v] \subseteq 1..MaxChunks
    BY ChunkAssumption
  <1>4. \A i \in 1..manifest.count : Entry(i) # None
    BY <1>2, <1>3, ChunkAssumption DEF Whole
  <1>5. Size[v] = manifest.count /\ \A i \in 1..Size[v] : Entry(i) = Part(v, i)
    BY DEF Whole, Entry
  <1>6. ASSUME NEW u \in Values, Size[u] = manifest.count,
               \A i \in 1..Size[u] : Entry(i) = Part(u, i)
        PROVE  u = v
    BY <1>1, <1>2, <1>5, <1>6 DEF Part
  <1> QED
    BY <1>4, <1>5, <1>6 DEF Item

NamesItem == \A v \in Values : TypeOK /\ manifest # NoManifest /\ Whole(manifest, v) => Item = v

LEMMA ItemNamedNext == NamesItem'
  <1>1. NamesItem
    BY ItemNamed DEF NamesItem
  <1> QED
    BY <1>1, PTL

LEMMA ItemNone == manifest = NoManifest => Item = None
  BY DEF Item

\* As long as the manifest names the same value, getItem returns the same.
LEMMA ItemKept ==
    ASSUME Inv, Inv', manifest' = manifest,
           manifest # NoManifest => chunk'[manifest.version] = chunk[manifest.version]
    PROVE  Item' = Item
  <1>1. CASE manifest = NoManifest
    <2>1. Item' = None
      BY <1>1 DEF Item, NoManifest
    <2> QED
      BY <1>1, <2>1, ItemNone
  <1>2. CASE manifest # NoManifest
    <2>1. Entry(1)' = Entry(1) /\ \A i \in Index : Entry(i)' = Entry(i)
      BY <1>2 DEF Entry
    <2> QED
      BY <1>2 DEF Item, Entry, Part, NoManifest
  <1> QED
    BY <1>1, <1>2

RegisterStep == [Register!Next]_<<Item, op.value, outcome>>

LEMMA StepRefines ==
    ASSUME Inv, Inv', [Next]_vars
    PROVE  RegisterStep
  <1> USE DEF RegisterStep
  <1>1. CASE UNCHANGED vars
    <2>1. Item' = Item
      BY <1>1, ItemKept DEF vars
    <2> QED
      BY <1>1, <2>1 DEF vars
  <1>2. ASSUME NEW v \in Values, NEW w \in Versions, BeginSet(v, w) PROVE RegisterStep
    <2>1. Item' = Item
      BY <1>2, ItemKept DEF BeginSet
    <2>2. op.value = Idle /\ op'.value = v /\ outcome' = outcome
      BY <1>2, Idling DEF BeginSet, Inv
    <2> QED
      BY <2>1, <2>2 DEF Register!Next, Register!Ask
  <1>3. CASE BeginRemove
    <2>1. Item' = Item
      BY <1>3, ItemKept DEF BeginRemove
    <2>2. op.value = Idle /\ op'.value = None /\ outcome' = outcome
      BY <1>3, Idling DEF BeginRemove, Inv
    <2> QED
      BY <2>1, <2>2 DEF Register!Next, Register!Ask
  <1>4. ASSUME NEW i \in Index, WriteChunk(i) PROVE RegisterStep
    <2>1. op.value \in Values /\ op \in Operations
      BY <1>4 DEF WriteChunk, Inv, TypeOK, Operations, Writing
    <2>2. op.version \in Versions /\ op.version # manifest.version
      BY <1>4, <2>1 DEF WriteChunk, Inv, Writing, TypeOK
    <2>3. manifest # NoManifest => chunk'[manifest.version] = chunk[manifest.version]
      BY <1>4, <2>2, NamedVersion DEF WriteChunk, Inv, TypeOK
    <2>4. Item' = Item
      BY <1>4, <2>3, ItemKept DEF WriteChunk
    <2> QED
      BY <1>4, <2>1, <2>4 DEF WriteChunk, Operations
  <1>5. CASE WriteManifest
    <2>1. /\ op \in Operations /\ op.at = "write" /\ op.value # Idle
          /\ op'.at = "clean" /\ op'.value = op.value /\ outcome' = outcome
      BY <1>5 DEF WriteManifest, Inv, TypeOK, Operations
    <2>2. CASE op.value = None
      <3>1. manifest' = NoManifest
        BY <1>5, <2>2 DEF WriteManifest, NewManifest
      <3>2. Item' = None
        BY <3>1 DEF Item, NoManifest
      <3> QED
        BY <2>1, <2>2, <3>2 DEF Register!Next, Register!TakeEffect
    <2>3. CASE op.value \in Values
      <3>1. (manifest # NoManifest /\ Whole(manifest, op.value))'
        BY <2>1, <2>3 DEF Inv, Cleaning
      <3>2. Item' = op.value
        BY <2>1, <2>3, <3>1, ItemNamedNext DEF NamesItem, Inv, Whole, Part
      <3> QED
        BY <2>1, <3>2 DEF Register!Next, Register!TakeEffect
    <2> QED
      BY <2>1, <2>2, <2>3 DEF Operations
  <1>6. ASSUME NEW i \in Index, RemoveChunk(i) PROVE RegisterStep
    <2>1. /\ op \in Operations
          /\ op.old.version \in Versions /\ op.old.version # manifest.version
      BY <1>6 DEF RemoveChunk, Inv, Cleaning, TypeOK
    <2>2. manifest # NoManifest => chunk'[manifest.version] = chunk[manifest.version]
      BY <1>6, <2>1, NamedVersion DEF RemoveChunk, Inv, TypeOK
    <2>3. Item' = Item
      BY <1>6, <2>2, ItemKept DEF RemoveChunk
    <2> QED
      BY <1>6, <2>1, <2>3 DEF RemoveChunk, Operations
  <1>7. CASE Return
    <2>1. Item' = Item
      BY <1>7, ItemKept DEF Return
    <2>2. op.value = None \/ op.value \in Values
      BY <1>7 DEF Return, Inv, TypeOK, Operations
    <2>3. Item = op.value
      BY <1>7, <2>2, ItemNone, ItemNamed DEF Return, Inv, Cleaning
    <2>4. op.value # Idle /\ op'.value = Idle /\ outcome' = "done"
      BY <1>7, Idling DEF Return, Inv
    <2> QED
      BY <2>1, <2>3, <2>4 DEF Register!Next, Register!Succeed
  <1>8. CASE Fail \/ Kill
    <2>1. Item' = Item
      BY <1>8, ItemKept DEF Fail, Kill
    <2>2. op.value # Idle /\ op'.value = Idle /\ outcome' = "broken"
      BY <1>8, Idling DEF Fail, Kill, Inv
    <2> QED
      BY <2>1, <2>2 DEF Register!Next, Register!BreakOff
  <1>9. ASSUME NEW x \in late, TakesEffect(x) PROVE RegisterStep
    <2>1. x.version \in Versions /\ x.version # manifest.version
      BY DEF Inv, TypeOK, LateElsewhere
    <2>2. manifest # NoManifest => chunk'[manifest.version] = chunk[manifest.version]
      BY <1>9, <2>1, NamedVersion DEF TakesEffect, Inv, TypeOK
    <2>3. Item' = Item
      BY <1>9, <2>2, ItemKept DEF TakesEffect
    <2> QED
      BY <1>9, <2>3 DEF TakesEffect
  <1> QED
    BY <1>1, <1>2, <1>3, <1>4, <1>5, <1>6, <1>7, <1>8, <1>9 DEF Next

\* A session is replaced as a whole or not at all and never disappears but by removeItem,
\* whichever entries of the keychain fail and whenever the app is killed.
THEOREM StorageActsAsRegister == Spec => ActsAsRegister
  <1>1. Init => Register!Init
    BY Idling, ItemNone DEF Init, Register!Init
  <1>2. Inv /\ Inv' /\ [Next]_vars => [Register!Next]_<<Item, op.value, outcome>>
    BY StepRefines DEF RegisterStep
  <1> QED
    BY <1>1, <1>2, StorageInvariant, PTL DEF Spec, ActsAsRegister, Register!Spec
=============================================================================
