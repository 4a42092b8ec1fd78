--------------------------- MODULE ChunkedStorage ---------------------------
(***************************************************************************)
(* createChunkedSessionStorage: a session too long for one entry of the    *)
(* phone's keychain is kept in chunks under a version, and a manifest says *)
(* which version counts and how many chunks it has.  Chunks are written    *)
(* and deleted in parallel: when one fails, the operation ends while the   *)
(* others are still on their way.  The app may be killed between two of    *)
(* them.  The auth client runs its operations one at a time (processLock). *)
(***************************************************************************)
EXTENDS Integers

CONSTANTS
    Values,     \* the sessions that are stored
    Size,       \* number of chunks splitUtf8Chunks makes of each
    Versions,   \* what createVersion may return: the time and a random number
    MaxChunks,  \* MAX_CHUNKS
    None, Idle, Garbled

ASSUME ChunkAssumption ==
    /\ MaxChunks \in Nat \ {0}
    /\ Size \in [Values -> 1..MaxChunks]
    /\ None \notin Values /\ Idle \notin Values /\ Garbled \notin Values
    /\ None # Idle /\ None # Garbled /\ Idle # Garbled
    /\ None \notin Versions /\ None \notin Values \X (1..MaxChunks)

VARIABLES
    manifest,   \* the entry that names the version that counts
    chunk,      \* the entries of each version
    op,         \* the operation that runs
    outcome,    \* how the last one ended
    used,       \* the versions createVersion has returned
    late        \* writes and deletions of failed operations, still on their way

vars == <<manifest, chunk, op, outcome, used, late>>

Index == 1..MaxChunks
Part(v, i) == <<v, i>>

NoManifest == [version |-> None, count |-> 0]
NoOp == [at |-> "idle", value |-> Idle, version |-> None, old |-> NoManifest, left |-> {}]

Manifests == {NoManifest} \union [version : Versions, count : Index]
Parts     == (Values \X Index) \union {None}

Operations ==
    [at : {"idle", "write", "clean"}, value : Values \union {None, Idle},
     version : Versions \union {None}, old : Manifests, left : SUBSET Index]

TypeOK ==
    /\ manifest \in Manifests
    /\ chunk \in [Versions -> [Index -> Parts]]
    /\ op \in Operations
    /\ outcome \in {"done", "broken"}
    /\ used \subseteq Versions
    /\ late \subseteq [version : used, index : Index, part : Parts]

Init ==
    /\ manifest = NoManifest
    /\ chunk = [w \in Versions |-> [i \in Index |-> None]]
    /\ op = NoOp
    /\ outcome = "done"
    /\ used = {} /\ late = {}

\* setItem(v): the manifest is read first; a version that is drawn is new.
BeginSet(v, w) ==
    /\ op.at = "idle" /\ w \notin used
    /\ used' = used \union {w}
    /\ op' = [at |-> "write", value |-> v, version |-> w, old |-> manifest, left |-> 1..Size[v]]
    /\ UNCHANGED <<manifest, chunk, outcome, late>>

BeginRemove ==
    /\ op.at = "idle"
    /\ op' = [at |-> "write", value |-> None, version |-> None, old |-> manifest, left |-> {}]
    /\ UNCHANGED <<manifest, chunk, outcome, used, late>>

WriteChunk(i) ==
    /\ op.at = "write" /\ i \in op.left
    /\ chunk' = [chunk EXCEPT ![op.version] = [@ EXCEPT ![i] = Part(op.value, i)]]
    /\ op' = [op EXCEPT !.left = @ \ {i}]
    /\ UNCHANGED <<manifest, outcome, used, late>>

NewManifest ==
    IF op.value = None THEN NoManifest ELSE [version |-> op.version, count |-> Size[op.value]]

\* Mutant of WriteManifest: it does not wait for the chunks.
WriteManifestEarly ==
    /\ op.at = "write"
    /\ manifest' = NewManifest
    /\ op' = [op EXCEPT !.at = "clean", !.left = 1..op.old.count]
    /\ UNCHANGED <<chunk, outcome, used, late>>

\* When every chunk is written, or at once for removeItem.
WriteManifest ==
    /\ op.at = "write" /\ op.left = {}
    /\ manifest' = NewManifest
    /\ op' = [op EXCEPT !.at = "clean", !.left = 1..op.old.count]
    /\ UNCHANGED <<chunk, outcome, used, late>>

\* removeChunks: those of the manifest that was read at the beginning.
RemoveChunk(i) ==
    /\ op.at = "clean" /\ i \in op.left
    /\ chunk' = [chunk EXCEPT ![op.old.version] = [@ EXCEPT ![i] = None]]
    /\ op' = [op EXCEPT !.left = @ \ {i}]
    /\ UNCHANGED <<manifest, outcome, used, late>>

Return ==
    /\ op.at = "clean" /\ op.left = {}
    /\ op' = NoOp /\ outcome' = "done"
    /\ UNCHANGED <<manifest, chunk, used, late>>

\* Promise.all rejects with the first entry that cannot be written or deleted; the others
\* take effect some time, or never.
Rest ==
    IF op.at = "write"
    THEN {[version |-> op.version, index |-> i, part |-> Part(op.value, i)] : i \in op.left}
    ELSE {[version |-> op.old.version, index |-> i, part |-> None] : i \in op.left}

Fail ==
    /\ op.at # "idle"
    /\ late' = late \union Rest
    /\ op' = NoOp /\ outcome' = "broken"
    /\ UNCHANGED <<manifest, chunk, used>>

TakesEffect(x) ==
    /\ chunk' = [chunk EXCEPT ![x.version] = [@ EXCEPT ![x.index] = x.part]]
    /\ late' = late \ {x}
    /\ UNCHANGED <<manifest, op, outcome, used>>

\* The app is killed, with what is on its way.
Kill ==
    /\ op.at # "idle"
    /\ late' = {}
    /\ op' = NoOp /\ outcome' = "broken"
    /\ UNCHANGED <<manifest, chunk, used>>

Next ==
    \/ \E v \in Values, w \in Versions : BeginSet(v, w)
    \/ \E i \in Index : WriteChunk(i) \/ RemoveChunk(i)
    \/ \E x \in late : TakesEffect(x)
    \/ BeginRemove \/ WriteManifest \/ Return \/ Fail \/ Kill

Spec == Init /\ [][Next]_vars
-----------------------------------------------------------------------------
Entry(i) == chunk[manifest.version][i]

\* getItem: nothing if a chunk is missing, and whatever the chunks add up to otherwise.
Item ==
    IF manifest = NoManifest THEN None
    ELSE IF \E i \in 1..manifest.count : Entry(i) = None THEN None
    ELSE IF \E v \in Values : Size[v] = manifest.count /\ \A i \in 1..Size[v] : Entry(i) = Part(v, i)
         THEN CHOOSE v \in Values :
                 Size[v] = manifest.count /\ \A i \in 1..Size[v] : Entry(i) = Part(v, i)
    ELSE Garbled

Register == INSTANCE SecureRegister
    WITH value <- Item, asked <- op.value, outcome <- outcome,
         Values <- Values, None <- None, Idle <- Idle

\* A session is replaced as a whole or not at all, whichever entries were written when
\* the app was killed, and it never disappears but by removeItem.
ActsAsRegister == Register!Spec

\* The stored chunks that count are those of one value.
Whole(m, v) ==
    /\ m.count = Size[v]
    /\ \A i \in 1..Size[v] : chunk[m.version][i] = Part(v, i)

\* The manifest names a whole value.
NamesWhole ==
    manifest # NoManifest => manifest.version \in used /\ \E v \in Values : Whole(manifest, v)

\* What is late is neither of the version that counts nor of the one being written.
LateElsewhere == \A x \in late : x.version # manifest.version /\ x.version # op.version

Writing ==
    op.at = "write" =>
        /\ op.old = manifest
        /\ op.value = None => op.left = {}
        /\ op.value \in Values =>
              /\ op.version \in used /\ op.version # manifest.version
              /\ op.left \subseteq 1..Size[op.value]
              /\ \A i \in (1..Size[op.value]) \ op.left :
                    chunk[op.version][i] = Part(op.value, i)

Cleaning ==
    op.at = "clean" =>
        /\ op.left \subseteq 1..op.old.count
        /\ op.left # {} => op.old.version \in used /\ op.old.version # manifest.version
        /\ op.value = None => manifest = NoManifest
        /\ op.value \in Values => manifest # NoManifest /\ Whole(manifest, op.value)

\* The inductive invariant: the manifest names a whole value, which is the new one from
\* WriteManifest on; what is written or deleted, late or in time, is never of the version
\* it names nor, when late, of the one being written.
Inv ==
    /\ TypeOK
    /\ NamesWhole
    /\ LateElsewhere
    /\ op.at = "idle" => op = NoOp
    /\ op.at # "idle" => op.value # Idle
    /\ Writing
    /\ Cleaning
=============================================================================
