---------------------------- MODULE ArtifactStore ---------------------------
(***************************************************************************)
(* Publication of capture artifacts (shim.py, _dump and _upsert_manifest). *)
(*                                                                         *)
(* Every rank is a process of its own.  When a runner's capture ends, the  *)
(* process writes a pickle, then a sidecar, then merges an entry into the  *)
(* manifest all processes share: exclusive flock, read, merge, temporary   *)
(* file, rename, unlock.  Any of the writes can fail, and a process can be *)
(* killed between any two steps ("you can stop the server").               *)
(*                                                                         *)
(* A stem names the files of one (process, runner).  Capturing the same    *)
(* runner again reuses the stem and overwrites its files in place; gen     *)
(* numbers those dumps, and stands for what the files of a dump contain.   *)
(***************************************************************************)
EXTENDS Naturals

CONSTANTS
    Workers,    \* the processes, one per rank
    Runners,    \* runner tags
    Free,       \* nobody holds the lock
    NoFile,     \* the content of a file that does not exist
    Torn,       \* the content of a file that is empty or cut short
    MaxGen      \* bound: dumps per stem

Stems   == Workers \X Runners
Gens    == 1 .. MaxGen
Entries == [stem : Stems, gen : Gens]

ASSUME WorkersAssumption == Free \notin Workers
ASSUME ContentsAssumption ==
    \A c \in {NoFile, Torn} : c \notin Nat /\ \A entries \in SUBSET Entries : c # entries
ASSUME MaxGenAssumption == MaxGen \in Nat \ {0}

VARIABLES
    pickle, sidecar,  \* per stem: the generation in the file, NoFile or Torn
    manifest,         \* set of entries, NoFile or Torn
    lock,             \* holder of the flock on artifact_manifest.json.lock
    pc,               \* per worker: the step of _dump it is at
    runner,           \* per worker: the runner whose capture it dumps
    gen,              \* per stem: dumps begun
    copy,             \* per worker: the entries it read under the lock
    tmp               \* per worker: the contents of its temporary file

VARIABLES             \* auxiliary
    published,        \* stems renamed into place since a read last failed
    spoiled           \* stems whose last dump crashed or failed to write

files == <<pickle, sidecar>>
job   == <<runner, gen>>
merge == <<copy, tmp>>
vars  == <<files, manifest, lock, pc, job, merge, published, spoiled>>

Critical == {"read", "merge", "replace", "unlock"}
Steps    == {"idle", "pickle", "sidecar", "write", "lock", "crashed"} \cup Critical

(* The files _dump(runner) of worker w writes, and its manifest entry.     *)
Stem(w) == <<w, runner[w]>>
BareEntry(w) == [stem |-> Stem(w)]
Entry(w)     == [stem |-> Stem(w), gen |-> gen[Stem(w)]]

(* The manifest's entries; a file that is not a manifest counts as none.   *)
Listed == IF manifest \in {NoFile, Torn} THEN {} ELSE manifest

StemsOf(entries) == {e.stem : e \in entries}

Init ==
    /\ pickle = [s \in Stems |-> NoFile] /\ sidecar = [s \in Stems |-> NoFile]
    /\ manifest \in {NoFile, Torn}
    /\ lock = Free
    /\ pc = [w \in Workers |-> "idle"]
    /\ runner \in [Workers -> Runners] /\ gen = [s \in Stems |-> 0]
    /\ copy = [w \in Workers |-> {}] /\ tmp = [w \in Workers |-> {}]
    /\ published = {} /\ spoiled = {}

Goto(w, from, to) == pc[w] = from /\ pc' = [pc EXCEPT ![w] = to]

-----------------------------------------------------------------------------
(* _dump: the pickle, then the sidecar.                                    *)

(* _dump_snapshot opens the pickle of this stem.                           *)
BeginDump(w, r) ==
    /\ gen[<<w, r>>] < MaxGen
    /\ Goto(w, "idle", "pickle")
    /\ runner' = [runner EXCEPT ![w] = r]
    /\ gen' = [gen EXCEPT ![<<w, r>>] = @ + 1]
    /\ pickle' = [pickle EXCEPT ![<<w, r>>] = Torn]
    /\ spoiled' = spoiled \ {<<w, r>>}
    /\ UNCHANGED <<sidecar, manifest, lock, merge, published>>

PickleDone(w) ==
    /\ Goto(w, "pickle", "sidecar")
    /\ pickle' = [pickle EXCEPT ![Stem(w)] = gen[Stem(w)]]
    /\ UNCHANGED <<sidecar, manifest, lock, job, merge, published, spoiled>>

(* "snapshot dump failed": nothing else is written.                        *)
PickleFails(w) ==
    /\ Goto(w, "pickle", "idle")
    /\ spoiled' = spoiled \cup {Stem(w)}
    /\ UNCHANGED <<files, manifest, lock, job, merge, published>>

OpenSidecarOnce(w) ==
    /\ Goto(w, "sidecar", IF sidecar[Stem(w)] = NoFile THEN "write" ELSE "lock")
    /\ sidecar' = [sidecar EXCEPT ![Stem(w)] = IF @ = NoFile THEN Torn ELSE @]
    /\ UNCHANGED <<pickle, manifest, lock, job, merge, published, spoiled>>

OpenSidecar(w) ==
    /\ Goto(w, "sidecar", "write")
    /\ sidecar' = [sidecar EXCEPT ![Stem(w)] = Torn]
    /\ UNCHANGED <<pickle, manifest, lock, job, merge, published, spoiled>>

SidecarDone(w) ==
    /\ Goto(w, "write", "lock")
    /\ sidecar' = [sidecar EXCEPT ![Stem(w)] = gen[Stem(w)]]
    /\ UNCHANGED <<pickle, manifest, lock, job, merge, published, spoiled>>

(* "sidecar write failed", at the open or later: the entry is listed even so. *)
SidecarFails(w) ==
    /\ \E step \in {"sidecar", "write"} : Goto(w, step, "lock")
    /\ spoiled' = spoiled \cup {Stem(w)}
    /\ UNCHANGED <<files, manifest, lock, job, merge, published>>

-----------------------------------------------------------------------------
(* _upsert_manifest                                                        *)

MayEnterAnyway(w) == TRUE
MayEnter(w)       == lock = Free

Lock(w) ==
    /\ MayEnter(w)
    /\ Goto(w, "lock", "read")
    /\ lock' = w
    /\ UNCHANGED <<files, manifest, job, merge, published, spoiled>>

Read(w) ==
    /\ Goto(w, "read", "merge")
    /\ copy' = [copy EXCEPT ![w] = Listed]
    /\ UNCHANGED <<files, manifest, lock, job, tmp, published, spoiled>>

(* json.load or the open before it raises: "rebuilding manifest from this  *)
(* entry only", which gives up what was published before.                  *)
ReadFails(w) ==
    /\ manifest # NoFile
    /\ Goto(w, "read", "merge")
    /\ copy' = [copy EXCEPT ![w] = {}]
    /\ published' = {}
    /\ UNCHANGED <<files, manifest, lock, job, tmp, spoiled>>

(* The entries of other stems as they were read, and this dump's own.      *)
OnlyOwnEntry(entries, e) == {e}
AllAndEntry(entries, e)  == entries \cup {e}
Merged(entries, e)       == {a \in entries : a.stem # e.stem} \cup {e}

WriteTmp(w) ==
    /\ Goto(w, "merge", "replace")
    /\ tmp' = [tmp EXCEPT ![w] = Merged(copy[w], Entry(w))]
    /\ copy' = [copy EXCEPT ![w] = {}]
    /\ UNCHANGED <<files, manifest, lock, job, published, spoiled>>

(* os.replace                                                              *)
Replace(w) ==
    /\ Goto(w, "replace", "unlock")
    /\ manifest' = tmp[w]
    /\ tmp' = [tmp EXCEPT ![w] = {}]
    /\ published' = published \cup {Stem(w)}
    /\ UNCHANGED <<files, lock, job, copy, spoiled>>

(* "manifest write failed": nothing happened if the lock file cannot be    *)
(* opened; otherwise the finally still unlocks.                            *)
WithoutFinally    == "idle"
AfterFailedUpsert == "unlock"

UpsertFails(w) ==
    /\ \/ Goto(w, "lock", "idle")
       \/ \E step \in {"merge", "replace"} : Goto(w, step, AfterFailedUpsert)
    /\ copy' = [copy EXCEPT ![w] = {}] /\ tmp' = [tmp EXCEPT ![w] = {}]
    /\ spoiled' = spoiled \cup {Stem(w)}
    /\ UNCHANGED <<files, manifest, lock, job, published>>

Unlock(w) ==
    /\ Goto(w, "unlock", "idle")
    /\ lock' = Free
    /\ UNCHANGED <<files, manifest, job, merge, published, spoiled>>

-----------------------------------------------------------------------------
(* The environment (external)                                              *)

(* The process is killed; the system closes its files and drops its flock. *)
Crash(w) ==
    /\ pc[w] # "crashed"
    /\ pc' = [pc EXCEPT ![w] = "crashed"]
    /\ lock' = IF lock = w THEN Free ELSE lock
    /\ copy' = [copy EXCEPT ![w] = {}] /\ tmp' = [tmp EXCEPT ![w] = {}]
    /\ spoiled' = IF pc[w] = "idle" THEN spoiled ELSE spoiled \cup {Stem(w)}
    /\ UNCHANGED <<files, manifest, job, published>>

Publishing(w) ==
    \/ PickleDone(w) \/ OpenSidecar(w) \/ SidecarDone(w)
    \/ Lock(w) \/ Read(w) \/ WriteTmp(w) \/ Replace(w) \/ Unlock(w)

Failing(w) ==
    PickleFails(w) \/ SidecarFails(w) \/ ReadFails(w) \/ UpsertFails(w) \/ Crash(w)

Next ==
    \/ \E w \in Workers, r \in Runners : BeginDump(w, r)
    \/ \E w \in Workers : Publishing(w)
    \/ \E w \in Workers : Failing(w)

Spec == Init /\ [][Next]_vars

(* A process that is not killed goes on with its dump; nothing makes it     *)
(* capture again, fail or crash.                                           *)
FairSpec == Spec /\ \A w \in Workers : WF_vars(Publishing(w))

-----------------------------------------------------------------------------
TypeOK ==
    /\ pickle \in [Stems -> Gens \cup {NoFile, Torn}]
    /\ sidecar \in [Stems -> Gens \cup {NoFile, Torn}]
    /\ manifest \in {NoFile, Torn} \/ manifest \in SUBSET Entries
    /\ lock \in Workers \cup {Free}
    /\ pc \in [Workers -> Steps]
    /\ runner \in [Workers -> Runners] /\ gen \in [Stems -> 0 .. MaxGen]
    /\ copy \in [Workers -> SUBSET Entries] /\ tmp \in [Workers -> SUBSET Entries]
    /\ published \subseteq Stems /\ spoiled \subseteq Stems

(* "A lockless read-modify-write loses entries" (shim.py, _upsert_manifest): *)
(* with the lock, a stem once published stays listed, whoever upserts,     *)
(* fails or is killed afterwards, unless a read of the manifest fails.     *)
PublishedStaysListed == published \subseteq StemsOf(Listed)

(* "merges the entry by stem": never two entries for the files of one stem. *)
OneEach(entries) == \A a, b \in entries : a.stem = b.stem => a = b

OneEntryPerStem == OneEach(Listed)

(* A listed artifact whose last dump ran to its end is a whole pickle and   *)
(* a whole sidecar of the same capture, the one its entry describes.       *)
Settled(e) ==
    \/ e.stem \in spoiled
    \/ e.stem = Stem(e.stem[1]) /\ pc[e.stem[1]] \notin {"idle", "crashed"}
    \/ pickle[e.stem] = e.gen /\ sidecar[e.stem] = e.gen

SettledArtifactsMatch == \A e \in Listed : Settled(e)

(* A process killed or failing anywhere in its upsert cannot leave the      *)
(* others waiting for the lock.                                            *)
EveryDumpEnds ==
    \A w \in Workers : pc[w] # "idle" ~> pc[w] \in {"idle", "crashed"}

-----------------------------------------------------------------------------
(* Why those hold: the invariant that is inductive.                        *)

LockHeld == \A w \in Workers : pc[w] \in Critical => lock = w

DumpBegun == \A w \in Workers : pc[w] \notin {"idle", "crashed"} => gen[Stem(w)] \in Gens

(* What the holder of the lock has read or merged has every published stem, *)
(* once, and is still the manifest unless that could not be read.          *)
NothingForgotten ==
    \A w \in Workers :
        /\ pc[w] = "merge" => /\ published \subseteq StemsOf(copy[w])
                              /\ OneEach(copy[w])
                              /\ copy[w] = Listed \/ copy[w] = {}
        /\ pc[w] = "replace" => /\ published \subseteq StemsOf(tmp[w])
                                /\ Stem(w) \in StemsOf(tmp[w])
                                /\ OneEach(tmp[w])
                                /\ \E entries \in {Listed, {}} :
                                       tmp[w] = Merged(entries, Entry(w))

IInv ==
    /\ TypeOK
    /\ LockHeld
    /\ DumpBegun
    /\ NothingForgotten
    /\ PublishedStaysListed
    /\ OneEntryPerStem

(* How far the files of the dump under way are those of its generation.    *)
FilesMatchOf(w) ==
    /\ pc[w] \in {"sidecar", "write", "lock"} \cup Critical => pickle[Stem(w)] = gen[Stem(w)]
    /\ pc[w] \in {"lock"} \cup Critical => sidecar[Stem(w)] = gen[Stem(w)]
    /\ pc[w] = "unlock" => \A e \in Listed : e.stem = Stem(w) => e.gen = gen[Stem(w)]

FilesMatch == \A w \in Workers : Stem(w) \notin spoiled => FilesMatchOf(w)

SettledIInv == IInv /\ FilesMatch /\ SettledArtifactsMatch

-----------------------------------------------------------------------------
(* The manifest is the abstract index, published by the rename.            *)
Index == INSTANCE ArtifactIndex WITH index <- Listed

ImplementsIndex == Index!Spec
=============================================================================
