------------------------ MODULE ArtifactStore_proofs ------------------------
(***************************************************************************)
(* Proofs about ArtifactStore for any set of processes, runners and number *)
(* of dumps: entries are never lost or doubled, and the manifest behaves   *)
(* as the abstract index.                                                  *)
(***************************************************************************)
EXTENDS ArtifactStore, TLAPS

(* What merging an entry does to the stems listed.                         *)
LEMMA MergedStems ==
    ASSUME NEW entries \in SUBSET Entries, NEW e \in Entries
    PROVE  /\ Merged(entries, e) \in SUBSET Entries
           /\ StemsOf(Merged(entries, e)) = StemsOf(entries) \cup {e.stem}
           /\ OneEach(entries) => OneEach(Merged(entries, e))
BY DEF Merged, StemsOf, OneEach

(* A set of entries is never mistaken for a file that cannot be read.      *)
LEMMA ListedIsEntries ==
    /\ TypeOK => Listed \in SUBSET Entries
    /\ \A entries \in SUBSET Entries : manifest = entries => Listed = entries
BY ContentsAssumption DEF TypeOK, Listed

(* The entry of a worker in the middle of its dump.                        *)
LEMMA EntryType ==
    ASSUME IInv, NEW w \in Workers
    PROVE  /\ Stem(w) \in Stems
           /\ pc[w] \notin {"idle", "crashed"} => Entry(w) \in Entries
BY DEF IInv, TypeOK, DumpBegun, Stem, Entry, Stems, Entries

(* The empty directory satisfies the invariant.                            *)
LEMMA InitIInv == Init => IInv
<1>. SUFFICES ASSUME Init PROVE IInv
  OBVIOUS
<1>1. Listed = {}
  BY DEF Init, Listed
<1>2. TypeOK
  <2>1. gen \in [Stems -> 0 .. MaxGen]
    BY MaxGenAssumption DEF Init
  <2>. QED  BY <2>1 DEF Init, TypeOK, Steps
<1>3. LockHeld /\ DumpBegun /\ NothingForgotten
  BY DEF Init, LockHeld, DumpBegun, NothingForgotten, Critical
<1>4. PublishedStaysListed /\ OneEntryPerStem
  BY <1>1 DEF Init, PublishedStaysListed, OneEntryPerStem, OneEach, StemsOf
<1>. QED  BY <1>2, <1>3, <1>4 DEF IInv

-----------------------------------------------------------------------------
(* Steps that leave the manifest, the copies and the temporary files alone *)
(* keep what the holder of the lock knows, if it does not move on.         *)
LEMMA NothingForgottenKept ==
    ASSUME IInv, UNCHANGED <<manifest, merge, published>>,
           \A w \in Workers : /\ pc'[w] = "merge" => pc[w] = "merge"
                              /\ pc'[w] = "replace" => pc[w] = "replace",
           \A w \in Workers : pc[w] # "idle" => /\ runner'[w] = runner[w]
                                                /\ gen'[Stem(w)] = gen[Stem(w)]
    PROVE  NothingForgotten' /\ PublishedStaysListed' /\ OneEntryPerStem'
<1>1. Listed' = Listed
  BY DEF Listed
<1>2. \A w \in Workers : pc[w] # "idle" => Stem(w)' = Stem(w) /\ Entry(w)' = Entry(w)
  BY DEF Stem, Entry
<1>3. NothingForgotten'
  <2>. SUFFICES ASSUME NEW w \in Workers
                PROVE /\ pc'[w] = "merge" => /\ published' \subseteq StemsOf(copy'[w])
                                             /\ OneEach(copy'[w])
                                             /\ copy'[w] = Listed' \/ copy'[w] = {}
                      /\ pc'[w] = "replace" => /\ published' \subseteq StemsOf(tmp'[w])
                                               /\ Stem(w)' \in StemsOf(tmp'[w])
                                               /\ OneEach(tmp'[w])
                                               /\ \E entries \in {Listed', {}} :
                                                     tmp'[w] = Merged(entries, Entry(w)')
    BY DEF NothingForgotten
  <2>1. /\ pc[w] = "merge" => /\ published \subseteq StemsOf(copy[w])
                              /\ OneEach(copy[w])
                              /\ copy[w] = Listed \/ copy[w] = {}
        /\ pc[w] = "replace" => /\ published \subseteq StemsOf(tmp[w])
                                /\ Stem(w) \in StemsOf(tmp[w])
                                /\ OneEach(tmp[w])
                                /\ \E entries \in {Listed, {}} :
                                                     tmp[w] = Merged(entries, Entry(w))
    BY DEF IInv, NothingForgotten
  <2>. QED  BY <1>1, <1>2, <2>1 DEF merge
<1>. QED  BY <1>1, <1>3 DEF IInv, PublishedStaysListed, OneEntryPerStem

(* Every step of the specification preserves the invariant.                *)
LEMMA NextIInv == IInv /\ [Next]_vars => IInv'
<1>. SUFFICES ASSUME IInv, [Next]_vars
              PROVE  IInv'
  OBVIOUS
<1>t. TypeOK
  BY DEF IInv
<1>1. ASSUME NEW u \in Workers, NEW r \in Runners, BeginDump(u, r)
      PROVE  IInv'
  <2>1. TypeOK'
    <3>1. <<u, r>> \in Stems
      BY DEF Stems
    <3>2. gen' \in [Stems -> 0 .. MaxGen]
      BY <1>1, <1>t, <3>1, MaxGenAssumption DEF BeginDump, TypeOK
    <3>3. pc' \in [Workers -> Steps] /\ runner' \in [Workers -> Runners]
      BY <1>1, <1>t DEF BeginDump, Goto, TypeOK, Steps
    <3>4. pickle' \in [Stems -> Gens \cup {NoFile, Torn}]
      BY <1>1, <1>t, <3>1 DEF BeginDump, TypeOK
    <3>. QED  BY <1>1, <1>t, <3>2, <3>3, <3>4 DEF BeginDump, TypeOK, merge
  <2>2. LockHeld'
    BY <1>1, <1>t DEF BeginDump, Goto, TypeOK, IInv, LockHeld, Critical
  <2>3. \A w \in Workers : w # u => Stem(w)' = Stem(w) /\ gen'[Stem(w)] = gen[Stem(w)]
    BY <1>1, <1>t DEF BeginDump, TypeOK, Stem, Stems
  <2>4. Stem(u)' = <<u, r>> /\ gen'[<<u, r>>] \in Gens
    BY <1>1, <1>t, MaxGenAssumption DEF BeginDump, TypeOK, Stem, Stems, Gens
  <2>5. DumpBegun'
    BY <1>1, <1>t, <2>3, <2>4 DEF BeginDump, Goto, TypeOK, IInv, DumpBegun
  <2>6. NothingForgotten' /\ PublishedStaysListed' /\ OneEntryPerStem'
    BY <1>1, <1>t, <2>3, NothingForgottenKept DEF BeginDump, Goto, TypeOK, Stem
  <2>. QED  BY <2>1, <2>2, <2>5, <2>6 DEF IInv
<1>2. ASSUME NEW u \in Workers, PickleDone(u) \/ OpenSidecar(u) \/ SidecarDone(u)
                                \/ PickleFails(u) \/ SidecarFails(u)
      PROVE  IInv'
  <2>1. Stem(u) \in Stems /\ (pc[u] # "idle" /\ pc[u] # "crashed" => gen[Stem(u)] \in Gens)
    BY EntryType DEF IInv, DumpBegun
  <2>2. TypeOK'
    <3>1. CASE PickleDone(u)
      BY <1>t, <2>1, <3>1 DEF PickleDone, Goto, TypeOK, Steps, merge, job
    <3>2. CASE OpenSidecar(u)
      BY <1>t, <2>1, <3>2 DEF OpenSidecar, Goto, TypeOK, Steps, merge, job
    <3>3. CASE SidecarDone(u)
      BY <1>t, <2>1, <3>3 DEF SidecarDone, Goto, TypeOK, Steps, merge, job
    <3>4. CASE PickleFails(u) \/ SidecarFails(u)
      BY <1>t, <2>1, <3>4 DEF PickleFails, SidecarFails, Goto, TypeOK, Steps, merge, job, files
    <3>. QED  BY <1>2, <3>1, <3>2, <3>3, <3>4
  <2>3. /\ \A w \in Workers \ {u} : pc'[w] = pc[w]
        /\ pc[u] \notin Critical \cup {"idle", "crashed"} /\ pc'[u] \notin Critical
    BY <1>2, <1>t DEF PickleDone, OpenSidecar, SidecarDone, PickleFails, SidecarFails,
       Goto, TypeOK, Critical
  <2>4. UNCHANGED <<manifest, lock, job, merge, published>>
    BY <1>2 DEF PickleDone, OpenSidecar, SidecarDone, PickleFails, SidecarFails
  <2>5. LockHeld'
    BY <2>3, <2>4 DEF IInv, LockHeld
  <2>6. DumpBegun'
    BY <2>3, <2>4 DEF IInv, DumpBegun, Stem, job
  <2>7. NothingForgotten' /\ PublishedStaysListed' /\ OneEntryPerStem'
    BY <2>3, <2>4, NothingForgottenKept DEF job, Critical
  <2>. QED  BY <2>2, <2>5, <2>6, <2>7 DEF IInv
<1>3. ASSUME NEW u \in Workers, Lock(u)
      PROVE  IInv'
  <2>1. TypeOK'
    BY <1>3, <1>t DEF Lock, Goto, TypeOK, Steps, Critical, merge, job, files
  <2>2. LockHeld'
    BY <1>3, <1>t, WorkersAssumption DEF Lock, MayEnter, Goto, TypeOK, IInv, LockHeld
  <2>3. DumpBegun'
    BY <1>3, <1>t DEF Lock, Goto, TypeOK, IInv, DumpBegun, Stem, job
  <2>4. NothingForgotten' /\ PublishedStaysListed' /\ OneEntryPerStem'
    BY <1>3, <1>t, NothingForgottenKept DEF Lock, Goto, TypeOK, job
  <2>. QED  BY <2>1, <2>2, <2>3, <2>4 DEF IInv
<1>4. ASSUME NEW u \in Workers, Read(u)
      PROVE  IInv'
  <2>1. Listed \in SUBSET Entries /\ Listed' = Listed
    BY <1>4, <1>t, ListedIsEntries DEF Read, Listed
  <2>2. TypeOK'
    BY <1>4, <1>t, <2>1 DEF Read, Goto, TypeOK, Steps, Critical, job, files
  <2>3. LockHeld' /\ DumpBegun'
    BY <1>4, <1>t DEF Read, Goto, TypeOK, IInv, LockHeld, DumpBegun, Critical, Stem, job
  <2>4. PublishedStaysListed' /\ OneEntryPerStem'
    BY <1>4, <2>1 DEF Read, IInv, PublishedStaysListed, OneEntryPerStem
  <2>5. \A w \in Workers \ {u} : pc'[w] \notin {"merge", "replace"}
    BY <1>4, <1>t DEF Read, Goto, TypeOK, IInv, LockHeld, Critical
  <2>6. pc'[u] = "merge" /\ copy'[u] = Listed
    BY <1>4, <1>t DEF Read, Goto, TypeOK
  <2>7. NothingForgotten'
    BY <1>4, <2>1, <2>5, <2>6
       DEF Read, IInv, NothingForgotten, PublishedStaysListed, OneEntryPerStem
  <2>. QED  BY <2>2, <2>3, <2>4, <2>7 DEF IInv
<1>5. ASSUME NEW u \in Workers, WriteTmp(u)
      PROVE  IInv'
  <2>1. pc[u] = "merge" /\ copy[u] \in SUBSET Entries /\ Entry(u) \in Entries
    BY <1>5, <1>t, EntryType DEF WriteTmp, Goto, TypeOK
  <2>2. /\ tmp'[u] = Merged(copy[u], Entry(u)) /\ tmp'[u] \in SUBSET Entries
        /\ StemsOf(tmp'[u]) = StemsOf(copy[u]) \cup {Stem(u)}
        /\ OneEach(copy[u]) => OneEach(tmp'[u])
    BY <1>5, <1>t, <2>1, MergedStems DEF WriteTmp, TypeOK, Entry
  <2>3. TypeOK'
    BY <1>5, <1>t, <2>2 DEF WriteTmp, Goto, TypeOK, Steps, Critical, job, files
  <2>4. LockHeld' /\ DumpBegun'
    BY <1>5, <1>t DEF WriteTmp, Goto, TypeOK, IInv, LockHeld, DumpBegun, Critical, Stem, job
  <2>5. Listed' = Listed /\ Entry(u)' = Entry(u) /\ Stem(u)' = Stem(u)
    BY <1>5 DEF WriteTmp, Listed, Entry, Stem, job
  <2>6. PublishedStaysListed' /\ OneEntryPerStem'
    BY <1>5, <2>5 DEF WriteTmp, IInv, PublishedStaysListed, OneEntryPerStem
  <2>7. \A w \in Workers \ {u} : pc'[w] \notin {"merge", "replace"}
    BY <1>5, <1>t DEF WriteTmp, Goto, TypeOK, IInv, LockHeld, Critical
  <2>8. pc'[u] = "replace" /\ published' = published
    BY <1>5, <1>t DEF WriteTmp, Goto, TypeOK
  <2>9. /\ published \subseteq StemsOf(copy[u]) /\ OneEach(copy[u])
        /\ copy[u] = Listed \/ copy[u] = {}
    BY <2>1 DEF IInv, NothingForgotten
  <2>10. NothingForgotten'
    BY <2>2, <2>5, <2>7, <2>8, <2>9 DEF NothingForgotten
  <2>. QED  BY <2>3, <2>4, <2>6, <2>10 DEF IInv
<1>6. ASSUME NEW u \in Workers, Replace(u)
      PROVE  IInv'
  <2>1. pc[u] = "replace" /\ tmp[u] \in SUBSET Entries /\ manifest' = tmp[u]
    BY <1>6, <1>t DEF Replace, Goto, TypeOK
  <2>2. Listed' = tmp[u]
    BY <2>1, ContentsAssumption DEF Listed
  <2>3. TypeOK'
    BY <1>6, <1>t, <2>1, EntryType DEF Replace, Goto, TypeOK, Steps, Critical, job, files
  <2>4. LockHeld' /\ DumpBegun'
    BY <1>6, <1>t DEF Replace, Goto, TypeOK, IInv, LockHeld, DumpBegun, Critical, Stem, job
  <2>5. /\ published \subseteq StemsOf(tmp[u]) /\ Stem(u) \in StemsOf(tmp[u])
        /\ OneEach(tmp[u])
    BY <2>1 DEF IInv, NothingForgotten
  <2>6. PublishedStaysListed' /\ OneEntryPerStem'
    BY <1>6, <2>2, <2>5 DEF Replace, PublishedStaysListed, OneEntryPerStem
  <2>7. \A w \in Workers : pc'[w] \notin {"merge", "replace"}
    BY <1>6, <1>t DEF Replace, Goto, TypeOK, IInv, LockHeld, Critical
  <2>8. NothingForgotten'
    BY <2>7 DEF NothingForgotten
  <2>. QED  BY <2>3, <2>4, <2>6, <2>8 DEF IInv
<1>7. ASSUME NEW u \in Workers, UpsertFails(u) \/ Unlock(u) \/ Crash(u)
      PROVE  IInv'
  <2>1. /\ \A w \in Workers \ {u} : /\ pc'[w] = pc[w]
                                    /\ copy'[w] = copy[w] /\ tmp'[w] = tmp[w]
        /\ pc'[u] \in {"unlock", "idle", "crashed"}
        /\ pc'[u] = "unlock" => pc[u] \in {"read", "merge", "replace"}
    BY <1>7, <1>t DEF UpsertFails, AfterFailedUpsert, Unlock, Crash, Goto, TypeOK, merge
  <2>2. UNCHANGED <<manifest, job, published>> /\ Listed' = Listed
    BY <1>7 DEF UpsertFails, Unlock, Crash, Listed
  <2>3. TypeOK'
    BY <1>7, <1>t, EntryType DEF UpsertFails, AfterFailedUpsert, Unlock, Crash, Goto,
       TypeOK, Steps, Critical, merge, job, files
  <2>4. LockHeld'
    BY <1>7, <1>t, WorkersAssumption DEF UpsertFails, AfterFailedUpsert, Unlock, Crash, Goto,
       TypeOK, IInv, LockHeld, Critical
  <2>5. DumpBegun'
    BY <2>1, <2>2 DEF IInv, DumpBegun, Stem, job
  <2>6. \A w \in Workers : Stem(w)' = Stem(w) /\ Entry(w)' = Entry(w)
    BY <2>2 DEF Stem, Entry, job
  <2>7. NothingForgotten'
    <3>. SUFFICES ASSUME NEW w \in Workers \ {u}
                  PROVE /\ pc[w] = "merge" => /\ published \subseteq StemsOf(copy[w])
                                              /\ OneEach(copy[w])
                                              /\ copy[w] = Listed \/ copy[w] = {}
                        /\ pc[w] = "replace" => /\ published \subseteq StemsOf(tmp[w])
                                                /\ Stem(w) \in StemsOf(tmp[w])
                                                /\ OneEach(tmp[w])
                                                /\ \E entries \in {Listed, {}} :
                                                     tmp[w] = Merged(entries, Entry(w))
      BY <2>1, <2>2, <2>6 DEF NothingForgotten
    <3>. QED  BY DEF IInv, NothingForgotten
  <2>8. PublishedStaysListed' /\ OneEntryPerStem'
    BY <2>2 DEF IInv, PublishedStaysListed, OneEntryPerStem
  <2>. QED  BY <2>3, <2>4, <2>5, <2>7, <2>8 DEF IInv
<1>8. ASSUME NEW u \in Workers, ReadFails(u)
      PROVE  IInv'
  <2>1. Listed' = Listed /\ published' = {}
    BY <1>8 DEF ReadFails, Listed
  <2>2. TypeOK'
    BY <1>8, <1>t DEF ReadFails, Goto, TypeOK, Steps, Critical, job, files
  <2>3. LockHeld' /\ DumpBegun'
    BY <1>8, <1>t DEF ReadFails, Goto, TypeOK, IInv, LockHeld, DumpBegun, Critical, Stem, job
  <2>4. PublishedStaysListed' /\ OneEntryPerStem'
    BY <2>1 DEF IInv, PublishedStaysListed, OneEntryPerStem
  <2>5. \A w \in Workers \ {u} : pc'[w] \notin {"merge", "replace"}
    BY <1>8, <1>t DEF ReadFails, Goto, TypeOK, IInv, LockHeld, Critical
  <2>6. pc'[u] = "merge" /\ copy'[u] = {}
    BY <1>8, <1>t DEF ReadFails, Goto, TypeOK
  <2>7. NothingForgotten'
    BY <2>1, <2>5, <2>6 DEF NothingForgotten, OneEach
  <2>. QED  BY <2>2, <2>3, <2>4, <2>7 DEF IInv
<1>9. CASE UNCHANGED vars
  <2>1. NothingForgotten' /\ PublishedStaysListed' /\ OneEntryPerStem'
    BY <1>9, NothingForgottenKept DEF vars, job
  <2>. QED  BY <1>9, <2>1 DEF vars, IInv, TypeOK, LockHeld, DumpBegun, Stem, job, merge, files
<1>. QED  BY <1>1, <1>2, <1>3, <1>4, <1>5, <1>6, <1>7, <1>8, <1>9 DEF Next, Publishing, Failing

(* The inductive invariant is an invariant of the specification.           *)
THEOREM Invariance == Spec => []IInv
BY InitIInv, NextIInv, PTL DEF Spec

(* Type correctness of the store.                                          *)
THEOREM TypeCorrect == Spec => []TypeOK
<1>1. IInv => TypeOK
  BY DEF IInv
<1>. QED  BY <1>1, Invariance, PTL

(* No upsert, failure or crash of any process loses a published entry, but *)
(* for the rebuilding the code announces when it cannot read the manifest. *)
THEOREM NothingPublishedIsLost == Spec => []PublishedStaysListed
<1>1. IInv => PublishedStaysListed
  BY DEF IInv
<1>. QED  BY <1>1, Invariance, PTL

(* The files of a stem have one entry, whatever was dumped again.          *)
THEOREM EntriesAreUnique == Spec => []OneEntryPerStem
<1>1. IInv => OneEntryPerStem
  BY DEF IInv
<1>. QED  BY <1>1, Invariance, PTL

-----------------------------------------------------------------------------
(* The files of a stem belong to the process in its name.                  *)
LEMMA StemTypes ==
    ASSUME IInv
    PROVE  /\ \A w \in Workers : Stem(w) \in Stems /\ Stem(w)[1] = w
           /\ \A e \in Listed : e.stem \in Stems /\ e.stem[1] \in Workers
<1>1. Listed \in SUBSET Entries
  BY ListedIsEntries DEF IInv
<1>. QED  BY <1>1 DEF IInv, TypeOK, Stem, Stems, Entries

(* A step of process u touches at most the files of the stem it has under   *)
(* way: what remains to be shown is about that stem.                       *)
OnlyOwnTouched(u) ==
    /\ UNCHANGED manifest
    /\ runner'[u] = runner[u] \/ pc[u] \in {"idle", "crashed"}
    /\ \A w \in Workers \ {u} : pc'[w] = pc[w] /\ runner'[w] = runner[w]
    /\ \A s \in Stems \ {<<u, runner'[u]>>} :
          /\ pickle'[s] = pickle[s] /\ sidecar'[s] = sidecar[s] /\ gen'[s] = gen[s]
          /\ s \in spoiled' <=> s \in spoiled

(* What one process writes leaves the settled stems of the others whole.   *)
LEMMA OthersSettled ==
    ASSUME SettledIInv, IInv', NEW u \in Workers, OnlyOwnTouched(u),
           Stem(u)' \notin spoiled' => FilesMatchOf(u)',
           \A e \in Listed : e.stem = Stem(u)' => Settled(e)'
    PROVE  FilesMatch' /\ SettledArtifactsMatch'
<1>1. Listed' = Listed
  BY DEF OnlyOwnTouched, Listed
<1>2. /\ \A w \in Workers : Stem(w)' = <<w, runner'[w]>> /\ Stem(w) = <<w, runner[w]>>
      /\ \A w \in Workers : Stem(w) \in Stems /\ Stem(w)' \in Stems
  BY DEF Stem, SettledIInv, IInv, TypeOK, Stems
<1>3. ASSUME NEW w \in Workers \ {u}, Stem(w)' \notin spoiled'
      PROVE  FilesMatchOf(w)'
  <2>1. Stem(w)' = Stem(w) /\ Stem(w) \in Stems \ {<<u, runner'[u]>>}
    BY <1>2 DEF OnlyOwnTouched
  <2>2. FilesMatchOf(w)
    BY <2>1, <1>3 DEF SettledIInv, FilesMatch, OnlyOwnTouched
  <2>. QED  BY <2>1, <2>2, <1>1, <1>2 DEF FilesMatchOf, OnlyOwnTouched
<1>4. ASSUME NEW e \in Listed, e.stem # Stem(u)'
      PROVE  Settled(e)'
  <2>1. Settled(e) /\ e.stem \in Stems \ {<<u, runner'[u]>>} /\ e.stem[1] \in Workers
    BY <1>2, <1>4, StemTypes DEF SettledIInv, SettledArtifactsMatch
  <2>2. CASE e.stem = Stem(e.stem[1]) /\ pc[e.stem[1]] \notin {"idle", "crashed"}
    <3>1. e.stem[1] # u
      BY <1>2, <1>4, <2>2 DEF OnlyOwnTouched
    <3>. QED  BY <1>2, <2>1, <2>2, <3>1 DEF OnlyOwnTouched, Settled
  <2>. QED  BY <2>1, <2>2 DEF OnlyOwnTouched, Settled
<1>. QED  BY <1>1, <1>3, <1>4 DEF FilesMatch, SettledArtifactsMatch

(* Every step of a dump but the rename.                                     *)
LEMMA DumpStepsSettle ==
    ASSUME SettledIInv, IInv', NEW u \in Workers,
           \/ \E r \in Runners : BeginDump(u, r)
           \/ PickleDone(u) \/ OpenSidecar(u) \/ SidecarDone(u) \/ PickleFails(u) \/ SidecarFails(u)
           \/ Lock(u) \/ Read(u) \/ ReadFails(u) \/ WriteTmp(u) \/ UpsertFails(u)
           \/ Unlock(u) \/ Crash(u)
    PROVE  FilesMatch' /\ SettledArtifactsMatch'
<1>. DEFINE s == Stem(u)
<1>t. TypeOK
  BY DEF SettledIInv, IInv
<1>0. s \in Stems /\ s = <<u, runner[u]>>
  BY <1>t DEF Stem, Stems, TypeOK
<1>1. ASSUME NEW r \in Runners, BeginDump(u, r)
      PROVE  FilesMatch' /\ SettledArtifactsMatch'
  <2>1. OnlyOwnTouched(u)
    BY <1>1, <1>t DEF BeginDump, Goto, OnlyOwnTouched, TypeOK, Stems
  <2>2. pc'[u] = "pickle"
    BY <1>1, <1>t DEF BeginDump, Goto, TypeOK
  <2>3. FilesMatchOf(u)'
    BY <2>2 DEF FilesMatchOf, Critical
  <2>4. ASSUME NEW e \in Listed, e.stem = Stem(u)' PROVE Settled(e)'
    BY <2>2, <2>4 DEF Settled, Stem
  <2>. QED  BY <2>1, <2>3, <2>4, OthersSettled
<1>2. ASSUME PickleDone(u) \/ OpenSidecar(u) \/ SidecarDone(u) \/ Lock(u) \/ Read(u) \/ WriteTmp(u)
      PROVE  FilesMatch' /\ SettledArtifactsMatch'
  <2>1. OnlyOwnTouched(u)
    BY <1>2, <1>0, <1>t DEF PickleDone, OpenSidecar, SidecarDone, Lock, Read, WriteTmp,
       Goto, OnlyOwnTouched, TypeOK, Stems, files, job, merge
  <2>2. pc[u] \notin {"idle", "crashed", "unlock"} /\ pc'[u] \notin {"idle", "crashed", "unlock"}
    BY <1>2, <1>t DEF PickleDone, OpenSidecar, SidecarDone, Lock, Read, WriteTmp, Goto, TypeOK
  <2>3. s' = s /\ gen' = gen /\ spoiled' = spoiled
    BY <1>2 DEF PickleDone, OpenSidecar, SidecarDone, Lock, Read, WriteTmp, Stem, job
  <2>4. s \notin spoiled => FilesMatchOf(u)'
    <3>. SUFFICES ASSUME s \notin spoiled PROVE FilesMatchOf(u)'
      OBVIOUS
    <3>1. FilesMatchOf(u)
      BY DEF SettledIInv, FilesMatch
    <3>2. /\ pc'[u] \in {"sidecar", "write", "lock"} \cup Critical => pickle'[s] = gen[s]
          /\ pc'[u] \in {"lock"} \cup Critical => sidecar'[s] = gen[s]
      BY <1>2, <1>0, <1>t, <3>1 DEF PickleDone, OpenSidecar, SidecarDone, Lock, Read, WriteTmp,
         Goto, TypeOK, Critical, files, FilesMatchOf
    <3>. QED  BY <2>2, <2>3, <3>2 DEF FilesMatchOf
  <2>5. ASSUME NEW e \in Listed, e.stem = Stem(u)' PROVE Settled(e)'
    BY <2>2, <2>5 DEF Settled, Stem
  <2>. QED  BY <2>1, <2>3, <2>4, <2>5, OthersSettled
<1>3. ASSUME ReadFails(u)
      PROVE  FilesMatch' /\ SettledArtifactsMatch'
  <2>1. OnlyOwnTouched(u)
    BY <1>3, <1>0, <1>t DEF ReadFails, Goto, OnlyOwnTouched, TypeOK, Stems, files, job, merge
  <2>2. pc[u] = "read" /\ pc'[u] = "merge"
    BY <1>3, <1>t DEF ReadFails, Goto, TypeOK
  <2>3. s' = s /\ UNCHANGED <<files, gen, spoiled>>
    BY <1>3 DEF ReadFails, Stem, job
  <2>4. s \notin spoiled => FilesMatchOf(u)'
    BY <2>2, <2>3 DEF SettledIInv, FilesMatch, FilesMatchOf, files, Critical
  <2>5. ASSUME NEW e \in Listed, e.stem = Stem(u)' PROVE Settled(e)'
    BY <2>2, <2>5 DEF Settled, Stem
  <2>. QED  BY <2>1, <2>3, <2>4, <2>5, OthersSettled
<1>4. ASSUME PickleFails(u) \/ SidecarFails(u) \/ UpsertFails(u)
      PROVE  FilesMatch' /\ SettledArtifactsMatch'
  <2>1. OnlyOwnTouched(u)
    BY <1>4, <1>0, <1>t DEF PickleFails, SidecarFails, UpsertFails, Goto, OnlyOwnTouched, TypeOK,
       Stems, files, job, merge
  <2>2. s' = s /\ s \in spoiled'
    BY <1>4 DEF PickleFails, SidecarFails, UpsertFails, Stem, job
  <2>3. ASSUME NEW e \in Listed, e.stem = Stem(u)' PROVE Settled(e)'
    BY <2>2, <2>3 DEF Settled
  <2>. QED  BY <2>1, <2>2, <2>3, OthersSettled
<1>5. ASSUME Crash(u)
      PROVE  FilesMatch' /\ SettledArtifactsMatch'
  <2>1. OnlyOwnTouched(u)
    BY <1>5, <1>0, <1>t DEF Crash, OnlyOwnTouched, TypeOK, Stems, files, job
  <2>2. s' = s /\ pc'[u] = "crashed" /\ UNCHANGED <<files, gen>>
    BY <1>5, <1>t DEF Crash, Stem, job, TypeOK
  <2>3. FilesMatchOf(u)'
    BY <2>2 DEF FilesMatchOf, Critical
  <2>4. ASSUME NEW e \in Listed, e.stem = Stem(u)' PROVE Settled(e)'
    <3>1. Settled(e)
      BY DEF SettledIInv, SettledArtifactsMatch
    <3>2. CASE pc[u] = "idle"
      <4>1. spoiled' = spoiled
        BY <1>5, <3>2 DEF Crash
      <4>. QED  BY <1>0, <2>2, <2>4, <3>1, <3>2, <4>1 DEF Settled, files
    <3>3. CASE pc[u] # "idle"
      <4>1. s \in spoiled'
        BY <1>5, <3>3 DEF Crash
      <4>. QED  BY <2>2, <2>4, <4>1 DEF Settled
    <3>. QED  BY <3>2, <3>3
  <2>. QED  BY <2>1, <2>3, <2>4, OthersSettled
<1>6. ASSUME Unlock(u)
      PROVE  FilesMatch' /\ SettledArtifactsMatch'
  <2>1. OnlyOwnTouched(u)
    BY <1>6, <1>0, <1>t DEF Unlock, Goto, OnlyOwnTouched, TypeOK, Stems, files, job
  <2>2. s' = s /\ pc[u] = "unlock" /\ pc'[u] = "idle" /\ UNCHANGED <<files, gen, spoiled>>
    BY <1>6, <1>t DEF Unlock, Goto, Stem, job, TypeOK
  <2>3. FilesMatchOf(u)'
    BY <2>2 DEF FilesMatchOf, Critical
  <2>4. ASSUME NEW e \in Listed, e.stem = Stem(u)' PROVE Settled(e)'
    <3>1. s \notin spoiled => FilesMatchOf(u)
      BY DEF SettledIInv, FilesMatch
    <3>. QED  BY <2>2, <2>4, <3>1 DEF FilesMatchOf, Settled, files, Critical
  <2>. QED  BY <2>1, <2>3, <2>4, OthersSettled
<1>. QED  BY <1>1, <1>2, <1>3, <1>4, <1>5, <1>6

(* The rename brings in one entry, of the files just written; the entries   *)
(* it keeps were listed, and nobody else is between lock and unlock.        *)
LEMMA ReplaceSettles ==
    ASSUME SettledIInv, IInv', NEW u \in Workers, Replace(u)
    PROVE  FilesMatch' /\ SettledArtifactsMatch'
<1>. DEFINE s == Stem(u)
<1>t. TypeOK /\ LockHeld /\ NothingForgotten
  BY DEF SettledIInv, IInv
<1>1. /\ pc[u] = "replace" /\ pc' = [pc EXCEPT ![u] = "unlock"] /\ manifest' = tmp[u]
      /\ UNCHANGED <<files, gen, runner, spoiled>>
  BY DEF Replace, Goto, job
<1>2. \A w \in Workers : Stem(w)' = Stem(w) /\ Stem(w) = <<w, runner[w]>>
  BY <1>1 DEF Stem
<1>3. PICK entries \in {Listed, {}} : Listed' = Merged(entries, Entry(u))
  <2>1. PICK entries \in {Listed, {}} : tmp[u] = Merged(entries, Entry(u))
    BY <1>1, <1>t DEF NothingForgotten
  <2>2. Listed' = tmp[u]
    BY <1>1, <1>t, ContentsAssumption DEF Listed, TypeOK
  <2>. QED  BY <2>1, <2>2
<1>4. \A e \in Listed' : e = Entry(u) \/ (e \in Listed /\ e.stem # s)
  <2>1. Entry(u).stem = s
    BY DEF Entry
  <2>2. Listed' = {a \in entries : a.stem # s} \cup {Entry(u)}
    BY <1>3, <2>1 DEF Merged
  <2>3. entries \subseteq Listed
    BY <1>3
  <2>4. ASSUME NEW e \in Listed' PROVE e = Entry(u) \/ (e \in entries /\ e.stem # s)
    BY <2>2
  <2>. QED  BY <2>3, <2>4
<1>5. Entry(u).stem = s /\ Entry(u).gen = gen[s]
  BY DEF Entry
<1>6. ASSUME NEW w \in Workers \ {u}, Stem(w) \notin spoiled
      PROVE  FilesMatchOf(w)'
  <2>1. pc'[w] = pc[w]
    BY <1>1, <1>t DEF TypeOK
  <2>2. pc[w] # "unlock"
    BY <1>1, <1>t DEF LockHeld, Critical
  <2>3. FilesMatchOf(w)
    BY <1>6 DEF SettledIInv, FilesMatch
  <2>. QED  BY <1>1, <1>2, <2>1, <2>2, <2>3 DEF FilesMatchOf, files
<1>7. ASSUME s \notin spoiled PROVE FilesMatchOf(u)'
  <2>1. FilesMatchOf(u)
    BY <1>7 DEF SettledIInv, FilesMatch
  <2>2. pickle[s] = gen[s] /\ sidecar[s] = gen[s]
    BY <1>1, <2>1 DEF FilesMatchOf, Critical
  <2>3. \A e \in Listed' : e.stem = s => e.gen = gen[s]
    BY <1>4, <1>5
  <2>. QED  BY <1>1, <1>2, <2>2, <2>3 DEF FilesMatchOf, files
<1>8. ASSUME NEW e \in Listed' PROVE Settled(e)'
  <2>1. CASE e.stem = s
    <3>1. s[1] = u /\ pc'[u] = "unlock"
      BY <1>1, <1>2, <1>t DEF TypeOK
    <3>. QED  BY <1>2, <2>1, <3>1 DEF Settled
  <2>2. CASE e.stem # s
    <3>1. e \in Listed /\ Settled(e) /\ e.stem[1] \in Workers
      BY <1>4, <1>5, <2>2, StemTypes DEF SettledIInv, SettledArtifactsMatch
    <3>2. e.stem = Stem(e.stem[1]) => e.stem[1] # u
      BY <2>2
    <3>3. e.stem[1] # u => pc'[e.stem[1]] = pc[e.stem[1]]
      BY <1>1, <1>t, <3>1 DEF TypeOK
    <3>. QED  BY <1>1, <1>2, <3>1, <3>2, <3>3 DEF Settled, files
  <2>. QED  BY <2>1, <2>2
<1>. QED  BY <1>1, <1>2, <1>6, <1>7, <1>8 DEF FilesMatch, SettledArtifactsMatch

(* When no dump of a stem is under way and its last one did not fail, its   *)
(* two files and its entry are of one capture.                             *)
THEOREM SettledArtifactsAreWhole == Spec => []SettledArtifactsMatch
<1>1. Init => SettledIInv
  <2>1. Init => FilesMatch /\ SettledArtifactsMatch
    BY DEF Init, FilesMatch, FilesMatchOf, Critical, SettledArtifactsMatch, Listed
  <2>. QED  BY <2>1, InitIInv DEF SettledIInv
<1>2. SettledIInv /\ IInv' /\ [Next]_vars => SettledIInv'
  <2>. SUFFICES ASSUME SettledIInv, IInv', [Next]_vars PROVE FilesMatch' /\ SettledArtifactsMatch'
    BY DEF SettledIInv
  <2>1. CASE \E u \in Workers, r \in Runners : BeginDump(u, r)
    BY <2>1, DumpStepsSettle
  <2>2. CASE \E u \in Workers : Publishing(u)
    BY <2>2, DumpStepsSettle, ReplaceSettles DEF Publishing
  <2>3. CASE \E u \in Workers : Failing(u)
    BY <2>3, DumpStepsSettle DEF Failing
  <2>4. CASE UNCHANGED vars
    BY <2>4 DEF vars, files, job, SettledIInv, FilesMatch, FilesMatchOf, SettledArtifactsMatch,
       Settled, Listed, Stem
  <2>. QED  BY <2>1, <2>2, <2>3, <2>4 DEF Next
<1>3. SettledIInv => SettledArtifactsMatch
  BY DEF SettledIInv
<1>. QED  BY <1>1, <1>2, <1>3, Invariance, PTL DEF Spec

-----------------------------------------------------------------------------
(* Only the rename changes what is listed, and it publishes one entry.     *)
LEMMA IndexStep == IInv /\ [Next]_vars => [Index!Next]_Listed
<1>. SUFFICES ASSUME IInv, [Next]_vars
              PROVE  Index!Next \/ Listed' = Listed
  OBVIOUS
<1>1. ASSUME NEW u \in Workers, Replace(u)
      PROVE  Index!Next
  <2>1. pc[u] = "replace" /\ tmp[u] \in SUBSET Entries /\ manifest' = tmp[u]
    BY <1>1 DEF Replace, Goto, IInv, TypeOK
  <2>2. Listed' = tmp[u]
    BY <2>1, ContentsAssumption DEF Listed
  <2>3. PICK entries \in {Listed, {}} : tmp[u] = Merged(entries, Entry(u))
    BY <2>1 DEF IInv, NothingForgotten
  <2>4. Entry(u) \in Entries
    BY <2>1, EntryType
  <2>5. Index!Publish(Entry(u)) \/ Index!Rebuild(Entry(u))
    BY <2>2, <2>3 DEF Index!Publish, Index!Rebuild, Merged
  <2>. QED  BY <2>4, <2>5 DEF Index!Next, Index!Entries, Entries
<1>2. ASSUME manifest' = manifest
      PROVE  Listed' = Listed
  BY <1>2 DEF Listed
<1>3. CASE \E u \in Workers, r \in Runners : BeginDump(u, r)
  BY <1>2, <1>3 DEF BeginDump
<1>4. ASSUME NEW u \in Workers, Publishing(u), ~Replace(u)
      PROVE  manifest' = manifest
  BY <1>4 DEF Publishing, PickleDone, OpenSidecar, SidecarDone, Lock, Read, WriteTmp, Unlock
<1>5. ASSUME NEW u \in Workers, Failing(u)
      PROVE  manifest' = manifest
  BY <1>5 DEF Failing, PickleFails, SidecarFails, ReadFails, UpsertFails, Crash
<1>6. CASE UNCHANGED vars
  BY <1>2, <1>6 DEF vars
<1>. QED  BY <1>1, <1>2, <1>3, <1>4, <1>5, <1>6 DEF Next

(* Locked read, merge and rename are one atomic publication each.          *)
THEOREM StoreImplementsIndex == Spec => ImplementsIndex
<1>1. Init => Index!Init
  BY DEF Init, Index!Init, Listed
<1>. QED  BY <1>1, IndexStep, Invariance, PTL DEF Spec, ImplementsIndex, Index!Spec

=============================================================================
