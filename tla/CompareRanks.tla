---------------------------- MODULE CompareRanks ----------------------------
(***************************************************************************)
(* Reading an artifact directory that processes still write to             *)
(* (analyzer.py, _run_compare_ranks and _run_artifact_dir).                *)
(*                                                                         *)
(* compare-ranks checks that every listed artifact is there, analyses them *)
(* one after the other, optionally saves the high-water marks as a         *)
(* baseline and compares them with an earlier one.  Without it, the        *)
(* artifacts of one rank are analysed.  Meanwhile captures of old and of   *)
(* new processes go on being dumped, and files vanish or are half written. *)
(*                                                                         *)
(* A variant stands for (runner, shape, stream, segment, pool), bytes for  *)
(* what the pool's segments hold at the window's peak.                     *)
(***************************************************************************)
EXTENDS Naturals, SequencesExt

CONSTANTS
    Stems,       \* records [rank, runner, pid]: the artifacts that can be dumped
    Contents,    \* what a dump can contain: sequences of [variant, bytes]
    Thresholds,  \* regression thresholds, as <<numerator, denominator>>
    Baselines,   \* what the baseline file can be before the first command
    NoBaseline,  \* no such file or option, or a file that is no baseline
    MaxOperations   \* bound: dumps and commands together

ASSUME StemsAssumption == \A s \in Stems : s.rank \in Nat /\ s.runner \in Nat
ASSUME ContentsAssumption ==
    \A w \in Contents : w \in Seq(Range(w)) /\ \A i \in DOMAIN w : w[i].bytes \in Nat
ASSUME ThresholdsAssumption ==
    \A t \in Thresholds : t[1] \in Nat /\ t[2] \in Nat /\ t[1] < t[2]
ASSUME BaselinesAssumption ==
    \A b \in Baselines \ {NoBaseline} : \A k \in DOMAIN b : b[k] \in Nat

Ranks    == {s.rank : s \in Stems}
Variants == UNION {{w[i].variant : i \in DOMAIN w} : w \in Contents}

(* Both files of an artifact are there, or one is missing or damaged.      *)
FileStates == {"good", "missing", "bad"}

Commands ==
    [mode : {"compare"}, load : Thresholds \cup {NoBaseline}, save : BOOLEAN]
        \cup [mode : {"select"}, rank : Ranks]

VARIABLES
    manifest,   \* the stems listed, in the order of the file
    content,    \* per stem: the windows of its last dump
    files,      \* per stem: the state of its files
    baseline,   \* baseline file: bytes per key, or NoBaseline
    report,     \* cross_rank_comparison.json: the rows per rank
    pc, cmd,    \* the step the command is at, and its arguments
    arts, at,   \* the artifacts it has resolved, and the one it looks at
    base,       \* the baseline it has loaded
    rows,       \* by_rank: per rank, bytes per variant
    exit        \* its exit code, or the first error of a selection so far

VARIABLES       \* auxiliary
    dumps, dumped,  \* number of dumps, and per stem that of its last one
    commands,       \* number of commands begun
    seen,           \* stems the command has analysed
    before,         \* baseline and report when the command began
    disturbed,      \* something was dumped since the command began
    drifted         \* something was dumped since the saved baseline's run began

directory == <<manifest, content, files, dumps, dumped>>
outputs   == <<baseline, report>>
progress  == <<arts, at, base, rows, seen>>
vars == <<directory, outputs, progress, pc, cmd, exit, commands, before, disturbed, drifted>>

NoRows == [r \in Ranks |-> << >>]

Init ==
    /\ manifest = <<>> /\ content = [s \in Stems |-> <<>>]
    /\ files = [s \in Stems |-> "good"]
    /\ dumps = 0 /\ dumped = [s \in Stems |-> 0]
    /\ baseline \in Baselines /\ report = NoRows
    /\ pc = "idle" /\ exit = 0 /\ commands = 0
    /\ cmd = [mode |-> "select", rank |-> 0]
    /\ arts = <<>> /\ at = 1 /\ base = NoBaseline /\ rows = NoRows /\ seen = {}
    /\ before = outputs /\ disturbed = FALSE /\ drifted = TRUE

(***************************************************************************)
(* The directory.                                                          *)
(***************************************************************************)

Position(list, s) == CHOOSE i \in DOMAIN list : list[i] = s

(* The elements of a set, sorted.                                          *)
Sorted(S, Before(_, _)) ==
    CHOOSE f \in [1 .. Cardinality(S) -> S] :
        \A i, j \in DOMAIN f : i < j => Before(f[i], f[j])

(* Those of a list without repetitions that are in a set, in its order.    *)
Those(list, S) == Sorted(S, LAMBDA s, t : Position(list, s) < Position(list, t))

(* A stem that is listed again moves to the end.                           *)
UpsertedInPlace(list, s) == IF s \in Range(list) THEN list ELSE Append(list, s)
Upserted(list, s) == Append(Those(list, Range(list) \ {s}), s)

Dump(s) ==
    /\ dumps + commands < MaxOperations
    /\ dumps' = dumps + 1
    /\ dumped' = [dumped EXCEPT ![s] = dumps + 1]
    /\ \E ws \in Contents : content' = [content EXCEPT ![s] = ws]
    /\ files' = [files EXCEPT ![s] = "good"]
    /\ manifest' = Upserted(manifest, s)
    /\ disturbed' = TRUE /\ drifted' = TRUE
    /\ UNCHANGED <<outputs, progress, pc, cmd, exit, commands, before>>

(* A file of a listed artifact is removed, damaged, or being rewritten.    *)
Spoil(s) ==
    /\ s \in Range(manifest)
    /\ \A t \in Stems : files[t] = "good"
    /\ \E f \in FileStates \ {"good"} : files' = [files EXCEPT ![s] = f]
    /\ UNCHANGED <<manifest, content, dumps, dumped, outputs, progress, pc, cmd, exit,
                   commands, before, disturbed, drifted>>

(***************************************************************************)
(* compare-ranks.                                                          *)
(***************************************************************************)

(* By rank, then by runner, and in the order of the file among equals.     *)
Ordered(list) ==
    Sorted(Range(list), LAMBDA s, t :
        \/ s.rank < t.rank
        \/ s.rank = t.rank /\ s.runner < t.runner
        \/ s.rank = t.rank /\ s.runner = t.runner /\ Position(list, s) < Position(list, t))

Exit(code) == pc' = "idle" /\ exit' = code /\ base' = NoBaseline /\ rows' = NoRows
GoTo(step) == pc' = step /\ UNCHANGED <<exit, base, rows>>

Chosen(c) ==
    IF c.mode = "compare" THEN Ordered(manifest)
                          ELSE Those(manifest, {s \in Range(manifest) : s.rank = c.rank})

FirstStep(c) == IF c.mode = "compare" THEN "preflight" ELSE "select"

Begin(c) ==
    /\ pc = "idle" /\ dumps + commands < MaxOperations
    /\ commands' = commands + 1
    /\ cmd' = c
    /\ arts' = Chosen(c) /\ at' = 1 /\ seen' = {}
    /\ before' = outputs /\ disturbed' = FALSE
    /\ pc' = IF Chosen(c) = <<>> THEN "idle" ELSE FirstStep(c)
    /\ exit' = IF Chosen(c) = <<>> THEN 2 ELSE 0
    /\ UNCHANGED <<directory, outputs, base, rows, drifted>>

Preflight ==
    /\ pc = "preflight" /\ at <= Len(arts)
    /\ IF files[arts[at]] = "missing" THEN Exit(2) /\ UNCHANGED at
                                       ELSE at' = at + 1 /\ GoTo(pc)
    /\ UNCHANGED <<directory, outputs, arts, seen, cmd, commands, before, disturbed, drifted>>

Loads == cmd.load # NoBaseline

(* Rank 0 must be there, and the baseline to load must be one.             *)
InputsValid ==
    /\ \E i \in DOMAIN arts : arts[i].rank = 0
    /\ Loads => baseline # NoBaseline

CheckInputs ==
    /\ pc = "preflight" /\ at > Len(arts)
    /\ IF InputsValid
       THEN /\ pc' = "analyze" /\ at' = 1
            /\ base' = IF Loads THEN baseline ELSE NoBaseline
            /\ UNCHANGED <<exit, rows>>
       ELSE Exit(2) /\ UNCHANGED at
    /\ UNCHANGED <<directory, outputs, arts, seen, cmd, commands, before, disturbed, drifted>>

(* The last window with a variant has its row.                              *)
HighWaterRows(ws) ==
    [v \in {ws[i].variant : i \in DOMAIN ws} |->
        ws[CHOOSE i \in DOMAIN ws : /\ ws[i].variant = v
                                    /\ \A j \in DOMAIN ws : ws[j].variant = v => j <= i].bytes]

(* dict.update.                                                            *)
Merged(new, old) ==
    [v \in DOMAIN new \cup DOMAIN old |-> IF v \in DOMAIN new THEN new[v] ELSE old[v]]

(* An artifact that cannot be analysed ends the command with 3; a pickle   *)
(* that is none, or has gone since the preflight, raises an exception      *)
(* nobody handles.                                                         *)
AfterFailureBreak(code) == GoTo("save")
AfterFailure(code) == Exit(code)

AnalyzePickle ==
    /\ pc = "analyze"
    /\ LET s == arts[at]
       IN  \/ /\ files[s] = "good"
              /\ rows' = [rows EXCEPT ![s.rank] = Merged(HighWaterRows(content[s]), @)]
              /\ seen' = seen \cup {s}
              /\ at' = at + 1
              /\ pc' = IF at = Len(arts) THEN "save" ELSE pc
              /\ UNCHANGED <<exit, base>>
           \/ /\ files[s] # "good"
              /\ \E code \in {1, 3} : AfterFailure(code)
              /\ UNCHANGED <<at, seen>>
    /\ UNCHANGED <<directory, outputs, arts, cmd, commands, before, disturbed, drifted>>

BaselineKeyAnyRank(r, v) == <<0, v>>
BaselineKey(r, v) == <<r, v>>

(* The keys of the baseline have their rank in them.                       *)
RowIds == {p \in Ranks \X Variants : p[2] \in DOMAIN rows[p[1]]}
BaselineRows ==
    [k \in {BaselineKey(p[1], p[2]) : p \in RowIds} |->
        LET p == CHOOSE q \in RowIds : BaselineKey(q[1], q[2]) = k IN rows[p[1]][p[2]]]

SaveBaseline ==
    /\ pc = "save"
    /\ pc' = "write"
    /\ IF cmd.save THEN baseline' = BaselineRows /\ drifted' = disturbed
                   ELSE UNCHANGED <<baseline, drifted>>
    /\ UNCHANGED <<directory, report, progress, cmd, exit, commands, before, disturbed>>

(* (new - old) / old > threshold; a baseline of zero counts as a fraction  *)
(* of one.                                                                 *)
ExceedsUsed(new, old, t) == old > 0 /\ new > old /\ (new - old) * t[2] > old * t[1]
Exceeds(new, old, t) ==
    IF old = 0 THEN new > 0 /\ t[2] > t[1]
               ELSE new > old /\ (new - old) * t[2] > old * t[1]

Regressions ==
    {p \in RowIds : LET k == BaselineKey(p[1], p[2])
                    IN  /\ k \in DOMAIN base
                        /\ Exceeds(rows[p[1]][p[2]], base[k], cmd.load)}

WriteReport ==
    /\ pc = "write"
    /\ report' = rows
    /\ Exit(IF Loads /\ Regressions # {} THEN 4 ELSE 0)
    /\ UNCHANGED <<directory, baseline, arts, at, seen, cmd, commands, before, disturbed, drifted>>

(***************************************************************************)
(* The artifacts of one rank.                                              *)
(***************************************************************************)

FirstError(code) == IF exit = 0 THEN code ELSE exit

MissingSkipped(s) == IF files[s] = "missing" THEN 0 ELSE 3
ErrorOf(s) == IF files[s] = "missing" THEN 2 ELSE 3

RunOne ==
    /\ pc = "select" /\ at <= Len(arts)
    /\ LET s == arts[at]
       IN  \/ /\ files[s] = "good"
              /\ seen' = seen \cup {s} /\ at' = at + 1
              /\ GoTo(pc)
           \/ /\ files[s] # "good"
              /\ exit' = FirstError(ErrorOf(s)) /\ at' = at + 1
              /\ UNCHANGED <<pc, base, rows, seen>>
           \/ /\ files[s] = "bad"     \* not a pickle at all
              /\ Exit(1) /\ UNCHANGED <<at, seen>>
    /\ UNCHANGED <<directory, outputs, arts, cmd, commands, before, disturbed, drifted>>

EndSelection ==
    /\ pc = "select" /\ at > Len(arts)
    /\ Exit(IF seen = {} THEN FirstError(2) ELSE exit)
    /\ UNCHANGED <<directory, outputs, arts, at, seen, cmd, commands, before, disturbed, drifted>>

Next ==
    \/ \E s \in Stems : Dump(s) \/ Spoil(s)
    \/ \E c \in Commands : Begin(c)
    \/ Preflight \/ CheckInputs \/ AnalyzePickle \/ SaveBaseline \/ WriteReport
    \/ RunOne \/ EndSelection

Spec == Init /\ [][Next]_vars

(***************************************************************************)
(* Properties.                                                             *)
(***************************************************************************)

Ended(mode) == pc = "idle" /\ commands > 0 /\ cmd.mode = mode

(* compare-ranks is all or nothing (README.md:181): if it fails for want   *)
(* of an input, however late it notices, neither file is touched; if it    *)
(* ends, every artifact it had found listed has been analysed.             *)
AllOrNothing ==
    Ended("compare") =>
        IF exit \in {0, 4} THEN seen = Range(arts) /\ arts # <<>> ELSE outputs = before

VariantsIn(ws) == {ws[i].variant : i \in DOMAIN ws}
LastIn(ws, v)  == ws[Max({i \in DOMAIN ws : ws[i].variant = v})]

(* In a directory nothing is dumped into meanwhile, a rank has a row for   *)
(* each variant of its own artifacts and no other; if only one runner has  *)
(* the variant, the row is that of the newest dump with it, although a     *)
(* dead process of the rank may be listed too (shim.py:342 appends what    *)
(* analyzer.py:2441 sorts and 2484 merges).                                *)
RowsOfNewestDump ==
    (Ended("compare") /\ exit \in {0, 4} /\ ~disturbed) =>
        \A r \in Ranks :
            LET mine == {s \in Range(manifest) : s.rank = r}
            IN  /\ DOMAIN report[r] = UNION {VariantsIn(content[s]) : s \in mine}
                /\ \A s \in mine : \A v \in VariantsIn(content[s]) :
                        (\A t \in mine \ {s} : v \in VariantsIn(content[t]) =>
                            t.runner = s.runner /\ dumped[t] < dumped[s])
                        => report[r][v] = LastIn(content[s], v).bytes

(* The code 4 says that a reported row exceeds the baseline as it was      *)
(* before the command, even if the command replaces that very file, by     *)
(* more than the threshold; and it says so of every such row (README.md:   *)
(* 182).  Thresholds are below 1: see Exceeds.                             *)
RegressionsReported ==
    (Ended("compare") /\ exit \in {0, 4} /\ Loads) =>
        LET old == before[1]
            t   == cmd.load
        IN  (exit = 4) <=>
                \E r \in Ranks : \E v \in DOMAIN report[r] :
                    /\ <<r, v>> \in DOMAIN old
                    /\ report[r][v] * t[2] > old[<<r, v>>] * (t[2] + t[1])

(* A baseline saved from the artifacts that are still there finds no       *)
(* regression, whatever the threshold and however many dumps share a       *)
(* variant.                                                                *)
UnchangedIsNoRegression ==
    (Ended("compare") /\ exit = 4) => drifted \/ before[1] # baseline

(* Selecting a rank succeeds only if each of its artifacts, at least one,  *)
(* and nothing of another rank was analysed (analyzer.py:2274).            *)
SelectionNeverSilent ==
    (Ended("select") /\ exit = 0) =>
        /\ seen = Range(arts) /\ seen # {}
        /\ \A s \in seen : s.rank = cmd.rank

(***************************************************************************)
(* Why they hold: the invariant that is inductive.                         *)
(***************************************************************************)

(* The manifest lists stems in the order of their last dumps.              *)
DirectoryOK ==
    /\ dumps \in Nat /\ dumped \in [Stems -> 0 .. dumps]
    /\ manifest \in Seq(Stems)
    /\ \A i, j \in DOMAIN manifest : i < j => dumped[manifest[i]] < dumped[manifest[j]]
    /\ content \in [Stems -> Contents \cup {<<>>}]

(* The rows rs are those of the first n artifacts of list, of contents cs:  *)
(* each variant has the last row of the last artifact of the rank with it. *)
Rebuilt(rs, cs, list, n) ==
    \A r \in Ranks :
        /\ DOMAIN rs[r] = UNION {VariantsIn(cs[list[i]]) : i \in {j \in 1 .. n : list[j].rank = r}}
        /\ \A i \in 1 .. n : \A v \in VariantsIn(cs[list[i]]) :
                /\ list[i].rank = r
                /\ \A j \in i + 1 .. n : list[j].rank = r => v \notin VariantsIn(cs[list[j]])
                => rs[r][v] = LastIn(cs[list[i]], v).bytes

HasBytes(b) == b = NoBaseline \/ \A k \in DOMAIN b : b[k] \in Nat

RowsIn(b) ==
    [r \in Ranks |-> [v \in {u \in Variants : <<r, u>> \in DOMAIN b} |-> b[<<r, v>>]]]

(* A baseline not drifted from has the rows a comparison would find now.   *)
BaselineOK ==
    /\ HasBytes(baseline) /\ HasBytes(before[1])
    /\ disturbed => drifted
    /\ ~drifted => Rebuilt(RowsIn(baseline), content, Ordered(manifest), Len(Ordered(manifest)))

Done == CASE pc = "analyze" -> at - 1 [] pc \in {"save", "write"} -> Len(arts) [] OTHER -> 0

ComparisonOK ==
    pc \in {"preflight", "analyze", "save", "write"} =>
        /\ cmd.mode = "compare" /\ arts # <<>>
        /\ ~disturbed => arts = Ordered(manifest) /\ Rebuilt(rows, content, arts, Done)
        /\ IF pc = "write" THEN report = before[2] ELSE outputs = before
        /\ seen = {arts[i] : i \in 1 .. Done}
        /\ IF pc = "preflight" THEN at \in Nat \ {0}
                               ELSE base = IF Loads THEN before[1] ELSE NoBaseline
        /\ pc = "analyze" => at \in DOMAIN arts
        /\ pc # "preflight" /\ Loads => before[1] # NoBaseline

SelectionOK ==
    pc = "select" =>
        /\ cmd.mode = "select" /\ arts # <<>> /\ at \in 1 .. Len(arts) + 1
        /\ \A i \in DOMAIN arts : arts[i].rank = cmd.rank
        /\ seen \subseteq {arts[i] : i \in 1 .. at - 1}
        /\ exit = 0 => seen = {arts[i] : i \in 1 .. at - 1}

CommandOK ==
    /\ pc \in {"idle", "preflight", "analyze", "save", "write", "select"}
    /\ commands \in Nat /\ (pc # "idle" => commands > 0) /\ (commands > 0 => cmd \in Commands)
    /\ arts \in Seq(Stems) /\ exit \in Nat
    /\ pc \in {"idle", "preflight", "select"} => base = NoBaseline /\ rows = NoRows
    /\ rows = [r \in Ranks |-> rows[r]]
    /\ \A r \in Ranks : DOMAIN rows[r] \subseteq Variants /\ \A v \in DOMAIN rows[r] : rows[r][v] \in Nat

IInv ==
    /\ DirectoryOK /\ CommandOK /\ BaselineOK /\ ComparisonOK /\ SelectionOK
    /\ AllOrNothing /\ RowsOfNewestDump /\ RegressionsReported /\ UnchangedIsNoRegression
    /\ SelectionNeverSilent
=============================================================================
