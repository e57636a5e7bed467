--------------------------- MODULE ConfirmationStudy ---------------------------
(***************************************************************************)
(* Review workspaces and their shared registry: save_label and             *)
(* import_labels of src/whynote/two_stage_review_ui.py, search, freeze and *)
(* confirm of two_stage_research.py over two_stage_confirmation.py, with   *)
(* the reconciliation of labels in two_stage_review.py.                    *)
(*                                                                         *)
(* A workspace is sampled once into calibration targets and a confirmation *)
(* population.  Reviewers lock opinions into files; a policy is searched on*)
(* the calibration labels, the population is frozen with it, and only then *)
(* is it labelled and analysed, once.  Files are created and completed in  *)
(* steps of which a crash may undo none.  Labels are complete, blind and   *)
(* attested; a draft, which may change freely, is not modelled.            *)
(***************************************************************************)
EXTENDS Naturals, FiniteSets

CONSTANTS Workspaces, Units, Reviewers, Verdicts, Desks,
          Samples,     \* workspace -> what it calibrates on and what it confirms
          MaxReviews, MaxDeaths, Absent, Broken

Partition == [calibration : SUBSET Units, confirmation : (SUBSET Units) \ {{}}]

\* sample_manifest gives every group one partition; a population is never empty.
ASSUME StudyAssumption ==
  /\ Samples \subseteq [Workspaces -> Partition]
  /\ \A s \in Samples, w \in Workspaces : s[w].calibration \cap s[w].confirmation = {}
  /\ Absent \notin Workspaces \cup Verdicts /\ Broken \notin Verdicts \cup {Absent}

VARIABLES
  sample,    \* the partition of each workspace, fixed when it was prepared
  opinions,  \* locked label files: <<workspace, unit, reviewer>> -> verdict
  receipts,  \* the label files that have their receipt
  searched,  \* workspaces with a search result that selects a policy
  usedBy,    \* the registry's units: unit -> the workspace of its study
  studies,   \* the registry's studies: "none", "frozen" or "consumed"
  frozen,    \* confirmation.freeze.json: "none", "torn" or "written"
  analysed,  \* how often the population of a workspace was analysed
  results,   \* workspace -> Absent or the outcome of its confirmation
  desk,      \* process -> the command it is carrying out
  deaths

studyVars == <<sample, opinions, receipts, searched, usedBy, studies, frozen,
               analysed, results, desk, deaths>>
registry == <<usedBy, studies>>
outcome == <<analysed, results>>

Files == Workspaces \X Units \X Reviewers
FilesOf(w) == {f \in Files : f[1] = w}
Free == [op |-> "none", ws |-> Absent, todo |-> {}, file |-> Absent, result |-> Absent]

StudyInit ==
  /\ sample \in Samples
  /\ opinions = [f \in Files |-> Absent] /\ receipts = {}
  /\ searched = {}
  /\ usedBy = [u \in Units |-> Absent] /\ studies = [w \in Workspaces |-> "none"]
  /\ frozen = [w \in Workspaces |-> "none"]
  /\ analysed = [w \in Workspaces |-> 0] /\ results = [w \in Workspaces |-> Absent]
  /\ desk = [p \in Desks |-> Free] /\ deaths = 0

Sit(p, op, w) == desk' = [desk EXCEPT ![p] = [Free EXCEPT !.op = op, !.ws = w]]
Leave(p) == desk' = [desk EXCEPT ![p] = Free]
Doing(p, op) == desk[p].op = op

-----------------------------------------------------------------------------
(* Reviewing *)

\* Mutant: any selected case is shown.
CaseAnytime(w, u) == u \in sample[w].calibration \cup sample[w].confirmation

\* A case is shown, and its label accepted, unless it waits for the freeze.
Case(w, u) ==
  \/ u \in sample[w].calibration
  \/ u \in sample[w].confirmation /\ frozen[w] # "none"

Written == {f \in Files : opinions[f] # Absent}

\* Every locked label of a workspace can be read against its receipt.
Legible(w) ==
  \A f \in FilesOf(w) \cap Written : f \in receipts /\ opinions[f] # Broken

\* One opinion is to be locked, or several imported; each is checked first.
Review(p, w, labels) ==
  /\ Doing(p, "none") /\ Cardinality(Written) + Cardinality(labels) <= MaxReviews
  /\ \A l \in labels : Case(w, l.file[2]) /\ opinions[l.file] = Absent
  /\ desk' = [desk EXCEPT ![p] = [Free EXCEPT !.op = "label", !.ws = w, !.todo = labels]]
  /\ UNCHANGED <<sample, opinions, receipts, searched, registry, frozen, outcome, deaths>>

\* The file is created exclusively.
Lock(p, l) ==
  /\ Doing(p, "label") /\ l \in desk[p].todo /\ opinions[l.file] = Absent
  /\ opinions' = [opinions EXCEPT ![l.file] = l.verdict]
  /\ desk' = [desk EXCEPT ![p].op = "receipt", ![p].file = l.file, ![p].todo = @ \ {l}]
  /\ UNCHANGED <<sample, receipts, searched, registry, frozen, outcome, deaths>>

\* The other labels of the import, if any.
Continue(p, todo) ==
  desk' = [desk EXCEPT ![p] = IF todo = {} THEN Free
                              ELSE [@ EXCEPT !.op = "label", !.todo = todo, !.file = Absent]]

Receipt(p) ==
  /\ Doing(p, "receipt")
  /\ receipts' = receipts \cup {desk[p].file}
  /\ Continue(p, desk[p].todo)
  /\ UNCHANGED <<sample, opinions, searched, registry, frozen, outcome, deaths>>

\* Another process has locked this opinion since: a single one is refused, an import
\* passes over it.
Forestalled(p, l) ==
  /\ Doing(p, "label") /\ l \in desk[p].todo /\ opinions[l.file] # Absent
  /\ Continue(p, desk[p].todo \ {l})
  /\ UNCHANGED <<sample, opinions, receipts, searched, registry, frozen, outcome, deaths>>

-----------------------------------------------------------------------------
(* What the labels of a target come to *)

Opinions(w, u) == {r \in Reviewers : opinions[<<w, u, r>>] \in Verdicts}
Agreed(w, u) ==
  \A r, s \in Opinions(w, u) : opinions[<<w, u, r>>] = opinions[<<w, u, s>>]

\* reconcile_labels with formal: two independent reviewers without a conflict.
Settled(w, u) == Cardinality(Opinions(w, u)) >= 2 /\ Agreed(w, u)

-----------------------------------------------------------------------------
(* Search, freeze and confirm *)

\* The calibration labels are read, and none of their units is in a study.
Search(p, w) ==
  /\ Doing(p, "none") /\ Legible(w)
  /\ \E f \in FilesOf(w) \cap Written : f[2] \in sample[w].calibration
  /\ \A u \in sample[w].calibration : usedBy[u] = Absent
  /\ Sit(p, "search", w)
  /\ UNCHANGED <<sample, opinions, receipts, searched, registry, frozen, outcome, deaths>>

SaveSearch(p) ==
  /\ Doing(p, "search")
  /\ searched' = searched \cup {desk[p].ws}
  /\ Leave(p)
  /\ UNCHANGED <<sample, opinions, receipts, registry, frozen, outcome, deaths>>

\* The checks of freeze: a policy, no label of the population, no earlier freeze.
Freeze(p, w) ==
  /\ Doing(p, "none") /\ w \in searched /\ frozen[w] = "none"
  /\ \A f \in FilesOf(w) \cap Written : f[2] \notin sample[w].confirmation
  /\ Sit(p, "freeze", w)
  /\ UNCHANGED <<sample, opinions, receipts, searched, registry, frozen, outcome, deaths>>

\* Mutant: the units of other studies are not looked up.
RegisterAnyUnits(p) ==
  LET w == desk[p].ws IN
  /\ Doing(p, "freeze") /\ studies[w] = "none"
  /\ usedBy' = [u \in Units |-> IF u \in sample[w].confirmation THEN w ELSE usedBy[u]]
  /\ studies' = [studies EXCEPT ![w] = "frozen"]
  /\ desk' = [desk EXCEPT ![p].op = "save"]
  /\ UNCHANGED <<sample, opinions, receipts, searched, frozen, outcome, deaths>>

\* ConfirmationRegistry.freeze: one transaction, every unit new.
Register(p) ==
  LET w == desk[p].ws IN
  /\ Doing(p, "freeze")
  /\ \/ /\ \A u \in sample[w].confirmation : usedBy[u] = Absent
        /\ usedBy' = [u \in Units |-> IF u \in sample[w].confirmation THEN w ELSE usedBy[u]]
        /\ studies' = [studies EXCEPT ![w] = "frozen"]
        /\ desk' = [desk EXCEPT ![p].op = "save"]
     \/ /\ \E u \in sample[w].confirmation : usedBy[u] # Absent
        /\ Leave(p) /\ UNCHANGED registry
  /\ UNCHANGED <<sample, opinions, receipts, searched, frozen, outcome, deaths>>

SaveFreeze(p) ==
  /\ Doing(p, "save")
  /\ frozen' = [frozen EXCEPT ![desk[p].ws] = "written"]
  /\ Leave(p)
  /\ UNCHANGED <<sample, opinions, receipts, searched, registry, outcome, deaths>>

\* confirm reads the freeze file and the labels; the statistics may fail on any.
Confirm(p, w, r) ==
  /\ Doing(p, "none") /\ frozen[w] = "written" /\ Legible(w)
  /\ r = "pass" => \A u \in sample[w].confirmation : Settled(w, u)
  /\ desk' = [desk EXCEPT ![p] = [Free EXCEPT !.op = "confirm", !.ws = w, !.result = r]]
  /\ UNCHANGED <<sample, opinions, receipts, searched, registry, frozen, outcome, deaths>>

\* ConfirmationRegistry.consume: a frozen study is consumed before it is analysed.
Consume(p) ==
  LET w == desk[p].ws IN
  /\ Doing(p, "confirm")
  /\ \/ /\ studies[w] = "frozen"
        /\ studies' = [studies EXCEPT ![w] = "consumed"]
        /\ desk' = [desk EXCEPT ![p].op = "evaluate"]
     \/ /\ studies[w] # "frozen"
        /\ Leave(p) /\ UNCHANGED studies
  /\ UNCHANGED <<sample, opinions, receipts, searched, usedBy, frozen, outcome, deaths>>

Evaluate(p) ==
  LET w == desk[p].ws IN
  /\ Doing(p, "evaluate")
  /\ analysed' = [analysed EXCEPT ![w] = @ + 1]
  /\ results' = [results EXCEPT ![w] = desk[p].result]
  /\ Leave(p)
  /\ UNCHANGED <<sample, opinions, receipts, searched, registry, frozen, deaths>>

-----------------------------------------------------------------------------

\* A process dies: a file it was creating may be left in part.
Die(p) ==
  /\ desk[p] # Free /\ deaths < MaxDeaths /\ deaths' = deaths + 1
  /\ \/ UNCHANGED <<opinions, frozen>>
     \/ /\ Doing(p, "label")
        /\ \E l \in desk[p].todo :
             opinions[l.file] = Absent /\ opinions' = [opinions EXCEPT ![l.file] = Broken]
        /\ UNCHANGED frozen
     \/ /\ Doing(p, "save")
        /\ frozen' = [frozen EXCEPT ![desk[p].ws] = "torn"]
        /\ UNCHANGED opinions
  /\ Leave(p)
  /\ UNCHANGED <<sample, receipts, searched, registry, outcome>>

Labels(w) == [file : FilesOf(w), verdict : Verdicts]

Desk(p) ==
  \/ \E l \in desk[p].todo : Lock(p, l) \/ Forestalled(p, l)
  \/ Receipt(p) \/ SaveSearch(p) \/ Register(p) \/ SaveFreeze(p)
  \/ Consume(p) \/ Evaluate(p) \/ Die(p)
  \/ \E w \in Workspaces :
       \/ Search(p, w) \/ Freeze(p, w)
       \/ \E r \in {"pass", "insufficient"} : Confirm(p, w, r)
       \/ \E l, m \in Labels(w) :
            /\ l.file = m.file => l = m
            /\ l.file[3] = m.file[3]
            /\ Review(p, w, {l, m})

StudyNext == \E p \in Desks : Desk(p)

StudySpec == StudyInit /\ [][StudyNext]_studyVars

-----------------------------------------------------------------------------
(* Properties *)

\* A unit is confirmed in one study only, and a population is analysed at most once,
\* whichever workspaces, processes and crashes take part.
StudiedOnce ==
  /\ \A u \in Units, v, w \in Workspaces :
       /\ u \in sample[v].confirmation /\ u \in sample[w].confirmation
       /\ studies[v] # "none" /\ studies[w] # "none"
       => v = w
  /\ \A w \in Workspaces : analysed[w] <= 1

\* A target of the population has a label only once its study is in the registry: the
\* policy was fixed before anybody was asked.
LabelsFollowFreeze ==
  \A f \in Written :
    f[2] \in sample[f[1]].confirmation => studies[f[1]] # "none"

=============================================================================
