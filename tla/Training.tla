------------------------------- MODULE Training -------------------------------
(***************************************************************************)
(* How guessr's models come about: the notebooks of guessr/, which hand    *)
(* each other files.  pvs_convert prepares the drives of the dataset,      *)
(* pvs_points cuts them into labelled entries, one file each, and          *)
(* pvs_cart, pvs_forest, pvs_xgboost and pvs_const each select features,   *)
(* fit, save and score.  Their kernels run side by side, each from its     *)
(* first cell on, may be stopped anywhere and run again with other         *)
(* settings; guessr is given a directory model/ as it is at some moment.   *)
(*                                                                         *)
(* An entry is its place in its drive; a choice of features is what        *)
(* determines it: the entries read, how many features, which are excluded. *)
(***************************************************************************)
EXTENDS Naturals, Sequences, SequencesExt

CONSTANTS
  Samples,   \* for the drives of the dataset, the samples each is
             \*   interpolated to
  Window,    \* samples of a window
  Sizes,     \* values of k
  MaxRuns,   \* bound on the runs of the notebooks that train
  MaxCuts    \* bound on the runs of pvs_points

ASSUME SamplesAssumption == Samples \in Seq(Nat)
ASSUME WindowAssumption == Window \in Nat \ {0} /\ Window % 2 = 0
ASSUME BoundsAssumption == MaxRuns \in Nat /\ MaxCuts \in Nat /\ Sizes \subseteq Nat

Drives == DOMAIN Samples
Fitting == {"cart", "forest", "xgboost"}
Notebooks == Fitting \cup {"const"}
Exclusions == SUBSET {"speed"}
Slide == Window \div 2

VARIABLES
  converted,   \* for a drive, how far pvs_convert is
  entries,     \* pvs_points: the entries to write
  written,     \*   and how many it has written
  raw,         \* pvs-points/raw: for the number of a file, its entry
  cell,        \* for a notebook, what it has done last
  unread,      \*   the files it has listed and not read yet
  table,       \*   the entries whose features it has extracted
  chosen,      \*   its choice of features
  selections,  \* model/selected-features-*.json: for the name of a file, the
               \*   choice in it
  models,      \* model/*.pickle: for a notebook and a name, who fitted the
               \*   model and on which choice
  scores,      \* for a notebook that has scored, the model and the choice of
               \*   its test entries
  runs, cuts   \* number of runs so far

pointsVars == <<converted, entries, written, raw, cuts>>
kernelVars == <<cell, unread, table, chosen, runs>>
fileVars == <<selections, models, scores>>
vars == <<pointsVars, kernelVars, fileVars>>

NoFiles == [name \in {} |-> name]

(* The files after one is written, or written again.                       *)
Write(files, name, content) ==
  [x \in DOMAIN files \cup {name} |-> IF x = name THEN content ELSE files[x]]

-----------------------------------------------------------------------------
(* pvs_convert and pvs_points. *)

(* One position for every half window of samples, as interpolate has it.   *)
Positions(d) == (Samples[d] + Slide - 1) \div Slide

(* The entries of a drive: the positions, each with a label and a speed,   *)
(* while their windows end before the last sample.                         *)
EntriesOf(d) ==
  [i \in 1..Cardinality({p \in 1..Positions(d) : (p - 1) * Slide + Window < Samples[d]}) |->
     [drive |-> d, at |-> i]]

NoChoice == [of |-> NoFiles, k |-> 0, excluded |-> {}]

Init ==
  /\ converted = [d \in Drives |-> "recorded"]
  /\ entries = <<>> /\ written = 0
  /\ raw = NoFiles
  /\ cell = [n \in Notebooks |-> "none"]
  /\ unread = [n \in Notebooks |-> {}]
  /\ table = [n \in Notebooks |-> NoFiles]
  /\ chosen = [n \in Notebooks |-> NoChoice]
  /\ selections = NoFiles /\ models = NoFiles /\ scores = NoFiles
  /\ runs = 0 /\ cuts = 0

(* pvs_convert: the columns of a drive joined with its labels, and then    *)
(* its times and heights normalised into another file.                     *)
FilterInputCols(d) ==
  /\ converted[d] = "recorded"
  /\ converted' = [converted EXCEPT ![d] = "filtered"]
  /\ UNCHANGED <<entries, written, raw, cuts, kernelVars, fileVars>>

Normalize(d) ==
  /\ converted[d] = "filtered" /\ \A e \in Drives : converted[e] # "recorded"
  /\ converted' = [converted EXCEPT ![d] = "normalized"]
  /\ UNCHANGED <<entries, written, raw, cuts, kernelVars, fileVars>>

(* A run reads the drives from first to last, and raises unless all are    *)
(* normalized.                                                             *)
ReadDrives(first, last) ==
  /\ cuts < MaxCuts /\ cuts' = cuts + 1
  /\ \A d \in first..last : converted[d] = "normalized"
  /\ entries' = FlattenSeq([i \in 1..(last + 1 - first) |-> EntriesOf(first + i - 1)])
  /\ written' = 0
  /\ UNCHANGED <<converted, raw, kernelVars, fileVars>>

(* Files are numbered from the first; those of an earlier run with greater *)
(* numbers stay.                                                           *)
WriteEntry ==
  /\ written < Len(entries) /\ written' = written + 1
  /\ raw' = Write(raw, written', entries[written'])
  /\ UNCHANGED <<converted, entries, cuts, kernelVars, fileVars>>

-----------------------------------------------------------------------------
(* The notebooks that train, cell by cell. *)

Advance(n, before, after) ==
  cell[n] = before /\ cell' = [cell EXCEPT ![n] = after]

(* The names in the raw directory; a run starts here, also when the one    *)
(* before was stopped.                                                     *)
List(n) ==
  /\ runs < MaxRuns /\ runs' = runs + 1
  /\ DOMAIN raw # {}
  /\ cell' = [cell EXCEPT ![n] = "listed"]
  /\ unread' = [unread EXCEPT ![n] = DOMAIN raw]
  /\ table' = [table EXCEPT ![n] = NoFiles]
  /\ UNCHANGED <<chosen, pointsVars, fileVars>>

(* read_entry and extract_features of one of these files, which pvs_points *)
(* may have written again since.                                           *)
Extract(n) ==
  /\ cell[n] = "listed"
  /\ \E name \in unread[n] :
       /\ unread' = [unread EXCEPT ![n] = @ \ {name}]
       /\ table' = [table EXCEPT ![n] = Write(@, name, raw[name])]
  /\ cell' = [cell EXCEPT ![n] = IF unread'[n] = {} THEN "extracted" ELSE "listed"]
  /\ UNCHANGED <<chosen, runs, pointsVars, fileVars>>

NameByTable(k, excluded) == <<k, {}>>   \* a bug: the name has no postfix

(* What the names of files tell of a choice: -24-nospeed.                  *)
Name(k, excluded) == <<k, excluded>>

NameOf(choice) == Name(choice.k, choice.excluded)

(* The k features most correlated with the label, without the excluded.    *)
(* All notebooks write their choice to the same file.                      *)
Select(n, k, excluded) ==
  /\ Advance(n, "extracted", "selected")
  /\ chosen' = [chosen EXCEPT ![n] = [of |-> table[n], k |-> k, excluded |-> excluded]]
  /\ selections' = Write(selections, Name(k, excluded), chosen'[n])
  /\ UNCHANGED <<unread, table, runs, pointsVars, models, scores>>

(* Entries are shuffled and split; fit takes those that are not for tests. *)
Fit(n) ==
  /\ Advance(n, "selected", "fitted")
  /\ UNCHANGED <<unread, table, chosen, runs, pointsVars, fileVars>>

SaveAsCart(n) ==                        \* a bug: the file name of the copy
  /\ Advance(n, "fitted", "saved")
  /\ models' = Write(models, <<"cart", NameOf(chosen[n])>>, [by |-> n, on |-> chosen[n]])
  /\ UNCHANGED <<unread, table, chosen, runs, pointsVars, selections, scores>>

Save(n) ==
  /\ Advance(n, "fitted", "saved")
  /\ models' = Write(models, <<n, NameOf(chosen[n])>>, [by |-> n, on |-> chosen[n]])
  /\ UNCHANGED <<unread, table, chosen, runs, pointsVars, selections, scores>>

(* The saved model m of that name is read again and scored on the entries  *)
(* this notebook has split off; there may be none.                         *)
Evaluate(n, m) ==
  /\ Advance(n, "saved", "scored")
  /\ <<m, NameOf(chosen[n])>> \in DOMAIN models
  /\ scores' = Write(scores, n,
       [model |-> models[<<m, NameOf(chosen[n])>>], split |-> chosen[n]])
  /\ UNCHANGED <<unread, table, chosen, runs, pointsVars, selections, models>>

SelectAny(n) ==
  \E k \in Sizes, excluded \in Exclusions : Select(n, k, excluded)

CartPrepares == List("cart") \/ Extract("cart") \/ SelectAny("cart")
CartFits == Fit("cart") \/ Save("cart") \/ Evaluate("cart", "cart")

XgboostPrepares == List("xgboost") \/ Extract("xgboost") \/ SelectAny("xgboost")
XgboostFits == Fit("xgboost") \/ Save("xgboost") \/ Evaluate("xgboost", "xgboost")

(* The last cell of pvs_forest is the one of pvs_cart.                     *)
ForestPrepares == List("forest") \/ Extract("forest") \/ SelectAny("forest")
ForestFits == Fit("forest") \/ Save("forest") \/ Evaluate("forest", "cart")

(* pvs_const excludes nothing, and scores a constant.                      *)
ConstPrepares ==
  List("const") \/ Extract("const") \/ \E k \in Sizes : Select("const", k, {})

ConstScores ==
  /\ Advance("const", "selected", "scored")
  /\ UNCHANGED <<unread, table, chosen, runs, pointsVars, fileVars>>

Next ==
  \/ \E d \in Drives : FilterInputCols(d) \/ Normalize(d)
  \/ \E first, last \in Drives : first <= last /\ ReadDrives(first, last)
  \/ WriteEntry
  \/ CartPrepares \/ CartFits
  \/ XgboostPrepares \/ XgboostFits
  \/ ForestPrepares \/ ForestFits
  \/ ConstPrepares \/ ConstScores

Spec == Init /\ [][Next]_vars

-----------------------------------------------------------------------------
Cells == {"none", "listed", "extracted", "selected", "fitted", "saved", "scored"}

(* Every variable keeps its type, and the name of a file says what is in   *)
(* it.                                                                     *)
TypeOK ==
  /\ converted \in [Drives -> {"recorded", "filtered", "normalized"}]
  /\ written \in 0..Len(entries)
  /\ cell \in [Notebooks -> Cells]
  /\ \A n \in Notebooks : cell[n] # "listed" <=> unread[n] = {}
  /\ DOMAIN selections \subseteq Sizes \X Exclusions
  /\ \A name \in DOMAIN selections : NameOf(selections[name]) = name
  /\ DOMAIN models \subseteq Fitting \X (Sizes \X Exclusions)
  /\ \A file \in DOMAIN models : NameOf(models[file].on) = file[2]
  /\ DOMAIN scores \subseteq Fitting
  /\ runs \in 0..MaxRuns /\ cuts \in 0..MaxCuts

(* A model and the selection of the same name, which the environment gives *)
(* guessr as two files, fit whenever the directory is copied into its      *)
(* image: the selection exists and has as many features as the model was   *)
(* fitted on, the same ones unless another notebook has meanwhile selected *)
(* from other entries.                                                     *)
SelectionFits ==
  \A file \in DOMAIN models :
    LET model == models[file].on
        selection == selections[file[2]]
    IN /\ file[2] \in DOMAIN selections /\ selection.k = model.k
       /\ selection.of = model.of => selection = model

(* pvs_cart and pvs_xgboost score the model that the very run has fitted,  *)
(* and on entries split off from what it was fitted on, whatever the other *)
(* notebooks save meanwhile.                                               *)
ScoresOfOwnModel ==
  \A n \in {"cart", "xgboost"} \cap DOMAIN scores :
    scores[n].model.by = n /\ scores[n].model.on = scores[n].split
=============================================================================
