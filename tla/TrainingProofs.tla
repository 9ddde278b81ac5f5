---------------------------- MODULE TrainingProofs ----------------------------
(***************************************************************************)
(* Whatever the drives, sizes and number of runs, and however the kernels  *)
(* interleave: a model fits the selection of its name, and two notebooks   *)
(* score what they have fitted.                                            *)
(*                                                                         *)
(* SelectionFits says nothing of a model that is not saved yet.  The       *)
(* invariant therefore follows a choice from Select to Save: its file      *)
(* exists from Select on, though its content may be replaced, and the name *)
(* of every file is the name of the choice in it.                          *)
(***************************************************************************)
EXTENDS Training, TLAPS

Names == Sizes \X Exclusions

IsChoice(c) ==
  /\ c = [of |-> c.of, k |-> c.k, excluded |-> c.excluded]
  /\ c.k \in Sizes /\ c.excluded \in Exclusions

SelectionsOK ==
  \A name \in DOMAIN selections :
    IsChoice(selections[name]) /\ NameOf(selections[name]) = name

ModelsOK ==
  \A file \in DOMAIN models :
    /\ IsChoice(models[file].on) /\ NameOf(models[file].on) = file[2]
    /\ file[2] \in DOMAIN selections

HasChosen(n) == cell[n] \in {"selected", "fitted", "saved", "scored"}

KernelsOK ==
  /\ cell \in [Notebooks -> Cells] /\ DOMAIN chosen = Notebooks
  /\ \A n \in Notebooks : HasChosen(n) =>
       IsChoice(chosen[n]) /\ NameOf(chosen[n]) \in DOMAIN selections

SavedOK ==
  \A n \in {"cart", "xgboost"} : cell[n] \in {"saved", "scored"} =>
    /\ <<n, NameOf(chosen[n])>> \in DOMAIN models
    /\ models[<<n, NameOf(chosen[n])>>] = [by |-> n, on |-> chosen[n]]

IInv == SelectionsOK /\ ModelsOK /\ KernelsOK /\ SavedOK /\ ScoresOfOwnModel

-----------------------------------------------------------------------------
(* A choice is made of its name and the entries it is of.                  *)
LEMMA ChoiceOfName ==
  ASSUME NEW c, NEW d, IsChoice(c), IsChoice(d), NameOf(c) = NameOf(d)
  PROVE  c.k = d.k /\ (c.of = d.of => c = d)
  BY DEF IsChoice, NameOf, Name

LEMMA InitInvariant == Init => IInv
  <1> SUFFICES ASSUME Init PROVE IInv
    OBVIOUS
  <1>1. /\ DOMAIN selections = {} /\ DOMAIN models = {} /\ DOMAIN scores = {}
        /\ DOMAIN chosen = Notebooks
        /\ cell = [n \in Notebooks |-> "none"]
    BY DEF Init, NoFiles
  <1>2. cell \in [Notebooks -> Cells] /\ \A n \in Notebooks : cell[n] = "none"
    BY <1>1 DEF Cells
  <1>3. {"cart", "xgboost"} \subseteq Notebooks
    BY DEF Notebooks, Fitting
  <1>4. KernelsOK
    BY <1>1, <1>2 DEF KernelsOK, HasChosen
  <1>5. SavedOK
    BY <1>2, <1>3 DEF SavedOK
  <1> QED BY <1>1, <1>4, <1>5 DEF IInv, SelectionsOK, ModelsOK, ScoresOfOwnModel

(* Steps of pvs_convert and pvs_points write none of the files below.      *)
LEMMA OtherStep ==
  ASSUME IInv, UNCHANGED <<kernelVars, fileVars>>
  PROVE  IInv'
  BY DEF IInv, SelectionsOK, ModelsOK, KernelsOK, HasChosen, SavedOK,
         ScoresOfOwnModel, kernelVars, fileVars

(* A cell that writes none of the followed files, and neither selects nor  *)
(* saves.                                                                  *)
LEMMA KernelStep ==
  ASSUME IInv, UNCHANGED <<chosen, selections, models, scores>>,
         NEW n \in Notebooks, NEW after \in Cells, cell' = [cell EXCEPT ![n] = after],
         \/ after \in {"listed", "extracted"}
         \/ after = "fitted" /\ cell[n] = "selected"
         \/ after = "scored" /\ cell[n] = "selected" /\ n = "const"
  PROVE  IInv'
  <1> USE DEF IInv
  <1>1. cell' \in [Notebooks -> Cells]
    BY DEF KernelsOK
  <1>2. \A m \in Notebooks : HasChosen(m)' => HasChosen(m)
    BY DEF KernelsOK, HasChosen
  <1>3. KernelsOK'
    BY <1>1, <1>2 DEF KernelsOK
  <1>4. SavedOK'
    <2>1. {"cart", "xgboost"} \subseteq Notebooks
      BY DEF Notebooks, Fitting
    <2>2. \A m \in {"cart", "xgboost"} :
            cell'[m] \in {"saved", "scored"} => cell[m] \in {"saved", "scored"}
      BY <2>1 DEF KernelsOK
    <2> QED BY <2>1, <2>2 DEF SavedOK
  <1> QED BY <1>3, <1>4 DEF SelectionsOK, ModelsOK, ScoresOfOwnModel

LEMMA ExtractStep ==
  ASSUME IInv, NEW n \in Notebooks, List(n) \/ Extract(n)
  PROVE  IInv'
  <1>1. PICK after \in {"listed", "extracted"} : cell' = [cell EXCEPT ![n] = after]
    BY DEF List, Extract
  <1>2. after \in Cells
    BY DEF Cells
  <1>3. UNCHANGED <<chosen, selections, models, scores>>
    BY DEF List, Extract, fileVars
  <1> QED BY <1>1, <1>2, <1>3, KernelStep

LEMMA SelectStep ==
  ASSUME IInv, NEW n \in Notebooks, NEW k \in Sizes, NEW excluded \in Exclusions,
         Select(n, k, excluded)
  PROVE  IInv'
  <1> USE DEF IInv
  <1> DEFINE c == [of |-> table[n], k |-> k, excluded |-> excluded]
  <1>1. /\ cell' = [cell EXCEPT ![n] = "selected"]
        /\ chosen' = [chosen EXCEPT ![n] = c]
        /\ selections' = Write(selections, Name(k, excluded), chosen'[n])
        /\ UNCHANGED <<models, scores>>
    BY DEF Select, Advance
  <1>2. IsChoice(c) /\ NameOf(c) = Name(k, excluded)
    BY DEF IsChoice, NameOf
  <1>3. chosen'[n] = c /\ DOMAIN chosen' = Notebooks
        /\ \A m \in Notebooks : m # n => chosen'[m] = chosen[m]
    BY <1>1 DEF KernelsOK
  <1> HIDE DEF c
  <1>4. /\ DOMAIN selections' = DOMAIN selections \cup {NameOf(c)}
        /\ selections'[NameOf(c)] = c
        /\ \A x \in DOMAIN selections : x # NameOf(c) => selections'[x] = selections[x]
    BY <1>1, <1>2, <1>3 DEF Write
  <1>5. SelectionsOK'
    BY <1>2, <1>4 DEF SelectionsOK
  <1>6. ModelsOK'
    BY <1>1, <1>4 DEF ModelsOK
  <1>7. KernelsOK'
    <2>1. cell' \in [Notebooks -> Cells]
      BY <1>1 DEF KernelsOK, Cells
    <2>2. ASSUME NEW m \in Notebooks, HasChosen(m)'
          PROVE  IsChoice(chosen'[m]) /\ NameOf(chosen'[m]) \in DOMAIN selections'
      <3>1. CASE m = n
        BY <1>2, <1>3, <1>4, <3>1
      <3>2. CASE m # n
        <4>1. HasChosen(m)
          BY <1>1, <2>2, <3>2 DEF HasChosen, KernelsOK
        <4> QED BY <1>3, <1>4, <3>2, <4>1 DEF KernelsOK
      <3> QED BY <3>1, <3>2
    <2> QED BY <1>3, <2>1, <2>2 DEF KernelsOK
  <1>8. SavedOK'
    <2>1. ASSUME NEW m \in {"cart", "xgboost"}, cell'[m] \in {"saved", "scored"}
          PROVE  cell[m] = cell'[m] /\ chosen'[m] = chosen[m]
      <3>1. m \in Notebooks
        BY DEF Notebooks, Fitting
      <3>2. m # n
        BY <1>1, <2>1, <3>1 DEF KernelsOK
      <3> QED BY <1>1, <1>3, <3>1, <3>2 DEF KernelsOK
    <2> QED BY <1>1, <2>1 DEF SavedOK
  <1> QED BY <1>1, <1>5, <1>6, <1>7, <1>8 DEF ScoresOfOwnModel

LEMMA FitStep ==
  ASSUME IInv, NEW n \in Notebooks, Fit(n)
  PROVE  IInv'
  <1>1. "fitted" \in Cells
    BY DEF Cells
  <1> QED BY <1>1, KernelStep DEF Fit, Advance, fileVars

LEMMA ConstScoresStep ==
  ASSUME IInv, ConstScores
  PROVE  IInv'
  <1>1. "scored" \in Cells /\ "const" \in Notebooks
    BY DEF Cells, Notebooks
  <1> QED BY <1>1, KernelStep DEF ConstScores, Advance, fileVars

LEMMA SaveStep ==
  ASSUME IInv, NEW n \in Fitting, Save(n)
  PROVE  IInv'
  <1> USE DEF IInv
  <1> DEFINE c == chosen[n]
             file == <<n, NameOf(chosen[n])>>
             model == [by |-> n, on |-> chosen[n]]
  <1>1. /\ cell[n] = "fitted" /\ cell' = [cell EXCEPT ![n] = "saved"]
        /\ models' = Write(models, file, model)
        /\ UNCHANGED <<chosen, selections, scores>>
    BY DEF Save, Advance
  <1>2. n \in Notebooks /\ {"cart", "xgboost"} \subseteq Notebooks
    BY DEF Notebooks, Fitting
  <1>3. IsChoice(c) /\ NameOf(c) \in DOMAIN selections
    BY <1>1, <1>2 DEF KernelsOK, HasChosen
  <1>4. file[1] = n /\ file[2] = NameOf(c) /\ model.on = c
    OBVIOUS
  <1>5. /\ DOMAIN models' = DOMAIN models \cup {file} /\ models'[file] = model
        /\ \A x \in DOMAIN models : x # file => models'[x] = models[x]
    BY <1>1 DEF Write
  <1>6. ModelsOK'
    <2> HIDE DEF c, file, model
    <2>1. ASSUME NEW x \in DOMAIN models'
          PROVE  /\ IsChoice(models'[x].on) /\ NameOf(models'[x].on) = x[2]
                 /\ x[2] \in DOMAIN selections
      <3>1. CASE x = file
        BY <1>3, <1>4, <1>5, <3>1
      <3>2. CASE x # file
        BY <1>5, <3>2 DEF ModelsOK
      <3> QED BY <3>1, <3>2
    <2> QED BY <1>1, <2>1 DEF ModelsOK
  <1>7. KernelsOK'
    <2>1. cell' \in [Notebooks -> Cells]
      BY <1>1 DEF KernelsOK, Cells
    <2>2. \A m \in Notebooks : HasChosen(m)' => HasChosen(m)
      BY <1>1, <1>2 DEF KernelsOK, HasChosen
    <2> QED BY <1>1, <2>1, <2>2 DEF KernelsOK
  <1>8. SavedOK'
    <2>1. ASSUME NEW m \in {"cart", "xgboost"}, cell'[m] \in {"saved", "scored"}
          PROVE  /\ <<m, NameOf(chosen[m])>> \in DOMAIN models'
                 /\ models'[<<m, NameOf(chosen[m])>>] = [by |-> m, on |-> chosen[m]]
      <3>1. CASE m = n
        BY <1>5, <3>1
      <3>2. CASE m # n
        <4>1. cell[m] \in {"saved", "scored"}
          BY <1>1, <1>2, <2>1, <3>2 DEF KernelsOK
        <4>2. <<m, NameOf(chosen[m])>> # file
          BY <3>2
        <4> QED BY <1>5, <4>1, <4>2 DEF SavedOK
      <3> QED BY <3>1, <3>2
    <2> QED BY <1>1, <2>1 DEF SavedOK
  <1> QED BY <1>1, <1>6, <1>7, <1>8 DEF SelectionsOK, ScoresOfOwnModel

LEMMA EvaluateStep ==
  ASSUME IInv, NEW n \in Notebooks, NEW m \in Fitting, Evaluate(n, m),
         n \in {"cart", "xgboost"} => m = n
  PROVE  IInv'
  <1> USE DEF IInv
  <1> DEFINE score == [model |-> models[<<m, NameOf(chosen[n])>>], split |-> chosen[n]]
  <1>1. /\ cell[n] = "saved" /\ cell' = [cell EXCEPT ![n] = "scored"]
        /\ scores' = Write(scores, n, score)
        /\ UNCHANGED <<chosen, selections, models>>
    BY DEF Evaluate, Advance
  <1>2. KernelsOK'
    <2>1. cell' \in [Notebooks -> Cells]
      BY <1>1 DEF KernelsOK, Cells
    <2>2. \A x \in Notebooks : HasChosen(x)' => HasChosen(x)
      BY <1>1 DEF KernelsOK, HasChosen
    <2> QED BY <1>1, <2>1, <2>2 DEF KernelsOK
  <1>3. SavedOK'
    <2>1. \A x \in Notebooks :
            cell'[x] \in {"saved", "scored"} => cell[x] \in {"saved", "scored"}
      BY <1>1 DEF KernelsOK
    <2>2. {"cart", "xgboost"} \subseteq Notebooks
      BY DEF Notebooks, Fitting
    <2> QED BY <1>1, <2>1, <2>2 DEF SavedOK
  <1>4. ScoresOfOwnModel'
    <2>1. /\ DOMAIN scores' = DOMAIN scores \cup {n} /\ scores'[n] = score
          /\ \A x \in DOMAIN scores : x # n => scores'[x] = scores[x]
      BY <1>1 DEF Write
    <2>2. ASSUME n \in {"cart", "xgboost"}
          PROVE  score.model.by = n /\ score.model.on = score.split
      BY <1>1, <2>2 DEF SavedOK
    <2> HIDE DEF score
    <2> QED BY <2>1, <2>2 DEF ScoresOfOwnModel
  <1> QED BY <1>1, <1>2, <1>3, <1>4 DEF SelectionsOK, ModelsOK

LEMMA StepInvariant == IInv /\ [Next]_vars => IInv'
  <1> SUFFICES ASSUME IInv, [Next]_vars PROVE IInv'
    OBVIOUS
  <1>1. CASE UNCHANGED vars
    BY <1>1, OtherStep DEF vars
  <1>2. ASSUME NEW d \in Drives, FilterInputCols(d) \/ Normalize(d) PROVE IInv'
    BY <1>2, OtherStep DEF FilterInputCols, Normalize
  <1>3. ASSUME NEW first \in Drives, NEW last \in Drives, ReadDrives(first, last)
        PROVE  IInv'
    BY <1>3, OtherStep DEF ReadDrives
  <1>4. CASE WriteEntry
    BY <1>4, OtherStep DEF WriteEntry
  <1>5. ASSUME NEW n \in Notebooks, SelectAny(n) PROVE IInv'
    BY <1>5, SelectStep DEF SelectAny
  <1>6. /\ "cart" \in Notebooks /\ "xgboost" \in Notebooks /\ "forest" \in Notebooks
        /\ "const" \in Notebooks /\ Fitting \subseteq Notebooks
        /\ "cart" \in Fitting /\ "xgboost" \in Fitting /\ "forest" \in Fitting
    BY DEF Notebooks, Fitting
  <1>7. CASE CartPrepares \/ XgboostPrepares \/ ForestPrepares
    BY <1>5, <1>6, <1>7, ExtractStep DEF CartPrepares, XgboostPrepares, ForestPrepares
  <1>8. CASE CartFits
    BY <1>6, <1>8, FitStep, SaveStep, EvaluateStep DEF CartFits
  <1>9. CASE XgboostFits
    BY <1>6, <1>9, FitStep, SaveStep, EvaluateStep DEF XgboostFits
  <1>10. CASE ForestFits
    <2>1. "forest" \notin {"cart", "xgboost"}
      OBVIOUS
    <2> QED BY <1>6, <1>10, <2>1, FitStep, SaveStep, EvaluateStep DEF ForestFits
  <1>11. CASE ConstPrepares
    BY <1>6, <1>11, ExtractStep, SelectStep DEF ConstPrepares, Exclusions
  <1>12. CASE ConstScores
    BY <1>12, ConstScoresStep
  <1> QED
    BY <1>1, <1>2, <1>3, <1>4, <1>7, <1>8, <1>9, <1>10, <1>11, <1>12 DEF Next

LEMMA InvariantFits == IInv => SelectionFits
  <1> SUFFICES ASSUME IInv, NEW file \in DOMAIN models
               PROVE  /\ file[2] \in DOMAIN selections
                      /\ selections[file[2]].k = models[file].on.k
                      /\ selections[file[2]].of = models[file].on.of
                           => selections[file[2]] = models[file].on
    BY DEF SelectionFits
  <1> DEFINE model == models[file].on
             selection == selections[file[2]]
  <1>1. IsChoice(model) /\ NameOf(model) = file[2] /\ file[2] \in DOMAIN selections
    BY DEF IInv, ModelsOK
  <1>2. IsChoice(selection) /\ NameOf(selection) = file[2]
    BY <1>1 DEF IInv, SelectionsOK
  <1> HIDE DEF model, selection
  <1>3. selection.k = model.k /\ (selection.of = model.of => selection = model)
    BY <1>1, <1>2, ChoiceOfName
  <1> QED BY <1>1, <1>3 DEF model, selection

-----------------------------------------------------------------------------
(* The invariant holds however the notebooks are run.                      *)
THEOREM Invariance == Spec => []IInv
  <1>1. Init => IInv
    BY InitInvariant
  <1>2. IInv /\ [Next]_vars => IInv'
    BY StepInvariant
  <1> QED BY <1>1, <1>2, PTL DEF Spec

(* Whenever model/ is copied into guessr's image, every model in it has a  *)
(* selection of its name that names the features it was fitted on, or as   *)
(* many of other entries.                                                  *)
THEOREM SelectionsFit == Spec => []SelectionFits
  BY Invariance, InvariantFits, PTL

(* What pvs_cart and pvs_xgboost print are scores of the model fitted in   *)
(* the same run, on entries of the same choice.                            *)
THEOREM ScoresAreOwn == Spec => []ScoresOfOwnModel
  <1>1. IInv => ScoresOfOwnModel
    BY DEF IInv
  <1> QED BY Invariance, <1>1, PTL
=============================================================================
