------------------------- MODULE InstanceLabelProofs -------------------------
(***************************************************************************)
(* Proofs about InstanceLabel, for every set of IngressClasses and label   *)
(* values, every way of configuring the label, with and without            *)
(* INGRESS_CLASS_LABEL_STRICT.                                             *)
(***************************************************************************)
EXTENDS InstanceLabel, TLAPS

(***************************************************************************)
(* What the resolver finds, given the settings every process loads: l is   *)
(* the class, key and value of the only candidate.                         *)
(***************************************************************************)
IsCurrent(l) ==
    /\ Candidates = {l.class}
    /\ l.key = PreferredKey(l.class)
    /\ l.value = Picked(l.class)
    /\ validateKV(l.value)
    /\ ~Complete([key |-> loaded.key, value |-> loaded.value])

LabelIsCurrent == source = "class" /\ ~edited => IsCurrent(InUse)

BeforeIsCurrent == before # NoLabel => IsCurrent(before)

(* Settings and steps belong together. *)
ProcessCoherent ==
    /\ provided => cfgClass = loaded.class
    /\ pc = "resolve" => source = "none" /\ ~edited /\ InUse = loaded
    /\ pc \in {"run", "error"} => source # "none"
    /\ source = "configured" => Complete([key |-> loaded.key, value |-> loaded.value])
    /\ before # NoLabel => source # "configured" /\ ~edited
    /\ pc = "failed" /\ source = "class" => FALSE

IndInv ==
    /\ TypeOK
    /\ ProcessCoherent
    /\ LabelIsCurrent
    /\ BeforeIsCurrent
    /\ NoFalseAlarm
    /\ RestartFindsSame

-----------------------------------------------------------------------------
(* Environment and file yield a setting, or none. *)
LEMMA LoadedIsPair ==
    ASSUME NEW envTwo \in Settings \cup {Unset, Half}, NEW envOne \in Settings \cup {Unset},
           NEW fileTwo \in Settings \cup {NoPair}, NEW fileOne \in Settings \cup {Unset}
    PROVE  mergeFileInstanceLabel(populateInstanceLabelFromEnv(envTwo, envOne), fileTwo, fileOne) \in Pair
  <1>1. NoPair \in Pair
    BY LabelAssumption DEF NoPair, Pair
  <1>2. populateInstanceLabelFromEnv(envTwo, envOne) \in Pair
    BY <1>1, LabelAssumption DEF populateInstanceLabelFromEnv
  <1> QED
    BY <1>1, <1>2, LabelAssumption DEF mergeFileInstanceLabel

(* Nothing has been resolved yet. *)
LEMMA InitInd == Init => IndInv
  <1> SUFFICES ASSUME Init PROVE IndInv
    OBVIOUS
  <1>0. PICK p \in Pair : cfgKey = p.key /\ cfgValue = p.value
    <2>1. PICK envTwo \in Settings \cup {Unset, Half}, envOne \in Settings \cup {Unset},
               fileOne \in Settings \cup {Unset}, fileTwo \in Settings \cup {NoPair} :
               LET p == mergeFileInstanceLabel(populateInstanceLabelFromEnv(envTwo, envOne),
                                               fileTwo, fileOne)
               IN  cfgKey = p.key /\ cfgValue = p.value
      BY Zenon DEF Init
    <2> QED
      BY <2>1, LoadedIsPair
  <1>1. cfgKey \in Key \cup {NoKey} /\ cfgValue \in Value \cup Invalid
    BY <1>0 DEF Pair
  <1>2. provided \in BOOLEAN /\ edited \in BOOLEAN
    BY Zenon DEF Init
  <1>3. TypeOK
    BY <1>1, <1>2, LabelAssumption DEF Init, TypeOK, InUse, Label, NoLabel
  <1> QED
    BY <1>3 DEF Init, IndInv, LabelIsCurrent, NoFalseAlarm, RestartFindsSame, BeforeIsCurrent,
                ProcessCoherent, InUse

(* The label picked from a class is one of its labels. *)
LEMMA PickedTyped ==
    ASSUME TypeOK, NEW c \in Existing
    PROVE  PreferredKey(c) \in Key /\ Picked(c) = classes[c].labels[PreferredKey(c)] /\ Picked(c) \in Value
  BY DEF TypeOK, Existing, PreferredKey, Picked, IngressClass, Key

(* Only a class that exists can be chosen. *)
LEMMA CandidatesExist == Candidates \subseteq Existing
  BY DEF Candidates

(***************************************************************************)
(* Candidates, and what is current, depend on the cluster and the settings *)
(* alone, whatever the resolver has filled in.                             *)
(***************************************************************************)
LEMMA CurrentKept ==
    ASSUME ProcessCoherent, ProcessCoherent', UNCHANGED <<classes, provided, loaded>>,
           NEW l, IsCurrent(l)
    PROVE  IsCurrent(l)'
  <1>1. Existing' = Existing
    BY DEF Existing
  <1>2. Candidates' = Candidates
    BY <1>1 DEF Candidates, ProcessCoherent
  <1>3. PreferredKey(l.class)' = PreferredKey(l.class) /\ Picked(l.class)' = Picked(l.class)
    BY DEF PreferredKey, Picked
  <1> QED
    BY <1>2, <1>3 DEF IsCurrent, PreferredKey, Picked

(* Resolution, the monitor, faults, edits and restarts preserve the invariant. *)
LEMMA IndStep == IndInv /\ [Next]_vars => IndInv'
  <1> SUFFICES ASSUME IndInv, [Next]_vars PROVE IndInv'
    OBVIOUS
  <1> USE LabelAssumption
  <1>0. TypeOK /\ ProcessCoherent /\ LabelIsCurrent /\ BeforeIsCurrent /\ NoFalseAlarm /\ RestartFindsSame
    BY DEF IndInv
  <1>1. CASE ResolveConfigured
    <2>0. provided' \in BOOLEAN /\ edited' \in BOOLEAN
      BY <1>1, <1>0, Zenon DEF ResolveConfigured, cfgVars, TypeOK
    <2>1. TypeOK'
      BY <1>1, <1>0, <2>0 DEF ResolveConfigured, cfgVars, TypeOK, validateKV, IsConfigured, Complete
    <2>2. Complete([key |-> loaded.key, value |-> loaded.value])
      BY <1>1, <1>0 DEF ResolveConfigured, ProcessCoherent, IsConfigured, InUse
    <2>3. before = NoLabel
      BY <2>2, <1>0 DEF BeforeIsCurrent, IsCurrent
    <2>4. ProcessCoherent'
      BY <1>1, <1>0, <2>2, <2>3 DEF ResolveConfigured, cfgVars, ProcessCoherent, InUse
    <2> QED
      BY <1>1, <2>1, <2>3, <2>4 DEF ResolveConfigured, IndInv, LabelIsCurrent, BeforeIsCurrent,
                                    NoFalseAlarm, RestartFindsSame
  <1>2. ASSUME NEW c \in Class, ResolveFromClass(c) PROVE IndInv'
    <2>0. provided' \in BOOLEAN /\ edited' \in BOOLEAN
      BY <1>2, <1>0, Zenon DEF ResolveFromClass, TypeOK
    <2>1. Candidates = {c} /\ c \in Existing
      BY <1>2, CandidatesExist DEF ResolveFromClass, Chosen
    <2>2. PreferredKey(c) \in Key /\ Picked(c) \in Value
      BY <2>1, <1>0, PickedTyped
    <2>3. TypeOK'
      BY <1>2, <1>0, <2>0, <2>2 DEF ResolveFromClass, TypeOK, validateKV, Remembered
    <2>4. /\ pc = "resolve" /\ pc' = "run" /\ source' = "class"
          /\ cfgClass' = c /\ cfgKey' = PreferredKey(c) /\ cfgValue' = Picked(c)
          /\ UNCHANGED <<classes, provided, loaded, edits, faults, edited, before>>
          /\ validateKV(Picked(c)) /\ ~IsConfigured
      BY <1>2 DEF ResolveFromClass, Remembered
    <2>5. provided => c = cfgClass
      BY <2>1 DEF Candidates
    <2>6. ~Complete([key |-> loaded.key, value |-> loaded.value])
      BY <2>4, <1>0 DEF ProcessCoherent, IsConfigured, InUse
    <2>7. ProcessCoherent'
      BY <2>4, <2>5, <1>0 DEF ProcessCoherent
    <2> DEFINE l == [class |-> c, key |-> PreferredKey(c), value |-> Picked(c)]
    <2>8. IsCurrent(l)
      BY <2>1, <2>4, <2>6 DEF IsCurrent
    <2>9. IsCurrent(l)'
      <3> HIDE DEF l
      <3>1. ASSUME NEW m, m = l PROVE IsCurrent(m)'
        BY <3>1, <2>4, <2>7, <2>8, <1>0, CurrentKept
      <3>2. PreferredKey(c)' = PreferredKey(c) /\ Picked(c)' = Picked(c)
        BY <2>4 DEF PreferredKey, Picked
      <3>3. l' = l
        BY <3>2 DEF l
      <3> QED
        BY <3>1, <3>3
    <2>10. InUse' = l'
      <3>1. PreferredKey(c)' = PreferredKey(c) /\ Picked(c)' = Picked(c)
        BY <2>4 DEF PreferredKey, Picked
      <3> QED
        BY <2>4, <3>1 DEF InUse
    <2>11. LabelIsCurrent'
      <3> HIDE DEF l
      <3> QED
        BY <2>9, <2>10 DEF LabelIsCurrent
    <2>12. ASSUME before # NoLabel PROVE before = InUse'
      <3>1. before.class = c /\ before.key = PreferredKey(c) /\ before.value = Picked(c)
        BY <2>12, <2>1, <1>0 DEF BeforeIsCurrent, IsCurrent
      <3>2. before = [class |-> c, key |-> PreferredKey(c), value |-> Picked(c)]
        BY <3>1, <1>0 DEF TypeOK, Label
      <3> QED
        BY <3>2, <2>4 DEF InUse
    <2>13. BeforeIsCurrent'
      BY <2>4, <2>7, <1>0, CurrentKept DEF BeforeIsCurrent
    <2>14. RestartFindsSame' /\ NoFalseAlarm'
      BY <2>4, <2>12 DEF RestartFindsSame, NoFalseAlarm, NoLabel
    <2> QED
      BY <2>3, <2>7, <2>11, <2>13, <2>14 DEF IndInv
  <1>3. CASE ResolveFails
    <2>0. provided' \in BOOLEAN /\ edited' \in BOOLEAN
      BY <1>3, <1>0, Zenon DEF ResolveFails, cfgVars, TypeOK
    <2>1. TypeOK'
      BY <1>3, <1>0, <2>0 DEF ResolveFails, cfgVars, TypeOK
    <2>2. ProcessCoherent'
      BY <1>3, <1>0 DEF ResolveFails, cfgVars, ProcessCoherent
    <2>3. before = NoLabel
      <3> SUFFICES ASSUME before # NoLabel PROVE FALSE
        OBVIOUS
      <3>1. Candidates = {before.class} /\ validateKV(Picked(before.class))
        BY <1>0 DEF BeforeIsCurrent, IsCurrent
      <3>2. before.class \in Class
        BY <1>0 DEF TypeOK, Label
      <3> QED
        BY <3>1, <3>2, <1>3 DEF ResolveFails, Chosen
    <2> QED
      BY <1>3, <1>0, <2>1, <2>2, <2>3 DEF ResolveFails, IndInv, LabelIsCurrent, BeforeIsCurrent,
                                          NoFalseAlarm, RestartFindsSame, ProcessCoherent
  <1>4. CASE CallFails
    <2>0. provided' \in BOOLEAN /\ edited' \in BOOLEAN
      BY <1>4, <1>0, Zenon DEF CallFails, cfgVars, TypeOK
    <2>1. TypeOK' /\ faults' > 0
      BY <1>4, <1>0, <2>0 DEF CallFails, cfgVars, TypeOK
    <2>2. ProcessCoherent' /\ InUse' = InUse /\ UNCHANGED <<classes, provided, loaded, source, edited, before>>
      BY <1>4, <1>0 DEF CallFails, cfgVars, ProcessCoherent, InUse
    <2>3. LabelIsCurrent' /\ BeforeIsCurrent'
      BY <2>2, <1>0, CurrentKept DEF LabelIsCurrent, BeforeIsCurrent
    <2>4. NoFalseAlarm' /\ RestartFindsSame'
      BY <1>4, <2>1, <2>2, <1>0 DEF CallFails, NoFalseAlarm, RestartFindsSame, NoLabel
    <2> QED
      BY <2>1, <2>2, <2>3, <2>4 DEF IndInv
  <1>5. CASE VerifyFails
    <2>0. provided' \in BOOLEAN /\ edited' \in BOOLEAN
      BY <1>5, <1>0, Zenon DEF VerifyFails, cfgVars, TypeOK
    <2>1. TypeOK'
      BY <1>5, <1>0, <2>0 DEF VerifyFails, cfgVars, TypeOK
    <2>2. ASSUME source = "class", ~edited PROVE FALSE
      <3>1. Candidates = {cfgClass} /\ cfgKey = PreferredKey(cfgClass) /\ cfgValue = Picked(cfgClass)
        BY <2>2, <1>0 DEF LabelIsCurrent, IsCurrent, InUse
      <3>2. cfgClass \in Existing
        BY <3>1, CandidatesExist
      <3>3. Actual = cfgValue
        BY <3>1, <3>2 DEF Actual, Picked
      <3> QED
        BY <3>3, <1>5 DEF VerifyFails, Mismatch
    <2>3. ProcessCoherent' /\ InUse' = InUse /\ UNCHANGED <<classes, provided, loaded, source, edited, before>>
      BY <1>5, <1>0 DEF VerifyFails, cfgVars, ProcessCoherent, InUse
    <2>4. LabelIsCurrent' /\ BeforeIsCurrent'
      BY <2>3, <1>0, CurrentKept DEF LabelIsCurrent, BeforeIsCurrent
    <2>5. NoFalseAlarm' /\ RestartFindsSame'
      BY <1>5, <2>2, <2>3, <1>0 DEF VerifyFails, NoFalseAlarm, RestartFindsSame, NoLabel
    <2> QED
      BY <2>1, <2>3, <2>4, <2>5 DEF IndInv
  <1>6. ASSUME NEW c \in Class, EditClass(c) PROVE IndInv'
    <2>0. provided' \in BOOLEAN /\ edited' \in BOOLEAN
      BY <1>6, <1>0, Zenon DEF EditClass, cfgVars, TypeOK
    <2>1. TypeOK'
      BY <1>6, <1>0, <2>0 DEF EditClass, cfgVars, TypeOK, NoLabel, Label
    <2>2. before' = NoLabel' /\ (pc # "resolve" => edited') /\ (edited => edited')
      BY <1>6 DEF EditClass, NoLabel
    <2>3. ProcessCoherent' /\ (pc = "resolve" => source' = "none")
      BY <1>6, <1>0, <2>2 DEF EditClass, cfgVars, ProcessCoherent, InUse
    <2> QED
      BY <1>6, <1>0, <2>1, <2>2, <2>3 DEF EditClass, IndInv, LabelIsCurrent, BeforeIsCurrent,
                                          NoFalseAlarm, RestartFindsSame
  <1>7. CASE Restart
    <2>0. provided' \in BOOLEAN /\ edited' \in BOOLEAN
      BY <1>7, <1>0, Zenon DEF Restart, TypeOK
    <2>1. InUse \in Label /\ NoLabel \in Label
      BY <1>0 DEF InUse, NoLabel, Label, TypeOK
    <2>2. /\ pc' = "resolve" /\ source' = "none" /\ ~edited'
          /\ cfgClass' = loaded.class /\ cfgKey' = loaded.key /\ cfgValue' = loaded.value
          /\ UNCHANGED <<classes, provided, loaded, edits, faults>>
          /\ before' = IF source = "none" THEN before ELSE Carried
      BY <1>7 DEF Restart
    <2>3. before' \in Label /\ restarts' \in 0..MaxRestarts
      BY <1>7, <2>1, <2>2, <1>0 DEF Restart, Carried, TypeOK
    <2>4. loaded.class \in Class /\ loaded.key \in Key \cup {NoKey} /\ loaded.value \in Value \cup Invalid
      BY <1>0 DEF TypeOK, Label
    <2>5. TypeOK'
      BY <2>0, <2>2, <2>3, <2>4, <1>0 DEF TypeOK
    <2>6. InUse' = loaded
      BY <2>2, <1>0 DEF InUse, TypeOK, Label
    <2>7. ProcessCoherent'
      BY <2>2, <2>6 DEF ProcessCoherent
    <2>8. ASSUME before' # NoLabel PROVE IsCurrent(before')
      BY <2>8, <2>2, <1>0 DEF Carried, BeforeIsCurrent, LabelIsCurrent
    <2>9. BeforeIsCurrent'
      <3>1. ASSUME NEW m, m = before', m # NoLabel PROVE IsCurrent(m)'
        BY <3>1, <2>2, <2>7, <2>8, <1>0, CurrentKept
      <3>2. NoLabel' = NoLabel
        BY DEF NoLabel
      <3> QED
        BY <3>1, <3>2 DEF BeforeIsCurrent
    <2> QED
      BY <2>2, <2>5, <2>7, <2>9 DEF IndInv, LabelIsCurrent, NoFalseAlarm, RestartFindsSame
  <1>8. CASE UNCHANGED vars
    <2>1. ProcessCoherent' /\ InUse' = InUse /\ NoLabel' = NoLabel
          /\ UNCHANGED <<classes, provided, loaded, source, edited, before>>
      BY <1>8, <1>0 DEF vars, cfgVars, ProcessCoherent, InUse, NoLabel
    <2>2. LabelIsCurrent' /\ BeforeIsCurrent'
      BY <2>1, <1>0, CurrentKept DEF LabelIsCurrent, BeforeIsCurrent
    <2> QED
      BY <1>8, <2>1, <2>2, <1>0 DEF vars, cfgVars, IndInv, TypeOK, NoFalseAlarm, RestartFindsSame
  <1> QED
    BY <1>1, <1>2, <1>3, <1>4, <1>5, <1>6, <1>7, <1>8 DEF Next

(* The inductive invariant holds in every reachable state. *)
THEOREM Invariance == Spec => []IndInv
  BY InitInd, IndStep, PTL DEF Spec

(***************************************************************************)
(* Types, and with them that a process that runs has a key and a value the *)
(* label syntax accepts, wherever they came from.                          *)
(***************************************************************************)
THEOREM TypeCorrect == Spec => []TypeOK
  <1>1. IndInv => TypeOK
    BY DEF IndInv
  <1> QED
    BY Invariance, <1>1, PTL

(***************************************************************************)
(* The strict monitor ends the process only for an edit after resolution,  *)
(* or a call that failed.                                                  *)
(***************************************************************************)
THEOREM AlarmSafety == Spec => []NoFalseAlarm
  <1>1. IndInv => NoFalseAlarm
    BY DEF IndInv
  <1> QED
    BY Invariance, <1>1, PTL

(***************************************************************************)
(* A process started over IngressClasses that have not changed resolves to *)
(* the class, key and value of the process before it.                      *)
(***************************************************************************)
THEOREM RestartSafety == Spec => []RestartFindsSame
  <1>1. IndInv => RestartFindsSame
    BY DEF IndInv
  <1> QED
    BY Invariance, <1>1, PTL

=============================================================================
