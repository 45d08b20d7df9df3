---------------------------- MODULE InstanceLabel ----------------------------
(***************************************************************************)
(* The Traefik instance label (internal/kube/labels): configured, or found *)
(* once at start-up on an IngressClass, and then verified periodically     *)
(* while administrators edit the IngressClasses.  A process that ends is   *)
(* started anew and resolves the label again.                              *)
(***************************************************************************)
EXTENDS Naturals, FiniteSets

CONSTANTS
    Class,        \* names of IngressClasses
    Default,      \* the default of INGRESS_CLASS
    Value,        \* values a label may have; Blank stands for a missing or empty one
    Blank,
    Invalid,      \* configured values that the label syntax refuses
    Absent,       \* an IngressClass that does not exist
    NoKey,        \* no label key
    Settings,     \* label settings a user writes: [key, value] pairs
    Unset, Half,  \* no setting; one of the two halves of a setting
    Strict,       \* INGRESS_CLASS_LABEL_STRICT
    MaxEdits,     \* bound on edits of IngressClasses
    MaxFaults,    \* bound on failing API calls
    MaxRestarts   \* bound on restarts

Key == {"app", "instance"}
IngressClass == [traefik : BOOLEAN, labels : [Key -> Value]]
Pair == [key : Key \cup {NoKey}, value : Value \cup Invalid]

ASSUME LabelAssumption ==
    /\ Default \in Class
    /\ Blank \in Value \ Invalid /\ Value \cap Invalid = {}
    /\ Settings \subseteq Pair /\ {Unset, Half} \cap Settings = {}
    /\ NoKey \notin Key /\ Absent \notin IngressClass
    /\ Strict \in BOOLEAN
    /\ MaxEdits \in Nat /\ MaxFaults \in Nat /\ MaxRestarts \in Nat

VARIABLES
    classes,    \* the IngressClasses of the cluster
    provided,   \* IngressClassProvided
    loaded,     \* class, key and value as every process loads them
    cfgClass, cfgKey, cfgValue,  \* the configuration, filled in by the resolver
    pc,         \* "resolve", "run", "failed" at start-up, "error" of the monitor
    edits, faults, restarts,
    source,     \* history: where the label came from
    edited,     \* history: an IngressClass changed after the resolution
    before      \* history: what the process before found on a class, until a class changes

cfgVars == <<provided, loaded, cfgClass, cfgKey, cfgValue>>
vars == <<classes, cfgVars, pc, edits, faults, restarts, source, edited, before>>

Label == [class : Class, key : Key \cup {NoKey}, value : Value \cup Invalid]
NoLabel == [class |-> Default, key |-> NoKey, value |-> Blank]
InUse == [class |-> cfgClass, key |-> cfgKey, value |-> cfgValue]

TypeOK ==
    /\ classes \in [Class -> IngressClass \cup {Absent}]
    /\ provided \in BOOLEAN /\ cfgClass \in Class
    /\ cfgKey \in Key \cup {NoKey} /\ cfgValue \in Value \cup Invalid
    /\ pc \in {"resolve", "run", "failed", "error"}
    /\ pc = "run" => cfgKey # NoKey /\ cfgValue \notin Invalid \cup {Blank}
    /\ edits \in 0..MaxEdits /\ faults \in 0..MaxFaults /\ restarts \in 0..MaxRestarts
    /\ loaded \in Label /\ before \in Label
    /\ source \in {"none", "configured", "class"} /\ edited \in BOOLEAN

-----------------------------------------------------------------------------
(***************************************************************************)
(* Loading the configuration.  Blanks around values are trimmed there, and *)
(* the API server admits none on an IngressClass: no value has any.        *)
(***************************************************************************)
NoPair == [key |-> NoKey, value |-> Blank]
Complete(p) == p.key # NoKey /\ p.value # Blank

(* The two variables beat the single one, even when only one of them is set. *)
populateInstanceLabelFromEnv(two, one) ==
    CASE two = Half                  -> NoPair
      [] two = Unset /\ one = Unset  -> NoPair
      [] two = Unset /\ one # Unset  -> one
      [] OTHER                       -> two

(* The file is asked for what the environment left open. *)
mergeFileInstanceLabel(p, two, one) ==
    CASE Complete(p)                      -> p
      [] ~Complete(p) /\ Complete(two)    -> two
      [] OTHER                            -> IF one # Unset THEN one ELSE p

(* INGRESS_CLASS, else the file's, else the default, which is not "provided". *)
ClassLoaded == provided \/ cfgClass = Default

Init ==
    /\ \E envTwo \in Settings \cup {Unset, Half}, envOne, fileOne \in Settings \cup {Unset},
          fileTwo \in Settings \cup {NoPair} :
          LET p == mergeFileInstanceLabel(populateInstanceLabelFromEnv(envTwo, envOne), fileTwo, fileOne)
          IN  cfgKey = p.key /\ cfgValue = p.value
    /\ provided \in BOOLEAN /\ cfgClass \in Class /\ ClassLoaded
    /\ loaded = InUse
    /\ classes \in [Class -> IngressClass \cup {Absent}]
    /\ pc = "resolve"
    /\ edits = 0 /\ faults = 0 /\ restarts = 0
    /\ source = "none" /\ edited = FALSE /\ before = NoLabel

-----------------------------------------------------------------------------
IsConfigured == Complete([key |-> cfgKey, value |-> cfgValue])

validateKV(v) == v \notin Invalid \cup {Blank}

ResolveConfigured ==
    /\ pc = "resolve"
    /\ IsConfigured
    /\ pc' = IF validateKV(cfgValue) THEN "run" ELSE "failed"
    /\ source' = "configured"
    /\ UNCHANGED <<classes, cfgVars, edits, faults, restarts, edited, before>>

Existing == {c \in Class : classes[c] # Absent}

(* The class the user names, or those of the Traefik controller. *)
Candidates ==
    IF provided THEN Existing \cap {cfgClass}
                ELSE {c \in Existing : classes[c].traefik}

\* Mutant: of several candidates any will do.
ChosenAny(c) == c \in Candidates

Chosen(c) == Candidates = {c}

(* pickPreferredLabel: app, then app.kubernetes.io/instance. *)
PreferredKey(c) == IF classes[c].labels["app"] # Blank THEN "app" ELSE "instance"

Picked(c) == classes[c].labels[PreferredKey(c)]

\* Mutant: the name of the class found is not stored.
RememberedNot(c) == cfgClass

Remembered(c) == c

ResolveFromClass(c) ==
    /\ pc = "resolve"
    /\ ~IsConfigured
    /\ Chosen(c)
    /\ validateKV(Picked(c))
    /\ cfgKey' = PreferredKey(c) /\ cfgValue' = Picked(c) /\ cfgClass' = Remembered(c)
    /\ pc' = "run"
    /\ source' = "class"
    /\ UNCHANGED <<classes, provided, loaded, edits, faults, restarts, edited, before>>

(* No candidate, several, or one without a usable label. *)
ResolveFails ==
    /\ pc = "resolve"
    /\ ~IsConfigured
    /\ ~ \E c \in Class : Chosen(c) /\ validateKV(Picked(c))
    /\ pc' = "failed"
    /\ UNCHANGED <<classes, cfgVars, edits, faults, restarts, source, edited, before>>

\* Mutant: a mismatch is logged and the monitor goes on.
FatalNever == FALSE

Fatal == Strict

(* A failing Get or List ends start-up, or the monitor if it is strict. *)
CallFails ==
    /\ (pc = "resolve" /\ ~IsConfigured) \/ (pc = "run" /\ Fatal)
    /\ faults < MaxFaults
    /\ faults' = faults + 1
    /\ pc' = IF pc = "run" THEN "error" ELSE "failed"
    /\ UNCHANGED <<classes, cfgVars, edits, restarts, source, edited, before>>

Actual ==
    IF cfgClass \in Existing THEN classes[cfgClass].labels[cfgKey] ELSE Blank

Mismatch == Actual # cfgValue

(* A tick of the monitor that finds a mismatch; without Strict it is logged. *)
VerifyFails ==
    /\ pc = "run"
    /\ Mismatch
    /\ Fatal
    /\ pc' = "error"
    /\ UNCHANGED <<classes, cfgVars, edits, faults, restarts, source, edited, before>>

(* Administrators edit, create and delete IngressClasses. *)
EditClass(c) ==
    /\ edits < MaxEdits
    /\ edits' = edits + 1
    /\ classes' \in {[classes EXCEPT ![c] = x] : x \in IngressClass \cup {Absent}}
    /\ edited' = (edited \/ pc # "resolve")
    /\ before' = NoLabel
    /\ UNCHANGED <<cfgVars, pc, faults, restarts, source>>

Carried == IF source = "class" /\ ~edited THEN InUse ELSE NoLabel

(* The Pod is started again and loads the same settings. *)
Restart ==
    /\ pc # "resolve"
    /\ restarts < MaxRestarts
    /\ restarts' = restarts + 1
    /\ pc' = "resolve"
    /\ cfgClass' = loaded.class /\ cfgKey' = loaded.key /\ cfgValue' = loaded.value
    /\ source' = "none" /\ edited' = FALSE
    /\ before' = IF source = "none" THEN before ELSE Carried
    /\ UNCHANGED <<classes, provided, loaded, edits, faults>>

Next ==
    \/ ResolveConfigured \/ ResolveFails \/ CallFails \/ VerifyFails \/ Restart
    \/ \E c \in Class : ResolveFromClass(c) \/ EditClass(c)

Spec == Init /\ [][Next]_vars

(* The monitor's ticker fires. *)
FairSpec == Spec /\ WF_vars(VerifyFails)

-----------------------------------------------------------------------------
(***************************************************************************)
(* The strict monitor does not cry wolf: with a label found on a class     *)
(* that nobody has edited since, only a failing call can end the process.  *)
(***************************************************************************)
NoFalseAlarm ==
    pc = "error" /\ source = "class" => edited \/ faults > 0

(***************************************************************************)
(* A restart does not change the instance: as long as no IngressClass      *)
(* changes, the next process finds the same class, key and value as the    *)
(* one before, through start-ups that fail in between, and only a failing  *)
(* call keeps it from running.                                             *)
(***************************************************************************)
RestartFindsSame ==
    before # NoLabel =>
        /\ pc \in {"run", "error"} => InUse = before
        /\ pc = "failed" => faults > 0

(***************************************************************************)
(* A lasting mismatch is fatal when INGRESS_CLASS_LABEL_STRICT is set.     *)
(***************************************************************************)
MismatchIsFatal == <>[](Strict /\ pc = "run" => ~Mismatch)

=============================================================================
