---------------------------- MODULE PresetStore ----------------------------
(***************************************************************************)
(* The store of load-shape presets (pkg/presets/store.go, cultural.go) and *)
(* the handlers that change it: the built-in ones, which are never         *)
(* touched, and the custom ones in a map with a list of their creation     *)
(* order beside it.                                                        *)
(*                                                                         *)
(* An id is a word and the numbers put behind it: "sale" and <<1>> make    *)
(* sale_1.  The word "" is what slugify makes of a name without a letter   *)
(* or digit.                                                               *)
(***************************************************************************)
EXTENDS Integers, Sequences, SequencesExt

CONSTANTS
    Words,      \* what the ids begin with
    Slugs,      \* what slugify makes of the ids and names people give
    Shapes,     \* the shapes they give: sequences of [percent, multiplier], <<>> for none
    Baselines,  \* users they have normally
    MaxPresets  \* bound on the custom presets

PresetIds == [word : Words, numbers : Seq(Nat)]

(* What validatePreset has yet to look at. *)
ASSUME PresetConstants ==
    /\ {"custom_preset", "harbolnas", "gajian", "lebaran_mudik", "selebgram_viral"} \subseteq Words
    /\ Slugs \subseteq PresetIds
    /\ Shapes \subseteq Seq([percent : Int, multiplier : Int])
    /\ Baselines \subseteq Int /\ MaxPresets \in Nat

PresetId(word) == [word |-> word, numbers |-> <<>>]
Numbered(id, n) == [id EXCEPT !.numbers = Append(@, n)]

(* The ids of the four built-in presets. *)
Harbolnas == Numbered(PresetId("harbolnas"), 1212)
Gajian == Numbered(PresetId("gajian"), 25)
Builtin == {Harbolnas, Gajian, PresetId("lebaran_mudik"), PresetId("selebgram_viral")}

VARIABLES
    custom,       \* Store.custom: the presets by id
    presetOrder   \* Store.order

presetVars == <<custom, presetOrder>>

PresetInit == custom = <<>> /\ presetOrder = <<>>

SumOfPercent(shape) == SumFunctionOnSet([i \in DOMAIN shape |-> shape[i].percent], DOMAIN shape)

(* Of the rules, the one that needs counting: the name, the peak and the total
   are only looked at by themselves. *)
validatePreset(shape) ==
    shape # <<>> => /\ \A i \in DOMAIN shape : shape[i].percent >= 0 /\ shape[i].multiplier >= 0
                    /\ SumOfPercent(shape) = 100

idTaken(id) == id \in Builtin \cup DOMAIN custom

(* The given id if it is free, else the one made of the name, with a number
   behind it until it is free. *)
FreeId(id, name) ==
    LET wanted == IF id = PresetId("") \/ idTaken(id) THEN name ELSE id
        base == IF wanted = PresetId("") THEN PresetId("custom_preset") ELSE wanted
    IN IF ~idTaken(base) THEN base
       ELSE Numbered(base, CHOOSE n \in 1..(MaxPresets + Cardinality(Builtin)) :
                /\ ~idTaken(Numbered(base, n))
                /\ \A m \in 1..(n - 1) : idTaken(Numbered(base, m)))

CreatePreset(id, name, shape) ==
    LET new == FreeId(id, name) IN
    /\ Len(presetOrder) < MaxPresets
    /\ validatePreset(shape)
    /\ custom' = [i \in DOMAIN custom \cup {new} |-> IF i = new THEN shape ELSE custom[i]]
    /\ presetOrder' = Append(presetOrder, new)

UpdatePreset(id, shape) ==
    /\ id \notin Builtin /\ validatePreset(shape) /\ id \in DOMAIN custom
    /\ custom' = [custom EXCEPT ![id] = shape]
    /\ UNCHANGED presetOrder

(* Mutant: the id stays in the list *)
DeletePreset_KeepsOrder(id) ==
    /\ id \notin Builtin /\ id \in DOMAIN custom
    /\ custom' = [i \in DOMAIN custom \ {id} |-> custom[i]]
    /\ UNCHANGED presetOrder

DeletePreset(id) ==
    /\ id \notin Builtin /\ id \in DOMAIN custom
    /\ custom' = [i \in DOMAIN custom \ {id} |-> custom[i]]
    /\ presetOrder' = LET at == CHOOSE i \in DOMAIN presetOrder : presetOrder[i] = id
                      IN RemoveAt(presetOrder, at)

PresetNext ==
    \/ \E id, name \in Slugs, shape \in Shapes : CreatePreset(id, name, shape)
    \/ \E id \in DOMAIN custom \cup Builtin, shape \in Shapes : UpdatePreset(id, shape)
    \/ \E id \in DOMAIN custom \cup Builtin : DeletePreset(id)

PresetSpec == PresetInit /\ [][PresetNext]_presetVars

Stage(percent, users) == [percent |-> percent, users |-> users]

(* The stages of a preset: its own shape, or that of its kind. *)
BuildRampingStages(id, shape, peakMultiplier, baseline) ==
    LET peak == baseline * peakMultiplier IN
    IF shape # <<>>
    THEN [i \in DOMAIN shape |-> Stage(shape[i].percent, baseline * shape[i].multiplier)]
    ELSE CASE id \in {Harbolnas, PresetId("selebgram_viral")} ->
                <<Stage(5, peak), Stage(55, peak), Stage(25, baseline * 3), Stage(15, baseline)>>
           [] id = Gajian ->
                <<Stage(20, baseline * 2), Stage(15, peak), Stage(15, baseline * 2), Stage(20, peak), Stage(30, baseline)>>
           [] id = PresetId("lebaran_mudik") ->
                <<Stage(20, baseline * 2), Stage(20, (peak * 60) \div 100), Stage(40, peak), Stage(20, baseline)>>
           [] OTHER -> <<Stage(25, peak \div 2), Stage(50, peak), Stage(25, baseline)>>

(* The list names every custom preset once and nothing else, so that List
   finds what it looks up; no custom preset hides behind a built-in one; the
   stages of every preset fill its duration exactly. *)
PresetTypeOK ==
    /\ ToSet(presetOrder) = DOMAIN custom /\ IsInjective(presetOrder)
    /\ Builtin \cap DOMAIN custom = {}
    /\ \A id \in DOMAIN custom \cup Builtin, baseline \in Baselines :
          LET shape == IF id \in Builtin THEN <<>> ELSE custom[id]
          IN SumOfPercent(BuildRampingStages(id, shape, 5, baseline)) = 100
=============================================================================
