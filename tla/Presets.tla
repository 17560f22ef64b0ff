------------------------------- MODULE Presets -------------------------------
(***************************************************************************)
(* What a member keeps of the statistics page: date ranges saved under a    *)
(* name, and the range selected last, which may point at one of them.       *)
(* Every statement is a step.  statsprefs/.                                 *)
(***************************************************************************)
EXTENDS Naturals, FiniteSets

CONSTANTS StatOwners,   \* <<team, user>>: members, each with presets of one's own
          PresetSlots,  \* requests in flight at the same time
          MaxPresetId,  \* presets created at most, numbered as they are created
          maxPresetsPerTeamUser,
          LastDate      \* dates are 1 .. LastDate

ASSUME PresetsAssumption ==
    MaxPresetId \in Nat /\ LastDate \in Nat \ {0} /\ maxPresetsPerTeamUser \in Nat

VARIABLES presets,     \* id -> [owner, from, to]
          lastPreset,  \* the last id given to a preset
          selection,   \* owner -> [from, to, preset]; 0 for NULL
          presetReqs

presetVars == <<presets, lastPreset, selection, presetReqs>>

PresetIds == 1 .. MaxPresetId
Dates == 1 .. LastDate

-----------------------------------------------------------------------------
(* Calls; a bound left out of a patch is 0. *)

PresetCall == [op |-> "none", pc |-> "free", owner |-> <<>>, preset |-> 0,
               from |-> 0, to |-> 0]

InOrder(from, to) == from <= to

SetStatsPreferencesCalls ==
    {r \in [op : {"select"}, pc : {"check"}, owner : StatOwners,
            preset : PresetIds \union {0}, from : Dates, to : Dates] :
        InOrder(r.from, r.to)}
CreateStatsPresetCalls ==
    {r \in [op : {"create"}, pc : {"count"}, owner : StatOwners, preset : {0},
            from : Dates, to : Dates] : InOrder(r.from, r.to)}
UpdateStatsPresetCalls ==
    {r \in [op : {"update"}, pc : {"write"}, owner : StatOwners, preset : PresetIds,
            from : Dates \union {0}, to : Dates \union {0}] :
        r.to # 0 => InOrder(r.from, r.to)}
DeleteStatsPresetCalls ==
    [op : {"delete"}, pc : {"write"}, owner : StatOwners, preset : PresetIds,
     from : {0}, to : {0}]

PresetCalls == SetStatsPreferencesCalls \union CreateStatsPresetCalls
                 \union UpdateStatsPresetCalls \union DeleteStatsPresetCalls

Doing(s, op, pc) == presetReqs[s].op = op /\ presetReqs[s].pc = pc
Advance(s, pc) == presetReqs' = [presetReqs EXCEPT ![s].pc = pc]
Return(s) == presetReqs' = [presetReqs EXCEPT ![s] = PresetCall]

SubmitPreset(s, r) ==
    /\ presetReqs[s].pc = "free"
    /\ presetReqs' = [presetReqs EXCEPT ![s] = r]
    /\ UNCHANGED <<presets, lastPreset, selection>>

-----------------------------------------------------------------------------
(* The selection *)

\* Mutant: any preset will do, the foreign key knows it.
PresetExists_Anyones(o, id) == id \in DOMAIN presets
PresetExists(o, id) == id \in DOMAIN presets /\ presets[id].owner = o

CheckPreset(s) ==
    /\ Doing(s, "select", "check")
    /\ IF \/ presetReqs[s].preset = 0
          \/ PresetExists(presetReqs[s].owner, presetReqs[s].preset)
       THEN Advance(s, "write") ELSE Return(s)
    /\ UNCHANGED <<presets, lastPreset, selection>>

\* The foreign key refuses a preset deleted since it was looked up.
UpsertLastSelection(s) ==
    /\ Doing(s, "select", "write")
    /\ LET r == presetReqs[s]
       IN selection' = IF r.preset \in DOMAIN presets \union {0}
                       THEN [selection EXCEPT ![r.owner] =
                                [from |-> r.from, to |-> r.to, preset |-> r.preset]]
                       ELSE selection
    /\ Return(s)
    /\ UNCHANGED <<presets, lastPreset>>

-----------------------------------------------------------------------------
(* Presets *)

ListPresets(o) == {id \in DOMAIN presets : presets[id].owner = o}
CountPresets(o) == Cardinality(ListPresets(o))

AdmitPreset(s) ==
    /\ Doing(s, "create", "count")
    /\ IF CountPresets(presetReqs[s].owner) < maxPresetsPerTeamUser
       THEN Advance(s, "write") ELSE Return(s)
    /\ UNCHANGED <<presets, lastPreset, selection>>

InsertPreset(s) ==
    /\ Doing(s, "create", "write")
    /\ lastPreset < MaxPresetId
    /\ lastPreset' = lastPreset + 1
    /\ LET r == presetReqs[s]
       IN presets' = [id \in DOMAIN presets \union {lastPreset'} |->
                        IF id = lastPreset'
                        THEN [owner |-> r.owner, from |-> r.from, to |-> r.to]
                        ELSE presets[id]]
    /\ Return(s)
    /\ UNCHANGED selection

Patch(old, r) == [old EXCEPT !.from = IF r.from = 0 THEN @ ELSE r.from,
                             !.to = IF r.to = 0 THEN @ ELSE r.to]

\* One statement: COALESCE, the owner in its WHERE, the table's CHECK (to >= from).
UpdatePreset(s) ==
    /\ Doing(s, "update", "write")
    /\ LET r == presetReqs[s]
           hit == {id \in {r.preset} \cap ListPresets(r.owner) :
                       InOrder(Patch(presets[id], r).from, Patch(presets[id], r).to)}
       IN presets' = [id \in DOMAIN presets |->
                        IF id \in hit THEN Patch(presets[id], r) ELSE presets[id]]
    /\ Return(s)
    /\ UNCHANGED <<lastPreset, selection>>

\* ON DELETE SET NULL: a selection of it keeps the dates it was saved with.
DeletePreset(s) ==
    /\ Doing(s, "delete", "write")
    /\ LET gone == {presetReqs[s].preset} \cap ListPresets(presetReqs[s].owner)
       IN /\ presets' = [id \in DOMAIN presets \ gone |-> presets[id]]
          /\ selection' = [o \in DOMAIN selection |->
                [selection[o] EXCEPT !.preset = IF @ \in gone THEN 0 ELSE @]]
    /\ Return(s)
    /\ UNCHANGED lastPreset

-----------------------------------------------------------------------------

PresetStep(s) == CheckPreset(s) \/ UpsertLastSelection(s) \/ AdmitPreset(s)
                   \/ InsertPreset(s) \/ UpdatePreset(s) \/ DeletePreset(s)

PresetsNext(calls) ==
    \E s \in PresetSlots : PresetStep(s) \/ \E r \in calls : SubmitPreset(s, r)

PresetsInit ==
    /\ presets = [id \in {} |-> {}] /\ lastPreset = 0
    /\ selection = [o \in StatOwners |-> [from |-> 0, to |-> 0, preset |-> 0]]
    /\ presetReqs = [s \in PresetSlots |-> PresetCall]

PresetsSpec == PresetsInit /\ [][PresetsNext(PresetCalls)]_presetVars

-----------------------------------------------------------------------------

\* The range a member selected last points at a preset that exists and is the
\* member's own, whoever deletes it between the look-up and the write; and no range
\* runs backwards, whichever of its bounds overlapping patches move.
SelectionsOwn ==
    /\ \A o \in StatOwners :
          LET sel == selection[o]
          IN /\ InOrder(sel.from, sel.to)
             /\ sel.preset # 0 => sel.preset \in ListPresets(o)
    /\ \A id \in DOMAIN presets : InOrder(presets[id].from, presets[id].to)

=============================================================================
