---------------------------- MODULE ContentProofs ----------------------------
(***************************************************************************)
(* What no interleaving of requests about a team's content can break: the   *)
(* statistics page, polls, photos, calendars and lists read page by page.   *)
(***************************************************************************)
EXTENDS Presets, Reads, Photos, Pages, Calendars, FinancesProofs

-----------------------------------------------------------------------------
(* Presets and the selection.                                              *)

PresetRow == [owner : StatOwners, from : Dates, to : Dates]
SelectionRow == [from : Dates \cup {0}, to : Dates \cup {0}, preset : PresetIds \cup {0}]
PresetRequest ==
  [op : {"none", "select", "create", "update", "delete"},
   pc : {"free", "check", "count", "write"},
   owner : StatOwners \cup {<<>>}, preset : PresetIds \cup {0},
   from : Dates \cup {0}, to : Dates \cup {0}]

PresetTypeOK ==
  /\ lastPreset \in 0 .. MaxPresetId
  /\ DOMAIN presets \subseteq 1 .. lastPreset
  /\ presets \in [DOMAIN presets -> PresetRow]
  /\ selection \in [StatOwners -> SelectionRow]
  /\ presetReqs \in [PresetSlots -> PresetRequest]

\* What a request carries, by operation.
Carries(r) ==
  /\ r.op # "none" => r.owner \in StatOwners
  /\ r.op \in {"select", "create"} =>
       r.from \in Dates /\ r.to \in Dates /\ InOrder(r.from, r.to)

\* An id is given out once and a preset keeps its owner: what the look-up found is
\* still the member's own, or gone, when the selection is written.
FoundStaysOwn(r) ==
  r.op = "select" /\ r.pc = "write" /\ r.preset # 0 =>
    /\ r.preset <= lastPreset
    /\ r.preset \in DOMAIN presets => presets[r.preset].owner = r.owner

RequestsSound ==
  \A s \in PresetSlots : Carries(presetReqs[s]) /\ FoundStaysOwn(presetReqs[s])

PresetInv == PresetTypeOK /\ RequestsSound /\ SelectionsOwn

LEMMA PresetInvInit == PresetsInit => PresetInv
  BY PresetsAssumption DEF PresetsInit, PresetInv, PresetTypeOK, RequestsSound,
    FoundStaysOwn, SelectionsOwn, InOrder, PresetCall, Carries, SelectionRow, PresetRow,
    PresetRequest, Dates, PresetIds

\* A request that is advanced or answered stays well formed, and the others stay.
LEMMA PresetStepTyped ==
  ASSUME PresetTypeOK, RequestsSound, NEW s \in PresetSlots,
         NEW pc \in {"count", "check", "write"}, Advance(s, pc) \/ Return(s)
  PROVE  /\ presetReqs' \in [PresetSlots -> PresetRequest]
         /\ \A t \in PresetSlots : t # s => presetReqs'[t] = presetReqs[t]
         /\ Carries(presetReqs'[s])
         /\ Return(s) => presetReqs'[s] = PresetCall
         /\ Advance(s, pc) => /\ presetReqs'[s].op = presetReqs[s].op
                              /\ presetReqs'[s].owner = presetReqs[s].owner
                              /\ presetReqs'[s].preset = presetReqs[s].preset
<1> DEFINE r == presetReqs[s]
           q == [r EXCEPT !.pc = pc]
<1>1. presetReqs \in [PresetSlots -> PresetRequest] /\ r \in PresetRequest
  BY DEF PresetTypeOK
<1>2. /\ q \in PresetRequest
      /\ q.op = r.op /\ q.owner = r.owner /\ q.preset = r.preset
      /\ q.from = r.from /\ q.to = r.to
  BY <1>1 DEF PresetRequest
<1>3. PresetCall \in PresetRequest /\ Carries(PresetCall)
  BY DEF PresetCall, PresetRequest, Carries
<1>4. Carries(q)
  BY <1>2 DEF RequestsSound, Carries
<1>5. \/ presetReqs' = [presetReqs EXCEPT ![s] = q]
      \/ presetReqs' = [presetReqs EXCEPT ![s] = PresetCall]
  BY DEF Advance, Return
<1> HIDE DEF q
<1>6. Return(s) => presetReqs' = [presetReqs EXCEPT ![s] = PresetCall]
  BY DEF Return
<1>7. Advance(s, pc) => presetReqs' = [presetReqs EXCEPT ![s] = q]
  BY DEF Advance, q
<1> QED
  BY <1>1, <1>2, <1>3, <1>4, <1>5, <1>6, <1>7

\* When nothing but requests changes, only the request that moved is to be looked at.
LEMMA PresetsUntouched ==
  ASSUME PresetInv, NEW s \in PresetSlots,
         NEW pc \in {"count", "check", "write"}, Advance(s, pc) \/ Return(s),
         UNCHANGED <<presets, lastPreset, selection>>, FoundStaysOwn(presetReqs'[s])
  PROVE  PresetInv'
<1>1. PresetTypeOK'
  BY PresetStepTyped DEF PresetInv, PresetTypeOK
<1>2. RequestsSound'
  BY PresetStepTyped DEF PresetInv, RequestsSound, FoundStaysOwn, Carries
<1>3. SelectionsOwn'
  BY DEF PresetInv, SelectionsOwn, ListPresets
<1> QED
  BY <1>1, <1>2, <1>3 DEF PresetInv

LEMMA CheckPresetKeeps ==
  ASSUME PresetInv, NEW s \in PresetSlots, CheckPreset(s)
  PROVE  PresetInv'
<1>1. CASE Return(s)
  <2>1. FoundStaysOwn(presetReqs'[s])
    BY <1>1, PresetStepTyped DEF PresetInv, FoundStaysOwn, PresetCall
  <2> QED
    BY <1>1, <2>1, PresetsUntouched DEF CheckPreset
<1>2. CASE /\ Advance(s, "write")
           /\ presetReqs[s].preset # 0 =>
                PresetExists(presetReqs[s].owner, presetReqs[s].preset)
  <2>1. FoundStaysOwn(presetReqs'[s])
    BY <1>2, PresetStepTyped
      DEF PresetInv, PresetTypeOK, FoundStaysOwn, PresetExists, CheckPreset
  <2> QED
    BY <1>2, <2>1, PresetsUntouched DEF CheckPreset
<1> QED
  BY <1>1, <1>2 DEF CheckPreset

LEMMA AdmitPresetKeeps ==
  ASSUME PresetInv, NEW s \in PresetSlots, AdmitPreset(s)
  PROVE  PresetInv'
<1>1. Advance(s, "write") \/ Return(s)
  BY DEF AdmitPreset
<1>2. FoundStaysOwn(presetReqs'[s])
  BY <1>1, PresetStepTyped DEF PresetInv, FoundStaysOwn, AdmitPreset, Doing, PresetCall
<1> QED
  BY <1>1, <1>2, PresetsUntouched DEF AdmitPreset

LEMMA SubmitPresetKeeps ==
  ASSUME PresetInv, NEW s \in PresetSlots, NEW r \in PresetCalls, SubmitPreset(s, r)
  PROVE  PresetInv'
<1>1. r \in PresetRequest /\ Carries(r) /\ FoundStaysOwn(r)
  BY PresetsAssumption
    DEF PresetCalls, SetStatsPreferencesCalls, CreateStatsPresetCalls,
        UpdateStatsPresetCalls, DeleteStatsPresetCalls, PresetRequest, Carries,
        FoundStaysOwn
<1>2. presetReqs \in [PresetSlots -> PresetRequest]
  BY DEF PresetInv, PresetTypeOK
<1>3. /\ presetReqs' \in [PresetSlots -> PresetRequest]
      /\ \A t \in PresetSlots : presetReqs'[t] = IF t = s THEN r ELSE presetReqs[t]
  BY <1>1, <1>2 DEF SubmitPreset
<1>4. PresetTypeOK'
  BY <1>3 DEF PresetInv, PresetTypeOK, SubmitPreset
<1>5. RequestsSound'
  BY <1>1, <1>3 DEF PresetInv, RequestsSound, FoundStaysOwn, Carries, SubmitPreset
<1>6. SelectionsOwn'
  BY DEF PresetInv, SelectionsOwn, ListPresets, SubmitPreset
<1> QED
  BY <1>4, <1>5, <1>6 DEF PresetInv

\* The foreign key lets only an existing preset through, and what exists is the
\* member's own, because the look-up said so and ids are not used again.
LEMMA UpsertLastSelectionKeeps ==
  ASSUME PresetInv, NEW s \in PresetSlots, UpsertLastSelection(s)
  PROVE  PresetInv'
<1> DEFINE r == presetReqs[s]
           sel == [from |-> r.from, to |-> r.to, preset |-> r.preset]
<1>1. /\ r \in PresetRequest /\ Carries(r) /\ FoundStaysOwn(r)
      /\ r.op = "select" /\ r.pc = "write"
  BY DEF PresetInv, PresetTypeOK, RequestsSound, UpsertLastSelection, Doing
<1>2. /\ r.owner \in StatOwners /\ sel \in SelectionRow /\ InOrder(sel.from, sel.to)
  BY <1>1 DEF Carries, PresetRequest, SelectionRow
<1>3. \/ /\ selection' = [selection EXCEPT ![r.owner] = sel]
         /\ r.preset \in DOMAIN presets \union {0}
      \/ selection' = selection
  BY DEF UpsertLastSelection
<1>4. Return(s)
  BY DEF UpsertLastSelection
<1>5. PresetTypeOK'
  BY <1>2, <1>3, <1>4, PresetStepTyped DEF PresetInv, PresetTypeOK, UpsertLastSelection
<1>6. RequestsSound'
  BY <1>4, PresetStepTyped
    DEF PresetInv, RequestsSound, FoundStaysOwn, Carries, UpsertLastSelection, PresetCall
<1>7. ASSUME NEW o \in StatOwners
      PROVE  /\ InOrder(selection'[o].from, selection'[o].to)
             /\ selection'[o].preset # 0 => selection'[o].preset \in ListPresets(o)
  <2>1. CASE selection'[o] = selection[o]
    BY <2>1 DEF PresetInv, SelectionsOwn
  <2>2. CASE o = r.owner /\ selection'[o] = sel /\ r.preset \in DOMAIN presets \union {0}
    BY <1>1, <1>2, <2>2 DEF FoundStaysOwn, ListPresets
  <2> QED
    BY <1>3, <2>1, <2>2 DEF PresetInv, PresetTypeOK
<1>8. SelectionsOwn'
  BY <1>7 DEF PresetInv, SelectionsOwn, ListPresets, UpsertLastSelection
<1> QED
  BY <1>5, <1>6, <1>8 DEF PresetInv

\* A new preset has an id nobody has looked up.
LEMMA InsertPresetKeeps ==
  ASSUME PresetInv, NEW s \in PresetSlots, InsertPreset(s)
  PROVE  PresetInv'
<1> DEFINE r == presetReqs[s]
           id == lastPreset + 1
           row == [owner |-> r.owner, from |-> r.from, to |-> r.to]
<1>1. r \in PresetRequest /\ Carries(r) /\ r.op = "create" /\ Return(s)
  BY DEF PresetInv, PresetTypeOK, RequestsSound, InsertPreset, Doing
<1>2. row \in PresetRow /\ InOrder(row.from, row.to)
  BY <1>1 DEF Carries, PresetRequest, PresetRow
<1>3. /\ lastPreset' = id /\ id \in 1 .. MaxPresetId /\ lastPreset \in Nat
      /\ id \notin DOMAIN presets
      /\ DOMAIN presets' = DOMAIN presets \cup {id}
      /\ \A x \in DOMAIN presets : presets'[x] = presets[x]
      /\ presets'[id] = row
  BY PresetsAssumption DEF PresetInv, PresetTypeOK, InsertPreset
<1>4. PresetTypeOK'
  <2>1. presets' \in [DOMAIN presets' -> PresetRow]
    <3>1. presets' = [x \in DOMAIN presets' |-> presets'[x]]
      BY DEF InsertPreset
    <3>2. \A x \in DOMAIN presets' : presets'[x] \in PresetRow
      BY <1>2, <1>3 DEF PresetInv, PresetTypeOK
    <3> QED
      BY <3>1, <3>2
  <2>2. lastPreset' \in 0 .. MaxPresetId /\ DOMAIN presets' \subseteq 1 .. lastPreset'
    BY <1>3, PresetsAssumption DEF PresetInv, PresetTypeOK
  <2> QED
    BY <1>1, <2>1, <2>2, PresetStepTyped DEF PresetInv, PresetTypeOK, InsertPreset
<1>5. RequestsSound'
  <2>1. ASSUME NEW t \in PresetSlots
        PROVE  Carries(presetReqs[t])' /\ FoundStaysOwn(presetReqs[t])'
    <3>1. CASE t = s
      BY <1>1, <3>1, PresetStepTyped DEF PresetInv, FoundStaysOwn, Carries, PresetCall
    <3>2. CASE t # s
      BY <1>1, <1>3, <3>2, PresetStepTyped
        DEF PresetInv, RequestsSound, FoundStaysOwn, Carries, PresetTypeOK, PresetRequest,
            PresetIds
    <3> QED
      BY <3>1, <3>2
  <2> QED
    BY <2>1 DEF RequestsSound
<1>6. SelectionsOwn'
  BY <1>2, <1>3 DEF PresetInv, SelectionsOwn, ListPresets, InsertPreset, InOrder
<1> QED
  BY <1>4, <1>5, <1>6 DEF PresetInv

LEMMA UpdatePresetKeeps ==
  ASSUME PresetInv, NEW s \in PresetSlots, UpdatePreset(s)
  PROVE  PresetInv'
<1> DEFINE r == presetReqs[s]
<1>1. r \in PresetRequest /\ Return(s)
  BY DEF PresetInv, PresetTypeOK, UpdatePreset
<1>2. ASSUME NEW id \in DOMAIN presets
      PROVE  /\ Patch(presets[id], r) \in PresetRow
             /\ Patch(presets[id], r).owner = presets[id].owner
  <2>1. presets[id] \in PresetRow
    BY DEF PresetInv, PresetTypeOK
  <2>2. r.from \in Dates \cup {0} /\ r.to \in Dates \cup {0}
    BY <1>1 DEF PresetRequest
  <2> HIDE DEF r
  <2>3. /\ (IF r.from = 0 THEN presets[id].from ELSE r.from) \in Dates
        /\ (IF r.to = 0 THEN presets[id].to ELSE r.to) \in Dates
    BY <2>1, <2>2 DEF PresetRow
  <2> QED
    BY <2>1, <2>3 DEF PresetRow, Patch
<1>3. /\ DOMAIN presets' = DOMAIN presets
      /\ presets' = [x \in DOMAIN presets' |-> presets'[x]]
      /\ \A id \in DOMAIN presets :
           \/ presets'[id] = presets[id]
           \/ /\ presets'[id] = Patch(presets[id], r)
              /\ InOrder(Patch(presets[id], r).from, Patch(presets[id], r).to)
  <2> DEFINE hit == {id \in {r.preset} \cap ListPresets(r.owner) :
                       InOrder(Patch(presets[id], r).from, Patch(presets[id], r).to)}
  <2>1. presets' = [id \in DOMAIN presets |->
                      IF id \in hit THEN Patch(presets[id], r) ELSE presets[id]]
    BY DEF UpdatePreset
  <2>2. \A id \in hit : InOrder(Patch(presets[id], r).from, Patch(presets[id], r).to)
    OBVIOUS
  <2> HIDE DEF hit
  <2> QED
    BY <2>1, <2>2
<1>4. \A id \in DOMAIN presets :
        /\ presets'[id] \in PresetRow
        /\ presets'[id].owner = presets[id].owner
        /\ InOrder(presets'[id].from, presets'[id].to)
  BY <1>2, <1>3 DEF PresetInv, PresetTypeOK, SelectionsOwn
<1>5. PresetTypeOK'
  <2>1. presets' \in [DOMAIN presets' -> PresetRow]
    BY <1>3, <1>4
  <2> QED
    BY <1>1, <1>3, <2>1, PresetStepTyped DEF PresetInv, PresetTypeOK, UpdatePreset
<1>6. RequestsSound'
  BY <1>1, <1>3, <1>4, PresetStepTyped
    DEF PresetInv, RequestsSound, FoundStaysOwn, Carries, UpdatePreset, PresetCall
<1>7. SelectionsOwn'
  BY <1>3, <1>4 DEF PresetInv, SelectionsOwn, ListPresets, UpdatePreset
<1> QED
  BY <1>5, <1>6, <1>7 DEF PresetInv

\* Deleting sets the selections that pointed at the preset to none.
LEMMA DeletePresetKeeps ==
  ASSUME PresetInv, NEW s \in PresetSlots, DeletePreset(s)
  PROVE  PresetInv'
<1> DEFINE gone == {presetReqs[s].preset} \cap ListPresets(presetReqs[s].owner)
           fixed(sel) == [sel EXCEPT !.preset = IF @ \in gone THEN 0 ELSE @]
<1>1. Return(s) /\ gone \subseteq DOMAIN presets
  BY DEF DeletePreset, ListPresets
<1> HIDE DEF gone
<1>2. /\ DOMAIN presets' = DOMAIN presets \ gone
      /\ presets' = [x \in DOMAIN presets' |-> presets'[x]]
      /\ \A id \in DOMAIN presets' : presets'[id] = presets[id]
  BY DEF DeletePreset, gone
<1>3. \A sel \in SelectionRow :
        /\ fixed(sel) \in SelectionRow
        /\ fixed(sel).from = sel.from /\ fixed(sel).to = sel.to
        /\ fixed(sel).preset = IF sel.preset \in gone THEN 0 ELSE sel.preset
  BY DEF SelectionRow
<1>4. selection' = [o \in DOMAIN selection |-> fixed(selection[o])]
  BY DEF DeletePreset, gone
<1> HIDE DEF fixed
<1>5. /\ selection \in [StatOwners -> SelectionRow]
      /\ selection' \in [StatOwners -> SelectionRow]
      /\ \A o \in StatOwners : selection'[o] = fixed(selection[o])
  BY <1>3, <1>4 DEF PresetInv, PresetTypeOK
<1>6. PresetTypeOK'
  <2>1. presets' \in [DOMAIN presets' -> PresetRow] /\ DOMAIN presets' \subseteq 1 .. lastPreset
    BY <1>2 DEF PresetInv, PresetTypeOK
  <2> QED
    BY <1>1, <1>5, <2>1, PresetStepTyped DEF PresetInv, PresetTypeOK, DeletePreset
<1>7. RequestsSound'
  BY <1>1, <1>2, PresetStepTyped
    DEF PresetInv, RequestsSound, FoundStaysOwn, Carries, DeletePreset, PresetCall
<1>8. SelectionsOwn'
  <2>1. \A o \in StatOwners :
          /\ selection[o] \in SelectionRow
          /\ InOrder(selection[o].from, selection[o].to)
          /\ selection[o].preset # 0 => selection[o].preset \in ListPresets(o)
    BY <1>5 DEF PresetInv, SelectionsOwn
  <2>2. \A o \in StatOwners :
          /\ InOrder(selection'[o].from, selection'[o].to)
          /\ selection'[o].preset # 0 => selection'[o].preset \in ListPresets(o)'
    BY <1>2, <1>3, <1>5, <2>1 DEF ListPresets
  <2>3. \A id \in DOMAIN presets' : InOrder(presets'[id].from, presets'[id].to)
    BY <1>2 DEF PresetInv, SelectionsOwn
  <2> QED
    BY <2>2, <2>3 DEF SelectionsOwn, ListPresets
<1> QED
  BY <1>6, <1>7, <1>8 DEF PresetInv

\* The selection a member saved points at a preset of the member's own that exists,
\* and no range runs backwards, for any number of members, presets and requests in
\* flight. (statsprefs.Service.SetPreferences, UpdatePreset, DeletePreset.)
THEOREM SelectionsStayOwn == PresetsSpec => []SelectionsOwn
<1>1. ASSUME PresetInv, [PresetsNext(PresetCalls)]_presetVars
      PROVE  PresetInv'
  <2>1. CASE UNCHANGED presetVars
    BY <1>1, <2>1
      DEF PresetInv, PresetTypeOK, RequestsSound, FoundStaysOwn, Carries, SelectionsOwn,
          ListPresets, presetVars
  <2>2. ASSUME NEW s \in PresetSlots, PresetStep(s)
        PROVE  PresetInv'
    BY <1>1, <2>2, CheckPresetKeeps, UpsertLastSelectionKeeps, AdmitPresetKeeps,
      InsertPresetKeeps, UpdatePresetKeeps, DeletePresetKeeps DEF PresetStep
  <2>3. ASSUME NEW s \in PresetSlots, NEW r \in PresetCalls, SubmitPreset(s, r)
        PROVE  PresetInv'
    BY <1>1, <2>3, SubmitPresetKeeps
  <2> QED
    BY <1>1, <2>1, <2>2, <2>3 DEF PresetsNext
<1>2. PresetInv => SelectionsOwn
  BY DEF PresetInv
<1> QED
  BY <1>1, <1>2, PresetInvInit, PTL DEF PresetsSpec

-----------------------------------------------------------------------------
(* Polls.                                                                  *)

Ballots == [poll : PollIds, option : Options, user : PollUsers]

PollFields ==
  {"op", "pc", "team", "user", "poll", "multiple", "anonymous", "options", "picks",
   "lock", "gone", "cast", "snap", "page", "opts", "answer"}

PollTypeOK ==
  /\ lastPoll \in 0 .. MaxPollId
  /\ DOMAIN polls \subseteq 1 .. lastPoll
  /\ votes \subseteq Ballots
  /\ DOMAIN pollReqs = PollSlots
  /\ \A s \in PollSlots : DOMAIN pollReqs[s] = PollFields

AtMostOne(S) == \A x, y \in S : x = y
Chosen(cast) == {v.option : v \in cast}

Voting == {"find", "lock", "clear", "cast"}

\* What a voter chose fits the poll, however long the request has been waiting: a
\* poll's row never changes, and its id is not used again.
ChoiceFits(r) ==
  /\ r.poll \in 1 .. lastPoll
  /\ r.poll \in DOMAIN polls =>
       polls[r.poll].multiple \/ AtMostOne(r.picks \cup Chosen(r.cast))

\* What a voting request holds: the lock while it writes, and, once it has cleared
\* the voter's ballots of the poll, all of them.
VoteSound(r) ==
  /\ r.lock <=> r.pc \in {"clear", "cast"}
  /\ r.pc \in Voting => r.op = "vote" /\ r.user \in PollUsers /\ r.picks \subseteq Options
  /\ r.pc \in {"lock", "clear", "cast"} => ChoiceFits(r)
  /\ r.pc # "cast" => r.cast = {} /\ r.gone = {}
  /\ r.pc = "cast" =>
       /\ \A v \in r.cast : /\ v \in Ballots /\ v.poll = r.poll /\ v.user = r.user
                            /\ v.option \in OptionsOf(polls, r.poll)
       /\ \A v \in votes : v.poll = r.poll /\ v.user = r.user => v \in r.gone

\* One writer per voter and poll.
OneWriter ==
  \A s, o \in PollSlots :
    /\ pollReqs[s].lock /\ pollReqs[o].lock
    /\ pollReqs[s].poll = pollReqs[o].poll /\ pollReqs[s].user = pollReqs[o].user
    => s = o

PollInv ==
  /\ PollTypeOK
  /\ \A s \in PollSlots : VoteSound(pollReqs[s])
  /\ OneWriter
  /\ OneChoice

LEMMA PollInvInit == PollsInit => PollInv
<1> SUFFICES ASSUME PollsInit PROVE PollInv
  OBVIOUS
<1>1. /\ \A s \in PollSlots : pollReqs[s] = PollCall
      /\ DOMAIN pollReqs = PollSlots
      /\ DOMAIN polls = {} /\ lastPoll = 0 /\ votes = {}
  BY DEF PollsInit
<1>2. DOMAIN PollCall = PollFields /\ ~PollCall.lock /\ VoteSound(PollCall)
  <2>1. DOMAIN PollCall = PollFields
    BY DEF PollFields, PollCall
  <2>2. /\ PollCall.pc = "free" /\ PollCall.lock = FALSE
        /\ PollCall.cast = {} /\ PollCall.gone = {}
    BY DEF PollCall
  <2> QED
    BY <2>1, <2>2 DEF VoteSound, Voting
<1>3. PollTypeOK
  BY <1>1, <1>2, PollsAssumption DEF PollTypeOK
<1>4. OneWriter
  BY <1>1, <1>2, Zenon DEF OneWriter
<1>5. OneChoice
  BY <1>1 DEF OneChoice
<1> QED
  BY <1>1, <1>2, <1>3, <1>4, <1>5 DEF PollInv

\* Two choices at most one: what AdmitVote counts.
LEMMA CountedOnce ==
  ASSUME NEW S \in SUBSET Options, Cardinality(S) <= 1
  PROVE  AtMostOne(S)
<1>1. IsFiniteSet(Options)
  <2>1. IsFiniteSet(PollIds) /\ IsFiniteSet(1 .. MaxOptions)
    BY PollsAssumption, FS_Interval DEF PollIds
  <2> QED
    BY <2>1, FS_Product DEF Options
<1>2. IsFiniteSet(S) /\ Cardinality(S) \in Nat
  BY <1>1, FS_Subset, FS_CardinalityType
<1>3. CASE Cardinality(S) = 0
  BY <1>2, <1>3, FS_EmptySet DEF AtMostOne
<1>4. CASE Cardinality(S) = 1
  <2>1. \E x : S = {x}
    BY <1>2, <1>4, FS_Singleton
  <2> QED
    BY <2>1 DEF AtMostOne
<1> QED
  BY <1>2, <1>3, <1>4

LEMMA VoteStaysSound ==
  ASSUME NEW s \in PollSlots, NEW q, VoteSound(q), pollReqs'[s] = q,
         polls' = polls, lastPoll' = lastPoll, votes' = votes
  PROVE  VoteSound(pollReqs[s])'
<1>1. ChoiceFits(q) => ChoiceFits(pollReqs[s])'
  BY DEF ChoiceFits
<1> QED
  BY <1>1 DEF VoteSound, OptionsOf

\* When only the request of one slot changes, only it is to be looked at.
LEMMA RequestMoves ==
  ASSUME PollInv, NEW s \in PollSlots, NEW q, DOMAIN q = PollFields,
         pollReqs' = [pollReqs EXCEPT ![s] = q], UNCHANGED <<polls, lastPoll, votes>>,
         VoteSound(q),
         q.lock => \A o \in PollSlots \ {s} :
           ~(pollReqs[o].lock /\ pollReqs[o].poll = q.poll /\ pollReqs[o].user = q.user)
  PROVE  PollInv'
<1>1. /\ DOMAIN pollReqs' = PollSlots /\ pollReqs'[s] = q
      /\ \A o \in PollSlots : o # s => pollReqs'[o] = pollReqs[o]
  BY DEF PollInv, PollTypeOK
<1>2. PollTypeOK'
  BY <1>1 DEF PollInv, PollTypeOK
<1>3. \A o \in PollSlots : VoteSound(pollReqs[o])'
  <2>1. TAKE o \in PollSlots
  <2>2. VoteSound(pollReqs[o]) /\ VoteSound(q)
    BY DEF PollInv
  <2>3. pollReqs'[o] = q \/ pollReqs'[o] = pollReqs[o]
    BY <1>1
  <2> QED
    BY <2>2, <2>3, VoteStaysSound
<1>4. OneWriter'
  <2>1. SUFFICES ASSUME NEW a \in PollSlots, NEW o \in PollSlots,
                        pollReqs'[a].lock, pollReqs'[o].lock,
                        pollReqs'[a].poll = pollReqs'[o].poll,
                        pollReqs'[a].user = pollReqs'[o].user
                 PROVE  a = o
    BY Zenon DEF OneWriter
  <2>2. CASE a # s /\ o # s
    BY <1>1, <2>1, <2>2, Zenon DEF PollInv, OneWriter
  <2>3. CASE a = s
    BY <1>1, <2>1, <2>3, Zenon
  <2>4. CASE o = s
    <3>1. a # s => /\ pollReqs[a].lock /\ pollReqs[a].poll = q.poll
                   /\ pollReqs[a].user = q.user /\ q.lock
      BY <1>1, <2>1, <2>4, Zenon
    <3> QED
      BY <2>4, <3>1, Zenon
  <2> QED
    BY <2>2, <2>3, <2>4
<1>5. OneChoice'
  BY DEF PollInv, OneChoice, OptionsOf
<1> QED
  BY <1>2, <1>3, <1>4, <1>5 DEF PollInv

\* A request that is not voting, or that is over, holds nothing.
LEMMA RequestRests ==
  ASSUME PollInv, NEW s \in PollSlots, NEW q, DOMAIN q = PollFields,
         pollReqs' = [pollReqs EXCEPT ![s] = q], UNCHANGED <<polls, lastPoll, votes>>,
         q.pc \notin Voting, ~q.lock, q.cast = {}, q.gone = {}
  PROVE  PollInv'
<1>1. VoteSound(q)
  BY DEF VoteSound, Voting
<1> QED
  BY <1>1, RequestMoves

LEMMA PollCallRests ==
  /\ DOMAIN PollCall = PollFields
  /\ PollCall.pc = "free" /\ ~PollCall.lock
  /\ PollCall.cast = {} /\ PollCall.gone = {}
<1>1. DOMAIN PollCall = PollFields
  BY DEF PollFields, PollCall
<1>2. PollCall.pc = "free" /\ ~PollCall.lock /\ PollCall.cast = {} /\ PollCall.gone = {}
  BY DEF PollCall
<1> QED
  BY <1>1, <1>2

LEMMA EndPollKeeps ==
  ASSUME PollInv, NEW s \in PollSlots, EndPoll(s), UNCHANGED <<polls, lastPoll, votes>>
  PROVE  PollInv'
<1>1. pollReqs' = [pollReqs EXCEPT ![s] = PollCall]
  BY DEF EndPoll
<1>2. "free" \notin Voting
  BY DEF Voting
<1> QED
  BY <1>1, <1>2, PollCallRests, RequestRests

\* The steps of a request that does not write.
LEMMA ReadingKeeps ==
  ASSUME PollInv, NEW s \in PollSlots,
         \/ AdmitPoll(s) \/ Refetch(s) \/ BuildPoll(s) \/ AssemblePage(s)
         \/ PageOptions(s) \/ PageVotes(s) \/ AnswerPolls(s) \/ AbortPoll(s)
  PROVE  PollInv'
<1> DEFINE r == pollReqs[s]
<1>1. DOMAIN r = PollFields /\ VoteSound(r)
  BY DEF PollInv, PollTypeOK
<1>2. UNCHANGED <<polls, lastPoll, votes>>
  BY DEF AdmitPoll, Refetch, BuildPoll, AssemblePage, PageOptions, PageVotes, AnswerPolls,
    AbortPoll
<1>3. r.pc \notin {"clear", "cast"} => ~r.lock /\ r.cast = {} /\ r.gone = {}
  BY <1>1 DEF VoteSound
<1>4. EndPoll(s) => PollInv'
  BY <1>2, EndPollKeeps
<1>5. ASSUME NEW pc \in {"insert", "options"}, r.pc \in {"count", "refetch"}, PollTo(s, pc)
      PROVE  PollInv'
  <2> DEFINE q == [r EXCEPT !.pc = pc]
  <2>1. /\ DOMAIN q = PollFields /\ q.pc = pc /\ q.lock = r.lock
        /\ q.cast = r.cast /\ q.gone = r.gone
    BY <1>1 DEF PollFields
  <2>2. pollReqs' = [pollReqs EXCEPT ![s] = q]
    BY <1>5 DEF PollTo
  <2> HIDE DEF q
  <2> QED
    BY <1>2, <1>3, <1>5, <2>1, <2>2, RequestRests DEF Voting
<1>6. CASE AdmitPoll(s)
  BY <1>4, <1>5, <1>6 DEF AdmitPoll, PollPc
<1>7. CASE Refetch(s)
  BY <1>4, <1>5, <1>7 DEF Refetch, PollPc
<1>8. CASE BuildPoll(s) /\ r.pc = "options"
  <2> DEFINE q == [r EXCEPT !.pc = "votes", !.opts = ListOptions(r.poll)]
  <2>1. /\ DOMAIN q = PollFields /\ q.pc = "votes" /\ q.lock = r.lock
        /\ q.cast = r.cast /\ q.gone = r.gone
    BY <1>1 DEF PollFields
  <2>2. pollReqs' = [pollReqs EXCEPT ![s] = q] /\ r.pc = "options"
    BY <1>8 DEF BuildPoll, PollPc
  <2> HIDE DEF q
  <2> QED
    BY <1>2, <1>3, <2>1, <2>2, RequestRests DEF Voting
<1>9. CASE BuildPoll(s) /\ r.pc # "options"
  BY <1>4, <1>9 DEF BuildPoll, PollPc
<1>10. CASE AssemblePage(s)
  <2>1. PICK db, found :
          pollReqs' = [pollReqs EXCEPT ![s].pc = "page", ![s].snap = db,
                                       ![s].page = found]
    BY <1>10, Zenon DEF AssemblePage
  <2> DEFINE q == [r EXCEPT !.pc = "page", !.snap = db, !.page = found]
  <2>2. /\ DOMAIN q = PollFields /\ q.pc = "page" /\ q.lock = r.lock
        /\ q.cast = r.cast /\ q.gone = r.gone
    BY <1>1 DEF PollFields
  <2>3. pollReqs' = [pollReqs EXCEPT ![s] = q] /\ r.pc = "begin"
    BY <1>10, <2>1 DEF AssemblePage, PollPc
  <2> HIDE DEF q
  <2> QED
    BY <1>2, <1>3, <2>2, <2>3, RequestRests DEF Voting
<1>11. CASE PageOptions(s)
  <2> DEFINE q == [r EXCEPT !.pc = "tally",
                        !.opts = ListOptionsByPollIDs(ReadTx(s).polls, PageIds(s))]
  <2>1. /\ DOMAIN q = PollFields /\ q.pc = "tally" /\ q.lock = r.lock
        /\ q.cast = r.cast /\ q.gone = r.gone
    BY <1>1 DEF PollFields
  <2>2. pollReqs' = [pollReqs EXCEPT ![s] = q] /\ r.pc = "page"
    BY <1>11 DEF PageOptions, PollPc
  <2> HIDE DEF q
  <2> QED
    BY <1>2, <1>3, <2>1, <2>2, RequestRests DEF Voting
<1>12. CASE PageVotes(s)
  <2>1. PICK answer :
          pollReqs' = [pollReqs EXCEPT ![s].pc = "answered", ![s].answer = answer]
    BY <1>12, Zenon DEF PageVotes
  <2> DEFINE q == [r EXCEPT !.pc = "answered", !.answer = answer]
  <2>2. /\ DOMAIN q = PollFields /\ q.pc = "answered" /\ q.lock = r.lock
        /\ q.cast = r.cast /\ q.gone = r.gone
    BY <1>1 DEF PollFields
  <2>3. pollReqs' = [pollReqs EXCEPT ![s] = q] /\ r.pc = "tally"
    BY <1>12, <2>1 DEF PageVotes, PollPc
  <2> HIDE DEF q
  <2> QED
    BY <1>2, <1>3, <2>2, <2>3, RequestRests DEF Voting
<1>13. CASE AnswerPolls(s) \/ AbortPoll(s)
  BY <1>4, <1>13 DEF AnswerPolls, AbortPoll
<1> QED
  BY <1>6, <1>7, <1>8, <1>9, <1>10, <1>11, <1>12, <1>13

LEMMA SubmitPollKeeps ==
  ASSUME PollInv, NEW s \in PollSlots, NEW r \in PollCalls, SubmitPoll(s, r)
  PROVE  PollInv'
<1> DEFINE Unread(q) ==
      /\ DOMAIN q = PollFields
      /\ q.pc \in {"count", "find", "delete", "begin"} /\ ~q.lock
      /\ q.cast = {} /\ q.gone = {}
      /\ q.pc = "find" => q.op = "vote" /\ q.user \in PollUsers /\ q.picks \subseteq Options
<1>1. ASSUME NEW t, NEW u, NEW m, NEW a, NEW n
      PROVE  Unread(CreatePollCall(t, u, m, a, n))
  <2> DEFINE q == CreatePollCall(t, u, m, a, n)
  <2>1. DOMAIN q = PollFields
    BY PollCallRests DEF CreatePollCall
  <2>2. q.pc = "count" /\ q.op = "create" /\ q.lock = FALSE
    BY DEF CreatePollCall, PollCall
  <2>3. q.cast = {} /\ q.gone = {}
    BY DEF CreatePollCall, PollCall
  <2> QED
    BY <2>1, <2>2, <2>3
<1>2. ASSUME NEW t, NEW u \in PollUsers, NEW p, NEW o \in SUBSET Options
      PROVE  Unread(VotePollCall(t, u, p, o))
  <2> DEFINE q == VotePollCall(t, u, p, o)
  <2>1. DOMAIN q = PollFields
    BY PollCallRests DEF VotePollCall
  <2>2. q.pc = "find" /\ q.op = "vote" /\ q.user = u /\ q.lock = FALSE
    BY DEF VotePollCall, PollCall
  <2>3. q.cast = {} /\ q.gone = {} /\ q.picks = o
    BY DEF VotePollCall, PollCall
  <2> QED
    BY <2>1, <2>2, <2>3
<1>3. ASSUME NEW t, NEW p
      PROVE  Unread(DeletePollCall(t, p))
  <2> DEFINE q == DeletePollCall(t, p)
  <2>1. DOMAIN q = PollFields
    BY PollCallRests DEF DeletePollCall
  <2>2. q.pc = "delete" /\ q.op = "delete" /\ q.lock = FALSE
    BY DEF DeletePollCall, PollCall
  <2>3. q.cast = {} /\ q.gone = {}
    BY DEF DeletePollCall, PollCall
  <2> QED
    BY <2>1, <2>2, <2>3
<1>4. ASSUME NEW t, NEW u, NEW c
      PROVE  Unread(ListPollsCall(t, u, c))
  <2> DEFINE q == ListPollsCall(t, u, c)
  <2>1. DOMAIN q = PollFields
    BY PollCallRests DEF ListPollsCall
  <2>2. q.pc = "begin" /\ q.op = "list" /\ q.lock = FALSE
    BY DEF ListPollsCall, PollCall
  <2>3. q.cast = {} /\ q.gone = {}
    BY DEF ListPollsCall, PollCall
  <2> QED
    BY <2>1, <2>2, <2>3
<1>5. Unread(r)
  <2> HIDE DEF Unread
  <2>1. r \in CreatePollCalls => Unread(r)
    BY <1>1 DEF CreatePollCalls
  <2>2. r \in VotePollCalls => Unread(r)
    BY <1>2 DEF VotePollCalls
  <2>3. r \in DeletePollCalls => Unread(r)
    BY <1>3 DEF DeletePollCalls
  <2>4. r \in ListPollsCalls => Unread(r)
    BY <1>4 DEF ListPollsCalls
  <2> QED
    BY <2>1, <2>2, <2>3, <2>4 DEF PollCalls
<1>6. VoteSound(r)
  BY <1>5 DEF VoteSound, Voting
<1> QED
  BY <1>5, <1>6, RequestMoves DEF SubmitPoll

\* A new poll has an id no request waits for.
LEMMA CreatePollKeeps ==
  ASSUME PollInv, NEW s \in PollSlots, CreatePoll(s)
  PROVE  PollInv'
<1> DEFINE r == pollReqs[s]
           id == lastPoll + 1
           q == [r EXCEPT !.pc = "options", !.poll = id]
<1>1. DOMAIN r = PollFields /\ VoteSound(r) /\ r.pc = "insert"
  BY DEF PollInv, PollTypeOK, CreatePoll, PollPc
<1>2. /\ DOMAIN q = PollFields /\ q.pc = "options" /\ q.lock = r.lock
      /\ q.cast = r.cast /\ q.gone = r.gone
  BY <1>1 DEF PollFields
<1>3. ~q.lock /\ VoteSound(q)
  BY <1>1, <1>2 DEF VoteSound, Voting
<1>4. /\ pollReqs' = [pollReqs EXCEPT ![s] = q]
      /\ lastPoll' = id /\ votes' = votes /\ id \in 1 .. MaxPollId
      /\ DOMAIN polls' = DOMAIN polls \cup {id}
      /\ \A x \in DOMAIN polls : x # id => polls'[x] = polls[x]
  <2>1. polls' = [x \in DOMAIN polls \union {id} |->
                     IF x = id THEN PollRow(r) ELSE polls[x]]
    BY DEF CreatePoll
  <2>2. pollReqs' = [pollReqs EXCEPT ![s] = q]
    BY DEF CreatePoll
  <2>3. lastPoll' = id /\ votes' = votes /\ id \in 1 .. MaxPollId
    BY PollsAssumption DEF CreatePoll, PollInv, PollTypeOK
  <2> QED
    BY <2>1, <2>2, <2>3
<1> HIDE DEF q
<1>5. /\ DOMAIN pollReqs' = PollSlots /\ pollReqs'[s] = q
      /\ \A o \in PollSlots : o # s => pollReqs'[o] = pollReqs[o]
  BY <1>4 DEF PollInv, PollTypeOK
<1>6. lastPoll \in Nat /\ \A x \in DOMAIN polls : x \in 1 .. lastPoll /\ x # id
  BY DEF PollInv, PollTypeOK
<1>7. ASSUME NEW x \in 1 .. lastPoll
      PROVE  /\ x \in DOMAIN polls' <=> x \in DOMAIN polls
             /\ x \in DOMAIN polls => polls'[x] = polls[x]
             /\ OptionsOf(polls', x) = OptionsOf(polls, x)
  <2>1. /\ x \in DOMAIN polls' <=> x \in DOMAIN polls
        /\ x \in DOMAIN polls => polls'[x] = polls[x]
    BY <1>4, <1>6
  <2> QED
    BY <2>1 DEF OptionsOf
<1>8. ASSUME NEW o \in PollSlots
      PROVE  VoteSound(pollReqs[o])'
  <2>1. CASE o = s
    BY <1>2, <1>3, <1>5, <2>1, Zenon DEF VoteSound, Voting
  <2>2. CASE o # s
    <3>1. VoteSound(pollReqs[o]) /\ pollReqs'[o] = pollReqs[o]
      BY <1>5, <2>2 DEF PollInv
    <3>2. ChoiceFits(pollReqs[o]) =>
            /\ ChoiceFits(pollReqs[o])'
            /\ OptionsOf(polls, pollReqs[o].poll)' = OptionsOf(polls, pollReqs[o].poll)
      <4>1. PICK x : x = pollReqs[o].poll
        OBVIOUS
      <4>2. pollReqs'[o].poll = x /\ pollReqs'[o].picks = pollReqs[o].picks
              /\ pollReqs'[o].cast = pollReqs[o].cast
        BY <3>1, <4>1
      <4>3. SUFFICES ASSUME x \in 1 .. lastPoll, ChoiceFits(pollReqs[o])
                     PROVE  /\ ChoiceFits(pollReqs[o])'
                            /\ OptionsOf(polls', x) = OptionsOf(polls, x)
        BY <4>1, <4>2 DEF ChoiceFits
      <4>4. /\ x \in DOMAIN polls' <=> x \in DOMAIN polls
            /\ x \in DOMAIN polls => polls'[x] = polls[x]
            /\ OptionsOf(polls', x) = OptionsOf(polls, x)
        BY <1>7, <4>3
      <4>5. x \in 1 .. lastPoll'
        BY <1>4, <1>6, <4>3
      <4> QED
        BY <4>1, <4>2, <4>3, <4>4, <4>5 DEF ChoiceFits
    <3>3. pollReqs[o].pc \in {"lock", "clear", "cast"} => ChoiceFits(pollReqs[o])'
      BY <3>1, <3>2 DEF VoteSound
    <3>4. pollReqs[o].pc = "cast" =>
            \A v \in pollReqs[o].cast : v.option \in OptionsOf(polls, pollReqs[o].poll)'
      BY <3>1, <3>2 DEF VoteSound
    <3> QED
      BY <1>4, <3>1, <3>3, <3>4 DEF VoteSound
  <2> QED
    BY <2>1, <2>2
<1>9. PollTypeOK'
  <2>1. lastPoll' \in 0 .. MaxPollId /\ DOMAIN polls' \subseteq 1 .. lastPoll'
    BY <1>4, <1>6 DEF PollInv, PollTypeOK
  <2> QED
    BY <1>2, <1>4, <1>5, <2>1 DEF PollInv, PollTypeOK
<1>10. OneWriter'
  BY <1>3, <1>5, Zenon DEF PollInv, OneWriter
<1>11. OneChoice'
  BY <1>4, <1>6 DEF PollInv, OneChoice, OptionsOf
<1> QED
  BY <1>8, <1>9, <1>10, <1>11 DEF PollInv

\* The delete waits for the transactions that have cast a vote of the poll; one that
\* has not finds no option of it any more.
LEMMA DeletePollKeeps ==
  ASSUME PollInv, NEW s \in PollSlots, DeletePoll(s)
  PROVE  PollInv'
<1> DEFINE hit == {id \in {pollReqs[s].poll} \cap DOMAIN polls :
                     polls[id].team = pollReqs[s].team}
<1>1. /\ \A id \in hit : ~Held(id)
      /\ DOMAIN polls' = DOMAIN polls \ hit
      /\ \A id \in DOMAIN polls \ hit : polls'[id] = polls[id]
      /\ votes' = {v \in votes : v.poll \notin hit}
      /\ lastPoll' = lastPoll
      /\ pollReqs' = [pollReqs EXCEPT ![s] = PollCall]
  BY DEF DeletePoll, EndPoll
<1> HIDE DEF hit
<1>2. /\ DOMAIN pollReqs' = PollSlots /\ pollReqs'[s] = PollCall
      /\ \A o \in PollSlots : o # s => pollReqs'[o] = pollReqs[o]
  BY <1>1 DEF PollInv, PollTypeOK
<1>3. \A id : id \notin hit => OptionsOf(polls', id) = OptionsOf(polls, id)
  BY <1>1 DEF OptionsOf
<1>4. PollTypeOK'
  BY <1>1, <1>2, PollCallRests DEF PollInv, PollTypeOK
<1>5. ASSUME NEW o \in PollSlots
      PROVE  VoteSound(pollReqs[o])'
  <2>1. CASE o = s
    BY <1>2, <2>1, PollCallRests DEF VoteSound, Voting
  <2>2. CASE o # s
    <3>1. VoteSound(pollReqs[o]) /\ pollReqs'[o] = pollReqs[o]
      BY <1>2, <2>2 DEF PollInv
    <3>2. ChoiceFits(pollReqs[o]) => ChoiceFits(pollReqs[o])'
      BY <1>1, <3>1 DEF ChoiceFits
    <3>3. ASSUME pollReqs[o].pc = "cast", NEW v \in pollReqs[o].cast
          PROVE  v.option \in OptionsOf(polls', pollReqs[o].poll)
      <4>1. pollReqs[o].lock /\ v.poll = pollReqs[o].poll
              /\ v.option \in OptionsOf(polls, pollReqs[o].poll)
        BY <3>1, <3>3 DEF VoteSound
      <4>2. Held(v.poll)
        BY <4>1, <3>3 DEF Held
      <4> QED
        BY <1>1, <1>3, <4>1, <4>2
    <3> QED
      BY <1>1, <3>1, <3>2, <3>3 DEF VoteSound
  <2> QED
    BY <2>1, <2>2
<1>6. OneWriter'
  BY <1>2, PollCallRests, Zenon DEF PollInv, OneWriter
<1>7. OneChoice'
  <2>1. ASSUME NEW v \in votes'
        PROVE  /\ v \in votes /\ v.poll \notin hit /\ v.poll \in DOMAIN polls
               /\ v.option \in OptionsOf(polls', v.poll)
               /\ polls'[v.poll] = polls[v.poll]
    <3>1. v \in votes /\ v.poll \notin hit /\ v.option \in OptionsOf(polls, v.poll)
      BY <1>1 DEF PollInv, OneChoice
    <3>2. v.poll \in DOMAIN polls
      BY <3>1 DEF OptionsOf
    <3> QED
      BY <1>1, <1>3, <3>1, <3>2
  <2> QED
    BY <2>1 DEF PollInv, OneChoice
<1> QED
  BY <1>4, <1>5, <1>6, <1>7 DEF PollInv

LEMMA AdmitVoteKeeps ==
  ASSUME PollInv, NEW s \in PollSlots, AdmitVote(s)
  PROVE  PollInv'
<1> DEFINE r == pollReqs[s]
           q == [r EXCEPT !.pc = "lock"]
<1>1. DOMAIN r = PollFields /\ VoteSound(r) /\ r.pc = "find"
  BY DEF PollInv, PollTypeOK, AdmitVote, PollPc
<1>2. /\ DOMAIN q = PollFields /\ q.pc = "lock" /\ q.op = r.op /\ q.user = r.user
      /\ q.poll = r.poll /\ q.picks = r.picks /\ q.lock = r.lock /\ q.cast = r.cast
      /\ q.gone = r.gone
  BY <1>1 DEF PollFields
<1>3. UNCHANGED <<polls, lastPoll, votes>>
  BY DEF AdmitVote
<1>4. CASE EndPoll(s)
  BY <1>3, <1>4, EndPollKeeps
<1>5. CASE /\ PollTo(s, "lock") /\ FindPollByID(r)
           /\ polls[r.poll].multiple \/ Cardinality(r.picks) <= 1
  <2>1. pollReqs' = [pollReqs EXCEPT ![s] = q]
    BY <1>5 DEF PollTo
  <2>2. /\ r.op = "vote" /\ r.user \in PollUsers /\ r.picks \in SUBSET Options
        /\ r.cast = {} /\ r.gone = {} /\ ~r.lock
    BY <1>1 DEF VoteSound, Voting
  <2>3. ChoiceFits(q)
    <3>1. r.poll \in DOMAIN polls /\ r.poll \in 1 .. lastPoll
      BY <1>5 DEF FindPollByID, PollInv, PollTypeOK
    <3>2. r.picks \cup Chosen(r.cast) = r.picks
      BY <2>2 DEF Chosen
    <3>3. polls[r.poll].multiple \/ AtMostOne(r.picks)
      BY <1>5, <2>2, CountedOnce
    <3> QED
      BY <1>2, <3>1, <3>2, <3>3 DEF ChoiceFits, Chosen
  <2>4. VoteSound(q)
    BY <1>2, <2>2, <2>3 DEF VoteSound, Voting
  <2> HIDE DEF q
  <2> QED
    BY <1>2, <1>3, <2>1, <2>2, <2>4, RequestMoves
<1> QED
  BY <1>4, <1>5 DEF AdmitVote

LEMMA AdvisoryLockKeeps ==
  ASSUME PollInv, NEW s \in PollSlots, AdvisoryLock(s)
  PROVE  PollInv'
<1> DEFINE r == pollReqs[s]
           q == [r EXCEPT !.pc = "clear", !.lock = TRUE]
<1>1. DOMAIN r = PollFields /\ VoteSound(r) /\ r.pc = "lock"
  BY DEF PollInv, PollTypeOK, AdvisoryLock, PollPc
<1>2. /\ DOMAIN q = PollFields /\ q.pc = "clear" /\ q.op = r.op /\ q.user = r.user
      /\ q.poll = r.poll /\ q.picks = r.picks /\ q.lock = TRUE /\ q.cast = r.cast
      /\ q.gone = r.gone
  BY <1>1 DEF PollFields
<1>3. pollReqs' = [pollReqs EXCEPT ![s] = q] /\ UNCHANGED <<polls, lastPoll, votes>>
  BY DEF AdvisoryLock
<1>4. ChoiceFits(q)
  BY <1>1, <1>2 DEF VoteSound, ChoiceFits
<1>5. VoteSound(q)
  BY <1>1, <1>2, <1>4 DEF VoteSound, Voting
<1>6. \A o \in PollSlots \ {s} :
        ~(pollReqs[o].lock /\ pollReqs[o].poll = q.poll /\ pollReqs[o].user = q.user)
  BY <1>2 DEF AdvisoryLock
<1> HIDE DEF q
<1> QED
  BY <1>2, <1>3, <1>5, <1>6, RequestMoves

\* A step of the request that holds the lock keeps it its own.
LEMMA StillOneWriter ==
  ASSUME PollInv, NEW s \in PollSlots, pollReqs[s].lock
  PROVE  \A o \in PollSlots \ {s} :
           ~(/\ pollReqs[o].lock /\ pollReqs[o].poll = pollReqs[s].poll
             /\ pollReqs[o].user = pollReqs[s].user)
  BY DEF PollInv, OneWriter

LEMMA ClearVotesKeeps ==
  ASSUME PollInv, NEW s \in PollSlots, ClearVotes(s)
  PROVE  PollInv'
<1> DEFINE r == pollReqs[s]
           gone == {v \in votes : v.poll = r.poll /\ v.user = r.user}
           q == [r EXCEPT !.pc = "cast", !.gone = gone]
<1>1. DOMAIN r = PollFields /\ VoteSound(r) /\ r.pc = "clear"
  BY DEF PollInv, PollTypeOK, ClearVotes, PollPc
<1>2. /\ DOMAIN q = PollFields /\ q.pc = "cast" /\ q.op = r.op /\ q.user = r.user
      /\ q.poll = r.poll /\ q.picks = r.picks /\ q.lock = r.lock /\ q.cast = r.cast
      /\ q.gone = gone
  BY <1>1 DEF PollFields
<1>3. pollReqs' = [pollReqs EXCEPT ![s] = q] /\ UNCHANGED <<polls, lastPoll, votes>>
  BY DEF ClearVotes
<1>4. ChoiceFits(q) /\ r.lock /\ r.cast = {}
  BY <1>1, <1>2 DEF VoteSound, ChoiceFits
<1>5. VoteSound(q)
  BY <1>1, <1>2, <1>4 DEF VoteSound, Voting
<1> HIDE DEF q
<1> QED
  BY <1>2, <1>3, <1>4, <1>5, StillOneWriter, RequestMoves

LEMMA CastVoteKeeps ==
  ASSUME PollInv, NEW s \in PollSlots, CastVote(s)
  PROVE  PollInv'
<1> DEFINE r == pollReqs[s]
<1>1. DOMAIN r = PollFields /\ VoteSound(r) /\ r.pc = "cast"
  BY DEF PollInv, PollTypeOK, CastVote, PollPc
<1>2. UNCHANGED <<polls, lastPoll, votes>>
  BY DEF CastVote
<1>3. CASE EndPoll(s)
  BY <1>2, <1>3, EndPollKeeps
<1>4. ASSUME NEW o \in r.picks, o \in OptionsOf(polls, r.poll),
             pollReqs' = [pollReqs EXCEPT ![s].picks = @ \ {o}, ![s].cast = @ \union
                            {[poll |-> r.poll, option |-> o, user |-> r.user]}]
      PROVE  PollInv'
  <2> DEFINE v == [poll |-> r.poll, option |-> o, user |-> r.user]
             q == [r EXCEPT !.picks = @ \ {o}, !.cast = @ \union {v}]
  <2>1. /\ DOMAIN q = PollFields /\ q.pc = "cast" /\ q.op = r.op /\ q.user = r.user
        /\ q.poll = r.poll /\ q.picks = r.picks \ {o} /\ q.lock = r.lock
        /\ q.cast = r.cast \cup {v} /\ q.gone = r.gone
    BY <1>1 DEF PollFields
  <2>2. pollReqs' = [pollReqs EXCEPT ![s] = q]
    BY <1>4
  <2>3. /\ ChoiceFits(r) /\ r.lock /\ r.op = "vote" /\ r.user \in PollUsers
        /\ r.picks \subseteq Options /\ r.poll \in 1 .. lastPoll
    BY <1>1 DEF VoteSound, Voting, ChoiceFits
  <2>4. v \in Ballots /\ v.poll = r.poll /\ v.user = r.user /\ v.option = o
    BY <1>4, <2>3, PollsAssumption DEF Ballots, PollIds, PollInv, PollTypeOK
  <2> HIDE DEF q, v
  <2>5. q.picks \cup Chosen(q.cast) \subseteq r.picks \cup Chosen(r.cast)
    BY <1>4, <2>1, <2>4 DEF Chosen
  <2>6. ChoiceFits(q)
    BY <2>1, <2>3, <2>5 DEF ChoiceFits, AtMostOne
  <2>7. VoteSound(q)
    BY <1>1, <1>4, <2>1, <2>3, <2>4, <2>6 DEF VoteSound, Voting
  <2> QED
    BY <1>2, <2>1, <2>2, <2>3, <2>7, StillOneWriter, RequestMoves
<1> QED
  BY <1>3, <1>4 DEF CastVote

\* The ballots of the voter are replaced: the lock kept others of his from writing.
LEMMA ReplaceVotesKeeps ==
  ASSUME PollInv, NEW s \in PollSlots, ReplaceVotes(s)
  PROVE  PollInv'
<1> DEFINE r == pollReqs[s]
           q == [r EXCEPT !.pc = "refetch", !.lock = FALSE, !.gone = {}, !.cast = {}]
<1>1. DOMAIN r = PollFields /\ VoteSound(r) /\ r.pc = "cast" /\ r.picks = {}
  BY DEF PollInv, PollTypeOK, ReplaceVotes, PollPc
<1>2. DOMAIN q = PollFields /\ q.pc = "refetch" /\ q.lock = FALSE /\ q.cast = {} /\ q.gone = {}
  BY <1>1 DEF PollFields
<1>3. /\ pollReqs' = [pollReqs EXCEPT ![s] = q]
      /\ polls' = polls /\ lastPoll' = lastPoll
      /\ votes' = (votes \ r.gone) \union r.cast
  BY DEF ReplaceVotes
<1> HIDE DEF q
<1>4. /\ DOMAIN pollReqs' = PollSlots /\ pollReqs'[s] = q
      /\ \A o \in PollSlots : o # s => pollReqs'[o] = pollReqs[o]
  BY <1>3 DEF PollInv, PollTypeOK
<1>5. /\ r.lock /\ ChoiceFits(r)
      /\ \A v \in r.cast : /\ v \in Ballots /\ v.poll = r.poll /\ v.user = r.user
                           /\ v.option \in OptionsOf(polls, r.poll)
      /\ \A v \in votes : v.poll = r.poll /\ v.user = r.user => v \in r.gone
  BY <1>1 DEF VoteSound
<1>6. PollTypeOK'
  BY <1>2, <1>3, <1>4, <1>5 DEF PollInv, PollTypeOK
<1>7. ASSUME NEW o \in PollSlots
      PROVE  VoteSound(pollReqs[o])'
  <2>1. CASE o = s
    BY <1>2, <1>4, <2>1 DEF VoteSound, Voting
  <2>2. CASE o # s
    <3>1. VoteSound(pollReqs[o]) /\ pollReqs'[o] = pollReqs[o]
      BY <1>4, <2>2 DEF PollInv
    <3>2. pollReqs[o].pc = "cast" =>
            ~(pollReqs[o].poll = r.poll /\ pollReqs[o].user = r.user)
      BY <1>5, <2>2, <3>1, StillOneWriter DEF VoteSound
    <3>3. ChoiceFits(pollReqs[o]) => ChoiceFits(pollReqs[o])'
      BY <1>3, <3>1 DEF ChoiceFits
    <3>4. ASSUME pollReqs[o].pc = "cast", NEW v \in votes',
                 v.poll = pollReqs[o].poll, v.user = pollReqs[o].user
          PROVE  v \in pollReqs[o].gone
      <4>1. v \notin r.cast
        BY <1>5, <3>2, <3>4
      <4> QED
        BY <1>3, <3>1, <3>4, <4>1 DEF VoteSound
    <3> QED
      BY <1>3, <3>1, <3>3, <3>4 DEF VoteSound
  <2> QED
    BY <2>1, <2>2
<1>8. OneWriter'
  BY <1>2, <1>4, Zenon DEF PollInv, OneWriter
<1>9. OneChoice'
  <2>1. ASSUME NEW v \in votes'
        PROVE  v.option \in OptionsOf(polls, v.poll)
    BY <1>3, <1>5, <2>1 DEF PollInv, OneChoice
  <2>2. ASSUME NEW v \in votes', NEW w \in votes', w.poll = v.poll, w.user = v.user,
               ~polls[v.poll].multiple
        PROVE  w.option = v.option
    <3>1. CASE v \in r.cast
      <4>1. w \in r.cast
        BY <1>3, <1>5, <2>2, <3>1
      <4>2. r.poll \in DOMAIN polls /\ v.poll = r.poll
        BY <1>5, <3>1 DEF OptionsOf
      <4>3. AtMostOne(Chosen(r.cast))
        BY <1>5, <2>2, <4>2 DEF ChoiceFits, AtMostOne
      <4> QED
        BY <3>1, <4>1, <4>3 DEF AtMostOne, Chosen
    <3>2. CASE v \notin r.cast
      <4>1. v \in votes /\ ~(v.poll = r.poll /\ v.user = r.user)
        BY <1>3, <1>5, <2>2, <3>2
      <4>2. w \in votes
        BY <1>3, <1>5, <2>2, <4>1
      <4> QED
        BY <2>2, <4>1, <4>2 DEF PollInv, OneChoice
    <3> QED
      BY <3>1, <3>2
  <2> QED
    BY <1>3, <2>1, <2>2 DEF OneChoice
<1> QED
  BY <1>6, <1>7, <1>8, <1>9 DEF PollInv

\* When nothing the invariant speaks of changes, it stays.
LEMMA PollsRest ==
  ASSUME PollInv, UNCHANGED <<polls, lastPoll, votes, pollReqs>>
  PROVE  PollInv'
<1>1. \A s \in PollSlots : VoteSound(pollReqs[s])'
  BY VoteStaysSound DEF PollInv
<1>2. PollTypeOK' /\ OneWriter' /\ OneChoice'
  BY DEF PollInv, PollTypeOK, OneWriter, OneChoice
<1> QED
  BY <1>1, <1>2 DEF PollInv

LEMMA PollInvNext ==
  ASSUME PollInv, [PollsNext(PollCalls)]_pollVars
  PROVE  PollInv'
<1>1. CASE UNCHANGED pollVars
  BY <1>1, PollsRest DEF pollVars
<1>2. ASSUME NEW s \in PollSlots, PollStep(s)
      PROVE  PollInv'
  BY <1>2, ReadingKeeps, CreatePollKeeps, DeletePollKeeps, AdmitVoteKeeps,
    AdvisoryLockKeeps, ClearVotesKeeps, CastVoteKeeps, ReplaceVotesKeeps DEF PollStep
<1>3. ASSUME NEW s \in PollSlots, NEW r \in PollCalls, SubmitPoll(s, r)
      PROVE  PollInv'
  BY <1>3, SubmitPollKeeps
<1>4. ASSUME NEW u \in PollUsers, NEW t \in PollTeams, LeaveTeam(u, t)
      PROVE  PollInv'
  BY <1>4, PollsRest DEF LeaveTeam
<1> QED
  BY <1>1, <1>2, <1>3, <1>4 DEF PollsNext

\* A single-choice poll holds one vote of a member, and no vote is for an option its
\* poll does not have, for any number of voters, polls and requests in flight,
\* transactions aborted and polls deleted meanwhile. (polls.Service.Vote,
\* polls.Repository.ReplaceVotes.)
THEOREM VotersChooseOnce == PollsSpec => []OneChoice
<1>1. PollInv /\ [PollsNext(PollCalls)]_pollVars => PollInv'
  BY PollInvNext
<1>2. PollInv => OneChoice
  BY DEF PollInv
<1> QED
  BY <1>1, <1>2, PollInvInit, PTL DEF PollsSpec

-----------------------------------------------------------------------------
(* Photos.                                                                 *)

PhotoFields == {"op", "key", "pc", "pic", "found", "late", "answer"}

PhotoTypeOK ==
  /\ erased \subseteq PhotoUsers
  /\ DOMAIN photoReqs = PhotoSlots
  /\ \A s \in PhotoSlots : DOMAIN photoReqs[s] = PhotoFields

\* A request at its step: between its two writes the object it has put is there, and
\* the row it has cleared is cleared, unless its key is entangled; one that began
\* after the erasure of its owner has found nothing yet.
InStep(r, named, stored, tangled, gone) ==
  /\ r.pc \in {"put", "write", "undo"} => r.op = "upload"
  /\ r.pc \in {"find", "clear", "drop"} => r.op = "delete"
  /\ r.pc = "write" => r.key \in stored \cup tangled
  /\ r.pc = "drop" => r.key \notin named \/ r.key \in tangled
  /\ r.late => /\ r.op = "mate" /\ r.pc = "key" /\ r.answer = NoImage
               /\ OwnerOf(r.key) \cap gone # {}

\* A key that is not entangled has one writer at a time.
OneImageWriter ==
  \A s, o \in PhotoSlots :
    /\ WritesImage(photoReqs[s]) /\ WritesImage(photoReqs[o])
    /\ photoReqs[s].key = photoReqs[o].key /\ photoReqs[s].key \notin entangled
    => s = o

ErasedHaveNoPhoto == \A u \in erased : userPhotoKey(u) \notin rows

\* What a row names is in the store, but for the two exceptions.
RowsBacked == rows \ (entangled \cup undone) \subseteq DOMAIN objects

PhotosInv ==
  /\ PhotoTypeOK
  /\ \A s \in PhotoSlots :
       InStep(photoReqs[s], rows, DOMAIN objects, entangled, erased)
  /\ OneImageWriter
  /\ ErasedHaveNoPhoto
  /\ RowsBacked

LEMMA NoPhotoCallRests ==
  /\ DOMAIN NoPhotoCall = PhotoFields
  /\ ~WritesImage(NoPhotoCall) /\ NoPhotoCall.pc = "free" /\ ~NoPhotoCall.late
<1>1. DOMAIN NoPhotoCall = PhotoFields
  BY DEF NoPhotoCall, PhotoCall, PhotoFields
<1>2. NoPhotoCall.op = "none" /\ NoPhotoCall.pc = "free" /\ NoPhotoCall.late = FALSE
  BY DEF NoPhotoCall, PhotoCall
<1> QED
  BY <1>1, <1>2 DEF WritesImage

LEMMA PhotosInvInit == PhotosInit => PhotosInv
<1> SUFFICES ASSUME PhotosInit PROVE PhotosInv
  OBVIOUS
<1>1. /\ DOMAIN photoReqs = PhotoSlots /\ rows = {} /\ erased = {}
      /\ \A s \in PhotoSlots : photoReqs[s] = NoPhotoCall
  BY DEF PhotosInit
<1>2. PhotoTypeOK
  BY <1>1, NoPhotoCallRests DEF PhotoTypeOK
<1>3. \A s \in PhotoSlots : InStep(photoReqs[s], rows, DOMAIN objects, entangled, erased)
  BY <1>1, NoPhotoCallRests DEF InStep
<1>4. OneImageWriter
  BY <1>1, NoPhotoCallRests DEF OneImageWriter
<1> QED
  BY <1>1, <1>2, <1>3, <1>4 DEF PhotosInv, ErasedHaveNoPhoto, RowsBacked

\* A step of one request, which leaves the keys of others alone: only the request
\* that moved is to be looked at.
LEMMA PhotoMoves ==
  ASSUME PhotosInv, NEW s \in PhotoSlots, NEW q, DOMAIN q = PhotoFields,
         photoReqs' = [photoReqs EXCEPT ![s] = q],
         \/ ~WritesImage(q)
         \/ q.op = photoReqs[s].op /\ q.key = photoReqs[s].key,
         erased \subseteq erased', erased' \subseteq PhotoUsers,
         entangled \subseteq entangled',
         \/ rows' \subseteq rows /\ DOMAIN objects \subseteq DOMAIN objects'
         \/ /\ WritesImage(photoReqs[s])
            /\ rows' \subseteq rows \cup {photoReqs[s].key}
            /\ DOMAIN objects \subseteq DOMAIN objects' \cup {photoReqs[s].key},
         InStep(q, rows', DOMAIN objects', entangled', erased'),
         ErasedHaveNoPhoto', RowsBacked'
  PROVE  PhotosInv'
<1> DEFINE r == photoReqs[s]
<1>1. /\ DOMAIN photoReqs' = PhotoSlots /\ photoReqs'[s] = q
      /\ \A o \in PhotoSlots : o # s => photoReqs'[o] = photoReqs[o]
  BY DEF PhotosInv, PhotoTypeOK
<1>2. PhotoTypeOK'
  BY <1>1 DEF PhotosInv, PhotoTypeOK
<1>3. ASSUME NEW o \in PhotoSlots
      PROVE  InStep(photoReqs'[o], rows', DOMAIN objects', entangled', erased')
  <2>1. CASE o = s
    BY <1>1, <2>1
  <2>2. CASE o # s
    <3> DEFINE p == photoReqs[o]
    <3>1. photoReqs'[o] = p /\ InStep(p, rows, DOMAIN objects, entangled, erased)
      BY <1>1, <2>2 DEF PhotosInv
    <3>2. p.pc \in {"write", "drop"} => WritesImage(p)
      BY <3>1 DEF InStep, WritesImage
    <3>3. p.pc \in {"write", "drop"} /\ WritesImage(r) /\ p.key = r.key
            => p.key \in entangled
      BY <2>2, <3>2 DEF PhotosInv, OneImageWriter
    <3>4. p.pc = "write" => p.key \in DOMAIN objects' \cup entangled'
      BY <3>1, <3>3 DEF InStep
    <3>5. p.pc = "drop" => p.key \notin rows' \/ p.key \in entangled'
      BY <3>1, <3>3 DEF InStep
    <3> QED
      BY <3>1, <3>4, <3>5 DEF InStep
  <2> QED
    BY <2>1, <2>2
<1>4. OneImageWriter'
  <2>1. \A o \in PhotoSlots : WritesImage(photoReqs'[o]) =>
          /\ WritesImage(photoReqs[o]) /\ photoReqs'[o].key = photoReqs[o].key
    BY <1>1 DEF WritesImage
  <2> QED
    BY <2>1 DEF PhotosInv, OneImageWriter
<1> QED
  BY <1>2, <1>3, <1>4 DEF PhotosInv

\* A request that ends, whatever it did to its own key before.
LEMMA PhotoEnds ==
  ASSUME PhotosInv, NEW s \in PhotoSlots, EndPhoto(s),
         erased \subseteq erased', erased' \subseteq PhotoUsers,
         entangled \subseteq entangled',
         \/ rows' \subseteq rows /\ DOMAIN objects \subseteq DOMAIN objects'
         \/ /\ WritesImage(photoReqs[s])
            /\ rows' \subseteq rows \cup {photoReqs[s].key}
            /\ DOMAIN objects \subseteq DOMAIN objects' \cup {photoReqs[s].key},
         ErasedHaveNoPhoto', RowsBacked'
  PROVE  PhotosInv'
<1>1. photoReqs' = [photoReqs EXCEPT ![s] = NoPhotoCall]
  BY DEF EndPhoto
<1>2. InStep(NoPhotoCall, rows', DOMAIN objects', entangled', erased')
  BY NoPhotoCallRests DEF InStep
<1> QED
  BY <1>1, <1>2, NoPhotoCallRests, PhotoMoves

\* What going on to the next step keeps of a request.
LEMMA GoesOn ==
  ASSUME PhotosInv, NEW s \in PhotoSlots, NEW pc, PhotoGoTo(s, pc)
  PROVE  \E q : /\ DOMAIN q = PhotoFields /\ photoReqs' = [photoReqs EXCEPT ![s] = q]
                /\ q.pc = pc /\ q.op = photoReqs[s].op /\ q.key = photoReqs[s].key
                /\ q.late = photoReqs[s].late /\ q.answer = photoReqs[s].answer
<1> DEFINE q == [photoReqs[s] EXCEPT !.pc = pc]
<1>1. DOMAIN photoReqs[s] = PhotoFields
  BY DEF PhotosInv, PhotoTypeOK
<1>2. /\ DOMAIN q = PhotoFields /\ q.pc = pc /\ q.op = photoReqs[s].op
      /\ q.key = photoReqs[s].key /\ q.late = photoReqs[s].late
      /\ q.answer = photoReqs[s].answer
  BY <1>1 DEF PhotoFields
<1>3. photoReqs' = [photoReqs EXCEPT ![s] = q]
  BY DEF PhotoGoTo
<1> HIDE DEF q
<1> QED
  BY <1>2, <1>3

LEMMA KeysApart ==
  ASSUME NEW k
  PROVE  /\ k \in PhotoKeys \cup LogoKeys => OwnerOf(k) = {}
         /\ \A u \in OwnerOf(k) : k = userPhotoKey(u)
         /\ \A u \in PhotoUsers : k = userPhotoKey(u) => u \in OwnerOf(k)
BY DEF PhotoKeys, LogoKeys, OwnerOf, userPhotoKey, teamPhotoKey, teamLogoKey

\* The three uploads put the object first.
LEMMA PutImageKeeps ==
  ASSUME PhotosInv, NEW s \in PhotoSlots, NEW image, PhotoAt(s, "put"),
         PutObject(photoReqs[s].key, image), PhotoGoTo(s, "write"),
         undone' = undone \ {photoReqs[s].key}, UNCHANGED <<rows, erased, entangled>>
  PROVE  PhotosInv'
<1>1. InStep(photoReqs[s], rows, DOMAIN objects, entangled, erased)
        /\ photoReqs[s].pc = "put"
  BY DEF PhotosInv, PhotoAt
<1>2. PICK q : /\ DOMAIN q = PhotoFields /\ photoReqs' = [photoReqs EXCEPT ![s] = q]
               /\ q.pc = "write" /\ q.op = photoReqs[s].op /\ q.key = photoReqs[s].key
               /\ q.late = photoReqs[s].late
  BY GoesOn
<1>3. DOMAIN objects' = DOMAIN objects \cup {photoReqs[s].key}
  BY DEF PutObject
<1>4. InStep(q, rows', DOMAIN objects', entangled', erased')
  BY <1>1, <1>2, <1>3 DEF InStep
<1>5. ErasedHaveNoPhoto' /\ RowsBacked'
        /\ erased' \subseteq PhotoUsers
  BY <1>3 DEF PhotosInv, PhotoTypeOK, ErasedHaveNoPhoto, RowsBacked
<1> QED
  BY <1>2, <1>3, <1>4, <1>5, PhotoMoves

\* An object goes when its row is cleared, its key is entangled already, or an upload
\* takes it back: then a key that a row names is undone.
LEMMA DropObjectKeeps ==
  ASSUME PhotosInv, NEW s \in PhotoSlots, NEW pc \in {"undo", "drop"}, DropObject(s, pc)
  PROVE  PhotosInv'
<1>1. InStep(photoReqs[s], rows, DOMAIN objects, entangled, erased)
        /\ photoReqs[s].pc = pc
  BY DEF PhotosInv, PhotoAt, DropObject
<1>2. WritesImage(photoReqs[s])
  BY <1>1 DEF InStep, WritesImage
<1>3. /\ DOMAIN objects' = DOMAIN objects \ {photoReqs[s].key}
      /\ undone' = undone \cup {k \in rows : pc = "undo" /\ k = photoReqs[s].key}
      /\ EndPhoto(s) /\ UNCHANGED <<rows, erased, entangled>>
  BY DEF DropObject, RemoveObject, Restrict
<1>4. ErasedHaveNoPhoto' /\ erased' \subseteq PhotoUsers
  BY <1>3 DEF PhotosInv, PhotoTypeOK, ErasedHaveNoPhoto
<1>5. RowsBacked'
  <2>1. photoReqs[s].key \in rows' => photoReqs[s].key \in entangled' \cup undone'
    BY <1>1, <1>3 DEF InStep
  <2> QED
    BY <1>3, <2>1 DEF PhotosInv, RowsBacked
<1> QED
  BY <1>2, <1>3, <1>4, <1>5, PhotoEnds

\* The row names what has been put, or the statement fails and changes nothing.
LEMMA WriteKeyKeeps ==
  ASSUME PhotosInv, NEW s \in PhotoSlots,
         UpdateUserPhoto(s) \/ UpdateTeamPhoto(s) \/ UpdateTeamLogo(s)
  PROVE  PhotosInv'
<1> DEFINE k == photoReqs[s].key
<1>1. /\ InStep(photoReqs[s], rows, DOMAIN objects, entangled, erased)
      /\ photoReqs[s].pc = "write"
  BY DEF PhotosInv, PhotoAt, WriteKey, UpdateUserPhoto, UpdateTeamPhoto, UpdateTeamLogo
<1>2. UNCHANGED <<erased, objects, entangled, undone>>
  BY DEF WriteKey, UpdateUserPhoto, UpdateTeamPhoto, UpdateTeamLogo
<1>3. /\ WritesImage(photoReqs[s]) /\ k \in DOMAIN objects \cup entangled
      /\ ~photoReqs[s].late
  BY <1>1 DEF InStep, WritesImage
<1>4. \/ /\ OwnerOf(k) \cap erased = {}
         /\ rows' = rows \cup {k} /\ EndPhoto(s)
      \/ PhotoGoTo(s, "undo") /\ UNCHANGED rows
  BY KeysApart DEF WriteKey, UpdateUserPhoto, UpdateTeamPhoto, UpdateTeamLogo
<1>5. CASE /\ OwnerOf(k) \cap erased = {}
           /\ rows' = rows \cup {k} /\ EndPhoto(s)
  <2>1. ErasedHaveNoPhoto'
    BY <1>2, <1>5, KeysApart DEF PhotosInv, PhotoTypeOK, ErasedHaveNoPhoto
  <2>2. RowsBacked' /\ erased' \subseteq PhotoUsers
    BY <1>2, <1>3, <1>5 DEF PhotosInv, PhotoTypeOK, RowsBacked
  <2> QED
    BY <1>2, <1>3, <1>5, <2>1, <2>2, PhotoEnds
<1>6. CASE PhotoGoTo(s, "undo") /\ UNCHANGED rows
  <2>1. PICK q : /\ DOMAIN q = PhotoFields /\ photoReqs' = [photoReqs EXCEPT ![s] = q]
                 /\ q.pc = "undo" /\ q.op = photoReqs[s].op /\ q.key = k
                 /\ q.late = photoReqs[s].late
    BY <1>6, GoesOn
  <2>2. InStep(q, rows', DOMAIN objects', entangled', erased')
    BY <1>1, <1>2, <1>3, <1>6, <2>1 DEF InStep
  <2>3. ErasedHaveNoPhoto' /\ RowsBacked'
          /\ erased' \subseteq PhotoUsers
    BY <1>2, <1>6 DEF PhotosInv, PhotoTypeOK, ErasedHaveNoPhoto, RowsBacked
  <2> QED
    BY <1>2, <1>6, <2>1, <2>2, <2>3, PhotoMoves
<1> QED
  BY <1>4, <1>5, <1>6

LEMMA FindKeyKeeps ==
  ASSUME PhotosInv, NEW s \in PhotoSlots, FindKey(s)
  PROVE  PhotosInv'
<1>0. PICK found : photoReqs' =
             [photoReqs EXCEPT ![s].pc = "clear", ![s].found = found]
  BY DEF FindKey
<1> DEFINE r == photoReqs[s]
           q == [r EXCEPT !.pc = "clear", !.found = found]
<1>1. /\ DOMAIN r = PhotoFields /\ r.pc = "find"
      /\ InStep(r, rows, DOMAIN objects, entangled, erased)
  BY DEF PhotosInv, PhotoTypeOK, FindKey, PhotoAt
<1>2. /\ DOMAIN q = PhotoFields /\ q.pc = "clear" /\ q.op = r.op
      /\ q.key = r.key /\ q.late = r.late
  BY <1>1 DEF PhotoFields
<1>3. photoReqs' = [photoReqs EXCEPT ![s] = q]
  BY <1>0
<1>4. UNCHANGED <<rows, erased, objects, entangled, undone>>
  BY DEF FindKey
<1> HIDE DEF q
<1>5. InStep(q, rows', DOMAIN objects', entangled', erased')
  BY <1>1, <1>2, <1>4 DEF InStep
<1>6. ErasedHaveNoPhoto' /\ RowsBacked'
        /\ erased' \subseteq PhotoUsers
  BY <1>4 DEF PhotosInv, PhotoTypeOK, ErasedHaveNoPhoto, RowsBacked
<1> QED
  BY <1>2, <1>3, <1>4, <1>5, <1>6, PhotoMoves

\* The row goes first, and with it, for a user, the account.
LEMMA ClearKeyKeeps ==
  ASSUME PhotosInv, NEW s \in PhotoSlots,
         DeleteTeamPhoto(s) \/ DeleteTeamLogo(s) \/ EraseUserRow(s)
  PROVE  PhotosInv'
<1> DEFINE k == photoReqs[s].key
<1>1. ClearKey(s)
  BY DEF DeleteTeamPhoto, DeleteTeamLogo, EraseUserRow
<1>2. /\ InStep(photoReqs[s], rows, DOMAIN objects, entangled, erased)
      /\ photoReqs[s].pc = "clear" /\ rows' = rows \ {k}
      /\ UNCHANGED <<objects, entangled, undone>>
      /\ PhotoGoTo(s, "drop") \/ EndPhoto(s)
  BY <1>1 DEF PhotosInv, PhotoAt, ClearKey
<1>3. erased' = erased \/ erased' = erased \cup OwnerOf(k)
  BY DEF DeleteTeamPhoto, DeleteTeamLogo, EraseUserRow
<1>4. /\ erased \subseteq erased' /\ erased' \subseteq PhotoUsers
      /\ \A u \in erased' : u \in erased \/ userPhotoKey(u) = k
  BY <1>3 DEF PhotosInv, PhotoTypeOK, OwnerOf
<1>5. ErasedHaveNoPhoto' /\ RowsBacked'
  BY <1>2, <1>4 DEF PhotosInv, ErasedHaveNoPhoto, RowsBacked
<1>6. CASE EndPhoto(s)
  BY <1>2, <1>4, <1>5, <1>6, PhotoEnds
<1>7. CASE PhotoGoTo(s, "drop")
  <2>1. PICK q : /\ DOMAIN q = PhotoFields /\ photoReqs' = [photoReqs EXCEPT ![s] = q]
                 /\ q.pc = "drop" /\ q.op = photoReqs[s].op /\ q.key = k
                 /\ q.late = photoReqs[s].late
    BY <1>7, GoesOn
  <2>2. InStep(q, rows', DOMAIN objects', entangled', erased')
    BY <1>2, <2>1 DEF InStep
  <2> QED
    BY <1>2, <1>4, <1>5, <2>1, <2>2, PhotoMoves
<1> QED
  BY <1>2, <1>6, <1>7

\* The reads; an erased owner's photo has no row any more.
LEMMA KeyOfKeeps ==
  ASSUME PhotosInv, NEW s \in PhotoSlots, NEW visible \in BOOLEAN, KeyOf(s, visible)
  PROVE  PhotosInv'
<1> DEFINE k == photoReqs[s].key
<1>1. /\ InStep(photoReqs[s], rows, DOMAIN objects, entangled, erased)
      /\ photoReqs[s].pc = "key" /\ UNCHANGED <<rows, erased, objects, entangled, undone>>
      /\ EndPhoto(s) \/ (PhotoGoTo(s, "fetch") /\ k \in rows)
  BY DEF PhotosInv, PhotoAt, KeyOf
<1>2. ErasedHaveNoPhoto' /\ RowsBacked'
        /\ erased' \subseteq PhotoUsers
  BY <1>1 DEF PhotosInv, PhotoTypeOK, ErasedHaveNoPhoto, RowsBacked
<1>3. CASE EndPhoto(s)
  BY <1>1, <1>2, <1>3, PhotoEnds
<1>4. CASE PhotoGoTo(s, "fetch") /\ k \in rows
  <2>1. PICK q : /\ DOMAIN q = PhotoFields /\ photoReqs' = [photoReqs EXCEPT ![s] = q]
                 /\ q.pc = "fetch" /\ q.op = photoReqs[s].op /\ q.key = k
                 /\ q.late = photoReqs[s].late
    BY <1>4, GoesOn
  <2>2. ~photoReqs[s].late
    BY <1>1, <1>4, KeysApart DEF InStep, PhotosInv, ErasedHaveNoPhoto
  <2>3. InStep(q, rows', DOMAIN objects', entangled', erased')
    BY <2>1, <2>2 DEF InStep
  <2> QED
    BY <1>1, <1>2, <2>1, <2>3, PhotoMoves
<1> QED
  BY <1>1, <1>3, <1>4

LEMMA FetchImageKeeps ==
  ASSUME PhotosInv, NEW s \in PhotoSlots, FetchImage(s)
  PROVE  PhotosInv'
<1> DEFINE r == photoReqs[s]
           image == GetObject(r.key)
           q == [r EXCEPT !.pc = "answered", !.answer = image]
<1>1. /\ DOMAIN r = PhotoFields /\ r.pc = "fetch"
      /\ InStep(r, rows, DOMAIN objects, entangled, erased)
  BY DEF PhotosInv, PhotoTypeOK, FetchImage, PhotoAt
<1>2. /\ DOMAIN q = PhotoFields /\ q.pc = "answered" /\ q.op = r.op
      /\ q.key = r.key /\ q.late = r.late
  BY <1>1 DEF PhotoFields
<1>3. photoReqs' = [photoReqs EXCEPT ![s] = q]
  BY DEF FetchImage
<1>4. UNCHANGED <<rows, erased, objects, entangled, undone>>
  BY DEF FetchImage
<1> HIDE DEF q
<1>5. InStep(q, rows', DOMAIN objects', entangled', erased')
  BY <1>1, <1>2, <1>4 DEF InStep
<1>6. ErasedHaveNoPhoto' /\ RowsBacked'
        /\ erased' \subseteq PhotoUsers
  BY <1>4 DEF PhotosInv, PhotoTypeOK, ErasedHaveNoPhoto, RowsBacked
<1> QED
  BY <1>2, <1>3, <1>4, <1>5, <1>6, PhotoMoves

\* A second writer of a key makes it entangled.
LEMMA SubmitPhotoKeeps ==
  ASSUME PhotosInv, NEW s \in PhotoSlots, NEW r \in PhotoCalls, SubmitPhoto(s, r)
  PROVE  PhotosInv'
<1> DEFINE late == OwnerOf(r.key) \cap erased # {}
           q == [r EXCEPT !.late = late]
<1>1. \E op, key, pc, pic :
        /\ r = PhotoCall(op, key, pc, pic)
        /\ \/ op = "upload" /\ pc = "put"
           \/ op = "delete" /\ pc = "find"
           \/ op \in {"mine", "mate"} /\ pc = "key"
           \/ op = "team" /\ pc = "key" /\ key \in PhotoKeys \cup LogoKeys
  <2>1. r \in UploadMyPhotoCalls \union UploadTeamPhotoCalls \union UploadTeamLogoCalls
          => \E key, pic : r = PhotoCall("upload", key, "put", pic)
    BY DEF UploadMyPhotoCalls, UploadTeamPhotoCalls, UploadTeamLogoCalls
  <2>2. r \in DeleteTeamPhotoCalls \union DeleteTeamLogoCalls \union DeleteCurrentUserCalls
          => \E key : r = PhotoCall("delete", key, "find", NoImage)
    BY DEF DeleteTeamPhotoCalls, DeleteTeamLogoCalls, DeleteCurrentUserCalls
  <2>3. r \in GetMyPhotoCalls => \E key : r = PhotoCall("mine", key, "key", NoImage)
    BY DEF GetMyPhotoCalls
  <2>4. r \in GetMemberPhotoCalls => \E key : r = PhotoCall("mate", key, "key", NoImage)
    BY DEF GetMemberPhotoCalls
  <2>5. r \in GetTeamPhotoCalls \union GetTeamLogoCalls
          => \E key \in PhotoKeys \cup LogoKeys : r = PhotoCall("team", key, "key", NoImage)
    BY DEF GetTeamPhotoCalls, GetTeamLogoCalls
  <2>6. \/ r \in UploadMyPhotoCalls \union UploadTeamPhotoCalls \union UploadTeamLogoCalls
        \/ r \in DeleteTeamPhotoCalls \union DeleteTeamLogoCalls
                   \union DeleteCurrentUserCalls
        \/ r \in GetMyPhotoCalls \/ r \in GetMemberPhotoCalls
        \/ r \in GetTeamPhotoCalls \union GetTeamLogoCalls
    BY DEF PhotoCalls
  <2> QED
    BY <2>1, <2>2, <2>3, <2>4, <2>5, <2>6
<1>2. /\ DOMAIN r = PhotoFields /\ r.answer = NoImage
      /\ \/ r.op = "upload" /\ r.pc = "put"
         \/ r.op = "delete" /\ r.pc = "find"
         \/ r.op \in {"mine", "mate"} /\ r.pc = "key"
         \/ r.op = "team" /\ r.pc = "key" /\ r.key \in PhotoKeys \cup LogoKeys
  BY <1>1 DEF PhotoCall, PhotoFields
<1>3. /\ DOMAIN q = PhotoFields /\ q.op = r.op /\ q.pc = r.pc /\ q.key = r.key
      /\ q.answer = r.answer /\ q.late = late
  BY <1>2 DEF PhotoFields
<1>4. photoReqs' = [photoReqs EXCEPT ![s] = q] /\ UNCHANGED <<rows, erased, objects, undone>>
  BY DEF SubmitPhoto
<1>5. late => r.op = "mate"
  BY <1>2, KeysApart DEF SubmitPhoto
<1> HIDE DEF q, late
<1>6. /\ DOMAIN photoReqs' = PhotoSlots /\ photoReqs'[s] = q
      /\ \A o \in PhotoSlots : o # s => photoReqs'[o] = photoReqs[o]
  BY <1>4 DEF PhotosInv, PhotoTypeOK
<1>7. /\ entangled \subseteq entangled'
      /\ \A o \in PhotoSlots :
           WritesImage(q) /\ WritesImage(photoReqs[o]) /\ photoReqs[o].key = q.key
             => q.key \in entangled'
  BY <1>3 DEF SubmitPhoto, WritesImage
<1>8. PhotoTypeOK'
  BY <1>3, <1>4, <1>6 DEF PhotosInv, PhotoTypeOK
<1>9. InStep(q, rows', DOMAIN objects', entangled', erased')
  BY <1>2, <1>3, <1>4, <1>5 DEF InStep, late
<1>10. \A o \in PhotoSlots :
         InStep(photoReqs'[o], rows', DOMAIN objects', entangled', erased')
  BY <1>4, <1>6, <1>7, <1>9 DEF PhotosInv, InStep
<1>11. OneImageWriter'
  BY <1>6, <1>7 DEF PhotosInv, OneImageWriter
<1> QED
  BY <1>4, <1>7, <1>8, <1>10, <1>11 DEF PhotosInv, ErasedHaveNoPhoto, RowsBacked

\* For any number of users, teams, pictures and requests in flight, dying at any step:
\* what a row names is in the store, unless two writers of it overlapped or a failed
\* upload has deleted it from under the row; and a request that came in after an
\* erasure gets nothing. (The services' photo and logo operations.)
THEOREM PhotosStayRight == PhotosSpec => []PhotosRight
<1>1. ASSUME PhotosInv, [PhotosNext(PhotoCalls)]_photoVars
      PROVE  PhotosInv'
  <2>1. CASE UNCHANGED photoVars
    BY <1>1, <2>1
      DEF PhotosInv, PhotoTypeOK, OneImageWriter, ErasedHaveNoPhoto, RowsBacked,
        photoVars
  <2>2. ASSUME NEW s \in PhotoSlots, NEW r \in PhotoCalls, SubmitPhoto(s, r)
        PROVE  PhotosInv'
    BY <1>1, <2>2, SubmitPhotoKeeps
  <2>3. ASSUME NEW s \in PhotoSlots, EndPhoto(s),
               UNCHANGED <<rows, erased, objects, entangled, undone>>
        PROVE  PhotosInv'
    BY <1>1, <2>3, PhotoEnds DEF PhotosInv, PhotoTypeOK, ErasedHaveNoPhoto, RowsBacked
  <2>4. ASSUME NEW s \in PhotoSlots, AbandonPhoto(s) \/ AnswerPhoto(s)
        PROVE  PhotosInv'
    BY <2>3, <2>4 DEF AbandonPhoto, AnswerPhoto
  <2>5. ASSUME NEW s \in PhotoSlots,
               UpdateMyPhoto(s) \/ UpdatePhoto(s) \/ UpdateLogo(s)
        PROVE  PhotosInv'
    <3>1. PutImage(s, ResizeUserImage) \/ PutImage(s, ResizeTeamImage) => PhotosInv'
      BY <1>1, PutImageKeeps DEF PutImage
    <3>2. UpdateUserPhoto(s) \/ UpdateTeamPhoto(s) \/ UpdateTeamLogo(s) => PhotosInv'
      BY <1>1, WriteKeyKeeps
    <3>3. DropObject(s, "undo") => PhotosInv'
      BY <1>1, DropObjectKeeps
    <3> QED
      BY <2>5, <3>1, <3>2, <3>3 DEF UpdateMyPhoto, UpdatePhoto, UpdateLogo
  <2>6. ASSUME NEW s \in PhotoSlots, DeletePhoto(s) \/ DeleteLogo(s) \/ EraseAccount(s)
        PROVE  PhotosInv'
    <3>1. DropObject(s, "drop") => PhotosInv'
      BY <1>1, DropObjectKeeps
    <3> QED
      BY <1>1, <2>6, <3>1, FindKeyKeeps, ClearKeyKeeps
        DEF DeletePhoto, DeleteLogo, EraseAccount
  <2>7. ASSUME NEW s \in PhotoSlots,
               GetMyPhoto(s) \/ GetMemberPhoto(s) \/ GetTeamPhoto(s) \/ GetTeamLogo(s)
        PROVE  PhotosInv'
    <3>1. FetchImage(s) \/ \E visible \in BOOLEAN : KeyOf(s, visible)
      BY <2>7 DEF GetMyPhoto, GetMemberPhoto, GetTeamPhoto, GetTeamLogo,
        FindUserPhotoKeyByID, GetMemberPhotoKey, GetTeamPhotoKey, GetTeamLogoKey
    <3> QED
      BY <1>1, <3>1, FetchImageKeeps, KeyOfKeeps
  <2> QED
    BY <1>1, <2>1, <2>2, <2>4, <2>5, <2>6, <2>7 DEF PhotosNext, PhotoStep
<1>2. PhotosInv => PhotosRight
  BY DEF PhotosInv, PhotosRight, RowsBacked, InStep
<1> QED
  BY <1>1, <1>2, PhotosInvInit, PTL DEF PhotosSpec

-----------------------------------------------------------------------------
(* Calendars.                                                              *)

CalFields == {"op", "pc", "user", "team", "link", "types", "birthdays", "may", "from",
              "to", "events", "born"}
FeedFields == {"user", "team", "types", "birthdays", "active"}

FeedOK(row) == DOMAIN row = FeedFields /\ row.user \in CalUsers /\ row.team \in CalTeams

FeedSteps == {"membership", "permissions", "events", "birthdays", "answered"}

CallOK(r) ==
  /\ DOMAIN r = CalFields
  /\ \/ r.op \in {"issue", "revoke", "settings"}
     \/ r.op = "feed" /\ r.pc \in FeedSteps
     => r.user \in CalUsers /\ r.team \in CalTeams
  /\ r.pc = "answered" => r.op \in {"feed", "shared"}

CalTypeOK ==
  /\ feeds = [id \in DOMAIN feeds |-> feeds[id]]
  /\ \A id \in DOMAIN feeds : FeedOK(feeds[id])
  /\ DOMAIN rights = CalUsers \X CalTeams
  /\ DOMAIN calReqs = CalSlots
  /\ \A s \in CalSlots : CallOK(calReqs[s])

\* What a feed has read so far was true at some time it has seen: the link and what
\* its holder chose, then the membership, the rights, and what is shown by them.
FeedEntitled(r, seen) ==
  /\ r.pc \in FeedSteps =>
       /\ <<"link", r.link, "">> \in seen
       /\ \A type \in r.types : <<"type", r.link, type>> \in seen
       /\ r.birthdays => <<"birthdays", r.link, "">> \in seen
  /\ r.pc \in FeedSteps \ {"membership"} => <<r.user, r.team, "member">> \in seen
  /\ r.pc \in {"events", "birthdays", "answered"} =>
       /\ <<r.user, r.team, "events">> \in seen
       /\ \A m \in r.may : <<r.user, r.team, m>> \in seen
  /\ r.pc \in {"birthdays", "answered"} => \A e \in r.events : e.type \in r.types
  /\ r.pc = "answered" => (r.born # {} => r.birthdays /\ "members" \in r.may)

SharedEntitled(r, seen) ==
  r.pc \in {"list", "answered"} => <<"grant", r.user, r.team>> \in seen

Entitled(r, seen) ==
  /\ r.op = "feed" => FeedEntitled(r, seen)
  /\ r.op = "shared" => SharedEntitled(r, seen)

CalInv ==
  /\ CalTypeOK
  /\ \A s \in CalSlots : Entitled(calReqs[s], witnessed[s])

LEMMA CalCallRests ==
  /\ CallOK(CalCall) /\ CalCall.op = "none" /\ CalCall.pc = "free"
<1>1. DOMAIN CalCall = CalFields
  BY DEF CalCall, CalFields
<1>2. CalCall.op = "none" /\ CalCall.pc = "free"
  BY DEF CalCall
<1> QED
  BY <1>1, <1>2 DEF CallOK

LEMMA CalInvInit == CalendarsInit => CalInv
<1> SUFFICES ASSUME CalendarsInit PROVE CalInv
  OBVIOUS
<1>1. /\ DOMAIN feeds = {} /\ feeds = [id \in DOMAIN feeds |-> feeds[id]]
      /\ DOMAIN rights = CalUsers \X CalTeams
      /\ DOMAIN calReqs = CalSlots /\ \A s \in CalSlots : calReqs[s] = CalCall
  BY DEF CalendarsInit
<1> QED
  BY <1>1, CalCallRests DEF CalInv, CalTypeOK, Entitled

\* Having seen more entitles to no less.
LEMMA SeenMore ==
  ASSUME NEW r, NEW seen, NEW more, seen \subseteq more, Entitled(r, seen)
  PROVE  Entitled(r, more)
<1>1. FeedEntitled(r, seen) => FeedEntitled(r, more)
  BY DEF FeedEntitled
<1>2. SharedEntitled(r, seen) => SharedEntitled(r, more)
  BY DEF SharedEntitled
<1> QED
  BY <1>1, <1>2 DEF Entitled

LEMMA TruthsTold ==
  /\ \A id \in DOMAIN feeds : feeds[id].active =>
       /\ <<"link", id, "">> \in Truths
       /\ feeds[id].birthdays => <<"birthdays", id, "">> \in Truths
       /\ \A type \in feeds[id].types : <<"type", id, type>> \in Truths
  /\ \A u, t : <<u, t>> \in DOMAIN rights =>
       \A m \in rights[<<u, t>>] : <<u, t, m>> \in Truths
  /\ \A owner, viewer : <<owner, viewer>> \in shares => <<"grant", owner, viewer>> \in Truths
<1> DEFINE working == {id \in DOMAIN feeds : feeds[id].active}
           links == {<<"link", id, "">> : id \in working}
           birthdays == {<<"birthdays", id, "">> : id \in {i \in working : feeds[i].birthdays}}
           types == UNION {{<<"type", id, ty>> : ty \in feeds[id].types} : id \in working}
           held == UNION {{<<p[1], p[2], m>> : m \in rights[p]} : p \in DOMAIN rights}
           granted == {<<"grant", g[1], g[2]>> : g \in shares}
<1>1. Truths = links \cup birthdays \cup types \cup held \cup granted
  BY DEF Truths, TruthsOf
<1>2. ASSUME NEW id \in DOMAIN feeds, feeds[id].active
      PROVE  /\ <<"link", id, "">> \in links
             /\ feeds[id].birthdays => <<"birthdays", id, "">> \in birthdays
  BY <1>2
<1>3. ASSUME NEW id \in DOMAIN feeds, feeds[id].active, NEW type \in feeds[id].types
      PROVE  <<"type", id, type>> \in types
  BY <1>3
<1>4. ASSUME NEW u, NEW t, <<u, t>> \in DOMAIN rights, NEW m \in rights[<<u, t>>]
      PROVE  <<u, t, m>> \in held
  <2> DEFINE of(p) == {<<p[1], p[2], k>> : k \in rights[p]}
  <2>1. <<u, t, m>> \in of(<<u, t>>)
    <3>1. <<<<u, t>>[1], <<u, t>>[2], m>> = <<u, t, m>>
      OBVIOUS
    <3> QED
      BY <1>4, <3>1
  <2>2. held = UNION {of(p) : p \in DOMAIN rights}
    OBVIOUS
  <2> HIDE DEF of, held
  <2> QED
    BY <1>4, <2>1, <2>2
<1>5. ASSUME NEW owner, NEW viewer, <<owner, viewer>> \in shares
      PROVE  <<"grant", owner, viewer>> \in granted
  BY <1>5
<1> HIDE DEF links, birthdays, types, held, granted
<1> QED
  BY <1>1, <1>2, <1>3, <1>4, <1>5

\* What a reader in flight has seen stays, and the truth of the moment is added.
LEMMA WitnessKeeps ==
  ASSUME Witness, NEW s \in CalSlots, calReqs'[s].op \in {"feed", "shared"}
  PROVE  /\ calReqs[s].pc # "free" => witnessed[s] \subseteq witnessed'[s]
         /\ Truths' \subseteq witnessed'[s]
BY DEF Witness

LEMMA UntouchedStays ==
  ASSUME CalInv, Witness, NEW s \in CalSlots, calReqs'[s] = calReqs[s]
  PROVE  Entitled(calReqs'[s], witnessed'[s])
<1>1. Entitled(calReqs[s], witnessed[s])
  BY DEF CalInv
<1>2. CASE calReqs[s].op \notin {"feed", "shared"}
  BY <1>2 DEF Entitled
<1>3. CASE calReqs[s].pc = "free"
  BY <1>3 DEF Entitled, FeedEntitled, SharedEntitled, FeedSteps
<1>4. CASE calReqs[s].op \in {"feed", "shared"} /\ calReqs[s].pc # "free"
  <2>1. witnessed[s] \subseteq witnessed'[s]
    BY <1>4, WitnessKeeps
  <2> QED
    BY <1>1, <2>1, SeenMore
<1> QED
  BY <1>2, <1>3, <1>4

\* A step of one request.
LEMMA CallMoves ==
  ASSUME CalInv, Witness, NEW s \in CalSlots, NEW r, Becomes(s, r), CallOK(r),
         feeds' = [id \in DOMAIN feeds' |-> feeds'[id]],
         \A id \in DOMAIN feeds' : FeedOK(feeds'[id]),
         DOMAIN rights' = DOMAIN rights,
         r.op \in {"feed", "shared"} => Entitled(r, witnessed'[s])
  PROVE  CalInv'
<1>1. /\ DOMAIN calReqs' = CalSlots /\ calReqs'[s] = r
      /\ \A o \in CalSlots : o # s => calReqs'[o] = calReqs[o]
  BY DEF CalInv, CalTypeOK, Becomes
<1>2. CalTypeOK'
  <2>1. \A o \in CalSlots : CallOK(calReqs'[o])
    BY <1>1 DEF CalInv, CalTypeOK
  <2> QED
    BY <1>1, <2>1 DEF CalInv, CalTypeOK
<1>3. ASSUME NEW o \in CalSlots
      PROVE  Entitled(calReqs'[o], witnessed'[o])
  <2>1. CASE o # s
    BY <1>1, <2>1, UntouchedStays
  <2>2. CASE o = s
    BY <1>1, <2>2 DEF Entitled
  <2> QED
    BY <2>1, <2>2
<1> QED
  BY <1>2, <1>3 DEF CalInv

LEMMA CallEnds ==
  ASSUME CalInv, Witness, NEW s \in CalSlots, EndCall(s),
         feeds' = [id \in DOMAIN feeds' |-> feeds'[id]],
         \A id \in DOMAIN feeds' : FeedOK(feeds'[id]),
         DOMAIN rights' = DOMAIN rights
  PROVE  CalInv'
BY CalCallRests, CallMoves DEF EndCall

\* A request goes on while the tables stay as they are.
LEMMA CallReads ==
  ASSUME CalInv, Witness, NEW s \in CalSlots, NEW r, Becomes(s, r), CallOK(r),
         UNCHANGED <<feeds, rights, shares>>, calReqs[s].pc # "free",
         r.op \in {"feed", "shared"} =>
           \A seen : witnessed[s] \subseteq seen /\ Truths \subseteq seen
                       => Entitled(r, seen)
  PROVE  CalInv'
<1>1. Truths' = Truths
  BY DEF Truths
<1>2. calReqs'[s] = r
  BY DEF CalInv, CalTypeOK, Becomes
<1>3. r.op \in {"feed", "shared"} => Entitled(r, witnessed'[s])
  BY <1>1, <1>2, WitnessKeeps
<1>4. /\ feeds' = [id \in DOMAIN feeds' |-> feeds'[id]]
      /\ \A id \in DOMAIN feeds' : FeedOK(feeds'[id])
  BY DEF CalInv, CalTypeOK
<1> QED
  BY <1>3, <1>4, CallMoves

\* One that is denied or hung up.
LEMMA CallDenied ==
  ASSUME CalInv, Witness, NEW s \in CalSlots, EndCall(s), UNCHANGED <<feeds, rights>>
  PROVE  CalInv'
BY CallEnds DEF CalInv, CalTypeOK

LEMMA SubmitCallKeeps ==
  ASSUME CalInv, Witness, NEW s \in CalSlots, NEW r \in CalCalls, SubmitCall(s, r)
  PROVE  CalInv'
<1> DEFINE NewCall(q) ==
      /\ CallOK(q)
      /\ q.op = "feed" => q.pc = "token"
      /\ q.op = "shared" => q.pc = "grant"
<1>1. DOMAIN CalCall = CalFields
  BY DEF CalCall, CalFields
<1>2. ASSUME NEW op, NEW pc, NEW u, NEW t
      PROVE  LET q == LinkCall(op, pc, u, t)
             IN DOMAIN q = CalFields /\ q.op = op /\ q.pc = pc /\ q.user = u /\ q.team = t
  BY <1>1 DEF CalFields, LinkCall
<1>3. ASSUME NEW op \in {"issue", "revoke"}, NEW pc \in {"selection", "find"},
             r \in LinkCalls(op, pc)
      PROVE  NewCall(r)
  <2>1. PICK u \in CalUsers, t \in CalTeams : r = LinkCall(op, pc, u, t)
    BY <1>3 DEF LinkCalls
  <2> QED
    BY <1>2, <2>1 DEF CallOK, FeedSteps
<1>4. ASSUME r \in UpdateSettingsCalls
      PROVE  NewCall(r)
  <2>1. PICK u \in CalUsers, t \in CalTeams, types \in SUBSET EventTypes, b \in BOOLEAN :
          r = SettingsCall(u, t, types, b)
    BY <1>4 DEF UpdateSettingsCalls
  <2> DEFINE q == LinkCall("settings", "find", u, t)
  <2>2. r = [q EXCEPT !.types = types, !.birthdays = b]
    BY <2>1 DEF SettingsCall
  <2>3. /\ DOMAIN q = CalFields /\ q.op = "settings" /\ q.pc = "find"
        /\ q.user = u /\ q.team = t
    BY <1>2
  <2> HIDE DEF q
  <2>4. /\ DOMAIN r = CalFields /\ r.op = "settings" /\ r.pc = "find"
        /\ r.user = u /\ r.team = t
    BY <2>2, <2>3 DEF CalFields
  <2> QED
    BY <2>4 DEF CallOK, FeedSteps
<1>5. ASSUME r \in ListSharedCalendarEventsCalls
      PROVE  NewCall(r)
  <2>1. PICK owner, viewer, from, to : r = SharedCall(owner, viewer, from, to)
    BY <1>5 DEF ListSharedCalendarEventsCalls
  <2> DEFINE q == LinkCall("shared", "grant", owner, viewer)
  <2>2. r = [q EXCEPT !.from = from, !.to = to]
    BY <2>1 DEF SharedCall
  <2>3. DOMAIN q = CalFields /\ q.op = "shared" /\ q.pc = "grant"
    BY <1>2
  <2> HIDE DEF q
  <2>4. DOMAIN r = CalFields /\ r.op = "shared" /\ r.pc = "grant"
    BY <2>2, <2>3 DEF CalFields
  <2> QED
    BY <2>4 DEF CallOK, FeedSteps
<1>6. ASSUME r \in CreateCalendarShareCalls
      PROVE  NewCall(r)
  <2>1. PICK owner, viewer : r = LinkCall("share", "team", viewer, owner)
    BY <1>6 DEF CreateCalendarShareCalls
  <2> QED
    BY <1>2, <2>1 DEF CallOK, FeedSteps
<1>11. ASSUME r \in GetCalendarFeedCalls
      PROVE  NewCall(r)
  <2>1. PICK id \in Links : r = [CalCall EXCEPT !.op = "feed", !.pc = "token", !.link = id]
    BY <1>11 DEF GetCalendarFeedCalls
  <2>2. DOMAIN r = CalFields /\ r.op = "feed" /\ r.pc = "token"
    BY <1>1, <2>1 DEF CalFields
  <2> QED
    BY <2>2 DEF CallOK, FeedSteps
<1>7. NewCall(r)
  <2> HIDE DEF NewCall
  <2>1. r \in IssueTokenCalls \/ r \in RevokeTokenCalls => NewCall(r)
    BY <1>3 DEF IssueTokenCalls, RevokeTokenCalls
  <2> QED
    BY <2>1, <1>11, <1>4, <1>5, <1>6 DEF CalCalls
<1>8. Entitled(r, witnessed'[s])
  BY <1>7 DEF Entitled, FeedEntitled, SharedEntitled, FeedSteps
<1>9. /\ Becomes(s, r) /\ UNCHANGED <<feeds, rights>>
  BY DEF SubmitCall
<1>10. /\ feeds' = [id \in DOMAIN feeds' |-> feeds'[id]]
       /\ \A id \in DOMAIN feeds' : FeedOK(feeds'[id])
  BY <1>9 DEF CalInv, CalTypeOK
<1> QED
  BY <1>7, <1>8, <1>9, <1>10, CallMoves

\* The steps before a link is written.
LEMMA LinkReadsKeep ==
  ASSUME CalInv, Witness, NEW s \in CalSlots,
         ReadSelection(s) \/ FindActiveRow(s) \/ RevokeOld(s)
  PROVE  CalInv'
<1> DEFINE r == calReqs[s]
<1>1. CallOK(r) /\ r.op \in {"issue", "revoke", "settings"} /\ r.pc # "free"
  BY DEF CalInv, CalTypeOK, ReadSelection, FindActiveRow, RevokeOld, AtPc
<1>2. UNCHANGED <<feeds, rights, shares>>
  BY DEF ReadSelection, FindActiveRow, RevokeOld
<1> DEFINE MovesOn ==
      \E q : /\ Becomes(s, q) /\ DOMAIN q = CalFields
             /\ q.pc \in {"find", "update", "insert"}
             /\ q.op = r.op /\ q.user = r.user /\ q.team = r.team
<1>3. MovesOn
  <2>1. ASSUME NEW types, NEW b,
               Becomes(s, [r EXCEPT !.pc = "find", !.types = types, !.birthdays = b])
        PROVE  MovesOn
    <3> DEFINE q == [r EXCEPT !.pc = "find", !.types = types, !.birthdays = b]
    <3>1. /\ DOMAIN q = CalFields /\ q.pc = "find" /\ q.op = r.op /\ q.user = r.user
          /\ q.team = r.team
      BY <1>1 DEF CallOK, CalFields
    <3>2. Becomes(s, q)
      BY <2>1
    <3> HIDE DEF q
    <3> QED
      BY <3>1, <3>2
  <2>2. ASSUME NEW pc \in {"update", "insert"}, NEW link,
               Becomes(s, [r EXCEPT !.pc = pc, !.link = link])
        PROVE  MovesOn
    <3> DEFINE q == [r EXCEPT !.pc = pc, !.link = link]
    <3>1. /\ DOMAIN q = CalFields /\ q.pc = pc /\ q.op = r.op /\ q.user = r.user
          /\ q.team = r.team
      BY <1>1 DEF CallOK, CalFields
    <3>2. Becomes(s, q)
      BY <2>2
    <3> HIDE DEF q
    <3> QED
      BY <3>1, <3>2
  <2>3. CASE ReadSelection(s)
    BY <2>1, <2>3 DEF ReadSelection
  <2>4. CASE FindActiveRow(s)
    BY <2>2, <2>4 DEF FindActiveRow
  <2>5. CASE RevokeOld(s)
    BY <2>2, <2>5 DEF RevokeOld
  <2> QED
    BY <2>3, <2>4, <2>5
<1>4. PICK q : /\ Becomes(s, q) /\ DOMAIN q = CalFields
               /\ q.pc \in {"find", "update", "insert"}
               /\ q.op = r.op /\ q.user = r.user /\ q.team = r.team
  BY <1>3
<1>5. CallOK(q)
  BY <1>1, <1>4 DEF CallOK
<1>6. q.op \notin {"feed", "shared"}
  BY <1>1, <1>4
<1> QED
  BY <1>1, <1>2, <1>4, <1>5, <1>6, CallReads

\* A link's row keeps its holder, whoever writes it.
LEMMA LinkWritesKeep ==
  ASSUME CalInv, Witness, NEW s \in CalSlots,
         InsertToken(s) \/ Revoke(s) \/ UpdateSettings(s)
  PROVE  CalInv'
<1> DEFINE r == calReqs[s]
           row == [user |-> r.user, team |-> r.team, types |-> r.types,
                   birthdays |-> r.birthdays, active |-> TRUE]
<1>1. CallOK(r) /\ r.op \in {"issue", "revoke", "settings"}
  BY DEF CalInv, CalTypeOK, InsertToken, Revoke, UpdateSettings, AtPc
<1>2. /\ EndCall(s) /\ UNCHANGED rights
  BY DEF InsertToken, Revoke, UpdateSettings
<1>3. FeedOK(row)
  BY <1>1 DEF CallOK, FeedOK, FeedFields
<1>4. ASSUME NEW f, FeedOK(f)
      PROVE  FeedOK(Revoked(f)) /\ FeedOK(SetUp(f, r.types, r.birthdays))
  BY <1>4 DEF FeedOK, FeedFields, Revoked, SetUp
<1> HIDE DEF row
<1>5. \A id \in DOMAIN feeds : FeedOK(feeds[id])
  BY DEF CalInv, CalTypeOK
<1>6. CASE InsertToken(s)
  <2>1. PICK new :
        \/ feeds' = feeds
        \/ feeds' = [id \in DOMAIN feeds \union {new} |->
                                IF id = new THEN row
                                ELSE IF id = r.link THEN Revoked(feeds[id])
                                ELSE feeds[id]]
    BY <1>6 DEF InsertToken, row
  <2>2. /\ feeds' = [id \in DOMAIN feeds' |-> feeds'[id]]
        /\ \A id \in DOMAIN feeds' : FeedOK(feeds'[id])
    BY <1>3, <1>4, <1>5, <2>1 DEF CalInv, CalTypeOK
  <2> QED
    BY <1>2, <2>2, CallEnds
<1>7. CASE Revoke(s)
  <2>1. \/ feeds' = feeds
        \/ feeds' = [feeds EXCEPT ![r.link] = Revoked(feeds[r.link])]
    BY <1>7 DEF Revoke
  <2>2. /\ feeds' = [id \in DOMAIN feeds' |-> feeds'[id]]
        /\ \A id \in DOMAIN feeds' : FeedOK(feeds'[id])
    BY <1>4, <1>5, <2>1 DEF CalInv, CalTypeOK
  <2> QED
    BY <1>2, <2>2, CallEnds
<1>8. CASE UpdateSettings(s)
  <2>1. \/ feeds' = feeds
        \/ feeds' = [feeds EXCEPT ![r.link] = SetUp(feeds[r.link], r.types, r.birthdays)]
    BY <1>8 DEF UpdateSettings
  <2>2. /\ feeds' = [id \in DOMAIN feeds' |-> feeds'[id]]
        /\ \A id \in DOMAIN feeds' : FeedOK(feeds'[id])
    BY <1>4, <1>5, <2>1 DEF CalInv, CalTypeOK
  <2> QED
    BY <1>2, <2>2, CallEnds
<1> QED
  BY <1>6, <1>7, <1>8

\* The link works and carries its holder's choice at the moment it is looked up.
LEMMA FindActiveByTokenKeeps ==
  ASSUME CalInv, Witness, NEW s \in CalSlots, FindActiveByToken(s)
  PROVE  CalInv'
<1> DEFINE r == calReqs[s]
           id == r.link
           q == [r EXCEPT !.pc = "membership", !.user = feeds[id].user,
                          !.team = feeds[id].team, !.types = feeds[id].types,
                          !.birthdays = feeds[id].birthdays]
<1>1. CallOK(r) /\ r.op = "feed" /\ r.pc = "token"
  BY DEF CalInv, CalTypeOK, FindActiveByToken, AtPc
<1>2. UNCHANGED <<feeds, rights, shares>>
  BY DEF FindActiveByToken
<1>3. CASE Deny(s)
  BY <1>2, <1>3, CallDenied DEF Deny
<1>4. CASE id \in DOMAIN feeds /\ feeds[id].active /\ Becomes(s, q)
  <2>1. /\ DOMAIN q = CalFields /\ q.pc = "membership" /\ q.op = "feed" /\ q.link = id
        /\ q.user = feeds[id].user /\ q.team = feeds[id].team
        /\ q.types = feeds[id].types /\ q.birthdays = feeds[id].birthdays
    BY <1>1 DEF CallOK, CalFields
  <2>2. Becomes(s, q)
    BY <1>4
  <2> HIDE DEF q
  <2>3. CallOK(q)
    BY <1>4, <2>1 DEF CalInv, CalTypeOK, CallOK, FeedOK
  <2>4. ASSUME NEW seen, Truths \subseteq seen
        PROVE  Entitled(q, seen)
    <3>1. /\ <<"link", id, "">> \in seen
          /\ feeds[id].birthdays => <<"birthdays", id, "">> \in seen
          /\ \A type \in feeds[id].types : <<"type", id, type>> \in seen
      BY <1>4, <2>4, TruthsTold
    <3> QED
      BY <2>1, <3>1 DEF Entitled, FeedEntitled
  <2> QED
    BY <1>1, <1>2, <2>2, <2>3, <2>4, CallReads
<1> QED
  BY <1>3, <1>4 DEF FindActiveByToken

LEMMA CheckMembershipKeeps ==
  ASSUME CalInv, Witness, NEW s \in CalSlots, CheckMembership(s)
  PROVE  CalInv'
<1> DEFINE r == calReqs[s]
           q == [r EXCEPT !.pc = "permissions"]
<1>1. CallOK(r) /\ r.op = "feed" /\ r.pc = "membership" /\ Entitled(r, witnessed[s])
  BY DEF CalInv, CalTypeOK, CheckMembership, AtPc
<1>2. UNCHANGED <<feeds, rights, shares>>
  BY DEF CheckMembership
<1>3. CASE Deny(s)
  BY <1>2, <1>3, CallDenied DEF Deny
<1>4. CASE "member" \in Holds(s) /\ Becomes(s, q)
  <2>1. /\ DOMAIN q = CalFields /\ q.pc = "permissions" /\ q.op = "feed" /\ q.link = r.link
        /\ q.user = r.user /\ q.team = r.team
        /\ q.types = r.types /\ q.birthdays = r.birthdays
    BY <1>1 DEF CallOK, CalFields
  <2>2. Becomes(s, q)
    BY <1>4
  <2> HIDE DEF q
  <2>3. CallOK(q) /\ r.user \in CalUsers /\ r.team \in CalTeams
    BY <1>1, <2>1 DEF CallOK, FeedSteps
  <2>4. ASSUME NEW seen, Truths \subseteq seen, witnessed[s] \subseteq seen
        PROVE  Entitled(q, seen)
    <3>1. <<r.user, r.team, "member">> \in seen
      BY <1>4, <2>3, <2>4, TruthsTold DEF Holds, CalInv, CalTypeOK
    <3>2. FeedEntitled(r, seen)
      BY <1>1, <2>4, SeenMore DEF Entitled
    <3> QED
      BY <1>1, <2>1, <3>1, <3>2 DEF Entitled, FeedEntitled, FeedSteps
  <2> QED
    BY <1>1, <1>2, <2>2, <2>3, <2>4, CallReads
<1> QED
  BY <1>3, <1>4 DEF CheckMembership, Allow, GoTo

LEMMA CheckPermissionsKeeps ==
  ASSUME CalInv, Witness, NEW s \in CalSlots, CheckPermissions(s)
  PROVE  CalInv'
<1> DEFINE r == calReqs[s]
           q == [r EXCEPT !.pc = "events", !.may = Holds(s) \cap ReadModules]
<1>1. CallOK(r) /\ r.op = "feed" /\ r.pc = "permissions" /\ Entitled(r, witnessed[s])
  BY DEF CalInv, CalTypeOK, CheckPermissions, AtPc
<1>2. UNCHANGED <<feeds, rights, shares>>
  BY DEF CheckPermissions
<1>3. CASE Deny(s)
  BY <1>2, <1>3, CallDenied DEF Deny
<1>4. CASE "events" \in Holds(s) /\ Becomes(s, q)
  <2>1. /\ DOMAIN q = CalFields /\ q.pc = "events" /\ q.op = "feed" /\ q.link = r.link
        /\ q.user = r.user /\ q.team = r.team
        /\ q.types = r.types /\ q.birthdays = r.birthdays
        /\ q.may = Holds(s) \cap ReadModules
    BY <1>1 DEF CallOK, CalFields
  <2>2. Becomes(s, q)
    BY <1>4
  <2> HIDE DEF q
  <2>3. CallOK(q) /\ r.user \in CalUsers /\ r.team \in CalTeams
    BY <1>1, <2>1 DEF CallOK, FeedSteps
  <2>4. ASSUME NEW seen, Truths \subseteq seen, witnessed[s] \subseteq seen
        PROVE  Entitled(q, seen)
    <3>1. \A m \in Holds(s) : <<r.user, r.team, m>> \in seen
      BY <2>3, <2>4, TruthsTold DEF Holds, CalInv, CalTypeOK
    <3>2. FeedEntitled(r, seen)
      BY <1>1, <2>4, SeenMore DEF Entitled
    <3> QED
      BY <1>1, <1>4, <2>1, <3>1, <3>2 DEF Entitled, FeedEntitled, FeedSteps
  <2> QED
    BY <1>1, <1>2, <2>2, <2>3, <2>4, CallReads
<1> QED
  BY <1>3, <1>4 DEF CheckPermissions

LEMMA LoadEventsKeeps ==
  ASSUME CalInv, Witness, NEW s \in CalSlots, LoadEvents(s)
  PROVE  CalInv'
<1> DEFINE r == calReqs[s]
           shown == RenderedEvents(filterEventsByType({e \in schedule : e.team = r.team},
                                                      r.types))
           q == [r EXCEPT !.pc = "birthdays", !.events = shown]
<1>1. CallOK(r) /\ r.op = "feed" /\ r.pc = "events" /\ Entitled(r, witnessed[s])
  BY DEF CalInv, CalTypeOK, LoadEvents, AtPc
<1>2. UNCHANGED <<feeds, rights, shares>> /\ Becomes(s, q)
  BY DEF LoadEvents
<1>3. \A e \in shown : e.type \in r.types
  BY DEF RenderedEvents, filterEventsByType
<1> HIDE DEF shown
<1>4. /\ DOMAIN q = CalFields /\ q.pc = "birthdays" /\ q.op = "feed" /\ q.link = r.link
      /\ q.user = r.user /\ q.team = r.team /\ q.events = shown
      /\ q.types = r.types /\ q.birthdays = r.birthdays /\ q.may = r.may
  BY <1>1 DEF CallOK, CalFields
<1> HIDE DEF q
<1>5. CallOK(q)
  BY <1>1, <1>4 DEF CallOK, FeedSteps
<1>6. ASSUME NEW seen, witnessed[s] \subseteq seen
      PROVE  Entitled(q, seen)
  <2>1. FeedEntitled(r, seen)
    BY <1>1, <1>6, SeenMore DEF Entitled
  <2> QED
    BY <1>1, <1>3, <1>4, <2>1 DEF Entitled, FeedEntitled, FeedSteps
<1> QED
  BY <1>1, <1>2, <1>5, <1>6, CallReads

LEMMA LoadBirthdaysKeeps ==
  ASSUME CalInv, Witness, NEW s \in CalSlots, LoadBirthdays(s)
  PROVE  CalInv'
<1> DEFINE r == calReqs[s]
           born == IF BirthdaysShown(r) THEN MemberRows(r.team) ELSE {}
           q == [r EXCEPT !.pc = "answered", !.born = born]
<1>1. CallOK(r) /\ r.op = "feed" /\ r.pc = "birthdays" /\ Entitled(r, witnessed[s])
  BY DEF CalInv, CalTypeOK, LoadBirthdays, AtPc
<1>2. UNCHANGED <<feeds, rights, shares>> /\ Becomes(s, q)
  BY DEF LoadBirthdays
<1>3. born # {} => r.birthdays /\ "members" \in r.may
  BY DEF BirthdaysShown
<1> HIDE DEF born
<1>4. /\ DOMAIN q = CalFields /\ q.pc = "answered" /\ q.op = "feed" /\ q.link = r.link
      /\ q.user = r.user /\ q.team = r.team /\ q.events = r.events /\ q.born = born
      /\ q.types = r.types /\ q.birthdays = r.birthdays /\ q.may = r.may
  BY <1>1 DEF CallOK, CalFields
<1> HIDE DEF q
<1>5. CallOK(q)
  BY <1>1, <1>4 DEF CallOK, FeedSteps
<1>6. ASSUME NEW seen, witnessed[s] \subseteq seen
      PROVE  Entitled(q, seen)
  <2>1. FeedEntitled(r, seen)
    BY <1>1, <1>6, SeenMore DEF Entitled
  <2> QED
    BY <1>1, <1>3, <1>4, <2>1 DEF Entitled, FeedEntitled, FeedSteps
<1> QED
  BY <1>1, <1>2, <1>5, <1>6, CallReads

\* A shared schedule.
LEMMA ShareStepKeeps ==
  ASSUME CalInv, Witness, NEW s \in CalSlots, ShareStep(s)
  PROVE  CalInv'
<1> DEFINE r == calReqs[s]
<1>1. CallOK(r) /\ Entitled(r, witnessed[s])
  BY DEF CalInv, CalTypeOK
<1>2. CASE Grant(s)
  BY <1>2, CallDenied DEF Grant
<1>3. CASE CheckGrant(s)
  <2> DEFINE q == [r EXCEPT !.pc = "list"]
  <2>1. r.op = "shared" /\ r.pc = "grant" /\ UNCHANGED <<feeds, rights, shares>>
    BY <1>3 DEF CheckGrant, AtPc
  <2>2. CASE Deny(s)
    BY <2>1, <2>2, CallDenied DEF Deny
  <2>3. CASE HasGrant(r.user, r.team) /\ Becomes(s, q)
    <3>1. /\ DOMAIN q = CalFields /\ q.pc = "list" /\ q.op = "shared"
          /\ q.user = r.user /\ q.team = r.team
      BY <1>1, <2>1 DEF CallOK, CalFields
    <3>2. Becomes(s, q)
      BY <2>3
    <3> HIDE DEF q
    <3>3. CallOK(q)
      BY <3>1 DEF CallOK
    <3>4. ASSUME NEW seen, Truths \subseteq seen
          PROVE  Entitled(q, seen)
      BY <2>3, <3>1, <3>4, TruthsTold DEF Entitled, SharedEntitled, HasGrant
    <3> QED
      BY <2>1, <3>2, <3>3, <3>4, CallReads
  <2> QED
    BY <1>3, <2>2, <2>3 DEF CheckGrant, Allow, GoTo
<1>4. CASE ListRedactedEvents(s)
  <2> DEFINE shown == RedactedEvents(r.user, r.from, r.to)
             q == [r EXCEPT !.pc = "answered", !.events = shown]
  <2>1. r.op = "shared" /\ r.pc = "list" /\ UNCHANGED <<feeds, rights, shares>>
    BY <1>4 DEF ListRedactedEvents, AtPc
  <2>2. Becomes(s, q)
    BY <1>4 DEF ListRedactedEvents
  <2> HIDE DEF shown
  <2>3. /\ DOMAIN q = CalFields /\ q.pc = "answered" /\ q.op = "shared"
        /\ q.user = r.user /\ q.team = r.team
    BY <1>1, <2>1 DEF CallOK, CalFields
  <2> HIDE DEF q
  <2>4. CallOK(q)
    BY <2>3 DEF CallOK
  <2>5. ASSUME NEW seen, witnessed[s] \subseteq seen
        PROVE  Entitled(q, seen)
    BY <1>1, <2>1, <2>3, <2>5 DEF Entitled, SharedEntitled
  <2> QED
    BY <2>1, <2>2, <2>4, <2>5, CallReads
<1> QED
  BY <1>2, <1>3, <1>4 DEF ShareStep

\* The world changes; nobody in flight has seen less.
LEMMA WorldKeeps ==
  ASSUME CalInv, Witness, calReqs' = calReqs, feeds' = feeds, DOMAIN rights' = DOMAIN rights
  PROVE  CalInv'
<1>1. CalTypeOK'
  BY DEF CalInv, CalTypeOK
<1>2. \A s \in CalSlots : Entitled(calReqs'[s], witnessed'[s])
  BY UntouchedStays
<1> QED
  BY <1>1, <1>2 DEF CalInv

\* For any number of users, teams, links and requests in flight: what a feed or a shared
\* schedule shows was allowed at some time since the request came in. (calendarfeed.
\* Service.ServeFeed, calendarshare.Service.ListSharedEvents.)
THEOREM FeedsShowByRight == CalendarsSpec => []ShownByRight
<1>1. ASSUME CalInv, [CalendarsNext(CalCalls)]_calVars
      PROVE  CalInv'
  <2>1. CASE UNCHANGED calVars
    BY <1>1, <2>1 DEF CalInv, CalTypeOK, calVars
  <2>2. ASSUME NEW s \in CalSlots, Witness,
               \/ \E r \in CalCalls : SubmitCall(s, r)
               \/ LinkStep(s) \/ FeedStep(s) \/ ShareStep(s) \/ HangUp(s)
        PROVE  CalInv'
    <3>1. HangUp(s) => CalInv'
      BY <1>1, <2>2, CallDenied DEF HangUp
    <3> QED
      BY <1>1, <2>2, <3>1, SubmitCallKeeps, LinkReadsKeep, LinkWritesKeep,
        FindActiveByTokenKeeps, CheckMembershipKeeps, CheckPermissionsKeeps,
        LoadEventsKeeps, LoadBirthdaysKeeps, ShareStepKeeps DEF LinkStep, FeedStep
  <2>3. ASSUME Witness, NEW u, NEW t, NEW rs, SetRights(u, t, rs)
        PROVE  CalInv'
    BY <1>1, <2>3, WorldKeeps DEF SetRights
  <2>4. ASSUME Witness, NEW owner, NEW viewer, RevokeShare(owner, viewer)
        PROVE  CalInv'
    BY <1>1, <2>4, WorldKeeps DEF RevokeShare
  <2>5. ASSUME Witness, NEW e, Cancel(e)
        PROVE  CalInv'
    BY <1>1, <2>5, WorldKeeps DEF Cancel
  <2> QED
    BY <1>1, <2>1, <2>2, <2>3, <2>4, <2>5 DEF CalendarsNext
<1>2. CalInv => ShownByRight
  <2> SUFFICES ASSUME CalInv, NEW s \in CalSlots, calReqs[s].pc = "answered"
               PROVE  LET r == calReqs[s]
                          seen == witnessed[s]
                      IN IF r.op = "shared" THEN <<"grant", r.user, r.team>> \in seen
                         ELSE /\ <<"link", r.link, "">> \in seen
                              /\ <<r.user, r.team, "member">> \in seen
                              /\ <<r.user, r.team, "events">> \in seen
                              /\ \A e \in r.events : <<"type", r.link, e.type>> \in seen
                              /\ r.born # {} => /\ <<"birthdays", r.link, "">> \in seen
                                                /\ <<r.user, r.team, "members">> \in seen
    BY DEF ShownByRight
  <2>1. /\ Entitled(calReqs[s], witnessed[s])
        /\ calReqs[s].op \in {"feed", "shared"}
    BY DEF CalInv, CalTypeOK, CallOK
  <2> QED
    BY <2>1 DEF Entitled, FeedEntitled, SharedEntitled, FeedSteps
<1> QED
  BY <1>1, <1>2, CalInvInit, PTL DEF CalendarsSpec

-----------------------------------------------------------------------------
(* Lists of polls.                                                         *)

\* A poll has two options or more, and a ballot is for one of them.
Fits(row) == \E n \in Nat : n >= 2 /\ row.options = 1 .. n

\* What the first query of a list found.
SnapSound(db) ==
  /\ IsFiniteSet(db.votes) /\ db.votes \subseteq Ballots
  /\ \A id \in DOMAIN db.polls : Fits(db.polls[id])
  /\ \A v \in db.votes : v.option \in OptionsOf(db.polls, v.poll)
  /\ \A v, w \in db.votes :
       w.poll = v.poll /\ w.user = v.user /\ ~db.polls[v.poll].multiple
         => w.option = v.option

\* What ListsWhole says of one poll of a list.
Whole(p) ==
  LET counts == Total(p.count, DOMAIN p.count)
  IN /\ Cardinality(DOMAIN p.count) >= 2
     /\ IF p.multiple THEN counts >= p.total ELSE counts = p.total
     /\ p.mine \subseteq DOMAIN p.count

\* The ballots of a poll, as pairs of option and voter.
Cast(W) == {<<v.option, v.user>> : v \in W}
Voters(W) == {v.user : v \in W}
For(W, o) == {v \in W : v.option = o}

LEMMA BallotsForOption ==
  ASSUME NEW id, NEW W \in SUBSET Ballots, IsFiniteSet(W), \A v \in W : v.poll = id, NEW o
  PROVE  Cardinality(For(W, o)) = Cardinality(InRow(Cast(W), Voters(W), o))
<1> DEFINE S == For(W, o)
           T == InRow(Cast(W), Voters(W), o)
           f == [v \in S |-> v.user]
<1>1. f \in [S -> T]
  BY DEF For, InRow, Cast, Voters
<1>2. ASSUME NEW v \in S, NEW w \in S, f[v] = f[w]
      PROVE  v = w
  <2>1. v \in Ballots /\ w \in Ballots /\ v.poll = w.poll /\ v.option = w.option
          /\ v.user = w.user
    BY <1>2 DEF For
  <2> QED
    BY <2>1 DEF Ballots
<1>3. ASSUME NEW u \in T
      PROVE  \E v \in S : f[v] = u
  <2>1. PICK v \in W : <<o, u>> = <<v.option, v.user>>
    BY <1>3 DEF InRow, Cast
  <2>2. v \in S /\ f[v] = u
    BY <2>1 DEF For
  <2> QED
    BY <2>2
<1>4. f \in Bijection(S, T)
  BY <1>1, <1>2, <1>3 DEF Bijection, Injection, Surjection, IsInjective
<1>5. IsFiniteSet(S)
  BY FS_Subset DEF For
<1> HIDE DEF f, S, T
<1>6. ExistsBijection(S, T)
  BY <1>4 DEF ExistsBijection
<1> QED
  BY <1>5, <1>6, FS_Bijection DEF S, T

\* Every voter has cast a ballot, and one only if they may choose one only.
LEMMA BallotsAndVoters ==
  ASSUME NEW W, IsFiniteSet(W)
  PROVE  /\ IsFiniteSet(Cast(W)) /\ IsFiniteSet(Voters(W))
         /\ Cardinality(Voters(W)) =< Cardinality(Cast(W))
         /\ (\A v, w \in W : w.user = v.user => w.option = v.option)
              => Cardinality(Voters(W)) = Cardinality(Cast(W))
<1> DEFINE R == Cast(W)
           U == Voters(W)
           f == [p \in R |-> p[2]]
<1>1. IsFiniteSet(R)
  <2> DEFINE g == [v \in W |-> <<v.option, v.user>>]
  <2>1. g \in Surjection(W, R)
    BY DEF Surjection, Cast
  <2> HIDE DEF g, R
  <2> QED
    BY <2>1, FS_Surjection
<1>2. f \in Surjection(R, U)
  <2>1. f \in [R -> U]
    BY DEF Cast, Voters
  <2>2. ASSUME NEW u \in U
        PROVE  \E p \in R : f[p] = u
    <3>1. PICK v \in W : v.user = u
      BY DEF Voters
    <3>2. <<v.option, v.user>> \in R
      BY DEF Cast
    <3> QED
      BY <3>1, <3>2
  <2> QED
    BY <2>1, <2>2 DEF Surjection
<1>3. IsFiniteSet(U) /\ Cardinality(U) =< Cardinality(R)
  <2> HIDE DEF f, R, U
  <2> QED
    BY <1>1, <1>2, FS_Surjection
<1>4. ASSUME \A v, w \in W : w.user = v.user => w.option = v.option
      PROVE  Cardinality(U) = Cardinality(R)
  <2>1. ASSUME NEW p \in R, NEW q \in R, f[p] = f[q]
        PROVE  p = q
    <3>1. PICK v \in W : p = <<v.option, v.user>>
      BY DEF Cast
    <3>2. PICK w \in W : q = <<w.option, w.user>>
      BY DEF Cast
    <3> QED
      BY <1>4, <2>1, <3>1, <3>2
  <2>2. f \in Bijection(R, U)
    BY <1>2, <2>1 DEF Bijection, Injection, Surjection, IsInjective
  <2> HIDE DEF f, R, U
  <2>3. ExistsBijection(R, U)
    BY <2>2 DEF ExistsBijection
  <2> QED
    BY <1>1, <2>3, FS_Bijection
<1> QED
  BY <1>1, <1>3, <1>4

LEMMA AnswerWhole ==
  ASSUME NEW db, SnapSound(db), NEW ids, NEW id \in ids, id \in DOMAIN db.polls, NEW me,
         NEW opts, opts = ListOptionsByPollIDs(db.polls, ids),
         NEW cast, cast = ListVotesByPollIDs(db.votes, ids)
  PROVE  Whole(AssemblePoll(id, db.polls[id], opts, cast, me))
<1> DEFINE row == db.polls[id]
           p == AssemblePoll(id, row, opts, cast, me)
           own == {o \in opts : o[1] = id}
           W == {v \in cast : v.poll = id}
           R == Cast(W)
           U == Voters(W)
<1>1. own = OptionsOf(db.polls, id) /\ own = Paired(id, row.options)
  BY DEF ListOptionsByPollIDs, OptionsOf, Paired
<1>2. IsFiniteSet(own) /\ Cardinality(own) >= 2
  <2>1. PICK n \in Nat : n >= 2 /\ row.options = 1 .. n
    BY DEF SnapSound, Fits
  <2>2. IsFiniteSet(row.options) /\ Cardinality(row.options) = n
    BY <2>1, FS_Interval
  <2>3. Cardinality(own) = n
    BY <1>1, <2>2, PairsCounted
  <2>4. IsFiniteSet({id} \X row.options)
    BY <2>2, FS_Singleton, FS_Product
  <2>5. own \subseteq {id} \X row.options
    BY <1>1 DEF Paired
  <2> HIDE DEF own
  <2> QED
    BY <2>1, <2>3, <2>4, <2>5, FS_Subset
<1>3. /\ W = {v \in db.votes : v.poll = id} /\ IsFiniteSet(W) /\ W \in SUBSET Ballots
      /\ \A v \in W : v.poll = id /\ v.option \in own
  <2>1. W = {v \in db.votes : v.poll = id}
    BY DEF ListVotesByPollIDs, VotesOf
  <2> QED
    BY <1>1, <2>1, FS_Subset DEF SnapSound
<1>4. ASSUME NEW o \in own
      PROVE  {v \in cast : v.option = o} = For(W, o)
  <2>1. ASSUME NEW v \in cast, v.option = o
        PROVE  v.poll = id
    <3>1. v.option \in OptionsOf(db.polls, v.poll)
      BY DEF ListVotesByPollIDs, VotesOf, SnapSound
    <3>2. v.option[1] = v.poll
      BY <3>1 DEF OptionsOf
    <3> QED
      BY <2>1, <3>2
  <2> QED
    BY <2>1 DEF For
<1>5. /\ p.multiple = row.multiple /\ p.total = Cardinality(U)
      /\ DOMAIN p.count = own
      /\ \A o \in own : p.count[o] = Cardinality({v \in cast : v.option = o})
      /\ p.mine \subseteq {v.option : v \in W}
  BY DEF AssemblePoll, Voters
<1>6. R \in SUBSET (own \X U)
  BY <1>3 DEF Cast, Voters
<1>7. IsFiniteSet(R) /\ IsFiniteSet(U) /\ Cardinality(U) =< Cardinality(R)
  BY <1>3, BallotsAndVoters
<1>8. ASSUME NEW o \in own
      PROVE  p.count[o] = Cardinality(InRow(R, U, o))
  <2>1. p.count[o] = Cardinality(For(W, o))
    BY <1>4, <1>5
  <2> HIDE DEF own, p, W
  <2> QED
    BY <1>3, <2>1, BallotsForOption
<1>9. ~row.multiple => Cardinality(U) = Cardinality(R)
  <2>1. ~row.multiple => \A v, w \in W : w.user = v.user => w.option = v.option
    BY <1>3 DEF SnapSound
  <2> HIDE DEF W
  <2> QED
    BY <1>3, <2>1, BallotsAndVoters
<1>10. Cardinality(U) \in Nat /\ Cardinality(R) \in Nat
  BY <1>7, FS_CardinalityType
<1>11. p.mine \subseteq own
  BY <1>3, <1>5
<1> HIDE DEF p, own, W, R, U, row
<1>12. Total(p.count, own) = Cardinality(R)
  <2> DEFINE f == p.count
  <2>1. \A o \in own : f[o] = Cardinality(InRow(R, U, o))
    BY <1>8
  <2> HIDE DEF f
  <2>2. Total(f, own) = Cardinality(R)
    BY <1>2, <1>6, <1>7, <2>1, RowsAddUp
  <2> QED
    BY <2>2 DEF f
<1>13. Whole(p)
  BY <1>2, <1>5, <1>7, <1>9, <1>10, <1>11, <1>12 DEF Whole
<1> QED
  BY <1>13 DEF p, row

\* A list in the making keeps to what its first query found.
ListSound(r) ==
  /\ IsFiniteSet(r.cast)
  /\ r.pc \in {"count", "insert"} => r.options \in Nat /\ r.options >= 2
  /\ r.pc \in {"page", "tally"} =>
       /\ SnapSound(r.snap)
       /\ \A p \in r.page : p.id \in DOMAIN r.snap.polls /\ p.row = r.snap.polls[p.id]
  /\ r.pc = "tally" => r.opts = ListOptionsByPollIDs(r.snap.polls, {p.id : p \in r.page})
  /\ r.pc = "answered" => \A p \in r.answer : Whole(p)

PollsFit == IsFiniteSet(votes) /\ \A id \in DOMAIN polls : Fits(polls[id])

ListInv ==
  /\ PollInv /\ PollsFit
  /\ \A s \in PollSlots : ListSound(pollReqs[s])

LEMMA SnapshotFits ==
  ASSUME PollInv, PollsFit
  PROVE  SnapSound(Snapshot)
<1>1. Snapshot.polls = polls /\ Snapshot.votes = votes
  BY DEF Snapshot
<1>2. /\ \A v \in votes : v.option \in OptionsOf(polls, v.poll)
      /\ \A v, w \in votes : w.poll = v.poll /\ w.user = v.user /\ ~polls[v.poll].multiple
           => w.option = v.option
  BY DEF PollInv, OneChoice
<1> QED
  BY <1>1, <1>2 DEF SnapSound, PollInv, PollTypeOK, PollsFit

LEMMA ListMoves ==
  ASSUME ListInv, PollInv', PollsFit', NEW s \in PollSlots, NEW q,
         pollReqs' = [pollReqs EXCEPT ![s] = q], ListSound(q)
  PROVE  ListInv'
<1>1. pollReqs'[s] = q /\ \A o \in PollSlots : o # s => pollReqs'[o] = pollReqs[o]
  BY DEF ListInv, PollInv, PollTypeOK
<1>2. \A o \in PollSlots : ListSound(pollReqs'[o])
  BY <1>1 DEF ListInv
<1> QED
  BY <1>2 DEF ListInv

\* The steps at which a request holds no rows to be put together.
Apart == {"count", "insert", "page", "tally", "answered"}

LEMMA ListsElsewhere ==
  ASSUME ListInv, PollInv', PollsFit', NEW s \in PollSlots, NEW q,
         pollReqs' = [pollReqs EXCEPT ![s] = q], q.pc \notin Apart, IsFiniteSet(q.cast)
  PROVE  ListInv'
<1>1. ListSound(q)
  BY DEF ListSound, Apart
<1> QED
  BY <1>1, ListMoves

LEMMA ListEnds ==
  ASSUME ListInv, PollInv', PollsFit', NEW s \in PollSlots, EndPoll(s)
  PROVE  ListInv'
<1>1. pollReqs' = [pollReqs EXCEPT ![s] = PollCall]
  BY DEF EndPoll
<1>2. PollCall.pc \notin Apart /\ PollCall.cast = {}
  BY PollCallRests DEF Apart
<1> QED
  BY <1>1, <1>2, FS_EmptySet, ListsElsewhere

LEMMA FitsStay ==
  ASSUME ListInv, UNCHANGED <<polls, votes>>
  PROVE  PollsFit'
BY DEF ListInv, PollsFit

\* The three queries of a list.
LEMMA AssemblePageKeeps ==
  ASSUME ListInv, PollInv', NEW s \in PollSlots, AssemblePage(s)
  PROVE  ListInv'
<1> DEFINE r == pollReqs[s]
           found == ListPollsByTeam(Snapshot.polls, r.team, PollLimit + 1, r.poll)
           newest == IF Cardinality(found) > PollLimit THEN found \ {Min(found)} ELSE found
           page == {[id |-> id, row |-> Snapshot.polls[id]] : id \in newest}
           q == [r EXCEPT !.pc = "page", !.snap = Snapshot, !.page = page]
<1>1. PollsFit'
  BY FitsStay DEF AssemblePage
<1>2. DOMAIN r = PollFields /\ ListSound(r) /\ r.pc = "begin"
  BY DEF ListInv, PollInv, PollTypeOK, AssemblePage, PollPc
<1>3. ReadTx(s) = Snapshot
  BY <1>2 DEF ReadTx, PollPc
<1>4. pollReqs' = [pollReqs EXCEPT ![s] = q]
  BY <1>3 DEF AssemblePage
<1>5. newest \subseteq DOMAIN Snapshot.polls
  BY DEF ListPollsByTeam
<1> HIDE DEF newest
<1>6. \A p \in page : p.id \in DOMAIN Snapshot.polls /\ p.row = Snapshot.polls[p.id]
  BY <1>5
<1> HIDE DEF page
<1>7. q.pc = "page" /\ q.snap = Snapshot /\ q.page = page /\ q.cast = r.cast
  BY <1>2 DEF PollFields
<1> HIDE DEF q
<1>8. SnapSound(Snapshot)
  BY SnapshotFits DEF ListInv
<1>9. ListSound(q)
  BY <1>2, <1>6, <1>7, <1>8 DEF ListSound
<1> QED
  BY <1>1, <1>4, <1>9, ListMoves

LEMMA PageOptionsKeeps ==
  ASSUME ListInv, PollInv', NEW s \in PollSlots, PageOptions(s)
  PROVE  ListInv'
<1> DEFINE r == pollReqs[s]
           opts == ListOptionsByPollIDs(r.snap.polls, {p.id : p \in r.page})
           q == [r EXCEPT !.pc = "tally", !.opts = opts]
<1>1. PollsFit'
  BY FitsStay DEF PageOptions
<1>2. DOMAIN r = PollFields /\ ListSound(r) /\ r.pc = "page"
  BY DEF ListInv, PollInv, PollTypeOK, PageOptions, PollPc
<1>3. ReadTx(s) = r.snap
  BY <1>2 DEF ReadTx, PollPc
<1>4. pollReqs' = [pollReqs EXCEPT ![s] = q]
  BY <1>3 DEF PageOptions, PageIds
<1>5. /\ q.pc = "tally" /\ q.snap = r.snap /\ q.page = r.page /\ q.cast = r.cast
      /\ q.opts = opts
  BY <1>2 DEF PollFields
<1> HIDE DEF q
<1>6. ListSound(q)
  BY <1>2, <1>5 DEF ListSound
<1> QED
  BY <1>1, <1>4, <1>6, ListMoves

LEMMA PageVotesKeeps ==
  ASSUME ListInv, PollInv', NEW s \in PollSlots, PageVotes(s)
  PROVE  ListInv'
<1> DEFINE r == pollReqs[s]
           ids == {p.id : p \in r.page}
           cast == ListVotesByPollIDs(r.snap.votes, ids)
           answer == {AssemblePoll(p.id, p.row, r.opts, cast, r.user) : p \in r.page}
           q == [r EXCEPT !.pc = "answered", !.answer = answer]
<1>1. PollsFit'
  BY FitsStay DEF PageVotes
<1>2. DOMAIN r = PollFields /\ ListSound(r) /\ r.pc = "tally"
  BY DEF ListInv, PollInv, PollTypeOK, PageVotes, PollPc
<1>3. ReadTx(s) = r.snap
  BY <1>2 DEF ReadTx, PollPc
<1>4. pollReqs' = [pollReqs EXCEPT ![s] = q]
  BY <1>3 DEF PageVotes, PageIds
<1>5. q.pc = "answered" /\ q.answer = answer /\ q.cast = r.cast
  BY <1>2 DEF PollFields
<1> HIDE DEF q
<1>6. ASSUME NEW p \in r.page
      PROVE  Whole(AssemblePoll(p.id, p.row, r.opts, cast, r.user))
  <2>1. /\ SnapSound(r.snap) /\ p.id \in ids /\ p.id \in DOMAIN r.snap.polls
        /\ p.row = r.snap.polls[p.id] /\ r.opts = ListOptionsByPollIDs(r.snap.polls, ids)
    BY <1>2 DEF ListSound
  <2>2. PICK db, S, me : db = r.snap /\ S = ids /\ me = r.user
    OBVIOUS
  <2>3. PICK c : c = cast
    OBVIOUS
  <2>4. c = ListVotesByPollIDs(db.votes, S)
    BY <2>2, <2>3
  <2> HIDE DEF cast, ids
  <2>5. Whole(AssemblePoll(p.id, db.polls[p.id], r.opts, c, me))
    BY <2>1, <2>2, <2>4, AnswerWhole
  <2> QED
    BY <2>1, <2>2, <2>3, <2>5
<1>7. \A p \in answer : Whole(p)
  <2> HIDE DEF cast
  <2> QED
    BY <1>6
<1> HIDE DEF answer
<1>8. ListSound(q)
  BY <1>2, <1>5, <1>7 DEF ListSound
<1> QED
  BY <1>1, <1>4, <1>8, ListMoves

\* The rest of the steps leave the lists that are being put together alone.
LEMMA SubmitListKeeps ==
  ASSUME ListInv, PollInv', NEW s \in PollSlots, NEW r \in PollCalls, SubmitPoll(s, r)
  PROVE  ListInv'
<1>1. PollsFit'
  BY FitsStay DEF SubmitPoll
<1>2. pollReqs' = [pollReqs EXCEPT ![s] = r]
  BY DEF SubmitPoll
<1>3. ASSUME NEW t, NEW u, NEW m, NEW a, NEW n \in 2 .. MaxOptions
      PROVE  ListSound(CreatePollCall(t, u, m, a, n))
  <2> DEFINE q == CreatePollCall(t, u, m, a, n)
  <2>1. q.pc = "count" /\ q.options = n /\ q.cast = {}
    BY DEF CreatePollCall, PollCall
  <2>2. n \in Nat /\ n >= 2
    BY PollsAssumption
  <2> HIDE DEF q
  <2> QED
    BY <2>1, <2>2, FS_EmptySet DEF ListSound, q
<1>4. ASSUME NEW q, q.cast = {}, q.pc \notin Apart
      PROVE  ListSound(q)
  BY <1>4, FS_EmptySet DEF ListSound, Apart
<1>5. r \notin CreatePollCalls => r.cast = {} /\ r.pc \notin Apart
  <2>1. ASSUME NEW t, NEW u, NEW p, NEW o
        PROVE  VotePollCall(t, u, p, o).cast = {} /\ VotePollCall(t, u, p, o).pc = "find"
    BY DEF VotePollCall, PollCall
  <2>2. ASSUME NEW t, NEW p
        PROVE  DeletePollCall(t, p).cast = {} /\ DeletePollCall(t, p).pc = "delete"
    BY DEF DeletePollCall, PollCall
  <2>3. ASSUME NEW t, NEW u, NEW p
        PROVE  ListPollsCall(t, u, p).cast = {} /\ ListPollsCall(t, u, p).pc = "begin"
    BY DEF ListPollsCall, PollCall
  <2>4. r \in VotePollCalls => r.cast = {} /\ r.pc = "find"
    BY <2>1 DEF VotePollCalls
  <2>5. r \in DeletePollCalls => r.cast = {} /\ r.pc = "delete"
    BY <2>2 DEF DeletePollCalls
  <2>6. r \in ListPollsCalls => r.cast = {} /\ r.pc = "begin"
    BY <2>3 DEF ListPollsCalls
  <2> QED
    BY <2>4, <2>5, <2>6 DEF PollCalls, Apart
<1>6. r \in CreatePollCalls => ListSound(r)
  BY <1>3 DEF CreatePollCalls
<1>7. ListSound(r)
  BY <1>4, <1>5, <1>6
<1> QED
  BY <1>1, <1>2, <1>7, ListMoves

LEMMA AdmitPollKeeps ==
  ASSUME ListInv, PollInv', NEW s \in PollSlots, AdmitPoll(s)
  PROVE  ListInv'
<1> DEFINE r == pollReqs[s]
           q == [r EXCEPT !.pc = "insert"]
<1>1. PollsFit'
  BY FitsStay DEF AdmitPoll
<1>2. DOMAIN r = PollFields /\ ListSound(r) /\ r.pc = "count"
  BY DEF ListInv, PollInv, PollTypeOK, AdmitPoll, PollPc
<1>3. CASE EndPoll(s)
  BY <1>1, <1>3, ListEnds
<1>4. CASE PollTo(s, "insert")
  <2>1. pollReqs' = [pollReqs EXCEPT ![s] = q]
    BY <1>4 DEF PollTo
  <2>2. q.pc = "insert" /\ q.options = r.options /\ q.cast = r.cast
    BY <1>2 DEF PollFields
  <2> HIDE DEF q
  <2>3. ListSound(q)
    BY <1>2, <2>2 DEF ListSound
  <2> QED
    BY <1>1, <2>1, <2>3, ListMoves
<1> QED
  BY <1>3, <1>4 DEF AdmitPoll

\* A poll is made with the options of its request, two or more.
LEMMA CreatePollFits ==
  ASSUME ListInv, PollInv', NEW s \in PollSlots, CreatePoll(s)
  PROVE  ListInv'
<1> DEFINE r == pollReqs[s]
           id == lastPoll + 1
           q == [r EXCEPT !.pc = "options", !.poll = id]
<1>1. DOMAIN r = PollFields /\ ListSound(r) /\ r.pc = "insert"
  BY DEF ListInv, PollInv, PollTypeOK, CreatePoll, PollPc
<1>2. /\ pollReqs' = [pollReqs EXCEPT ![s] = q]
      /\ q.pc = "options" /\ q.cast = r.cast
  BY <1>1 DEF PollFields, CreatePoll
<1>3. PollsFit'
  <2>1. polls' = [x \in DOMAIN polls \union {id} |->
                     IF x = id THEN PollRow(r) ELSE polls[x]]
          /\ votes' = votes
    BY DEF CreatePoll
  <2>2. Fits(PollRow(r))
    BY <1>1 DEF ListSound, Fits, PollRow
  <2> QED
    BY <2>1, <2>2 DEF ListInv, PollsFit
<1> HIDE DEF q
<1> QED
  BY <1>1, <1>2, <1>3, ListsElsewhere DEF ListSound, Apart

LEMMA DeletePollFits ==
  ASSUME ListInv, PollInv', NEW s \in PollSlots, DeletePoll(s)
  PROVE  ListInv'
<1> DEFINE hit == {id \in {pollReqs[s].poll} \cap DOMAIN polls :
                     polls[id].team = pollReqs[s].team}
<1>1. /\ polls' = [id \in DOMAIN polls \ hit |-> polls[id]]
      /\ votes' \subseteq votes /\ EndPoll(s)
  BY DEF DeletePoll
<1> HIDE DEF hit
<1>2. PollsFit'
  BY <1>1, FS_Subset DEF ListInv, PollsFit
<1> QED
  BY <1>1, <1>2, ListEnds

LEMMA VotingFits ==
  ASSUME ListInv, PollInv', NEW s \in PollSlots,
         AdmitVote(s) \/ AdvisoryLock(s) \/ ClearVotes(s) \/ CastVote(s) \/ ReplaceVotes(s)
  PROVE  ListInv'
<1> DEFINE r == pollReqs[s]
<1>1. DOMAIN r = PollFields /\ IsFiniteSet(r.cast)
  BY DEF ListInv, PollInv, PollTypeOK, ListSound
<1>2. PollsFit'
  <2>1. CASE ReplaceVotes(s)
    <3>1. IsFiniteSet(votes \ r.gone)
      BY FS_Subset DEF ListInv, PollsFit
    <3>2. IsFiniteSet(votes')
      BY <1>1, <2>1, <3>1, FS_Union DEF ReplaceVotes
    <3> QED
      BY <2>1, <3>2 DEF ListInv, PollsFit, ReplaceVotes
  <2>2. CASE ~ReplaceVotes(s)
    BY <2>2, FitsStay DEF AdmitVote, AdvisoryLock, ClearVotes, CastVote
  <2> QED
    BY <2>1, <2>2
<1>3. CASE EndPoll(s)
  BY <1>2, <1>3, ListEnds
<1>4. ASSUME NEW q, pollReqs' = [pollReqs EXCEPT ![s] = q], q.pc \notin Apart,
             IsFiniteSet(q.cast)
      PROVE  ListInv'
  BY <1>2, <1>4, ListsElsewhere
<1>5. CASE AdmitVote(s)
  <2> DEFINE q == [r EXCEPT !.pc = "lock"]
  <2>1. q.pc = "lock" /\ q.cast = r.cast
    BY <1>1 DEF PollFields
  <2>2. EndPoll(s) \/ pollReqs' = [pollReqs EXCEPT ![s] = q]
    BY <1>5 DEF AdmitVote, PollTo
  <2> HIDE DEF q
  <2> QED
    BY <1>1, <1>3, <1>4, <2>1, <2>2 DEF Apart
<1>6. CASE AdvisoryLock(s)
  <2> DEFINE q == [r EXCEPT !.pc = "clear", !.lock = TRUE]
  <2>1. q.pc = "clear" /\ q.cast = r.cast
    BY <1>1 DEF PollFields
  <2>2. pollReqs' = [pollReqs EXCEPT ![s] = q]
    BY <1>6 DEF AdvisoryLock
  <2> HIDE DEF q
  <2> QED
    BY <1>1, <1>4, <2>1, <2>2 DEF Apart
<1>7. CASE ClearVotes(s)
  <2> DEFINE q == [r EXCEPT !.pc = "cast",
                            !.gone = {v \in votes : v.poll = r.poll /\ v.user = r.user}]
  <2>1. q.pc = "cast" /\ q.cast = r.cast
    BY <1>1 DEF PollFields
  <2>2. pollReqs' = [pollReqs EXCEPT ![s] = q]
    BY <1>7 DEF ClearVotes
  <2> HIDE DEF q
  <2> QED
    BY <1>1, <1>4, <2>1, <2>2 DEF Apart
<1>8. ASSUME NEW o, r.pc = "cast",
             pollReqs' = [pollReqs EXCEPT ![s].picks = @ \ {o}, ![s].cast = @ \union
                            {[poll |-> r.poll, option |-> o, user |-> r.user]}]
      PROVE  ListInv'
  <2> DEFINE v == [poll |-> r.poll, option |-> o, user |-> r.user]
             q == [r EXCEPT !.picks = @ \ {o}, !.cast = @ \union {v}]
  <2>1. q.pc = "cast" /\ q.cast = r.cast \cup {v}
    BY <1>1, <1>8 DEF PollFields
  <2>2. pollReqs' = [pollReqs EXCEPT ![s] = q]
    BY <1>8
  <2> HIDE DEF q, v
  <2>3. IsFiniteSet(q.cast)
    BY <1>1, <2>1, FS_AddElement
  <2> QED
    BY <1>4, <2>1, <2>2, <2>3 DEF Apart
<1>9. CASE CastVote(s)
  BY <1>3, <1>8, <1>9 DEF CastVote, PollPc
<1>10. CASE ReplaceVotes(s)
  <2> DEFINE q == [r EXCEPT !.pc = "refetch", !.lock = FALSE, !.gone = {}, !.cast = {}]
  <2>1. q.pc = "refetch" /\ q.cast = {}
    BY <1>1 DEF PollFields
  <2>2. pollReqs' = [pollReqs EXCEPT ![s] = q]
    BY <1>10 DEF ReplaceVotes
  <2> HIDE DEF q
  <2> QED
    BY <1>4, <2>1, <2>2, FS_EmptySet DEF Apart
<1> QED
  BY <1>5, <1>6, <1>7, <1>9, <1>10

LEMMA RereadingFits ==
  ASSUME ListInv, PollInv', NEW s \in PollSlots,
         Refetch(s) \/ BuildPoll(s) \/ AnswerPolls(s) \/ AbortPoll(s)
  PROVE  ListInv'
<1> DEFINE r == pollReqs[s]
<1>1. DOMAIN r = PollFields /\ IsFiniteSet(r.cast)
  BY DEF ListInv, PollInv, PollTypeOK, ListSound
<1>2. PollsFit'
  BY FitsStay DEF Refetch, BuildPoll, AnswerPolls, AbortPoll
<1>3. CASE EndPoll(s)
  BY <1>2, <1>3, ListEnds
<1>4. CASE PollTo(s, "options")
  <2> DEFINE q == [r EXCEPT !.pc = "options"]
  <2>1. q.pc = "options" /\ q.cast = r.cast
    BY <1>1 DEF PollFields
  <2>2. pollReqs' = [pollReqs EXCEPT ![s] = q]
    BY <1>4 DEF PollTo
  <2> HIDE DEF q
  <2> QED
    BY <1>1, <1>2, <2>1, <2>2, ListsElsewhere DEF Apart
<1>5. CASE pollReqs' = [pollReqs EXCEPT ![s].pc = "votes", ![s].opts = ListOptions(r.poll)]
  <2> DEFINE q == [r EXCEPT !.pc = "votes", !.opts = ListOptions(r.poll)]
  <2>1. q.pc = "votes" /\ q.cast = r.cast
    BY <1>1 DEF PollFields
  <2>2. pollReqs' = [pollReqs EXCEPT ![s] = q]
    BY <1>5
  <2> HIDE DEF q
  <2> QED
    BY <1>1, <1>2, <2>1, <2>2, ListsElsewhere DEF Apart
<1> QED
  BY <1>3, <1>4, <1>5 DEF Refetch, BuildPoll, AnswerPolls, AbortPoll

LEMMA ListInvInit == PollsInit => ListInv
<1> SUFFICES ASSUME PollsInit PROVE ListInv
  OBVIOUS
<1>1. PollsFit
  BY FS_EmptySet DEF PollsInit, PollsFit
<1>2. \A s \in PollSlots : pollReqs[s] = PollCall
  BY DEF PollsInit
<1>3. ListSound(PollCall)
  BY PollCallRests, FS_EmptySet DEF ListSound
<1> QED
  BY <1>1, <1>2, <1>3, PollInvInit DEF ListInv

LEMMA ListInvNext ==
  ASSUME ListInv, [PollsNext(PollCalls)]_pollVars
  PROVE  ListInv'
<1>1. PollInv'
  BY PollInvNext DEF ListInv
<1>2. CASE UNCHANGED <<polls, votes, pollReqs>>
  BY <1>1, <1>2, FitsStay DEF ListInv
<1>3. ASSUME NEW s \in PollSlots, PollStep(s)
      PROVE  ListInv'
  BY <1>1, <1>3, AdmitPollKeeps, CreatePollFits, DeletePollFits, VotingFits, RereadingFits,
    AssemblePageKeeps, PageOptionsKeeps, PageVotesKeeps DEF PollStep
<1>4. ASSUME NEW s \in PollSlots, NEW r \in PollCalls, SubmitPoll(s, r)
      PROVE  ListInv'
  BY <1>1, <1>4, SubmitListKeeps
<1> QED
  BY <1>2, <1>3, <1>4 DEF PollsNext, pollVars, LeaveTeam

\* Every poll in a list has its options and ballots that add up, however many polls and
\* ballots there are, although polls are deleted and ballots replaced while the three
\* queries of the list run: they read what the first of them found.
\* (polls.Service.ListPolls, polls.Repository.WithReadTx.)
THEOREM ListsStayWhole == PollsSpec => []ListsWhole
<1>1. ListInv /\ [PollsNext(PollCalls)]_pollVars => ListInv'
  BY ListInvNext
<1>2. ListInv => ListsWhole
  BY DEF ListInv, ListSound, ListsWhole, Whole
<1> QED
  BY <1>1, <1>2, ListInvInit, PTL DEF PollsSpec

\* What takes several queries in one read transaction is whole, finances and polls alike,
\* for every number of rows and of requests in flight.
\* (finances.Repository, polls.Repository: WithReadTx.)
THEOREM ReadsStayWhole == Spec /\ PollsSpec => []ReadsWhole
<1>1. OverviewAdds /\ ListsWhole => ReadsWhole
  BY DEF ReadsWhole
<1> QED
  BY <1>1, OverviewsAddUp, ListsStayWhole, PTL


-----------------------------------------------------------------------------
(* Pages: the order of a list.                                             *)

Pairs == Int \X Int
Triples == Int \X Int \X Int
Keys(names) == IF names \in {"transactions", "news"} THEN Triples ELSE Pairs

\* K is ordered by Ahead: strictly and totally.
Ordered(K, ascending) ==
  \A a, b \in K :
    /\ ~Ahead(a, a, ascending)
    /\ a = b \/ Ahead(a, b, ascending) \/ Ahead(b, a, ascending)
    /\ \A c \in K : Ahead(a, b, ascending) /\ Ahead(b, c, ascending) => Ahead(a, c, ascending)

LEMMA BeforePairs ==
  ASSUME NEW a \in Pairs, NEW b \in Pairs
  PROVE  Before(a, b) <=> a[1] < b[1] \/ (a[1] = b[1] /\ a[2] < b[2])
<1>1. DOMAIN a = {1, 2} /\ a[1] \in Int /\ a[2] \in Int /\ b[1] \in Int /\ b[2] \in Int
  BY DEF Pairs
<1>2. Before(a, b) <=> \/ a[1] < b[1] /\ \A j \in 1 .. 1 - 1 : a[j] = b[j]
                       \/ a[2] < b[2] /\ \A j \in 1 .. 2 - 1 : a[j] = b[j]
  BY <1>1 DEF Before
<1>3. 1 .. 1 - 1 = {} /\ 1 .. 2 - 1 = {1}
  OBVIOUS
<1> QED
  BY <1>1, <1>2, <1>3

LEMMA BeforeTriples ==
  ASSUME NEW a \in Triples, NEW b \in Triples
  PROVE  Before(a, b) <=> \/ a[1] < b[1]
                          \/ a[1] = b[1] /\ a[2] < b[2]
                          \/ a[1] = b[1] /\ a[2] = b[2] /\ a[3] < b[3]
<1>1. /\ DOMAIN a = {1, 2, 3} /\ a[1] \in Int /\ a[2] \in Int /\ a[3] \in Int
      /\ b[1] \in Int /\ b[2] \in Int /\ b[3] \in Int
  BY DEF Triples
<1>2. Before(a, b) <=> \/ a[1] < b[1] /\ \A j \in 1 .. 1 - 1 : a[j] = b[j]
                       \/ a[2] < b[2] /\ \A j \in 1 .. 2 - 1 : a[j] = b[j]
                       \/ a[3] < b[3] /\ \A j \in 1 .. 3 - 1 : a[j] = b[j]
  BY <1>1 DEF Before
<1>3. 1 .. 1 - 1 = {} /\ 1 .. 2 - 1 = {1} /\ 1 .. 3 - 1 = {1, 2}
  OBVIOUS
<1> QED
  BY <1>1, <1>2, <1>3

LEMMA KeysOrdered ==
  ASSUME NEW names, NEW ascending \in BOOLEAN
  PROVE  Ordered(Keys(names), ascending)
<1>1. Ordered(Pairs, TRUE) /\ Ordered(Pairs, FALSE)
  <2> SUFFICES ASSUME NEW a \in Pairs, NEW b \in Pairs, NEW c \in Pairs
               PROVE  /\ ~Before(a, a)
                      /\ a = b \/ Before(a, b) \/ Before(b, a)
                      /\ Before(a, b) /\ Before(b, c) => Before(a, c)
                      /\ Before(b, a) /\ Before(c, b) => Before(c, a)
    BY DEF Ordered, Ahead
  <2>1. \A x, y \in Pairs : Before(x, y) <=> x[1] < y[1] \/ (x[1] = y[1] /\ x[2] < y[2])
    BY BeforePairs
  <2>2. \A x \in Pairs : x[1] \in Int /\ x[2] \in Int /\ x = <<x[1], x[2]>>
    BY DEF Pairs
  <2>3. ~Before(a, a)
    BY <2>1, <2>2
  <2>4. a = b \/ Before(a, b) \/ Before(b, a)
    BY <2>1, <2>2
  <2>5. /\ Before(a, b) /\ Before(b, c) => Before(a, c)
        /\ Before(b, a) /\ Before(c, b) => Before(c, a)
    BY <2>1, <2>2
  <2> QED
    BY <2>3, <2>4, <2>5
<1>2. Ordered(Triples, TRUE) /\ Ordered(Triples, FALSE)
  <2> SUFFICES ASSUME NEW a \in Triples, NEW b \in Triples, NEW c \in Triples
               PROVE  /\ ~Before(a, a)
                      /\ a = b \/ Before(a, b) \/ Before(b, a)
                      /\ Before(a, b) /\ Before(b, c) => Before(a, c)
                      /\ Before(b, a) /\ Before(c, b) => Before(c, a)
    BY DEF Ordered, Ahead
  <2>1. \A x, y \in Triples : Before(x, y) <=>
           \/ x[1] < y[1]
           \/ x[1] = y[1] /\ x[2] < y[2]
           \/ x[1] = y[1] /\ x[2] = y[2] /\ x[3] < y[3]
    BY BeforeTriples
  <2>2. \A x \in Triples : /\ x[1] \in Int /\ x[2] \in Int /\ x[3] \in Int
                           /\ x = <<x[1], x[2], x[3]>>
    BY DEF Triples
  <2>3. ~Before(a, a)
    BY <2>1, <2>2
  <2>4. a = b \/ Before(a, b) \/ Before(b, a)
    BY <2>1, <2>2
  <2>5. /\ Before(a, b) /\ Before(b, c) => Before(a, c)
        /\ Before(b, a) /\ Before(c, b) => Before(c, a)
    BY <2>1, <2>2
  <2> QED
    BY <2>3, <2>4, <2>5
<1> QED
  BY <1>1, <1>2 DEF Keys

-----------------------------------------------------------------------------
(* Pages: what a query returns.                                            *)

\* Rows that lie in an order have the ranks 0, 1, 2, ... in it, each once.
LEMMA Ranks ==
  ASSUME NEW ids, IsFiniteSet(ids), NEW K, NEW key, NEW ascending \in BOOLEAN,
         Ordered(K, ascending),
         \A id \in ids : key[id] \in K,
         \A a, b \in ids : key[a] = key[b] => a = b
  PROVE  /\ \A a, b \in ids :
              Rank(ids, key, ascending, a) < Rank(ids, key, ascending, b)
                <=> Ahead(key[a], key[b], ascending)
         /\ \A id \in ids : Rank(ids, key, ascending, id) \in 0 .. Cardinality(ids) - 1
         /\ \A i \in 0 .. Cardinality(ids) - 1 :
              \E id \in ids : Rank(ids, key, ascending, id) = i
<1> DEFINE R(id) == Rank(ids, key, ascending, id)
           Lower(id) == {o \in ids : Ahead(key[o], key[id], ascending)}
           n == Cardinality(ids)
<1>1. n \in Nat
  BY FS_CardinalityType
<1>2. \A id \in ids : /\ IsFiniteSet(Lower(id)) /\ Lower(id) # ids
                       /\ Lower(id) \subseteq ids
  BY FS_Subset DEF Ordered
<1>3. \A id \in ids : R(id) \in Nat /\ R(id) < n
  BY <1>1, <1>2, FS_CardinalityType, FS_Subset DEF Rank
<1>4. ASSUME NEW a \in ids, NEW b \in ids, Ahead(key[a], key[b], ascending)
      PROVE  R(a) < R(b)
  <2>1. Lower(a) \subseteq Lower(b) /\ a \in Lower(b) /\ a \notin Lower(a)
    BY <1>4 DEF Ordered
  <2> HIDE DEF Lower
  <2>2. Lower(a) # Lower(b) /\ IsFiniteSet(Lower(b)) /\ IsFiniteSet(Lower(a))
    BY <1>2, <2>1
  <2>3. /\ Cardinality(Lower(a)) <= Cardinality(Lower(b))
        /\ Cardinality(Lower(a)) # Cardinality(Lower(b))
        /\ Cardinality(Lower(a)) \in Nat /\ Cardinality(Lower(b)) \in Nat
    BY <2>1, <2>2, FS_Subset, FS_CardinalityType
  <2>4. Cardinality(Lower(a)) < Cardinality(Lower(b))
    BY <2>3
  <2> QED
    BY <2>4 DEF Rank, Lower
<1>5. \A a, b \in ids : R(a) < R(b) <=> Ahead(key[a], key[b], ascending)
  <2> SUFFICES ASSUME NEW a \in ids, NEW b \in ids, R(a) < R(b)
               PROVE  Ahead(key[a], key[b], ascending)
    BY <1>4
  <2>1. R(a) \in Nat /\ R(b) \in Nat /\ ~(R(b) < R(a)) /\ a # b
    BY <1>3
  <2> QED
    BY <1>4, <2>1 DEF Ordered
<1>6. \A a, b \in ids : R(a) = R(b) => a = b
  <2> SUFFICES ASSUME NEW a \in ids, NEW b \in ids, R(a) = R(b), a # b PROVE FALSE
    OBVIOUS
  <2>1. R(a) \in Nat /\ R(b) \in Nat /\ ~(R(a) < R(b)) /\ ~(R(b) < R(a))
    BY <1>3
  <2> QED
    BY <1>4, <2>1 DEF Ordered
<1> DEFINE f == [id \in ids |-> R(id)]
<1>7. f \in Injection(ids, 0 .. n - 1)
  <2>1. f \in [ids -> 0 .. n - 1]
    BY <1>1, <1>3
  <2>2. \A a, b \in ids : f[a] = f[b] => a = b
    BY <1>6
  <2> QED
    BY <2>1, <2>2 DEF Injection, IsInjective
<1>8. IsFiniteSet(0 .. n - 1) /\ Cardinality(0 .. n - 1) = n
  <2>1. n \in Int /\ n - 1 \in Int /\ 0 \in Int
    BY <1>1
  <2> HIDE DEF n
  <2>2. Cardinality(0 .. n - 1) = IF 0 > n - 1 THEN 0 ELSE (n - 1) - 0 + 1
    BY <2>1, FS_Interval
  <2>3. Cardinality(0 .. n - 1) = n
    BY <1>1, <2>2
  <2> QED
    BY <2>1, <2>3, FS_Interval
<1>9. f \in Surjection(ids, 0 .. n - 1)
  <2> HIDE DEF f, n
  <2>1. n = Cardinality(ids)
    BY DEF n
  <2> QED
    BY <1>7, <1>8, <2>1, FS_Injection
<1>10. \A i \in 0 .. n - 1 : \E id \in ids : R(id) = i
  BY <1>9 DEF Surjection
<1> QED
  BY <1>1, <1>3, <1>5, <1>10

\* The page of a list: what a query found, and what its cursor says of the rest.
PageRight(page, ids, key, ascending, cursor, t, K) ==
  /\ page.items \in Seq(ids)
  /\ \A i, j \in 1 .. Len(page.items) : page.items[i] = page.items[j] => i = j
  /\ \A i \in 1 .. Len(page.items) :
       cursor.key = << >> \/ Ahead(cursor.key, key[page.items[i]], ascending)
  /\ page.next = NoCursor =>
       \A id \in ids :
         \/ cursor.key # << >> /\ ~Ahead(cursor.key, key[id], ascending)
         \/ \E i \in 1 .. Len(page.items) : page.items[i] = id
  /\ page.next # NoCursor =>
       /\ page.next.key \in K
       /\ page.next = Encode(page.next.key, t)
       /\ cursor.key = << >> \/ Ahead(cursor.key, page.next.key, ascending)
       /\ \A i \in 1 .. Len(page.items) : ~Ahead(page.next.key, key[page.items[i]], ascending)
       /\ \A id \in ids :
            \/ cursor.key # << >> /\ ~Ahead(cursor.key, key[id], ascending)
            \/ \E i \in 1 .. Len(page.items) : page.items[i] = id
            \/ Ahead(page.next.key, key[id], ascending)

LEMMA LesserOfTwo ==
  ASSUME NEW a \in Nat, NEW b \in Nat
  PROVE  Min({a, b}) = IF a <= b THEN a ELSE b
BY DEF Min

\* The first rows of rest by rank, as many as the limit lets.
FirstByRank(found, rest, key, ascending, limit) ==
  /\ found \in Seq(rest)
  /\ Len(found) = IF limit <= Cardinality(rest) THEN limit ELSE Cardinality(rest)
  /\ \A i \in 1 .. Len(found) : Rank(rest, key, ascending, found[i]) = i - 1

\* What a query finds: the rows after the cursor by rank, as many as it may.
LEMMA QueryByRank ==
  ASSUME NEW ids, IsFiniteSet(ids), NEW K, NEW key, NEW ascending \in BOOLEAN,
         Ordered(K, ascending),
         \A id \in ids : key[id] \in K,
         \A a, b \in ids : key[a] = key[b] => a = b,
         NEW limit \in Nat, NEW cursor
  PROVE  FirstByRank(Query(ids, key, ascending, limit, cursor),
                     After(ids, key, ascending, cursor), key, ascending, limit)
<1> DEFINE rest == After(ids, key, ascending, cursor)
           n == Min({limit, Cardinality(rest)})
           found == [i \in 1 .. n |->
                       CHOOSE id \in rest : Rank(rest, key, ascending, id) = i - 1]
<1>1. rest \subseteq ids /\ IsFiniteSet(rest)
  BY FS_Subset DEF After
<1>2. Cardinality(rest) \in Nat
  BY <1>1, FS_CardinalityType
<1>3. n = (IF limit <= Cardinality(rest) THEN limit ELSE Cardinality(rest)) /\ n \in Nat
  BY <1>2, LesserOfTwo
<1>4. \A i \in 0 .. Cardinality(rest) - 1 :
        \E id \in rest : Rank(rest, key, ascending, id) = i
  <2> HIDE DEF rest
  <2> QED
    BY <1>1, Ranks
<1> HIDE DEF rest, n
<1>5. \A i \in 1 .. n : i - 1 \in 0 .. Cardinality(rest) - 1
  BY <1>2, <1>3
<1>6. \A i \in 1 .. n : found[i] \in rest /\ Rank(rest, key, ascending, found[i]) = i - 1
  BY <1>4, <1>5
<1>7. found \in Seq(rest) /\ Len(found) = n
  <2>1. found \in [1 .. n -> rest] /\ n \in Nat
    BY <1>3, <1>6
  <2> HIDE DEF found
  <2> QED
    BY <2>1
<1>8. Query(ids, key, ascending, limit, cursor) = found
  BY DEF Query, rest, n
<1> HIDE DEF found
<1>9. FirstByRank(found, rest, key, ascending, limit)
  BY <1>3, <1>6, <1>7 DEF FirstByRank
<1> QED
  BY <1>8, <1>9 DEF rest

\* A page shows rows after the cursor, each once; its own cursor has all the shown
\* ones behind it and the rest ahead, and there is one unless nothing is left.
LEMMA PageOfQuery ==
  ASSUME NEW ids, IsFiniteSet(ids), NEW K, NEW key, NEW ascending \in BOOLEAN,
         Ordered(K, ascending), << >> \notin K,
         \A id \in ids : key[id] \in K,
         \A a, b \in ids : key[a] = key[b] => a = b,
         NEW limit \in Nat \ {0}, NEW cursor, NEW t
  PROVE  PageRight(PageOf(Query(ids, key, ascending, limit + 1, cursor), limit, key, t),
                   ids, key, ascending, cursor, t, K)
<1> DEFINE found == Query(ids, key, ascending, limit + 1, cursor)
           rest == After(ids, key, ascending, cursor)
           page == PageOf(found, limit, key, t)
           R(id) == Rank(rest, key, ascending, id)
           n == Cardinality(rest)
<1>1. rest \subseteq ids /\ IsFiniteSet(rest)
  BY FS_Subset DEF After
<1>2. n \in Nat
  BY <1>1, FS_CardinalityType
<1>3. /\ found \in Seq(rest)
      /\ Len(found) = IF limit + 1 <= n THEN limit + 1 ELSE n
      /\ \A i \in 1 .. Len(found) : R(found[i]) = i - 1
  <2> DEFINE more == limit + 1
  <2>1. more \in Nat
    OBVIOUS
  <2> HIDE DEF more, page, R, n, found, rest
  <2>2. FirstByRank(Query(ids, key, ascending, more, cursor),
                    After(ids, key, ascending, cursor), key, ascending, more)
    BY <2>1, QueryByRank
  <2>3. FirstByRank(found, rest, key, ascending, more)
    BY <2>2 DEF found, rest, more
  <2> QED
    BY <2>3 DEF FirstByRank, more, R, n
<1> HIDE DEF rest, found
<1>4. /\ \A a, b \in rest : R(a) < R(b) <=> Ahead(key[a], key[b], ascending)
      /\ \A id \in rest : R(id) \in 0 .. n - 1
      /\ \A i \in 0 .. n - 1 : \E id \in rest : R(id) = i
  <2>1. /\ \A id \in rest : key[id] \in K
        /\ \A a, b \in rest : key[a] = key[b] => a = b
    BY <1>1
  <2>2. /\ \A a, b \in rest :
              Rank(rest, key, ascending, a) < Rank(rest, key, ascending, b)
                <=> Ahead(key[a], key[b], ascending)
        /\ \A id \in rest : Rank(rest, key, ascending, id) \in 0 .. Cardinality(rest) - 1
        /\ \A i \in 0 .. Cardinality(rest) - 1 :
              \E id \in rest : Rank(rest, key, ascending, id) = i
    <3> HIDE DEF R, n
    <3> QED
      BY ONLY <1>1, <2>1, Ranks, ascending \in BOOLEAN, Ordered(K, ascending)
  <2> QED
    BY <2>2
<1> HIDE DEF n, R
<1>5. \A a, b \in rest : R(a) = R(b) => a = b
  <2> SUFFICES ASSUME NEW a \in rest, NEW b \in rest, R(a) = R(b), a # b PROVE FALSE
    OBVIOUS
  <2>1. key[a] # key[b] /\ key[a] \in K /\ key[b] \in K
    BY <1>1
  <2>2. ~(R(a) < R(b)) /\ ~(R(b) < R(a))
    BY <1>4
  <2> QED
    BY <1>4, <2>1, <2>2 DEF Ordered
<1>6. Len(found) \in Nat /\ \A i \in 1 .. Len(found) : found[i] \in rest
  BY <1>3
<1>7. \A id \in rest : R(id) < Len(found) => found[R(id) + 1] = id
  <2> SUFFICES ASSUME NEW id \in rest, R(id) < Len(found) PROVE found[R(id) + 1] = id
    OBVIOUS
  <2>1. R(id) \in Nat /\ R(id) + 1 \in 1 .. Len(found)
    BY <1>4, <1>6
  <2>2. R(found[R(id) + 1]) = (R(id) + 1) - 1
    BY <1>3, <2>1
  <2>3. R(found[R(id) + 1]) = R(id)
    BY <2>1, <2>2
  <2> QED
    BY <1>5, <1>6, <2>1, <2>3
<1>8. \A id \in ids :
        id \in rest <=> cursor.key = << >> \/ Ahead(cursor.key, key[id], ascending)
  BY DEF rest, After
<1>9. CASE Len(found) <= limit
  <2>1. page.items = found /\ page.next = NoCursor
    BY <1>6, <1>9 DEF PageOf
  <2> HIDE DEF page
  <2>2. n = Len(found)
    BY <1>2, <1>3, <1>9
  <2>3. found \in Seq(ids)
    BY <1>1, <1>3
  <2>4. \A i, j \in 1 .. Len(found) : found[i] = found[j] => i = j
    BY <1>3, <1>6
  <2>5. \A i \in 1 .. Len(found) :
          cursor.key = << >> \/ Ahead(cursor.key, key[found[i]], ascending)
    BY <1>1, <1>6, <1>8
  <2>6. \A id \in rest : \E i \in 1 .. Len(found) : found[i] = id
    <3> SUFFICES ASSUME NEW id \in rest PROVE \E i \in 1 .. Len(found) : found[i] = id
      OBVIOUS
    <3>1. R(id) \in Nat /\ R(id) < Len(found) /\ R(id) + 1 \in 1 .. Len(found)
      BY <1>2, <1>4, <2>2
    <3> QED
      BY <1>7, <3>1
  <2>7. PageRight(page, ids, key, ascending, cursor, t, K)
    BY <1>8, <2>1, <2>3, <2>4, <2>5, <2>6 DEF PageRight
  <2> QED
    BY <2>7 DEF page, found
<1>10. CASE Len(found) > limit
  <2> DEFINE last == found[limit]
  <2>1. Len(found) = limit + 1 /\ limit \in 1 .. Len(found) /\ last \in rest
    BY <1>2, <1>3, <1>6, <1>10
  <2>2. /\ page.items = SubSeq(found, 1, limit)
        /\ page.next = [key |-> key[last], team |-> t, signed |-> TRUE]
    BY <1>10 DEF PageOf, Encode
  <2>3. /\ page.items \in Seq(rest) /\ Len(page.items) = limit
        /\ \A i \in 1 .. limit : page.items[i] = found[i]
    BY <1>3, <2>1, <2>2
  <2>4. /\ page.next.key = key[last] /\ page.next = Encode(key[last], t)
        /\ key[last] \in K /\ page.next # NoCursor
    BY <1>1, <2>1, <2>2 DEF NoCursor, Encode
  <2> HIDE DEF page
  <2>5. R(last) = limit - 1 /\ \A i \in 1 .. limit : R(found[i]) = i - 1 /\ found[i] \in rest
    BY <1>3, <1>6, <2>1
  <2> HIDE DEF last
  <2>6. page.items \in Seq(ids)
    BY <1>1, <2>3
  <2>7. \A i, j \in 1 .. limit : page.items[i] = page.items[j] => i = j
    BY <2>3, <2>5
  <2>8. \A i \in 1 .. limit :
          cursor.key = << >> \/ Ahead(cursor.key, key[page.items[i]], ascending)
    BY <1>1, <1>8, <2>3, <2>5
  <2>9. \A i \in 1 .. limit : ~Ahead(key[last], key[page.items[i]], ascending)
    <3> SUFFICES ASSUME NEW i \in 1 .. limit
                 PROVE  ~Ahead(key[last], key[found[i]], ascending)
      BY <2>3
    <3>1. ~(R(last) < R(found[i]))
      BY <2>5
    <3> QED
      BY <1>4, <2>1, <2>5, <3>1
  <2>10. \A id \in rest : \/ \E i \in 1 .. limit : page.items[i] = id
                          \/ Ahead(key[last], key[id], ascending)
    <3> SUFFICES ASSUME NEW id \in rest, ~Ahead(key[last], key[id], ascending)
                 PROVE  \E i \in 1 .. limit : page.items[i] = id
      OBVIOUS
    <3>1. R(id) \in Nat /\ ~(R(last) < R(id))
      BY <1>2, <1>4, <2>1
    <3>2. R(id) < Len(found) /\ R(id) + 1 \in 1 .. limit
      BY <2>1, <2>5, <3>1
    <3>3. page.items[R(id) + 1] = id
      BY <1>7, <2>3, <3>2
    <3> QED
      BY <3>2, <3>3
  <2>11. cursor.key = << >> \/ Ahead(cursor.key, key[last], ascending)
    BY <1>1, <1>8, <2>1
  <2>12. PageRight(page, ids, key, ascending, cursor, t, K)
    BY <1>8, <2>3, <2>4, <2>6, <2>7, <2>8, <2>9, <2>10, <2>11 DEF PageRight
  <2> QED
    BY <2>12 DEF page, found
<1> QED
  BY <1>6, <1>9, <1>10
-----------------------------------------------------------------------------
(* Pages: the walk.                                                        *)

Tokens == [key : {<< >>} \union Pairs \union Triples, team : ListTeams \union {Absent},
           signed : BOOLEAN]
Walks == [pc : {"closed", "walking", "done"}, team : ListTeams \union {Absent},
          user : ListUsers \union {Absent}, limit : Nat \ {0}, token : Tokens,
          shown : Seq(RowIds), watched : SUBSET RowIds, fresh : SUBSET RowIds]

PagesTypeOK ==
  /\ list \in Lists
  /\ IsFiniteSet(DOMAIN entries) /\ DOMAIN entries \subseteq RowIds
  /\ entries \in [DOMAIN entries -> Entry]
  /\ today \in Int
  /\ posting \in [Authors -> ListTeams \union {Absent}]
  /\ walk \in Walks
  /\ forged \in BOOLEAN

\* The key and the direction the list is sorted by, and the rows it holds.
ListKey == IF list \in {"transactions", "news"} THEN TxCursor
           ELSE IF list = "comments" THEN CommentCursor ELSE EventCursor
ListUp == list \in {"upcoming", "all", "comments", "members"}
Scope(t, u) == {id \in DOMAIN entries : InScope(entries[id], t, u)}

Seen(id) == \E i \in 1 .. Len(walk.shown) : walk.shown[i] = id

\* The rows the walk answers for are there, those watched in its list; its cursor
\* is one of that list.
WalkSound ==
  /\ walk.watched \union walk.fresh \subseteq DOMAIN entries
  /\ walk.watched \subseteq Scope(walk.team, walk.user)
  /\ walk.pc = "closed" => walk.watched = {} /\ walk.shown = << >>
  /\ \/ walk.token = NoCursor
     \/ walk.token.key \in Keys(list) /\ walk.token.team = walk.team
  /\ forged \/ walk.token.signed

\* What was shown is not ahead of the cursor, so the next page does not repeat it.
NoneTwice ==
  ~forged =>
    /\ \A i, j \in 1 .. Len(walk.shown) :
         walk.shown[i] = walk.shown[j] /\ walk.shown[i] \in walk.watched \union walk.fresh
           => i = j
    /\ walk.pc = "walking" /\ walk.token = NoCursor => walk.shown = << >>
    /\ walk.pc = "walking" /\ walk.token # NoCursor =>
         \A i \in 1 .. Len(walk.shown) :
           walk.shown[i] \in walk.watched \union walk.fresh =>
             ~Ahead(walk.token.key, ListKey[walk.shown[i]], ListUp)

\* What was not shown is ahead of the cursor, so a later page shows it.
NoneSkipped ==
  /\ walk.pc = "walking" /\ walk.token # NoCursor /\ walk.token.signed =>
       \A id \in walk.watched : Seen(id) \/ Ahead(walk.token.key, ListKey[id], ListUp)
  /\ walk.pc = "done" => \A id \in walk.watched : Seen(id)

PagesInv == PagesTypeOK /\ WalkSound /\ NoneTwice /\ NoneSkipped

\* Every row has a key of its own.
LEMMA KeysOfRows ==
  ASSUME PagesTypeOK
  PROVE  /\ \A id \in DOMAIN entries : ListKey[id] \in Keys(list)
         /\ \A a, b \in DOMAIN entries : ListKey[a] = ListKey[b] => a = b
<1>1. \A id \in DOMAIN entries : /\ id \in Int /\ entries[id].lead \in Int
                                 /\ entries[id].created \in Int
  BY PagesAssumption DEF PagesTypeOK, Entry, PagesAssumption
<1>2. CASE list \in {"transactions", "news"}
  <2>1. \A id \in DOMAIN entries :
          ListKey[id] = <<entries[id].lead, entries[id].created, id>>
    BY <1>2 DEF ListKey, TxCursor
  <2> QED
    BY <1>1, <1>2, <2>1 DEF Keys, Triples
<1>3. CASE list = "comments"
  <2>1. \A id \in DOMAIN entries : ListKey[id] = <<entries[id].created, id>>
    BY <1>3 DEF ListKey, CommentCursor
  <2> QED
    BY <1>1, <1>3, <2>1 DEF Keys, Pairs
<1>4. CASE list \notin {"transactions", "news", "comments"}
  <2>1. \A id \in DOMAIN entries : ListKey[id] = <<entries[id].lead, id>>
    BY <1>4 DEF ListKey, EventCursor
  <2>2. Keys(list) = Int \X Int
    BY <1>4 DEF Keys, Pairs
  <2>3. \A id \in DOMAIN entries : ListKey[id] \in Int \X Int
    BY <1>1, <2>1
  <2>4. \A a, b \in DOMAIN entries : ListKey[a] = ListKey[b] => a = b
    BY <2>1
  <2> QED
    BY <2>2, <2>3, <2>4
<1> QED
  BY <1>2, <1>3, <1>4

LEMMA KeysAreNoEmptyTuples == \A names : << >> \notin Keys(names)
BY DEF Keys, Pairs, Triples

\* The page a query of the walk's list makes.
LEMMA PageOfScope ==
  ASSUME PagesTypeOK, walk.limit \in Nat \ {0}
  PROVE  PageRight(PageOf(Query(Scope(walk.team, walk.user), ListKey, ListUp,
                                walk.limit + 1, Decode(walk.token)),
                          walk.limit, ListKey, walk.team),
                   Scope(walk.team, walk.user), ListKey, ListUp, Decode(walk.token),
                   walk.team, Keys(list))
<1>1. /\ IsFiniteSet(Scope(walk.team, walk.user))
      /\ Scope(walk.team, walk.user) \subseteq DOMAIN entries
  BY FS_Subset DEF PagesTypeOK, Scope
<1>2. /\ \A id \in Scope(walk.team, walk.user) : ListKey[id] \in Keys(list)
      /\ \A a, b \in Scope(walk.team, walk.user) : ListKey[a] = ListKey[b] => a = b
  BY <1>1, KeysOfRows
<1>3. ListUp \in BOOLEAN /\ Ordered(Keys(list), ListUp) /\ << >> \notin Keys(list)
  <2>1. ListUp \in BOOLEAN
    BY DEF ListUp
  <2> QED
    BY <2>1, KeysOrdered, KeysAreNoEmptyTuples
<1> QED
  BY <1>1, <1>2, <1>3, PageOfQuery

\* Every handler turns the walk to such a page.
LEMMA HandlersTurn ==
  ASSUME PagesInv,
         \/ EventsRequest \/ CommentsRequest \/ AbsencesRequest \/ MyAbsencesRequest
         \/ MembersRequest \/ TransactionsRequest \/ NewsRequest
  PROVE  /\ walk.pc = "walking"
         /\ Turn(PageOf(Query(Scope(walk.team, walk.user), ListKey, ListUp,
                              walk.limit + 1, Decode(walk.token)),
                        walk.limit, ListKey, walk.team))
<1> DEFINE S == Scope(walk.team, walk.user)
           T == {id \in OfTeam(walk.team) : InScope(entries[id], walk.team, walk.user)}
<1>1. S = T
  BY DEF Scope, OfTeam, InScope
<1>2. AbsenceCursor = EventCursor /\ MemberCursor = EventCursor /\ NewsCursor = TxCursor
  BY DEF AbsenceCursor, EventCursor, MemberCursor, NewsCursor, TxCursor
<1>3. CASE EventsRequest
  <2>1. list \in {"past", "upcoming", "all"} /\ ListKey = EventCursor
    BY <1>3 DEF EventsRequest, Asked, ListKey
  <2>2. CASE list = "past"
    <3>1. S = {id \in OfTeam(walk.team) : entries[id].upto < today} /\ ListUp = FALSE
      BY <2>2 DEF Scope, OfTeam, InScope, ListUp
    <3> QED
      BY <1>3, <2>1, <2>2, <3>1 DEF EventsRequest, ListEventsPage, ListEvents, Asked
  <2>3. CASE list = "upcoming"
    <3>1. S = {id \in OfTeam(walk.team) : entries[id].upto >= today} /\ ListUp = TRUE
      BY <2>3 DEF Scope, OfTeam, InScope, ListUp
    <3> QED
      BY <1>3, <2>1, <2>3, <3>1 DEF EventsRequest, ListEventsPage, ListEvents, Asked
  <2>4. CASE list = "all"
    <3>1. S = OfTeam(walk.team) /\ ListUp = TRUE
      BY <2>4 DEF Scope, OfTeam, InScope, ListUp
    <3> QED
      BY <1>3, <2>1, <2>4, <3>1 DEF EventsRequest, ListEventsPage, ListEvents, Asked
  <2> QED
    BY <2>1, <2>2, <2>3, <2>4
<1>4. CASE CommentsRequest
  <2>1. list = "comments" /\ ListKey = CommentCursor /\ ListUp = TRUE
    BY <1>4 DEF CommentsRequest, Asked, ListKey, ListUp
  <2>2. S = OfTeam(walk.team)
    BY <2>1 DEF Scope, OfTeam, InScope
  <2> QED
    BY <1>4, <2>1, <2>2 DEF CommentsRequest, ListCommentsPage, ListComments, Asked
<1>5. CASE AbsencesRequest
  <2>1. list = "teamAbsences" /\ ListKey = AbsenceCursor /\ ListUp = FALSE
    BY <1>2, <1>5 DEF AbsencesRequest, Asked, ListKey, ListUp
  <2>2. S = OfTeam(walk.team)
    BY <2>1 DEF Scope, OfTeam, InScope
  <2> QED
    BY <1>5, <2>1, <2>2 DEF AbsencesRequest, TeamAbsencesPage, ListAbsencesByTeam, Asked
<1>6. CASE MyAbsencesRequest
  <2>1. list = "myAbsences" /\ ListKey = AbsenceCursor /\ ListUp = FALSE
    BY <1>2, <1>6 DEF MyAbsencesRequest, Asked, ListKey, ListUp
  <2>2. S = {id \in OfTeam(walk.team) : entries[id].user = walk.user}
    BY <2>1 DEF Scope, OfTeam, InScope
  <2> QED
    BY <1>6, <2>1, <2>2 DEF MyAbsencesRequest, MyAbsencesPage, ListAbsencesByUser, Asked
<1>7. CASE MembersRequest
  <2>1. list = "members" /\ ListKey = MemberCursor /\ ListUp = TRUE
    BY <1>2, <1>7 DEF MembersRequest, Asked, ListKey, ListUp
  <2>2. S = OfTeam(walk.team)
    BY <2>1 DEF Scope, OfTeam, InScope
  <2>3. Decode(walk.token).key # << >> => Decode(walk.token).team = walk.team
    <3>1. NoCursor.key = << >>
      BY DEF NoCursor
    <3>2. Decode(walk.token) = NoCursor \/ Decode(walk.token) = walk.token
      BY DEF Decode
    <3>3. walk.token = NoCursor \/ walk.token.team = walk.team
      BY DEF PagesInv, WalkSound
    <3> QED
      BY <3>1, <3>2, <3>3
  <2>4. ListMembersPage(walk.team, walk.limit, walk.token)
          = PageOf(ListMembers(walk.team, walk.limit + 1, Decode(walk.token)), walk.limit,
                   MemberCursor, walk.team)
    BY <2>3 DEF ListMembersPage
  <2>5. /\ walk.pc = "walking"
        /\ Turn(PageOf(ListMembers(walk.team, walk.limit + 1, Decode(walk.token)),
                       walk.limit, MemberCursor, walk.team))
    BY <1>7, <2>4 DEF MembersRequest, Asked
  <2> QED
    BY <2>1, <2>2, <2>5 DEF ListMembers
<1>8. CASE TransactionsRequest
  <2>1. list = "transactions" /\ ListKey = TxCursor /\ ListUp = FALSE
    BY <1>8 DEF TransactionsRequest, Asked, ListKey, ListUp
  <2>2. S = OfTeam(walk.team)
    BY <2>1 DEF Scope, OfTeam, InScope
  <2> QED
    BY <1>8, <2>1, <2>2
       DEF TransactionsRequest, ListTransactions, ListTransactionsPage, Asked
<1>9. CASE NewsRequest
  <2>1. list = "news" /\ ListKey = NewsCursor /\ ListUp = FALSE
    BY <1>2, <1>9 DEF NewsRequest, Asked, ListKey, ListUp
  <2>2. S = OfTeam(walk.team)
    BY <2>1 DEF Scope, OfTeam, InScope
  <2> QED
    BY <1>9, <2>1, <2>2 DEF NewsRequest, ListNews, ListNewsByTeam, Asked
<1> QED
  BY <1>3, <1>4, <1>5, <1>6, <1>7, <1>8, <1>9
LEMMA Appended ==
  ASSUME NEW S, NEW a \in Seq(S), NEW b \in Seq(S)
  PROVE  /\ a \o b \in Seq(S)
         /\ Len(a \o b) = Len(a) + Len(b)
         /\ \A i \in 1 .. Len(a) : (a \o b)[i] = a[i]
         /\ \A i \in 1 .. Len(b) : (a \o b)[Len(a) + i] = b[i]
OBVIOUS

\* Turning the page keeps the walk sound.
LEMMA TurnKeeps ==
  ASSUME PagesInv, walk.pc = "walking", NEW page,
         PageRight(page, Scope(walk.team, walk.user), ListKey, ListUp,
                   Decode(walk.token), walk.team, Keys(list)),
         Turn(page)
  PROVE  PagesInv'
<1> DEFINE n == Len(walk.shown)
           m == Len(page.items)
           cursor == Decode(walk.token)
           live == walk.watched \union walk.fresh
           K == Keys(list)
<1>1. /\ UNCHANGED <<list, entries, today, posting, forged>>
      /\ walk' = [walk EXCEPT !.shown = @ \o page.items, !.token = page.next,
                              !.pc = IF page.next = NoCursor THEN "done" ELSE "walking"]
  BY DEF Turn
<1>2. /\ walk \in Walks /\ walk.shown \in Seq(RowIds)
      /\ Scope(walk.team, walk.user) \subseteq RowIds
  BY DEF PagesInv, PagesTypeOK, Walks, Scope
<1>3. /\ walk'.shown = walk.shown \o page.items /\ walk'.token = page.next
      /\ walk'.pc = IF page.next = NoCursor THEN "done" ELSE "walking"
      /\ walk'.team = walk.team /\ walk'.user = walk.user /\ walk'.limit = walk.limit
      /\ walk'.watched = walk.watched /\ walk'.fresh = walk.fresh
  BY <1>1, <1>2 DEF Walks
<1>4. ListKey' = ListKey /\ ListUp' = ListUp
  BY <1>1 DEF ListKey, ListUp, TxCursor, CommentCursor, EventCursor
<1>5. page.items \in Seq(RowIds) /\ m \in Nat /\ n \in Nat
  BY <1>2 DEF PageRight
<1>6. /\ Len(walk'.shown) = n + m
      /\ \A i \in 1 .. n : walk'.shown[i] = walk.shown[i]
      /\ \A i \in 1 .. m : walk'.shown[n + i] = page.items[i]
  <2> DEFINE all == walk.shown \o page.items
  <2>1. /\ Len(all) = n + m
        /\ \A i \in 1 .. n : all[i] = walk.shown[i]
        /\ \A i \in 1 .. m : all[n + i] = page.items[i]
    <3> DEFINE a == walk.shown
               b == page.items
    <3>1. a \in Seq(RowIds) /\ b \in Seq(RowIds)
      BY <1>2, <1>5
    <3> HIDE DEF a, b
    <3>2. /\ Len(a \o b) = Len(a) + Len(b)
          /\ \A i \in 1 .. Len(a) : (a \o b)[i] = a[i]
          /\ \A i \in 1 .. Len(b) : (a \o b)[Len(a) + i] = b[i]
      BY <3>1, Appended
    <3> QED
      BY <3>2 DEF a, b
  <2> HIDE DEF all
  <2>2. walk'.shown = all
    BY <1>3 DEF all
  <2> QED
    BY <2>1, <2>2
<1> HIDE DEF n, m
<1>7. \A i \in 1 .. n + m : \/ i \in 1 .. n /\ walk'.shown[i] = walk.shown[i]
                            \/ /\ i - n \in 1 .. m
                               /\ walk'.shown[i] = page.items[i - n]
                               /\ i \notin 1 .. n
  <2> SUFFICES ASSUME NEW i \in 1 .. n + m, i \notin 1 .. n
               PROVE  i - n \in 1 .. m /\ walk'.shown[i] = page.items[i - n]
    BY <1>6
  <2>1. i - n \in 1 .. m /\ n + (i - n) = i
    BY <1>5
  <2> QED
    BY <1>6, <2>1
<1>8. \A i \in 1 .. m : page.items[i] \in Scope(walk.team, walk.user)
  BY <1>5 DEF PageRight, m
<1>9. \/ page.next = NoCursor
      \/ page.next.key \in K /\ page.next = Encode(page.next.key, walk.team)
  BY DEF PageRight
<1>10. page.next.signed /\ page.next \in Tokens
  <2>1. NoCursor \in Tokens /\ NoCursor.signed
    BY DEF NoCursor, Tokens
  <2>2. \A k \in K, t \in ListTeams \union {Absent} :
          Encode(k, t) \in Tokens /\ Encode(k, t).signed
    BY DEF Encode, Tokens, Keys
  <2>3. walk.team \in ListTeams \union {Absent}
    BY <1>2 DEF Walks
  <2> QED
    BY <1>9, <2>1, <2>2, <2>3
<1>12. PagesTypeOK'
  <2>1. walk'.shown \in Seq(RowIds)
    BY <1>2, <1>3, <1>5, Appended
  <2>2. walk' \in Walks
    BY <1>1, <1>2, <1>3, <1>10, <2>1 DEF Walks
  <2> QED
    BY <1>1, <2>2 DEF PagesInv, PagesTypeOK
<1>13. WalkSound'
  <2>1. Scope(walk.team, walk.user)' = Scope(walk.team, walk.user)
    BY <1>1, <1>3 DEF Scope, InScope
  <2>2. walk'.pc # "closed"
    BY <1>3
  <2>3. page.next = NoCursor \/ (page.next.key \in K /\ page.next.team = walk.team)
    BY <1>9 DEF Encode
  <2> QED
    BY <1>1, <1>3, <1>10, <2>1, <2>2, <2>3 DEF PagesInv, WalkSound
<1> DEFINE c == cursor.key
<1>c. /\ walk.token = NoCursor => c = << >>
      /\ walk.token # NoCursor /\ walk.token.signed => c = walk.token.key /\ c \in K
      /\ ~walk.token.signed => c = << >>
      /\ c # << >> => c \in K /\ c = walk.token.key /\ walk.token.signed
                      /\ walk.token # NoCursor
  <2>1. NoCursor.key = << >>
    BY DEF NoCursor
  <2>2. cursor = IF walk.token.signed THEN walk.token ELSE NoCursor
    BY DEF Decode
  <2>3. walk.token = NoCursor \/ walk.token.key \in K
    BY DEF PagesInv, WalkSound
  <2> QED
    BY <2>1, <2>2, <2>3
<1>o. /\ Ordered(K, ListUp)
      /\ \A id \in DOMAIN entries : ListKey[id] \in K
      /\ live \subseteq DOMAIN entries /\ walk.watched \subseteq Scope(walk.team, walk.user)
  <2>1. ListUp \in BOOLEAN
    BY DEF ListUp
  <2> QED
    BY <2>1, KeysOrdered, KeysOfRows DEF PagesInv, WalkSound
<1>p. /\ \A i, j \in 1 .. m : page.items[i] = page.items[j] => i = j
      /\ \A i \in 1 .. m : c = << >> \/ Ahead(c, ListKey[page.items[i]], ListUp)
  BY DEF PageRight, m
<1>14. NoneTwice'
  <2> SUFFICES ASSUME ~forged PROVE NoneTwice'
    BY <1>1 DEF NoneTwice
  <2>1. walk.token.signed
    BY DEF PagesInv, WalkSound
  <2>2. /\ \A i, j \in 1 .. n :
             walk.shown[i] = walk.shown[j] /\ walk.shown[i] \in live => i = j
        /\ walk.token = NoCursor => walk.shown = << >>
        /\ walk.token # NoCursor =>
             \A i \in 1 .. n : walk.shown[i] \in live =>
               ~Ahead(walk.token.key, ListKey[walk.shown[i]], ListUp)
    BY DEF PagesInv, NoneTwice, n
  <2>3. \A i \in 1 .. n, j \in 1 .. m : walk.shown[i] \in live => walk.shown[i] # page.items[j]
    <3> SUFFICES ASSUME NEW i \in 1 .. n, NEW j \in 1 .. m, walk.shown[i] \in live
                 PROVE  walk.shown[i] # page.items[j]
      OBVIOUS
    <3>1. walk.token # NoCursor
      BY <2>2 DEF n
    <3>2. c # << >> /\ c = walk.token.key
      BY <1>c, <2>1, <3>1, KeysAreNoEmptyTuples
    <3>3. /\ ~Ahead(c, ListKey[walk.shown[i]], ListUp)
          /\ Ahead(c, ListKey[page.items[j]], ListUp)
      BY <1>p, <2>2, <3>1, <3>2
    <3> QED
      BY <3>3
  <2>4. \A i, j \in 1 .. n + m :
          walk'.shown[i] = walk'.shown[j] /\ walk'.shown[i] \in live => i = j
    <3> SUFFICES ASSUME NEW i \in 1 .. n + m, NEW j \in 1 .. n + m,
                        walk'.shown[i] = walk'.shown[j], walk'.shown[i] \in live
                 PROVE  i = j
      OBVIOUS
    <3>1. CASE i \in 1 .. n /\ j \in 1 .. n
      BY <1>6, <2>2, <3>1
    <3>2. CASE i \in 1 .. n /\ j \notin 1 .. n
      BY <1>6, <1>7, <2>3, <3>2
    <3>3. CASE i \notin 1 .. n /\ j \in 1 .. n
      BY <1>6, <1>7, <2>3, <3>3
    <3>4. CASE i \notin 1 .. n /\ j \notin 1 .. n
      <4>1. i - n \in 1 .. m /\ j - n \in 1 .. m /\ page.items[i - n] = page.items[j - n]
        BY <1>7, <3>4
      <4>2. i - n = j - n
        BY <1>p, <4>1
      <4> QED
        BY <1>5, <4>2
    <3> QED
      BY <3>1, <3>2, <3>3, <3>4
  <2>5. ASSUME page.next # NoCursor, NEW i \in 1 .. n + m, walk'.shown[i] \in live
        PROVE  ~Ahead(page.next.key, ListKey[walk'.shown[i]], ListUp)
    <3> DEFINE x == walk'.shown[i]
    <3>1. /\ page.next.key \in K
          /\ c = << >> \/ Ahead(c, page.next.key, ListUp)
          /\ \A j \in 1 .. m : ~Ahead(page.next.key, ListKey[page.items[j]], ListUp)
      BY <2>5 DEF PageRight, m
    <3>2. CASE i \notin 1 .. n
      BY <1>7, <2>5, <3>1, <3>2
    <3>3. CASE i \in 1 .. n
      <4>1. x = walk.shown[i] /\ x \in live
        BY <1>6, <2>5, <3>3
      <4>2. walk.token # NoCursor
        BY <2>2, <3>3 DEF n
      <4>3. c \in K /\ c # << >> /\ c = walk.token.key
        BY <1>c, <2>1, <4>2, KeysAreNoEmptyTuples
      <4>4. ~Ahead(c, ListKey[x], ListUp) /\ Ahead(c, page.next.key, ListUp)
        BY <2>2, <3>1, <3>3, <4>1, <4>2, <4>3
      <4>5. ListKey[x] \in K
        BY <1>o, <4>1
      <4> HIDE DEF x, c, K
      <4>6. ~Ahead(page.next.key, ListKey[x], ListUp)
        BY <1>o, <3>1, <4>3, <4>4, <4>5 DEF Ordered
      <4> QED
        BY <4>6 DEF x
    <3> QED
      BY <3>2, <3>3
  <2>6. walk'.pc = "walking" => page.next # NoCursor
    BY <1>3
  <2> QED
    BY <1>3, <1>4, <1>6, <2>4, <2>5, <2>6 DEF NoneTwice
<1>15. NoneSkipped'
  <2>1. \A id \in walk.watched : Seen(id) => Seen(id)'
    <3> SUFFICES ASSUME NEW id, NEW i \in 1 .. n, walk.shown[i] = id PROVE Seen(id)'
      BY DEF Seen, n
    <3>1. i \in 1 .. n + m /\ walk'.shown[i] = id
      BY <1>5, <1>6
    <3> QED
      BY <1>6, <3>1 DEF Seen
  <2>2. \A i \in 1 .. m : Seen(page.items[i])'
    <3> SUFFICES ASSUME NEW i \in 1 .. m PROVE Seen(page.items[i])'
      OBVIOUS
    <3>1. n + i \in 1 .. n + m /\ walk'.shown[n + i] = page.items[i]
      BY <1>5, <1>6
    <3> QED
      BY <1>6, <3>1 DEF Seen
  <2>3. \A id \in walk.watched : Seen(id) \/ c = << >> \/ Ahead(c, ListKey[id], ListUp)
    BY <1>c DEF PagesInv, NoneSkipped
  <2>4. \A id \in walk.watched :
          \/ Seen(id)'
          \/ page.next # NoCursor /\ Ahead(page.next.key, ListKey[id], ListUp)
    <3> SUFFICES ASSUME NEW id \in walk.watched, ~Seen(id)
                 PROVE  \/ Seen(id)'
                        \/ page.next # NoCursor /\ Ahead(page.next.key, ListKey[id], ListUp)
      BY <2>1
    <3>1. id \in Scope(walk.team, walk.user) /\ (c = << >> \/ Ahead(c, ListKey[id], ListUp))
      BY <1>o, <2>3
    <3>2. \/ \E i \in 1 .. m : page.items[i] = id
          \/ page.next # NoCursor /\ Ahead(page.next.key, ListKey[id], ListUp)
      BY <3>1 DEF PageRight, m
    <3> QED
      BY <2>2, <3>2
  <2> QED
    BY <1>3, <1>4, <2>4 DEF NoneSkipped
<1> QED
  BY <1>12, <1>13, <1>14, <1>15 DEF PagesInv
-----------------------------------------------------------------------------
(* Pages: opening a list, altering a cursor, writing.                      *)

LEMMA PagesInitInv == PagesInit => PagesInv
<1> SUFFICES ASSUME PagesInit PROVE PagesInv
  OBVIOUS
<1>1. DOMAIN entries = {} /\ IsFiniteSet({})
  BY FS_EmptySet DEF PagesInit
<1>2. today \in Int
  <2>1. Min(Leads) \in Leads
    BY FreshId, PagesAssumption DEF PagesAssumption
  <2>2. today = Min(Leads)
    BY DEF PagesInit
  <2>3. \A x \in Leads : x \in Int
    BY PagesAssumption DEF PagesAssumption
  <2> QED
    BY <2>1, <2>2, <2>3
<1>3. /\ walk.pc = "closed" /\ walk.watched = {} /\ walk.fresh = {} /\ walk.shown = << >>
      /\ walk.token = NoCursor /\ walk.token.signed /\ ~forged
  BY DEF PagesInit, ClosedWalk, NoCursor
<1>4. walk \in Walks
  <2>1. NoCursor \in Tokens /\ << >> \in Seq(RowIds) /\ DefaultLimit \in Nat \ {0}
    BY PagesAssumption DEF NoCursor, Tokens, PagesAssumption
  <2> QED
    BY <2>1 DEF PagesInit, ClosedWalk, Walks
<1>5. PagesTypeOK
  <2>1. list \in Lists /\ posting \in [Authors -> ListTeams \union {Absent}]
    BY DEF PagesInit
  <2> QED
    BY <1>1, <1>2, <1>3, <1>4, <2>1 DEF PagesTypeOK, PagesInit
<1>6. NoneTwice /\ NoneSkipped
  BY <1>3 DEF NoneTwice, NoneSkipped
<1> QED
  BY <1>1, <1>3, <1>5, <1>6 DEF PagesInv, WalkSound

LEMMA OpenListKeeps ==
  ASSUME PagesInv, NEW t \in ListTeams, NEW u \in ListUsers, NEW limit \in Limits,
         OpenList(t, u, limit)
  PROVE  PagesInv'
<1>1. /\ UNCHANGED <<list, entries, today, posting, forged>>
      /\ walk' = [pc |-> "walking", team |-> t, user |-> u, limit |-> ParseLimit(limit),
                  token |-> NoCursor, shown |-> << >>,
                  watched |-> {id \in DOMAIN entries : InScope(entries[id], t, u)},
                  fresh |-> {}]
  BY DEF OpenList
<1>2. ParseLimit(limit) \in Nat \ {0}
  BY PagesAssumption DEF ParseLimit, PagesAssumption
<1>3. NoCursor \in Tokens /\ NoCursor.signed /\ << >> \in Seq(RowIds)
  BY DEF NoCursor, Tokens
<1>4. Scope(t, u) = {id \in DOMAIN entries : InScope(entries[id], t, u)}
  BY DEF Scope
<1>5. Scope(t, u) \subseteq DOMAIN entries /\ DOMAIN entries \subseteq RowIds
  BY DEF Scope, PagesInv, PagesTypeOK
<1> HIDE DEF Scope
<1>6. walk' \in Walks
  BY <1>1, <1>2, <1>3, <1>4, <1>5 DEF Walks
<1>7. PagesTypeOK'
  BY <1>1, <1>6 DEF PagesInv, PagesTypeOK
<1>8. /\ walk'.pc = "walking" /\ walk'.watched = Scope(t, u) /\ walk'.fresh = {}
      /\ walk'.shown = << >> /\ walk'.token = NoCursor /\ walk'.team = t /\ walk'.user = u
  BY <1>1, <1>4
<1>9. Scope(walk.team, walk.user)' = Scope(t, u)
  BY <1>1, <1>8 DEF Scope, InScope
<1>10. WalkSound'
  BY <1>1, <1>3, <1>5, <1>8, <1>9 DEF WalkSound
<1>11. NoneTwice' /\ NoneSkipped'
  BY <1>8 DEF NoneTwice, NoneSkipped
<1> QED
  BY <1>7, <1>10, <1>11 DEF PagesInv

LEMMA ForgeCursorKeeps ==
  ASSUME PagesInv, ForgeCursor
  PROVE  PagesInv'
<1>1. /\ UNCHANGED <<list, entries, today, posting>> /\ forged' = TRUE
      /\ walk.pc = "walking" /\ walk.token # NoCursor
      /\ walk' = [walk EXCEPT !.token.signed = FALSE]
  BY DEF ForgeCursor
<1>2. walk \in Walks /\ walk.token \in Tokens
  BY DEF PagesInv, PagesTypeOK, Walks
<1> DEFINE token == [walk.token EXCEPT !.signed = FALSE]
<1>3. /\ token \in Tokens /\ token.key = walk.token.key /\ token.team = walk.token.team
      /\ token.signed = FALSE
  BY <1>2 DEF Tokens
<1>4. walk' = [walk EXCEPT !.token = token]
  BY <1>1, <1>2 DEF Walks
<1> HIDE DEF token
<1>5. /\ walk' \in Walks /\ walk'.token = token /\ walk'.pc = "walking"
      /\ walk'.watched = walk.watched /\ walk'.fresh = walk.fresh
      /\ walk'.team = walk.team /\ walk'.user = walk.user
  BY <1>1, <1>2, <1>3, <1>4 DEF Walks
<1>6. PagesTypeOK'
  BY <1>1, <1>5 DEF PagesInv, PagesTypeOK
<1>7. Scope(walk.team, walk.user)' = Scope(walk.team, walk.user)
  BY <1>1, <1>5 DEF Scope, InScope
<1>8. WalkSound'
  BY <1>1, <1>3, <1>5, <1>7 DEF PagesInv, WalkSound
<1>9. NoneTwice' /\ NoneSkipped'
  BY <1>1, <1>3, <1>5 DEF NoneTwice, NoneSkipped
<1> QED
  BY <1>6, <1>8, <1>9 DEF PagesInv

\* A write that takes the rows it touches out of the walk's sight, and adds none
\* but rows the client has not seen, keeps the walk sound.
LEMMA WriteKeeps ==
  ASSUME PagesInv, NEW W, NEW F,
         UNCHANGED <<list, forged>>,
         walk' = [walk EXCEPT !.watched = W, !.fresh = F],
         today' \in Int,
         posting' \in [Authors -> ListTeams \union {Absent}],
         IsFiniteSet(DOMAIN entries'), DOMAIN entries' \subseteq RowIds,
         entries' \in [DOMAIN entries' -> Entry],
         W \subseteq walk.watched,
         \A id \in F : id \in walk.fresh \/ ~Seen(id),
         W \union F \subseteq DOMAIN entries',
         \A id \in W \union F : Seen(id) \/ id \in W => entries'[id] = entries[id],
         \A id \in W : InScope(entries[id], walk.team, walk.user)'
  PROVE  PagesInv'
<1>1. walk \in Walks /\ walk.shown \in Seq(RowIds)
  BY DEF PagesInv, PagesTypeOK, Walks
<1>2. /\ walk'.watched = W /\ walk'.fresh = F /\ walk'.shown = walk.shown
      /\ walk'.pc = walk.pc /\ walk'.token = walk.token
      /\ walk'.team = walk.team /\ walk'.user = walk.user
  BY <1>1 DEF Walks
<1>3. walk' \in Walks
  BY <1>1 DEF Walks
<1>4. PagesTypeOK'
  BY <1>3 DEF PagesInv, PagesTypeOK
<1>5. WalkSound'
  BY <1>2 DEF PagesInv, WalkSound, Scope
<1>6. \A id \in W \union F : Seen(id) \/ id \in W => ListKey'[id] = ListKey[id]
  BY DEF PagesInv, WalkSound, ListKey, TxCursor, CommentCursor, EventCursor
<1>7. ListUp' = ListUp
  BY DEF ListUp
<1>8. NoneTwice'
  BY <1>2, <1>6, <1>7 DEF PagesInv, NoneTwice, Seen
<1>9. NoneSkipped'
  BY <1>2, <1>6, <1>7 DEF PagesInv, NoneSkipped, Seen
<1> QED
  BY <1>4, <1>5, <1>8, <1>9 DEF PagesInv
LEMMA EntriesTyped ==
  ASSUME PagesInv
  PROVE  /\ IsFiniteSet(DOMAIN entries) /\ DOMAIN entries \subseteq RowIds
         /\ entries \in [DOMAIN entries -> Entry]
         /\ today \in Int
         /\ posting \in [Authors -> ListTeams \union {Absent}]
         /\ walk \in Walks
         /\ walk.watched \union walk.fresh \subseteq DOMAIN entries
         /\ \A id \in walk.watched : InScope(entries[id], walk.team, walk.user)
BY DEF PagesInv, PagesTypeOK, WalkSound, Scope

\* A row inserted is none that the client has seen.
LEMMA InsertEntryKeeps ==
  ASSUME PagesInv, NEW id \in RowIds, NEW r \in Entry, InsertEntry(id, r),
         UNCHANGED <<list, today, forged>>,
         posting' \in [Authors -> ListTeams \union {Absent}]
  PROVE  PagesInv'
<1> DEFINE F == walk.fresh \union {id}
<1>0. /\ IsFiniteSet(DOMAIN entries) /\ DOMAIN entries \subseteq RowIds
      /\ entries \in [DOMAIN entries -> Entry] /\ today \in Int /\ walk \in Walks
      /\ walk.watched \union walk.fresh \subseteq DOMAIN entries
      /\ \A x \in walk.watched : InScope(entries[x], walk.team, walk.user)
  BY EntriesTyped
<1>1. /\ id \notin DOMAIN entries /\ id \notin ToSet(walk.shown)
      /\ entries' = [x \in DOMAIN entries \union {id} |-> IF x = id THEN r ELSE entries[x]]
      /\ walk' = [walk EXCEPT !.watched = walk.watched, !.fresh = F]
  BY <1>0 DEF InsertEntry, Walks
<1>2. /\ DOMAIN entries' = DOMAIN entries \union {id}
      /\ \A x \in DOMAIN entries : entries'[x] = entries[x]
  BY <1>1
<1>3. IsFiniteSet(DOMAIN entries') /\ DOMAIN entries' \subseteq RowIds
  BY <1>0, <1>2, FS_AddElement
<1>4. entries' \in [DOMAIN entries' -> Entry]
  BY <1>0, <1>1
<1>5. ~Seen(id)
  <2>1. walk.shown \in Seq(RowIds)
    BY <1>0 DEF Walks
  <2> QED
    BY <1>1, <2>1 DEF Seen, ToSet
<1>6. \A x \in F : x \in walk.fresh \/ ~Seen(x)
  BY <1>5
<1>7. /\ walk.watched \union F \subseteq DOMAIN entries'
      /\ \A x \in walk.watched \union F :
           Seen(x) \/ x \in walk.watched => entries'[x] = entries[x]
  BY <1>0, <1>2, <1>5
<1>8. walk'.team = walk.team /\ walk'.user = walk.user
  BY <1>0, <1>1 DEF Walks
<1>9. \A x \in walk.watched : InScope(entries[x], walk.team, walk.user)'
  <2> SUFFICES ASSUME NEW x \in walk.watched
               PROVE  InScope(entries[x], walk.team, walk.user)'
    OBVIOUS
  <2>1. entries'[x] = entries[x] /\ InScope(entries[x], walk.team, walk.user)
    BY <1>0, <1>2
  <2> QED
    BY <1>8, <2>1 DEF InScope
<1> HIDE DEF F
<1>10. today' \in Int
  BY <1>0
<1> QED
  BY <1>1, <1>3, <1>4, <1>6, <1>7, <1>9, <1>10, WriteKeeps

\* An edited or deleted row is out of the walk's sight.
LEMMA TouchKeeps ==
  ASSUME PagesInv, NEW id, Touched(id), UNCHANGED <<list, today, posting, forged>>,
         DOMAIN entries \ {id} \subseteq DOMAIN entries',
         DOMAIN entries' \subseteq DOMAIN entries,
         entries' \in [DOMAIN entries' -> Entry],
         \A x \in DOMAIN entries \ {id} : entries'[x] = entries[x]
  PROVE  PagesInv'
<1> DEFINE W == walk.watched \ {id}
           F == walk.fresh \ {id}
<1>0. /\ IsFiniteSet(DOMAIN entries) /\ DOMAIN entries \subseteq RowIds
      /\ today \in Int /\ walk \in Walks /\ posting \in [Authors -> ListTeams \union {Absent}]
      /\ walk.watched \union walk.fresh \subseteq DOMAIN entries
      /\ \A x \in walk.watched : InScope(entries[x], walk.team, walk.user)
  BY EntriesTyped
<1>1. walk' = [walk EXCEPT !.watched = W, !.fresh = F]
  BY <1>0 DEF Touched, Walks
<1>2. IsFiniteSet(DOMAIN entries') /\ DOMAIN entries' \subseteq RowIds
  BY <1>0, FS_Subset
<1>3. /\ W \subseteq walk.watched /\ F \subseteq walk.fresh
      /\ W \union F \subseteq DOMAIN entries'
      /\ \A x \in W \union F : entries'[x] = entries[x]
  BY <1>0
<1>4. walk'.team = walk.team /\ walk'.user = walk.user
  BY <1>0, <1>1 DEF Walks
<1>5. \A x \in W : InScope(entries[x], walk.team, walk.user)'
  <2> SUFFICES ASSUME NEW x \in W PROVE InScope(entries[x], walk.team, walk.user)'
    OBVIOUS
  <2>1. entries'[x] = entries[x] /\ InScope(entries[x], walk.team, walk.user)
    BY <1>0
  <2> QED
    BY <1>4, <2>1 DEF InScope
<1> HIDE DEF W, F
<1>6. today' \in Int /\ posting' \in [Authors -> ListTeams \union {Absent}]
  BY <1>0
<1> QED
  BY <1>1, <1>2, <1>3, <1>5, <1>6, WriteKeeps

LEMMA EditEntryKeeps ==
  ASSUME PagesInv, NEW id, NEW lead \in Leads, NEW upto \in Leads,
         EditEntry(id, lead, upto), UNCHANGED <<list, today, posting, forged>>
  PROVE  PagesInv'
<1>0. entries \in [DOMAIN entries -> Entry]
  BY EntriesTyped
<1>1. /\ id \in DOMAIN entries /\ Touched(id)
      /\ entries' = [entries EXCEPT ![id].lead = lead, ![id].upto = upto]
  BY DEF EditEntry
<1>2. [entries[id] EXCEPT !.lead = lead, !.upto = upto] \in Entry
  BY <1>0, <1>1 DEF Entry
<1>3. /\ DOMAIN entries' = DOMAIN entries
      /\ \A x \in DOMAIN entries \ {id} : entries'[x] = entries[x]
      /\ entries' \in [DOMAIN entries -> Entry]
  BY <1>0, <1>1, <1>2
<1> QED
  BY <1>1, <1>3, TouchKeeps

LEMMA RemoveEntryKeeps ==
  ASSUME PagesInv, NEW id, RemoveEntry(id), UNCHANGED <<list, today, posting, forged>>
  PROVE  PagesInv'
<1>0. entries \in [DOMAIN entries -> Entry]
  BY EntriesTyped
<1>1. Touched(id) /\ entries' = [x \in DOMAIN entries \ {id} |-> entries[x]]
  BY DEF RemoveEntry
<1>2. /\ DOMAIN entries' = DOMAIN entries \ {id}
      /\ \A x \in DOMAIN entries \ {id} : entries'[x] = entries[x]
      /\ entries' \in [DOMAIN entries \ {id} -> Entry]
  BY <1>0, <1>1
<1> QED
  BY <1>1, <1>2, TouchKeeps

\* A new day moves rows between the past and the upcoming events: those it moves
\* are no longer watched.
LEMMA NextDayKeeps ==
  ASSUME PagesInv, NextDay
  PROVE  PagesInv'
<1> DEFINE W == {id \in walk.watched : list = "all" \/ entries[id].upto # today}
<1>0. /\ IsFiniteSet(DOMAIN entries) /\ DOMAIN entries \subseteq RowIds
      /\ entries \in [DOMAIN entries -> Entry]
      /\ today \in Int /\ walk \in Walks /\ posting \in [Authors -> ListTeams \union {Absent}]
      /\ walk.watched \union walk.fresh \subseteq DOMAIN entries
      /\ \A x \in walk.watched : InScope(entries[x], walk.team, walk.user)
  BY EntriesTyped
<1>1. /\ UNCHANGED <<list, entries, posting, forged>> /\ today' = today + 1
      /\ list \in {"past", "upcoming", "all"}
      /\ walk' = [walk EXCEPT !.watched = W, !.fresh = walk.fresh]
  BY <1>0 DEF NextDay, Walks
<1>2. W \subseteq walk.watched /\ W \union walk.fresh \subseteq DOMAIN entries'
  BY <1>0, <1>1
<1>3. walk'.team = walk.team /\ walk'.user = walk.user
  BY <1>0, <1>1 DEF Walks
<1>4. \A x \in W : InScope(entries[x], walk.team, walk.user)'
  <2> SUFFICES ASSUME NEW x \in W PROVE InScope(entries[x], walk.team, walk.user)'
    OBVIOUS
  <2>1. InScope(entries[x], walk.team, walk.user) /\ (list = "all" \/ entries[x].upto # today)
    BY <1>0
  <2>2. entries[x].upto \in Int
    BY <1>0, PagesAssumption DEF PagesAssumption, Entry
  <2>3. /\ entries[x].upto < today => entries[x].upto < today + 1
        /\ entries[x].upto >= today /\ entries[x].upto # today => entries[x].upto >= today + 1
    BY <1>0, <2>2
  <2> QED
    BY <1>1, <1>3, <2>1, <2>3 DEF InScope
<1>5. \A x \in W \union walk.fresh : entries'[x] = entries[x]
  BY <1>1
<1> HIDE DEF W
<1>6. today' \in Int /\ posting' \in [Authors -> ListTeams \union {Absent}]
  BY <1>0, <1>1
<1>7. /\ IsFiniteSet(DOMAIN entries') /\ DOMAIN entries' \subseteq RowIds
      /\ entries' \in [DOMAIN entries' -> Entry] /\ UNCHANGED <<list, forged>>
  BY <1>0, <1>1
<1> QED
  BY <1>1, <1>2, <1>4, <1>5, <1>6, <1>7, WriteKeeps

LEMMA NewsWriteKeeps ==
  ASSUME PagesInv, NewsWrite
  PROVE  PagesInv'
<1>0. /\ posting \in [Authors -> ListTeams \union {Absent}] /\ walk \in Walks
      /\ IsFiniteSet(DOMAIN entries) /\ DOMAIN entries \subseteq RowIds
      /\ entries \in [DOMAIN entries -> Entry] /\ today \in Int
      /\ walk.watched \union walk.fresh \subseteq DOMAIN entries
      /\ \A x \in walk.watched : InScope(entries[x], walk.team, walk.user)
  BY EntriesTyped
<1>1. ASSUME NEW a \in Authors, NEW t \in ListTeams, AdmitNews(a, t)
      PROVE  PagesInv'
  <2>1. /\ UNCHANGED <<list, entries, today, walk, forged>>
        /\ posting' \in [Authors -> ListTeams \union {Absent}]
    BY <1>0, <1>1 DEF AdmitNews
  <2>2. ListKey' = ListKey /\ ListUp' = ListUp
    BY <2>1 DEF ListKey, ListUp, TxCursor, CommentCursor, EventCursor
  <2>3. Scope(walk.team, walk.user)' = Scope(walk.team, walk.user)
    BY <2>1 DEF Scope, InScope
  <2>4. PagesTypeOK' /\ WalkSound'
    BY <2>1, <2>3 DEF PagesInv, PagesTypeOK, WalkSound
  <2>5. NoneTwice' /\ NoneSkipped'
    BY <2>1, <2>2 DEF PagesInv, NoneTwice, NoneSkipped, Seen
  <2> QED
    BY <2>4, <2>5 DEF PagesInv
<1>2. ASSUME NEW a \in Authors, NEW id \in RowIds, NEW u \in ListUsers, NEW p \in Leads,
             NEW c \in Times, CreateNews(a, id, u, p, c)
      PROVE  PagesInv'
  <2> DEFINE r == [team |-> posting[a], user |-> u, lead |-> p, upto |-> p, created |-> c]
  <2>1. r \in Entry
    BY <1>0, <1>2 DEF CreateNews, Entry
  <2>2. /\ InsertEntry(id, r) /\ UNCHANGED <<list, today, forged>>
        /\ posting' \in [Authors -> ListTeams \union {Absent}]
    BY <1>0, <1>2 DEF CreateNews
  <2> HIDE DEF r
  <2> QED
    BY <2>1, <2>2, InsertEntryKeeps
<1>3. ASSUME NEW id \in RowIds, NEW t \in ListTeams, NEW p \in Leads, UpdateNews(id, t, p)
      PROVE  PagesInv'
  BY <1>3, EditEntryKeeps DEF UpdateNews
<1>4. ASSUME NEW id \in RowIds, NEW t \in ListTeams, DeleteNews(id, t)
      PROVE  PagesInv'
  BY <1>4, RemoveEntryKeeps DEF DeleteNews
<1> QED
  BY <1>1, <1>2, <1>3, <1>4 DEF NewsWrite

LEMMA OtherWriteKeeps ==
  ASSUME PagesInv, OtherWrite
  PROVE  PagesInv'
<1>1. PICK id \in RowIds :
        \/ \E r \in Entry : r.upto >= r.lead /\ InsertEntry(id, r)
        \/ \E lead \in Leads, upto \in Leads : EditEntry(id, lead, upto)
        \/ RemoveEntry(id)
  BY DEF OtherWrite
<1>2. UNCHANGED <<list, today, posting, forged>>
  BY DEF OtherWrite
<1>3. posting' \in [Authors -> ListTeams \union {Absent}]
  BY <1>2, EntriesTyped
<1> QED
  BY <1>1, <1>2, <1>3, InsertEntryKeeps, EditEntryKeeps, RemoveEntryKeeps

LEMMA PagesNextInv == PagesInv /\ [PagesRead \/ PagesWrite]_pageVars => PagesInv'
<1> SUFFICES ASSUME PagesInv, [PagesRead \/ PagesWrite]_pageVars PROVE PagesInv'
  OBVIOUS
<1>1. CASE \/ EventsRequest \/ CommentsRequest \/ AbsencesRequest \/ MyAbsencesRequest
           \/ MembersRequest \/ TransactionsRequest \/ NewsRequest
  <2>1. PagesTypeOK /\ walk.limit \in Nat \ {0}
    BY DEF PagesInv, PagesTypeOK, Walks
  <2> DEFINE page == PageOf(Query(Scope(walk.team, walk.user), ListKey, ListUp,
                                  walk.limit + 1, Decode(walk.token)),
                            walk.limit, ListKey, walk.team)
  <2>2. PageRight(page, Scope(walk.team, walk.user), ListKey, ListUp, Decode(walk.token),
                  walk.team, Keys(list))
    BY <2>1, PageOfScope
  <2>3. walk.pc = "walking" /\ Turn(page)
    BY <1>1, HandlersTurn
  <2> HIDE DEF page
  <2> QED
    BY <2>2, <2>3, TurnKeeps
<1>2. ASSUME NEW t \in ListTeams, NEW u \in ListUsers, NEW n \in Limits, OpenList(t, u, n)
      PROVE  PagesInv'
  BY <1>2, OpenListKeeps
<1>3. CASE PagesWrite
  BY <1>3, OtherWriteKeeps, NewsWriteKeeps, NextDayKeeps, ForgeCursorKeeps DEF PagesWrite
<1>4. CASE UNCHANGED pageVars
  <2>1. UNCHANGED <<list, entries, today, posting, walk, forged>>
    BY <1>4 DEF pageVars
  <2>2. ListKey' = ListKey /\ ListUp' = ListUp
    BY <2>1 DEF ListKey, ListUp, TxCursor, CommentCursor, EventCursor
  <2>3. Scope(walk.team, walk.user)' = Scope(walk.team, walk.user)
    BY <2>1 DEF Scope, InScope
  <2>4. PagesTypeOK' /\ WalkSound'
    BY <2>1, <2>3 DEF PagesInv, PagesTypeOK, WalkSound
  <2>5. NoneTwice' /\ NoneSkipped'
    BY <2>1, <2>2 DEF PagesInv, NoneTwice, NoneSkipped, Seen
  <2> QED
    BY <2>4, <2>5 DEF PagesInv
<1> QED
  BY <1>1, <1>2, <1>3, <1>4 DEF PagesRead

LEMMA PagesInvIsShownOnce == PagesInv => ShownOnce
<1> SUFFICES ASSUME PagesInv PROVE ShownOnce
  OBVIOUS
<1> DEFINE at(id) == {i \in DOMAIN walk.shown : walk.shown[i] = id}
           live == walk.watched \union walk.fresh
<1>1. walk.shown \in Seq(RowIds) /\ DOMAIN walk.shown = 1 .. Len(walk.shown)
  BY DEF PagesInv, PagesTypeOK, Walks
<1>2. \A id : IsFiniteSet(at(id)) /\ Cardinality(at(id)) \in Nat
  <2>1. IsFiniteSet(1 .. Len(walk.shown))
    BY <1>1, FS_Interval
  <2> QED
    BY <1>1, <2>1, FS_Subset, FS_CardinalityType
<1>3. ASSUME ~forged, NEW id \in live PROVE Cardinality(at(id)) <= 1
  <2>1. \A i, j \in at(id) : i = j
    BY <1>1, <1>3 DEF PagesInv, NoneTwice
  <2> HIDE DEF at
  <2>2. CASE at(id) = {}
    BY <2>2, FS_EmptySet
  <2>3. CASE at(id) # {}
    <3>1. PICK i : at(id) = {i}
      BY <2>1, <2>3
    <3>2. Cardinality({i}) = 1
      BY FS_Singleton
    <3> QED
      BY <3>1, <3>2
  <2> QED
    BY <2>2, <2>3
<1>4. ASSUME walk.pc = "done", NEW id \in walk.watched PROVE Cardinality(at(id)) >= 1
  <2>1. at(id) # {}
    BY <1>1, <1>4 DEF PagesInv, NoneSkipped, Seen
  <2> HIDE DEF at
  <2> QED
    BY <1>2, <2>1, FS_EmptySet
<1> QED
  BY <1>3, <1>4 DEF ShownOnce, Shown

\* However long a walk through a list takes and whatever is written in between, it
\* shows a row that stayed once, one that came once at most, and with a cursor of
\* the client's own making none is left out.  (pagination.Encode and the lists'
\* keyset queries.)
THEOREM WalksShowOnce == PagesSpec => []ShownOnce
BY PagesInitInv, PagesNextInv, PagesInvIsShownOnce, PTL DEF PagesSpec

=============================================================================
