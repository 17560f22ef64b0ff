------------------------------ MODULE MCContent ------------------------------
(* Small instances of the modules of a team's content for TLC, as scenes: each  *)
(* starts from a state the program reaches and runs one of the modules while    *)
(* the state of the others rests.                                               *)
EXTENDS MCFinances, Reads, Photos, Pages, Calendars, Presets

CONSTANT h1

mcVars == <<vars, photoVars, pollVars, pageVars, calVars, presetVars, scene, left>>
contentVars == <<photoVars, pollVars, pageVars, calVars, presetVars>>

-----------------------------------------------------------------------------
(* Photos: a long thin picture, an ordinary one, one too large, one no image. *)
MCPictures ==
  {[size |-> 2, mime |-> "image/png", w |-> 9, h |-> 1],
   [size |-> 1, mime |-> "image/jpeg", w |-> 2, h |-> 3],
   [size |-> 3, mime |-> "image/jpeg", w |-> 2, h |-> 2],
   [size |-> 1, mime |-> "image/gif", w |-> 2, h |-> 2]}

PhotosScene ==
  /\ scene = "photos"
  /\ PhotosNext(PhotoCalls)
  /\ left' = left - Cardinality({s \in PhotoSlots : photoReqs[s].pc = "free"
                                                      /\ photoReqs'[s].pc # "free"})
  /\ UNCHANGED <<vars, pollVars, pageVars, calVars, presetVars>>

-----------------------------------------------------------------------------
(* Polls: a secret multiple-choice poll beside a public single-choice one.    *)
MCPolls ==
  /\ polls = [id \in {1, 2} |-> [team |-> t1, multiple |-> id = 2,
                                 anonymous |-> id = 2, options |-> 1 .. 2]]
  /\ lastPoll = 2 /\ votes = {}
  /\ pollMembers = PollUsers \X PollTeams
  /\ pollReqs = [s \in PollSlots |-> PollCall]

\* Bound: votes for up to two options, at most one of another poll.
MCVotes(ids) ==
  {r \in VotePollCalls : /\ r.poll \in ids /\ Cardinality(r.picks) <= 2
                         /\ \A o \in r.picks : o[1] = r.poll \/ o = <<3 - r.poll, 1>>}

PollsScene(name, calls) ==
  /\ scene = name
  /\ PollsNext(calls)
  /\ left' = left - Cardinality({s \in PollSlots : pollReqs[s].pc = "free"
                                                     /\ pollReqs'[s].pc # "free"})
  /\ UNCHANGED <<vars, photoVars, pageVars, calVars, presetVars>>

VotingScene == PollsScene("voting", MCVotes({1}) \union DeletePollCalls)
ListsScene ==
  PollsScene("lists", ListPollsCalls \union {r \in DeletePollCalls : r.poll = 2}
    \union {r \in MCVotes({2}) : Cardinality(r.picks) = 1}
    \union {r \in CreatePollCalls : r.options = 2 /\ r.anonymous /\ r.multiple})

-----------------------------------------------------------------------------
(* Pages: three rows, alike in all but one of the columns they are sorted by. *)
MCRow(lead, upto, created) ==
  [team |-> t1, user |-> CHOOSE u \in ListUsers : TRUE, lead |-> lead, upto |-> upto,
   created |-> created]
MCEntries == {<<MCRow(1, 1, 1), MCRow(1, 2, 1), MCRow(1, 1, 2)>>,
              <<MCRow(2, 2, 2), MCRow(1, 1, 1), MCRow(1, 1, 1)>>}

PagesScene ==
  /\ scene = "pages"
  /\ \/ PagesRead /\ left' = left
     \/ walk.pc = "walking" /\ PagesWrite /\ left' = left - 1
  /\ UNCHANGED <<vars, photoVars, pollVars, calVars, presetVars>>

-----------------------------------------------------------------------------
(* Calendars: a member's link rotated, revoked and set up by overlapping calls; *)
(* its feed served while link, content and rights change; shares.               *)
MCFeed == [user |-> h1, team |-> t1, types |-> {"training"}, birthdays |-> TRUE,
           active |-> TRUE]
MCEvent(type, first, last, active) ==
  [team |-> t1, type |-> type, first |-> first, last |-> last, active |-> active]
MCEvents == {MCEvent("training", 1, 2, TRUE), MCEvent("event", 2, 2, TRUE)}

MCCalendars ==
  /\ feeds \in IF scene = "links" THEN {<<>>, <<MCFeed>>}
               ELSE IF scene = "feeds" THEN {<<MCFeed>>} ELSE {<<>>}
  /\ rights = [p \in CalUsers \X CalTeams |-> {"member"} \union ReadModules]
  /\ shares = {} /\ schedule = MCEvents
  /\ calReqs = [s \in CalSlots |-> CalCall] /\ witnessed = [s \in CalSlots |-> {}]

CalendarsScene(name, calls, rest) ==
  /\ scene = name
  /\ CalendarsNext(calls)
  /\ left' = left - Cardinality({s \in CalSlots : calReqs[s].pc = "free"
                                                    /\ calReqs'[s].pc # "free"})
  /\ UNCHANGED <<rest, vars, photoVars, pollVars, pageVars, presetVars>>

\* Bound: the content set is everything or the trainings alone.
MCSettings == {r \in UpdateSettingsCalls :
                 r.types = IF r.birthdays THEN EventTypes ELSE {"training"}}
OwnLink(r) == r.team = t1
LinksScene ==
  CalendarsScene("links", {r \in IssueTokenCalls \union RevokeTokenCalls \union MCSettings :
                             OwnLink(r)}, <<rights, shares, schedule>>)
FeedsScene ==
  /\ CalendarsScene("feeds", {r \in GetCalendarFeedCalls : r.link = 1}
       \union {r \in MCSettings \union RevokeTokenCalls : OwnLink(r)}, shares)
  /\ \A p \in DOMAIN rights : p[2] # t1 => rights'[p] = rights[p]
SharesScene ==
  CalendarsScene("shares", ListSharedCalendarEventsCalls \union CreateCalendarShareCalls,
                 rights)

-----------------------------------------------------------------------------
PresetsScene ==
  /\ scene = "presets"
  /\ PresetsNext(PresetCalls)
  /\ left' = left - Cardinality({s \in PresetSlots : presetReqs[s].pc = "free"
                                                       /\ presetReqs'[s].pc # "free"})
  /\ UNCHANGED <<vars, photoVars, pollVars, pageVars, calVars>>

-----------------------------------------------------------------------------

Scene(name, requests) == scene = name /\ left = requests

NoFinances == Settled(<<>>, <<>>, <<>>) /\ members = {}
MCInit ==
  /\ \/ FinancesScenesInit
     \/ /\ \/ Scene("photos", 3) \/ Scene("voting", 3) \/ Scene("lists", 3)
           \/ Scene("pages", 2) \/ Scene("links", 4) \/ Scene("feeds", 2)
           \/ Scene("shares", 2) \/ Scene("presets", 3)
        /\ NoFinances
  /\ PhotosInit
  /\ MCPolls
  /\ list \in IF scene = "pages" THEN Lists ELSE {"news"}
  /\ entries \in IF scene = "pages" THEN MCEntries ELSE {<< >>}
  /\ today = 1 /\ posting = [a \in Authors |-> Absent] /\ walk = ClosedWalk /\ forged = FALSE
  /\ MCCalendars
  /\ PresetsInit

MCNext ==
  /\ \/ FinancesScenes /\ UNCHANGED contentVars
     \/ PhotosScene \/ VotingScene \/ ListsScene \/ PagesScene
     \/ LinksScene \/ FeedsScene \/ SharesScene \/ PresetsScene
  /\ left' >= 0
  /\ UNCHANGED scene

MCSpec == MCInit /\ [][MCNext]_mcVars

\* The photos alone.
PhotosOnlySpec == MCInit /\ scene = "photos" /\ [][MCNext]_mcVars

\* In the run all slots are the same, and voters and owners of presets.
Symmetry == Permutations(Slots) \union Permutations(PollUsers)

=============================================================================
