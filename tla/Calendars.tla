------------------------------ MODULE Calendars ------------------------------
(***************************************************************************)
(* Calendars read from outside a team: the feed links of its members, each  *)
(* with the content its holder chose, and the schedules a team shares with  *)
(* other teams.  A statement of a request is a step; what a transaction     *)
(* wrote shows when it commits.  calendarfeed/ and calendarshare/.          *)
(***************************************************************************)
EXTENDS Naturals, FiniteSets

CONSTANTS CalTeams, CalUsers,
          CalSlots,      \* requests in flight at the same time
          EventTypes,
          MaxLinks,      \* links issued at most, numbered as they are issued
          LastDay,       \* days are 1 .. LastDay
          NoTeam         \* a team id that belongs to no team

ASSUME CalendarsAssumption ==
    MaxLinks \in Nat /\ LastDay \in Nat \ {0} /\ NoTeam \notin CalTeams

VARIABLES feeds,      \* link -> [user, team, types, birthdays, active]
          rights,     \* <<user, team>> -> "member" and the modules the user may read
          shares,     \* set of <<owner, viewer>>
          schedule,   \* set of [team, type, first, last, active]: the events
          calReqs,
          witnessed   \* slot -> what was true at some time since its request came in

calVars == <<feeds, rights, shares, schedule, calReqs, witnessed>>

Links == 1 .. MaxLinks
Days == 1 .. LastDay
CalEvents == [team : CalTeams, type : EventTypes, first : Days, last : Days,
              active : BOOLEAN]
ReadModules == {"events", "members"}
defaultFeedTypes == EventTypes

-----------------------------------------------------------------------------
(* Calls *)

CalCall == [op |-> "none", pc |-> "free", user |-> "", team |-> "", link |-> 0,
            types |-> {}, birthdays |-> FALSE, may |-> {}, from |-> 0, to |-> 0,
            events |-> {}, born |-> {}]

LinkCall(op, pc, u, t) == [CalCall EXCEPT !.op = op, !.pc = pc, !.user = u, !.team = t]
LinkCalls(op, pc) == {LinkCall(op, pc, u, t) : u \in CalUsers, t \in CalTeams}

IssueTokenCalls == LinkCalls("issue", "selection")
RevokeTokenCalls == LinkCalls("revoke", "find")
SettingsCall(u, t, types, b) ==
    [LinkCall("settings", "find", u, t) EXCEPT !.types = types, !.birthdays = b]
UpdateSettingsCalls ==
    {SettingsCall(u, t, types, b) :
        u \in CalUsers, t \in CalTeams, types \in SUBSET EventTypes, b \in BOOLEAN}
GetCalendarFeedCalls ==
    {[CalCall EXCEPT !.op = "feed", !.pc = "token", !.link = id] : id \in Links}

\* user is the team asked for, team the one asking; 0 for a bound left out.
SharedCall(owner, viewer, from, to) ==
    [LinkCall("shared", "grant", owner, viewer) EXCEPT !.from = from, !.to = to]
ListSharedCalendarEventsCalls ==
    {SharedCall(owner, viewer, from, to) :
        owner \in CalTeams, viewer \in CalTeams,
        from \in 0 .. LastDay, to \in 0 .. LastDay}
CreateCalendarShareCalls ==
    {LinkCall("share", "team", viewer, owner) :
        owner \in CalTeams, viewer \in CalTeams \union {NoTeam}}

CalCalls == IssueTokenCalls \union RevokeTokenCalls \union UpdateSettingsCalls
              \union GetCalendarFeedCalls \union ListSharedCalendarEventsCalls
              \union CreateCalendarShareCalls

AtPc(s, op, pc) == calReqs[s].op = op /\ calReqs[s].pc = pc
Becomes(s, r) == calReqs' = [calReqs EXCEPT ![s] = r]
GoTo(s, pc) == Becomes(s, [calReqs[s] EXCEPT !.pc = pc])
EndCall(s) == Becomes(s, CalCall)

\* The routes of one's own link ask for events:read when the request arrives.
SubmitCall(s, r) ==
    /\ calReqs[s].pc = "free"
    /\ r.op \in {"issue", "revoke", "settings"} => "events" \in rights[<<r.user, r.team>>]
    /\ Becomes(s, r)
    /\ UNCHANGED <<feeds, rights, shares, schedule>>

-----------------------------------------------------------------------------
(* Links *)

ActiveLinks(u, t) == {id \in DOMAIN feeds : /\ feeds[id].user = u /\ feeds[id].team = t
                                            /\ feeds[id].active}
\* The row an open rotation has revoked: other writers of it wait.
Locked(id) == \E s \in CalSlots : AtPc(s, "issue", "insert") /\ calReqs[s].link = id

\* IssueToken reads the selection to carry over before it locks anything ...
ReadSelection(s) ==
    /\ AtPc(s, "issue", "selection")
    /\ LET old == ActiveLinks(calReqs[s].user, calReqs[s].team)
       IN Becomes(s, [calReqs[s] EXCEPT
              !.pc = "find",
              !.types = IF old = {} THEN defaultFeedTypes
                        ELSE UNION {feeds[id].types : id \in old},
              !.birthdays = \A id \in old : feeds[id].birthdays])
    /\ UNCHANGED <<feeds, rights, shares, schedule>>

\* An UPDATE of the pair's active row picks the row it sees when it starts: one
\* inserted while it waits for the lock is not touched.
FindActiveRow(s) ==
    /\ calReqs[s].op \in {"issue", "revoke", "settings"} /\ calReqs[s].pc = "find"
    /\ LET old == ActiveLinks(calReqs[s].user, calReqs[s].team)
       IN Becomes(s, [calReqs[s] EXCEPT
              !.pc = "update",
              !.link = IF old = {} THEN 0 ELSE CHOOSE id \in old : TRUE])
    /\ UNCHANGED <<feeds, rights, shares, schedule>>

Hits(s) == calReqs[s].link # 0 /\ feeds[calReqs[s].link].active

RevokeOld(s) ==
    /\ AtPc(s, "issue", "update") /\ ~Locked(calReqs[s].link)
    /\ Becomes(s, [calReqs[s] EXCEPT
           !.pc = "insert", !.link = IF Hits(s) THEN calReqs[s].link ELSE 0])
    /\ UNCHANGED <<feeds, rights, shares, schedule>>

Revoked(row) == [row EXCEPT !.active = FALSE]

\* idx_calendar_feed_tokens_active_user_team
UniqueActive(u, t, revoked) == ActiveLinks(u, t) \subseteq {revoked}

\* The new row, and the commit that shows it and the revocation of the old one.
InsertToken(s) ==
    /\ AtPc(s, "issue", "insert")
    /\ LET r == calReqs[s]
           new == Cardinality(DOMAIN feeds) + 1
           row == [user |-> r.user, team |-> r.team, types |-> r.types,
                   birthdays |-> r.birthdays, active |-> TRUE]
       IN IF UniqueActive(r.user, r.team, r.link)
          THEN /\ new <= MaxLinks
               /\ feeds' = [id \in DOMAIN feeds \union {new} |->
                              IF id = new THEN row
                              ELSE IF id = r.link THEN Revoked(feeds[id])
                              ELSE feeds[id]]
          ELSE UNCHANGED feeds
    /\ EndCall(s)
    /\ UNCHANGED <<rights, shares, schedule>>

Revoke(s) ==
    /\ AtPc(s, "revoke", "update") /\ ~Locked(calReqs[s].link)
    /\ feeds' = IF Hits(s)
                THEN [feeds EXCEPT ![calReqs[s].link] = Revoked(feeds[calReqs[s].link])]
                ELSE feeds
    /\ EndCall(s)
    /\ UNCHANGED <<rights, shares, schedule>>

SetUp(row, types, birthdays) == [row EXCEPT !.types = types, !.birthdays = birthdays]

\* Without a row to update the answer is ErrNoActiveToken.
UpdateSettings(s) ==
    /\ AtPc(s, "settings", "update") /\ ~Locked(calReqs[s].link)
    /\ LET r == calReqs[s]
       IN feeds' = IF Hits(s)
                   THEN [feeds EXCEPT ![r.link] = SetUp(feeds[r.link], r.types, r.birthdays)]
                   ELSE feeds
    /\ EndCall(s)
    /\ UNCHANGED <<rights, shares, schedule>>

-----------------------------------------------------------------------------
(* Feeds: ServeFeed, one read after the other *)

Deny(s) == EndCall(s)
Allow(s, pc, ok) == IF ok THEN GoTo(s, pc) ELSE Deny(s)

FindActiveByToken(s) ==
    /\ AtPc(s, "feed", "token")
    /\ LET id == calReqs[s].link
       IN IF id \in DOMAIN feeds /\ feeds[id].active
          THEN Becomes(s, [calReqs[s] EXCEPT
                   !.pc = "membership", !.user = feeds[id].user, !.team = feeds[id].team,
                   !.types = feeds[id].types, !.birthdays = feeds[id].birthdays])
          ELSE Deny(s)
    /\ UNCHANGED <<feeds, rights, shares, schedule>>

Holds(s) == rights[<<calReqs[s].user, calReqs[s].team>>]

CheckMembership(s) ==
    /\ AtPc(s, "feed", "membership")
    /\ Allow(s, "permissions", "member" \in Holds(s))
    /\ UNCHANGED <<feeds, rights, shares, schedule>>

CheckPermissions(s) ==
    /\ AtPc(s, "feed", "permissions")
    /\ IF "events" \in Holds(s)
       THEN Becomes(s, [calReqs[s] EXCEPT !.pc = "events",
                                          !.may = Holds(s) \cap ReadModules])
       ELSE Deny(s)
    /\ UNCHANGED <<feeds, rights, shares, schedule>>

filterEventsByType(es, allowed) == {e \in es : e.type \in allowed}

\* Render leaves the cancelled events out.
RenderedEvents(es) == {e \in es : e.active}

LoadEvents(s) ==
    /\ AtPc(s, "feed", "events")
    /\ Becomes(s, [calReqs[s] EXCEPT
           !.pc = "birthdays",
           !.events = RenderedEvents(filterEventsByType(
                        {e \in schedule : e.team = calReqs[s].team}, calReqs[s].types))])
    /\ UNCHANGED <<feeds, rights, shares, schedule>>

MemberRows(t) == {u \in CalUsers : "member" \in rights[<<u, t>>]}

\* Mutant: whoever has the feed sees the birthdays, the member list or not.
BirthdaysShown_Unchecked(r) == r.birthdays
BirthdaysShown(r) == r.birthdays /\ "members" \in r.may

LoadBirthdays(s) ==
    /\ AtPc(s, "feed", "birthdays")
    /\ Becomes(s, [calReqs[s] EXCEPT
           !.pc = "answered",
           !.born = IF BirthdaysShown(calReqs[s]) THEN MemberRows(calReqs[s].team) ELSE {}])
    /\ UNCHANGED <<feeds, rights, shares, schedule>>

-----------------------------------------------------------------------------
(* Shares *)

\* Grant: not to the team itself, and to a team that exists; again is no error.
Grant(s) ==
    /\ AtPc(s, "share", "team")
    /\ LET owner == calReqs[s].team
           viewer == calReqs[s].user
       IN shares' = IF viewer \in CalTeams \ {owner}
                    THEN shares \union {<<owner, viewer>>} ELSE shares
    /\ EndCall(s)
    /\ UNCHANGED <<feeds, rights, schedule>>

RevokeShare(owner, viewer) ==
    /\ <<owner, viewer>> \in shares
    /\ shares' = shares \ {<<owner, viewer>>}
    /\ UNCHANGED <<feeds, rights, schedule, calReqs>>

HasGrant(owner, viewer) == <<owner, viewer>> \in shares

CheckGrant(s) ==
    /\ AtPc(s, "shared", "grant")
    /\ Allow(s, "list", HasGrant(calReqs[s].user, calReqs[s].team))
    /\ UNCHANGED <<feeds, rights, shares, schedule>>

RedactedEvents(owner, from, to) ==
    {e \in schedule : /\ e.team = owner /\ e.active
                      /\ from # 0 => e.last >= from
                      /\ to # 0 => e.first <= to}

ListRedactedEvents(s) ==
    /\ AtPc(s, "shared", "list")
    /\ LET r == calReqs[s]
       IN Becomes(s, [r EXCEPT !.pc = "answered",
                               !.events = RedactedEvents(r.user, r.from, r.to)])
    /\ UNCHANGED <<feeds, rights, shares, schedule>>

-----------------------------------------------------------------------------
(* What other modules change meanwhile *)

SetRights(u, t, rs) ==
    /\ rs = {} \/ "member" \in rs
    /\ rs # rights[<<u, t>>]
    /\ rights' = [rights EXCEPT ![<<u, t>>] = rs]
    /\ UNCHANGED <<feeds, shares, schedule, calReqs>>

Cancel(e) ==
    /\ e \in schedule /\ e.active
    /\ schedule' = (schedule \ {e}) \union {[e EXCEPT !.active = FALSE]}
    /\ UNCHANGED <<feeds, rights, shares, calReqs>>

\* The client takes the answer, or a statement failed and rolled back what it did.
HangUp(s) ==
    /\ calReqs[s].pc # "free"
    /\ EndCall(s)
    /\ UNCHANGED <<feeds, rights, shares, schedule>>

-----------------------------------------------------------------------------
(* What entitles a reader, noted for every reader in flight.  *)
TruthsOf(links, held, granted) ==
    LET working == {id \in DOMAIN links : links[id].active}
    IN {<<"link", id, "">> : id \in working}
         \union {<<"birthdays", id, "">> : id \in {i \in working : links[i].birthdays}}
         \union (UNION {{<<"type", id, ty>> : ty \in links[id].types} : id \in working})
         \union (UNION {{<<p[1], p[2], m>> : m \in held[p]} : p \in DOMAIN held})
         \union {<<"grant", g[1], g[2]>> : g \in granted}
Truths == TruthsOf(feeds, rights, shares)

Witness ==
    witnessed' = [s \in CalSlots |->
        IF calReqs'[s].op \notin {"feed", "shared"} THEN {}
        ELSE IF calReqs[s].pc = "free" /\ calReqs'[s].pc # "free" THEN Truths'
        ELSE witnessed[s] \union Truths']

LinkStep(s) ==
    ReadSelection(s) \/ FindActiveRow(s) \/ RevokeOld(s) \/ InsertToken(s) \/ Revoke(s)
      \/ UpdateSettings(s)
FeedStep(s) ==
    FindActiveByToken(s) \/ CheckMembership(s) \/ CheckPermissions(s) \/ LoadEvents(s)
      \/ LoadBirthdays(s)
ShareStep(s) == Grant(s) \/ CheckGrant(s) \/ ListRedactedEvents(s)

CalendarsNext(calls) ==
    /\ \/ \E s \in CalSlots :
            \/ \E r \in calls : SubmitCall(s, r)
            \/ LinkStep(s) \/ FeedStep(s) \/ ShareStep(s) \/ HangUp(s)
       \/ \E u \in CalUsers, t \in CalTeams :
            \E rs \in SUBSET ({"member"} \union ReadModules) : SetRights(u, t, rs)
       \/ \E owner \in CalTeams, viewer \in CalTeams : RevokeShare(owner, viewer)
       \/ \E e \in schedule : Cancel(e)
    /\ Witness

CalendarsInit ==
    /\ feeds = [id \in {} |-> {}]
    /\ rights \in [CalUsers \X CalTeams -> SUBSET ({"member"} \union ReadModules)]
    /\ \A p \in DOMAIN rights : rights[p] = {} \/ "member" \in rights[p]
    /\ shares \subseteq {g \in CalTeams \X CalTeams : g[1] # g[2]}
    /\ schedule \in SUBSET CalEvents
    /\ calReqs = [s \in CalSlots |-> CalCall]
    /\ witnessed = [s \in CalSlots |-> {}]

CalendarsSpec == CalendarsInit /\ [][CalendarsNext(CalCalls)]_calVars

-----------------------------------------------------------------------------

\* A feed shows nothing, and of it only what the holder chose and may read, unless
\* the link worked and the holder was a member with events:read at some time since
\* the request came in; likewise a shared schedule and the owner's grant.  So what is
\* taken back is gone from the next request on, whatever order the reads meet it.
ShownByRight ==
    \A s \in CalSlots :
        LET r == calReqs[s]
            seen == witnessed[s]
        IN r.pc = "answered" =>
             IF r.op = "shared" THEN <<"grant", r.user, r.team>> \in seen
             ELSE /\ <<"link", r.link, "">> \in seen
                  /\ <<r.user, r.team, "member">> \in seen
                  /\ <<r.user, r.team, "events">> \in seen
                  /\ \A e \in r.events : <<"type", r.link, e.type>> \in seen
                  /\ r.born # {} => /\ <<"birthdays", r.link, "">> \in seen
                                    /\ <<r.user, r.team, "members">> \in seen

=============================================================================
