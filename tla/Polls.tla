-------------------------------- MODULE Polls --------------------------------
(***************************************************************************)
(* Polls of a team: a poll with its options, votes replaced in a           *)
(* transaction per voter, and lists read in a repeatable-read transaction. *)
(* Every statement of a request is a step; a transaction's own writes are  *)
(* kept in its request until it commits.  polls/.                          *)
(***************************************************************************)
EXTENDS Naturals, FiniteSets, FiniteSetsExt, Sums

CONSTANTS PollTeams, PollUsers,
          PollSlots,        \* requests in flight at the same time
          MaxPollId,        \* polls created at most, numbered as they are created
          MaxPolls,         \* maxPollsPerTeam
          MaxOptions,       \* maxPollOptions
          PollLimit,        \* page size of the lists asked for
          Nil

ASSUME PollsAssumption ==
    MaxPollId \in Nat /\ MaxOptions \in Nat /\ Nil \notin Nat

PollIds == 1 .. MaxPollId

VARIABLES polls,        \* id -> row, with its options
          lastPoll,     \* the last id given to a poll
          votes,        \* set of [poll, option, user]
          pollMembers,  \* set of <<user, team>>
          pollReqs

pollVars == <<polls, lastPoll, votes, pollMembers, pollReqs>>

-----------------------------------------------------------------------------
(* Calls *)

PollCall ==
    [op |-> "none", pc |-> "free", team |-> Nil, user |-> Nil, poll |-> Nil,
     multiple |-> FALSE, anonymous |-> FALSE, options |-> 0, picks |-> {},
     lock |-> FALSE, gone |-> {}, cast |-> {}, snap |-> Nil,
     page |-> {}, opts |-> {}, answer |-> Nil]

CreatePollCall(t, u, m, a, n) ==
    [PollCall EXCEPT !.op = "create", !.pc = "count", !.team = t, !.user = u,
                     !.multiple = m, !.anonymous = a, !.options = n]
VotePollCall(t, u, p, o) ==
    [PollCall EXCEPT !.op = "vote", !.pc = "find", !.team = t, !.user = u,
                     !.poll = p, !.picks = o]
DeletePollCall(t, p) ==
    [PollCall EXCEPT !.op = "delete", !.pc = "delete", !.team = t, !.poll = p]
ListPollsCall(t, u, cursor) ==
    [PollCall EXCEPT !.op = "list", !.pc = "begin", !.team = t, !.user = u,
                     !.poll = cursor]

CreatePollCalls ==
    {CreatePollCall(t, u, m, a, n) :
        t \in PollTeams, u \in PollUsers, m \in BOOLEAN, a \in BOOLEAN,
        n \in 2 .. MaxOptions}

Options == PollIds \X (1 .. MaxOptions)

\* A client may send any option ids, of the poll or not, and repeat them.
VotePollCalls ==
    {VotePollCall(t, u, p, o) :
        t \in PollTeams, u \in PollUsers, p \in PollIds,
        o \in {s \in SUBSET Options : Cardinality(s) <= MaxOptions}}

DeletePollCalls == {DeletePollCall(t, p) : t \in PollTeams, p \in PollIds}

ListPollsCalls ==
    {ListPollsCall(t, u, cursor) :
        t \in PollTeams, u \in PollUsers, cursor \in PollIds \union {Nil}}

PollCalls == CreatePollCalls \union VotePollCalls \union DeletePollCalls
                \union ListPollsCalls

\* RequireMembership lets members through, once, when the request arrives.
SubmitPoll(s, r) ==
    /\ pollReqs[s].pc = "free"
    /\ r.op = "delete" \/ <<r.user, r.team>> \in pollMembers
    /\ pollReqs' = [pollReqs EXCEPT ![s] = r]
    /\ UNCHANGED <<polls, lastPoll, votes, pollMembers>>

PollPc(s, pc) == pollReqs[s].pc = pc
EndPoll(s) == pollReqs' = [pollReqs EXCEPT ![s] = PollCall]
PollTo(s, pc) == pollReqs' = [pollReqs EXCEPT ![s].pc = pc]

-----------------------------------------------------------------------------
(* Assembling the answer *)

PollRow(r) == [team |-> r.team, multiple |-> r.multiple, anonymous |-> r.anonymous,
               options |-> 1 .. r.options]

OptionsOf(ps, id) == IF id \in DOMAIN ps THEN {<<id, i>> : i \in ps[id].options} ELSE {}
VotesOf(vs, ids) == {v \in vs : v.poll \in ids}

ListOptions(id) == OptionsOf(polls, id)
ListVotes(id) == VotesOf(votes, {id})
ListOptionsByPollIDs(ps, ids) == UNION {OptionsOf(ps, id) : id \in ids}
ListVotesByPollIDs(vs, ids) == VotesOf(vs, ids)

AssemblePoll(id, row, options, cast, me) ==
    LET own == {o \in options : o[1] = id}
        of(o) == {v \in cast : v.option = o}
    IN [id |-> id,
        multiple |-> row.multiple,
        count |-> [o \in own |-> Cardinality(of(o))],
        voters |-> [o \in own |->
                       IF row.anonymous THEN {} ELSE {v.user : v \in of(o)}],
        total |-> Cardinality({v.user : v \in {w \in cast : w.poll = id}}),
        mine |-> {v.option : v \in {w \in cast : w.poll = id /\ w.user = me}}]

-----------------------------------------------------------------------------
(* Creating and deleting *)

CountPollsByTeam(t) == Cardinality({id \in DOMAIN polls : polls[id].team = t})

AdmitPoll(s) ==
    /\ PollPc(s, "count")
    /\ IF CountPollsByTeam(pollReqs[s].team) >= MaxPolls
       THEN EndPoll(s) ELSE PollTo(s, "insert")
    /\ UNCHANGED <<polls, lastPoll, votes, pollMembers>>

\* The poll and its options in one transaction; the reload is the answer.
CreatePoll(s) ==
    /\ PollPc(s, "insert")
    /\ lastPoll < MaxPollId
    /\ lastPoll' = lastPoll + 1
    /\ LET id == lastPoll + 1
       IN /\ polls' = [x \in DOMAIN polls \union {id} |->
                          IF x = id THEN PollRow(pollReqs[s]) ELSE polls[x]]
          /\ pollReqs' = [pollReqs EXCEPT ![s].pc = "options", ![s].poll = id]
    /\ UNCHANGED <<votes, pollMembers>>

\* The inserted votes of a transaction hold the poll's row: the delete waits.
Held(id) == \E s \in PollSlots :
                \E v \in pollReqs[s].cast : pollReqs[s].lock /\ v.poll = id

DeletePoll(s) ==
    /\ PollPc(s, "delete")
    /\ LET r == pollReqs[s]
           hit == {id \in {r.poll} \cap DOMAIN polls : polls[id].team = r.team}
       IN /\ \A id \in hit : ~Held(id)
          /\ polls' = [id \in DOMAIN polls \ hit |-> polls[id]]
          /\ votes' = {v \in votes : v.poll \notin hit}
    /\ EndPoll(s)
    /\ UNCHANGED <<lastPoll, pollMembers>>

-----------------------------------------------------------------------------
(* Voting *)

FindPollByID(r) == r.poll \in DOMAIN polls /\ polls[r.poll].team = r.team

\* Service.Vote: the poll is read and the number of choices checked first.
AdmitVote(s) ==
    /\ PollPc(s, "find")
    /\ LET r == pollReqs[s]
       IN IF FindPollByID(r) /\ (polls[r.poll].multiple \/ Cardinality(r.picks) <= 1)
          THEN PollTo(s, "lock") ELSE EndPoll(s)
    /\ UNCHANGED <<polls, lastPoll, votes, pollMembers>>

\* Mutant: the transactions of one voter are not serialised.
AdvisoryLock_Absent(s) ==
    /\ PollPc(s, "lock")
    /\ pollReqs' = [pollReqs EXCEPT ![s].pc = "clear", ![s].lock = TRUE]
    /\ UNCHANGED <<polls, lastPoll, votes, pollMembers>>

AdvisoryLock(s) ==
    /\ PollPc(s, "lock")
    /\ \A o \in PollSlots \ {s} :
          ~(/\ pollReqs[o].lock
            /\ pollReqs[o].poll = pollReqs[s].poll
            /\ pollReqs[o].user = pollReqs[s].user)
    /\ pollReqs' = [pollReqs EXCEPT ![s].pc = "clear", ![s].lock = TRUE]
    /\ UNCHANGED <<polls, lastPoll, votes, pollMembers>>

ClearVotes(s) ==
    /\ PollPc(s, "clear")
    /\ LET r == pollReqs[s]
       IN pollReqs' = [pollReqs EXCEPT
              ![s].pc = "cast",
              ![s].gone = {v \in votes : v.poll = r.poll /\ v.user = r.user}]
    /\ UNCHANGED <<polls, lastPoll, votes, pollMembers>>

\* Each option: INSERT ... WHERE EXISTS (option of the poll) AND EXISTS
\* (membership), ON CONFLICT DO NOTHING; no row means the vote is rejected.
CastVote(s) ==
    /\ PollPc(s, "cast")
    /\ \E o \in pollReqs[s].picks :
          LET r == pollReqs[s]
              v == [poll |-> r.poll, option |-> o, user |-> r.user]
          IN IF /\ o \in OptionsOf(polls, r.poll)
                /\ <<r.user, polls[r.poll].team>> \in pollMembers
                /\ v \notin votes \ r.gone
             THEN pollReqs' = [pollReqs EXCEPT ![s].picks = @ \ {o},
                                               ![s].cast = @ \union {v}]
             ELSE EndPoll(s)
    /\ UNCHANGED <<polls, lastPoll, votes, pollMembers>>

ReplaceVotes(s) ==
    /\ PollPc(s, "cast")
    /\ pollReqs[s].picks = {}
    /\ votes' = (votes \ pollReqs[s].gone) \union pollReqs[s].cast
    /\ pollReqs' = [pollReqs EXCEPT ![s].pc = "refetch", ![s].lock = FALSE,
                                    ![s].gone = {}, ![s].cast = {}]
    /\ UNCHANGED <<polls, lastPoll, pollMembers>>

Refetch(s) ==
    /\ PollPc(s, "refetch")
    /\ IF FindPollByID(pollReqs[s]) THEN PollTo(s, "options") ELSE EndPoll(s)
    /\ UNCHANGED <<polls, lastPoll, votes, pollMembers>>

\* buildPoll reads options and votes outside any transaction.
BuildPoll(s) ==
    /\ \/ /\ PollPc(s, "options")
          /\ pollReqs' = [pollReqs EXCEPT ![s].pc = "votes",
                                          ![s].opts = ListOptions(pollReqs[s].poll)]
       \/ /\ PollPc(s, "votes")
          /\ EndPoll(s)
    /\ UNCHANGED <<polls, lastPoll, votes, pollMembers>>

-----------------------------------------------------------------------------
(* Listing: three queries in one repeatable-read transaction *)

Snapshot == [polls |-> polls, votes |-> votes]

\* What a query of the list sees: the database as it was at the first of them.
ReadTx(s) == IF PollPc(s, "begin") THEN Snapshot ELSE pollReqs[s].snap

\* The newest polls before the cursor, one more than asked for.
ListPollsByTeam(ps, t, limit, cursor) ==
    LET before == {id \in DOMAIN ps : ps[id].team = t /\ (cursor = Nil \/ id < cursor)}
    IN {id \in before : Cardinality({o \in before : o > id}) < limit}

AssemblePage(s) ==
    /\ PollPc(s, "begin")
    /\ LET db == ReadTx(s)
           found == ListPollsByTeam(db.polls, pollReqs[s].team, PollLimit + 1,
                               pollReqs[s].poll)
           rows == IF Cardinality(found) > PollLimit THEN found \ {Min(found)} ELSE found
       IN pollReqs' = [pollReqs EXCEPT
              ![s].pc = "page", ![s].snap = db,
              ![s].page = {[id |-> id, row |-> db.polls[id]] : id \in rows}]
    /\ UNCHANGED <<polls, lastPoll, votes, pollMembers>>

PageIds(s) == {p.id : p \in pollReqs[s].page}

PageOptions(s) ==
    /\ PollPc(s, "page")
    /\ pollReqs' = [pollReqs EXCEPT
          ![s].pc = "tally",
          ![s].opts = ListOptionsByPollIDs(ReadTx(s).polls, PageIds(s))]
    /\ UNCHANGED <<polls, lastPoll, votes, pollMembers>>

PageVotes(s) ==
    /\ PollPc(s, "tally")
    /\ LET cast == ListVotesByPollIDs(ReadTx(s).votes, PageIds(s))
       IN pollReqs' = [pollReqs EXCEPT
              ![s].pc = "answered",
              ![s].answer = {AssemblePoll(p.id, p.row, pollReqs[s].opts, cast,
                                          pollReqs[s].user) : p \in pollReqs[s].page}]
    /\ UNCHANGED <<polls, lastPoll, votes, pollMembers>>

AnswerPolls(s) ==
    /\ PollPc(s, "answered")
    /\ EndPoll(s)
    /\ UNCHANGED <<polls, lastPoll, votes, pollMembers>>

-----------------------------------------------------------------------------
(* The rest of the team goes on meanwhile *)

LeaveTeam(u, t) ==
    /\ <<u, t>> \in pollMembers
    /\ pollMembers' = pollMembers \ {<<u, t>>}
    /\ UNCHANGED <<polls, lastPoll, votes, pollReqs>>

\* The five seconds of a transaction are over, or its connection is gone.
AbortPoll(s) ==
    /\ pollReqs[s].pc \in {"clear", "cast", "insert"}
    /\ EndPoll(s)
    /\ UNCHANGED <<polls, lastPoll, votes, pollMembers>>

PollsInit ==
    /\ polls = [id \in {} |-> Nil]
    /\ lastPoll = 0
    /\ votes = {}
    /\ pollMembers = PollUsers \X PollTeams
    /\ pollReqs = [s \in PollSlots |-> PollCall]

PollStep(s) ==
    \/ AdmitPoll(s) \/ CreatePoll(s) \/ DeletePoll(s)
    \/ AdmitVote(s) \/ AdvisoryLock(s) \/ ClearVotes(s) \/ CastVote(s)
    \/ ReplaceVotes(s) \/ Refetch(s) \/ BuildPoll(s)
    \/ AssemblePage(s) \/ PageOptions(s) \/ PageVotes(s) \/ AnswerPolls(s)
    \/ AbortPoll(s)

PollsNext(C) ==
    \/ \E s \in PollSlots : (\E r \in C : SubmitPoll(s, r)) \/ PollStep(s)
    \/ \E u \in PollUsers, t \in PollTeams : LeaveTeam(u, t)

PollsSpec == PollsInit /\ [][PollsNext(PollCalls)]_pollVars

-----------------------------------------------------------------------------
(* Properties *)

\* However many requests of one member overlap, a single-choice poll holds one
\* vote of theirs, and no vote is for an option the poll does not have.
OneChoice ==
    \A v \in votes :
        /\ v.option \in OptionsOf(polls, v.poll)
        /\ \A w \in votes :
              /\ w.poll = v.poll /\ w.user = v.user
              /\ ~polls[v.poll].multiple
              => w.option = v.option

\* Every poll in a list has its options and votes that add up, although polls
\* are deleted and votes replaced while the three queries of the list run.
ListsWhole ==
    \A s \in PollSlots :
        pollReqs[s].pc = "answered" =>
            \A p \in pollReqs[s].answer :
                LET counts == Total(p.count, DOMAIN p.count)
                IN /\ Cardinality(DOMAIN p.count) >= 2
                   /\ IF p.multiple THEN counts >= p.total ELSE counts = p.total
                   /\ p.mine \subseteq DOMAIN p.count
=============================================================================
