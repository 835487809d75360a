--------------------------- MODULE TeamMembership ---------------------------
(***************************************************************************)
(* Teams and their members: POST, PATCH and DELETE /api/team               *)
(* (app/api/team/route.ts) with getWorkspaceContext (app/lib/workspace.ts).*)
(*                                                                         *)
(* A request reads who the caller is, then what it needs to decide, then   *)
(* writes, each step an awaited statement or a db.batch; any number of     *)
(* other requests run in between.  Names, emails and the profile are left  *)
(* out.                                                                    *)
(***************************************************************************)
EXTENDS Integers, FiniteSets

CONSTANTS
    Users,
    Teams,     \* UUIDs of teams rows
    Codes,     \* invite codes
    Requests,  \* concurrent invocations of the handlers
    Null

Roles == {"owner", "admin", "member"}
Managers == {"owner", "admin"}

ASSUME NullAssumption == Null \notin Users \cup Teams \cup Codes \cup Roles

VARIABLES
    teams,     \* teams
    member,    \* team_members; UNIQUE(user_sub) leaves a user one row
    req        \* local state of each invocation

vars == <<teams, member, req>>

TeamRow == [state : {"none", "live", "deleted"},
            owner : Users \cup {Null}, code : Codes \cup {Null}]
MemberRow == [team : Teams \cup {Null}, role : Roles \cup {Null}]
Operations == {"create", "join", "setRole", "rotate", "leave", "remove"}
Request == [step : {"idle", "code", "create", "rotate", "lookup", "join",
                    "target", "setRole", "remove", "count", "delete", "leave"},
            op : Operations \cup {Null}, user : Users \cup {Null},
            team : Teams \cup {Null}, code : Codes \cup {Null},
            target : Users \cup {Null}, role : Roles \cup {Null}]

NoTeam == [state |-> "none", owner |-> Null, code |-> Null]
NoRow == [team |-> Null, role |-> Null]
Idle == [step |-> "idle", op |-> Null, user |-> Null, team |-> Null, code |-> Null,
         target |-> Null, role |-> Null]

Live(t) == teams[t].state = "live"
MembersOf(t) == {u \in Users : member[u].team = t}
CodesInUse == {teams[t].code : t \in {t \in Teams : Live(t)}}

TypeOK ==
    /\ teams \in [Teams -> TeamRow]
    /\ member \in [Users -> MemberRow]
    /\ req \in [Requests -> Request]

Init ==
    /\ teams = [t \in Teams |-> NoTeam]
    /\ member = [u \in Users |-> NoRow]
    /\ req = [q \in Requests |-> Idle]

\* The request is over: an answer, an error of D1 or of one of its constraints.
Done(q) == req' = [req EXCEPT ![q] = Idle]

Goto(q, step) == req' = [req EXCEPT ![q].step = step]

(***************************************************************************)
(* getWorkspaceContext: the membership joined with its team.  A request    *)
(* reads nothing before it; what it may do is decided here, once.          *)
(***************************************************************************)
Context(u) ==
    IF member[u].team # Null /\ Live(member[u].team) THEN member[u] ELSE NoRow

\* The step that follows, "idle" when the operation is refused.
Permitted(op, context) ==
    CASE op = "create"  -> IF context.team = Null THEN "code" ELSE "idle"
      [] op = "join"    -> IF context.team = Null THEN "lookup" ELSE "idle"
      [] op = "setRole" -> IF context.role = "owner" THEN "target" ELSE "idle"
      [] op = "rotate"  -> IF context.role \in Managers THEN "code" ELSE "idle"
      [] op = "remove"  -> IF context.role \in Managers THEN "target" ELSE "idle"
      [] op = "leave"   -> IF context.team = Null THEN "idle"
                           ELSE IF context.role = "owner" THEN "count" ELSE "leave"

ReadContext(q, u, op) ==
    LET context == Context(u)
        step == Permitted(op, context)
    IN  /\ req[q].step = "idle"
        /\ step # "idle"
        /\ req' = [req EXCEPT ![q] = [Idle EXCEPT !.step = step, !.op = op, !.user = u,
                                                  !.team = context.team]]
        /\ UNCHANGED <<teams, member>>

(***************************************************************************)
(* Creating, joining, rotating the code                                    *)
(***************************************************************************)

\* A random code that no team has.
FindCode(q) ==
    /\ req[q].step = "code"
    /\ \E c \in Codes \ CodesInUse :
         req' = [req EXCEPT ![q].code = c,
                            ![q].step = IF req[q].op = "create" THEN "create" ELSE "rotate"]
    /\ UNCHANGED <<teams, member>>

\* db.batch: UNIQUE(invite_code) and UNIQUE(user_sub) may refuse it.
InsertTeam(q, t) ==
    LET u == req[q].user
    IN  /\ req[q].step = "create"
        /\ teams[t].state = "none"
        /\ req[q].code \notin CodesInUse
        /\ member[u] = NoRow
        /\ teams' = [teams EXCEPT ![t] = [state |-> "live", owner |-> u, code |-> req[q].code]]
        /\ member' = [member EXCEPT ![u] = [team |-> t, role |-> "owner"]]
        /\ Done(q)

LookUpCode(q) ==
    /\ req[q].step = "lookup"
    /\ \E c \in Codes :
         \/ /\ c \notin CodesInUse
            /\ Done(q)
         \/ \E t \in Teams :
              /\ Live(t)
              /\ teams[t].code = c
              /\ req' = [req EXCEPT ![q].step = "join", ![q].team = t]
    /\ UNCHANGED <<teams, member>>

\* db.batch: nothing in it depends on the team any more.
InsertMember(q) ==
    LET u == req[q].user
    IN  /\ req[q].step = "join"
        /\ member[u] = NoRow
        /\ member' = [member EXCEPT ![u] = [team |-> req[q].team, role |-> "member"]]
        /\ Done(q)
        /\ UNCHANGED teams

RotateCode(q) ==
    LET t == req[q].team
    IN  /\ req[q].step = "rotate"
        /\ req[q].code \notin CodesInUse
        /\ teams' = IF Live(t) THEN [teams EXCEPT ![t].code = req[q].code] ELSE teams
        /\ Done(q)
        /\ UNCHANGED member

(***************************************************************************)
(* Changing and removing members                                           *)
(***************************************************************************)

\* Deviation: the owner may be meant.
AnyoneElse(u, t) == {v \in Users \ {u} : member[v].team = t}

\* Whom user u of team t may change or remove.
Targets(u, t) == {v \in Users \ {u} : member[v].team = t /\ member[v].role # "owner"}

\* Deviation: the role asked for is taken as it comes.
AnyRole == Roles \cup {"guest"}

AssignableRoles == {"admin", "member"}

\* Not a member, or the owner: refused.
ReadTarget(q) ==
    /\ req[q].step = "target"
    /\ \/ \E v \in Targets(req[q].user, req[q].team) :
            \/ /\ req[q].op = "remove"
               /\ req' = [req EXCEPT ![q].step = "remove", ![q].target = v]
            \/ /\ req[q].op = "setRole"
               /\ \E role \in AssignableRoles :
                    req' = [req EXCEPT ![q].step = "setRole", ![q].target = v, ![q].role = role]
       \/ Done(q)
    /\ UNCHANGED <<teams, member>>

\* UPDATE ... WHERE team_id = ? AND user_sub = ?
SetRole(q) ==
    LET v == req[q].target
    IN  /\ req[q].step = "setRole"
        /\ member' = IF member[v].team = req[q].team
                     THEN [member EXCEPT ![v].role = req[q].role] ELSE member
        /\ Done(q)
        /\ UNCHANGED teams

DeleteRow(u, t) == IF member[u].team = t THEN [member EXCEPT ![u] = NoRow] ELSE member

RemoveMember(q) ==
    /\ req[q].step = "remove"
    /\ member' = DeleteRow(req[q].target, req[q].team)
    /\ Done(q)
    /\ UNCHANGED teams

Leave(q) ==
    /\ req[q].step = "leave"
    /\ member' = DeleteRow(req[q].user, req[q].team)
    /\ Done(q)
    /\ UNCHANGED teams

(***************************************************************************)
(* The owner leaves: the team is deleted if nobody else is on it           *)
(***************************************************************************)
CountMembers(q) ==
    /\ req[q].step = "count"
    /\ IF Cardinality(MembersOf(req[q].team)) > 1 THEN Done(q) ELSE Goto(q, "delete")
    /\ UNCHANGED <<teams, member>>

\* Deviation: only the owner's row is deleted.
OwnerRowDeleted(t) == [u \in Users |-> IF u = teams[t].owner THEN NoRow ELSE member[u]]

\* DELETE FROM team_members WHERE team_id = ?
RowsDeleted(t) == [u \in Users |-> IF member[u].team = t THEN NoRow ELSE member[u]]

\* db.batch: all rows of the team, whoever has joined since.
DeleteTeam(q) ==
    LET t == req[q].team
    IN  /\ req[q].step = "delete"
        /\ member' = RowsDeleted(t)
        /\ teams' = [teams EXCEPT ![t] = [NoTeam EXCEPT !.state = "deleted"]]
        /\ Done(q)

\* A statement fails, or a constraint refuses the batch.
Fail(q) ==
    /\ req[q].step # "idle"
    /\ Done(q)
    /\ UNCHANGED <<teams, member>>

-----------------------------------------------------------------------------
Step(q) ==
    \/ \E u \in Users, op \in Operations : ReadContext(q, u, op)
    \/ FindCode(q)
    \/ \E t \in Teams : InsertTeam(q, t)
    \/ LookUpCode(q)
    \/ InsertMember(q)
    \/ RotateCode(q)
    \/ ReadTarget(q)
    \/ SetRole(q)
    \/ RemoveMember(q)
    \/ Leave(q)
    \/ CountMembers(q)
    \/ DeleteTeam(q)
    \/ Fail(q)

Next == \E q \in Requests : Step(q)

Spec == Init /\ [][Next]_vars

(***************************************************************************)
(* Properties                                                              *)
(***************************************************************************)

\* A team has its owner, and nobody else with that role, until it is deleted:
\* whatever stale roles and rows the requests in flight go by, the owner is not
\* removed, demoted or replaced.
OneOwner ==
    \A t \in Teams, u \in Users :
        member[u] = [team |-> t, role |-> "owner"] <=> Live(t) /\ teams[t].owner = u

Orphan(u) == member[u].team # Null /\ ~Live(member[u].team)

\* Deleting a team leaves no row behind: a row without a team is always one that
\* a join, having looked the team up before it was deleted, inserts afterwards.
OrphansComeFromLateJoins ==
    [][\A u \in Users : Orphan(u)' /\ ~Orphan(u) =>
          \E q \in Requests : req[q].step = "join" /\ req[q].user = u
                              /\ req[q].team = member'[u].team]_vars

=============================================================================
