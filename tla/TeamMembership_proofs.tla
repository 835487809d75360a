------------------------ MODULE TeamMembership_proofs ------------------------
(***************************************************************************)
(* Proofs about TeamMembership, for every number of users, teams, codes    *)
(* and concurrent requests.                                                *)
(*                                                                         *)
(* What makes OneOwner inductive is what a request in flight still knows,  *)
(* however stale the rest of what it read: teams are inserted once and     *)
(* never change owner, so whoever was not the owner of an existing team    *)
(* never becomes it.                                                       *)
(***************************************************************************)
EXTENDS TeamMembership, TLAPS

Known(t, T) == t \in Teams /\ T[t].state # "none"
Owns(u, t, T) == T[t].state = "live" /\ T[t].owner = u

\* What request r, in flight, knows of the teams T.
RequestOK(r, T) ==
    /\ r.step # "idle" => r.user \in Users /\ r.op \in Operations
    /\ r.step \in {"join", "target", "setRole", "remove", "leave", "count", "delete", "rotate"}
         => Known(r.team, T)
    /\ r.step = "code" => r.op = "create" \/ (r.op = "rotate" /\ Known(r.team, T))
    /\ r.step \in {"create", "rotate"} => r.code \in Codes
    /\ r.step \in {"setRole", "remove"} => r.target \in Users /\ ~Owns(r.target, r.team, T)
    /\ r.step = "setRole" => r.role \in {"admin", "member"}
    /\ r.step = "leave" => ~Owns(r.user, r.team, T)

RequestsOK == \A q \in Requests : RequestOK(req[q], teams)

IInv == TypeOK /\ OneOwner /\ RequestsOK

\* Every existing team stays, with its owner as long as it lives.
Grows(T, S) ==
    \A t \in Teams : T[t].state # "none" =>
        /\ S[t].state # "none"
        /\ S[t].state = "live" => T[t].state = "live" /\ S[t].owner = T[t].owner

LEMMA Rows ==
    /\ Idle \in Request /\ Idle.step = "idle"
    /\ NoRow \in MemberRow /\ NoRow.team = Null /\ NoRow.role = Null
    /\ NoTeam \in TeamRow /\ NoTeam.state = "none"
  BY DEF Idle, Request, NoRow, MemberRow, NoTeam, TeamRow

\* What a request knows of the teams stays true whatever others do.
LEMMA KnowledgeStays ==
    ASSUME NEW r, NEW T, NEW S, RequestOK(r, T), Grows(T, S)
    PROVE  RequestOK(r, S)
  BY DEF RequestOK, Grows, Known, Owns

LEMMA InitIInv == Init => IInv
<1> SUFFICES ASSUME Init PROVE IInv
  OBVIOUS
<1>1. TypeOK
  BY Rows DEF Init, TypeOK
<1>2. OneOwner
  BY Rows, NullAssumption DEF Init, OneOwner, Live
<1>3. RequestsOK
  BY Rows DEF Init, RequestsOK, RequestOK
<1> QED
  BY <1>1, <1>2, <1>3 DEF IInv

\* A step of q, from its effect on the request and on the tables.
LEMMA StepIInv ==
    ASSUME IInv, NEW q \in Requests,
           NEW r \in Request, req' = [req EXCEPT ![q] = r], RequestOK(r, teams'),
           teams' \in [Teams -> TeamRow], member' \in [Users -> MemberRow],
           Grows(teams, teams'), OneOwner'
    PROVE  IInv'
<1>1. TypeOK'
  BY DEF IInv, TypeOK
<1>2. RequestsOK'
  <2> SUFFICES ASSUME NEW p \in Requests PROVE RequestOK(req'[p], teams')
    BY DEF RequestsOK
  <2>1. CASE p = q
    BY <2>1 DEF IInv, TypeOK
  <2>2. CASE p # q
    <3>1. req'[p] = req[p]
      BY <2>2 DEF IInv, TypeOK
    <3>2. RequestOK(req[p], teams)
      BY DEF IInv, RequestsOK
    <3> QED
      BY <3>1, <3>2, KnowledgeStays
  <2> QED
    BY <2>1, <2>2
<1> QED
  BY <1>1, <1>2 DEF IInv

LEMMA SameTables ==
    ASSUME IInv, UNCHANGED <<teams, member>>
    PROVE  /\ teams' \in [Teams -> TeamRow]
           /\ member' \in [Users -> MemberRow]
           /\ Grows(teams, teams')
           /\ OneOwner'
  BY DEF IInv, TypeOK, Grows, OneOwner, Live

LEMMA IdleOK == ASSUME NEW T PROVE RequestOK(Idle, T)
  BY Rows DEF RequestOK

\* The steps that only read.
LEMMA ReadsIInv ==
    ASSUME IInv, NEW q \in Requests, Step(q), UNCHANGED <<teams, member>>,
           ~InsertMember(q), ~SetRole(q), ~RemoveMember(q), ~Leave(q),
           ~RotateCode(q), ~DeleteTeam(q), \A t \in Teams : ~InsertTeam(q, t)
    PROVE  IInv'
<1>0. /\ req[q] \in Request
      /\ RequestOK(req[q], teams)
      /\ member \in [Users -> MemberRow]
      /\ teams \in [Teams -> TeamRow]
      /\ OneOwner
  BY DEF IInv, TypeOK, RequestsOK
<1> SUFFICES \E r \in Request : req' = [req EXCEPT ![q] = r] /\ RequestOK(r, teams)
  BY SameTables, StepIInv
<1>1. ASSUME Done(q)
      PROVE  \E r \in Request : req' = [req EXCEPT ![q] = r] /\ RequestOK(r, teams)
  BY <1>1, Rows, IdleOK DEF Done
<1>2. CASE \E u \in Users, op \in Operations : ReadContext(q, u, op)
  <2>1. PICK u \in Users, op \in Operations : ReadContext(q, u, op)
    BY <1>2
  <2> DEFINE c == Context(u)
             step == Permitted(op, c)
             r == [Idle EXCEPT !.step = step, !.op = op, !.user = u, !.team = c.team]
  <2>2. req' = [req EXCEPT ![q] = r] /\ step # "idle"
    BY <2>1 DEF ReadContext
  <2>3. c \in MemberRow
    BY <1>0, Rows DEF Context
  <2>4. \/ c.team = Null /\ c.role = Null
        \/ Known(c.team, teams) /\ c = member[u] /\ Live(c.team)
    <3>1. member[u].team \in Teams \cup {Null}
      BY <1>0 DEF MemberRow
    <3> QED
      BY <3>1, Rows DEF Context, Known, Live
  <2>5. c.role # "owner" /\ c.team # Null => ~Owns(u, c.team, teams)
    <3> SUFFICES ASSUME c.role # "owner", c.team # Null, Owns(u, c.team, teams)
                 PROVE  FALSE
      OBVIOUS
    <3>1. c.team \in Teams /\ c = member[u] /\ Live(c.team)
      BY <2>3, <2>4 DEF MemberRow
    <3>2. member[u] = [team |-> c.team, role |-> "owner"]
      BY <1>0, <3>1 DEF OneOwner, Owns
    <3> QED
      BY <3>1, <3>2
  <2>6. \/ op = "create" /\ step = "code"
        \/ op = "join" /\ step = "lookup"
        \/ op \in {"setRole", "remove"} /\ step = "target" /\ c.role # Null
        \/ op = "rotate" /\ step = "code" /\ c.role # Null
        \/ op = "leave" /\ c.team # Null
             /\ (step = "count" \/ (step = "leave" /\ c.role # "owner"))
    <3>1. "owner" # Null /\ "admin" # Null
      BY NullAssumption DEF Roles
    <3> HIDE DEF c
    <3> QED
      BY <2>2, <3>1 DEF Permitted, Operations, Managers
  <2>7. r \in Request /\ r.step = step /\ r.team = c.team /\ r.op = op /\ r.user = u
    <3>1. step \in {"code", "lookup", "target", "count", "leave"}
      BY <2>6
    <3>2. c.team \in Teams \cup {Null}
      BY <2>3 DEF MemberRow
    <3> HIDE DEF c, step
    <3>3. r.step = step /\ r.team = c.team /\ r.op = op /\ r.user = u
      BY Rows DEF Request
    <3>4. r \in Request
      BY <3>1, <3>2, Rows DEF Request
    <3> QED
      BY <3>3, <3>4
  <2>8. RequestOK(r, teams)
    BY <2>4, <2>5, <2>6, <2>7 DEF RequestOK
  <2> QED
    BY <2>2, <2>7, <2>8
<1>3. CASE FindCode(q)
  <2>1. PICK c \in Codes \ CodesInUse :
          req' = [req EXCEPT ![q].code = c,
                             ![q].step = IF req[q].op = "create" THEN "create" ELSE "rotate"]
    BY <1>3 DEF FindCode
  <2> DEFINE step == IF req[q].op = "create" THEN "create" ELSE "rotate"
             r == [req[q] EXCEPT !.code = c, !.step = step]
  <2>2. req[q].step = "code"
    BY <1>3 DEF FindCode
  <2>3. req' = [req EXCEPT ![q] = r]
    BY <1>0, <2>1 DEF Request
  <2>4. c \in Codes /\ step \in {"create", "rotate"}
    BY <2>1
  <2>5. r.step = step /\ r.code = c
          /\ r.team = req[q].team /\ r.op = req[q].op /\ r.user = req[q].user
    BY <1>0 DEF Request
  <2>6. r \in Request
    <3> HIDE DEF step
    <3> QED
      BY <1>0, <2>4 DEF Request
  <2>7. RequestOK(r, teams)
    BY <1>0, <2>2, <2>4, <2>5 DEF RequestOK
  <2> QED
    BY <2>3, <2>6, <2>7
<1>4. CASE LookUpCode(q)
  <2>1. ASSUME NEW t \in Teams, Live(t),
               req' = [req EXCEPT ![q].step = "join", ![q].team = t]
        PROVE  \E r \in Request : req' = [req EXCEPT ![q] = r] /\ RequestOK(r, teams)
    <3> DEFINE r == [req[q] EXCEPT !.step = "join", !.team = t]
    <3>1. req[q].step = "lookup"
      BY <1>4 DEF LookUpCode
    <3>2. r \in Request /\ r.step = "join" /\ r.team = t
            /\ r.op = req[q].op /\ r.user = req[q].user
      BY <1>0 DEF Request
    <3>3. RequestOK(r, teams)
      BY <1>0, <2>1, <3>1, <3>2 DEF RequestOK, Known, Live
    <3>4. req' = [req EXCEPT ![q] = r]
      BY <1>0, <2>1 DEF Request
    <3> QED
      BY <3>2, <3>3, <3>4
  <2> QED
    BY <1>1, <1>4, <2>1 DEF LookUpCode
<1>5. CASE ReadTarget(q)
  <2>1. req[q].step = "target"
    BY <1>5 DEF ReadTarget
  <2>2. ASSUME NEW v \in Targets(req[q].user, req[q].team), NEW role \in Roles \cup {Null},
               NEW step \in {"remove", "setRole"},
               step = "setRole" => role \in {"admin", "member"},
               req' = [req EXCEPT ![q] = [req[q] EXCEPT !.step = step, !.target = v, !.role = role]]
        PROVE  \E r \in Request : req' = [req EXCEPT ![q] = r] /\ RequestOK(r, teams)
    <3> DEFINE r == [req[q] EXCEPT !.step = step, !.target = v, !.role = role]
    <3>1. v \in Users /\ member[v].team = req[q].team /\ member[v].role # "owner"
      BY <2>2 DEF Targets
    <3>2. Known(req[q].team, teams)
      BY <1>0, <2>1 DEF RequestOK
    <3>3. ~Owns(v, req[q].team, teams)
      <4> SUFFICES ASSUME Owns(v, req[q].team, teams) PROVE FALSE
        OBVIOUS
      <4>1. member[v] = [team |-> req[q].team, role |-> "owner"]
        BY <1>0, <3>1, <3>2 DEF OneOwner, Owns, Live, Known
      <4> QED
        BY <3>1, <4>1
    <3>4. r \in Request /\ r.step = step /\ r.target = v /\ r.role = role
            /\ r.team = req[q].team /\ r.op = req[q].op /\ r.user = req[q].user
      <4>1. req[q] \in Request
        BY <1>0
      <4>2. r.step = step /\ r.target = v /\ r.role = role
              /\ r.team = req[q].team /\ r.op = req[q].op /\ r.user = req[q].user
        BY <4>1 DEF Request
      <4>3. r \in Request
        BY <2>2, <3>1, <4>1 DEF Request
      <4> QED
        BY <4>2, <4>3
    <3>5. RequestOK(r, teams)
      BY <1>0, <2>1, <2>2, <3>1, <3>2, <3>3, <3>4 DEF RequestOK
    <3> QED
      BY <2>2, <3>4, <3>5
  <2>3. ASSUME NEW v \in Targets(req[q].user, req[q].team),
               req' = [req EXCEPT ![q].step = "remove", ![q].target = v]
        PROVE  \E r \in Request : req' = [req EXCEPT ![q] = r] /\ RequestOK(r, teams)
    <3>1. req[q].role \in Roles \cup {Null}
      BY <1>0 DEF Request
    <3>2. req' = [req EXCEPT ![q] = [req[q] EXCEPT !.step = "remove", !.target = v,
                                                    !.role = req[q].role]]
      BY <1>0, <2>3 DEF Request
    <3> QED
      BY <2>2, <3>1, <3>2
  <2>4. ASSUME NEW v \in Targets(req[q].user, req[q].team), NEW role \in {"admin", "member"},
               req' = [req EXCEPT ![q].step = "setRole", ![q].target = v, ![q].role = role]
        PROVE  \E r \in Request : req' = [req EXCEPT ![q] = r] /\ RequestOK(r, teams)
    <3>1. role \in Roles \cup {Null}
      BY DEF Roles
    <3>2. req' = [req EXCEPT ![q] = [req[q] EXCEPT !.step = "setRole", !.target = v,
                                                    !.role = role]]
      BY <1>0, <2>4 DEF Request
    <3> QED
      BY <2>2, <3>1, <3>2
  <2> QED
    BY <1>1, <1>5, <2>3, <2>4 DEF ReadTarget, AssignableRoles
<1>6. CASE CountMembers(q)
  <2> DEFINE r == [req[q] EXCEPT !.step = "delete"]
  <2>1. req[q].step = "count"
    BY <1>6 DEF CountMembers
  <2>2. r \in Request /\ r.step = "delete" /\ r.team = req[q].team
          /\ r.op = req[q].op /\ r.user = req[q].user
    BY <1>0 DEF Request
  <2>3. RequestOK(r, teams)
    BY <1>0, <2>1, <2>2 DEF RequestOK
  <2>4. Done(q) \/ req' = [req EXCEPT ![q] = r]
    BY <1>0, <1>6 DEF CountMembers, Goto, Request
  <2> QED
    BY <1>1, <2>2, <2>3, <2>4
<1>7. CASE Fail(q)
  BY <1>1, <1>7 DEF Fail
<1> QED
  BY <1>2, <1>3, <1>4, <1>5, <1>6, <1>7 DEF Step

\* The steps that write.
LEMMA WritesIInv ==
    ASSUME IInv, NEW q \in Requests,
           \/ InsertMember(q) \/ SetRole(q) \/ RemoveMember(q) \/ Leave(q)
           \/ RotateCode(q) \/ DeleteTeam(q) \/ \E t \in Teams : InsertTeam(q, t)
    PROVE  IInv'
<1>0. /\ req[q] \in Request
      /\ RequestOK(req[q], teams)
      /\ member \in [Users -> MemberRow]
      /\ teams \in [Teams -> TeamRow]
      /\ OneOwner
  BY DEF IInv, TypeOK, RequestsOK
<1>1. Done(q)
  BY DEF InsertMember, SetRole, RemoveMember, Leave, RotateCode, DeleteTeam, InsertTeam
<1> SUFFICES /\ teams' \in [Teams -> TeamRow]
             /\ member' \in [Users -> MemberRow]
             /\ Grows(teams, teams')
             /\ OneOwner'
  BY <1>1, Rows, IdleOK, StepIInv DEF Done
<1>2. "owner" # Null /\ "admin" # "owner" /\ "member" # "owner"
  BY NullAssumption DEF Roles
\* One row replaced, neither before nor after an owner's.
<1>3. ASSUME NEW v \in Users, NEW row \in MemberRow, row.role # "owner",
             \A t \in Teams : member[v] # [team |-> t, role |-> "owner"],
             member' = [member EXCEPT ![v] = row], UNCHANGED teams
      PROVE  /\ teams' \in [Teams -> TeamRow]
             /\ member' \in [Users -> MemberRow]
             /\ Grows(teams, teams')
             /\ OneOwner'
  BY <1>0, <1>3 DEF Grows, OneOwner, Live
\* The owner of a team that lives is the one whose row says so.
<1>4. ASSUME NEW v \in Users, NEW t \in Teams, member[v].team = t, ~Owns(v, t, teams)
      PROVE  \A s \in Teams : member[v] # [team |-> s, role |-> "owner"]
  BY <1>0, <1>4 DEF OneOwner, Owns, Live
<1>5. ASSUME NEW v \in Users, Known(req[q].team, teams), ~Owns(v, req[q].team, teams),
             member' = DeleteRow(v, req[q].team), UNCHANGED teams
      PROVE  /\ teams' \in [Teams -> TeamRow]
             /\ member' \in [Users -> MemberRow]
             /\ Grows(teams, teams')
             /\ OneOwner'
  <2>1. CASE member[v].team = req[q].team
    <3>1. \A s \in Teams : member[v] # [team |-> s, role |-> "owner"]
      BY <1>4, <1>5, <2>1 DEF Known
    <3> QED
      BY <1>2, <1>3, <1>5, <2>1, <3>1, Rows DEF DeleteRow
  <2>2. CASE member[v].team # req[q].team
    BY <1>5, <2>2, SameTables DEF DeleteRow
  <2> QED
    BY <2>1, <2>2
<1>6. CASE InsertMember(q)
  <2> DEFINE u == req[q].user
             row == [team |-> req[q].team, role |-> "member"]
  <2>1. u \in Users /\ req[q].team \in Teams
    BY <1>0, <1>6 DEF InsertMember, RequestOK, Known
  <2>2. row \in MemberRow /\ row.role # "owner"
    BY <1>2, <2>1 DEF MemberRow, Roles
  <2>3. \A t \in Teams : member[u] # [team |-> t, role |-> "owner"]
    BY <1>2, <1>6, Rows DEF InsertMember
  <2> QED
    BY <1>3, <1>6, <2>1, <2>2, <2>3 DEF InsertMember
<1>7. CASE SetRole(q)
  <2> DEFINE v == req[q].target
             row == [member[v] EXCEPT !.role = req[q].role]
  <2>1. /\ v \in Users /\ Known(req[q].team, teams)
        /\ ~Owns(v, req[q].team, teams) /\ req[q].role \in {"admin", "member"}
    BY <1>0, <1>7 DEF SetRole, RequestOK
  <2>2. CASE member[v].team = req[q].team
    <3>1. \A s \in Teams : member[v] # [team |-> s, role |-> "owner"]
      BY <1>4, <2>1, <2>2 DEF Known
    <3>2. row \in MemberRow /\ row.role # "owner"
      BY <1>0, <1>2, <2>1 DEF MemberRow, Roles
    <3>3. member' = [member EXCEPT ![v] = row] /\ UNCHANGED teams
      BY <1>0, <1>7, <2>1, <2>2 DEF SetRole
    <3> QED
      BY <1>3, <2>1, <3>1, <3>2, <3>3
  <2>3. CASE member[v].team # req[q].team
    BY <1>7, <2>3, SameTables DEF SetRole
  <2> QED
    BY <2>2, <2>3
<1>8. CASE RemoveMember(q)
  <2>1. /\ req[q].target \in Users /\ Known(req[q].team, teams)
        /\ ~Owns(req[q].target, req[q].team, teams)
    BY <1>0, <1>8 DEF RemoveMember, RequestOK
  <2> QED
    BY <1>5, <1>8, <2>1 DEF RemoveMember
<1>9. CASE Leave(q)
  <2>1. /\ req[q].user \in Users /\ Known(req[q].team, teams)
        /\ ~Owns(req[q].user, req[q].team, teams)
    BY <1>0, <1>9 DEF Leave, RequestOK
  <2> QED
    BY <1>5, <1>9, <2>1 DEF Leave
<1>10. CASE RotateCode(q)
  <2> DEFINE t == req[q].team
  <2>1. t \in Teams /\ req[q].code \in Codes
    BY <1>0, <1>10 DEF RotateCode, RequestOK, Known
  <2>2. CASE Live(t)
    <3>1. teams' = [teams EXCEPT ![t] = [teams[t] EXCEPT !.code = req[q].code]]
      BY <1>0, <1>10, <2>1, <2>2 DEF RotateCode
    <3>2. teams' \in [Teams -> TeamRow]
      BY <1>0, <2>1, <3>1 DEF TeamRow
    <3>3. \A s \in Teams : teams'[s].state = teams[s].state /\ teams'[s].owner = teams[s].owner
      BY <1>0, <2>1, <3>1 DEF TeamRow
    <3> QED
      BY <1>0, <1>10, <3>2, <3>3 DEF RotateCode, Grows, OneOwner, Live
  <2>3. CASE ~Live(t)
    BY <1>10, <2>3, SameTables DEF RotateCode
  <2> QED
    BY <2>2, <2>3
<1>11. CASE DeleteTeam(q)
  <2> DEFINE t == req[q].team
             row == [NoTeam EXCEPT !.state = "deleted"]
  <2>1. t \in Teams /\ teams[t].state # "none"
    BY <1>0, <1>11 DEF DeleteTeam, RequestOK, Known
  <2>2. row \in TeamRow /\ row.state = "deleted"
    BY Rows DEF TeamRow
  <2>3. teams' = [teams EXCEPT ![t] = row]
        /\ member' = [u \in Users |-> IF member[u].team = t THEN NoRow ELSE member[u]]
    BY <1>11 DEF DeleteTeam, RowsDeleted
  <2>4. teams' \in [Teams -> TeamRow] /\ member' \in [Users -> MemberRow]
    BY <1>0, <2>2, <2>3, Rows
  <2>5. Grows(teams, teams')
    BY <1>0, <2>1, <2>2, <2>3 DEF Grows
  <2>6. OneOwner'
    <3> SUFFICES ASSUME NEW s \in Teams, NEW u \in Users
                 PROVE  member'[u] = [team |-> s, role |-> "owner"]
                          <=> teams'[s].state = "live" /\ teams'[s].owner = u
      BY DEF OneOwner, Live
    <3>1. NoRow # [team |-> s, role |-> "owner"]
      BY <1>2, Rows
    <3>2. CASE s = t
      BY <1>0, <2>1, <2>2, <2>3, <3>1, <3>2
    <3>3. CASE s # t
      BY <1>0, <2>1, <2>3, <3>1, <3>3 DEF OneOwner, Live
    <3> QED
      BY <3>2, <3>3
  <2> QED
    BY <2>4, <2>5, <2>6
<1>12. ASSUME NEW t \in Teams, InsertTeam(q, t)
       PROVE  /\ teams' \in [Teams -> TeamRow]
              /\ member' \in [Users -> MemberRow]
              /\ Grows(teams, teams')
              /\ OneOwner'
  <2> DEFINE u == req[q].user
             row == [state |-> "live", owner |-> u, code |-> req[q].code]
             owner == [team |-> t, role |-> "owner"]
  <2>1. u \in Users /\ req[q].code \in Codes
    BY <1>0, <1>12 DEF InsertTeam, RequestOK
  <2>2. row \in TeamRow /\ owner \in MemberRow
    BY <2>1 DEF TeamRow, MemberRow, Roles
  <2>3. /\ teams' = [teams EXCEPT ![t] = row] /\ member' = [member EXCEPT ![u] = owner]
        /\ teams[t].state = "none" /\ member[u] = NoRow
    BY <1>12 DEF InsertTeam
  <2>4. teams' \in [Teams -> TeamRow] /\ member' \in [Users -> MemberRow]
    BY <1>0, <2>2, <2>3
  <2>5. Grows(teams, teams')
    BY <1>0, <2>3 DEF Grows
  <2>6. OneOwner'
    <3> SUFFICES ASSUME NEW s \in Teams, NEW v \in Users
                 PROVE  member'[v] = [team |-> s, role |-> "owner"]
                          <=> teams'[s].state = "live" /\ teams'[s].owner = v
      BY DEF OneOwner, Live
    <3>1. NoRow # [team |-> s, role |-> "owner"]
      BY <1>2, Rows
    <3>2. member[v] = [team |-> s, role |-> "owner"]
            <=> teams[s].state = "live" /\ teams[s].owner = v
      BY <1>0 DEF OneOwner, Live
    <3>3. CASE s = t /\ v = u
      BY <1>0, <2>1, <2>3, <3>3
    <3>4. CASE s # t
      BY <1>0, <2>1, <2>3, <3>1, <3>2, <3>4
    <3>5. CASE s = t /\ v # u
      BY <1>0, <2>1, <2>3, <3>2, <3>5
    <3> QED
      BY <3>3, <3>4, <3>5
  <2> QED
    BY <2>4, <2>5, <2>6
<1> QED
  BY <1>6, <1>7, <1>8, <1>9, <1>10, <1>11, <1>12

LEMMA NextIInv == IInv /\ [Next]_vars => IInv'
<1> SUFFICES ASSUME IInv, [Next]_vars PROVE IInv'
  OBVIOUS
<1>1. CASE UNCHANGED vars
  BY <1>1 DEF vars, IInv, TypeOK, OneOwner, Live, RequestsOK
<1>2. ASSUME NEW q \in Requests, Step(q)
      PROVE  IInv'
  <2> DEFINE Writes == \/ InsertMember(q) \/ SetRole(q) \/ RemoveMember(q) \/ Leave(q)
                       \/ RotateCode(q) \/ DeleteTeam(q) \/ \E t \in Teams : InsertTeam(q, t)
  <2>1. CASE Writes
    BY <2>1, WritesIInv
  <2>2. CASE ~Writes
    <3>1. UNCHANGED <<teams, member>>
      BY <1>2, <2>2 DEF Step, ReadContext, FindCode, LookUpCode, ReadTarget,
                        CountMembers, Fail
    <3> QED
      BY <1>2, <2>2, <3>1, ReadsIInv
  <2> QED
    BY <2>1, <2>2
<1> QED
  BY <1>1, <1>2 DEF Next

THEOREM Invariance == Spec => []IInv
  BY InitIInv, NextIInv, PTL DEF Spec

\* Rows and requests keep their shape.
THEOREM TypeCorrect == Spec => []TypeOK
<1>1. IInv => TypeOK
  BY DEF IInv
<1> QED
  BY <1>1, Invariance, PTL

\* However the requests of any number of users interleave, a team that lives has
\* exactly one owner, the one its row names.
THEOREM Owner == Spec => []OneOwner
<1>1. IInv => OneOwner
  BY DEF IInv
<1> QED
  BY <1>1, Invariance, PTL

\* Only a join that looked the team up before its deletion leaves a member
\* without a team.
THEOREM Orphans == Spec => OrphansComeFromLateJoins
<1> DEFINE Late == \A u \in Users : Orphan(u)' /\ ~Orphan(u) =>
                      \E q \in Requests : req[q].step = "join" /\ req[q].user = u
                                          /\ req[q].team = member'[u].team
<1>1. IInv /\ [Next]_vars => [Late]_vars
  <2> SUFFICES ASSUME IInv, NEW q \in Requests, Step(q), NEW u \in Users,
                      Orphan(u)', ~Orphan(u)
               PROVE  \E p \in Requests : req[p].step = "join" /\ req[p].user = u
                                          /\ req[p].team = member'[u].team
    BY DEF Next
  <2>0. /\ req[q] \in Request
        /\ RequestOK(req[q], teams)
        /\ member \in [Users -> MemberRow]
        /\ teams \in [Teams -> TeamRow]
    BY DEF IInv, TypeOK, RequestsOK
  <2>1. \/ member'[u].team # member[u].team
        \/ \E t \in Teams : Live(t) /\ ~Live(t)' /\ member'[u].team = t
    BY <2>0 DEF Orphan, Live, MemberRow
  <2>2. CASE InsertMember(q)
    <3>1. req[q].user \in Users /\ req[q].step = "join" /\ UNCHANGED teams
      BY <2>0, <2>2 DEF InsertMember, RequestOK
    <3>2. u = req[q].user
      BY <2>0, <2>1, <2>2, <3>1 DEF InsertMember, Live
    <3>3. member'[u].team = req[q].team
      BY <2>0, <2>2, <3>2 DEF InsertMember
    <3> QED
      BY <3>1, <3>2, <3>3
  <2>3. CASE DeleteTeam(q)
    <3>1. req[q].team \in Teams
      BY <2>0, <2>3 DEF DeleteTeam, RequestOK, Known
    <3>2. \/ member'[u] = NoRow
          \/ member'[u] = member[u] /\ member[u].team # req[q].team
      <4>1. member' = [v \in Users |-> IF member[v].team = req[q].team THEN NoRow ELSE member[v]]
        BY <2>3 DEF DeleteTeam, RowsDeleted
      <4> QED
        BY <4>1
    <3>3. member'[u] # NoRow
      BY Rows DEF Orphan
    <3>4. \A t \in Teams : t # req[q].team => teams'[t] = teams[t]
      BY <2>0, <2>3, <3>1 DEF DeleteTeam
    <3> QED
      BY <2>1, <3>2, <3>3, <3>4 DEF Live
  <2>4. ASSUME NEW t \in Teams, InsertTeam(q, t)
        PROVE  FALSE
    <3>1. req[q].user \in Users
      BY <2>0, <2>4 DEF InsertTeam, RequestOK
    <3>2. /\ teams'[t].state = "live"
          /\ \A s \in Teams : s # t => teams'[s] = teams[s]
          /\ member'[u].team = t \/ member'[u] = member[u]
      BY <2>0, <2>4, <3>1 DEF InsertTeam
    <3> QED
      BY <2>1, <3>2 DEF Orphan, Live
  <2>5. CASE RotateCode(q)
    BY <2>0, <2>1, <2>5 DEF RotateCode, Live, TeamRow
  <2>6. CASE SetRole(q)
    BY <2>0, <2>1, <2>6 DEF SetRole, Live, MemberRow
  <2>7. CASE RemoveMember(q) \/ Leave(q)
    BY <2>0, <2>1, <2>7, Rows DEF RemoveMember, Leave, DeleteRow, Orphan, Live
  <2>8. CASE UNCHANGED <<teams, member>>
    BY <2>1, <2>8 DEF Live
  <2> QED
    BY <2>2, <2>3, <2>4, <2>5, <2>6, <2>7, <2>8
       DEF Step, ReadContext, FindCode, LookUpCode, ReadTarget, CountMembers, Fail
<1> QED
  BY <1>1, Invariance, PTL DEF Spec, OrphansComeFromLateJoins
=============================================================================
