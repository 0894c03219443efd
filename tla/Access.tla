------------------------------- MODULE Access -------------------------------
(***************************************************************************)
(* Who works with the program: the user table (services/auth), the session *)
(* the main process keeps (services/session, the auth:* handlers) and what *)
(* the window shows of it (App, LoginScreen, UsersTab, SettingsPage).      *)
(*                                                                         *)
(* The window reads the session once when it opens and then keeps the      *)
(* answer of every login, lock and logout; saving the settings does not    *)
(* read it again.  A password is abstracted to whether one is set.         *)
(***************************************************************************)
EXTENDS Naturals, FiniteSets

CONSTANTS
    Users,      \* ids user rows may have; the smallest is the seeded admin
    NoUser

ASSUME UsersGiven == Users \subseteq Nat /\ Users # {} /\ NoUser \notin Users

VARIABLES
    user,       \* the user table
    setting,    \* require_login, idle_lock_minutes
    session,    \* services/session state: userId, locked
    shown       \* App's session, or not loaded yet

vars == <<user, setting, session, shown>>

Roles == {"admin", "clerk", "viewer"}
Absent == [role |-> "none", active |-> FALSE, password |-> FALSE]
First(S) == CHOOSE u \in S : \A v \in S : u <= v
Rows == {u \in Users : user[u] # Absent}
ActiveAdmins == {u \in Rows : user[u].role = "admin" /\ user[u].active}

NotLoaded == [loaded |-> FALSE, user |-> NoUser, role |-> "none", authenticated |-> FALSE,
              required |-> FALSE, minutes |-> 0]

\* the tables, the session and the window's copy hold what they may
TypeOK ==
    /\ user \in [Users -> [role : Roles, active : BOOLEAN, password : BOOLEAN] \cup {Absent}]
    /\ setting \in [required : BOOLEAN, minutes : 0 .. 1]
    /\ session \in [userId : Users \cup {NoUser}, locked : BOOLEAN]
    /\ shown \in [loaded : BOOLEAN, user : Users \cup {NoUser}, role : Roles \cup {"none"},
                  authenticated : BOOLEAN,
                  required : BOOLEAN, minutes : 0 .. 1]

Init ==
    /\ user = [u \in Users |-> IF u = First(Users)
                               THEN [role |-> "admin", active |-> TRUE, password |-> FALSE]
                               ELSE Absent]
    /\ setting = [required |-> FALSE, minutes |-> 0]
    /\ session = [userId |-> NoUser, locked |-> FALSE]
    /\ shown = NotLoaded

-----------------------------------------------------------------------------
(* services/session.                                                       *)

\* the first active admin, else the first active user, else the first
DefaultUser ==
    IF ActiveAdmins # {} THEN First(ActiveAdmins)
    ELSE IF \E u \in Rows : user[u].active THEN First({u \in Rows : user[u].active})
    ELSE First(Rows)

ResolveUser == IF setting.required THEN session.userId ELSE DefaultUser

\* currentUser: who signs what is written now; nothing is written without one
Signed == ResolveUser # NoUser
ByAdmin == Signed /\ user[ResolveUser].role = "admin"

Dto(resolved, locked) ==
    [loaded |-> TRUE, user |-> resolved, required |-> setting.required,
     role |-> IF resolved = NoUser THEN "none" ELSE user[resolved].role,
     minutes |-> setting.minutes,
     authenticated |-> resolved # NoUser /\ ~(setting.required /\ locked)]

\* mutant: a login leaves the lock
SetCurrentUser_StaysLocked(u) ==
    /\ session' = [session EXCEPT !.userId = u]
    /\ shown' = Dto(IF setting.required THEN u ELSE DefaultUser, FALSE)

\* setCurrentUser, and the answer the window keeps
SetCurrentUser(u) ==
    /\ session' = [userId |-> u, locked |-> FALSE]
    /\ shown' = Dto(IF setting.required THEN u ELSE DefaultUser, FALSE)

-----------------------------------------------------------------------------
(* The window.                                                             *)

LoginShown == shown.loaded /\ shown.required /\ ~shown.authenticated
AppShown == ~LoginShown

\* the main process starts anew with the program
Start ==
    /\ session' = [userId |-> NoUser, locked |-> FALSE]
    /\ shown' = NotLoaded
    /\ UNCHANGED <<user, setting>>

LoadSession ==
    /\ ~shown.loaded
    /\ shown' = Dto(ResolveUser, session.locked)
    /\ UNCHANGED <<user, setting, session>>

\* a locked screen asks for the password of the user it was locked by
MayType(u) == LoginShown /\ u \in Rows /\ shown.user \in {NoUser, u}

\* login with the right password
Login ==
    \E u \in Users :
        /\ MayType(u) /\ user[u].active /\ user[u].password
        /\ SetCurrentUser(u)
        /\ UNCHANGED <<user, setting>>

\* a user without a password is asked to choose one
SetInitialPassword ==
    \E u \in Users :
        /\ MayType(u) /\ user[u].active /\ ~user[u].password
        /\ user' = [user EXCEPT ![u].password = TRUE]
        /\ SetCurrentUser(u)
        /\ UNCHANGED setting

Logout ==
    /\ shown.loaded /\ AppShown /\ shown.required
    /\ SetCurrentUser(NoUser)
    /\ UNCHANGED <<user, setting>>

Lock ==
    /\ session' = [session EXCEPT !.locked = TRUE]
    /\ shown' = Dto(ResolveUser, TRUE)
    /\ UNCHANGED <<user, setting>>

LockButton == shown.loaded /\ AppShown /\ shown.required /\ Lock

IdleTimer == shown.required /\ shown.authenticated /\ shown.minutes > 0 /\ Lock

-----------------------------------------------------------------------------
(* services/auth from the users' tab, and the settings page.  The tab shows *)
(* its buttons by the window's session, the handler looks at its own.      *)

TabForAdmin == shown.loaded /\ AppShown /\ shown.role = "admin"

CreateUser ==
    \E u \in Users \ Rows, role \in Roles :
        /\ TabForAdmin /\ ByAdmin
        /\ user' = [user EXCEPT ![u] = [role |-> role, active |-> TRUE, password |-> TRUE]]
        /\ UNCHANGED <<setting, session, shown>>

\* mutant: an admin who was deactivated is counted
AnotherAdmin_InactiveToo(u) ==
    user[u].role = "admin" => \E v \in Rows \ {u} : user[v].role = "admin"

\* updateUser: an admin loses the role or is deactivated only when another
\* active admin is left
AnotherAdmin(u) == user[u].role = "admin" => ActiveAdmins \ {u} # {}

ChangeRole ==
    \E u \in Rows, role \in Roles :
        /\ TabForAdmin /\ ByAdmin /\ role # user[u].role
        /\ AnotherAdmin(u)
        /\ user' = [user EXCEPT ![u].role = role]
        /\ UNCHANGED <<setting, session, shown>>

ToggleActive ==
    \E u \in Rows :
        /\ TabForAdmin /\ ByAdmin
        /\ user[u].active => AnotherAdmin(u)
        /\ user' = [user EXCEPT ![u].active = ~@]
        /\ UNCHANGED <<setting, session, shown>>

ResetPassword ==
    \E u \in Rows :
        /\ TabForAdmin /\ ByAdmin
        /\ user' = [user EXCEPT ![u].password = TRUE]
        /\ UNCHANGED <<setting, session, shown>>

ChangeOwnPassword ==
    /\ shown.loaded /\ AppShown /\ Signed
    /\ user' = [user EXCEPT ![ResolveUser].password = TRUE]
    /\ UNCHANGED <<setting, session, shown>>

SaveSettings ==
    \E s \in [required : BOOLEAN, minutes : 0 .. 1] :
        /\ shown.loaded /\ AppShown /\ ByAdmin /\ s # setting
        /\ setting' = s
        /\ UNCHANGED <<user, session, shown>>

Next ==
    \/ Start \/ LoadSession \/ Login \/ SetInitialPassword \/ Logout
    \/ LockButton \/ IdleTimer
    \/ CreateUser \/ ChangeRole \/ ToggleActive \/ ResetPassword \/ ChangeOwnPassword
    \/ SaveSettings

Spec == Init /\ [][Next]_vars

-----------------------------------------------------------------------------
(* Properties.                                                             *)

\* The installation is never locked out of itself: through any changes of
\* roles and any deactivations by several admins, an active admin is left, and
\* it is an active admin who works when no login is required
AdminRemains ==
    /\ ActiveAdmins # {}
    /\ ~setting.required => ResolveUser \in ActiveAdmins

\* What the window shows and who signs agree: while login is required as it was
\* when the window read the session, the program is shown only to the user who
\* signs what is written, and what is locked stays behind the login screen
ShownIsSigned ==
    shown.loaded /\ shown.required = setting.required =>
        /\ setting.required /\ AppShown =>
              Signed /\ shown.user = ResolveUser /\ ~session.locked
        /\ ~setting.required => AppShown /\ Signed

=============================================================================
