---------------------------- MODULE AccessProofs ----------------------------
(***************************************************************************)
(* Theorems about Access, for every set of users: the installation always  *)
(* has an active admin, and it is one who works when no login is required; *)
(* and what the window shows is the work of the user who signs it.         *)
(***************************************************************************)
EXTENDS Access, WellFoundedInduction, TLAPS

\* A user table of the right type with an active admin.
UserRow == [role : Roles, active : BOOLEAN, password : BOOLEAN]
TableOK == user \in [Users -> UserRow \cup {Absent}]

\* The inductive invariant.  AdminRemains alone is not inductive: the one who changes the
\* password of his own row must have a row, and the session names users of the table only
\* because no row is ever removed.
IInv ==
    /\ TableOK
    /\ ActiveAdmins # {}
    /\ session.userId \in Rows \cup {NoUser}

-----------------------------------------------------------------------------

LEMMA AbsentIsNoRow == Absent \notin UserRow
  BY DEF Absent, UserRow, Roles

\* A set of ids has a smallest one, which First takes.
LEMMA FirstIsMember ==
    ASSUME NEW S \in SUBSET Users, S # {}
    PROVE  First(S) \in S
<1>1. S \subseteq Nat
  BY UsersGiven
<1>2. PICK u \in S : \A v \in S : <<v, u>> \notin OpToRel(<, Nat)
  BY <1>1, NatLessThanWellFounded, WFMin
<1>3. \A v \in S : ~(v < u)
  <2>1. TAKE v \in S
  <2>2. <<v, u>> \in Nat \X Nat /\ <<v, u>>[1] = v /\ <<v, u>>[2] = u
    BY <1>1
  <2>3. <<v, u>> \in OpToRel(<, Nat) <=> v < u
    BY <2>2 DEF OpToRel
  <2>4. QED
    BY <1>2, <2>3
<1>4. \A v \in S : u <= v
  BY <1>1, <1>3
<1>5. QED
  BY <1>4 DEF First

LEMMA InvariantStarts == Init => IInv
<1>1. SUFFICES ASSUME Init PROVE IInv
  OBVIOUS
<1>2. First(Users) \in Users
  BY FirstIsMember, UsersGiven
<1>3. TableOK
  BY <1>1, <1>2 DEF Init, TableOK, UserRow, Roles
<1>4. First(Users) \in ActiveAdmins
  BY <1>1, <1>2 DEF Init, ActiveAdmins, Rows, Absent
<1>5. session.userId = NoUser
  BY <1>1 DEF Init
<1>6. QED
  BY <1>3, <1>4, <1>5 DEF IInv

\* The user table is changed in one row: an admin is left if the row is still an active
\* admin's, or was none, or another active admin has one.
LEMMA RowWritten ==
    ASSUME IInv, NEW u \in Users, NEW row \in UserRow,
           session'.userId \in {session.userId, u},
           user' = [user EXCEPT ![u] = row],
           \/ u \notin ActiveAdmins
           \/ row.role = "admin" /\ row.active
           \/ ActiveAdmins \ {u} # {}
    PROVE  IInv'
<1>1. TableOK'
  BY DEF IInv, TableOK
<1>2. user'[u] = row /\ \A v \in Users \ {u} : user'[v] = user[v]
  BY DEF IInv, TableOK
<1>3. \A v \in ActiveAdmins \ {u} : v \in ActiveAdmins'
  BY <1>2 DEF ActiveAdmins, Rows
<1>4. row.role = "admin" /\ row.active => u \in ActiveAdmins'
  BY <1>2, AbsentIsNoRow DEF ActiveAdmins, Rows
<1>5. ActiveAdmins' # {}
  BY <1>3, <1>4 DEF IInv
<1>6. session'.userId \in Rows' \cup {NoUser}
  BY <1>2, AbsentIsNoRow DEF IInv, Rows
<1>7. QED
  BY <1>1, <1>5, <1>6 DEF IInv

\* Without a login the first active admin works, and with one a user who has a row.
LEMMA AdminWorks == IInv => AdminRemains /\ ResolveUser \in Rows \cup {NoUser}
<1>1. SUFFICES ASSUME IInv PROVE AdminRemains /\ ResolveUser \in Rows \cup {NoUser}
  OBVIOUS
<1>2. First(ActiveAdmins) \in ActiveAdmins
  BY <1>1, FirstIsMember DEF IInv, ActiveAdmins, Rows
<1>3. ActiveAdmins \subseteq Rows
  BY DEF ActiveAdmins
<1>4. QED
  BY <1>1, <1>2, <1>3 DEF AdminRemains, IInv, ResolveUser, DefaultUser

LEMMA SignsIn == \A u : SetCurrentUser(u) => session'.userId = u
  BY DEF SetCurrentUser

LEMMA InvariantStays == IInv /\ [Next]_vars => IInv'
<1>1. SUFFICES ASSUME IInv, [Next]_vars PROVE IInv'
  OBVIOUS
<1>2. \A u \in Rows : u \in Users /\ user[u] \in UserRow
  BY <1>1 DEF IInv, TableOK, Rows
<1>3. ASSUME UNCHANGED user, session'.userId \in Rows \cup {NoUser, session.userId}
      PROVE  IInv'
  BY <1>1, <1>3 DEF IInv, TableOK, ActiveAdmins, Rows
<1>4. CASE SetInitialPassword
  <2>1. PICK u \in Rows : user' = [user EXCEPT ![u].password = TRUE] /\ SetCurrentUser(u)
    BY <1>4 DEF SetInitialPassword, MayType
  <2>2. QED
    BY <1>1, <1>2, <2>1, SignsIn, RowWritten DEF UserRow, ActiveAdmins
<1>5. CASE CreateUser
  <2>1. PICK u \in Users \ Rows, role \in Roles :
            user' = [user EXCEPT ![u] = [role |-> role, active |-> TRUE, password |-> TRUE]]
    BY <1>5 DEF CreateUser
  <2>0. UNCHANGED session
    BY <1>5 DEF CreateUser
  <2>2. u \notin ActiveAdmins
    BY <2>1 DEF ActiveAdmins
  <2>3. [role |-> role, active |-> TRUE, password |-> TRUE] \in UserRow
    BY <2>1 DEF UserRow
  <2>4. QED
    BY <1>1, <2>0, <2>1, <2>2, <2>3, RowWritten
<1>6. CASE ChangeRole
  <2>1. PICK u \in Rows, role \in Roles :
            AnotherAdmin(u) /\ user' = [user EXCEPT ![u].role = role]
    BY <1>6 DEF ChangeRole
  <2>0. UNCHANGED session
    BY <1>6 DEF ChangeRole
  <2>2. [user[u] EXCEPT !.role = role] \in UserRow
    BY <1>2, <2>1 DEF UserRow
  <2>3. u \notin ActiveAdmins \/ ActiveAdmins \ {u} # {}
    BY <2>1 DEF AnotherAdmin, ActiveAdmins
  <2>4. QED
    BY <1>1, <1>2, <2>0, <2>1, <2>2, <2>3, RowWritten
<1>7. CASE ToggleActive
  <2>1. PICK u \in Rows :
            /\ user[u].active => AnotherAdmin(u)
            /\ user' = [user EXCEPT ![u].active = ~@]
    BY <1>7 DEF ToggleActive
  <2>0. UNCHANGED session
    BY <1>7 DEF ToggleActive
  <2>2. [user[u] EXCEPT !.active = ~user[u].active] \in UserRow
    BY <1>2, <2>1 DEF UserRow
  <2>3. u \notin ActiveAdmins \/ ActiveAdmins \ {u} # {}
    BY <2>1 DEF AnotherAdmin, ActiveAdmins
  <2>4. QED
    BY <1>1, <1>2, <2>0, <2>1, <2>2, <2>3, RowWritten
<1>8. CASE ResetPassword
  <2>1. PICK u \in Rows : user' = [user EXCEPT ![u].password = TRUE]
    BY <1>8 DEF ResetPassword
  <2>0. UNCHANGED session
    BY <1>8 DEF ResetPassword
  <2>2. QED
    BY <1>1, <1>2, <2>0, <2>1, RowWritten DEF UserRow, ActiveAdmins
<1>9. CASE ChangeOwnPassword
  <2>1. user' = [user EXCEPT ![ResolveUser].password = TRUE]
    BY <1>9 DEF ChangeOwnPassword
  <2>0. UNCHANGED session
    BY <1>9 DEF ChangeOwnPassword
  <2>2. ResolveUser \in Rows
    BY <1>1, <1>9, AdminWorks DEF ChangeOwnPassword, Signed
  <2>3. QED
    BY <1>1, <1>2, <2>0, <2>1, <2>2, RowWritten DEF UserRow, ActiveAdmins
<1>10. CASE Start \/ Logout
  <2>1. UNCHANGED user /\ session'.userId = NoUser
    BY <1>10, SignsIn DEF Start, Logout
  <2>2. QED
    BY <1>3, <2>1
<1>11. CASE Login
  <2>1. UNCHANGED user /\ session'.userId \in Rows
    BY <1>11, SignsIn DEF Login, MayType
  <2>2. QED
    BY <1>3, <2>1
<1>12. CASE LockButton \/ IdleTimer
  <2>1. UNCHANGED user /\ session' = [session EXCEPT !.locked = TRUE]
    BY <1>12 DEF LockButton, IdleTimer, Lock
  <2>2. session'.userId = session.userId
    BY <2>1
  <2>3. QED
    BY <1>3, <2>1, <2>2
<1>13. CASE LoadSession \/ SaveSettings \/ UNCHANGED vars
  BY <1>3, <1>13 DEF LoadSession, SaveSettings, vars
<1>14. QED
  BY <1>1, <1>4, <1>5, <1>6, <1>7, <1>8, <1>9, <1>10, <1>11, <1>12, <1>13 DEF Next

-----------------------------------------------------------------------------

\* The user table keeps its type and an active admin in every state.
THEOREM AdminKept == Spec => []IInv
  BY InvariantStarts, InvariantStays, PTL DEF Spec

\* Whatever roles are changed and whoever is deactivated, by whichever admins, an active
\* admin is left, and it is an active admin who works without a login (updateUser,
\* defaultUserId).
THEOREM AdminAlwaysRemains == Spec => []AdminRemains
  <1>1. IInv => AdminRemains
  BY AdminWorks
<1>2. QED
  BY <1>1, AdminKept, PTL
-----------------------------------------------------------------------------
(* The window and the session.  ShownIsSigned speaks of the moments when the   *)
(* setting is as the window read it; what holds in between, while the window's *)
(* answer is older than the setting, is that a window which asks for a login   *)
(* only lets through the user the session names, unlocked.                     *)

SessionOK == session \in [userId : Users \cup {NoUser}, locked : BOOLEAN]

Passed ==
    shown.loaded /\ shown.required /\ shown.authenticated =>
        shown.user = session.userId /\ session.userId # NoUser /\ ~session.locked

WindowInv == SessionOK /\ Passed

\* The answer of the main process, whenever it is given: with the lock of the moment, or
\* with the lock set or released.
LEMMA AnswerPasses ==
    ASSUME NEW s \in [userId : Users \cup {NoUser}, locked : BOOLEAN], session' = s,
           NEW resolved, NEW locked \in BOOLEAN, shown' = Dto(resolved, locked),
           setting.required => resolved = s.userId /\ locked = s.locked
    PROVE  WindowInv'
  BY DEF WindowInv, SessionOK, Passed, Dto

\* A user who signs in is the one the answer shows.
LEMMA SignInPasses ==
    ASSUME NEW u \in Users \cup {NoUser}, SetCurrentUser(u)
    PROVE  WindowInv'
<1>1. session' = [userId |-> u, locked |-> FALSE]
      /\ shown' = Dto(IF setting.required THEN u ELSE DefaultUser, FALSE)
  BY DEF SetCurrentUser
<1>2. [userId |-> u, locked |-> FALSE] \in [userId : Users \cup {NoUser}, locked : BOOLEAN]
  OBVIOUS
<1>3. QED
  BY <1>1, <1>2, AnswerPasses

\* A screen that is locked shows nothing.
LEMMA LockPasses ==
    ASSUME WindowInv, Lock
    PROVE  WindowInv'
<1>1. session' = [session EXCEPT !.locked = TRUE] /\ shown' = Dto(ResolveUser, TRUE)
  BY DEF Lock
<1>2. /\ [session EXCEPT !.locked = TRUE] \in [userId : Users \cup {NoUser}, locked : BOOLEAN]
      /\ [session EXCEPT !.locked = TRUE].userId = session.userId
      /\ [session EXCEPT !.locked = TRUE].locked = TRUE
  BY DEF WindowInv, SessionOK
<1>3. setting.required => ResolveUser = session.userId
  BY DEF ResolveUser
<1>4. QED
  BY <1>1, <1>2, <1>3, AnswerPasses

LEMMA WindowStarts == Init => WindowInv
  BY DEF Init, WindowInv, SessionOK, Passed, NotLoaded

LEMMA WindowStays == WindowInv /\ [Next]_vars => WindowInv'
<1>1. SUFFICES ASSUME WindowInv, [Next]_vars PROVE WindowInv'
  OBVIOUS
<1>2. CASE Start
  BY <1>2 DEF Start, WindowInv, SessionOK, Passed, NotLoaded
<1>3. CASE LoadSession
  <2>1. session' = session /\ shown' = Dto(ResolveUser, session.locked)
    BY <1>3 DEF LoadSession
  <2>2. setting.required => ResolveUser = session.userId
    BY DEF ResolveUser
  <2>3. QED
    BY <1>1, <2>1, <2>2, AnswerPasses DEF WindowInv, SessionOK
<1>4. CASE Login \/ SetInitialPassword \/ Logout
  BY <1>4, SignInPasses DEF Login, SetInitialPassword, Logout
<1>5. CASE LockButton \/ IdleTimer
  BY <1>1, <1>5, LockPasses DEF LockButton, IdleTimer
<1>6. CASE UNCHANGED <<session, shown>>
  BY <1>1, <1>6 DEF WindowInv, SessionOK, Passed
<1>7. QED
  BY <1>1, <1>2, <1>3, <1>4, <1>5, <1>6
     DEF Next, vars, CreateUser, ChangeRole, ToggleActive, ResetPassword, ChangeOwnPassword,
         SaveSettings

\* A window that asks for a login lets through only the user the session names, unlocked,
\* in every state.
THEOREM WindowHolds == Spec => []WindowInv
  BY WindowStarts, WindowStays, PTL DEF Spec

\* While login is required as it was when the window read the session, the program is
\* shown only to the user who signs what is written, and what is locked stays behind the
\* login screen (App, LoginScreen, currentUser).
THEOREM ShownAlwaysSigned == Spec => []ShownIsSigned
<1>1. IInv /\ WindowInv => ShownIsSigned
  <2>1. SUFFICES ASSUME IInv, WindowInv, shown.loaded, shown.required = setting.required
                 PROVE  /\ setting.required /\ AppShown =>
                              Signed /\ shown.user = ResolveUser /\ ~session.locked
                        /\ ~setting.required => AppShown /\ Signed
    BY DEF ShownIsSigned
  <2>2. CASE setting.required
    BY <2>1, <2>2 DEF WindowInv, Passed, AppShown, LoginShown, Signed, ResolveUser
  <2>3. CASE ~setting.required
    <3>1. ResolveUser \in ActiveAdmins /\ ActiveAdmins \subseteq Users
      BY <2>1, <2>3, AdminWorks DEF AdminRemains, ActiveAdmins, Rows
    <3>2. QED
      BY <2>1, <2>3, <3>1, UsersGiven DEF AppShown, LoginShown, Signed
  <2>4. QED
    BY <2>2, <2>3
<1>2. QED
  BY <1>1, AdminKept, WindowHolds, PTL
=============================================================================
