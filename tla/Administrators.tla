---------------------------- MODULE Administrators ----------------------------
(***************************************************************************)
(* Who administers the console (backend/apps/mail/services/mailboxes.py):  *)
(* every operation on a login reads its row, without a lock, checks, and   *)
(* saves: one column, or the whole row as it was read.                     *)
(***************************************************************************)
EXTENDS FiniteSets

CONSTANTS
    Users,
    Superusers, \* logins with is_superuser
    Consoles    \* requests

VARIABLES
    login,   \* u -> its row: there, active, staff
    deed,    \* c -> the operation of a request, with the row it read
    crossed  \* history: removals ran together, or an old row was put back

avars == <<login, deed, crossed>>

Row == [there : BOOLEAN, active : BOOLEAN, staff : BOOLEAN]
Gone == [there |-> FALSE, active |-> FALSE, staff |-> FALSE]
NoDeed == [op |-> "none", user |-> CHOOSE u \in Users : TRUE, row |-> Gone]

\* Operations after which there may be an administrator less, and those that save
\* the whole row.
Removals == {"disable", "demote", "delete"}
WholeRow == {"password", "accept", "adopt"}

IsAdmin(u, row) == row.there /\ row.active /\ (row.staff \/ u \in Superusers)

AdministratorsInit ==
    /\ login \in [Users -> Row]
    /\ \A u \in Users : login[u].there \/ login[u] = Gone
    /\ \E u \in Users : IsAdmin(u, login[u])
    /\ deed = [c \in Consoles |-> NoDeed]
    /\ crossed = FALSE

-----------------------------------------------------------------------------
\* Mutant of OtherAdmin: a login that is disabled counts.
OtherAdminMutant(u) == \E v \in Users \ {u} : login[v].there /\ (login[v].staff \/ v \in Superusers)

\* _ensure_not_last_admin()
OtherAdmin(u) == \E v \in Users \ {u} : IsAdmin(v, login[v])

\* A superuser stays an administrator without is_staff.
Checked(op, u) == op \in {"disable", "delete"} \/ (op = "demote" /\ u \notin Superusers)

\* Changing nothing returns early; create() makes a login that is not there, or for
\* the setup wizard takes over the one that is.
Applies(op, u) ==
    CASE op = "promote" -> login[u].there /\ ~login[u].staff
      [] op = "demote"  -> login[u].there /\ login[u].staff
      [] op \in {"create", "appoint"} -> ~login[u].there
      [] OTHER          -> login[u].there

Read(c, op, u) ==
    /\ deed[c].op = "none"
    /\ Applies(op, u)
    /\ Checked(op, u) => ~IsAdmin(u, login[u]) \/ OtherAdmin(u)
    /\ deed' = [deed EXCEPT ![c] = [op |-> op, user |-> u, row |-> login[u]]]
    /\ UNCHANGED <<login, crossed>>

\* What is saved: a column of a row that is gone cannot be, a whole row is made anew;
\* a login that somebody else has made is not made again.
Saved(op, row, old) ==
    CASE op = "delete" -> Gone
      [] op = "password" -> [old EXCEPT !.there = TRUE]
      [] op = "accept"   -> [old EXCEPT !.there = TRUE, !.active = TRUE]
      [] op = "adopt"    -> [there |-> TRUE, active |-> TRUE, staff |-> TRUE]
      [] op \in {"create", "appoint"} ->
             IF row.there THEN row
             ELSE [there |-> TRUE, active |-> TRUE, staff |-> (op = "appoint")]
      [] op \in {"enable", "disable"} ->
             IF row.there THEN [row EXCEPT !.active = (op = "enable")] ELSE Gone
      [] op \in {"promote", "demote"} ->
             IF row.there THEN [row EXCEPT !.staff = (op = "promote")] ELSE Gone

Save(c) ==
    LET op == deed[c].op
        u == deed[c].user
    IN  /\ op # "none"
        /\ login' = [login EXCEPT ![u] = Saved(op, @, deed[c].row)]
        /\ crossed' = \/ crossed
                      \/ op \in WholeRow /\ login[u] # deed[c].row
                      \/ op \in Removals /\ \E d \in Consoles \ {c} : deed[d].op \in Removals
        /\ deed' = [deed EXCEPT ![c] = NoDeed]

-----------------------------------------------------------------------------
AdministratorsNext ==
    \/ \E c \in Consoles, u \in Users,
          op \in Removals \cup WholeRow \cup {"enable", "promote", "create", "appoint"} :
             Read(c, op, u)
    \/ \E c \in Consoles : Save(c)

AdministratorsSpec == AdministratorsInit /\ [][AdministratorsNext]_avars

\* An administrator is left, unless two removals passed the check before either was
\* saved, or a whole row was saved that another request had changed since it was
\* read.
AdministratorLeft == crossed \/ \E u \in Users : IsAdmin(u, login[u])
=============================================================================
