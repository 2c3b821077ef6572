--------------------------- MODULE DatabaseClaims ---------------------------
(***************************************************************************)
(* What comments of lib/database.c say of the stored records.  Each of     *)
(* these holds while calls that do not stay atomic in company keep apart;  *)
(* with two such calls at a time each can break.                           *)
(***************************************************************************)
EXTENDS Database

Users == file["user"]

\* Users with the same name are copies of the same user.
UnameIsUnique ==
  \A a, b \in Range(Users) : a.uname = b.uname => a.id = b.id

LinkedAccountExists ==
  \A u \in Range(Users) : u.aid \in Ids(file["account"])

\* "Ensures that uname is unique and account with aid exists" (create_user,
\* database.c:259), "Ensures that no user is linked to the account"
\* (delete_account, database.c:613).
UsersAreConsistent == UnameIsUnique /\ LinkedAccountExists

\* "Will ignore changes to uname and aid" (update_user, database.c:298): the
\* write of update_user leaves the name and the account in every slot alone.
UpdateKeepsNames ==
  [][ \A t \in Threads :
        op[t].fn = "update_user" /\ pc[t] = "write" /\ pc'[t] = "wunlock" =>
          \A i \in DOMAIN Users :
             Users'[i].uname = Users[i].uname /\ Users'[i].aid = Users[i].aid ]_vars

\* "Last record is repeated twice, truncate file" (delete_user, database.c:397):
\* what ftruncate() cuts off is the deleted record or stored once more before.
LastRecordIsRepeated ==
  \A t \in Threads : pc[t] = "trunc" =>
     \A i \in cur[t] + 1 .. Len(Contents(t)) :
        \/ Contents(t)[i].id = op[t].rec.id
        \/ \E j \in 1 .. cur[t] : Contents(t)[j].id = Contents(t)[i].id
=============================================================================
