------------------------- MODULE WorldSafetyProofs -------------------------
(***************************************************************************)
(* Proofs about WorldSafety for every choice of its constants: bans,       *)
(* burnt handles and repeated isolations.                                  *)
(***************************************************************************)
EXTENDS WorldSafety, TLAPS

----------------------------------------------------------------------------
(* The inductive invariant *)

\* What the isolation in progress has done to the members behind it, and has not
\* done to those before it.
CascadeOK ==
  /\ \A book \in Books : cascade.done \subseteq RevokedIn(book)
  /\ cascade.todo \cap SanctionedIn(sanctions) = {}
  /\ cascade.stage = "governance" => savedAuth = registration
  /\ \A r \in cascade.done : Burns(r) =>
       /\ registration[r].state = "Suspended"
       /\ Handles(r) \subseteq blacklist

IInv ==
  /\ TypeOK
  /\ BanHolds
  /\ BurntForGood
  /\ OneCascadeSanction
  /\ CascadeOK

----------------------------------------------------------------------------
(* Books of sanctions *)

OneIn(book) ==
  \A i, j \in DOMAIN book :
    /\ book[i].cascaded /\ book[i].active
    /\ book[j].cascaded /\ book[j].active
    /\ book[i].resident = book[j].resident
    => i = j

\* A sanction more leaves every other one as it is.
LEMMA IssuedBook ==
  ASSUME sanctions \in Seq(Sanction), NEW r \in Resident,
         NEW revoking \in BOOLEAN, NEW cascaded \in BOOLEAN
  PROVE  LET book == Issued(r, revoking, cascaded) IN
         /\ book \in Seq(Sanction)
         /\ RevokedIn(sanctions) \subseteq RevokedIn(book)
         /\ revoking => r \in RevokedIn(book)
         /\ SanctionedIn(book) = SanctionedIn(sanctions) \cup {r}
         /\ OneIn(sanctions) /\ (cascaded => r \notin SanctionedIn(sanctions)) =>
              OneIn(book)
<1> DEFINE s == [resident |-> r, revoking |-> revoking, cascaded |-> cascaded,
                 active |-> TRUE]
           book == Append(sanctions, s)
           n == Len(sanctions)
<1>1. s \in Sanction
  BY DEF Sanction
<1>2. /\ book \in Seq(Sanction)
      /\ DOMAIN sanctions = 1..n
      /\ DOMAIN book = 1..(n + 1)
      /\ n \in Nat
      /\ \A i \in 1..n : book[i] = sanctions[i]
      /\ book[n + 1] = s
  BY <1>1
<1>3. book = Issued(r, revoking, cascaded)
  BY DEF Issued
<1>4. \A i \in DOMAIN book :
        (i \in DOMAIN sanctions /\ book[i] = sanctions[i]) \/ i = n + 1
  BY <1>2
<1>5. DOMAIN sanctions \subseteq DOMAIN book /\ n + 1 \in DOMAIN book
  BY <1>2
<1>6. /\ s.resident = r /\ s.active /\ (revoking => s.revoking)
      /\ (s.cascaded => cascaded)
  OBVIOUS
<1> HIDE DEF book, s, n
<1>7. RevokedIn(sanctions) \subseteq RevokedIn(book)
  BY <1>2, <1>5 DEF RevokedIn
<1>8. revoking => r \in RevokedIn(book)
  BY <1>2, <1>5, <1>6 DEF RevokedIn
<1>9. SanctionedIn(book) = SanctionedIn(sanctions) \cup {r}
  BY <1>2, <1>4, <1>5, <1>6 DEF SanctionedIn
<1>10. ASSUME OneIn(sanctions), cascaded => r \notin SanctionedIn(sanctions)
       PROVE  OneIn(book)
  <2> SUFFICES ASSUME NEW i \in DOMAIN book, NEW j \in DOMAIN book,
                      book[i].cascaded /\ book[i].active,
                      book[j].cascaded /\ book[j].active,
                      book[i].resident = book[j].resident
               PROVE  i = j
    BY DEF OneIn
  <2>1. \A k \in DOMAIN sanctions :
          book[k].active /\ book[k].resident = r => r \in SanctionedIn(sanctions)
    BY <1>2 DEF SanctionedIn
  <2>2. CASE i = n + 1 /\ j = n + 1
    BY <2>2
  <2>3. CASE i = n + 1 /\ j \in DOMAIN sanctions
    BY <1>2, <1>6, <1>10, <2>1, <2>3
  <2>4. CASE j = n + 1 /\ i \in DOMAIN sanctions
    BY <1>2, <1>6, <1>10, <2>1, <2>4
  <2>5. CASE i \in DOMAIN sanctions /\ j \in DOMAIN sanctions
    BY <1>2, <1>10, <2>5 DEF OneIn
  <2> QED
    BY <1>4, <2>2, <2>3, <2>4, <2>5
<1> QED
  BY <1>2, <1>3, <1>7, <1>8, <1>9, <1>10

\* Lifting makes sanctions inactive and changes nothing else of them.
LEMMA LiftedBook ==
  ASSUME sanctions \in Seq(Sanction), NEW indices
  PROVE  /\ Lifted(indices) \in Seq(Sanction)
         /\ RevokedIn(Lifted(indices)) \subseteq Resident
         /\ OneIn(sanctions) => OneIn(Lifted(indices))
<1>1. /\ DOMAIN sanctions = 1..Len(sanctions) /\ Len(sanctions) \in Nat
      /\ \A i \in DOMAIN sanctions : sanctions[i] \in Sanction
  OBVIOUS
<1>2. DOMAIN Lifted(indices) = DOMAIN sanctions
  BY DEF Lifted
<1>3. \A i \in DOMAIN sanctions :
        /\ Lifted(indices)[i] \in Sanction
        /\ Lifted(indices)[i].resident = sanctions[i].resident
        /\ Lifted(indices)[i].cascaded = sanctions[i].cascaded
        /\ Lifted(indices)[i].active => sanctions[i].active
  BY <1>1 DEF Lifted, Sanction
<1>4. Lifted(indices) \in [1..Len(sanctions) -> Sanction]
  BY <1>1, <1>3 DEF Lifted
<1>5. Lifted(indices) \in Seq(Sanction)
  BY <1>1, <1>4
<1> QED
  BY <1>2, <1>3, <1>5 DEF OneIn, RevokedIn

----------------------------------------------------------------------------
(* Types *)

\* What the parts of a step do to the two files.
LEMMA FilesTyped ==
  ASSUME TypeOK,
         member' \in [City -> [Resident -> Standing]],
         sanctions' \in Seq(Sanction), blacklist' \subseteq Handle,
         registration' \in [Resident -> Registration],
         SaveGovernance \/ SaveAuth \/ WriteFails \/ UNCHANGED <<files, faults>>
  PROVE  /\ savedGovernance' \in
              [member : [City -> [Resident -> Standing]],
               sanctions : Seq(Sanction), blacklist : SUBSET Handle]
         /\ savedAuth' \in [Resident -> Registration]
         /\ faults' \in Nat
<1>1. CASE SaveGovernance
  BY <1>1 DEF SaveGovernance, Governance, TypeOK
<1>2. CASE SaveAuth
  BY <1>2 DEF SaveAuth, TypeOK
<1>3. CASE WriteFails
  BY <1>3 DEF WriteFails, files, TypeOK
<1>4. CASE UNCHANGED <<files, faults>>
  BY <1>4 DEF files, TypeOK
<1> QED
  BY <1>1, <1>2, <1>3, <1>4

LEMMA SignedInTyped ==
  ASSUME TypeOK, NEW r \in Resident, NEW used \in SUBSET Handle
  PROVE  SignedIn(r, used) \in Registration
BY DEF TypeOK, SignedIn, Handles, Registration

LEMMA BearerTyped ==
  ASSUME NEW n \in Mobile, NEW r \in Resident, NEW bearer \in Bearers(n, r)
  PROVE  bearer \in Resident
BY DEF Bearers

LEMMA NamedTyped ==
  ASSUME NEW r \in Resident, NEW handles \in Named(r) PROVE handles \subseteq Handle
BY DEF Named, Handle

LEMMA TypeStep == TypeOK /\ [Next]_vars => TypeOK'
<1> SUFFICES ASSUME TypeOK, [Next]_vars PROVE TypeOK'
  OBVIOUS
<1>1. ASSUME NEW c \in City, NEW r \in Resident, CreateCity(c, r)
      PROVE  TypeOK'
  <2>1. member' \in [City -> [Resident -> Standing]]
    BY <1>1 DEF CreateCity, TypeOK, Standing
  <2> QED
    BY <1>1, <2>1, FilesTyped DEF CreateCity, TypeOK, history
<1>2. ASSUME NEW c \in City, NEW r \in Resident, JoinCity(c, r)
      PROVE  TypeOK'
  <2>1. member' \in [City -> [Resident -> Standing]]
    BY <1>2 DEF JoinCity, TypeOK, Standing
  <2> QED
    BY <1>2, <2>1, FilesTyped DEF JoinCity, TypeOK, history
<1>3. ASSUME NEW c \in City, NEW r \in Resident, NEW lord \in Resident,
             ApproveCityJoin(c, lord, r)
      PROVE  TypeOK'
  <2>1. member' \in [City -> [Resident -> Standing]]
    BY <1>3 DEF ApproveCityJoin, TypeOK, Standing
  <2> QED
    BY <1>3, <2>1, FilesTyped DEF ApproveCityJoin, TypeOK, history
<1>4. ASSUME NEW c \in City, NEW r \in Resident, NEW lord \in Resident,
             UpdateSteward(c, lord, r)
      PROVE  TypeOK'
  <2>1. member' \in [City -> [Resident -> Standing]]
    BY <1>4 DEF UpdateSteward, TypeOK, Standing
  <2> QED
    BY <1>4, <2>1, FilesTyped DEF UpdateSteward, TypeOK, history
<1>5. CASE SaveOther
  BY <1>5, FilesTyped DEF SaveOther, TypeOK, governance, history
<1>6. ASSUME NEW r \in Resident, NEW mobile \in SUBSET Mobile, NEW devices \in SUBSET Device,
             SignIn(r, mobile, devices)
      PROVE  TypeOK'
  <2> DEFINE used == ({r} \X ({"email"} \cup devices)) \cup mobile
  <2>1. used \subseteq Handle
    BY DEF Handle
  <2>2. registration' = [registration EXCEPT ![r] = SignedIn(r, used)]
    BY <1>6 DEF SignIn
  <2>3. registration' \in [Resident -> Registration]
    BY <2>1, <2>2, SignedInTyped DEF TypeOK
  <2> QED
    BY <1>6, <2>3, FilesTyped DEF SignIn, TypeOK, governance, history
<1>26. ASSUME NEW r \in Resident, NEW n \in Mobile, NEW devices \in SUBSET Device,
              MobileSignIn(n, r, devices)
       PROVE  TypeOK'
  <2> DEFINE used == {n} \cup ({r} \X devices)
  <2>1. used \subseteq Handle
    BY DEF Handle
  <2>2. registration' = [registration EXCEPT ![r] = SignedIn(r, used)]
    BY <1>26 DEF MobileSignIn
  <2>3. registration' \in [Resident -> Registration]
    BY <2>1, <2>2, SignedInTyped DEF TypeOK
  <2> QED
    BY <1>26, <2>3, FilesTyped DEF MobileSignIn, TypeOK, governance
<1>7. ASSUME NEW r \in Resident, AdminCreateResident(r)
      PROVE  TypeOK'
  <2>1. registration' \in [Resident -> Registration]
    BY <1>7 DEF AdminCreateResident, TypeOK, Registration, Handle
  <2> QED
    BY <1>7, <2>1, FilesTyped DEF AdminCreateResident, TypeOK, governance, history
<1>8. ASSUME NEW r \in Resident, NEW revoking \in BOOLEAN,
             NEW handles \in Named(r),
             SanctionResident(r, revoking, handles)
      PROVE  TypeOK'
  <2>1. sanctions' \in Seq(Sanction)
    BY <1>8, IssuedBook DEF SanctionResident, TypeOK
  <2>2. handles \subseteq Handle
    BY NamedTyped
  <2>3. blacklist' \subseteq Handle
    BY <1>8, <2>2 DEF SanctionResident, TypeOK
  <2> QED
    BY <1>8, <2>1, <2>3, FilesTyped DEF SanctionResident, TypeOK
<1>9. ASSUME NEW r \in Resident, AdminBan(r)
      PROVE  TypeOK'
  <2>1. sanctions' \in Seq(Sanction)
    BY <1>9, IssuedBook DEF AdminBan, TypeOK
  <2> QED
    BY <1>9, <2>1, FilesTyped DEF AdminBan, TypeOK
<1>10. ASSUME NEW indices, LiftSaved(indices)
       PROVE  TypeOK'
  <2>1. sanctions' \in Seq(Sanction)
    BY <1>10, LiftedBook DEF LiftSaved, TypeOK
  <2> QED
    BY <1>10, <2>1, FilesTyped DEF LiftSaved, TypeOK
<1>11. ASSUME NEW indices, LiftUnsaved(indices)
       PROVE  TypeOK'
  BY <1>11, FilesTyped DEF LiftUnsaved, LiftUndone, TypeOK, history
<1>12. ASSUME NEW c \in City, NEW blacklists \in BOOLEAN, Isolate(c, blacklists)
       PROVE  TypeOK'
  BY <1>12, FilesTyped
  DEF Isolate, CascadeTargets, Active, TypeOK, governance, history
<1>13. ASSUME NEW r \in Resident, CascadeSuspend(r)
       PROVE  registration' \in [Resident -> Registration]
  <2>1. registration[r] \in Registration
    BY DEF TypeOK
  <2>2. [registration[r] EXCEPT !.state = "Suspended"] \in Registration
    BY <2>1 DEF Registration
  <2> QED
    BY <1>13, <2>2 DEF CascadeSuspend, TypeOK
<1>14. ASSUME NEW r \in Resident, CascadeRefused(r)
       PROVE  TypeOK'
  BY <1>13, <1>14, FilesTyped
  DEF CascadeRefused, CascadeSuspend, Idle, TypeOK, history
<1>15. ASSUME NEW r \in Resident
       PROVE  EmailOf(r) \subseteq Handle /\ OthersOf(r) \subseteq Handle
  <2>1. Handles(r) \subseteq Handle
    BY DEF TypeOK, Registration, Handles
  <2> QED
    BY <2>1 DEF EmailOf, OthersOf
<1>16. ASSUME NEW r \in Resident, CascadeResidentSaved(r)
       PROVE  TypeOK'
  <2>1. sanctions' \in Seq(Sanction)
    BY <1>16, IssuedBook DEF CascadeResidentSaved, CascadeResident, TypeOK
  <2>2. blacklist' \subseteq Handle /\ blacklist \cup EmailOf(r) \subseteq Handle
    BY <1>15, <1>16 DEF CascadeResidentSaved, TypeOK
  <2>3. registration' \in [Resident -> Registration] /\ member' = member
    BY <1>13, <1>16 DEF CascadeResidentSaved, CascadeResident, CascadeSuspend
  <2>4. savedGovernance' \in [member : [City -> [Resident -> Standing]],
                              sanctions : Seq(Sanction), blacklist : SUBSET Handle]
    BY <1>16, <2>1, <2>2, <2>3 DEF CascadeResidentSaved, Governance, TypeOK
  <2>5. cascade' = [cascade EXCEPT !.todo = cascade.todo \ {r},
                                   !.done = cascade.done \cup {r}]
    BY <1>16 DEF CascadeResidentSaved, Remaining
  <2>6. r \in cascade.todo
    BY <1>16 DEF CascadeResidentSaved, CascadeResident, CascadeSuspend
  <2>7. /\ cascade' \in [stage : {"idle", "residents", "governance"},
                         blacklists : BOOLEAN, members : SUBSET Resident,
                         todo : SUBSET Resident, done : SUBSET Resident]
        /\ cascade'.todo = cascade.todo \ {r}
        /\ cascade'.done = cascade.done \cup {r}
        /\ cascade'.members = cascade.members
    BY <2>5 DEF TypeOK
  <2>8. /\ cascade'.todo \cap cascade'.done = {}
        /\ cascade'.todo \cup cascade'.done \subseteq cascade'.members
    BY <2>6, <2>7 DEF TypeOK
  <2>9. UNCHANGED <<savedAuth, faults, banned, burnt, sentenced>>
    BY <1>16 DEF CascadeResidentSaved, CascadeResident, CascadeSuspend, history
  <2> QED
    BY <2>1, <2>2, <2>3, <2>4, <2>7, <2>8, <2>9 DEF TypeOK
<1>17. ASSUME NEW r \in Resident, CascadeResidentUnsaved(r)
       PROVE  TypeOK'
  <2>1. sanctions' \in Seq(Sanction)
    BY <1>17, IssuedBook DEF CascadeResidentUnsaved, CascadeResident, TypeOK
  <2>2. blacklist' \subseteq Handle
    BY <1>15, <1>17 DEF CascadeResidentUnsaved, TypeOK
  <2>3. registration' \in [Resident -> Registration]
    BY <1>13, <1>17 DEF CascadeResidentUnsaved, CascadeResident
  <2> QED
    BY <1>17, <2>1, <2>2, <2>3, FilesTyped
    DEF CascadeResidentUnsaved, CascadeResident, CascadeSuspend, Idle, TypeOK, history
<1>18. ASSUME Confirm
       PROVE  /\ banned' \subseteq Resident /\ burnt' \subseteq Handle
              /\ sentenced' \subseteq Resident
              /\ cascade' = Idle /\ UNCHANGED <<governance, registration>>
  <2>1. \A r \in cascade.done : r \in Resident /\ Handles(r) \subseteq Handle
    BY DEF TypeOK, Handles, Registration
  <2> QED
    BY <1>18, <2>1 DEF Confirm, TypeOK
<1>19. CASE CascadeDone
  <2>1. Confirm
    BY <1>19 DEF CascadeDone
  <2>2. UNCHANGED <<member, sanctions, blacklist, registration, files, faults>>
    BY <1>18, <1>19, <2>1 DEF CascadeDone, governance
  <2>3. /\ banned' \subseteq Resident /\ burnt' \subseteq Handle
        /\ sentenced' \subseteq Resident
        /\ cascade' = Idle
    BY <1>18, <2>1
  <2> QED
    BY <2>2, <2>3 DEF files, Idle, TypeOK
<1>20. CASE CascadeAuthSaved
  BY <1>20, FilesTyped DEF CascadeAuthSaved, governance, history, TypeOK
<1>21. CASE CascadeAuthUnsaved
  BY <1>21, FilesTyped DEF CascadeAuthUnsaved, governance, history, Idle, TypeOK
<1>22. CASE CascadeGovernanceSaved
  <2>1. Confirm /\ SaveGovernance
    BY <1>22 DEF CascadeGovernanceSaved
  <2>2. UNCHANGED <<member, sanctions, blacklist, registration>>
    BY <1>18, <2>1 DEF governance
  <2>3. /\ banned' \subseteq Resident /\ burnt' \subseteq Handle
        /\ sentenced' \subseteq Resident
        /\ cascade' = Idle
    BY <1>18, <2>1
  <2> QED
    BY <2>1, <2>2, <2>3, FilesTyped DEF Idle, TypeOK
<1>23. CASE CascadeGovernanceUnsaved
  BY <1>23, FilesTyped DEF CascadeGovernanceUnsaved, governance, history, Idle, TypeOK
<1>24. CASE Restart
  BY <1>24 DEF Restart, files, history, Idle, TypeOK
<1>25. CASE UNCHANGED vars
  BY <1>25 DEF vars, governance, files, history, TypeOK
<1> QED
  BY <1>1, <1>2, <1>3, <1>4, <1>5, <1>6, <1>7, <1>8, <1>9, <1>10, <1>11, <1>12,
     <1>14, <1>16, <1>17, <1>19, <1>20, <1>21, <1>22, <1>23, <1>24, <1>25, <1>26,
     BearerTyped DEF Next

----------------------------------------------------------------------------
(* What the kinds of steps keep *)

\* After a step a file holds what memory holds, or what it held before.
FilesFollow ==
  /\ savedGovernance'.sanctions \in {sanctions', savedGovernance.sanctions}
  /\ savedGovernance'.blacklist \in {blacklist', savedGovernance.blacklist}
  /\ savedAuth' \in {registration', savedAuth}

LEMMA FilesFollowed ==
  SaveGovernance \/ SaveAuth \/ WriteFails \/ UNCHANGED files => FilesFollow
<1>1. CASE SaveGovernance
  BY <1>1 DEF SaveGovernance, Governance, FilesFollow
<1>2. CASE SaveAuth
  BY <1>2 DEF SaveAuth, FilesFollow
<1>3. CASE WriteFails \/ UNCHANGED files
  BY <1>3 DEF WriteFails, files, FilesFollow
<1> QED
  BY <1>1, <1>2, <1>3

LEMMA BooksOneIn == OneCascadeSanction <=> \A book \in Books : OneIn(book)
BY DEF OneCascadeSanction, OneIn

LEMMA BooksKept ==
  ASSUME BanHolds, OneCascadeSanction,
         sanctions' \in Books, savedGovernance'.sanctions \in Books,
         banned' \subseteq banned
  PROVE  BanHolds' /\ OneCascadeSanction'
<1>1. Books' \subseteq Books
  BY DEF Books
<1> QED
  BY <1>1 DEF BanHolds, OneCascadeSanction

LEMMA BooksIssued ==
  ASSUME TypeOK, BanHolds, OneCascadeSanction,
         NEW r \in Resident, NEW revoking \in BOOLEAN, NEW cascaded \in BOOLEAN,
         sanctions' = Issued(r, revoking, cascaded),
         cascaded => r \notin SanctionedIn(sanctions),
         savedGovernance'.sanctions \in {sanctions', savedGovernance.sanctions},
         \/ banned' = banned
         \/ /\ savedGovernance'.sanctions = sanctions'
            /\ banned' = IF revoking THEN banned \cup {r} ELSE banned
  PROVE  BanHolds' /\ OneCascadeSanction'
<1>1. sanctions \in Seq(Sanction)
  BY DEF TypeOK
<1>2. /\ RevokedIn(sanctions) \subseteq RevokedIn(sanctions')
      /\ revoking => r \in RevokedIn(sanctions')
      /\ OneIn(sanctions) => OneIn(sanctions')
  BY <1>1, IssuedBook
<1>3. /\ OneIn(sanctions) /\ OneIn(savedGovernance.sanctions)
      /\ banned \subseteq RevokedIn(sanctions)
      /\ banned \subseteq RevokedIn(savedGovernance.sanctions)
  BY BooksOneIn DEF Books, BanHolds
<1>4. BanHolds'
  BY <1>2, <1>3 DEF BanHolds, Books
<1>5. \A book \in Books' : OneIn(book)
  BY <1>2, <1>3 DEF Books
<1> QED
  BY <1>4, <1>5 DEF OneIn, OneCascadeSanction

LEMMA BurntKept ==
  ASSUME BurntForGood,
         burnt' = burnt, sentenced' \subseteq sentenced,
         \A r \in sentenced' : registration'[r] = registration[r],
         savedAuth' \in {registration', savedAuth},
         \E list \in Blacklists : list \subseteq blacklist',
         \E list \in Blacklists : list \subseteq savedGovernance'.blacklist
  PROVE  BurntForGood'
<1>1. \A list \in Blacklists' : burnt' \subseteq list
  BY DEF BurntForGood, Blacklists
<1>2. ASSUME NEW r \in sentenced'
      PROVE  /\ registration'[r].state = "Suspended"
             /\ Handles(r)' \subseteq burnt'
             /\ savedAuth'[r] = registration'[r]
  <2>1. /\ registration[r].state = "Suspended"
        /\ Handles(r) \subseteq burnt
        /\ savedAuth[r] = registration[r]
    BY <1>2 DEF BurntForGood
  <2>2. Handles(r)' = Handles(r)
    BY <1>2 DEF Handles
  <2> QED
    BY <1>2, <2>1, <2>2
<1> QED
  BY <1>1, <1>2 DEF BurntForGood

LEMMA IdleOK == cascade' = Idle => CascadeOK'
BY DEF CascadeOK, Idle

\* A step that leaves sanctions and the registrations of the sentenced alone.
LEMMA QuietStep ==
  ASSUME IInv, cascade' = Idle,
         UNCHANGED <<sanctions, blacklist, banned, burnt>>,
         sentenced' \subseteq sentenced,
         \A r \in sentenced' : registration'[r] = registration[r],
         SaveGovernance \/ SaveAuth \/ WriteFails \/ UNCHANGED files
  PROVE  BanHolds' /\ BurntForGood' /\ OneCascadeSanction' /\ CascadeOK'
<1>1. FilesFollow
  BY FilesFollowed
<1>2. BanHolds' /\ OneCascadeSanction'
  BY <1>1, BooksKept DEF FilesFollow, Books, IInv
<1>3. BurntForGood'
  BY <1>1, BurntKept DEF FilesFollow, Blacklists, IInv
<1> QED
  BY <1>2, <1>3, IdleOK

----------------------------------------------------------------------------
(* Every step *)

\* Sanctioning the next member of an isolation.
LEMMA CascadeSavedStep ==
  ASSUME IInv, TypeOK', NEW r \in Resident, CascadeResidentSaved(r)
  PROVE  BanHolds' /\ BurntForGood' /\ OneCascadeSanction' /\ CascadeOK'
<1>1. /\ cascade.stage = "residents" /\ r \in cascade.todo
      /\ registration' = IF Burns(r) THEN [registration EXCEPT ![r].state = "Suspended"]
                                     ELSE registration
      /\ UNCHANGED <<banned, burnt, sentenced>>
  BY DEF CascadeResidentSaved, CascadeResident, CascadeSuspend, history
<1>2. /\ sanctions' = Issued(r, TRUE, TRUE)
      /\ blacklist' = blacklist \cup EmailOf(r) \cup OthersOf(r)
      /\ savedGovernance'.sanctions = sanctions'
      /\ savedGovernance'.blacklist = blacklist \cup EmailOf(r)
      /\ savedAuth' = savedAuth
  BY DEF CascadeResidentSaved, CascadeResident, Governance
<1>3. /\ cascade'.stage = cascade.stage
      /\ cascade'.blacklists = cascade.blacklists
      /\ cascade'.todo = cascade.todo \ {r}
      /\ cascade'.done = cascade.done \cup {r}
  <2>1. cascade' = [cascade EXCEPT !.todo = cascade.todo \ {r},
                                   !.done = cascade.done \cup {r}]
    BY DEF CascadeResidentSaved, Remaining
  <2> QED
    BY <2>1 DEF IInv, TypeOK
<1>4. r \notin SanctionedIn(sanctions)
  BY <1>1 DEF IInv, CascadeOK
<1>5. /\ RevokedIn(sanctions) \subseteq RevokedIn(sanctions')
      /\ r \in RevokedIn(sanctions')
      /\ SanctionedIn(sanctions') = SanctionedIn(sanctions) \cup {r}
  BY <1>2, IssuedBook DEF IInv, TypeOK
<1>6. BanHolds' /\ OneCascadeSanction'
  BY <1>1, <1>2, <1>4, BooksIssued DEF IInv
<1>7. \A q \in Resident :
        /\ registration[q] \in Registration
        /\ q # r => registration'[q] = registration[q]
        /\ registration'[q].handles = registration[q].handles
        /\ Burns(r) => registration'[r].state = "Suspended"
        /\ ~Burns(r) => registration'[r] = registration[r]
  <2>1. registration \in [Resident -> Registration]
    BY DEF IInv, TypeOK
  <2> QED
    BY <1>1, <2>1 DEF Registration
<1>8. BurntForGood'
  <2>1. ASSUME NEW q \in sentenced
        PROVE  registration'[q] = registration[q]
    <3>1. q \in Resident /\ registration[q].state = "Suspended"
      BY DEF IInv, TypeOK, BurntForGood
    <3>2. registration'[q] \in Registration
      BY <3>1 DEF TypeOK
    <3>3. registration'[q].state = registration[q].state
      BY <1>7, <3>1
    <3> QED
      BY <1>7, <3>1, <3>2, <3>3 DEF Registration
  <2> QED
    BY <1>1, <1>2, <2>1, BurntKept DEF IInv, Blacklists
<1>9. \A book \in Books' : cascade'.done \subseteq RevokedIn(book)
  <2>1. \A book \in Books' : book = sanctions'
    BY <1>2 DEF Books
  <2>2. cascade.done \subseteq RevokedIn(sanctions)
    BY DEF IInv, CascadeOK, Books
  <2> QED
    BY <1>3, <1>5, <2>1, <2>2
<1>10. cascade'.todo \cap SanctionedIn(sanctions') = {}
  BY <1>3, <1>5 DEF IInv, CascadeOK
<1>11. ASSUME NEW q \in cascade'.done, Burns(q)'
       PROVE  registration'[q].state = "Suspended" /\ Handles(q)' \subseteq blacklist'
  <2>1. q \in Resident
    BY <1>3 DEF IInv, TypeOK
  <2>2. Handles(q)' = Handles(q)
    BY <1>7, <2>1 DEF Handles
  <2>3. CASE q = r
    <3>1. Burns(r)
      BY <1>3, <1>7, <1>11, <2>3 DEF Burns, IsRegistered
    <3>2. Handles(r) \subseteq EmailOf(r) \cup OthersOf(r)
      BY <3>1 DEF Handles, EmailOf, OthersOf
    <3> QED
      BY <1>2, <1>7, <2>2, <2>3, <3>1, <3>2
  <2>4. CASE q # r
    <3>1. q \in cascade.done /\ registration'[q] = registration[q]
      BY <1>3, <1>7, <2>1, <2>4
    <3>2. Burns(q)
      BY <1>3, <1>11, <3>1 DEF Burns, IsRegistered
    <3>3. registration[q].state = "Suspended" /\ Handles(q) \subseteq blacklist
      BY <3>1, <3>2 DEF IInv, CascadeOK
    <3> QED
      BY <1>2, <2>2, <3>1, <3>3
  <2> QED
    BY <2>3, <2>4
<1>12. CascadeOK'
  BY <1>1, <1>3, <1>9, <1>10, <1>11 DEF CascadeOK
<1> QED
  BY <1>6, <1>8, <1>12

\* The end of an isolation.
LEMMA ConfirmStep ==
  ASSUME IInv, Confirm,
         \/ cascade.stage = "governance" /\ SaveGovernance
         \/ ~cascade.blacklists /\ UNCHANGED files
  PROVE  BanHolds' /\ BurntForGood' /\ OneCascadeSanction' /\ CascadeOK'
<1>1. /\ banned' = banned \cup cascade.done
      /\ burnt' = burnt \cup UNION {Handles(r) : r \in {q \in cascade.done : Burns(q)}}
      /\ sentenced' = sentenced \cup {r \in cascade.done : Burns(r)}
      /\ cascade' = Idle
      /\ UNCHANGED <<sanctions, blacklist, registration>>
  BY DEF Confirm, governance
<1>2. FilesFollow
  BY FilesFollowed
<1>3. Books' \subseteq Books /\ Blacklists' \subseteq Blacklists
  BY <1>1, <1>2 DEF FilesFollow, Books, Blacklists
<1>4. BanHolds'
  BY <1>1, <1>3 DEF BanHolds, CascadeOK, IInv
<1>5. OneCascadeSanction'
  BY <1>3 DEF OneCascadeSanction, IInv
<1>6. ASSUME NEW q \in cascade.done, Burns(q)
      PROVE  /\ savedGovernance'.blacklist = blacklist' /\ savedAuth' = savedAuth
             /\ savedAuth = registration
             /\ registration[q].state = "Suspended"
             /\ Handles(q) \subseteq blacklist
  <2>1. cascade.stage = "governance" /\ SaveGovernance
    BY <1>6 DEF Burns
  <2> QED
    BY <1>6, <2>1 DEF SaveGovernance, Governance, CascadeOK, IInv
<1>8. ASSUME NEW list \in Blacklists', NEW h \in burnt' PROVE h \in list
  <2>1. CASE h \in burnt
    BY <1>3, <2>1 DEF BurntForGood, IInv
  <2>2. CASE \E q \in cascade.done : Burns(q) /\ h \in Handles(q)
    <3>1. PICK q \in cascade.done : Burns(q) /\ h \in Handles(q)
      BY <2>2
    <3> QED
      BY <1>1, <1>6, <3>1 DEF Blacklists
  <2> QED
    BY <1>1, <2>1, <2>2
<1>9. ASSUME NEW r \in sentenced'
      PROVE  /\ registration'[r].state = "Suspended"
             /\ Handles(r)' \subseteq burnt'
             /\ savedAuth'[r] = registration'[r]
  <2>1. Handles(r)' = Handles(r)
    BY <1>1 DEF Handles
  <2>2. CASE r \in sentenced
    <3>1. /\ registration[r].state = "Suspended" /\ savedAuth[r] = registration[r]
          /\ Handles(r) \subseteq burnt
      BY <2>2 DEF BurntForGood, IInv
    <3>2. savedAuth'[r] = registration'[r]
      BY <1>1, <1>2, <3>1 DEF FilesFollow
    <3> QED
      BY <1>1, <2>1, <3>1, <3>2
  <2>3. CASE r \in cascade.done /\ Burns(r)
    <3>1. Handles(r) \subseteq burnt'
      BY <1>1, <2>3
    <3> QED
      BY <1>1, <1>6, <2>1, <2>3, <3>1
  <2> QED
    BY <1>1, <2>2, <2>3
<1>7. BurntForGood'
  BY <1>8, <1>9 DEF BurntForGood
<1> QED
  BY <1>1, <1>4, <1>5, <1>7, IdleOK

LEMMA IInvStep == IInv /\ [Next]_vars => IInv'
<1> SUFFICES ASSUME IInv, [Next]_vars PROVE IInv'
  OBVIOUS
<1> DEFINE Rest == BanHolds /\ BurntForGood /\ OneCascadeSanction /\ CascadeOK
<1>0. TypeOK'
  BY TypeStep DEF IInv
<1>1. ASSUME NEW c \in City, NEW r \in Resident, CreateCity(c, r) \/ JoinCity(c, r)
      PROVE  Rest'
  BY <1>1, QuietStep DEF CreateCity, JoinCity, history
<1>2. ASSUME NEW c \in City, NEW r \in Resident, NEW lord \in Resident,
             ApproveCityJoin(c, lord, r) \/ UpdateSteward(c, lord, r)
      PROVE  Rest'
  BY <1>2, QuietStep DEF ApproveCityJoin, UpdateSteward, history
<1>3. ASSUME SaveOther PROVE Rest'
  BY <1>3, QuietStep DEF SaveOther, governance, history
<1>4. ASSUME NEW r \in Resident, NEW mobile \in SUBSET Mobile, NEW devices \in SUBSET Device,
             SignIn(r, mobile, devices)
      PROVE  Rest'
  <2>1. ASSUME NEW q \in sentenced
        PROVE  registration'[q] = registration[q]
    <3>1. Handles(q) \subseteq blacklist /\ IsRegistered(q) /\ q \in Resident
      BY DEF IInv, TypeOK, BurntForGood, Blacklists, IsRegistered
    <3>2. <<r, "email">> \notin blacklist
      BY <1>4 DEF SignIn
    <3>3. q # r
      BY <1>4, <3>1, <3>2 DEF SignIn
    <3> QED
      BY <1>4, <3>3 DEF SignIn, IInv, TypeOK
  <2> QED
    BY <1>4, <2>1, QuietStep DEF SignIn, governance, history
<1>23. ASSUME NEW r \in Resident, NEW n \in Mobile, NEW devices \in SUBSET Device,
              MobileSignIn(n, r, devices)
       PROVE  Rest'
  <2>1. n \notin burnt
    BY <1>23 DEF MobileSignIn, MobileAllowed, IInv, BurntForGood, Blacklists
  <2>2. sentenced' = sentenced \ {r}
    BY <1>23, <2>1 DEF MobileSignIn
  <2>3. \A q \in sentenced' : registration'[q] = registration[q]
    BY <1>23, <2>2 DEF MobileSignIn, IInv, TypeOK
  <2> QED
    BY <1>23, <2>2, <2>3, QuietStep DEF MobileSignIn, governance
<1>5. ASSUME NEW r \in Resident, AdminCreateResident(r)
      PROVE  Rest'
  <2>1. ASSUME NEW q \in sentenced
        PROVE  registration'[q] = registration[q]
    <3>1. q # r
      BY <1>5 DEF IInv, BurntForGood, AdminCreateResident, IsRegistered
    <3> QED
      BY <1>5, <3>1 DEF AdminCreateResident, IInv, TypeOK
  <2> QED
    BY <1>5, <2>1, QuietStep DEF AdminCreateResident, governance, history
<1>6. ASSUME NEW r \in Resident, NEW revoking \in BOOLEAN,
             NEW handles \in Named(r),
             SanctionResident(r, revoking, handles)
      PROVE  Rest'
  <2>1. /\ cascade' = Idle
        /\ sanctions' = Issued(r, revoking, FALSE)
        /\ blacklist \subseteq blacklist'
        /\ UNCHANGED <<registration, burnt, sentenced>>
    BY <1>6 DEF SanctionResident
  <2>2. FilesFollow
    BY <1>6, FilesFollowed DEF SanctionResident
  <2>3. \/ banned' = banned
        \/ /\ savedGovernance'.sanctions = sanctions'
           /\ banned' = IF revoking THEN banned \cup {r} ELSE banned
    <3>1. CASE SaveGovernance /\ banned' = IF revoking THEN banned \cup {r} ELSE banned
      BY <3>1 DEF SaveGovernance, Governance
    <3>2. CASE banned' = banned
      BY <3>2
    <3> QED
      BY <1>6, <3>1, <3>2 DEF SanctionResident
  <2>4. BanHolds' /\ OneCascadeSanction'
    BY <2>1, <2>2, <2>3, BooksIssued DEF FilesFollow, IInv
  <2>5. BurntForGood'
    BY <2>1, <2>2, BurntKept DEF FilesFollow, Blacklists, IInv
  <2> QED
    BY <2>1, <2>4, <2>5, IdleOK
<1>7. ASSUME NEW r \in Resident, AdminBan(r)
      PROVE  Rest'
  <2>1. /\ cascade' = Idle
        /\ sanctions' = Issued(r, TRUE, FALSE)
        /\ banned' = banned \cup {r}
        /\ savedGovernance'.sanctions = sanctions'
        /\ UNCHANGED <<registration, blacklist, burnt, sentenced>>
    BY <1>7 DEF AdminBan, SaveGovernance, Governance
  <2>2. FilesFollow
    BY <1>7, FilesFollowed DEF AdminBan
  <2>3. BanHolds' /\ OneCascadeSanction'
    BY <2>1, BooksIssued DEF IInv
  <2>4. BurntForGood'
    BY <2>1, <2>2, BurntKept DEF FilesFollow, Blacklists, IInv
  <2> QED
    BY <2>1, <2>3, <2>4, IdleOK
<1>8. ASSUME NEW indices, LiftSaved(indices)
      PROVE  Rest'
  <2>1. /\ cascade' = Idle
        /\ sanctions' = Lifted(indices)
        /\ banned' = banned \cap RevokedIn(sanctions')
        /\ savedGovernance'.sanctions = sanctions'
        /\ UNCHANGED <<registration, blacklist, burnt, sentenced>>
    BY <1>8 DEF LiftSaved, SaveGovernance, Governance
  <2>2. FilesFollow
    BY <1>8, FilesFollowed DEF LiftSaved
  <2>3. \A book \in Books' : book = sanctions'
    BY <2>1 DEF Books
  <2>4. BanHolds'
    BY <2>1, <2>3 DEF BanHolds
  <2>5. OneIn(sanctions) => OneIn(sanctions')
    BY <2>1, LiftedBook DEF IInv, TypeOK
  <2>6. OneIn(sanctions)
    BY BooksOneIn DEF Books, IInv
  <2>7. \A book \in Books' : OneIn(book)
    BY <2>3, <2>5, <2>6
  <2>8. OneCascadeSanction'
    BY <2>7 DEF OneIn, OneCascadeSanction
  <2>9. BurntForGood'
    BY <2>1, <2>2, BurntKept DEF FilesFollow, Blacklists, IInv
  <2> QED
    BY <2>1, <2>4, <2>8, <2>9, IdleOK
<1>9. ASSUME NEW indices, LiftUnsaved(indices)
      PROVE  Rest'
  BY <1>9, QuietStep DEF LiftUnsaved, LiftUndone, history
<1>10. ASSUME NEW c \in City, NEW blacklists \in BOOLEAN, Isolate(c, blacklists)
       PROVE  Rest'
  <2>1. /\ cascade'.stage = "residents"
        /\ cascade'.done = {}
        /\ cascade'.todo \cap SanctionedIn(sanctions) = {}
        /\ UNCHANGED <<sanctions, blacklist, registration, banned, burnt,
                       sentenced>>
    BY <1>10 DEF Isolate, CascadeTargets, governance, history
  <2>2. FilesFollow
    BY <1>10, FilesFollowed DEF Isolate
  <2>3. BanHolds' /\ OneCascadeSanction'
    BY <2>1, <2>2, BooksKept DEF FilesFollow, Books, IInv
  <2>4. BurntForGood'
    BY <2>1, <2>2, BurntKept DEF FilesFollow, Blacklists, IInv
  <2>5. CascadeOK'
    BY <2>1 DEF CascadeOK
  <2> QED
    BY <2>3, <2>4, <2>5
<1>11. ASSUME NEW r \in Resident, CascadeSuspend(r), NEW q \in sentenced
       PROVE  registration'[q] = registration[q]
  <2>1. /\ q \in Resident
        /\ registration[q].state = "Suspended"
        /\ registration[q] \in Registration
        /\ registration \in [Resident -> Registration]
    BY DEF IInv, TypeOK, BurntForGood
  <2>2. [registration[q] EXCEPT !.state = "Suspended"] = registration[q]
    BY <2>1 DEF Registration
  <2> QED
    BY <1>11, <2>1, <2>2 DEF CascadeSuspend
<1>12. ASSUME NEW r \in Resident, CascadeRefused(r)
       PROVE  Rest'
  <2>1. CascadeSuspend(r)
    BY <1>12 DEF CascadeRefused
  <2>2. UNCHANGED <<sanctions, blacklist, banned, burnt, sentenced, files>> /\ cascade' = Idle
    BY <1>12, <2>1 DEF CascadeRefused, CascadeSuspend, history
  <2> QED
    BY <1>11, <2>1, <2>2, QuietStep
<1>13. ASSUME NEW r \in Resident, CascadeResidentSaved(r)
       PROVE  Rest'
  BY <1>0, <1>13, CascadeSavedStep
<1>14. ASSUME NEW r \in Resident, CascadeResidentUnsaved(r)
       PROVE  Rest'
  <2>1. /\ CascadeSuspend(r)
        /\ cascade' = Idle
        /\ sanctions' = Issued(r, TRUE, TRUE)
        /\ blacklist \subseteq blacklist'
        /\ UNCHANGED <<savedGovernance, savedAuth>>
    BY <1>14 DEF CascadeResidentUnsaved, CascadeResident, WriteFails, files
  <2>2. UNCHANGED <<banned, burnt, sentenced>> /\ r \notin SanctionedIn(sanctions)
    BY <2>1 DEF CascadeSuspend, CascadeOK, history, IInv
  <2>3. BanHolds' /\ OneCascadeSanction'
    BY <2>1, <2>2, BooksIssued DEF IInv
  <2>4. BurntForGood'
    BY <1>11, <2>1, <2>2, BurntKept DEF Blacklists, IInv
  <2> QED
    BY <2>1, <2>3, <2>4, IdleOK
<1>15. ASSUME CascadeDone PROVE Rest'
  BY <1>15, ConfirmStep DEF CascadeDone, files
<1>16. ASSUME CascadeAuthSaved PROVE Rest'
  <2>1. /\ cascade'.done = cascade.done
        /\ cascade'.todo = {}
        /\ cascade'.blacklists = cascade.blacklists
        /\ savedAuth' = registration'
        /\ UNCHANGED <<sanctions, blacklist, registration, savedGovernance, banned,
                       burnt, sentenced>>
    BY <1>16 DEF CascadeAuthSaved, Finished, SaveAuth, governance, history, IInv, TypeOK
  <2>2. BanHolds' /\ OneCascadeSanction'
    BY <2>1, BooksKept DEF Books, IInv
  <2>3. BurntForGood'
    BY <2>1, BurntKept DEF Blacklists, IInv
  <2>4. \A r \in Resident : (Burns(r)' <=> Burns(r)) /\ Handles(r)' = Handles(r)
    BY <2>1 DEF Burns, IsRegistered, Handles
  <2>5. cascade.done \subseteq Resident
    BY DEF IInv, TypeOK
  <2>6. CascadeOK'
    BY <2>1, <2>4, <2>5 DEF CascadeOK, Books, IInv
  <2> QED
    BY <2>2, <2>3, <2>6
<1>17. ASSUME CascadeAuthUnsaved PROVE Rest'
  BY <1>17, QuietStep DEF CascadeAuthUnsaved, governance, history
<1>18. ASSUME CascadeGovernanceSaved PROVE Rest'
  BY <1>18, ConfirmStep DEF CascadeGovernanceSaved
<1>19. ASSUME CascadeGovernanceUnsaved PROVE Rest'
  BY <1>19, QuietStep DEF CascadeGovernanceUnsaved, governance, history
<1>20. ASSUME Restart PROVE Rest'
  <2>1. /\ cascade' = Idle
        /\ sanctions' \in Books
        /\ blacklist' \in Blacklists
        /\ registration' = savedAuth
        /\ UNCHANGED <<savedGovernance, savedAuth, banned, burnt, sentenced>>
    BY <1>20 DEF Restart, files, history, Books, Blacklists
  <2>2. BanHolds' /\ OneCascadeSanction'
    BY <2>1, BooksKept DEF Books, IInv
  <2>3. \A q \in sentenced : registration'[q] = registration[q]
    BY <2>1 DEF BurntForGood, IInv
  <2>4. BurntForGood'
    BY <2>1, <2>3, BurntKept DEF Blacklists, IInv
  <2> QED
    BY <2>1, <2>2, <2>4, IdleOK
<1>21. ASSUME UNCHANGED vars PROVE Rest'
  <2>1. UNCHANGED <<sanctions, blacklist, registration, savedGovernance, savedAuth,
                    cascade, banned, burnt, sentenced>>
    BY <1>21 DEF vars, governance, files, history
  <2> QED
    BY <2>1 DEF IInv, BanHolds, BurntForGood, OneCascadeSanction, CascadeOK, Books,
       Blacklists, Burns, IsRegistered, Handles
<1>22. Rest'
  BY <1>1, <1>2, <1>3, <1>4, <1>5, <1>6, <1>7, <1>8, <1>9, <1>10, <1>12, <1>13,
     <1>14, <1>15, <1>16, <1>17, <1>18, <1>19, <1>20, <1>21, <1>23,
     BearerTyped DEF Next
<1> QED
  BY <1>0, <1>22 DEF IInv

LEMMA IInvInit == Init => IInv
<1> SUFFICES ASSUME Init PROVE IInv
  OBVIOUS
<1>1. TypeOK
  BY DEF Init, TypeOK, Governance, Standing, Registration, Unregistered, Idle
<1>2. BanHolds /\ BurntForGood /\ OneCascadeSanction
  BY DEF Init, BanHolds, BurntForGood, OneCascadeSanction, Books, Governance
<1>3. CascadeOK
  BY DEF Init, CascadeOK, Idle
<1> QED
  BY <1>1, <1>2, <1>3 DEF IInv

----------------------------------------------------------------------------
(* Theorems *)

THEOREM Invariance == Spec => []IInv
BY IInvInit, IInvStep, PTL DEF Spec

\* Types, and the order in which an isolation works off its members.
THEOREM TypeCorrect == Spec => []TypeOK
<1>1. IInv => TypeOK
  BY DEF IInv
<1> QED
  BY <1>1, Invariance, PTL

\* Whatever saves fail, whatever is lifted and wherever the gateway restarts, a
\* confirmed ban is in memory and on disk until its lifting is.
THEOREM BansHold == Spec => []BanHolds
<1>1. IInv => BanHolds
  BY DEF IInv
<1> QED
  BY <1>1, Invariance, PTL

\* The handles burnt by a confirmed isolation stay burnt, and their resident stays
\* suspended until a sign-in with a mobile number that is not burnt, for any
\* number of residents, numbers, cities, failures and restarts.
THEOREM BurntHandlesStayBurnt == Spec => []BurntForGood
<1>1. IInv => BurntForGood
  BY DEF IInv
<1> QED
  BY <1>1, Invariance, PTL

\* However often isolations are repeated, a resident has one active sanction from
\* them.
THEOREM IsolationsSanctionOnce == Spec => []OneCascadeSanction
<1>1. IInv => OneCascadeSanction
  BY DEF IInv
<1> QED
  BY <1>1, Invariance, PTL
=============================================================================
