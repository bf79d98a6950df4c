----------------------------- MODULE Onboarding -----------------------------
(***************************************************************************)
(* POST /auth/session/import: a login finds or creates the person's user   *)
(* row and then its wallet.  Several logins run at once, of one person and *)
(* of several; every look-up, insert and save is a step of its own, and    *)
(* users and wallets may be removed (softly) between any two of them.      *)
(*                                                                         *)
(* A user row is named by the login that inserted it; a wallet row by the  *)
(* person whose Para wallet it registers: addresses are unique, and rows   *)
(* are never deleted, so there is at most one per address.                 *)
(***************************************************************************)
EXTENDS Integers

CONSTANTS
    Person,         \* the people who log in, each with one Para account and wallet
    LoginCall,      \* the logins
    Callers,        \* whom the logins may be by: functions from logins to people
    Contacts,       \* what the sessions may show: functions from people to sets
                    \* of "email" and "phone"
    NoOne,          \* an absent value (NULL)
    Empty,          \* the empty string
    MaxRemovals     \* bound on removals of users and wallets

ASSUME OnboardingAssumption ==
    /\ Callers \subseteq [LoginCall -> Person]
    /\ Contacts \subseteq [Person -> SUBSET {"email", "phone"}]
    /\ Person \cap LoginCall = {} /\ NoOne # Empty
    /\ NoOne \notin Person \cup LoginCall /\ Empty \notin Person \cup LoginCall
    /\ MaxRemovals \in Nat

VARIABLES
    contact,    \* what each person's session shows
    person,     \* who each login is by
    stage,      \* the await a login stands at
    recognised, \* whether extractUserInfo read the session, or made up a user
    user,       \* the user rows
    who,        \* the user row a login has settled on
    wallet,     \* the wallet rows: [owner, active]
    faulted,    \* the logins one of whose queries failed, or that found no wallet
                \* in their session
    removals    \* removals so far

onboardingVars ==
    <<contact, person, stage, recognised, user, who, wallet, faulted, removals>>
tables == <<user, wallet, removals>>
fixedOfLogin == <<contact, person, recognised>>

InUserPart == {"finding", "creating", "inserting", "recovering", "reactivating", "refreshing"}
InWalletPart == {"findingWallet", "checkingWallet", "insertingWallet"}
NoRow == [email |-> NoOne, phone |-> NoOne, authId |-> NoOne, active |-> FALSE]
NoWallet == [owner |-> NoOne, active |-> FALSE]
Rows == {u \in LoginCall : user[u] # NoRow}
To(l, label) == stage' = [stage EXCEPT ![l] = label]

\* The session data of a login.
Email(l) == IF recognised[l] /\ "email" \in contact[person[l]] THEN person[l] ELSE NoOne
Phone(l) == IF recognised[l] /\ "phone" \in contact[person[l]] THEN person[l] ELSE NoOne

-----------------------------------------------------------------------------
(* Mutated forms of definitions below, each a plausible slip in the code.  No  *)
(* specification uses them; they show that the properties notice such a slip.  *)

\* An absent phone is stored as the empty string, which is unique like any other.
PhoneOrEmpty(l) == IF Phone(l) = NoOne THEN Empty ELSE Phone(l)

\* Only a login that creates its user also sets up the wallet.
WalletForNewUsersOnly(l) == IF who[l] = l THEN "findingWallet" ELSE "done"

\* The second look for the user, after the insert was refused, is left out, and
\* the insert is tried again without the contact data.
InsertWithoutContact(l) ==
    /\ user' = [user EXCEPT ![l] = [NoRow EXCEPT !.authId = person[l], !.active = TRUE]]
    /\ who' = [who EXCEPT ![l] = l]
    /\ To(l, "refreshing")

-----------------------------------------------------------------------------
\* Para's user id.  The one extractUserInfo makes up is new each time.
ParaUserId(l) == IF recognised[l] THEN person[l] ELSE l

PhoneColumn(l) == Phone(l)

ByEmail(l, A) == {u \in A : Email(l) # NoOne /\ user[u].email = Email(l)}
ByPhone(l, A) == {u \in A : Phone(l) # NoOne /\ user[u].phone = Phone(l)}
ByParaUserId(l, A) == {u \in A : user[u].authId = ParaUserId(l)}

\* The strategies of createUserFromSession, in order: the users it may find.
Found(l, A) ==
    CASE ByEmail(l, A) # {} -> ByEmail(l, A)
      [] ByEmail(l, A) = {} /\ ByPhone(l, A) # {} -> ByPhone(l, A)
      [] OTHER -> ByParaUserId(l, A)

\* The constraints a new row would violate: those on email and phone.
EmailTaken(l) == \E u \in Rows : user[u].email # NoOne /\ user[u].email = Email(l)
PhoneTaken(l) == \E u \in Rows : user[u].phone # NoOne /\ user[u].phone = PhoneColumn(l)

OnboardingInit ==
    /\ contact \in Contacts
    /\ person \in Callers
    /\ stage = [l \in LoginCall |-> "new"]
    /\ recognised = [l \in LoginCall |-> TRUE]
    /\ user = [u \in LoginCall |-> NoRow]
    /\ who = [l \in LoginCall |-> NoOne]
    /\ wallet = [p \in Person |-> NoWallet]
    /\ faulted = {}
    /\ removals = 0

OnboardingTypeOK ==
    /\ contact \in Contacts
    /\ person \in Callers
    /\ stage \in [LoginCall -> InUserPart \cup InWalletPart \cup {"new", "done", "refused", "gone"}]
    /\ recognised \in [LoginCall -> BOOLEAN]
    /\ user \in [LoginCall -> [email : Person \cup {NoOne}, phone : Person \cup {NoOne, Empty},
                               authId : Person \cup LoginCall \cup {NoOne}, active : BOOLEAN]]
    /\ who \in [LoginCall -> LoginCall \cup {NoOne}]
    /\ wallet \in [Person -> [owner : LoginCall \cup {NoOne}, active : BOOLEAN]]
    /\ faulted \subseteq LoginCall
    /\ removals \in 0 .. MaxRemovals

-----------------------------------------------------------------------------
\* importClientSession.  Any exception while it reads the session or asks Para for
\* a JWT makes extractUserInfo answer with a made-up user.
ImportClientSession(l) ==
    /\ stage[l] = "new"
    /\ recognised' \in {recognised, [recognised EXCEPT ![l] = FALSE]}
    /\ To(l, "finding")
    /\ UNCHANGED <<contact, person, who, faulted, tables>>

\* The controller looks among the active users first.  (Its third look-up compares
\* the identifier with authProviderId, where Para's user id is stored.)
FindActiveUser(l) ==
    /\ stage[l] = "finding"
    /\ LET active == {u \in Rows : user[u].active}
           found  == IF ByEmail(l, active) # {} THEN ByEmail(l, active) ELSE ByPhone(l, active)
       IN  \/ /\ found = {}
              /\ To(l, "creating")
              /\ UNCHANGED who
           \/ /\ who' \in {[who EXCEPT ![l] = u] : u \in found}
              /\ To(l, "refreshing")
    /\ UNCHANGED <<faulted, fixedOfLogin, tables>>

\* A user found is used, and reactivated first when it had been removed.
Settle(l, found) ==
    \E u \in found :
        /\ who' = [who EXCEPT ![l] = u]
        /\ To(l, IF user[u].active THEN "refreshing" ELSE "reactivating")

FindAnyUser(l) ==
    /\ stage[l] = "creating"
    /\ IF Found(l, Rows) = {} THEN To(l, "inserting") /\ UNCHANGED who ELSE Settle(l, Found(l, Rows))
    /\ UNCHANGED <<faulted, fixedOfLogin, tables>>

InsertUser(l) ==
    /\ stage[l] = "inserting"
    /\ IF EmailTaken(l) \/ PhoneTaken(l)
       THEN To(l, "recovering") /\ UNCHANGED <<user, who>>
       ELSE /\ user' = [user EXCEPT ![l] = [email |-> Email(l), phone |-> PhoneColumn(l),
                                            authId |-> ParaUserId(l), active |-> TRUE]]
            /\ who' = [who EXCEPT ![l] = l]
            /\ To(l, "refreshing")
    /\ UNCHANGED <<wallet, faulted, removals, fixedOfLogin>>

\* The look-ups after a unique violation.  When the database names the empty phone,
\* anyone without a phone is taken before the Para user id is looked at; the last
\* two strategies look up the same values again.
FoundAfterConflict(l) ==
    LET byContact == IF ByEmail(l, Rows) # {} THEN ByEmail(l, Rows) ELSE ByPhone(l, Rows)
        withoutPhone == {u \in Rows : user[u].phone \in {NoOne, Empty}}
    IN  CASE byContact # {} -> byContact
          [] byContact = {} /\ PhoneTaken(l) /\ PhoneColumn(l) = Empty -> withoutPhone
          [] OTHER -> ByParaUserId(l, Rows)

RecoverUser(l) ==
    /\ IF FoundAfterConflict(l) = {} THEN To(l, "refused") /\ UNCHANGED who
       ELSE Settle(l, FoundAfterConflict(l))
    /\ UNCHANGED user

RecoverFromConflict(l) ==
    /\ stage[l] = "recovering"
    /\ RecoverUser(l)
    /\ UNCHANGED <<wallet, faulted, removals, fixedOfLogin>>

\* The save of the inactive row found, with what the session adds to it.
ReactivateUser(l) ==
    /\ stage[l] = "reactivating"
    /\ LET row == user[who[l]]
           Or(old, new) == IF old \in {NoOne, Empty} THEN new ELSE old
       IN  user' = [user EXCEPT ![who[l]] =
                       [email |-> Or(row.email, Email(l)), phone |-> Or(row.phone, Phone(l)),
                        authId |-> ParaUserId(l), active |-> TRUE]]
    /\ To(l, "refreshing")
    /\ UNCHANGED <<who, wallet, faulted, removals, fixedOfLogin>>

AfterRefresh(l) == "findingWallet"

\* updateLastLogin, whose failure is ignored, and findOne among the active users.
RefreshUser(l) ==
    /\ stage[l] = "refreshing"
    /\ To(l, IF user[who[l]].active THEN AfterRefresh(l) ELSE "refused")
    /\ UNCHANGED <<who, faulted, fixedOfLogin, tables>>

HasActiveWallet(u) == \E p \in Person : wallet[p].owner = u /\ wallet[p].active

FindWallet(l) ==
    /\ stage[l] = "findingWallet"
    /\ To(l, IF HasActiveWallet(who[l]) THEN "done" ELSE "checkingWallet")
    /\ UNCHANGED <<who, faulted, fixedOfLogin, tables>>

\* extractWalletFromSession answers null: the session shows no Solana wallet, or one
\* without an address, or cannot be read.  The login goes on without a wallet.
SessionShowsNoWallet(l) ==
    /\ stage[l] = "findingWallet"
    /\ ~HasActiveWallet(who[l])
    /\ To(l, "done")
    /\ faulted' = faulted \cup {l}
    /\ UNCHANGED <<who, fixedOfLogin, tables>>

\* The two checks of WalletService.create: the user's active wallet, and the address
\* whatever its status.  A conflict is only logged.
CheckWallet(l) ==
    /\ stage[l] = "checkingWallet"
    /\ To(l, IF HasActiveWallet(who[l]) \/ wallet[person[l]] # NoWallet
             THEN "done" ELSE "insertingWallet")
    /\ UNCHANGED <<who, faulted, fixedOfLogin, tables>>

\* The insert, refused when the address has been registered meanwhile.
InsertWallet(l) ==
    /\ stage[l] = "insertingWallet"
    /\ wallet' = IF wallet[person[l]] # NoWallet THEN wallet
                 ELSE [wallet EXCEPT ![person[l]] = [owner |-> who[l], active |-> TRUE]]
    /\ To(l, "done")
    /\ UNCHANGED <<user, who, faulted, removals, fixedOfLogin>>

-----------------------------------------------------------------------------
\* A query fails: the login is refused, or goes on without the wallet.
QueryFails(l) ==
    /\ stage[l] \in InUserPart \cup InWalletPart
    /\ To(l, IF stage[l] \in InUserPart THEN "refused" ELSE "done")
    /\ faulted' = faulted \cup {l}
    /\ UNCHANGED <<who, fixedOfLogin, tables>>

\* The process dies with the login; what it has written stays.
LoginLost(l) ==
    /\ stage[l] \in InUserPart \cup InWalletPart
    /\ To(l, "gone")
    /\ UNCHANGED <<who, faulted, fixedOfLogin, tables>>

\* UserService.remove and WalletService.remove.
RemoveUser(u) ==
    /\ removals < MaxRemovals
    /\ user[u].active
    /\ user' = [user EXCEPT ![u].active = FALSE]
    /\ removals' = removals + 1
    /\ UNCHANGED <<stage, who, wallet, faulted, fixedOfLogin>>

RemoveWallet(p) ==
    /\ removals < MaxRemovals
    /\ wallet[p].active
    /\ wallet' = [wallet EXCEPT ![p].active = FALSE]
    /\ removals' = removals + 1
    /\ UNCHANGED <<stage, who, user, faulted, fixedOfLogin>>

\* POST /wallet and /wallet/connect with the session's address, after the login.
CreateWalletLater(l) ==
    /\ stage[l] = "done"
    /\ ~HasActiveWallet(who[l])
    /\ To(l, "checkingWallet")
    /\ UNCHANGED <<who, faulted, fixedOfLogin, tables>>

LoginStep(l) ==
    \/ ImportClientSession(l) \/ FindActiveUser(l) \/ FindAnyUser(l) \/ InsertUser(l)
    \/ RecoverFromConflict(l) \/ ReactivateUser(l) \/ RefreshUser(l)
    \/ FindWallet(l) \/ SessionShowsNoWallet(l) \/ CheckWallet(l) \/ InsertWallet(l)
    \/ QueryFails(l) \/ LoginLost(l) \/ CreateWalletLater(l)

OnboardingNext ==
    \/ \E l \in LoginCall : LoginStep(l) \/ RemoveUser(l)
    \/ \E p \in Person : RemoveWallet(p)

OnboardingSpec == OnboardingInit /\ [][OnboardingNext]_onboardingVars

-----------------------------------------------------------------------------
(* Properties. *)

Accepted(l) == stage[l] \in InWalletPart \cup {"done"}

\* Two logins of one person end at the same user, however their look-ups, inserts
\* and reactivations interleave with each other and with removals.  It needs a
\* session that was recognised and that shows an email or a phone: only those
\* columns are unique.
SameUserEachLogin ==
    \A l, m \in LoginCall :
        /\ Accepted(l) /\ Accepted(m)
        /\ person[l] = person[m] /\ contact[person[l]] # {}
        /\ recognised[l] /\ recognised[m]
        => who[l] = who[m]

\* No login ends at a user of someone else: in particular not at some user without
\* a phone, whom the recovery from a conflict may look for.
NoStranger ==
    \A l \in LoginCall : Accepted(l) => user[who[l]].authId = ParaUserId(l)

\* A login all of whose queries succeeded leaves the session's address registered,
\* whatever earlier logins failed to do; and unless a login of that person was not
\* recognised, or the person's contact data could not keep the users apart, it
\* belongs to the user logged in.
LoginLeavesWallet ==
    \A l \in LoginCall :
        LET human == person[l]
        IN  stage[l] = "done" /\ l \notin faulted =>
                /\ wallet[human] # NoWallet
                /\ contact[human] # {} /\ (\A m \in LoginCall : person[m] = human => recognised[m])
                   => wallet[human].owner = who[l]
=============================================================================
