------------------------------- MODULE SignIn -------------------------------
(***************************************************************************)
(* Signing up and signing in, by email and password, by Telegram or by     *)
(* Google: the lockout after too many failures, the accounts, and the      *)
(* identities that open them.                                              *)
(*                                                                         *)
(* The lockout is looked at when a request arrives, the outcome is         *)
(* recorded when it has been checked, and other requests run in between.   *)
(* So do other transactions between the lookups of a first sign-in and its *)
(* inserts; the unique indexes are what keeps two of them apart.           *)
(*                                                                         *)
(* A request that Telegram or Google does not vouch for changes nothing,   *)
(* not even the count of failures.  Successful attempts are recorded too,  *)
(* but nothing reads them.                                                 *)
(***************************************************************************)
EXTENDS Naturals, FiniteSets, Functions

CONSTANTS
  Emails, TelegramIds, GoogleSubs,   \* external ids, by provider
  EmailOf,     \* EmailOf[g]: the address Google knows for account g
  Clients,     \* sign-in requests that may be in flight at once
  MaxFails,    \* AUTH_LOGIN_MAX_FAILS, 5 in the code
  Window       \* AUTH_LOGIN_WINDOW_MS, in ticks

Identities == Emails \cup TelegramIds \cup GoogleSubs

NoEmail == "none"

\* An external_identity row is known by its provider and the id there, so that
\* no identity is of two providers.
ASSUME SignInAssumption ==
  /\ IsFiniteSet(Identities) /\ IsFiniteSet(Clients)
  /\ Emails \cap (TelegramIds \cup GoogleSubs) = {} /\ NoEmail \notin Emails
  /\ EmailOf \in [GoogleSubs -> Emails]
  /\ Window \in Nat /\ MaxFails \in Nat \ {0}

VARIABLES
  user,     \* user[u]: the user row, or NoRow
  owner,    \* owner[i]: the user of the external_identity row of i, or NoUser
  wallets,  \* users whose wallets have been opened
  failed,   \* failed[i][k]: failed attempts recorded for i k ticks ago
  client    \* client[c]: the request in flight, or Quiet

signInVars == <<user, owner, wallets, failed, client>>

\* No identity makes more than one user, so there are enough of them.
UserIds == 1..Cardinality(Identities)
NoUser == 0

UserRow(email, password) == [email |-> email, password |-> password]
NoRow == UserRow(NoEmail, FALSE)

Rows == {u \in UserIds : \E i \in Identities : owner[i] = u}

Quiet == [stage |-> "quiet"]

SignInInit ==
  /\ user = [u \in UserIds |-> NoRow]
  /\ owner = [i \in Identities |-> NoUser]
  /\ wallets = {}
  /\ failed = [i \in Identities |-> [k \in 0..Window |-> 0]]
  /\ client = [c \in Clients |-> Quiet]

accounts == <<user, owner, wallets>>

At(c, stage) == client[c].stage = stage

Move(c, stage) == client' = [client EXCEPT ![c].stage = stage]

\* What a lookup found is kept for the writes.
Keep(c, stage, u) ==
  client' = [client EXCEPT ![c].stage = stage, ![c].user = u,
                           ![c].blank = u # NoUser => user[u].email = NoEmail]

Finish(c) == client' = [client EXCEPT ![c] = Quiet]

-----------------------------------------------------------------------------
(* Attempts *)

\* countRecentFailures: successes do not reset the window.
RecentFailures(i) == SumFunction(failed[i])

\* Fault: off by one.
LockedLate(i) == RecentFailures(i) > MaxFails

\* assertNotLocked refuses.
Locked(i) == RecentFailures(i) >= MaxFails

\* The request is refused and the failure recorded; if the insert fails that
\* is only logged.
Reject(c) ==
  /\ \/ failed' = [failed EXCEPT ![client[c].id][0] = @ + 1]
     \/ UNCHANGED failed
  /\ Finish(c)
  /\ UNCHANGED accounts

\* The success is recorded, and a session is made for u.
Accept(c, u) ==
  /\ Keep(c, "issue", u)
  /\ UNCHANGED failed

\* What a request brings from a provider: an id with a signature over it and a
\* date.  Nothing marks a proof as used, so it may be shown again while fresh.
Proofs ==
  [id : Identities, signed : BOOLEAN, dated : {"ahead", "lately", "longAgo"}]

\* Fault: whatever is said is believed.
AnyInitData(p) == TRUE

\* verifyTelegramInitData: the hash, auth_date neither a minute ahead nor too
\* old, and a user with a number.
InitDataVouches(p) == p.id \in TelegramIds /\ p.signed /\ p.dated = "lately"

\* verifyTelegramWidget: the same for the fields of the login widget, signed
\* with another key.
WidgetVouches(p) == p.id \in TelegramIds /\ p.signed /\ p.dated = "lately"

\* verifyGoogleIdToken: the library checks signature, audience and dates, and
\* a subject must be there.
GoogleVouches(p) == p.id \in GoogleSubs /\ p.signed /\ p.dated = "lately"

\* A request, and whether what it brings proves it: a provider's proof that has
\* been checked, or the password that was set at sign-up, still to be compared.
Arrive(c, op, i, claim, proven) ==
  /\ At(c, "quiet")
  /\ ~Locked(i)
  /\ client' = [client EXCEPT ![c] =
       [stage |-> op, id |-> i, claim |-> claim, proven |-> proven,
        user |-> NoUser, blank |-> TRUE]]
  /\ UNCHANGED <<accounts, failed>>

\* loginTelegram and loginTelegramWidget up to the lockout.
ArriveTelegram(c, p) ==
  /\ InitDataVouches(p) \/ WidgetVouches(p)
  /\ Arrive(c, "telegram", p.id, "none", p.signed)

\* loginGoogle up to the lockout; Google may withhold the address or leave it
\* unverified.
ArriveGoogle(c, p) ==
  /\ GoogleVouches(p)
  /\ \E claim \in {"withheld", "unverified", "verified"} :
       Arrive(c, "google", p.id, claim, p.signed)

-----------------------------------------------------------------------------
(* New rows *)

EmailTaken(e) == \E u \in Rows : user[u].email = e

FreshUser == CHOOSE u \in UserIds : u \notin Rows

\* The inserts of a new user with its identity; the transaction succeeds only
\* if neither index objects.
InsertUser(i, row) ==
  /\ row.email = NoEmail \/ ~EmailTaken(row.email)
  /\ owner[i] = NoUser
  /\ user' = [user EXCEPT ![FreshUser] = row]
  /\ owner' = [owner EXCEPT ![i] = FreshUser]

\* Fault: wallets are left to be opened on demand.
OpenNoWallets(u) == UNCHANGED wallets

\* One wallet per currency, in the transaction of the first sign-in.
OpenWallets(u) == wallets' = wallets \cup {u}

-----------------------------------------------------------------------------
(* Email and password *)

\* signupEmail: user and identity in one transaction, or email_taken.
Signup(c) ==
  LET e == client[c].id
  IN  /\ At(c, "signup")
      /\ \/ /\ InsertUser(e, UserRow(e, TRUE))
            /\ Accept(c, FreshUser)
            /\ UNCHANGED wallets
         \/ /\ EmailTaken(e) \/ owner[e] # NoUser
            /\ Reject(c)

\* Fault: the outcome of the dummy check counts.
UserOfAnyEmail(e) == {u \in UserIds : user[u].email = e} \cup {NoUser}

\* The user row with a password to compare with.
UserWithPassword(e) == {u \in UserIds : user[u].email = e /\ user[u].password}

\* verifyPassword: does the password typed give the stored hash?
VerifyPassword(c) == client[c].proven

\* loginEmail; without a password to compare with a dummy takes as long and
\* fails.
LoginEmail(c) ==
  /\ At(c, "login")
  /\ \/ /\ VerifyPassword(c)
        /\ \E u \in UserWithPassword(client[c].id) : Accept(c, u)
        /\ UNCHANGED accounts
     \/ /\ ~VerifyPassword(c) \/ UserWithPassword(client[c].id) = {}
        /\ Reject(c)

-----------------------------------------------------------------------------
(* Telegram and Google *)

FindIdentity(c) ==
  /\ \/ At(c, "telegram") /\ Keep(c, "telegramWrite", owner[client[c].id])
     \/ /\ At(c, "google")
        /\ Keep(c, IF owner[client[c].id] # NoUser THEN "googleKnown"
                   ELSE IF client[c].claim = "verified" THEN "googleEmail"
                   ELSE "googleWrite",
                owner[client[c].id])
  /\ UNCHANGED <<accounts, failed>>

\* Fault: the loser of a race between two first sign-ins keeps its user.
TelegramWriteAnyway(c) ==
  /\ At(c, "telegramWrite")
  /\ Accept(c, IF client[c].user # NoUser THEN client[c].user ELSE FreshUser)
  /\ IF owner[client[c].id] = NoUser
     THEN /\ InsertUser(client[c].id, NoRow)
          /\ OpenWallets(FreshUser)
     ELSE UNCHANGED accounts

TelegramWrite(c) ==
  /\ At(c, "telegramWrite")
  /\ \/ /\ client[c].user # NoUser
        /\ Accept(c, client[c].user)
        /\ UNCHANGED accounts
     \/ /\ client[c].user = NoUser
        /\ InsertUser(client[c].id, NoRow)
        /\ OpenWallets(FreshUser)
        /\ Accept(c, FreshUser)
     \/ /\ client[c].user = NoUser /\ owner[client[c].id] # NoUser
        /\ Reject(c)

\* A known Google account: its user gets the address if it has none.  When
\* somebody else has the address the failed update aborts the transaction, so
\* that catching the error does not save the sign-in.
GoogleKnown(c) ==
  LET e == EmailOf[client[c].id]
      backfill == client[c].claim # "withheld" /\ client[c].blank
      taken == \E u \in Rows \ {client[c].user} : user[u].email = e
  IN  /\ At(c, "googleKnown")
      /\ \/ /\ backfill /\ taken
            /\ Reject(c)
         \/ /\ ~(backfill /\ taken)
            /\ user' = IF backfill THEN [user EXCEPT ![client[c].user].email = e]
                       ELSE user
            /\ Accept(c, client[c].user)
            /\ UNCHANGED <<owner, wallets>>

\* A new Google account with a verified address: is there a user with it?
FindByEmail(c) ==
  /\ At(c, "googleEmail")
  /\ \/ \E u \in Rows : user[u].email = EmailOf[client[c].id] /\ Keep(c, "googleWrite", u)
     \/ ~EmailTaken(EmailOf[client[c].id]) /\ Move(c, "googleWrite")
  /\ UNCHANGED <<accounts, failed>>

GoogleWrite(c) ==
  LET g == client[c].id
      u == client[c].user
      row == IF client[c].claim = "verified" THEN UserRow(EmailOf[g], FALSE) ELSE NoRow
  IN  /\ At(c, "googleWrite")
      /\ \/ /\ u # NoUser /\ owner[g] = NoUser
            /\ owner' = [owner EXCEPT ![g] = u]
            /\ OpenWallets(u)
            /\ Accept(c, u)
            /\ UNCHANGED user
         \/ /\ u = NoUser
            /\ InsertUser(g, row)
            /\ OpenWallets(FreshUser)
            /\ Accept(c, FreshUser)
         \/ /\ owner[g] # NoUser \/ (u = NoUser /\ EmailTaken(row.email))
            /\ Reject(c)

-----------------------------------------------------------------------------

IssueSession(c) ==
  /\ At(c, "issue")
  /\ Finish(c)
  /\ UNCHANGED <<accounts, failed>>

\* The process dies, or the database fails: open transactions roll back.
Drop(c) ==
  /\ ~At(c, "quiet")
  /\ Finish(c)
  /\ UNCHANGED <<accounts, failed>>

\* Time passes, and what falls out of the window counts no more.
Tick ==
  /\ failed' = [i \in Identities |->
       [k \in 0..Window |-> IF k = 0 THEN 0 ELSE failed[i][k - 1]]]
  /\ UNCHANGED <<accounts, client>>

SignInNext ==
  \/ \E c \in Clients :
       \/ \E e \in Emails :
            \/ Arrive(c, "signup", e, "none", TRUE)
            \/ \E right \in BOOLEAN : Arrive(c, "login", e, "none", right)
       \/ \E p \in Proofs : ArriveTelegram(c, p) \/ ArriveGoogle(c, p)
       \/ Signup(c) \/ LoginEmail(c)
       \/ FindIdentity(c) \/ TelegramWrite(c)
       \/ GoogleKnown(c) \/ FindByEmail(c) \/ GoogleWrite(c)
       \/ IssueSession(c) \/ Drop(c)
  \/ Tick

SignInSpec == SignInInit /\ [][SignInNext]_signInVars

-----------------------------------------------------------------------------

Stages ==
  {"signup", "login", "telegram", "telegramWrite", "google", "googleKnown",
   "googleEmail", "googleWrite", "issue"}

SignInRequests ==
  [stage : Stages, id : Identities, user : UserIds \cup {NoUser}, blank : BOOLEAN,
   claim : {"none", "withheld", "unverified", "verified"}, proven : BOOLEAN]

\* Type invariant.
SignInTypeOK ==
  /\ user \in [UserIds -> [email : Emails \cup {NoEmail}, password : BOOLEAN]]
  /\ owner \in [Identities -> UserIds \cup {NoUser}]
  /\ wallets \subseteq UserIds
  /\ failed \in [Identities -> [0..Window -> Nat]]
  /\ client \in [Clients -> SignInRequests \cup {Quiet}]
  /\ \A c \in Clients : At(c, "issue") => client[c].user # NoUser

(***************************************************************************)
(* Requests that pass the lockout together may each fail, so a window can  *)
(* hold more failures than the limit (R1.7), but never more than one below *)
(* it and one for each request that was in flight when it was reached.     *)
(***************************************************************************)
LockoutHolds ==
  \A i \in Identities : RecentFailures(i) <= MaxFails - 1 + Cardinality(Clients)

(***************************************************************************)
(* Whatever first sign-ins race with each other, an account is whole: an   *)
(* address belongs to one user, a password to a user whose address can be  *)
(* signed in with, and whoever came by Telegram or Google has wallets.     *)
(***************************************************************************)
AccountsAreWhole ==
  /\ \A u, v \in UserIds :
       user[u].email = user[v].email /\ user[u].email # NoEmail => u = v
  /\ \A u \in UserIds : user[u] # NoRow => u \in Rows
  /\ \A u \in UserIds : user[u].password => owner[user[u].email] = u
  /\ \A i \in TelegramIds \cup GoogleSubs :
       owner[i] # NoUser => owner[i] \in wallets

(***************************************************************************)
(* The session that a request ends with is for the user whose identity it  *)
(* has proved, by the password or under the provider's signature, even if  *)
(* the identity was unknown when it looked, and the identity stays with    *)
(* that user.                                                              *)
(***************************************************************************)
RightUser ==
  [][\A c \in Clients :
       At(c, "issue") =>
         /\ owner[client[c].id] = client[c].user
         /\ client[c].proven
         /\ owner'[client[c].id] = owner[client[c].id]]_signInVars
=============================================================================
