---------------------------- MODULE SignIn_proofs ----------------------------
(***************************************************************************)
(* Proofs about SignIn for any number of identities and of requests in     *)
(* flight, any limit of failures and any window.                           *)
(***************************************************************************)
EXTENDS SignIn, FiniteSums

-----------------------------------------------------------------------------
(* The inductive invariant *)

UserRows == [email : Emails \cup {NoEmail}, password : BOOLEAN]

AccountTypes ==
  /\ user \in [UserIds -> UserRows]
  /\ owner \in [Identities -> UserIds \cup {NoUser}]
  /\ wallets \subseteq UserIds

\* Accounts are whole, and passwords go with addresses.
AccountsInv ==
  /\ AccountTypes
  /\ AccountsAreWhole
  /\ \A u \in UserIds : user[u].password => user[u].email \in Emails

\* What a request in flight has found out stays true: a user that it found or
\* made is there, and is the owner of the identity once that has been decided;
\* and one that is to get the address of its Google account has no password.
Fits(r) ==
  /\ r.stage \in {"signup", "login"} => r.id \in Emails
  /\ r.stage \in {"telegram", "telegramWrite"} => r.id \in TelegramIds
  /\ r.stage \in {"google", "googleKnown", "googleEmail", "googleWrite"} =>
       r.id \in GoogleSubs
  /\ r.stage # "login" => r.proven
  /\ r.stage \in {"googleKnown", "issue"} => r.user # NoUser
  /\ r.user # NoUser =>
       /\ r.user \in Rows
       /\ r.stage \in {"telegramWrite", "googleKnown", "issue"} => owner[r.id] = r.user
       /\ r.stage = "googleKnown" /\ r.blank => ~user[r.user].password

RequestsInv ==
  /\ client \in [Clients -> SignInRequests \cup {Quiet}]
  /\ \A c \in Clients : client[c] # Quiet => Fits(client[c])

Busy(i) == {c \in Clients : ~At(c, "quiet") /\ client[c].id = i}

\* Each request in flight may add one failure, so the places that are left
\* under the bound are counted with the requests.
PlacesAreLeft ==
  \A i \in Identities :
    RecentFailures(i) + Cardinality(Busy(i)) <= MaxFails - 1 + Cardinality(Clients)

FailedType == failed \in [Identities -> [0..Window -> Nat]]

SignInInv == AccountsInv /\ RequestsInv /\ FailedType /\ PlacesAreLeft

-----------------------------------------------------------------------------
(* Failures in the window *)

LEMMA Bounds ==
  /\ IsFiniteSet(Identities) /\ IsFiniteSet(Clients)
  /\ Emails \cap (TelegramIds \cup GoogleSubs) = {} /\ NoEmail \notin Emails
  /\ EmailOf \in [GoogleSubs -> Emails]
  /\ Window \in Nat /\ MaxFails \in Nat \ {0}
  /\ Cardinality(Clients) \in Nat /\ Cardinality(Identities) \in Nat
BY SignInAssumption, FS_CardinalityType

\* The sum over one tick, and over one tick more.
LEMMA SumOfOne ==
  ASSUME NEW h \in [0..0 -> Int]
  PROVE  SumFunction(h) = h[0]
<1>1. PICK S : S = {}
  OBVIOUS
<1>2. PICK f : f = [x \in S |-> 0]
  OBVIOUS
<1>3. IsFiniteSet(S) /\ f \in [S -> Int] /\ SumFunction(f) = 0
  BY <1>1, <1>2, FS_EmptySet, SumOfZeros
<1>4. S \cup {0} = 0..0 /\ 0 \notin S
  BY <1>1
<1>5. h \in [S \cup {0} -> Int] /\ \A y \in S : h[y] = f[y]
  BY <1>1, <1>4
<1>6. SumFunction(h) = SumFunction(f) + h[0]
  BY <1>3, <1>4, <1>5, SumExtended
<1>7. h[0] \in Int
  OBVIOUS
<1> QED
  BY <1>3, <1>6, <1>7

LEMMA SumOfOneMore ==
  ASSUME NEW n \in Nat, NEW f, f \in [0..n -> Int], NEW h, h \in [0..n + 1 -> Int],
         \A k \in 0..n : h[k] = f[k]
  PROVE  SumFunction(f) \in Int /\ SumFunction(h) = SumFunction(f) + h[n + 1]
<1>1. PICK S : S = 0..n
  OBVIOUS
<1>2. PICK x : x = n + 1
  OBVIOUS
<1>3. IsFiniteSet(S)
  BY <1>1, FS_Interval
<1>4. S \cup {x} = 0..n + 1
  <2>1. \A k \in S \cup {x} : k \in 0..n + 1
    BY <1>1, <1>2
  <2>2. \A k \in 0..n + 1 : k \in S \cup {x}
    BY <1>1, <1>2
  <2> QED
    BY <2>1, <2>2
<1>5. x \notin S
  BY <1>1, <1>2
<1>6. f \in [S -> Int]
  BY <1>1
<1>7. h \in [S \cup {x} -> Int]
  BY <1>4
<1>8. \A y \in S : h[y] = f[y]
  BY <1>1
<1>9. SumFunction(h) = SumFunction(f) + h[x]
  BY ONLY <1>3, <1>5, <1>6, <1>7, <1>8, SumExtended
<1>10. SumFunction(f) \in Int
  BY <1>3, <1>6, SumIsInt
<1> QED
  BY <1>2, <1>9, <1>10

\* The first n + 1 ticks of a window, and what they are one tick later, before
\* anything happens.
Part(f, n) == [k \in 0..n |-> f[k]]
Later(f, n) == [k \in 0..n |-> IF k = 0 THEN 0 ELSE f[k - 1]]

LEMMA PartTypes ==
  ASSUME NEW W \in Nat, NEW f \in [0..W -> Nat], NEW n \in Nat, n <= W
  PROVE  /\ Part(f, n) \in [0..n -> Int] /\ Later(f, n) \in [0..n -> Int]
         /\ f[n] \in Int
<1>1. \A k \in 0..n : f[k] \in Nat
  OBVIOUS
<1>2. \A k \in 0..n : k # 0 => f[k - 1] \in Nat
  OBVIOUS
<1>3. Part(f, n) \in [0..n -> Int]
  BY <1>1 DEF Part
<1>4. Later(f, n) \in [0..n -> Int]
  <2>1. \A k \in 0..n : (IF k = 0 THEN 0 ELSE f[k - 1]) \in Int
    BY <1>2
  <2> QED
    BY <2>1 DEF Later
<1> QED
  BY <1>1, <1>3, <1>4

\* What a window loses when time passes is what leaves it.
LEMMA LaterSum ==
  ASSUME NEW W \in Nat, NEW f \in [0..W -> Nat]
  PROVE  SumFunction(Later(f, W)) <= SumFunction(f)
<1> DEFINE Good(n) ==
      n <= W => SumFunction(Later(f, n)) + f[n] = SumFunction(Part(f, n))
<1>1. Good(0)
  <2>1. Part(f, 0) \in [0..0 -> Int] /\ Later(f, 0) \in [0..0 -> Int] /\ f[0] \in Int
    <3>1. 0 \in Nat /\ 0 <= W
      OBVIOUS
    <3> QED
      BY <3>1, PartTypes
  <2>2. Part(f, 0)[0] = f[0] /\ Later(f, 0)[0] = 0
    BY DEF Part, Later
  <2>3. SumFunction(Part(f, 0)) = f[0] /\ SumFunction(Later(f, 0)) = 0
    BY <2>1, <2>2, SumOfOne
  <2> QED
    BY <2>1, <2>3
<1>2. ASSUME NEW n \in Nat, Good(n) PROVE Good(n + 1)
  <2> SUFFICES ASSUME n + 1 <= W
               PROVE  SumFunction(Later(f, n + 1)) + f[n + 1] = SumFunction(Part(f, n + 1))
    OBVIOUS
  <2>1. /\ Part(f, n) \in [0..n -> Int] /\ Later(f, n) \in [0..n -> Int]
        /\ f[n] \in Int
    BY PartTypes
  <2>2. n + 1 \in Nat
    OBVIOUS
  <2>3. /\ Part(f, n + 1) \in [0..n + 1 -> Int] /\ Later(f, n + 1) \in [0..n + 1 -> Int]
        /\ f[n + 1] \in Int
    BY <2>2, PartTypes
  <2>4. /\ \A k \in 0..n : Part(f, n + 1)[k] = Part(f, n)[k]
        /\ Part(f, n + 1)[n + 1] = f[n + 1]
    BY DEF Part
  <2>5. /\ \A k \in 0..n : Later(f, n + 1)[k] = Later(f, n)[k]
        /\ Later(f, n + 1)[n + 1] = f[n]
    BY DEF Later
  <2>6. /\ SumFunction(Part(f, n)) \in Int
        /\ SumFunction(Part(f, n + 1)) = SumFunction(Part(f, n)) + Part(f, n + 1)[n + 1]
    BY <2>1, <2>3, <2>4, SumOfOneMore
  <2>7. /\ SumFunction(Later(f, n)) \in Int
        /\ SumFunction(Later(f, n + 1)) =
             SumFunction(Later(f, n)) + Later(f, n + 1)[n + 1]
    BY <2>1, <2>3, <2>5, SumOfOneMore
  <2>8. SumFunction(Later(f, n)) + f[n] = SumFunction(Part(f, n))
    BY <1>2
  <2> QED
    BY <2>1, <2>3, <2>4, <2>5, <2>6, <2>7, <2>8
<1>3. Good(W)
  <2> DEFINE T == {n \in Nat : Good(n)}
  <2>1. T \in SUBSET Nat
    OBVIOUS
  <2>2. 0 \in T /\ \A n \in Nat : n \in T => n + 1 \in T
    <3> HIDE DEF Good
    <3> QED
      BY <1>1, <1>2
  <2> HIDE DEF T
  <2>3. W \in T
    BY <2>1, <2>2, Upwards
  <2> QED
    BY <2>3 DEF T
<1>4. Part(f, W) = f /\ f[W] \in Nat
  BY DEF Part
<1>5. SumFunction(Later(f, W)) \in Int
  <2>1. W <= W
    OBVIOUS
  <2>2. Later(f, W) \in [0..W -> Int]
    BY <2>1, PartTypes
  <2>3. IsFiniteSet(0..W)
    BY FS_Interval
  <2> QED
    BY <2>2, <2>3, SumIsInt
<1> QED
  BY <1>3, <1>4, <1>5

LEMMA FailuresType ==
  ASSUME FailedType, NEW i \in Identities
  PROVE  RecentFailures(i) \in Int
<1>1. failed[i] \in [0..Window -> Int]
  BY DEF FailedType
<1>2. IsFiniteSet(0..Window)
  BY Bounds, FS_Interval
<1> QED
  BY <1>1, <1>2, SumIsInt DEF RecentFailures

LEMMA NoFailures ==
  ASSUME NEW i \in Identities, failed[i] = [k \in 0..Window |-> 0]
  PROVE  RecentFailures(i) = 0
<1>1. IsFiniteSet(0..Window)
  BY Bounds, FS_Interval
<1>2. SumFunction([k \in 0..Window |-> 0]) = 0
  BY <1>1, SumOfZeros
<1> QED
  BY <1>2 DEF RecentFailures

-----------------------------------------------------------------------------
(* Accounts *)

\* The rows that new users get.
LEMMA NewRowTypes ==
  /\ \A e \in Emails, b \in BOOLEAN :
       UserRow(e, b) \in UserRows /\ UserRow(e, b).email = e /\ UserRow(e, b).password = b
  /\ NoRow \in UserRows /\ NoRow.email = NoEmail /\ NoRow.password = FALSE
<1>1. \A e \in Emails \cup {NoEmail}, b \in BOOLEAN :
        UserRow(e, b) \in UserRows /\ UserRow(e, b).email = e /\ UserRow(e, b).password = b
  BY DEF UserRows, UserRow
<1> QED
  BY <1>1 DEF NoRow

\* An identity without a user leaves a user id without an identity.
LEMMA FreshIsFree ==
  ASSUME AccountTypes, NEW i \in Identities, owner[i] = NoUser
  PROVE  FreshUser \in UserIds /\ FreshUser \notin Rows
<1>1. \E u \in UserIds : u \notin Rows
  <2> SUFFICES ASSUME \A u \in UserIds : u \in Rows PROVE FALSE
    OBVIOUS
  <2>1. PICK T : T = Identities \ {i}
    OBVIOUS
  <2>2. PICK g : g = [u \in UserIds |-> CHOOSE j \in Identities : owner[j] = u]
    OBVIOUS
  <2>3. ASSUME NEW u \in UserIds PROVE g[u] \in T /\ owner[g[u]] = u
    <3>1. \E j \in Identities : owner[j] = u
      BY DEF Rows
    <3>2. g[u] \in Identities /\ owner[g[u]] = u
      BY <2>2, <3>1
    <3>3. u # NoUser
      BY Bounds DEF UserIds, NoUser
    <3> QED
      BY <2>1, <3>2, <3>3
  <2>4. g \in Injection(UserIds, T)
    <3>1. g \in [UserIds -> T]
      BY <2>2, <2>3
    <3>2. \A u, v \in UserIds : g[u] = g[v] => u = v
      BY <2>3
    <3> QED
      BY <3>1, <3>2 DEF Injection, IsInjective
  <2>5. IsFiniteSet(T) /\ Cardinality(T) = Cardinality(Identities) - 1
    BY <2>1, Bounds, FS_RemoveElement
  <2>6. Cardinality(UserIds) <= Cardinality(T)
    BY <2>4, <2>5, FS_Injection
  <2>7. Cardinality(UserIds) = Cardinality(Identities)
    BY Bounds, FS_Interval DEF UserIds
  <2> QED
    BY <2>5, <2>6, <2>7, Bounds
<1> QED
  BY <1>1 DEF FreshUser

\* Accounts grow: an identity stays with its user, and who is there gets no
\* password.
Grow ==
  /\ \A i \in Identities : owner[i] # NoUser => owner'[i] = owner[i]
  /\ \A u \in Rows : user'[u].password = user[u].password

LEMMA UserIdsAreUsers == NoUser \notin UserIds
BY DEF NoUser, UserIds

\* What an insert of a new user changes.
LEMMA InsertIs ==
  ASSUME AccountTypes, NEW i \in Identities, NEW row \in UserRows, InsertUser(i, row)
  PROVE  \E u \in UserIds :
           /\ u = FreshUser /\ u \notin Rows /\ owner[i] = NoUser
           /\ user' = [user EXCEPT ![u] = row]
           /\ owner' = [owner EXCEPT ![i] = u]
           /\ row.email = NoEmail \/ ~EmailTaken(row.email)
BY FreshIsFree DEF InsertUser

LEMMA InsertGrows ==
  ASSUME AccountTypes, NEW i \in Identities, NEW row \in UserRows, InsertUser(i, row)
  PROVE  /\ Grow
         /\ FreshUser \in UserIds /\ FreshUser \in Rows' /\ owner'[i] = FreshUser
         /\ user'[FreshUser] = row
<1>1. PICK u \in UserIds :
        /\ u = FreshUser /\ u \notin Rows /\ owner[i] = NoUser
        /\ user' = [user EXCEPT ![u] = row]
        /\ owner' = [owner EXCEPT ![i] = u]
  BY InsertIs
<1>2. owner'[i] = u /\ user'[u] = row
  BY <1>1 DEF AccountTypes
<1>3. u \in Rows'
  BY <1>2 DEF Rows
<1>4. \A j \in Identities : owner[j] # NoUser => owner'[j] = owner[j]
  BY <1>1 DEF AccountTypes
<1>5. \A v \in Rows : user'[v].password = user[v].password
  BY <1>1 DEF AccountTypes, Rows
<1> QED
  BY <1>1, <1>2, <1>3, <1>4, <1>5 DEF Grow

\* A new user is a whole account: one that signs up has a password for an
\* address of its own, one that a provider vouches for has wallets.
LEMMA InsertKeeps ==
  ASSUME AccountsInv, NEW i \in Identities, NEW row \in UserRows, InsertUser(i, row),
         row.password => row.email \in Emails /\ row.email = i,
         \/ i \in Emails /\ UNCHANGED wallets
         \/ OpenWallets(FreshUser)
  PROVE  AccountsInv'
<1>0. AccountTypes
  BY DEF AccountsInv
<1>1. PICK u \in UserIds :
        /\ u = FreshUser /\ u \notin Rows /\ owner[i] = NoUser
        /\ user' = [user EXCEPT ![u] = row]
        /\ owner' = [owner EXCEPT ![i] = u]
        /\ row.email = NoEmail \/ ~EmailTaken(row.email)
  BY <1>0, InsertIs
<1>2. /\ owner'[i] = u /\ user'[u] = row
      /\ \A j \in Identities : j # i => owner'[j] = owner[j]
      /\ \A v \in UserIds : v # u => user'[v] = user[v]
  BY <1>0, <1>1 DEF AccountTypes
<1>3. (wallets' = wallets /\ i \in Emails) \/ wallets' = wallets \cup {u}
  BY <1>1 DEF OpenWallets
<1>4. AccountTypes'
  BY <1>0, <1>1, <1>3 DEF AccountTypes
<1>5. \A v, w \in UserIds :
        user'[v].email = user'[w].email /\ user'[v].email # NoEmail => v = w
  <2>1. \A v \in UserIds :
          v # u /\ user[v].email = row.email /\ row.email # NoEmail => FALSE
    <3> SUFFICES ASSUME NEW v \in UserIds, user[v].email = row.email,
                        row.email # NoEmail
                 PROVE  FALSE
      OBVIOUS
    <3>1. v \notin Rows
      BY <1>1 DEF EmailTaken
    <3>2. user[v] = NoRow
      BY <3>1 DEF AccountsInv, AccountsAreWhole
    <3> QED
      BY <3>2 DEF NoRow, UserRow
  <2> QED
    BY <1>2, <2>1 DEF AccountsInv, AccountsAreWhole
<1>6. \A v \in UserIds : user'[v] # NoRow => v \in Rows'
  <2> SUFFICES ASSUME NEW v \in UserIds, user'[v] # NoRow
               PROVE  \E j \in Identities : owner'[j] = v
    BY DEF Rows
  <2>1. CASE v = u
    BY <1>2, <2>1
  <2>2. CASE v # u
    <3>1. PICK j \in Identities : owner[j] = v
      BY <1>2, <2>2 DEF AccountsInv, AccountsAreWhole, Rows
    <3>2. j # i
      BY <1>1, <3>1, UserIdsAreUsers
    <3> QED
      BY <1>2, <3>1, <3>2
  <2> QED
    BY <2>1, <2>2
<1>7. \A v \in UserIds : user'[v].password =>
        user'[v].email \in Emails /\ owner'[user'[v].email] = v
  <2> SUFFICES ASSUME NEW v \in UserIds, user'[v].password
               PROVE  user'[v].email \in Emails /\ owner'[user'[v].email] = v
    OBVIOUS
  <2>1. CASE v = u
    BY <1>2, <2>1
  <2>2. CASE v # u
    <3>1. user'[v] = user[v] /\ user[v].email \in Emails /\ owner[user[v].email] = v
      BY <1>2, <2>2 DEF AccountsInv, AccountsAreWhole
    <3>2. user[v].email \in Identities /\ user[v].email # i
      BY <1>1, <3>1, UserIdsAreUsers DEF Identities
    <3> QED
      BY <1>2, <3>1, <3>2
  <2> QED
    BY <2>1, <2>2
<1>8. \A j \in TelegramIds \cup GoogleSubs :
        owner'[j] # NoUser => owner'[j] \in wallets'
  <2> SUFFICES ASSUME NEW j \in TelegramIds \cup GoogleSubs, owner'[j] # NoUser
               PROVE  owner'[j] \in wallets'
    OBVIOUS
  <2>1. CASE j = i
    <3>1. wallets' = wallets \cup {u}
      BY <1>3, <2>1, Bounds
    <3> QED
      BY <1>2, <2>1, <3>1
  <2>2. CASE j # i
    <3>1. j \in Identities /\ owner'[j] = owner[j]
      BY <1>2, <2>2 DEF Identities
    <3>2. owner[j] \in wallets
      BY <3>1 DEF AccountsInv, AccountsAreWhole
    <3> QED
      BY <1>3, <3>1, <3>2
  <2> QED
    BY <2>1, <2>2
<1> QED
  BY <1>4, <1>5, <1>6, <1>7, <1>8 DEF AccountsInv, AccountsAreWhole

\* Another identity for a user that is there.
LEMMA LinkKeeps ==
  ASSUME AccountsInv, NEW i \in Identities, owner[i] = NoUser, NEW u \in Rows,
         owner' = [owner EXCEPT ![i] = u], OpenWallets(u), UNCHANGED user
  PROVE  AccountsInv' /\ Grow
<1>0. AccountTypes /\ u \in UserIds
  BY DEF AccountsInv, Rows
<1>1. /\ owner'[i] = u
      /\ \A j \in Identities : j # i => owner'[j] = owner[j]
      /\ wallets' = wallets \cup {u}
  BY <1>0 DEF AccountTypes, OpenWallets
<1>2. AccountTypes'
  BY <1>0, <1>1 DEF AccountTypes
<1>3. \A j \in Identities : owner[j] # NoUser => owner'[j] = owner[j]
  BY <1>1
<1>4. \A v \in Rows : v \in Rows'
  BY <1>3, UserIdsAreUsers DEF Rows
<1>5. \A v \in UserIds : user[v].password => owner'[user[v].email] = v
  <2> SUFFICES ASSUME NEW v \in UserIds, user[v].password
               PROVE  owner'[user[v].email] = v
    OBVIOUS
  <2>1. user[v].email \in Identities /\ owner[user[v].email] = v
    BY DEF AccountsInv, AccountsAreWhole, Identities
  <2> QED
    BY <1>3, <2>1, UserIdsAreUsers
<1>6. \A j \in TelegramIds \cup GoogleSubs :
        owner'[j] # NoUser => owner'[j] \in wallets'
  BY <1>1 DEF AccountsInv, AccountsAreWhole, Identities
<1>7. AccountsInv'
  BY <1>2, <1>4, <1>5, <1>6 DEF AccountsInv, AccountsAreWhole
<1> QED
  BY <1>3, <1>7 DEF Grow

\* An address that nobody else has, for a user without one.
LEMMA BackfillKeeps ==
  ASSUME AccountsInv, NEW u \in Rows, ~user[u].password, NEW e \in Emails,
         ~\E v \in Rows \ {u} : user[v].email = e,
         user' = [user EXCEPT ![u].email = e], UNCHANGED <<owner, wallets>>
  PROVE  AccountsInv' /\ Grow
<1>0. AccountTypes /\ u \in UserIds
  BY DEF AccountsInv, Rows
<1>1. /\ user'[u].email = e /\ user'[u].password = user[u].password
      /\ \A v \in UserIds : v # u => user'[v] = user[v]
  BY <1>0 DEF AccountTypes, UserRows
<1>2. AccountTypes'
  BY <1>0 DEF AccountTypes, UserRows
<1>3. \A v \in UserIds : v # u => user[v].email # e
  <2> SUFFICES ASSUME NEW v \in UserIds, v # u, user[v].email = e PROVE FALSE
    OBVIOUS
  <2>1. v \notin Rows
    OBVIOUS
  <2>2. user[v] = NoRow
    BY <2>1 DEF AccountsInv, AccountsAreWhole
  <2> QED
    BY <2>2, Bounds DEF NoRow, UserRow
<1>4. \A v, w \in UserIds :
        user'[v].email = user'[w].email /\ user'[v].email # NoEmail => v = w
  BY <1>1, <1>3 DEF AccountsInv, AccountsAreWhole
<1>5. Rows' = Rows
  BY DEF Rows
<1>6. \A v \in UserIds : user'[v] # NoRow => v \in Rows'
  BY <1>1, <1>5 DEF AccountsInv, AccountsAreWhole
<1>7. \A v \in UserIds : user'[v].password =>
        v # u /\ user'[v].email \in Emails /\ owner'[user'[v].email] = v
  BY <1>1 DEF AccountsInv, AccountsAreWhole
<1>8. \A v \in Rows : user'[v].password = user[v].password
  BY <1>1 DEF Rows
<1> QED
  BY <1>2, <1>4, <1>6, <1>7, <1>8 DEF AccountsInv, AccountsAreWhole, Grow

LEMMA AccountsUnchanged ==
  ASSUME AccountsInv, UNCHANGED accounts
  PROVE  AccountsInv' /\ Grow
BY DEF AccountsInv, AccountTypes, AccountsAreWhole, accounts, Grow, Rows


-----------------------------------------------------------------------------
(* Requests *)

\* The request of a client that has one.
LEMMA RequestIs ==
  ASSUME RequestsInv, NEW c \in Clients, ~At(c, "quiet")
  PROVE  client[c] \in SignInRequests /\ Fits(client[c])
BY DEF RequestsInv, At, Quiet

LEMMA QuietIs ==
  ASSUME NEW r \in SignInRequests
  PROVE  r.stage # "quiet" /\ r # Quiet
BY DEF SignInRequests, Stages, Quiet

\* What a request has found out stays true while accounts grow.
LEMMA FitsLater ==
  ASSUME AccountTypes, Grow, NEW r \in SignInRequests, Fits(r)
  PROVE  Fits(r)'
<1>1. \A u \in Rows : u \in Rows'
  BY UserIdsAreUsers DEF Rows, Grow
<1>2. r.id \in Identities
  BY DEF SignInRequests
<1> QED
  BY <1>1, <1>2 DEF Fits, Grow

LEMMA RequestMoved ==
  ASSUME AccountTypes, RequestsInv, Grow, NEW c \in Clients,
         NEW r \in SignInRequests \cup {Quiet}, client' = [client EXCEPT ![c] = r],
         r # Quiet => Fits(r)'
  PROVE  RequestsInv'
<1>1. client' \in [Clients -> SignInRequests \cup {Quiet}]
  BY DEF RequestsInv
<1>2. ASSUME NEW d \in Clients, client'[d] # Quiet PROVE Fits(client[d])'
  <2>1. CASE d = c
    <3>1. client'[d] = r
      BY <2>1 DEF RequestsInv
    <3> QED
      BY <1>2, <3>1 DEF Fits
  <2>2. CASE d # c
    <3>1. client'[d] = client[d]
      BY <2>2 DEF RequestsInv
    <3>2. PICK q \in SignInRequests : q = client[d] /\ Fits(q)
      BY <1>2, <3>1 DEF RequestsInv
    <3>3. Fits(q)'
      BY <3>2, FitsLater
    <3> QED
      BY <3>1, <3>2, <3>3 DEF Fits
  <2> QED
    BY <2>1, <2>2
<1> QED
  BY <1>1, <1>2 DEF RequestsInv

LEMMA FinishMoves ==
  ASSUME AccountTypes, RequestsInv, Grow, NEW c \in Clients, Finish(c)
  PROVE  RequestsInv'
BY RequestMoved DEF Finish

\* A lookup, or a decision, and what is kept of it.
Kept(r, c, stage, u) ==
  /\ client' = [client EXCEPT ![c] = r]
  /\ r.stage = stage /\ r.user = u
  /\ r.id = client[c].id /\ r.proven = client[c].proven

LEMMA KeepIs ==
  ASSUME RequestsInv, NEW c \in Clients, ~At(c, "quiet"), NEW stage \in Stages,
         NEW u \in UserIds \cup {NoUser}, Keep(c, stage, u)
  PROVE  \E r \in SignInRequests : Kept(r, c, stage, u)
<1>1. client[c] \in SignInRequests
  BY RequestIs
<1>2. PICK b \in BOOLEAN : b = (u # NoUser => user[u].email = NoEmail)
  OBVIOUS
<1>3. PICK r : r = [client[c] EXCEPT !.stage = stage, !.user = u, !.blank = b]
  OBVIOUS
<1>4. /\ r \in SignInRequests /\ r.stage = stage /\ r.user = u
      /\ r.id = client[c].id /\ r.proven = client[c].proven
  BY <1>1, <1>3 DEF SignInRequests
<1>5. client' = [client EXCEPT ![c] = r]
  BY <1>1, <1>2, <1>3 DEF Keep, RequestsInv, SignInRequests
<1> QED
  BY <1>4, <1>5 DEF Kept

LEMMA KeptBlank ==
  ASSUME RequestsInv, NEW c \in Clients, ~At(c, "quiet"), NEW stage, NEW u,
         Keep(c, stage, u), u # NoUser, client'[c].blank
  PROVE  user[u].email = NoEmail
<1>1. client[c] \in SignInRequests /\ client[c] \in SignInRequests \cup {Quiet}
  BY RequestIs
<1>2. client'[c].blank = (u # NoUser => user[u].email = NoEmail)
  BY <1>1 DEF Keep, RequestsInv, SignInRequests
<1> QED
  BY <1>2

\* A decision for the user who owns the identity by now.
LEMMA AcceptMoves ==
  ASSUME AccountTypes, RequestsInv, Grow, NEW c \in Clients, ~At(c, "quiet"),
         NEW u \in UserIds, Accept(c, u), u \in Rows', owner'[client[c].id] = u,
         client[c].proven
  PROVE  RequestsInv'
<1>1. PICK stage \in Stages : stage = "issue"
  BY DEF Stages
<1>4. u \in UserIds \cup {NoUser} /\ Keep(c, stage, u)
  BY <1>1 DEF Accept
<1>2. PICK r \in SignInRequests : Kept(r, c, stage, u)
  BY <1>4, KeepIs
<1>3. Fits(r)'
  BY <1>1, <1>2, UserIdsAreUsers DEF Fits, Kept
<1> QED
  BY <1>2, <1>3, RequestMoved DEF Kept

-----------------------------------------------------------------------------
(* Places *)

LEMMA BusyType ==
  ASSUME NEW i
  PROVE  /\ IsFiniteSet(Busy(i)) /\ Cardinality(Busy(i)) \in Nat
         /\ Cardinality(Busy(i)) <= Cardinality(Clients)
<1>1. Busy(i) \in SUBSET Clients
  BY DEF Busy
<1> QED
  BY <1>1, Bounds, FS_Subset, FS_CardinalityType

LEMMA BusyTypeLater ==
  ASSUME NEW i
  PROVE  /\ IsFiniteSet(Busy(i)') /\ Cardinality(Busy(i)') \in Nat
         /\ Cardinality(Busy(i)') <= Cardinality(Clients)
<1>1. Busy(i)' \in SUBSET Clients
  BY DEF Busy
<1> QED
  BY <1>1, Bounds, FS_Subset, FS_CardinalityType

\* A request that goes on, or ends without a failure.
LEMMA PlacesKept ==
  ASSUME RequestsInv, FailedType, PlacesAreLeft, UNCHANGED failed, NEW c \in Clients,
         NEW r, client' = [client EXCEPT ![c] = r],
         r = Quiet \/ (~At(c, "quiet") /\ r.id = client[c].id)
  PROVE  FailedType' /\ PlacesAreLeft'
<1>1. FailedType'
  BY DEF FailedType
<1>2. ASSUME NEW i \in Identities
      PROVE  RecentFailures(i)' + Cardinality(Busy(i)')
               <= MaxFails - 1 + Cardinality(Clients)
  <2>1. Busy(i)' \in SUBSET Busy(i)
    BY DEF Busy, At, Quiet, RequestsInv
  <2>2. Cardinality(Busy(i)') <= Cardinality(Busy(i))
    BY <2>1, BusyType, FS_Subset
  <2>3. RecentFailures(i)' = RecentFailures(i) /\ RecentFailures(i) \in Int
    BY FailuresType DEF RecentFailures
  <2>4. RecentFailures(i) + Cardinality(Busy(i)) <= MaxFails - 1 + Cardinality(Clients)
    BY DEF PlacesAreLeft
  <2> QED
    BY <2>2, <2>3, <2>4, BusyType, BusyTypeLater, Bounds
<1> QED
  BY <1>1, <1>2 DEF PlacesAreLeft

\* A request that fails gives its place to the failure.
LEMMA PlacesRejected ==
  ASSUME RequestsInv, FailedType, PlacesAreLeft, NEW c \in Clients, ~At(c, "quiet"),
         Reject(c)
  PROVE  FailedType' /\ PlacesAreLeft'
<1>0. client' = [client EXCEPT ![c] = Quiet]
  BY DEF Reject, Finish
<1>1. CASE UNCHANGED failed
  BY <1>0, <1>1, PlacesKept
<1>2. CASE failed' = [failed EXCEPT ![client[c].id][0] = @ + 1]
  <2>1. PICK x \in Identities : x = client[c].id
    BY RequestIs DEF SignInRequests
  <2>2. failed[x] \in [0..Window -> Nat] /\ 0 \in 0..Window
    BY Bounds DEF FailedType
  <2>8. PICK f \in [0..Window -> Nat] : f = failed[x]
    BY <2>2
  <2>9. PICK h : h = [f EXCEPT ![0] = @ + 1]
    OBVIOUS
  <2>10. failed' = [failed EXCEPT ![x] = h]
    BY <1>2, <2>1, <2>8, <2>9
  <2>11. h \in [0..Window -> Nat] /\ h[0] = f[0] + 1 /\ f[0] \in Nat
         /\ \A k \in 0..Window : k # 0 => h[k] = f[k]
    BY <2>2, <2>9
  <2>12. failed'[x] = h /\ \A i \in Identities : i # x => failed'[i] = failed[i]
    BY <2>10 DEF FailedType
  <2>3. FailedType'
    BY <2>10, <2>11 DEF FailedType
  <2>4. RecentFailures(x) \in Int /\ RecentFailures(x)' = RecentFailures(x) + 1
    <3>3. f \in [0..Window -> Int] /\ h \in [0..Window -> Int]
      <4>1. \A k \in 0..Window : f[k] \in Int /\ h[k] \in Int
        BY <2>11
      <4> QED
        BY <2>11, <4>1
    <3>4. IsFiniteSet(0..Window)
      BY Bounds, FS_Interval
    <3>5. SumFunction(f) \in Int /\ SumFunction(h) = SumFunction(f) + (h[0] - f[0])
      BY ONLY <2>2, <2>11, <3>3, <3>4, SumUpdate
    <3> QED
      BY <2>8, <2>11, <2>12, <3>5 DEF RecentFailures
  <2>5. Busy(x)' = Busy(x) \ {c} /\ c \in Busy(x)
    BY <1>0, <2>1 DEF Busy, At, Quiet, RequestsInv
  <2>6. Cardinality(Busy(x)') = Cardinality(Busy(x)) - 1
    BY <2>5, BusyType, FS_RemoveElement
  <2>7. ASSUME NEW i \in Identities
        PROVE  RecentFailures(i)' + Cardinality(Busy(i)')
                 <= MaxFails - 1 + Cardinality(Clients)
    <3>1. RecentFailures(i) + Cardinality(Busy(i)) <= MaxFails - 1 + Cardinality(Clients)
      BY DEF PlacesAreLeft
    <3>2. CASE i = x
      BY <2>4, <2>6, <3>1, <3>2, BusyType, Bounds
    <3>3. CASE i # x
      <4>1. Busy(i)' = Busy(i)
        BY <1>0, <2>1, <3>3 DEF Busy, At, Quiet, RequestsInv
      <4>2. RecentFailures(i)' = RecentFailures(i)
        BY <2>12, <3>3 DEF RecentFailures
      <4> QED
        BY <3>1, <4>1, <4>2
    <3> QED
      BY <3>2, <3>3
  <2> QED
    BY <2>3, <2>7 DEF PlacesAreLeft
<1> QED
  BY <1>1, <1>2 DEF Reject

\* A request that arrives finds the failures below the limit.
LEMMA PlacesArrived ==
  ASSUME RequestsInv, FailedType, PlacesAreLeft, UNCHANGED failed, NEW c \in Clients,
         At(c, "quiet"), NEW r \in SignInRequests, client' = [client EXCEPT ![c] = r],
         ~Locked(r.id)
  PROVE  FailedType' /\ PlacesAreLeft'
<1>1. FailedType'
  BY DEF FailedType
<1>2. ASSUME NEW i \in Identities
      PROVE  RecentFailures(i)' + Cardinality(Busy(i)')
               <= MaxFails - 1 + Cardinality(Clients)
  <2>1. RecentFailures(i)' = RecentFailures(i) /\ RecentFailures(i) \in Int
    BY FailuresType DEF RecentFailures
  <2>2. CASE i = r.id
    <3>1. RecentFailures(i) <= MaxFails - 1
      BY <2>1, <2>2, Bounds DEF Locked
    <3> QED
      BY <2>1, <3>1, BusyTypeLater, Bounds
  <2>3. CASE i # r.id
    <3>1. Busy(i)' = Busy(i)
      BY <2>3, QuietIs DEF Busy, At, Quiet, RequestsInv
    <3> QED
      BY <2>1, <3>1 DEF PlacesAreLeft
  <2> QED
    BY <2>2, <2>3
<1> QED
  BY <1>1, <1>2 DEF PlacesAreLeft

LEMMA PlacesTicked ==
  ASSUME FailedType, PlacesAreLeft, Tick
  PROVE  FailedType' /\ PlacesAreLeft'
<1>1. ASSUME NEW i \in Identities
      PROVE  /\ failed'[i] = Later(failed[i], Window)
             /\ failed'[i] \in [0..Window -> Nat]
             /\ RecentFailures(i)' <= RecentFailures(i)
  <2>1. PICK f : f = failed[i] /\ f \in [0..Window -> Nat]
    BY DEF FailedType
  <2>2. failed'[i] = Later(f, Window)
    BY <2>1 DEF Tick, Later
  <2>3. Later(f, Window) \in [0..Window -> Nat]
    <3>1. \A k \in 0..Window : (IF k = 0 THEN 0 ELSE f[k - 1]) \in Nat
      BY <2>1, Bounds
    <3> QED
      BY <3>1 DEF Later
  <2>4. Window \in Nat
    BY Bounds
  <2>5. SumFunction(Later(f, Window)) <= SumFunction(f)
    BY <2>1, <2>4, LaterSum
  <2> QED
    BY <2>1, <2>2, <2>3, <2>5 DEF RecentFailures
<1>2. FailedType'
  <2>1. failed' = [i \in Identities |-> failed'[i]]
    BY DEF Tick
  <2> QED
    BY <1>1, <2>1 DEF FailedType
<1>3. ASSUME NEW i \in Identities
      PROVE  RecentFailures(i)' + Cardinality(Busy(i)')
               <= MaxFails - 1 + Cardinality(Clients)
  <2>1. Busy(i)' = Busy(i)
    BY DEF Tick, Busy, At
  <2>2. RecentFailures(i) \in Int
    BY FailuresType
  <2>3. RecentFailures(i)' \in Int
    <3>1. failed'[i] \in [0..Window -> Int]
      BY <1>1
    <3>2. IsFiniteSet(0..Window)
      BY Bounds, FS_Interval
    <3> QED
      BY <3>1, <3>2, SumIsInt DEF RecentFailures
  <2>4. RecentFailures(i) + Cardinality(Busy(i)) <= MaxFails - 1 + Cardinality(Clients)
    BY DEF PlacesAreLeft
  <2> QED
    BY <1>1, <2>1, <2>2, <2>3, <2>4, BusyType, Bounds
<1> QED
  BY <1>2, <1>3 DEF PlacesAreLeft


-----------------------------------------------------------------------------
(* Each action keeps the invariant *)

LEMMA ArriveKeeps ==
  ASSUME SignInInv, NEW c \in Clients, NEW op \in Stages, NEW i \in Identities,
         NEW claim \in {"none", "withheld", "unverified", "verified"},
         NEW proven \in BOOLEAN, Arrive(c, op, i, claim, proven),
         op \in {"signup", "login"} => i \in Emails,
         op = "telegram" => i \in TelegramIds, op = "google" => i \in GoogleSubs,
         op \in {"signup", "login", "telegram", "google"},
         op # "login" => proven
  PROVE  SignInInv'
<1>1. AccountsInv' /\ Grow /\ AccountTypes
  BY AccountsUnchanged DEF SignInInv, Arrive, AccountsInv
<1>2. PICK r : r = [stage |-> op, id |-> i, claim |-> claim, proven |-> proven,
                    user |-> NoUser, blank |-> TRUE]
  OBVIOUS
<1>3. /\ r \in SignInRequests /\ r.id = i /\ r.stage = op /\ r.user = NoUser
      /\ r.proven = proven
  BY <1>2 DEF SignInRequests
<1>4. client' = [client EXCEPT ![c] = r] /\ UNCHANGED failed /\ At(c, "quiet")
      /\ ~Locked(r.id)
  BY <1>2, <1>3 DEF Arrive
<1>5. Fits(r)'
  BY <1>3 DEF Fits
<1>6. RequestsInv'
  BY <1>1, <1>3, <1>4, <1>5, RequestMoved DEF SignInInv
<1>7. FailedType' /\ PlacesAreLeft'
  BY <1>3, <1>4, PlacesArrived DEF SignInInv
<1> QED
  BY <1>1, <1>6, <1>7 DEF SignInInv

LEMMA ArrivalsKeep ==
  ASSUME SignInInv, NEW c \in Clients,
         \/ \E e \in Emails :
              \/ Arrive(c, "signup", e, "none", TRUE)
              \/ \E right \in BOOLEAN : Arrive(c, "login", e, "none", right)
         \/ \E p \in Proofs : ArriveTelegram(c, p) \/ ArriveGoogle(c, p)
  PROVE  SignInInv'
<1>0. /\ "signup" \in Stages /\ "login" \in Stages
      /\ "telegram" \in Stages /\ "google" \in Stages
      /\ \A e \in Emails : e \in Identities
      /\ \A i \in TelegramIds : i \in Identities
      /\ \A i \in GoogleSubs : i \in Identities
  BY DEF Stages, Identities
<1>1. ASSUME NEW e \in Emails, Arrive(c, "signup", e, "none", TRUE) PROVE SignInInv'
  BY <1>0, <1>1, ArriveKeeps
<1>2. ASSUME NEW e \in Emails, NEW right \in BOOLEAN, Arrive(c, "login", e, "none", right)
      PROVE  SignInInv'
  BY <1>0, <1>2, ArriveKeeps
<1>3. ASSUME NEW p \in Proofs, ArriveTelegram(c, p) PROVE SignInInv'
  <2>1. p.id \in TelegramIds /\ p.signed = TRUE
    BY <1>3 DEF ArriveTelegram, InitDataVouches, WidgetVouches, Proofs
  <2>2. Arrive(c, "telegram", p.id, "none", TRUE)
    BY <1>3, <2>1 DEF ArriveTelegram
  <2> QED
    BY <1>0, <2>1, <2>2, ArriveKeeps
<1>4. ASSUME NEW p \in Proofs, ArriveGoogle(c, p) PROVE SignInInv'
  <2>1. p.id \in GoogleSubs /\ p.signed = TRUE
    BY <1>4 DEF ArriveGoogle, GoogleVouches, Proofs
  <2>2. PICK claim \in {"withheld", "unverified", "verified"} :
          Arrive(c, "google", p.id, claim, TRUE)
    BY <1>4, <2>1 DEF ArriveGoogle
  <2> QED
    BY <1>0, <2>1, <2>2, ArriveKeeps
<1> QED
  BY <1>1, <1>2, <1>3, <1>4

\* The ends of a request.
LEMMA RejectKeeps ==
  ASSUME SignInInv, NEW c \in Clients, ~At(c, "quiet"), Reject(c)
  PROVE  SignInInv'
<1>1. AccountsInv' /\ Grow /\ AccountTypes
  BY AccountsUnchanged DEF SignInInv, Reject, AccountsInv
<1>2. RequestsInv'
  BY <1>1, FinishMoves DEF SignInInv, Reject
<1>3. FailedType' /\ PlacesAreLeft'
  BY PlacesRejected DEF SignInInv
<1> QED
  BY <1>1, <1>2, <1>3 DEF SignInInv

LEMMA FinishKeeps ==
  ASSUME SignInInv, NEW c \in Clients, Finish(c), UNCHANGED <<accounts, failed>>
  PROVE  SignInInv'
<1>1. AccountsInv' /\ Grow /\ AccountTypes
  BY AccountsUnchanged DEF SignInInv, AccountsInv
<1>2. RequestsInv'
  BY <1>1, FinishMoves DEF SignInInv
<1>3. FailedType' /\ PlacesAreLeft'
  BY PlacesKept DEF SignInInv, Finish
<1> QED
  BY <1>1, <1>2, <1>3 DEF SignInInv

\* A decision that leaves the accounts whole and the identity with u.
LEMMA AcceptKeeps ==
  ASSUME SignInInv, AccountsInv', Grow, NEW c \in Clients, ~At(c, "quiet"),
         NEW u \in UserIds, Accept(c, u), u \in Rows', owner'[client[c].id] = u,
         client[c].proven
  PROVE  SignInInv'
<1>1. RequestsInv'
  BY AcceptMoves DEF SignInInv, AccountsInv
<1>2. PICK stage \in Stages : stage = "issue"
  BY DEF Stages
<1>3. u \in UserIds \cup {NoUser} /\ Keep(c, stage, u) /\ UNCHANGED failed
  BY <1>2 DEF Accept
<1>4. PICK r \in SignInRequests : Kept(r, c, stage, u)
  BY <1>3, KeepIs DEF SignInInv
<1>5. FailedType' /\ PlacesAreLeft'
  BY <1>3, <1>4, PlacesKept DEF SignInInv, Kept
<1> QED
  BY <1>1, <1>5 DEF SignInInv

\* A lookup, after which the request still fits.
LEMMA LookupKeeps ==
  ASSUME SignInInv, NEW c \in Clients, ~At(c, "quiet"), UNCHANGED <<accounts, failed>>,
         NEW r \in SignInRequests, client' = [client EXCEPT ![c] = r],
         r.id = client[c].id, Fits(r)
  PROVE  SignInInv'
<1>1. AccountsInv' /\ Grow /\ AccountTypes
  BY AccountsUnchanged DEF SignInInv, AccountsInv
<1>2. Fits(r)'
  BY <1>1, FitsLater
<1>3. RequestsInv'
  BY <1>1, <1>2, RequestMoved DEF SignInInv
<1>4. FailedType' /\ PlacesAreLeft'
  BY PlacesKept DEF SignInInv
<1> QED
  BY <1>1, <1>3, <1>4 DEF SignInInv

LEMMA SignupKeeps ==
  ASSUME SignInInv, NEW c \in Clients, Signup(c)
  PROVE  SignInInv'
<1>0. ~At(c, "quiet") /\ AccountsInv /\ AccountTypes /\ RequestsInv
  BY DEF Signup, At, SignInInv, AccountsInv
<1>1. PICK e \in Emails : e = client[c].id /\ client[c].proven
  BY <1>0, RequestIs DEF Signup, At, Fits
<1>2. CASE Reject(c)
  BY <1>0, <1>2, RejectKeeps
<1>3. CASE InsertUser(e, UserRow(e, TRUE)) /\ Accept(c, FreshUser) /\ UNCHANGED wallets
  <2>1. PICK row \in UserRows : row = UserRow(e, TRUE) /\ row.email = e
    BY NewRowTypes
  <2>2. e \in Identities
    BY DEF Identities
  <2>3. Grow /\ FreshUser \in UserIds /\ FreshUser \in Rows' /\ owner'[e] = FreshUser
    BY <1>0, <1>3, <2>1, <2>2, InsertGrows
  <2>4. AccountsInv'
    BY <1>0, <1>3, <2>1, <2>2, InsertKeeps
  <2> QED
    BY <1>0, <1>1, <1>3, <2>3, <2>4, AcceptKeeps
<1> QED
  BY <1>1, <1>2, <1>3 DEF Signup

LEMMA LoginKeeps ==
  ASSUME SignInInv, NEW c \in Clients, LoginEmail(c)
  PROVE  SignInInv'
<1>0. ~At(c, "quiet") /\ AccountsInv /\ RequestsInv
  BY DEF LoginEmail, At, SignInInv
<1>1. CASE Reject(c)
  BY <1>0, <1>1, RejectKeeps
<1>2. ASSUME NEW u \in UserWithPassword(client[c].id), Accept(c, u), UNCHANGED accounts,
             VerifyPassword(c)
      PROVE  SignInInv'
  <2>1. AccountsInv' /\ Grow
    BY <1>0, <1>2, AccountsUnchanged
  <2>2. u \in UserIds /\ owner[client[c].id] = u /\ client[c].id \in Identities
    BY <1>0, <1>2, RequestIs
    DEF UserWithPassword, AccountsInv, AccountsAreWhole, SignInRequests
  <2>3. u \in Rows' /\ owner'[client[c].id] = u /\ client[c].proven
    BY <1>2, <2>2 DEF Rows, accounts, VerifyPassword
  <2> QED
    BY <1>0, <1>2, <2>1, <2>2, <2>3, AcceptKeeps
<1> QED
  BY <1>1, <1>2 DEF LoginEmail


LEMMA FindIdentityKeeps ==
  ASSUME SignInInv, NEW c \in Clients, FindIdentity(c)
  PROVE  SignInInv'
<1>0. ~At(c, "quiet") /\ AccountsInv /\ RequestsInv /\ UNCHANGED <<accounts, failed>>
  BY DEF FindIdentity, At, SignInInv
<1>1. PICK i \in Identities : i = client[c].id
  BY <1>0, RequestIs DEF SignInRequests
<1>2. PICK u \in UserIds \cup {NoUser} : u = owner[i]
  BY <1>0 DEF AccountsInv, AccountTypes
<1>3. PICK stage \in Stages :
        /\ Keep(c, stage, u)
        /\ \/ stage = "telegramWrite" /\ i \in TelegramIds
           \/ /\ stage \in {"googleKnown", "googleEmail", "googleWrite"}
              /\ i \in GoogleSubs
              /\ stage = "googleKnown" => u # NoUser
  <2>1. CASE At(c, "telegram") /\ Keep(c, "telegramWrite", u)
    <3>1. i \in TelegramIds
      BY <1>0, <1>1, <2>1, RequestIs DEF Fits, At
    <3> QED
      BY <2>1, <3>1 DEF Stages
  <2>2. CASE At(c, "google")
    <3>1. i \in GoogleSubs
      BY <1>0, <1>1, <2>2, RequestIs DEF Fits, At
    <3>2. Keep(c, IF u # NoUser THEN "googleKnown"
                  ELSE IF client[c].claim = "verified" THEN "googleEmail"
                  ELSE "googleWrite", u)
      BY <1>1, <1>2, <2>2 DEF FindIdentity, At
    <3>3. PICK stage :
            stage = IF u # NoUser THEN "googleKnown"
                    ELSE IF client[c].claim = "verified" THEN "googleEmail"
                    ELSE "googleWrite"
      OBVIOUS
    <3>4. stage \in Stages /\ stage \in {"googleKnown", "googleEmail", "googleWrite"}
          /\ (stage = "googleKnown" => u # NoUser)
      BY <3>3 DEF Stages
    <3> QED
      BY <3>1, <3>2, <3>3, <3>4
  <2> QED
    BY <1>1, <1>2, <2>1, <2>2 DEF FindIdentity
<1>4. PICK r \in SignInRequests : Kept(r, c, stage, u)
  BY <1>0, <1>3, KeepIs
<1>5. r.blank /\ u # NoUser => user[u].email = NoEmail
  <2>1. client'[c] = r
    BY <1>0, <1>4 DEF Kept, RequestsInv
  <2> QED
    BY <1>0, <1>3, <2>1, KeptBlank
<1>6. u # NoUser => u \in Rows /\ u \in UserIds
  BY <1>2 DEF Rows
<1>7. u # NoUser /\ r.blank => ~user[u].password
  BY <1>0, <1>5, <1>6, Bounds DEF AccountsInv
<1>8. client[c].proven
  BY <1>0, RequestIs DEF FindIdentity, At, Fits
<1>9. /\ r.stage = stage /\ r.user = u /\ r.id = i /\ r.proven
      /\ client' = [client EXCEPT ![c] = r]
  BY <1>1, <1>4, <1>8 DEF Kept
<1>10. Fits(r)
  BY <1>2, <1>3, <1>6, <1>7, <1>9 DEF Fits
<1> QED
  BY <1>0, <1>1, <1>9, <1>10, LookupKeeps

LEMMA TelegramWriteKeeps ==
  ASSUME SignInInv, NEW c \in Clients, TelegramWrite(c)
  PROVE  SignInInv'
<1>0. ~At(c, "quiet") /\ AccountsInv /\ AccountTypes /\ RequestsInv
  BY DEF TelegramWrite, At, SignInInv, AccountsInv
<1>1. PICK i \in Identities : i = client[c].id
  BY <1>0, RequestIs DEF SignInRequests
<1>2. Fits(client[c]) /\ client[c].stage = "telegramWrite" /\ client[c].proven
  BY <1>0, RequestIs DEF TelegramWrite, At, Fits
<1>3. CASE Reject(c)
  BY <1>0, <1>3, RejectKeeps
<1>4. CASE client[c].user # NoUser /\ Accept(c, client[c].user) /\ UNCHANGED accounts
  <2>1. AccountsInv' /\ Grow
    BY <1>0, <1>4, AccountsUnchanged
  <2>2. client[c].user \in Rows /\ owner[client[c].id] = client[c].user
    BY <1>2, <1>4 DEF Fits
  <2>3. PICK u \in UserIds : u = client[c].user
    BY <2>2 DEF Rows
  <2>4. u \in Rows' /\ owner'[client[c].id] = u
    BY <1>4, <2>2, <2>3 DEF Rows, accounts
  <2> QED
    BY <1>0, <1>2, <1>4, <2>1, <2>3, <2>4, AcceptKeeps
<1>5. CASE InsertUser(i, NoRow) /\ OpenWallets(FreshUser) /\ Accept(c, FreshUser)
  <2>1. PICK row \in UserRows : row = NoRow /\ ~row.password
    BY NewRowTypes
  <2>2. Grow /\ FreshUser \in UserIds /\ FreshUser \in Rows' /\ owner'[i] = FreshUser
    BY <1>0, <1>5, <2>1, InsertGrows
  <2>3. AccountsInv'
    BY <1>0, <1>5, <2>1, InsertKeeps
  <2> QED
    BY <1>0, <1>1, <1>2, <1>5, <2>2, <2>3, AcceptKeeps
<1> QED
  BY <1>1, <1>3, <1>4, <1>5 DEF TelegramWrite

LEMMA GoogleKnownKeeps ==
  ASSUME SignInInv, NEW c \in Clients, GoogleKnown(c)
  PROVE  SignInInv'
<1>0. ~At(c, "quiet") /\ AccountsInv /\ AccountTypes /\ RequestsInv
  BY DEF GoogleKnown, At, SignInInv, AccountsInv
<1>1. PICK i \in GoogleSubs : i = client[c].id
  BY <1>0, RequestIs DEF GoogleKnown, At, Fits
<1>2. Fits(client[c]) /\ client[c].stage = "googleKnown" /\ client[c].proven
  BY <1>0, RequestIs DEF GoogleKnown, At, Fits
<1>3. PICK u \in Rows : u = client[c].user /\ owner[i] = u
  BY <1>1, <1>2 DEF Fits
<1>4. u \in UserIds
  BY DEF Rows
<1>5. PICK e \in Emails : e = EmailOf[i]
  BY Bounds
<1>6. CASE Reject(c)
  BY <1>0, <1>6, RejectKeeps
<1>7. ASSUME Accept(c, u), UNCHANGED <<owner, wallets>>, AccountsInv', Grow
      PROVE  SignInInv'
  <2>1. u \in Rows' /\ owner'[client[c].id] = u
    BY <1>1, <1>3, <1>7 DEF Rows
  <2> QED
    BY <1>0, <1>2, <1>4, <1>7, <2>1, AcceptKeeps
<1>8. CASE /\ ~\E v \in Rows \ {u} : user[v].email = e
           /\ client[c].blank
           /\ user' = [user EXCEPT ![u].email = e]
           /\ Accept(c, u) /\ UNCHANGED <<owner, wallets>>
  <2>1. ~user[u].password
    BY <1>2, <1>3, <1>8, UserIdsAreUsers, <1>4 DEF Fits
  <2>2. AccountsInv' /\ Grow
    BY <1>0, <1>8, <2>1, BackfillKeeps
  <2> QED
    BY <1>7, <1>8, <2>2
<1>9. CASE user' = user /\ Accept(c, u) /\ UNCHANGED <<owner, wallets>>
  <2>1. AccountsInv' /\ Grow
    BY <1>0, <1>9, AccountsUnchanged DEF accounts
  <2> QED
    BY <1>7, <1>9, <2>1
<1> QED
  BY <1>1, <1>3, <1>5, <1>6, <1>8, <1>9 DEF GoogleKnown

LEMMA FindByEmailKeeps ==
  ASSUME SignInInv, NEW c \in Clients, FindByEmail(c)
  PROVE  SignInInv'
<1>0. ~At(c, "quiet") /\ RequestsInv /\ UNCHANGED <<accounts, failed>>
  BY DEF FindByEmail, At, SignInInv
<1>1. /\ client[c] \in SignInRequests /\ Fits(client[c])
      /\ client[c].stage = "googleEmail" /\ client[c].proven
      /\ client[c].id \in GoogleSubs
  BY <1>0, RequestIs DEF FindByEmail, At, Fits
<1>2. PICK stage \in Stages : stage = "googleWrite"
  BY DEF Stages
<1>3. ASSUME NEW u \in Rows, Keep(c, stage, u)
      PROVE  SignInInv'
  <2>1. u \in UserIds \cup {NoUser}
    BY DEF Rows
  <2>2. PICK r \in SignInRequests : Kept(r, c, stage, u)
    BY <1>0, <1>3, <2>1, KeepIs
  <2>3. Fits(r)
    BY <1>1, <1>2, <2>2 DEF Fits, Kept
  <2> QED
    BY <1>0, <2>2, <2>3, LookupKeeps DEF Kept
<1>4. CASE Move(c, stage)
  <2>1. PICK r : r = [client[c] EXCEPT !.stage = stage]
    OBVIOUS
  <2>2. /\ r \in SignInRequests /\ r.stage = stage /\ r.id = client[c].id
        /\ r.user = client[c].user /\ r.proven = client[c].proven
    BY <1>1, <2>1 DEF SignInRequests
  <2>3. client' = [client EXCEPT ![c] = r]
    BY <1>0, <1>1, <1>4, <2>1 DEF Move, RequestsInv
  <2>4. Fits(r)
    BY <1>1, <1>2, <2>2 DEF Fits
  <2> QED
    BY <1>0, <2>2, <2>3, <2>4, LookupKeeps
<1> QED
  BY <1>2, <1>3, <1>4 DEF FindByEmail

LEMMA GoogleWriteKeeps ==
  ASSUME SignInInv, NEW c \in Clients, GoogleWrite(c)
  PROVE  SignInInv'
<1>0. ~At(c, "quiet") /\ AccountsInv /\ AccountTypes /\ RequestsInv
  BY DEF GoogleWrite, At, SignInInv, AccountsInv
<1>1. /\ client[c] \in SignInRequests /\ Fits(client[c])
      /\ client[c].stage = "googleWrite" /\ client[c].proven
  BY <1>0, RequestIs DEF GoogleWrite, At, Fits
<1>2. PICK g \in GoogleSubs : g = client[c].id
  BY <1>1 DEF Fits
<1>3. g \in Identities /\ EmailOf[g] \in Emails
  BY Bounds DEF Identities
<1>4. PICK row \in UserRows :
        /\ row = IF client[c].claim = "verified" THEN UserRow(EmailOf[g], FALSE) ELSE NoRow
        /\ ~row.password
  BY <1>3, NewRowTypes
<1>5. CASE Reject(c)
  BY <1>0, <1>5, RejectKeeps
<1>6. CASE /\ client[c].user # NoUser /\ owner[g] = NoUser
           /\ owner' = [owner EXCEPT ![g] = client[c].user]
           /\ OpenWallets(client[c].user) /\ Accept(c, client[c].user)
           /\ UNCHANGED user
  <2>1. PICK u \in Rows : u = client[c].user
    BY <1>1, <1>6 DEF Fits
  <2>2. u \in UserIds
    BY DEF Rows
  <2>3. AccountsInv' /\ Grow
    BY <1>0, <1>3, <1>6, <2>1, LinkKeeps
  <2>4. owner'[client[c].id] = u
    BY <1>0, <1>2, <1>3, <1>6, <2>1 DEF AccountTypes
  <2>5. u \in Rows'
    BY <1>2, <1>3, <2>2, <2>4 DEF Rows
  <2> QED
    BY <1>0, <1>1, <1>6, <2>1, <2>2, <2>3, <2>4, <2>5, AcceptKeeps
<1>7. CASE InsertUser(g, row) /\ OpenWallets(FreshUser) /\ Accept(c, FreshUser)
  <2>1. Grow /\ FreshUser \in UserIds /\ FreshUser \in Rows' /\ owner'[g] = FreshUser
    BY <1>0, <1>3, <1>7, InsertGrows
  <2>2. AccountsInv'
    BY <1>0, <1>3, <1>4, <1>7, InsertKeeps
  <2> QED
    BY <1>0, <1>1, <1>2, <1>7, <2>1, <2>2, AcceptKeeps
<1> QED
  BY <1>2, <1>4, <1>5, <1>6, <1>7 DEF GoogleWrite

LEMMA TickKeeps ==
  ASSUME SignInInv, Tick
  PROVE  SignInInv'
<1>1. AccountsInv' /\ Grow /\ AccountTypes
  BY AccountsUnchanged DEF SignInInv, Tick, AccountsInv
<1>2. RequestsInv'
  <2>1. UNCHANGED <<client, user, owner>>
    BY DEF Tick, accounts
  <2> QED
    BY <2>1 DEF SignInInv, RequestsInv, Fits, Rows
<1>3. FailedType' /\ PlacesAreLeft'
  BY PlacesTicked DEF SignInInv
<1> QED
  BY <1>1, <1>2, <1>3 DEF SignInInv


-----------------------------------------------------------------------------
(* The invariant *)

LEMMA FirstSignInInv == SignInInit => SignInInv
<1> SUFFICES ASSUME SignInInit PROVE SignInInv
  OBVIOUS
<1>1. \A u \in UserIds : user[u] = NoRow
  BY DEF SignInInit
<1>2. AccountsInv
  <2>1. AccountTypes
    BY NewRowTypes DEF SignInInit, AccountTypes
  <2>2. \A u \in UserIds : ~user[u].password /\ user[u].email = NoEmail
    BY <1>1, NewRowTypes
  <2>3. \A i \in TelegramIds \cup GoogleSubs : owner[i] = NoUser
    BY DEF SignInInit, Identities
  <2> QED
    BY <1>1, <2>1, <2>2, <2>3 DEF AccountsInv, AccountsAreWhole
<1>3. RequestsInv
  BY DEF SignInInit, RequestsInv
<1>4. FailedType
  BY DEF SignInInit, FailedType
<1>5. ASSUME NEW i \in Identities
      PROVE  RecentFailures(i) + Cardinality(Busy(i)) <= MaxFails - 1 + Cardinality(Clients)
  <2>1. RecentFailures(i) = 0
    BY NoFailures DEF SignInInit
  <2>2. Busy(i) = {}
    BY DEF SignInInit, Busy, At, Quiet
  <2> QED
    BY <2>1, <2>2, Bounds, FS_EmptySet
<1> QED
  BY <1>2, <1>3, <1>4, <1>5 DEF SignInInv, PlacesAreLeft

LEMMA StepSignInInv == SignInInv /\ [SignInNext]_signInVars => SignInInv'
<1> SUFFICES ASSUME SignInInv, [SignInNext]_signInVars PROVE SignInInv'
  OBVIOUS
<1>1. ASSUME NEW c \in Clients,
             \/ \E e \in Emails :
                  \/ Arrive(c, "signup", e, "none", TRUE)
                  \/ \E right \in BOOLEAN : Arrive(c, "login", e, "none", right)
             \/ \E p \in Proofs : ArriveTelegram(c, p) \/ ArriveGoogle(c, p)
      PROVE  SignInInv'
  BY <1>1, ArrivalsKeep
<1>2. ASSUME NEW c \in Clients,
             Signup(c) \/ LoginEmail(c) \/ FindIdentity(c) \/ TelegramWrite(c)
      PROVE  SignInInv'
  BY <1>2, SignupKeeps, LoginKeeps, FindIdentityKeeps, TelegramWriteKeeps
<1>3. ASSUME NEW c \in Clients, GoogleKnown(c) \/ FindByEmail(c) \/ GoogleWrite(c)
      PROVE  SignInInv'
  BY <1>3, GoogleKnownKeeps, FindByEmailKeeps, GoogleWriteKeeps
<1>4. ASSUME NEW c \in Clients, IssueSession(c) \/ Drop(c) PROVE SignInInv'
  BY <1>4, FinishKeeps DEF IssueSession, Drop
<1>5. CASE Tick
  BY <1>5, TickKeeps
<1>6. CASE UNCHANGED signInVars
  BY <1>6 DEF signInVars, SignInInv, AccountsInv, AccountTypes, AccountsAreWhole,
    RequestsInv, Fits, Rows, FailedType, PlacesAreLeft, Busy, At, RecentFailures
<1> QED
  BY <1>1, <1>2, <1>3, <1>4, <1>5, <1>6 DEF SignInNext

LEMMA SignInInvAlways == SignInSpec => []SignInInv
BY FirstSignInInv, StepSignInInv, PTL DEF SignInSpec

(***************************************************************************)
(* Type correctness.                                                       *)
(***************************************************************************)
THEOREM SignInTypeTheorem == SignInSpec => []SignInTypeOK
<1>1. SignInInv => SignInTypeOK
  BY DEF SignInInv, AccountsInv, AccountTypes, UserRows, RequestsInv, Fits, FailedType,
    SignInTypeOK, At, Quiet
<1> QED
  BY <1>1, SignInInvAlways, PTL

(***************************************************************************)
(* The lockout: however many requests pass it at once, a window never      *)
(* holds more failures of an identity than one below the limit and one for *)
(* each request that can be in flight.                                     *)
(***************************************************************************)
THEOREM LockoutTheorem == SignInSpec => []LockoutHolds
<1>1. SignInInv => LockoutHolds
  <2> SUFFICES ASSUME SignInInv, NEW i \in Identities
               PROVE  RecentFailures(i) <= MaxFails - 1 + Cardinality(Clients)
    BY DEF LockoutHolds
  <2>1. RecentFailures(i) \in Int
    BY FailuresType DEF SignInInv
  <2>2. RecentFailures(i) + Cardinality(Busy(i)) <= MaxFails - 1 + Cardinality(Clients)
    BY DEF SignInInv, PlacesAreLeft
  <2> QED
    BY <2>1, <2>2, BusyType, Bounds
<1> QED
  BY <1>1, SignInInvAlways, PTL

(***************************************************************************)
(* Accounts are whole, whatever first sign-ins race with each other.       *)
(***************************************************************************)
THEOREM AccountsTheorem == SignInSpec => []AccountsAreWhole
<1>1. SignInInv => AccountsAreWhole
  BY DEF SignInInv, AccountsInv
<1> QED
  BY <1>1, SignInInvAlways, PTL

\* No step takes an identity from its user.
LEMMA OwnersStay ==
  ASSUME SignInInv, [SignInNext]_signInVars, NEW i \in Identities, owner[i] # NoUser
  PROVE  owner'[i] = owner[i]
<1>0. owner \in [Identities -> UserIds \cup {NoUser}]
  BY DEF SignInInv, AccountsInv, AccountTypes
<1>1. ASSUME NEW j, NEW row, InsertUser(j, row) PROVE owner'[i] = owner[i]
  BY <1>0, <1>1 DEF InsertUser
<1>2. ASSUME NEW c \in Clients, Signup(c) PROVE owner'[i] = owner[i]
  BY <1>1, <1>2 DEF Signup, Reject, accounts
<1>3. ASSUME NEW c \in Clients, TelegramWrite(c) PROVE owner'[i] = owner[i]
  BY <1>1, <1>3 DEF TelegramWrite, Reject, accounts
<1>4. ASSUME NEW c \in Clients, GoogleWrite(c) PROVE owner'[i] = owner[i]
  BY <1>0, <1>1, <1>4 DEF GoogleWrite, Reject, accounts
<1>5. ASSUME NEW c \in Clients, GoogleKnown(c) PROVE owner'[i] = owner[i]
  BY <1>5 DEF GoogleKnown, Reject, accounts
<1>6. ASSUME NEW c \in Clients, NEW op, NEW j, NEW claim, NEW proven,
             Arrive(c, op, j, claim, proven)
      PROVE  owner'[i] = owner[i]
  BY <1>6 DEF Arrive, accounts
<1>7. ASSUME NEW c \in Clients,
             LoginEmail(c) \/ FindIdentity(c) \/ FindByEmail(c) \/ IssueSession(c) \/ Drop(c)
      PROVE  owner'[i] = owner[i]
  BY <1>7 DEF LoginEmail, Reject, FindIdentity, FindByEmail, IssueSession, Drop, accounts
<1>8. CASE Tick \/ UNCHANGED signInVars
  BY <1>8 DEF Tick, accounts, signInVars
<1> QED
  BY <1>2, <1>3, <1>4, <1>5, <1>6, <1>7, <1>8 DEF SignInNext, ArriveTelegram, ArriveGoogle

(***************************************************************************)
(* A session is issued to the user who owns the identity that the request  *)
(* has proved, and no later step takes the identity away.                  *)
(***************************************************************************)
THEOREM RightUserTheorem == SignInSpec => RightUser
<1>1. ASSUME SignInInv, [SignInNext]_signInVars, NEW c \in Clients, At(c, "issue")
      PROVE  /\ owner[client[c].id] = client[c].user
             /\ client[c].proven
             /\ owner'[client[c].id] = owner[client[c].id]
  <2>1. /\ client[c] \in SignInRequests /\ Fits(client[c])
        /\ client[c].stage = "issue"
    BY <1>1, RequestIs DEF SignInInv, At
  <2>2. /\ owner[client[c].id] = client[c].user /\ client[c].user # NoUser
        /\ client[c].proven
    BY <2>1 DEF Fits
  <2>3. client[c].id \in Identities
    BY <2>1 DEF SignInRequests
  <2> QED
    BY <1>1, <2>2, <2>3, OwnersStay
<1>2. SignInInv /\ [SignInNext]_signInVars =>
        [\A c \in Clients :
           At(c, "issue") =>
             /\ owner[client[c].id] = client[c].user
             /\ client[c].proven
             /\ owner'[client[c].id] = owner[client[c].id]]_signInVars
  BY <1>1
<1> QED
  BY <1>2, SignInInvAlways, PTL DEF SignInSpec, RightUser
=============================================================================
