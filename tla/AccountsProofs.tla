--------------------------- MODULE AccountsProofs ---------------------------
(***************************************************************************)
(* Proofs about Accounts, for every number of users, wallets, sessions and *)
(* challenges and every choice of the three chains.                        *)
(*                                                                         *)
(* None of the properties is inductive.  OnePrimary rests on the user's    *)
(* home: whoever has a wallet row has one with the home address, so the    *)
(* fallback row, primary unasked, is only made for a user without rows.    *)
(* That the linker of a second wallet has a row at all is known from the   *)
(* session, whose wallet is the user's; and that in turn needs the wallets *)
(* that identities name to be their users'.                                *)
(***************************************************************************)
EXTENDS Accounts, TLAPS

(* Wallet rows and users.                                                  *)
OneOwner ==
  \A w1, w2 \in Wallets :
    /\ is_active(w1) /\ is_active(w2)
    /\ wallets[w1].address = wallets[w2].address
    /\ wallets[w1].chain = wallets[w2].chain
    => w1 = w2

HomeRow ==
  \A w \in Wallets : wallets[w].status # "NONE" =>
    /\ users[wallets[w].user].home # None
    /\ \E x \in Wallets : /\ wallets[x].status # "NONE"
                          /\ wallets[x].user = wallets[w].user
                          /\ wallets[x].address = users[wallets[w].user].home

ActiveKept ==
  \A w \in Wallets : wallets[w].status # "NONE" =>
    \E x \in Wallets : is_active(x) /\ wallets[x].user = wallets[w].user

WalletRows ==
  /\ users \in [Users -> User]
  /\ wallets \in [Wallets -> UserWallet \cup {NoWallet}]
  /\ OnePrimary
  /\ OneOwner
  /\ HomeRow
  /\ ActiveKept

(* Rows that refer to them.                                                *)
SessionsOwn ==
  \A i \in Sessions : session[i].status # "NONE" =>
    /\ wallets[session[i].wallet].status # "NONE"
    /\ wallets[session[i].wallet].user = session[i].user

IdentitiesOwn ==
  \A s \in Subjects : identity[s].user # None =>
    /\ users[identity[s].user].home # None
    /\ identity[s].wallet # None =>
         /\ wallets[identity[s].wallet].status # "NONE"
         /\ wallets[identity[s].wallet].user = identity[s].user

References ==
  /\ session \in [Sessions -> AuthSession \cup {NoSession}]
  /\ identity \in [Subjects -> OAuthIdentity \cup {NoIdentity}]
  /\ SessionsOwn
  /\ IdentitiesOwn

ChallengeType ==
  challenge \in [Nonces -> LoginChallenge \cup
    {SpentChallenge(status) : status \in {"NONE", "VERIFIED", "EXPIRED"}}]

IInv == WalletRows /\ References /\ ChallengeType

-----------------------------------------------------------------------------
(* A row is the empty one or has all its columns.                          *)
LEMMA WalletShape ==
  ASSUME wallets \in [Wallets -> UserWallet \cup {NoWallet}], NEW w \in Wallets
  PROVE  /\ wallets[w].status \in {"NONE", "LINKED", "PRIMARY", "REVOKED"}
         /\ wallets[w].status # "NONE" => wallets[w] \in UserWallet
         /\ wallets[w].status = "NONE" =>
              /\ wallets[w].user = None /\ wallets[w].user \notin Users
  <1>1. wallets[w] \in UserWallet \/ wallets[w] = NoWallet
    OBVIOUS
  <1>2. None \notin Users
    BY AccountsConstants
  <1> QED BY <1>1, <1>2 DEF UserWallet, NoWallet

LEMMA SessionShape ==
  ASSUME session \in [Sessions -> AuthSession \cup {NoSession}], NEW i \in Sessions
  PROVE  /\ session[i].status # "NONE" => session[i] \in AuthSession
         /\ session[i].user \in Users => session[i].status # "NONE"
  <1>1. session[i] \in AuthSession \/ session[i] = NoSession
    OBVIOUS
  <1>2. None \notin Users
    BY AccountsConstants
  <1> QED BY <1>1, <1>2 DEF AuthSession, NoSession

LEMMA IdentityShape ==
  ASSUME identity \in [Subjects -> OAuthIdentity \cup {NoIdentity}],
         NEW s \in Subjects, identity[s].user # None
  PROVE  identity[s].user \in Users /\ identity[s].wallet \in Wallets \cup {None}
  <1>1. identity[s] \in OAuthIdentity \/ identity[s] = NoIdentity
    OBVIOUS
  <1> QED BY <1>1 DEF OAuthIdentity, NoIdentity

(* A user with a session has a wallet row.                                 *)
LEMMA SignedInHasRow ==
  ASSUME WalletRows, References, NEW u \in Users, SignedIn(u)
  PROVE  /\ \E w \in Wallets : wallets[w].status # "NONE" /\ wallets[w].user = u
         /\ users[u].home # None
  <1>1. PICK i \in Sessions : session[i].user = u
    BY DEF SignedIn
  <1>2. session[i].status # "NONE" /\ session[i].wallet \in Wallets
    BY <1>1, SessionShape DEF References, AuthSession
  <1>3. /\ wallets[session[i].wallet].status # "NONE"
        /\ wallets[session[i].wallet].user = u
    BY <1>1, <1>2 DEF References, SessionsOwn
  <1> QED BY <1>2, <1>3 DEF WalletRows, HomeRow

(* Unused ids.                                                             *)
LEMMA NewIds ==
  /\ \A u \in NewUser : u \in Users /\ users[u].home = None
  /\ \A w \in NewWallet : w \in Wallets /\ wallets[w].status = "NONE"
  /\ \A i \in NewSession : i \in Sessions /\ session[i].status = "NONE"
  /\ \A n \in NewNonce : n \in Nonces /\ challenge[n].status = "NONE"
  BY DEF NewUser, NewWallet, NewSession, NewNonce, First

-----------------------------------------------------------------------------
(* A new active row.  Primary, it is its user's only active one on the     *)
(* chain; and a user without rows gets one with the home address.          *)
LEMMA AddRow ==
  ASSUME WalletRows, NEW w \in NewWallet, NEW row \in UserWallet,
         row.status # "REVOKED",
         get_active_by_address(row.chain, row.address) = {},
         row.status = "PRIMARY" => active_same_chain(row.user, row.chain) = {},
         users' \in [Users -> User],
         users'[row.user].home # None,
         \A v \in Users : users[v].home # None => users'[v] = users[v],
         list_for_user(row.user) = {} => users'[row.user].home = row.address,
         wallets' = [wallets EXCEPT ![w] = row]
  PROVE  /\ WalletRows'
         /\ \A x \in Wallets : wallets[x].status # "NONE" =>
              wallets'[x] = wallets[x]
         /\ wallets'[w] = row
  <1>0. PICK u \in Users, a \in Addresses, c \in Chains, status \in {"LINKED", "PRIMARY"} :
          row = [user |-> u, address |-> a, chain |-> c, status |-> status]
    BY DEF UserWallet
  <1>1. /\ w \in Wallets /\ wallets[w].status = "NONE"
        /\ row.user = u /\ row.address = a /\ row.chain = c /\ row.status = status
    BY <1>0, NewIds
  <1>2. wallets'[w] = row /\ \A x \in Wallets \ {w} : wallets'[x] = wallets[x]
    BY <1>1 DEF WalletRows
  <1>3. wallets' \in [Wallets -> UserWallet \cup {NoWallet}]
    BY <1>1 DEF WalletRows
  <1>4. \A x \in Wallets : wallets[x].status # "NONE" => wallets'[x] = wallets[x]
    BY <1>1, <1>2
  <1>5. OnePrimary'
    <2>1. \A x \in Wallets \ {w} :
            wallets[x].status = "PRIMARY" /\ wallets[x].user = u
            /\ wallets[x].chain = c => status # "PRIMARY"
      BY <1>1 DEF active_same_chain, list_for_user, is_active
    <2> QED BY <1>1, <1>2, <2>1 DEF OnePrimary, WalletRows
  <1>6. OneOwner'
    <2>1. \A x \in Wallets : ~ (is_active(x) /\ wallets[x].address = a
                                /\ wallets[x].chain = c)
      BY <1>1 DEF get_active_by_address
    <2>2. \A x \in Wallets \ {w} : is_active(x)' => is_active(x)
      BY <1>2 DEF is_active
    <2> QED BY <1>1, <1>2, <2>1, <2>2 DEF OneOwner, WalletRows
  <1>7. HomeRow'
    <2> SUFFICES ASSUME NEW x \in Wallets, wallets'[x].status # "NONE"
                 PROVE  /\ users'[wallets'[x].user].home # None
                        /\ \E y \in Wallets :
                             /\ wallets'[y].status # "NONE"
                             /\ wallets'[y].user = wallets'[x].user
                             /\ wallets'[y].address = users'[wallets'[x].user].home
      BY DEF HomeRow
    <2>1. CASE x # w
      <3>1. wallets'[x] = wallets[x] /\ wallets[x].user \in Users
        BY <1>2, <2>1, WalletShape DEF WalletRows, UserWallet
      <3>2. /\ users[wallets[x].user].home # None
            /\ \E y \in Wallets : /\ wallets[y].status # "NONE"
                                  /\ wallets[y].user = wallets[x].user
                                  /\ wallets[y].address = users[wallets[x].user].home
        BY <3>1 DEF WalletRows, HomeRow
      <3>3. users'[wallets[x].user] = users[wallets[x].user]
        BY <3>1, <3>2
      <3> QED BY <1>4, <3>1, <3>2, <3>3
    <2>2. CASE x = w
      <3>1. CASE list_for_user(u) = {}
        BY <1>0, <1>1, <1>2, <2>2, <3>1
      <3>2. CASE list_for_user(u) # {}
        <4>1. PICK y \in Wallets : wallets[y].user = u
          BY <3>2 DEF list_for_user
        <4>2. wallets[y].status # "NONE"
          BY <4>1, WalletShape DEF WalletRows
        <4>3. /\ users[u].home # None
              /\ \E z \in Wallets : /\ wallets[z].status # "NONE"
                                    /\ wallets[z].user = u
                                    /\ wallets[z].address = users[u].home
          BY <4>1, <4>2 DEF WalletRows, HomeRow
        <4>4. users'[u] = users[u]
          BY <4>3
        <4> QED BY <1>0, <1>1, <1>2, <1>4, <2>2, <4>3, <4>4
      <3> QED BY <3>1, <3>2
    <2> QED BY <2>1, <2>2
  <1>8. ActiveKept'
    <2> SUFFICES ASSUME NEW x \in Wallets, wallets'[x].status # "NONE"
                 PROVE  \E y \in Wallets :
                          is_active(y)' /\ wallets'[y].user = wallets'[x].user
      BY DEF ActiveKept
    <2>1. CASE x = w
      BY <1>0, <1>1, <1>2, <2>1 DEF is_active
    <2>2. CASE x # w
      <3>1. PICK y \in Wallets : is_active(y) /\ wallets[y].user = wallets[x].user
        BY <1>2, <2>2 DEF WalletRows, ActiveKept
      <3>2. wallets'[y] = wallets[y]
        BY <3>1, <1>4 DEF is_active
      <3> QED BY <1>2, <2>2, <3>1, <3>2 DEF is_active
    <2> QED BY <2>1, <2>2
  <1> QED BY <1>2, <1>3, <1>4, <1>5, <1>6, <1>7, <1>8 DEF WalletRows

-----------------------------------------------------------------------------
(* What keeps the references whole: no row goes away or changes hands.     *)
RowsKept ==
  \A x \in Wallets : wallets[x].status # "NONE" =>
    wallets'[x].status # "NONE" /\ wallets'[x].user = wallets[x].user

HomesKept == \A v \in Users : users[v].home # None => users'[v].home # None

SessionsOK ==
  session \in [Sessions -> AuthSession \cup {NoSession}] /\ SessionsOwn

IdentitiesOK ==
  identity \in [Subjects -> OAuthIdentity \cup {NoIdentity}] /\ IdentitiesOwn

LEMMA ReferencesParts ==
  /\ References <=> SessionsOK /\ IdentitiesOK
  /\ References' <=> SessionsOK' /\ IdentitiesOK'
  BY DEF References, SessionsOK, IdentitiesOK

LEMMA KeepSessions ==
  ASSUME SessionsOK, RowsKept, UNCHANGED session
  PROVE  SessionsOK'
  <1>1. \A i \in Sessions : session[i].status # "NONE" => session[i].wallet \in Wallets
    BY SessionShape DEF SessionsOK, AuthSession
  <1> QED BY <1>1 DEF SessionsOK, SessionsOwn, RowsKept

LEMMA OpenSession ==
  ASSUME SessionsOK, RowsKept, NEW i \in NewSession, NEW u \in Users,
         NEW w \in Wallets, wallets'[w].status # "NONE", wallets'[w].user = u,
         StartSession(i, u, w)
  PROVE  SessionsOK'
  <1> DEFINE row == [status |-> "ACTIVE", user |-> u, wallet |-> w, version |-> 0]
  <1>1. i \in Sessions
    BY NewIds
  <1>2. session'[i] = row /\ \A j \in Sessions \ {i} : session'[j] = session[j]
    BY <1>1 DEF StartSession, SessionsOK
  <1>3. row \in AuthSession
    BY AccountsConstants DEF AuthSession
  <1>4. session' \in [Sessions -> AuthSession \cup {NoSession}]
    BY <1>1, <1>3 DEF StartSession, SessionsOK
  <1>5. \A j \in Sessions : session[j].status # "NONE" => session[j].wallet \in Wallets
    BY SessionShape DEF SessionsOK, AuthSession
  <1>6. SessionsOwn'
    BY <1>2, <1>5 DEF SessionsOK, SessionsOwn, RowsKept
  <1> QED BY <1>4, <1>6 DEF SessionsOK

LEMMA KeepIdentities ==
  ASSUME IdentitiesOK, RowsKept, HomesKept, UNCHANGED identity
  PROVE  IdentitiesOK'
  <1>1. \A s \in Subjects : identity[s].user # None =>
          identity[s].user \in Users /\ identity[s].wallet \in Wallets \cup {None}
    BY IdentityShape DEF IdentitiesOK
  <1> QED BY <1>1 DEF IdentitiesOK, IdentitiesOwn, RowsKept, HomesKept

LEMMA NewIdentity ==
  ASSUME IdentitiesOK, RowsKept, HomesKept, NEW s \in Subjects, NEW u \in Users,
         NEW w \in Wallets \cup {None}, users'[u].home # None,
         w # None => wallets'[w].status # "NONE" /\ wallets'[w].user = u,
         identity' = Linked(s, u, w)
  PROVE  IdentitiesOK'
  <1>1. \A t \in Subjects : identity[t].user # None =>
          identity[t].user \in Users /\ identity[t].wallet \in Wallets \cup {None}
    BY IdentityShape DEF IdentitiesOK
  <1>2. /\ identity'[s] = [user |-> u, wallet |-> w]
        /\ \A t \in Subjects \ {s} : identity'[t] = identity[t]
    BY DEF Linked, IdentitiesOK
  <1>3. identity' \in [Subjects -> OAuthIdentity \cup {NoIdentity}]
    BY DEF Linked, IdentitiesOK, OAuthIdentity
  <1>4. IdentitiesOwn'
    BY <1>1, <1>2 DEF IdentitiesOK, IdentitiesOwn, RowsKept, HomesKept
  <1> QED BY <1>3, <1>4 DEF IdentitiesOK

LEMMA NothingMoves ==
  ASSUME WalletRows, UNCHANGED <<users, wallets>>
  PROVE  WalletRows' /\ RowsKept /\ HomesKept
  BY DEF WalletRows, RowsKept, HomesKept, OnePrimary, OneOwner, HomeRow,
         ActiveKept, is_active

LEMMA IssuedChallenge ==
  ASSUME ChallengeType, NEW n \in Nonces, challenge[n].status = "ISSUED"
  PROVE  challenge[n] \in LoginChallenge
  <1>1. \/ challenge[n] \in LoginChallenge
        \/ \E status \in {"NONE", "VERIFIED", "EXPIRED"} :
             challenge[n] = SpentChallenge(status)
    BY DEF ChallengeType
  <1> QED BY <1>1 DEF SpentChallenge

LEMMA SpentIsTyped ==
  ASSUME ChallengeType, NEW n \in Nonces, NEW status \in {"VERIFIED", "EXPIRED"},
         challenge' = [challenge EXCEPT ![n] = SpentChallenge(status)]
  PROVE  ChallengeType'
  BY DEF ChallengeType

LEMMA VerifyStep ==
  ASSUME ChallengeType, NEW n \in Nonces, Verify(n)
  PROVE  ChallengeType' /\ challenge[n] \in LoginChallenge
  BY SpentIsTyped, IssuedChallenge DEF Verify

LEMMA KeepChallenges == ChallengeType /\ UNCHANGED challenge => ChallengeType'
  BY DEF ChallengeType

-----------------------------------------------------------------------------
(* The row that signing in or linking makes, on a chain where nobody has   *)
(* the address.                                                            *)
LEMMA AddWallet ==
  ASSUME WalletRows, NEW w \in NewWallet, NEW u \in Users, NEW a \in Addresses,
         NEW c \in Chains, get_active_by_address(c, a) = {},
         users' \in [Users -> User], users'[u].home # None,
         \A v \in Users : users[v].home # None => users'[v] = users[v],
         list_for_user(u) = {} => users'[u].home = a,
         wallets' = WithWallet(w, u, c, a)
  PROVE  /\ WalletRows' /\ RowsKept /\ HomesKept
         /\ w \in Wallets /\ wallets'[w].status # "NONE" /\ wallets'[w].user = u
  <1>1. PICK row \in UserWallet :
          row = [user |-> u, address |-> a, chain |-> c,
                 status |-> IF active_same_chain(u, c) = {} THEN "PRIMARY"
                            ELSE "LINKED"]
    <2>1. PICK status \in {"LINKED", "PRIMARY"} :
            status = IF active_same_chain(u, c) = {} THEN "PRIMARY" ELSE "LINKED"
      OBVIOUS
    <2>2. [user |-> u, address |-> a, chain |-> c, status |-> status] \in UserWallet
      BY DEF UserWallet
    <2> QED BY <2>1, <2>2
  <1>2. wallets' = [wallets EXCEPT ![w] = row]
    BY <1>1 DEF WithWallet
  <1>5. /\ row.user = u /\ row.address = a /\ row.chain = c
        /\ row.status \in {"LINKED", "PRIMARY"}
        /\ row.status = "PRIMARY" => active_same_chain(u, c) = {}
    BY <1>1
  <1>3. /\ WalletRows'
        /\ \A x \in Wallets : wallets[x].status # "NONE" => wallets'[x] = wallets[x]
        /\ wallets'[w].status # "NONE" /\ wallets'[w].user = u
    <2>1. get_active_by_address(row.chain, row.address) = {}
      BY <1>5
    <2>2. row.status = "PRIMARY" => active_same_chain(row.user, row.chain) = {}
      BY <1>5
    <2>3. /\ users'[row.user].home # None
          /\ list_for_user(row.user) = {} => users'[row.user].home = row.address
      BY <1>5
    <2>4. row.status # "REVOKED" /\ row.status # "NONE"
      BY <1>5
    <2>5. /\ WalletRows' /\ wallets'[w] = row
          /\ \A x \in Wallets : wallets[x].status # "NONE" => wallets'[x] = wallets[x]
      BY ONLY <1>2, <2>1, <2>2, <2>3, <2>4, AddRow, WalletRows, users' \in [Users -> User],
         \A v \in Users : users[v].home # None => users'[v] = users[v]
    <2> QED BY <1>5, <2>4, <2>5
  <1>4. w \in Wallets
    BY NewIds
  <1> QED BY <1>3, <1>4 DEF RowsKept, HomesKept

(* A user who signs up has no rows yet.                                    *)
LEMMA SignUp ==
  ASSUME WalletRows, NEW u \in NewUser, NEW a \in Addresses, users' = Registered(u, a)
  PROVE  /\ u \in Users
         /\ users' \in [Users -> User] /\ users'[u].home = a /\ a # None
         /\ \A v \in Users : users[v].home # None => users'[v] = users[v]
         /\ list_for_user(u) = {}
  <1>1. u \in Users /\ users[u].home = None
    BY NewIds
  <1>2. a # None
    BY AccountsConstants
  <1>3. list_for_user(u) = {}
    <2> SUFFICES ASSUME NEW w \in Wallets, wallets[w].user = u PROVE FALSE
      BY DEF list_for_user
    <2>1. wallets[w].status # "NONE"
      BY <1>1, WalletShape DEF WalletRows
    <2> QED BY <1>1, <2>1 DEF WalletRows, HomeRow
  <1>4. users' \in [Users -> User] /\ users'[u].home = a
    BY <1>1 DEF WalletRows, Registered, User
  <1>5. \A v \in Users : users[v].home # None => users'[v] = users[v]
    BY <1>1 DEF WalletRows, Registered
  <1> QED BY <1>1, <1>2, <1>3, <1>4, <1>5

(* The session of an OAuth sign-in.                                        *)
LEMMA SessionWalletStep ==
  ASSUME WalletRows, SessionsOK, NEW i \in NewSession, NEW u \in Users,
         users[u].home # None, NEW named \in Wallets \cup {None},
         named # None => wallets[named].status # "NONE" /\ wallets[named].user = u,
         SessionWallet(i, u, named), UNCHANGED users
  PROVE  WalletRows' /\ SessionsOK' /\ RowsKept /\ HomesKept
  <1>1. CASE named # None
    <2>1. StartSession(i, u, named) /\ UNCHANGED wallets
      BY <1>1 DEF SessionWallet
    <2>2. WalletRows' /\ RowsKept /\ HomesKept
      BY <2>1, NothingMoves
    <2> QED BY <1>1, <2>1, <2>2, OpenSession
  <1>2. CASE named = None /\ HomeRows(u) # {}
    <2>1. PICK w \in HomeRows(u) : StartSession(i, u, w) /\ UNCHANGED wallets
      BY <1>2 DEF SessionWallet
    <2>2. w \in Wallets /\ wallets[w].user = u
      BY DEF HomeRows, list_for_user
    <2>3. wallets[w].status # "NONE"
      BY <2>2, WalletShape DEF WalletRows
    <2>4. WalletRows' /\ RowsKept /\ HomesKept
      BY <2>1, NothingMoves
    <2> QED BY <2>1, <2>2, <2>3, <2>4, OpenSession
  <1>3. CASE named = None /\ HomeRows(u) = {}
    <2>1. FallbackWallet(i, u)
      BY <1>3 DEF SessionWallet
    <2>2. PICK w \in NewWallet :
            /\ get_active_by_address(FallbackChain, users[u].home) = {}
            /\ wallets' = [wallets EXCEPT ![w] =
                             [user |-> u, address |-> users[u].home,
                              chain |-> FallbackChain, status |-> "PRIMARY"]]
            /\ StartSession(i, u, w)
      BY <2>1 DEF FallbackWallet
    <2>3. list_for_user(u) = {}
      <3> SUFFICES ASSUME NEW x \in Wallets, wallets[x].user = u PROVE FALSE
        BY DEF list_for_user
      <3>1. wallets[x].status # "NONE"
        BY WalletShape DEF WalletRows
      <3>2. PICK y \in Wallets : wallets[y].user = u /\ wallets[y].address = users[u].home
        BY <3>1 DEF WalletRows, HomeRow
      <3> QED BY <1>3, <3>2 DEF HomeRows, list_for_user
    <2>4. active_same_chain(u, FallbackChain) = {}
      BY <2>3 DEF active_same_chain
    <2>5. PICK row \in UserWallet :
            row = [user |-> u, address |-> users[u].home, chain |-> FallbackChain,
                   status |-> "PRIMARY"]
      BY AccountsConstants DEF WalletRows, User, UserWallet
    <2>10. /\ row.user = u /\ row.address = users[u].home
           /\ row.chain = FallbackChain /\ row.status = "PRIMARY"
      BY <2>5
    <2>11. wallets' = [wallets EXCEPT ![w] = row]
      BY <2>2, <2>5
    <2>6. users' \in [Users -> User] /\ \A v \in Users : users'[v] = users[v]
      BY DEF WalletRows
    <2>7. /\ WalletRows'
          /\ \A x \in Wallets : wallets[x].status # "NONE" => wallets'[x] = wallets[x]
          /\ wallets'[w].status # "NONE" /\ wallets'[w].user = u
      <3>1. /\ get_active_by_address(row.chain, row.address) = {}
            /\ active_same_chain(row.user, row.chain) = {}
            /\ users'[row.user].home # None /\ users'[row.user].home = row.address
            /\ row.status # "REVOKED" /\ row.status # "NONE"
        BY <2>2, <2>4, <2>6, <2>10
      <3>2. /\ WalletRows' /\ wallets'[w] = row
            /\ \A x \in Wallets : wallets[x].status # "NONE" => wallets'[x] = wallets[x]
        BY ONLY <2>11, <2>6, <3>1, AddRow, WalletRows
      <3> QED BY <2>10, <3>1, <3>2
    <2>8. RowsKept /\ HomesKept
      BY <2>6, <2>7 DEF RowsKept, HomesKept
    <2>9. w \in Wallets
      BY NewIds
    <2> QED BY <2>2, <2>7, <2>8, <2>9, OpenSession
  <1> QED BY <1>1, <1>2, <1>3

-----------------------------------------------------------------------------
(* One lemma per action.                                                   *)
LEMMA InitIInv == Init => IInv
  <1> SUFFICES ASSUME Init PROVE IInv
    OBVIOUS
  <1>1. WalletRows
    BY DEF Init, WalletRows, NoUser, User, NoWallet, OnePrimary, OneOwner, HomeRow,
           ActiveKept, is_active
  <1>2. References
    BY DEF Init, References, NoSession, NoIdentity, SessionsOwn, IdentitiesOwn
  <1>3. ChallengeType
    BY DEF Init, ChallengeType, NoChallenge
  <1> QED BY <1>1, <1>2, <1>3 DEF IInv

LEMMA IssueStep ==
  ASSUME IInv, NEW n \in NewNonce, NEW a \in Addresses,
         NEW target \in Users \cup {None}, Issue(n, a, target)
  PROVE  IInv'
  <1>1. WalletRows' /\ References'
    BY NothingMoves, KeepSessions, KeepIdentities, ReferencesParts DEF IInv, Issue
  <1>2. n \in Nonces
    BY NewIds
  <1>3. [status |-> "ISSUED", address |-> a, target |-> target] \in LoginChallenge
    BY DEF LoginChallenge
  <1>4. ChallengeType'
    BY <1>2, <1>3 DEF IInv, ChallengeType, Issue
  <1> QED BY <1>1, <1>4 DEF IInv

LEMMA ChallengeExpiresStep ==
  ASSUME IInv, NEW n \in Nonces, ChallengeExpires(n)
  PROVE  IInv'
  <1>1. WalletRows' /\ References'
    BY NothingMoves, KeepSessions, KeepIdentities, ReferencesParts
       DEF IInv, ChallengeExpires
  <1>2. ChallengeType'
    BY SpentIsTyped DEF IInv, ChallengeExpires
  <1> QED BY <1>1, <1>2 DEF IInv

LEMMA login_knownStep ==
  ASSUME IInv, NEW n \in Nonces, NEW i \in NewSession, NEW w \in Wallets,
         login_known(n, i, w)
  PROVE  IInv'
  <1>1. WalletRows' /\ RowsKept /\ HomesKept
    BY NothingMoves DEF IInv, login_known
  <1>2. wallets[w].status # "NONE"
    BY DEF login_known, get_active_by_address, is_active
  <1>3. wallets[w].user \in Users
    BY <1>2, WalletShape DEF IInv, WalletRows, UserWallet
  <1>4. SessionsOK'
    BY <1>1, <1>2, <1>3, OpenSession, ReferencesParts DEF IInv, login_known
  <1>5. IdentitiesOK'
    BY <1>1, KeepIdentities, ReferencesParts DEF IInv, login_known
  <1>6. ChallengeType'
    BY VerifyStep DEF IInv, login_known
  <1> QED BY <1>1, <1>4, <1>5, <1>6, ReferencesParts DEF IInv

LEMMA login_homeStep ==
  ASSUME IInv, NEW n \in Nonces, NEW i \in NewSession, NEW u \in Users,
         login_home(n, i, u)
  PROVE  IInv'
  <1>0. ChallengeType' /\ challenge[n].address \in Addresses
    BY VerifyStep DEF IInv, login_home, LoginChallenge
  <1>1. PICK a \in Addresses : a = challenge[n].address
    BY <1>0
  <1>2. PICK w \in NewWallet : /\ wallets' = WithWallet(w, u, SignChain, a)
                               /\ StartSession(i, u, w)
    BY <1>1 DEF login_home
  <1>3. /\ get_active_by_address(SignChain, a) = {} /\ users[u].home = a
        /\ UNCHANGED <<users, identity>>
    BY <1>1 DEF login_home, get_by_wallet
  <1>4. SignChain \in Chains /\ a # None
    BY <1>1, AccountsConstants
  <1>5. /\ users' \in [Users -> User] /\ users'[u].home = a
        /\ \A v \in Users : users'[v] = users[v]
    BY <1>3 DEF IInv, WalletRows
  <1>6. /\ WalletRows' /\ RowsKept /\ HomesKept
        /\ w \in Wallets /\ wallets'[w].status # "NONE" /\ wallets'[w].user = u
    BY <1>1, <1>2, <1>3, <1>4, <1>5, AddWallet DEF IInv
  <1>7. SessionsOK' /\ IdentitiesOK'
    BY <1>2, <1>3, <1>6, OpenSession, KeepIdentities, ReferencesParts DEF IInv
  <1> QED BY <1>0, <1>6, <1>7, ReferencesParts DEF IInv

LEMMA login_registerStep ==
  ASSUME IInv, NEW n \in Nonces, NEW i \in NewSession, login_register(n, i)
  PROVE  IInv'
  <1>0. ChallengeType' /\ challenge[n].address \in Addresses
    BY VerifyStep DEF IInv, login_register, LoginChallenge
  <1>1. PICK a \in Addresses : a = challenge[n].address
    BY <1>0
  <1>2. PICK u \in NewUser, w \in NewWallet :
          /\ users' = Registered(u, a)
          /\ wallets' = WithWallet(w, u, SignChain, a)
          /\ StartSession(i, u, w)
    BY <1>1 DEF login_register
  <1>3. get_active_by_address(SignChain, a) = {} /\ UNCHANGED identity
    BY <1>1 DEF login_register
  <1>4. SignChain \in Chains
    BY AccountsConstants
  <1>5. /\ u \in Users
        /\ users' \in [Users -> User] /\ users'[u].home = a /\ a # None
        /\ \A v \in Users : users[v].home # None => users'[v] = users[v]
        /\ list_for_user(u) = {}
    BY <1>1, <1>2, SignUp DEF IInv
  <1>6. /\ WalletRows' /\ RowsKept /\ HomesKept
        /\ w \in Wallets /\ wallets'[w].status # "NONE" /\ wallets'[w].user = u
    BY <1>1, <1>2, <1>3, <1>4, <1>5, AddWallet DEF IInv
  <1>7. SessionsOK' /\ IdentitiesOK'
    BY <1>2, <1>3, <1>5, <1>6, OpenSession, KeepIdentities, ReferencesParts DEF IInv
  <1> QED BY <1>0, <1>6, <1>7, ReferencesParts DEF IInv

LEMMA oauth_linkedStep ==
  ASSUME IInv, NEW s \in Subjects, NEW i \in NewSession, oauth_linked(s, i)
  PROVE  IInv'
  <1>1. /\ identity[s].user # None
        /\ SessionWallet(i, identity[s].user, identity[s].wallet)
        /\ UNCHANGED <<users, identity, challenge>>
    BY DEF oauth_linked
  <1>2. identity[s].user \in Users /\ identity[s].wallet \in Wallets \cup {None}
    BY <1>1, IdentityShape DEF IInv, References
  <1>3. PICK u \in Users, named \in Wallets \cup {None} :
          u = identity[s].user /\ named = identity[s].wallet
    BY <1>2
  <1>4. /\ users[u].home # None
        /\ named # None => wallets[named].status # "NONE" /\ wallets[named].user = u
    BY <1>1, <1>3 DEF IInv, References, IdentitiesOwn
  <1>5. WalletRows' /\ SessionsOK' /\ RowsKept /\ HomesKept
    BY <1>1, <1>3, <1>4, SessionWalletStep, ReferencesParts DEF IInv
  <1>6. IdentitiesOK'
    BY <1>1, <1>5, KeepIdentities, ReferencesParts DEF IInv
  <1>7. ChallengeType'
    BY <1>1, KeepChallenges DEF IInv
  <1> QED BY <1>5, <1>6, <1>7, ReferencesParts DEF IInv

LEMMA oauth_homeStep ==
  ASSUME IInv, NEW s \in Subjects, NEW i \in NewSession, NEW u \in Users,
         oauth_home(s, i, u)
  PROVE  IInv'
  <1>1. /\ identity' = Linked(s, u, None) /\ SessionWallet(i, u, None)
        /\ UNCHANGED <<users, challenge>>
    BY DEF oauth_home
  <1>2. users[u].home # None
    BY AccountsConstants DEF oauth_home, get_by_wallet
  <1>3. WalletRows' /\ SessionsOK' /\ RowsKept /\ HomesKept
    BY <1>1, <1>2, SessionWalletStep, ReferencesParts DEF IInv
  <1>4. IdentitiesOK'
    BY <1>1, <1>2, <1>3, NewIdentity, ReferencesParts DEF IInv
  <1>5. ChallengeType'
    BY <1>1, KeepChallenges DEF IInv
  <1> QED BY <1>3, <1>4, <1>5, ReferencesParts DEF IInv

LEMMA oauth_registerStep ==
  ASSUME IInv, NEW s \in Subjects, NEW i \in NewSession, oauth_register(s, i)
  PROVE  IInv'
  <1>1. PICK a \in Addresses, c \in Chains :
          /\ a = OAuthWallet[s]
          /\ c = IF get_active_by_address(OAuthChain, a) # {} THEN FallbackChain
                 ELSE OAuthChain
    <2>1. OAuthWallet[s] \in Addresses /\ OAuthChain \in Chains /\ FallbackChain \in Chains
      BY AccountsConstants
    <2> QED BY <2>1
  <1>2. get_active_by_address(c, a) = {} /\ UNCHANGED challenge
    BY <1>1 DEF oauth_register
  <1>3. PICK u \in NewUser, w \in NewWallet :
          /\ users' = Registered(u, a)
          /\ wallets' = WithWallet(w, u, c, a)
          /\ identity' = Linked(s, u, None)
          /\ StartSession(i, u, w)
    BY <1>1 DEF oauth_register
  <1>4. /\ u \in Users
        /\ users' \in [Users -> User] /\ users'[u].home = a /\ a # None
        /\ \A v \in Users : users[v].home # None => users'[v] = users[v]
        /\ list_for_user(u) = {}
    BY <1>3, SignUp DEF IInv
  <1>5. /\ WalletRows' /\ RowsKept /\ HomesKept
        /\ w \in Wallets /\ wallets'[w].status # "NONE" /\ wallets'[w].user = u
    BY <1>2, <1>3, <1>4, AddWallet DEF IInv
  <1>6. SessionsOK'
    BY <1>3, <1>4, <1>5, OpenSession, ReferencesParts DEF IInv
  <1>7. IdentitiesOK'
    BY <1>3, <1>4, <1>5, NewIdentity, ReferencesParts DEF IInv
  <1>8. ChallengeType'
    BY <1>2, KeepChallenges DEF IInv
  <1> QED BY <1>5, <1>6, <1>7, <1>8, ReferencesParts DEF IInv

LEMMA linkOAuthIdentityStep ==
  ASSUME IInv, NEW u \in Users, NEW s \in Subjects, NEW w \in Wallets \cup {None},
         linkOAuthIdentity(u, s, w)
  PROVE  IInv'
  <1>1. /\ SignedIn(u) /\ identity' = Linked(s, u, w)
        /\ UNCHANGED <<users, wallets, challenge, session>>
    BY DEF linkOAuthIdentity
  <1>2. WalletRows' /\ RowsKept /\ HomesKept
    BY <1>1, NothingMoves DEF IInv
  <1>3. users'[u].home # None
    BY <1>1, SignedInHasRow DEF IInv
  <1>4. w # None => wallets'[w].status # "NONE" /\ wallets'[w].user = u
    BY <1>1, WalletShape DEF linkOAuthIdentity, list_for_user, IInv, WalletRows
  <1>5. SessionsOK' /\ IdentitiesOK'
    BY <1>1, <1>2, <1>3, <1>4, KeepSessions, NewIdentity, ReferencesParts DEF IInv
  <1>6. ChallengeType'
    BY <1>1, KeepChallenges DEF IInv
  <1> QED BY <1>2, <1>5, <1>6, ReferencesParts DEF IInv

LEMMA revokeOAuthIdentityStep ==
  ASSUME IInv, NEW u \in Users, NEW s \in Subjects, revokeOAuthIdentity(u, s)
  PROVE  IInv'
  <1>1. /\ identity' = [identity EXCEPT ![s] = NoIdentity]
        /\ UNCHANGED <<users, wallets, challenge, session>>
    BY DEF revokeOAuthIdentity
  <1>2. WalletRows' /\ RowsKept /\ HomesKept
    BY <1>1, NothingMoves DEF IInv
  <1>3. SessionsOK'
    BY <1>1, <1>2, KeepSessions, ReferencesParts DEF IInv
  <1>4. IdentitiesOK'
    BY <1>1 DEF IInv, References, IdentitiesOK, IdentitiesOwn, NoIdentity
  <1>5. ChallengeType'
    BY <1>1, KeepChallenges DEF IInv
  <1> QED BY <1>2, <1>3, <1>4, <1>5, ReferencesParts DEF IInv

LEMMA linkWalletStep ==
  ASSUME IInv, NEW n \in Nonces, NEW u \in Users, linkWallet(n, u)
  PROVE  IInv'
  <1>1. ChallengeType' /\ challenge[n].address \in Addresses
    BY VerifyStep DEF IInv, linkWallet, LoginChallenge
  <1>2. PICK a \in Addresses : a = challenge[n].address
    BY <1>1
  <1>3. SignedIn(u) /\ UNCHANGED <<users, identity, session>>
    BY DEF linkWallet
  <1>4. WalletRows' /\ RowsKept /\ HomesKept
    <2>1. CASE get_active_by_address(SignChain, a) # {}
      BY <1>2, <1>3, <2>1, NothingMoves DEF IInv, linkWallet
    <2>2. CASE get_active_by_address(SignChain, a) = {}
      <3>1. PICK w \in NewWallet : wallets' = WithWallet(w, u, SignChain, a)
        BY <1>2, <2>2 DEF linkWallet
      <3>2. list_for_user(u) # {} /\ users[u].home # None
        BY <1>3, SignedInHasRow DEF IInv, list_for_user
      <3>3. /\ users' \in [Users -> User] /\ users'[u].home # None
            /\ \A v \in Users : users'[v] = users[v]
        BY <1>3, <3>2 DEF IInv, WalletRows
      <3>4. SignChain \in Chains
        BY AccountsConstants
      <3> QED BY <2>2, <3>1, <3>2, <3>3, <3>4, AddWallet DEF IInv
    <2> QED BY <2>1, <2>2
  <1>5. SessionsOK' /\ IdentitiesOK'
    BY <1>3, <1>4, KeepSessions, KeepIdentities, ReferencesParts DEF IInv
  <1> QED BY <1>1, <1>4, <1>5, ReferencesParts DEF IInv

(* Rows change status only: an active one stays active or is revoked.      *)
LEMMA Restatus ==
  ASSUME WalletRows, UNCHANGED users,
         wallets' \in [Wallets -> UserWallet \cup {NoWallet}],
         \A x \in Wallets :
           /\ wallets'[x].user = wallets[x].user
           /\ wallets'[x].address = wallets[x].address
           /\ wallets'[x].chain = wallets[x].chain
           /\ (wallets'[x].status = "NONE") <=> (wallets[x].status = "NONE")
           /\ is_active(x)' => is_active(x),
         OnePrimary', ActiveKept'
  PROVE  WalletRows' /\ RowsKept /\ HomesKept
  <1>1. OneOwner'
    BY DEF WalletRows, OneOwner
  <1>2. HomeRow'
    BY DEF WalletRows, HomeRow
  <1>3. RowsKept /\ HomesKept
    BY DEF RowsKept, HomesKept
  <1> QED BY <1>1, <1>2, <1>3 DEF WalletRows

LEMMA setPrimaryWalletStep ==
  ASSUME IInv, NEW u \in Users, NEW w \in Wallets, setPrimaryWallet(u, w)
  PROVE  IInv'
  <1> DEFINE others == active_same_chain(u, wallets[w].chain)
  <1>1. /\ wallets[w].user = u /\ is_active(w)
        /\ wallets' = [x \in Wallets |->
             IF x = w THEN [wallets[x] EXCEPT !.status = "PRIMARY"]
             ELSE IF x \in others THEN [wallets[x] EXCEPT !.status = "LINKED"]
             ELSE wallets[x]]
        /\ UNCHANGED <<users, identity, challenge, session>>
    BY DEF setPrimaryWallet, list_for_user
  <1>2. \A x \in Wallets : x \in others <=>
          is_active(x) /\ wallets[x].user = u /\ wallets[x].chain = wallets[w].chain
    BY DEF active_same_chain, list_for_user
  <1> HIDE DEF others
  <1>3. \A x \in Wallets : is_active(x) => wallets[x] \in UserWallet
    BY WalletShape DEF IInv, WalletRows, is_active
  <1>4. \A x \in Wallets :
          /\ wallets'[x] \in UserWallet \cup {NoWallet}
          /\ wallets'[x].user = wallets[x].user
          /\ wallets'[x].address = wallets[x].address
          /\ wallets'[x].chain = wallets[x].chain
          /\ (wallets'[x].status = "NONE") <=> (wallets[x].status = "NONE")
          /\ is_active(x)' <=> is_active(x)
    <2> SUFFICES ASSUME NEW x \in Wallets
                 PROVE  /\ wallets'[x] \in UserWallet \cup {NoWallet}
                        /\ wallets'[x].user = wallets[x].user
                        /\ wallets'[x].address = wallets[x].address
                        /\ wallets'[x].chain = wallets[x].chain
                        /\ (wallets'[x].status = "NONE") <=> (wallets[x].status = "NONE")
                        /\ is_active(x)' <=> is_active(x)
      OBVIOUS
    <2>1. CASE x \notin others /\ x # w
      <3>1. wallets'[x] = wallets[x]
        BY <1>1, <2>1
      <3> QED BY <3>1 DEF IInv, WalletRows, is_active
    <2>2. CASE x \in others \/ x = w
      <3>1. PICK new \in {"LINKED", "PRIMARY"} :
              wallets'[x] = [wallets[x] EXCEPT !.status = new]
        BY <1>1, <2>2
      <3>2. is_active(x) /\ wallets[x] \in UserWallet
        BY <1>1, <1>2, <1>3, <2>2
      <3> QED BY <3>1, <3>2 DEF UserWallet, is_active
    <2> QED BY <2>1, <2>2
  <1>5. wallets' \in [Wallets -> UserWallet \cup {NoWallet}]
    <2>1. wallets' = [x \in Wallets |-> wallets'[x]]
      BY <1>1
    <2> QED BY <1>4, <2>1
  <1>6. OnePrimary'
    <2>1. \A x \in Wallets : /\ wallets'[x].user = u
                              /\ wallets'[x].chain = wallets[w].chain
                              /\ wallets'[x].status = "PRIMARY"
                              => x = w
      <3> SUFFICES ASSUME NEW x \in Wallets, wallets'[x].user = u,
                          wallets'[x].chain = wallets[w].chain,
                          wallets'[x].status = "PRIMARY", x # w
                   PROVE  FALSE
        OBVIOUS
      <3>1. is_active(x)
        BY <1>4 DEF is_active
      <3>2. x \in others /\ wallets[x] \in UserWallet
        BY <1>2, <1>3, <1>4, <3>1
      <3>3. wallets'[x] = [wallets[x] EXCEPT !.status = "LINKED"]
        BY <1>1, <3>2
      <3> QED BY <3>2, <3>3 DEF UserWallet
    <2>2. \A x \in Wallets : wallets'[x].status = "PRIMARY" =>
            x = w \/ wallets[x].status = "PRIMARY"
      <3> SUFFICES ASSUME NEW x \in Wallets, wallets'[x].status = "PRIMARY", x # w
                   PROVE  wallets[x].status = "PRIMARY"
        OBVIOUS
      <3>1. x \notin others
        <4>1. SUFFICES ASSUME x \in others PROVE FALSE
          OBVIOUS
        <4>2. wallets[x] \in UserWallet
          BY <1>2, <1>3, <4>1
        <4>3. wallets'[x] = [wallets[x] EXCEPT !.status = "LINKED"]
          BY <1>1, <4>1
        <4> QED BY <4>2, <4>3 DEF UserWallet
      <3> QED BY <1>1, <3>1
    <2>3. wallets[w].chain = wallets'[w].chain /\ wallets'[w].user = u
      BY <1>1, <1>4
    <2> QED BY <1>4, <2>1, <2>2, <2>3 DEF IInv, WalletRows, OnePrimary
  <1>7. ActiveKept'
    BY <1>4 DEF IInv, WalletRows, ActiveKept
  <1>8. WalletRows' /\ RowsKept /\ HomesKept
    BY <1>1, <1>4, <1>5, <1>6, <1>7, Restatus DEF IInv
  <1>9. SessionsOK' /\ IdentitiesOK' /\ ChallengeType'
    BY <1>1, <1>8, KeepSessions, KeepIdentities, KeepChallenges, ReferencesParts DEF IInv
  <1> QED BY <1>8, <1>9, ReferencesParts DEF IInv

LEMMA revokeWalletStep ==
  ASSUME IInv, NEW u \in Users, NEW w \in Wallets, revokeWallet(u, w)
  PROVE  IInv'
  <1>1. /\ wallets[w].user = u /\ is_active(w)
        /\ wallets' = [wallets EXCEPT ![w].status = "REVOKED"]
        /\ UNCHANGED <<users, identity, challenge, session>>
    BY DEF revokeWallet, list_for_user
  <1>2. PICK y \in Wallets : y # w /\ wallets[y].user = u /\ is_active(y)
    BY DEF revokeWallet, list_for_user
  <1>3. wallets[w] \in UserWallet
    BY <1>1, WalletShape DEF IInv, WalletRows, is_active
  <1>4. \A x \in Wallets \ {w} : wallets'[x] = wallets[x]
    BY <1>1 DEF IInv, WalletRows
  <1>5. /\ wallets'[w] \in UserWallet
        /\ wallets'[w].user = wallets[w].user
        /\ wallets'[w].address = wallets[w].address
        /\ wallets'[w].chain = wallets[w].chain
        /\ wallets'[w].status = "REVOKED"
    <2>1. wallets'[w] = [wallets[w] EXCEPT !.status = "REVOKED"]
      BY <1>1 DEF IInv, WalletRows
    <2> QED BY <1>3, <2>1 DEF UserWallet
  <1>6. wallets' \in [Wallets -> UserWallet \cup {NoWallet}]
    BY <1>1, <1>4, <1>5 DEF IInv, WalletRows
  <1>7. \A x \in Wallets :
          /\ wallets'[x].user = wallets[x].user
          /\ wallets'[x].address = wallets[x].address
          /\ wallets'[x].chain = wallets[x].chain
          /\ (wallets'[x].status = "NONE") <=> (wallets[x].status = "NONE")
          /\ is_active(x)' => is_active(x)
    BY <1>1, <1>3, <1>4, <1>5 DEF is_active
  <1>8. OnePrimary'
    BY <1>4, <1>5 DEF IInv, WalletRows, OnePrimary
  <1>9. ActiveKept'
    <2> SUFFICES ASSUME NEW x \in Wallets, wallets'[x].status # "NONE"
                 PROVE  \E z \in Wallets :
                          is_active(z)' /\ wallets'[z].user = wallets'[x].user
      BY DEF ActiveKept
    <2>1. PICK z \in Wallets : is_active(z) /\ wallets[z].user = wallets[x].user
      BY <1>7 DEF IInv, WalletRows, ActiveKept
    <2>2. CASE z = w
      BY <1>1, <1>2, <1>4, <1>7, <2>1, <2>2 DEF is_active
    <2>3. CASE z # w
      BY <1>4, <1>7, <2>1, <2>3 DEF is_active
    <2> QED BY <2>2, <2>3
  <1>10. WalletRows' /\ RowsKept /\ HomesKept
    BY <1>1, <1>6, <1>7, <1>8, <1>9, Restatus DEF IInv
  <1>11. SessionsOK' /\ IdentitiesOK' /\ ChallengeType'
    BY <1>1, <1>10, KeepSessions, KeepIdentities, KeepChallenges, ReferencesParts DEF IInv
  <1> QED BY <1>10, <1>11, ReferencesParts DEF IInv

(* A session's row changes, and still names the same user and wallet.      *)
LEMMA SessionRowStep ==
  ASSUME IInv, NEW i \in Sessions, NEW row \in AuthSession,
         session[i].status # "NONE", row.user = session[i].user,
         row.wallet = session[i].wallet, session' = [session EXCEPT ![i] = row],
         UNCHANGED <<users, wallets, identity, challenge>>
  PROVE  IInv'
  <1>1. WalletRows' /\ RowsKept /\ HomesKept
    BY NothingMoves DEF IInv
  <1>2. session'[i] = row /\ \A j \in Sessions \ {i} : session'[j] = session[j]
    BY DEF IInv, References
  <1>3. SessionsOK'
    BY <1>2 DEF IInv, References, SessionsOK, SessionsOwn
  <1>4. IdentitiesOK' /\ ChallengeType'
    BY <1>1, KeepIdentities, KeepChallenges, ReferencesParts DEF IInv
  <1> QED BY <1>1, <1>3, <1>4, ReferencesParts DEF IInv

LEMMA refreshSessionStep ==
  ASSUME IInv, NEW i \in Sessions, NEW v \in 0 .. MaxRotations, refreshSession(i, v)
  PROVE  IInv'
  <1>1. /\ session[i].status # "NONE" /\ v = session[i].version
        /\ session[i].version < MaxRotations
        /\ session' = [session EXCEPT ![i].version = v + 1]
        /\ UNCHANGED <<users, wallets, identity, challenge>>
    BY DEF refreshSession
  <1>2. session[i] \in AuthSession
    BY <1>1, SessionShape DEF IInv, References
  <1>3. v + 1 \in 0 .. MaxRotations
    BY <1>1, AccountsConstants
  <1>4. PICK row \in AuthSession : row = [session[i] EXCEPT !.version = v + 1]
    BY <1>2, <1>3 DEF AuthSession
  <1>5. session' = [session EXCEPT ![i] = row]
    BY <1>1, <1>4 DEF IInv, References
  <1>6. row.user = session[i].user /\ row.wallet = session[i].wallet
    BY <1>2, <1>4 DEF AuthSession
  <1> QED BY <1>1, <1>5, <1>6, SessionRowStep

LEMMA EndSessionStep ==
  ASSUME IInv, NEW i \in Sessions, EndSession(i)
  PROVE  IInv'
  <1>1. /\ session[i].status # "NONE"
        /\ session' = [session EXCEPT ![i].status = "ENDED"]
        /\ UNCHANGED <<users, wallets, identity, challenge>>
    BY DEF EndSession
  <1>2. session[i] \in AuthSession
    BY <1>1, SessionShape DEF IInv, References
  <1>3. PICK row \in AuthSession : row = [session[i] EXCEPT !.status = "ENDED"]
    BY <1>2 DEF AuthSession
  <1>4. session' = [session EXCEPT ![i] = row]
    BY <1>1, <1>3 DEF IInv, References
  <1>5. row.user = session[i].user /\ row.wallet = session[i].wallet
    BY <1>2, <1>3 DEF AuthSession
  <1> QED BY <1>1, <1>4, <1>5, SessionRowStep

(* No row is the new user's, so no home changes under a row.               *)
LEMMA createStoreUserStep ==
  ASSUME IInv, NEW a \in Addresses, createStoreUser(a)
  PROVE  IInv'
  <1>1. UNCHANGED <<wallets, identity, challenge, session>>
    BY DEF createStoreUser
  <1>2. PICK u \in NewUser : users' = [users EXCEPT ![u].home = a]
    BY DEF createStoreUser
  <1>3. u \in Users /\ users[u].home = None /\ users[u] \in User
    BY NewIds DEF IInv, WalletRows
  <1>4. /\ users' \in [Users -> User]
        /\ \A v \in Users : users[v].home # None => users'[v] = users[v]
    BY <1>2, <1>3 DEF IInv, WalletRows, User
  <1>5. \A w \in Wallets : wallets[w].status # "NONE" =>
          wallets[w].user \in Users /\ users'[wallets[w].user] = users[wallets[w].user]
    BY <1>4, WalletShape DEF IInv, WalletRows, HomeRow, UserWallet
  <1>6. HomeRow'
    BY <1>1, <1>5 DEF IInv, WalletRows, HomeRow
  <1>7. OnePrimary' /\ OneOwner' /\ ActiveKept'
    BY <1>1 DEF IInv, WalletRows, OnePrimary, OneOwner, ActiveKept, is_active
  <1>8. WalletRows' /\ RowsKept /\ HomesKept
    BY <1>1, <1>4, <1>6, <1>7 DEF IInv, WalletRows, RowsKept, HomesKept
  <1>9. SessionsOK' /\ IdentitiesOK' /\ ChallengeType'
    BY <1>1, <1>8, KeepSessions, KeepIdentities, KeepChallenges, ReferencesParts DEF IInv
  <1> QED BY <1>8, <1>9, ReferencesParts DEF IInv

-----------------------------------------------------------------------------
LEMMA ChallengeKeepsIInv == IInv /\ Challenge => IInv'
  <1> SUFFICES ASSUME IInv, Challenge PROVE IInv'
    OBVIOUS
  <1>1. ASSUME NEW n \in NewNonce, NEW a \in Addresses, requestLoginChallenge(n, a)
        PROVE  IInv'
    BY <1>1, IssueStep DEF requestLoginChallenge
  <1>2. ASSUME NEW n \in NewNonce, NEW a \in Addresses, NEW u \in Users,
               requestWalletLinkChallenge(n, u, a)
        PROVE  IInv'
    BY <1>2, IssueStep DEF requestWalletLinkChallenge
  <1> QED BY <1>1, <1>2, ChallengeExpiresStep DEF Challenge

LEMMA SignInKeepsIInv == IInv /\ SignIn => IInv'
  BY login_knownStep, login_homeStep, login_registerStep, oauth_linkedStep,
     oauth_homeStep, oauth_registerStep DEF SignIn

LEMMA ManageKeepsIInv == IInv /\ Manage => IInv'
  BY linkOAuthIdentityStep, revokeOAuthIdentityStep, linkWalletStep,
     setPrimaryWalletStep, revokeWalletStep DEF Manage

LEMMA KeepKeepsIInv == IInv /\ Keep => IInv'
  BY refreshSessionStep, EndSessionStep, createStoreUserStep DEF Keep

LEMMA StutterKeepsIInv == IInv /\ UNCHANGED vars => IInv'
  <1> SUFFICES ASSUME IInv, UNCHANGED vars PROVE IInv'
    OBVIOUS
  <1>1. WalletRows' /\ RowsKept /\ HomesKept
    BY NothingMoves DEF IInv, vars
  <1>2. SessionsOK' /\ IdentitiesOK' /\ ChallengeType'
    BY <1>1, KeepSessions, KeepIdentities, KeepChallenges, ReferencesParts DEF IInv, vars
  <1> QED BY <1>1, <1>2, ReferencesParts DEF IInv

(* The inductive invariant of accounts: every wallet row's user has a row  *)
(* with the home address and an active one, and sessions and identities    *)
(* name rows of their own users.                                           *)
THEOREM AccountsInvariant == Spec => []IInv
  <1>1. IInv /\ [Next]_vars => IInv'
    BY ChallengeKeepsIInv, SignInKeepsIInv, ManageKeepsIInv, KeepKeepsIInv,
       StutterKeepsIInv DEF Next
  <1> QED BY <1>1, InitIInv, PTL DEF Spec

(* Every row has its columns, after any requests.                          *)
THEOREM TypeCorrect == Spec => []TypeOK
  <1>1. IInv => TypeOK
    BY DEF IInv, WalletRows, References, ChallengeType, TypeOK
  <1> QED BY <1>1, AccountsInvariant, PTL

(* One primary wallet per user and chain, however users sign in and link.  *)
THEOREM PrimaryIsUnique == Spec => []OnePrimary
  <1>1. IInv => OnePrimary
    BY DEF IInv, WalletRows
  <1> QED BY <1>1, AccountsInvariant, PTL

(* revokeWallet never takes the last active wallet of a user who signed in.*)
THEOREM AWalletIsKept == Spec => []KeepsAWallet
  <1>1. IInv => KeepsAWallet
    <2> SUFFICES ASSUME IInv, NEW u \in Users, SignedIn(u)
                 PROVE  \E w \in list_for_user(u) : is_active(w)
      BY DEF KeepsAWallet
    <2>1. PICK w \in Wallets : wallets[w].status # "NONE" /\ wallets[w].user = u
      BY SignedInHasRow DEF IInv
    <2> QED BY <2>1 DEF IInv, WalletRows, ActiveKept, list_for_user
  <1> QED BY <1>1, AccountsInvariant, PTL

(* No session is opened with somebody else's wallet, and no address has    *)
(* two owners on a chain.                                                  *)
THEOREM SessionsNameTheirOwn == Spec => []SessionWalletIsOwn
  <1>1. IInv => SessionWalletIsOwn
    BY DEF IInv, WalletRows, OneOwner, References, SessionsOwn, SessionWalletIsOwn
  <1> QED BY <1>1, AccountsInvariant, PTL
=============================================================================
